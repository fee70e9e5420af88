--------------------------- MODULE EnrollmentProofs ---------------------------
(* Proofs about Enrollment. *)
EXTENDS Enrollment, FiniteSetTheorems, TLAPS

\* The connection has burnt its token and has not inserted its node yet.
Holds(c) == pc[c] \in {"used", "expire", "cooldown", "create"}

Spent(t) == tokenSt[t] \in {"used", "deleted"}

\* Why a token is one-time: it is spent as soon as a connection holds it,
\* and it is held by one connection or recorded in one row.
TokenInv ==
  /\ \A c \in Conn : pc[c] \in {"select", "burn"} => tok[c] \in Token
  /\ \A c \in Conn : Holds(c) => tok[c] \in Token /\ Spent(tok[c])
  /\ \A c \in Conn : row[c] # None => pc[c] = "done" /\ Spent(row[c].token)
  /\ \A c, d \in Conn : (c # d /\ Holds(c) /\ Holds(d)) => tok[c] # tok[d]
  /\ \A c, d \in Conn : (Holds(c) /\ row[d] # None) => tok[c] # row[d].token
  /\ OneNodePerToken

\* Why addresses are distinct: revoked rows have none, and what AllocateIP
\* chose is a host address that the insert checks again.
AddrInv ==
  /\ \A c \in Conn : pc[c] = "create" => ip[c] \in HostAddr
  /\ \A c \in Conn : (row[c] # None /\ row[c].revoked) => row[c].ip = None
  /\ \A d \in del : row[d.node] # None
  /\ DistinctAddrs

IInv == TypeOK /\ TokenInv /\ AddrInv

\* None is neither an address nor a row.
LEMMA NoneFacts == /\ None \notin Addr /\ None \notin NodeRow
                   /\ HostAddr \subseteq Addr /\ None \notin HostAddr
  BY NoneAssumption, SizeAssumption, RowAssumption DEF Addr, HostAddr

------------------------------------------------------------------------------
(* Types                                                                   *)

\* Every step keeps the types, given what the other invariants say about the
\* token of a connection that inserts and the row of a node that is deleted.
LEMMA TypeStep == IInv /\ [Next]_vars => TypeOK'
<1> SUFFICES ASSUME IInv, [Next]_vars PROVE TypeOK'
  OBVIOUS
<1> USE DEF IInv, TypeOK, dbVars, locals, Goto, Step
<1>1. ASSUME NEW c \in Conn, NEW s \in Source, Enroll(c, s) PROVE TypeOK'
  BY <1>1 DEF Enroll, Recent
<1>2. ASSUME NEW c \in Conn, NEW t \in Token, ReadFrame(c, t) PROVE TypeOK'
  BY <1>2 DEF ReadFrame
<1>3. ASSUME NEW c \in Conn, BadFrame(c) \/ RejectCSR(c) PROVE TypeOK'
  BY <1>3 DEF BadFrame, RejectCSR
<1>4. ASSUME NEW c \in Conn, SelectToken(c) PROVE TypeOK'
  BY <1>4 DEF SelectToken
<1>5. ASSUME NEW c \in Conn, BurnToken(c) PROVE TypeOK'
  BY <1>5 DEF BurnToken
<1>6. ASSUME NEW c \in Conn, ReadUsed(c) PROVE TypeOK'
  <2>1. LiveAddrs \subseteq Addr \cup {None}
    BY DEF LiveAddrs, NodeRow
  <2> QED
    BY <1>6, <2>1 DEF ReadUsed
<1>7. ASSUME NEW c \in Conn, ExpireCooldown(c) PROVE TypeOK'
  BY <1>7 DEF ExpireCooldown, Unexpired
<1>8. ASSUME NEW c \in Conn, ReadCooldown(c) PROVE TypeOK'
  <2>1. FreeAddrs(c) \subseteq Addr
    BY NoneFacts DEF FreeAddrs
  <2> QED
    BY <1>8, <2>1 DEF ReadCooldown
<1>9. ASSUME NEW c \in Conn, CreateNode(c) PROVE TypeOK'
  <2>1. tok[c] \in Token
    BY <1>9 DEF CreateNode, TokenInv, Holds
  <2>2. [ip |-> ip[c], revoked |-> FALSE, token |-> tok[c]] \in NodeRow
    BY <2>1 DEF NodeRow
  <2>3. row' \in [Conn -> NodeRow \cup {None}]
    BY <1>9, <2>2 DEF CreateNode
  <2>4. pc' \in [Conn -> Step]
    BY <1>9 DEF CreateNode
  <2> QED
    BY <1>9, <2>3, <2>4 DEF CreateNode
<1>10. ASSUME NEW t \in Token, DeleteToken(t) PROVE TypeOK'
  BY <1>10 DEF DeleteToken
<1>11. ASSUME NEW t \in Token, NEW ttl \in Ttl, CreateToken(t, ttl) PROVE TypeOK'
  BY <1>11, TtlAssumption DEF CreateToken
<1>12. ASSUME NEW c \in Conn, DeleteNode(c) PROVE TypeOK'
  BY <1>12 DEF DeleteNode, Deletion, NodeRow
<1>13. ASSUME NEW d \in del, DeleteNodeTx(d) PROVE TypeOK'
  <2>1. d.node \in Conn /\ d.ip \in Addr \cup {None} /\ d.at \in Nat
    BY DEF Deletion
  <2>2. row[d.node].token \in Token
    BY <2>1 DEF AddrInv, NodeRow
  <2> QED
    BY <1>13, <2>1, <2>2 DEF DeleteNodeTx, NodeRow
<1>14. CASE HubRestart
  BY <1>14 DEF HubRestart
<1>15. CASE Tick
  BY <1>15 DEF Tick
<1>16. CASE UNCHANGED vars
  BY <1>16 DEF vars
<1> QED
  BY <1>1, <1>2, <1>3, <1>4, <1>5, <1>6, <1>7, <1>8, <1>9, <1>10, <1>11, <1>12, <1>13, <1>14,
     <1>15, <1>16 DEF Next, ConnStep, AdminStep

------------------------------------------------------------------------------
(* Tokens                                                                  *)

\* A step that changes no row, no token and no connection's token, and moves
\* no connection into a holding state.
Quiet ==
  /\ row' = row /\ tokenSt' = tokenSt /\ tok' = tok
  /\ \A c \in Conn : \/ pc'[c] = pc[c]
                     \/ pc'[c] \in {"read", "failed"} /\ row[c] = None
                     \/ pc'[c] = "burn" /\ pc[c] = "select"
                     \/ Holds(c) /\ pc'[c] \in {"expire", "cooldown", "create"}

\* Such a step keeps the token invariant.
LEMMA TokenIdle == IInv /\ Quiet => TokenInv'
  BY DEF IInv, TokenInv, Quiet, Holds, Spent, OneNodePerToken

\* Every step keeps the token invariant.
LEMMA TokenStep == IInv /\ [Next]_vars => TokenInv'
<1> SUFFICES ASSUME IInv, [Next]_vars PROVE TokenInv'
  OBVIOUS
<1>t. TypeOK /\ TokenInv
  BY DEF IInv
<1> USE DEF dbVars, locals, Goto
<1>r. \A c \in Conn : pc[c] # "done" => row[c] = None
  BY <1>t DEF TokenInv
<1>1. ASSUME NEW c \in Conn, NEW s \in Source, Enroll(c, s) PROVE TokenInv'
  <2>q. Quiet
    BY <1>1, <1>t, <1>r DEF Enroll, TypeOK, Quiet, Holds
  <2> QED
    BY <2>q, TokenIdle
<1>2. ASSUME NEW c \in Conn, NEW t \in Token, ReadFrame(c, t) PROVE TokenInv'
  <2>1. /\ UNCHANGED <<row, tokenSt>> /\ pc[c] = "read"
        /\ \A d \in Conn : /\ pc'[d] = IF d = c THEN "select" ELSE pc[d]
                           /\ tok'[d] = IF d = c THEN t ELSE tok[d]
    BY <1>2, <1>t DEF ReadFrame, TypeOK
  <2> QED
    BY <1>t, <2>1 DEF TokenInv, Holds, Spent, OneNodePerToken
<1>3. ASSUME NEW c \in Conn, BadFrame(c) \/ RejectCSR(c) PROVE TokenInv'
  <2>q. Quiet
    BY <1>3, <1>t, <1>r DEF BadFrame, RejectCSR, TypeOK, Quiet, Holds
  <2> QED
    BY <2>q, TokenIdle
<1>4. ASSUME NEW c \in Conn, SelectToken(c) PROVE TokenInv'
  <2>q. Quiet
    BY <1>4, <1>t, <1>r DEF SelectToken, TypeOK, Quiet, Holds
  <2> QED
    BY <2>q, TokenIdle
<1>5. ASSUME NEW c \in Conn, BurnToken(c) PROVE TokenInv'
  <2>1. CASE tokenSt[tok[c]] = "valid"
    <3>1. tok[c] \in Token /\ pc[c] = "burn" /\ UNCHANGED <<row, tok>>
      BY <1>5, <1>t DEF BurnToken, TokenInv
    <3>2. /\ \A d \in Conn : pc'[d] = IF d = c THEN "used" ELSE pc[d]
          /\ \A t \in Token : tokenSt'[t] = IF t = tok[c] THEN "used" ELSE tokenSt[t]
      BY <1>5, <2>1, <1>t DEF BurnToken, TypeOK
    <3>3. \A d \in Conn : Holds(d) => tok[d] # tok[c]
      BY <2>1, <1>t DEF TokenInv, Spent
    <3>4. \A d \in Conn : row[d] # None => row[d].token \in Token /\ row[d].token # tok[c]
      BY <2>1, <1>t DEF TokenInv, Spent, TypeOK, NodeRow
    <3> QED
      BY <1>t, <3>1, <3>2, <3>3, <3>4 DEF TokenInv, Holds, Spent, OneNodePerToken
  <2>2. CASE tokenSt[tok[c]] # "valid"
    <3>q. Quiet
      BY <1>5, <2>2, <1>t, <1>r DEF BurnToken, TypeOK, Quiet, Holds
    <3> QED
      BY <3>q, TokenIdle
  <2> QED
    BY <2>1, <2>2
<1>6. ASSUME NEW c \in Conn, ReadUsed(c) PROVE TokenInv'
  <2>q. Quiet
    BY <1>6, <1>t DEF ReadUsed, TypeOK, Holds, Quiet
  <2> QED
    BY <2>q, TokenIdle
<1>7. ASSUME NEW c \in Conn, ExpireCooldown(c) PROVE TokenInv'
  <2>q. Quiet
    BY <1>7, <1>t DEF ExpireCooldown, TypeOK, Holds, Quiet
  <2> QED
    BY <2>q, TokenIdle
<1>8. ASSUME NEW c \in Conn, ReadCooldown(c) PROVE TokenInv'
  <2>q. Quiet
    BY <1>8, <1>t, <1>r DEF ReadCooldown, TypeOK, Holds, Quiet
  <2> QED
    BY <2>q, TokenIdle
<1>9. ASSUME NEW c \in Conn, CreateNode(c) PROVE TokenInv'
  <2>1. CASE Taken(ip[c])
    <3>q. Quiet
      BY <1>9, <2>1, <1>t, <1>r DEF CreateNode, TypeOK, Quiet, Holds
    <3> QED
      BY <3>q, TokenIdle
  <2>2. CASE ~Taken(ip[c])
    <3> DEFINE new == [ip |-> ip[c], revoked |-> FALSE, token |-> tok[c]]
    <3>1. Holds(c) /\ tok[c] \in Token /\ row[c] = None /\ UNCHANGED <<tok, tokenSt>>
      BY <1>9, <1>t, <1>r DEF CreateNode, Holds, TokenInv
    <3>2. new.token = tok[c] /\ new # None
      <4>1. new \in NodeRow
        BY <3>1, <1>t DEF NodeRow, TypeOK
      <4> QED
        BY <4>1, NoneFacts
    <3>3. \A d \in Conn : /\ pc'[d] = IF d = c THEN "done" ELSE pc[d]
                          /\ row'[d] = IF d = c THEN new ELSE row[d]
      BY <1>9, <2>2, <1>t DEF CreateNode, TypeOK
    <3> HIDE DEF new
    <3> QED
      BY <1>t, <3>1, <3>2, <3>3 DEF TokenInv, Holds, Spent, OneNodePerToken
  <2> QED
    BY <2>1, <2>2
<1>10. ASSUME NEW t \in Token, DeleteToken(t) PROVE TokenInv'
  <2>1. /\ UNCHANGED <<row, tok, pc>>
        /\ \A u \in Token : tokenSt'[u] = IF u = t THEN "deleted" ELSE tokenSt[u]
    BY <1>10, <1>t DEF DeleteToken, TypeOK
  <2>2. \A d \in Conn : row[d] # None => row[d].token \in Token
    BY <1>t DEF TypeOK, NodeRow
  <2> QED
    BY <1>t, <2>1, <2>2 DEF TokenInv, Holds, Spent, OneNodePerToken
<1>11. ASSUME NEW t \in Token, NEW ttl \in Ttl, CreateToken(t, ttl) PROVE TokenInv'
  <2>1. /\ UNCHANGED <<row, tok, pc>> /\ tokenSt[t] = "new"
        /\ \A u \in Token : tokenSt'[u] = IF u = t THEN "valid" ELSE tokenSt[u]
    BY <1>11, <1>t DEF CreateToken, TypeOK
  <2>2. \A d \in Conn : row[d] # None => row[d].token \in Token
    BY <1>t DEF TypeOK, NodeRow
  <2> QED
    BY <1>t, <2>1, <2>2 DEF TokenInv, Holds, Spent, OneNodePerToken
<1>12. ASSUME NEW c \in Conn, DeleteNode(c) PROVE TokenInv'
  <2>q. Quiet
    BY <1>12, <1>t DEF DeleteNode, Quiet, Holds
  <2> QED
    BY <2>q, TokenIdle
<1>13. ASSUME NEW d \in del, DeleteNodeTx(d) PROVE TokenInv'
  <2> DEFINE c == d.node
             new == [ip |-> None, revoked |-> TRUE, token |-> row[c].token]
  <2>1. c \in Conn /\ row[c] # None
    BY <1>t DEF IInv, AddrInv, TypeOK, Deletion
  <2>2. new.token = row[c].token /\ new # None
    <3>1. row[c] \in NodeRow
      BY <2>1, <1>t DEF TypeOK
    <3>2. new \in NodeRow
      BY <3>1 DEF NodeRow
    <3> QED
      BY <3>2, NoneFacts
  <2>3. \A x \in Conn : row'[x] = IF x = c THEN new ELSE row[x]
    BY <1>13, <2>1, <1>t DEF DeleteNodeTx, TypeOK
  <2>4. UNCHANGED <<tok, tokenSt, pc>>
    BY <1>13 DEF DeleteNodeTx
  <2> HIDE DEF new, c
  <2> QED
    BY <1>t, <2>1, <2>2, <2>3, <2>4 DEF TokenInv, Holds, Spent, OneNodePerToken
<1>14. CASE HubRestart
  <2>1. \A c \in Conn : pc'[c] = pc[c] \/ (pc'[c] = "failed" /\ row[c] = None)
    BY <1>14, <1>t, <1>r DEF HubRestart, TypeOK
  <2>2. Quiet
    BY <1>14, <2>1 DEF HubRestart, Quiet
  <2> QED
    BY <2>2, TokenIdle
<1>15. CASE Tick
  <2>q. Quiet
    BY <1>15 DEF Tick, Quiet, Holds
  <2> QED
    BY <2>q, TokenIdle
<1>16. CASE UNCHANGED vars
  <2>q. Quiet
    BY <1>16 DEF vars, Quiet, Holds
  <2> QED
    BY <2>q, TokenIdle
<1> QED
  BY <1>1, <1>2, <1>3, <1>4, <1>5, <1>6, <1>7, <1>8, <1>9, <1>10, <1>11, <1>12, <1>13, <1>14,
     <1>15, <1>16 DEF Next, ConnStep, AdminStep

------------------------------------------------------------------------------
(* Addresses                                                               *)

\* A step that inserts and deletes no node and chooses no address.
AddrQuiet ==
  /\ row' = row /\ ip' = ip
  /\ \A d \in del' : d \in del \/ row[d.node] # None
  /\ \A c \in Conn : pc'[c] = "create" => pc[c] = "create"

\* Such a step keeps the address invariant.
LEMMA AddrIdle == IInv /\ AddrQuiet => AddrInv'
  BY DEF IInv, AddrInv, AddrQuiet, DistinctAddrs

\* Every step keeps the address invariant.
LEMMA AddrStep == IInv /\ [Next]_vars => AddrInv'
<1> SUFFICES ASSUME IInv, [Next]_vars PROVE AddrInv'
  OBVIOUS
<1>t. TypeOK /\ AddrInv
  BY DEF IInv
<1> USE DEF dbVars, locals, Goto
<1>1. ASSUME NEW c \in Conn, ReadCooldown(c) PROVE AddrInv'
  <2>1. UNCHANGED <<row, del>>
    BY <1>1 DEF ReadCooldown
  <2>2. \A x \in Conn : pc'[x] = "create" => ip'[x] \in HostAddr
    BY <1>1, <1>t DEF ReadCooldown, FreeAddrs, AddrInv, TypeOK
  <2> QED
    BY <2>1, <2>2, <1>t DEF AddrInv, DistinctAddrs
<1>2. ASSUME NEW c \in Conn, CreateNode(c) PROVE AddrInv'
  <2>1. CASE Taken(ip[c])
    <3>1. AddrQuiet
      BY <1>2, <2>1, <1>t DEF CreateNode, AddrQuiet, TypeOK, AddrInv
    <3> QED
      BY <3>1, AddrIdle
  <2>2. CASE ~Taken(ip[c])
    <3> DEFINE new == [ip |-> ip[c], revoked |-> FALSE, token |-> tok[c]]
    <3>1. new.ip = ip[c] /\ ~new.revoked /\ ip[c] \in HostAddr
      BY <1>2, <1>t DEF CreateNode, AddrInv
    <3>2. new # None
      <4>1. tok[c] \in Token
        BY <1>2 DEF CreateNode, IInv, TokenInv, Holds
      <4>2. new \in NodeRow
        BY <4>1, <1>t DEF NodeRow, TypeOK
      <4> QED
        BY <4>2, NoneFacts
    <3>3. \A d \in Conn : /\ row'[d] = IF d = c THEN new ELSE row[d]
                          /\ pc'[d] = IF d = c THEN "done" ELSE pc[d]
      BY <1>2, <2>2, <1>t DEF CreateNode, TypeOK
    <3>4. \A d \in Conn : row[d] # None => row[d].ip # ip[c]
      BY <2>2 DEF Taken
    <3>5. UNCHANGED <<ip, del>> /\ \A d \in del : d.node \in Conn
      BY <1>2, <1>t DEF CreateNode, TypeOK, Deletion
    <3> HIDE DEF new
    <3> QED
      BY <1>t, <3>1, <3>2, <3>3, <3>4, <3>5 DEF AddrInv, DistinctAddrs
  <2> QED
    BY <2>1, <2>2
<1>3. ASSUME NEW d \in del, DeleteNodeTx(d) PROVE AddrInv'
  <2> DEFINE c == d.node
             new == [ip |-> None, revoked |-> TRUE, token |-> row[c].token]
  <2>1. c \in Conn /\ row[c] # None
    BY <1>t DEF AddrInv, TypeOK, Deletion
  <2>2. new.ip = None /\ new.revoked /\ new # None
    <3>1. row[c] \in NodeRow
      BY <2>1, <1>t DEF TypeOK
    <3>2. new \in NodeRow
      BY <3>1 DEF NodeRow
    <3> QED
      BY <3>2, NoneFacts
  <2>3. \A x \in Conn : row'[x] = IF x = c THEN new ELSE row[x]
    BY <1>3, <2>1, <1>t DEF DeleteNodeTx, TypeOK
  <2>4. UNCHANGED <<pc, ip>> /\ del' \subseteq del /\ \A x \in del : x.node \in Conn
    BY <1>3, <1>t DEF DeleteNodeTx, TypeOK, Deletion
  <2> HIDE DEF new, c
  <2> QED
    BY <1>t, <2>1, <2>2, <2>3, <2>4, NoneFacts DEF AddrInv, DistinctAddrs
<1>4. ASSUME NEW c \in Conn, DeleteNode(c) PROVE AddrInv'
  <2>1. row' = row /\ ip' = ip /\ pc' = pc /\ row[c] # None
        /\ del' = del \cup {[node |-> c, ip |-> row[c].ip, at |-> clock]}
    BY <1>4 DEF DeleteNode
  <2>2. AddrQuiet
    BY <2>1 DEF AddrQuiet
  <2> QED
    BY <2>2, AddrIdle
<1>5. ASSUME NEW c \in Conn, ConnStep(c), ~ReadCooldown(c), ~CreateNode(c) PROVE AddrInv'
  <2>1. AddrQuiet
    BY <1>5, <1>t DEF ConnStep, Enroll, ReadFrame, BadFrame, SelectToken, BurnToken, ReadUsed,
                      ExpireCooldown, RejectCSR, AddrQuiet, TypeOK
  <2> QED
    BY <2>1, AddrIdle
<1>6. ASSUME NEW t \in Token, DeleteToken(t) \/ \E ttl \in Ttl : CreateToken(t, ttl)
      PROVE  AddrInv'
  <2>1. AddrQuiet
    BY <1>6 DEF DeleteToken, CreateToken, AddrQuiet
  <2> QED
    BY <2>1, AddrIdle
<1>7. CASE HubRestart \/ Tick \/ UNCHANGED vars
  <2>1. AddrQuiet
    BY <1>7, <1>t DEF HubRestart, Tick, vars, AddrQuiet, TypeOK
  <2> QED
    BY <2>1, AddrIdle
<1> QED
  BY <1>1, <1>2, <1>3, <1>4, <1>5, <1>6, <1>7 DEF Next, AdminStep

------------------------------------------------------------------------------
(* The rate limit                                                          *)

\* Why pruning is harmless: an attempt leaves the list only when it is older
\* than the window, and no attempt is counted twice.
RateInv ==
  /\ \A c \in Conn : began[c] # None => pc[c] # "idle" /\ began[c] <= clock
  /\ \A s \in Source : \A c \in tries[s] : began[c] # None
  /\ \A c \in Conn : \A s \in Source :
       (began[c] # None /\ src[c] = s /\ clock - began[c] < Window) => c \in tries[s]
  /\ \A s \in Source : \A t \in Nat : Cardinality(Started(s, t)) <= MaxTries

\* A step that starts no enrollment.
RateQuiet ==
  /\ UNCHANGED <<tries, began, src>>
  /\ clock' \in Nat /\ clock <= clock'
  /\ \A c \in Conn : pc'[c] = "idle" => pc[c] = "idle"

\* Such a step keeps the rate invariant.
LEMMA RateIdle == TypeOK /\ RateInv /\ RateQuiet => RateInv'
<1> SUFFICES ASSUME TypeOK, RateInv, RateQuiet PROVE RateInv'
  OBVIOUS
<1>1. \A s \in Source : \A t \in Nat : Started(s, t)' = Started(s, t)
  BY DEF RateQuiet, Started
<1>2. \A s \in Source : \A t \in Nat : Cardinality(Started(s, t))' <= MaxTries
  BY <1>1 DEF RateInv
<1>3. \A c \in Conn : began[c] # None => began[c] \in Nat
  BY DEF TypeOK
<1> QED
  BY <1>2, <1>3, RateAssumption DEF RateInv, RateQuiet, TypeOK

\* An attempt keeps the rate invariant: the enrollments started in a window
\* that holds the present are all among the recent ones.
LEMMA RateEnroll ==
  ASSUME TypeOK, RateInv, NEW c \in Conn, NEW s \in Source, Enroll(c, s)
  PROVE  RateInv'
<1>1. /\ pc[c] = "idle" /\ clock' = clock /\ clock \in Nat /\ began[c] = None
      /\ \A d \in Conn : src'[d] = IF d = c THEN s ELSE src[d]
      /\ \A d \in Conn : began[d] # None => began[d] \in Nat
  BY DEF Enroll, RateInv, TypeOK
<1>4. /\ \A r \in Source : tries[r] \subseteq Conn
      /\ Recent(s) \subseteq tries[s]
      /\ \A d \in tries[s] : clock - began[d] < Window => d \in Recent(s)
  BY DEF Recent, TypeOK
<1>2. CASE EnrollAllowed(s)
  <2>1. /\ \A d \in Conn : began'[d] = IF d = c THEN clock ELSE began[d]
        /\ \A d \in Conn : pc'[d] = IF d = c THEN "read" ELSE pc[d]
        /\ \A r \in Source : tries'[r] = IF r = s THEN Recent(s) \cup {c} ELSE tries[r]
    BY <1>2 DEF Enroll, Goto, TypeOK
  <2>2. clock # None
    BY <1>1, NoneAssumption
  <2>3. Recent(s) \subseteq Conn /\ IsFiniteSet(Recent(s))
    <3>1. Recent(s) \subseteq Conn
      BY DEF Recent, TypeOK
    <3> QED
      BY <3>1, ConnAssumption, FS_Subset
  <2>4. Cardinality(Recent(s)) \in Nat /\ Cardinality(Recent(s)) + 1 <= MaxTries
    BY <1>2, <2>3, FS_CardinalityType, RateAssumption DEF EnrollAllowed
  <2>5. ASSUME NEW r \in Source, NEW t \in Nat
        PROVE  Cardinality(Started(r, t))' <= MaxTries
    <3>1. CASE r = s /\ clock \in t .. t + Window - 1
      <4>1. Started(s, t)' \subseteq Recent(s) \cup {c}
        BY <3>1, <1>1, <2>1, RateAssumption DEF Started, Recent, RateInv
      <4>2. /\ IsFiniteSet(Recent(s) \cup {c})
            /\ Cardinality(Recent(s) \cup {c}) <= MaxTries
            /\ Cardinality(Recent(s) \cup {c}) \in Nat
        <5>1. /\ IsFiniteSet(Recent(s) \cup {c})
              /\ Cardinality(Recent(s) \cup {c}) =
                   IF c \in Recent(s) THEN Cardinality(Recent(s)) ELSE Cardinality(Recent(s)) + 1
          BY <2>3, FS_AddElement
        <5> QED
          BY <5>1, <2>4, RateAssumption
      <4>3. /\ IsFiniteSet(Started(s, t)')
            /\ Cardinality(Started(s, t)') <= Cardinality(Recent(s) \cup {c})
        BY <4>1, <4>2, FS_Subset
      <4>4. Cardinality(Started(s, t)') \in Nat
        BY <4>3, FS_CardinalityType
      <4> QED
        BY <3>1, <4>2, <4>3, <4>4, RateAssumption
    <3>2. CASE ~(r = s /\ clock \in t .. t + Window - 1)
      <4>1. Started(r, t)' = Started(r, t)
        BY <3>2, <1>1, <2>1, <2>2 DEF Started
      <4> QED
        BY <4>1 DEF RateInv
    <3> QED
      BY <3>1, <3>2
  <2>6. \A d \in Conn : began'[d] # None => pc'[d] # "idle" /\ began'[d] <= clock'
    BY <1>1, <2>1 DEF RateInv
  <2>7. ASSUME NEW r \in Source, NEW d \in tries'[r] PROVE began'[d] # None
    <3>1. d = c \/ (d \in Conn /\ d \in tries[r])
      BY <1>4, <2>1
    <3>2. CASE d = c
      BY <3>2, <2>1, <2>2
    <3>3. CASE d # c
      BY <3>1, <3>3, <2>1 DEF RateInv
    <3> QED
      BY <3>2, <3>3
  <2>8. ASSUME NEW d \in Conn, NEW r \in Source,
               began'[d] # None, src'[d] = r, clock' - began'[d] < Window
        PROVE  d \in tries'[r]
    <3>1. CASE d = c
      BY <3>1, <2>8, <1>1, <2>1
    <3>2. CASE d # c
      <4>1. began'[d] = began[d] /\ src[d] = r /\ clock - began[d] < Window
        BY <3>2, <2>8, <1>1, <2>1
      <4>2. d \in tries[r]
        BY <4>1, <2>8 DEF RateInv
      <4> QED
        BY <4>1, <4>2, <2>1, <1>4
    <3> QED
      BY <3>1, <3>2
  <2> QED
    BY <2>5, <2>6, <2>7, <2>8 DEF RateInv
<1>3. CASE ~EnrollAllowed(s)
  <2>1. /\ began' = began
        /\ \A d \in Conn : pc'[d] = IF d = c THEN "failed" ELSE pc[d]
        /\ \A r \in Source : tries'[r] = IF r = s THEN Recent(s) ELSE tries[r]
    BY <1>3 DEF Enroll, Goto, TypeOK
  <2>2. \A r \in Source : \A t \in Nat : Started(r, t)' = Started(r, t)
    BY <1>1, <2>1 DEF Started
  <2>3. \A r \in Source : \A t \in Nat : Cardinality(Started(r, t))' <= MaxTries
    BY <2>2 DEF RateInv
  <2>4. \A r \in Source : \A d \in tries'[r] : began'[d] # None
    BY <1>4, <2>1 DEF RateInv
  <2>5. ASSUME NEW d \in Conn, NEW r \in Source,
               began'[d] # None, src'[d] = r, clock' - began'[d] < Window
        PROVE  d \in tries'[r]
    <3>1. d # c
      BY <2>5, <1>1, <2>1
    <3>2. src[d] = r /\ clock - began[d] < Window /\ began[d] # None
      BY <3>1, <2>5, <1>1, <2>1
    <3>3. d \in tries[r]
      BY <3>2 DEF RateInv
    <3> QED
      BY <3>2, <3>3, <2>1, <1>4
  <2>6. \A d \in Conn : began'[d] # None => pc'[d] # "idle" /\ began'[d] <= clock'
    BY <1>1, <2>1 DEF RateInv
  <2> QED
    BY <2>3, <2>4, <2>5, <2>6 DEF RateInv
<1> QED
  BY <1>2, <1>3

\* Every step keeps the rate invariant.
LEMMA RateStep == TypeOK /\ RateInv /\ [Next]_vars => RateInv'
<1> SUFFICES ASSUME TypeOK, RateInv, [Next]_vars PROVE RateInv'
  OBVIOUS
<1>1. ASSUME NEW c \in Conn, NEW s \in Source, Enroll(c, s) PROVE RateInv'
  BY <1>1, RateEnroll
<1>2. ASSUME NEW c \in Conn, ConnStep(c), ~\E s \in Source : Enroll(c, s) PROVE RateInv'
  <2>1. RateQuiet
    BY <1>2 DEF ConnStep, ReadFrame, BadFrame, SelectToken, BurnToken, ReadUsed, ExpireCooldown,
                ReadCooldown, RejectCSR, CreateNode, RateQuiet, TypeOK, Goto, dbVars, locals
  <2> QED
    BY <2>1, RateIdle
<1>3. CASE AdminStep \/ Tick \/ UNCHANGED vars
  <2>1. RateQuiet
    <3>1. CASE AdminStep
      <4>1. UNCHANGED <<tries, began, src, clock, pc>>
        BY <3>1 DEF AdminStep, DeleteToken, CreateToken, DeleteNode, DeleteNodeTx, locals
      <4> QED
        BY <4>1 DEF RateQuiet, TypeOK
    <3>2. CASE Tick
      BY <3>2 DEF Tick, RateQuiet, TypeOK, locals
    <3>3. CASE UNCHANGED vars
      BY <3>3 DEF vars, RateQuiet, TypeOK, locals
    <3> QED
      BY <1>3, <3>1, <3>2, <3>3
  <2> QED
    BY <2>1, RateIdle
<1>4. CASE HubRestart
  <2>1. /\ \A c \in Conn : began'[c] = None
        /\ \A s \in Source : tries'[s] = {}
    BY <1>4 DEF HubRestart
  <2>2. \A s \in Source : \A t \in Nat : Started(s, t)' = {}
    BY <2>1 DEF Started
  <2>3. \A s \in Source : \A t \in Nat : Cardinality(Started(s, t))' <= MaxTries
    BY <2>2, FS_EmptySet, RateAssumption
  <2> QED
    BY <2>1, <2>3 DEF RateInv
<1> QED
  BY <1>1, <1>2, <1>3, <1>4 DEF Next

------------------------------------------------------------------------------
(* The cooldown of addresses                                               *)

\* A released address stays in the table while it cools down, whatever the
\* expiries of AllocateIP remove, and an address chosen from the table is
\* cold or was released after the reading.
Cold(a) == freed[a] = None \/ clock - freed[a] > Cooldown

CoolInv ==
  /\ \A c \in Conn : at[c] <= clock
  /\ \A a \in Addr : ~Cold(a) => cooldown[a] = freed[a]
  /\ \A c \in Conn : pc[c] = "create" => ip[c] \in late[c] \/ Cold(ip[c])

\* A step that releases no address and moves no connection to its insert.
CoolQuiet ==
  /\ UNCHANGED <<clock, at, cooldown, freed, late, ip>>
  /\ \A c \in Conn : pc'[c] = "create" => pc[c] = "create"

\* Such a step keeps the cooldown invariant.
LEMMA CoolIdle == CoolInv /\ CoolQuiet => CoolInv'
  BY DEF CoolInv, CoolQuiet, Cold

\* Every step keeps the cooldown invariant.
LEMMA CoolStep == IInv /\ CoolInv /\ [Next]_vars => CoolInv'
<1> SUFFICES ASSUME IInv, CoolInv, [Next]_vars PROVE CoolInv'
  OBVIOUS
<1>t. TypeOK /\ AddrInv
  BY DEF IInv
<1> USE DEF dbVars, locals, Goto
<1>1. ASSUME NEW c \in Conn, NEW t \in Token, ReadFrame(c, t) PROVE CoolInv'
  <2>1. /\ UNCHANGED <<clock, cooldown, freed, late, ip>>
        /\ \A d \in Conn : /\ at'[d] = IF d = c THEN clock ELSE at[d]
                           /\ pc'[d] = IF d = c THEN "select" ELSE pc[d]
    BY <1>1, <1>t DEF ReadFrame, TypeOK
  <2> QED
    BY <1>t, <2>1 DEF CoolInv, Cold, TypeOK
<1>2. ASSUME NEW c \in Conn, ExpireCooldown(c) PROVE CoolInv'
  <2>1. /\ UNCHANGED <<clock, at, freed, late, ip>>
        /\ \A d \in Conn : pc'[d] = IF d = c THEN "cooldown" ELSE pc[d]
        /\ \A a \in Addr : cooldown'[a] = IF cooldown[a] # None /\ cooldown[a] < at[c] - Cooldown
                                            THEN None ELSE cooldown[a]
    BY <1>2, <1>t DEF ExpireCooldown, Unexpired, TypeOK
  <2>2. ASSUME NEW a \in Addr, ~Cold(a) PROVE cooldown'[a] = freed[a]
    <3>1. cooldown[a] = freed[a] /\ freed[a] # None /\ clock - freed[a] <= Cooldown
      BY <2>2, <1>t, CooldownAssumption DEF CoolInv, Cold, TypeOK
    <3>2. freed[a] \in Nat /\ clock \in Nat /\ at[c] \in Nat /\ at[c] <= clock
      BY <3>1, <1>t DEF CoolInv, TypeOK
    <3>3. ~(cooldown[a] < at[c] - Cooldown)
      BY <3>1, <3>2, CooldownAssumption
    <3> QED
      BY <2>1, <3>1, <3>3
  <2> QED
    BY <2>1, <2>2 DEF CoolInv, Cold
<1>3. ASSUME NEW c \in Conn, ReadCooldown(c) PROVE CoolInv'
  <2>1. /\ UNCHANGED <<clock, at, freed, cooldown>>
        /\ \A d \in Conn : late'[d] = IF d = c THEN {} ELSE late[d]
        /\ \A d \in Conn \ {c} : pc'[d] = pc[d] /\ ip'[d] = ip[d]
    BY <1>3, <1>t DEF ReadCooldown, TypeOK
  <2>2. pc'[c] = "create" => ip'[c] \in FreeAddrs(c)
    BY <1>3, <1>t DEF ReadCooldown, TypeOK
  <2>3. \A a \in FreeAddrs(c) : a \in Addr /\ cooldown[a] = None
    BY NoneFacts DEF FreeAddrs
  <2>4. ASSUME NEW a \in Addr, cooldown[a] = None PROVE Cold(a)
    BY <2>4 DEF CoolInv, Cold
  <2>5. pc'[c] = "create" => Cold(ip'[c])
    BY <2>2, <2>3, <2>4
  <2> QED
    BY <2>1, <2>5 DEF CoolInv, Cold
<1>4. ASSUME NEW d \in del, DeleteNodeTx(d) PROVE CoolInv'
  <2>1. d.ip \in Addr \cup {None} /\ d.at \in Nat
    BY <1>t DEF TypeOK, Deletion
  <2>2. CASE d.ip = None
    <3>1. CoolQuiet
      BY <1>4, <2>2 DEF DeleteNodeTx, CoolQuiet
    <3> QED
      BY <3>1, CoolIdle
  <2>3. CASE d.ip # None
    <3>1. PICK a \in Addr : a = d.ip
      BY <2>1, <2>3
    <3>2. /\ UNCHANGED <<clock, at, pc, ip>>
          /\ \A b \in Addr : /\ cooldown'[b] = IF b = a THEN d.at ELSE cooldown[b]
                             /\ freed'[b] = IF b = a THEN d.at ELSE freed[b]
          /\ \A x \in Conn : late'[x] = IF pc[x] = "create" THEN late[x] \cup {a} ELSE late[x]
      BY <1>4, <1>t, <2>3, <3>1 DEF DeleteNodeTx, TypeOK
    <3>3. \A x \in Conn : pc[x] = "create" => ip[x] \in Addr
      BY <1>t, NoneFacts DEF AddrInv
    <3> QED
      BY <3>2, <3>3 DEF CoolInv, Cold
  <2> QED
    BY <2>2, <2>3
<1>5. CASE Tick
  <2>1. /\ UNCHANGED <<at, pc, ip, cooldown, freed, late>> /\ clock' = clock + 1
    BY <1>5 DEF Tick
  <2>2. ASSUME NEW a \in Addr, Cold(a) PROVE Cold(a)'
    BY <2>1, <2>2, <1>t, CooldownAssumption DEF Cold, TypeOK
  <2>3. \A x \in Conn : pc[x] = "create" => ip[x] \in Addr
    BY <1>t, NoneFacts DEF AddrInv
  <2>4. \A x \in Conn : at[x] <= clock + 1
    BY <1>t DEF CoolInv, TypeOK
  <2>5. \A a \in Addr : ~Cold(a)' => cooldown[a] = freed[a]
    BY <2>2 DEF CoolInv
  <2>6. ASSUME NEW x \in Conn, pc[x] = "create" PROVE ip[x] \in late[x] \/ Cold(ip[x])'
    <3>1. PICK a \in Addr : a = ip[x]
      BY <2>3, <2>6
    <3>2. a \in late[x] \/ Cold(a)
      BY <3>1, <2>6 DEF CoolInv
    <3>3. a \in late[x] \/ Cold(a)'
      BY <3>2, <2>2
    <3> QED
      BY <3>1, <3>3, <2>1 DEF Cold
  <2> QED
    BY <2>1, <2>4, <2>5, <2>6 DEF CoolInv, Cold
<1>6. CASE HubRestart
  <2>1. CoolQuiet
    BY <1>6, <1>t DEF HubRestart, CoolQuiet, TypeOK
  <2> QED
    BY <2>1, CoolIdle
<1>7. ASSUME NEW c \in Conn, NEW s \in Source, Enroll(c, s) PROVE CoolInv'
  <2>1. CoolQuiet
    BY <1>7, <1>t DEF Enroll, CoolQuiet, TypeOK
  <2> QED
    BY <2>1, CoolIdle
<1>8. ASSUME NEW c \in Conn,
             BadFrame(c) \/ SelectToken(c) \/ BurnToken(c) \/ ReadUsed(c) \/ RejectCSR(c)
               \/ CreateNode(c)
      PROVE CoolInv'
  <2>1. CoolQuiet
    BY <1>8, <1>t DEF BadFrame, SelectToken, BurnToken, ReadUsed, RejectCSR, CreateNode,
                      CoolQuiet, TypeOK
  <2> QED
    BY <2>1, CoolIdle
<1>9. ASSUME \/ \E t \in Token : DeleteToken(t) \/ \E ttl \in Ttl : CreateToken(t, ttl)
             \/ \E c \in Conn : DeleteNode(c)
             \/ UNCHANGED vars
      PROVE CoolInv'
  <2>1. CoolQuiet
    BY <1>9 DEF DeleteToken, CreateToken, DeleteNode, vars, CoolQuiet
  <2> QED
    BY <2>1, CoolIdle
<1> QED
  BY <1>1, <1>2, <1>3, <1>4, <1>5, <1>6, <1>7, <1>8, <1>9 DEF Next, ConnStep, AdminStep

------------------------------------------------------------------------------
(* Theorems                                                                *)

\* The invariants hold initially.
LEMMA InitInv == Init => IInv /\ RateInv
<1> SUFFICES ASSUME Init PROVE IInv /\ RateInv
  OBVIOUS
<1>1. TypeOK
  BY DEF Init, TypeOK, Step
<1>2. TokenInv
  BY DEF Init, TokenInv, Holds, OneNodePerToken
<1>3. AddrInv
  BY DEF Init, AddrInv, DistinctAddrs
<1>4. RateInv
  <2>1. \A s \in Source : \A t \in Nat : Started(s, t) = {}
    BY DEF Init, Started
  <2>2. \A s \in Source : \A t \in Nat : Cardinality(Started(s, t)) <= MaxTries
    BY <2>1, FS_EmptySet, RateAssumption
  <2> QED
    BY <2>2 DEF Init, RateInv
<1> QED
  BY <1>1, <1>2, <1>3, <1>4 DEF IInv

\* The inductive invariant holds in every reachable state.
LEMMA InvHolds == Spec => [](IInv /\ RateInv)
<1>1. (IInv /\ RateInv) /\ [Next]_vars => (IInv /\ RateInv)'
  BY TypeStep, TokenStep, AddrStep, RateStep DEF IInv
<1> QED
  BY InitInv, <1>1, PTL DEF Spec

\* Every variable keeps its type (all of handleEnroll and its store calls).
THEOREM TypeCorrect == Spec => []TypeOK
<1>1. IInv => TypeOK
  BY DEF IInv
<1> QED
  BY InvHolds, <1>1, PTL

\* A token admits at most one node, for any number of connections racing for
\* any number of tokens (ConsumeToken, CreateNode).
THEOREM TokenIsOneTime == Spec => []OneNodePerToken
<1>1. IInv => OneNodePerToken
  BY DEF IInv, TokenInv
<1> QED
  BY InvHolds, <1>1, PTL

\* Nodes have distinct host addresses, for a network of any size and however
\* stale the reading that AllocateIP chose from (CreateNode, DeleteNode).
THEOREM AddressesAreDistinct == Spec => []DistinctAddrs
<1>1. IInv => DistinctAddrs
  BY DEF IInv, AddrInv
<1> QED
  BY InvHolds, <1>1, PTL

\* The rate limit holds in every window, for any limit and any window length
\* (enrollAllowed).
THEOREM RateIsBounded == Spec => []RateBound
<1>1. IInv /\ RateInv => RateBound
  BY DEF IInv, TypeOK, RateInv, RateBound
<1> QED
  BY InvHolds, <1>1, PTL

\* A step that gives a connection its row is its CreateNode.
LEMMA InsertIsCreate ==
  ASSUME IInv, [Next]_vars, NEW c \in Conn, row[c] = None, row'[c] # None
  PROVE  pc[c] = "create" /\ row'[c].ip = ip[c]
<1> USE DEF IInv, TypeOK, dbVars, locals
<1>1. ASSUME NEW d \in Conn, CreateNode(d) PROVE pc[c] = "create" /\ row'[c].ip = ip[c]
  BY <1>1 DEF CreateNode
<1>2. ASSUME NEW d \in del, DeleteNodeTx(d) PROVE FALSE
  <2>1. d.node \in Conn /\ d.node # c
    BY DEF AddrInv, Deletion
  <2> QED
    BY <1>2, <2>1 DEF DeleteNodeTx
<1>3. ASSUME NEW d \in Conn, ConnStep(d), ~CreateNode(d) PROVE FALSE
  BY <1>3 DEF ConnStep, Enroll, ReadFrame, BadFrame, SelectToken, BurnToken, ReadUsed,
              ExpireCooldown, ReadCooldown, RejectCSR
<1>4. ASSUME AdminStep, ~\E d \in del : DeleteNodeTx(d) PROVE FALSE
  BY <1>4 DEF AdminStep, DeleteToken, CreateToken, DeleteNode
<1>5. ASSUME HubRestart \/ Tick \/ UNCHANGED vars PROVE FALSE
  BY <1>5 DEF HubRestart, Tick, vars
<1> QED
  BY <1>1, <1>2, <1>3, <1>4, <1>5 DEF Next

\* An address that was released before an enrollment read the table is handed
\* out only cold, for any cooldown and any number of enrollments expiring the
\* table with clocks of their own (AllocateIP, DeleteNode).
THEOREM CooldownIsKept == Spec => CooldownWaits
<1>1. Init => CoolInv
  BY DEF Init, CoolInv, Cold
<1>2. IInv /\ CoolInv /\ [Next]_vars =>
        [\A c \in Conn : (row[c] = None /\ row'[c] # None) =>
           LET a == row'[c].ip IN
           a \in late[c] \/ freed[a] = None \/ clock - freed[a] > Cooldown]_vars
  BY InsertIsCreate DEF CoolInv, Cold
<1> QED
  BY InvHolds, <1>1, <1>2, CoolStep, PTL DEF Spec, CooldownWaits
==============================================================================
