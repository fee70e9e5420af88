---------------------------- MODULE DeliveryProofs ----------------------------
(* Proofs about Matchmaking: what is queued for an agent leaves its device   *)
(* and its exits as the database has them.                                   *)
(*                                                                           *)
(* For every linked end the last frame on its way that concerns the other    *)
(* end says what is true of it, or there is none and the device is right     *)
(* already, or the queue makes the agent hang up and register again.         *)
(*                                                                           *)
(* For every two nodes the frames on their way turn the one key that a       *)
(* device has of a peer, or none, into the registered key or none.           *)
(*                                                                           *)
(* Along a queue the keys of a peer only get newer, and every frame names a  *)
(* link between its two ends; so nothing an agent applies takes down a       *)
(* tunnel whose link stays, save what is meant to. Between a push and the    *)
(* flag of a side there is a frame in the queue or an ack on its way; so a   *)
(* link does not stay pending.                                               *)
EXTENDS MatchmakingProofs

------------------------------------------------------------------------------
(* The last element of a queue that matters                                 *)

\* The last element of q in R is one of G; if there is none, b holds.
LastIn(b, q, G, R) ==
  \E i \in 0 .. Len(q) : /\ IF i = 0 THEN b ELSE q[i] \in G
                         /\ \A j \in i + 1 .. Len(q) : q[j] \notin R

\* An element is appended: one of G, or one that does not matter.
LEMMA LastOfAppend ==
  ASSUME NEW S, NEW q \in Seq(S), NEW e \in S, NEW b, NEW G, NEW R,
         e \in G \/ (e \notin R /\ LastIn(b, q, G, R))
  PROVE  LastIn(b, Append(q, e), G, R)
<1> DEFINE r == Append(q, e)
<1>1. /\ Len(q) \in Nat /\ Len(r) = Len(q) + 1
      /\ \A i \in 1 .. Len(q) : r[i] = q[i]
      /\ r[Len(q) + 1] = e
  BY AppendProperties
<1> HIDE DEF r
<1>2. CASE e \in G
  <2>1. Len(r) \in 0 .. Len(r) /\ Len(r) # 0 /\ r[Len(r)] \in G
    BY <1>1, <1>2
  <2>2. \A j \in Len(r) + 1 .. Len(r) : r[j] \notin R
    BY <1>1
  <2> QED
    BY <2>1, <2>2 DEF LastIn, r
<1>3. CASE e \notin R /\ LastIn(b, q, G, R)
  <2>1. PICK i \in 0 .. Len(q) : /\ IF i = 0 THEN b ELSE q[i] \in G
                                 /\ \A j \in i + 1 .. Len(q) : q[j] \notin R
    BY <1>3 DEF LastIn
  <2>2. i \in 0 .. Len(r) /\ (i # 0 => r[i] = q[i])
    BY <1>1
  <2>3. ASSUME NEW j \in i + 1 .. Len(r) PROVE r[j] \notin R
    <3>1. CASE j = Len(q) + 1
      BY <1>1, <1>3, <3>1
    <3>2. CASE j # Len(q) + 1
      BY <1>1, <2>1, <3>2
    <3> QED
      BY <3>1, <3>2
  <2>4. IF i = 0 THEN b ELSE r[i] \in G
    BY <2>1, <2>2
  <2> QED
    BY <2>2, <2>3, <2>4 DEF LastIn, r
<1> QED
  BY <1>2, <1>3

\* The head is taken: it brings about d, or leaves it as it was.
LEMMA LastOfTail ==
  ASSUME NEW S, NEW q \in Seq(S), q # <<>>, NEW b, NEW d, NEW G, NEW R, LastIn(b, q, G, R),
         Head(q) \in G => d, Head(q) \notin R /\ b => d
  PROVE  LastIn(d, Tail(q), G, R)
<1> DEFINE r == Tail(q)
<1>1. /\ Len(q) \in Nat \ {0} /\ Len(r) = Len(q) - 1
      /\ \A i \in 1 .. Len(r) : r[i] = q[i + 1]
      /\ Head(q) = q[1]
  BY HeadTailProperties
<1> HIDE DEF r
<1>2. PICK i \in 0 .. Len(q) : /\ IF i = 0 THEN b ELSE q[i] \in G
                               /\ \A j \in i + 1 .. Len(q) : q[j] \notin R
  BY DEF LastIn
<1>3. CASE i \in {0, 1}
  <2>1. d
    <3>1. CASE i = 0
      <4>1. b /\ 1 \in i + 1 .. Len(q)
        BY <1>1, <1>2, <3>1
      <4> QED
        BY <1>1, <1>2, <4>1
    <3>2. CASE i = 1
      BY <1>1, <1>2, <3>2
    <3> QED
      BY <1>3, <3>1, <3>2
  <2>2. ASSUME NEW j \in 0 + 1 .. Len(r) PROVE r[j] \notin R
    <3>1. j + 1 \in i + 1 .. Len(q) /\ j \in 1 .. Len(r)
      BY <1>1, <1>3
    <3> QED
      BY <1>1, <1>2, <3>1
  <2>3. 0 \in 0 .. Len(r)
    BY <1>1
  <2> QED
    BY <2>1, <2>2, <2>3 DEF LastIn, r
<1>4. CASE i \notin {0, 1}
  <2>1. i - 1 \in 1 .. Len(r) /\ r[i - 1] = q[i] /\ q[i] \in G
    BY <1>1, <1>2, <1>4
  <2>2. ASSUME NEW j \in (i - 1) + 1 .. Len(r) PROVE r[j] \notin R
    <3>1. j + 1 \in i + 1 .. Len(q) /\ j \in 1 .. Len(r)
      BY <1>1, <1>4, <2>1
    <3> QED
      BY <1>1, <1>2, <3>1
  <2>3. i - 1 \in 0 .. Len(r) /\ i - 1 # 0
    BY <1>1, <2>1
  <2> QED
    BY <2>1, <2>2, <2>3 DEF LastIn, r
<1> QED
  BY <1>3, <1>4

\* Nothing is under way.
LEMMA LastOfEmpty == ASSUME NEW b, NEW G, NEW R, LastIn(b, <<>>, G, R) PROVE b
<1>1. PICK i \in 0 .. Len(<<>>) : IF i = 0 THEN b ELSE <<>>[i] \in G
  BY DEF LastIn
<1>2. Len(<<>>) = 0
  OBVIOUS
<1>3. i = 0
  BY <1>2
<1> QED
  BY <1>1, <1>3
------------------------------------------------------------------------------
(* Where links, registers and answers can be                                *)

\* The links that a request carries.
Carried(t) == IF t.op \in {"pushLink", "pushExit", "removeLink"} THEN {t.link}
              ELSE IF t.op \in {"deleteTx", "cascade"} THEN t.links ELSE {}

\* Every row that is anywhere: in the table, read by a register, in a request.
Rows == {x \in Link : \/ x \in store
                      \/ \E s \in Sess : x \in snap[s]
                      \/ \E t \in todo : x \in Carried(t)}

\* A ULID names one pair for good.
IdInv == /\ \A x \in Rows : x.id <= minted
         /\ \A x, y \in Rows : x.id = y.id => x.ends = y.ends

\* A register has read one row per pair, of its own node's.
SnapInv == \A s \in Sess : OnePerPair(snap[s]) /\ \A x \in snap[s] : Owner(s) \in x.ends

\* A connection carries one register, in front, and the hub reads it once;
\* until the answer is queued, the agent waits for it and was sent no other.
FrontOk(s) == \A i \in 1 .. Len(inb[s]) : inb[s][i].type = "register" => i = 1 /\ pc[s] = "idle"
WaitOk(s) == conn[Owner(s)] = s /\ (pc[s] # "idle" \/ Regs(s) # {}) =>
               phase[Owner(s)] = "registering" /\ Acks(s) = {}
OnceInv == \A s \in Sess : FrontOk(s) /\ WaitOk(s)

\* The hub knows a key of every registered node that is not deleted.
KnownInv == \A s \in Sess : registered[s] /\ Owner(s) \notin revokedDB => lastWG[Owner(s)] # None

PathInv == IdInv /\ SnapInv /\ OnceInv /\ KnownInv

------------------------------------------------------------------------------
(* What is on its way to a linked end                                       *)

\* What an agent will read: a register_ack that is to be sent is the last.
Queue(s) ==
  IF pc[s] = "ack" THEN Append(out[s], [type |-> "register_ack", peers |-> exp[s]]) ELSE out[s]

\* What is true of the other end of l now.
Now(l, n) == SpecOf(l, Other(l, n), lastWG[Other(l, n)])

\* Specs of the link or of its other end, and frames that bear on them.
About(l, n) == {sp \in PeerSpec : sp.link = l.id \/ sp.peer = Other(l, n)}
Matters(l, n) ==
  {f \in ToAgent : \/ f.type = "register_ack"
                   \/ f.type \in {"peer_add", "peer_update"} /\ f.spec \in About(l, n)
                   \/ f.type = "peer_remove" /\ (f.link = l.id \/ f.wg[1] = Other(l, n))}

\* Frames after which the device and the exits are as they should be.
Settles(l, n) ==
  {f \in ToAgent :
     \/ f.type \in {"peer_add", "peer_update"} /\ f.spec = Now(l, n)
     \/ f.type = "register_ack" /\ f.peers \cap About(l, n) = {Now(l, n)}}

\* They are: the registered key is configured, the exit set as designated.
Right(l, n) ==
  LET o == Other(l, n) IN
  /\ <<o, lastWG[o]>> \in dev[n].peers
  /\ n \in SocksNode => ((<<l.id, o>> \in exits[n]) <=> (l.exit = o /\ o \in SocksNode))

Told(l, n) == LastIn(Right(l, n), Queue(conn[n]), Settles(l, n), Matters(l, n))

\* Frames that make an agent hang up, and a queue in which it finds one, or a
\* first frame that is no register_ack.
Fatal(f) == \/ f.type \in {"rotate_wg", "kick", "error"}
            \/ f.type = "register_ack" /\ \E sp \in f.peers : ~sp.valid
Doomed(n) ==
  LET q == Queue(conn[n]) IN
  \/ \E i \in 1 .. Len(q) : Fatal(q[i])
  \/ phase[n] = "registering" /\ q # <<>> /\ Head(q).type # "register_ack"

\* The hub talks to n about l: both ends are registered, nothing is torn.
Live(l, n) ==
  /\ conn[n] # None /\ hubSt[conn[n]] = "open" /\ registered[conn[n]]
  /\ Ready(Other(l, n)) /\ Settled(l.ends)

Deal(l, n) == Live(l, n) => Doomed(n) \/ Told(l, n)

DealInv == \A l \in store : \A n \in l.ends : Deal(l, n)
------------------------------------------------------------------------------
(* Rows keep their ids, and ids their pairs                                 *)

\* A row that was somewhere, perhaps with another exit.
Known(x) == \E y \in Rows : y.id = x.id /\ y.ends = x.ends

\* A request that loses its connection carries what it carried.
LEMMA DetachKeeps ==
  ASSUME Types, NEW t \in todo, NEW s
  PROVE  /\ t.op \notin {"kick", "close"} => Detach(t, s) = t
         /\ t.op \in {"kick", "close"} => Detach(t, s).op = t.op
         /\ Carried(Detach(t, s)) = Carried(t)
<1>1. t \in Todo
  BY DEF Types, TodoTypes
<1>2. CASE t.op \in {"kick", "close"}
  <2>1. Detach(t, s).op = t.op
    BY <1>1, <1>2 DEF Detach, Todo
  <2> QED
    BY <1>2, <2>1 DEF Carried
<1>3. CASE t.op \notin {"kick", "close"}
  BY <1>3 DEF Detach
<1> QED
  BY <1>2, <1>3

\* Rows from known ones, and perhaps a new one with the next id.
LEMMA IdKept ==
  ASSUME Types, IdInv, NEW E, minted' \in {minted, minted + 1},
         \A x \in Rows' : Known(x) \/ (minted' = minted + 1 /\ x.id = minted + 1 /\ x.ends = E)
  PROVE  IdInv'
<1>1. minted \in Nat
  BY DEF Types, DbTypes
<1>2. \A x \in Rows : x.id \in Nat
  BY DEF Rows, Link
<1>3. ASSUME NEW x, Known(x) PROVE x.id \in Nat /\ x.id <= minted
  BY <1>2, <1>3 DEF Known, IdInv
<1>4. ASSUME NEW x, NEW y, Known(x), Known(y), x.id = y.id PROVE x.ends = y.ends
  BY <1>4 DEF Known, IdInv
<1>5. ASSUME NEW x \in Rows' PROVE x.id <= minted'
  BY <1>1, <1>3, <1>5
<1>6. ASSUME NEW x \in Rows', NEW y \in Rows', x.id = y.id PROVE x.ends = y.ends
  <2>1. CASE Known(x) /\ Known(y)
    BY <1>4, <1>6, <2>1
  <2>2. CASE ~(Known(x) /\ Known(y))
    <3>1. x.id = minted + 1 /\ y.id = minted + 1
      BY <1>6, <2>2
    <3>2. ~(minted + 1 <= minted)
      BY <1>1
    <3>3. ~Known(x) /\ ~Known(y)
      BY <1>3, <3>1, <3>2
    <3>4. x.ends = E /\ y.ends = E
      BY <1>6, <3>3
    <3> QED
      BY <3>4
  <2> QED
    BY <2>1, <2>2
<1> QED
  BY <1>5, <1>6 DEF IdInv

\* The places of a row.
LEMMA RowsAreKnown ==
  ASSUME Types
  PROVE  /\ store \subseteq Rows
         /\ \A s \in Sess : snap[s] \subseteq Rows
         /\ \A t \in todo : Carried(t) \subseteq Rows
<1>1. store \subseteq Link /\ \A s \in Sess : snap[s] \subseteq Link
  BY DEF Types, DbTypes, SessVarTypes
<1>2. ASSUME NEW t \in todo PROVE Carried(t) \subseteq Link
  <2>1. /\ t.op \in {"pushLink", "pushExit", "removeLink"} => t.link \in Link
        /\ t.op \in {"deleteTx", "cascade"} => t.links \in SUBSET Link
    BY RequestFields DEF Types
  <2> QED
    BY <2>1 DEF Carried
<1>3. ASSUME NEW s \in Sess, NEW x \in snap[s] PROVE x \in Rows
  <2>1. x \in Link
    BY <1>1
  <2> QED
    BY <2>1 DEF Rows
<1>4. ASSUME NEW t \in todo, NEW x \in Carried(t) PROVE x \in Rows
  <2>1. x \in Link
    BY <1>2
  <2> QED
    BY <2>1 DEF Rows
<1>5. ASSUME NEW x \in store PROVE x \in Rows
  <2>1. x \in Link
    BY <1>1
  <2> QED
    BY <2>1 DEF Rows
<1> QED
  BY <1>3, <1>4, <1>5

\* Rows that no step has touched.
LEMMA IdStays ==
  ASSUME Types, IdInv, minted' = minted, store' \subseteq store,
         \A s \in Sess : snap'[s] \subseteq snap[s] \cup store,
         \A t \in todo' : Carried(t) \subseteq Rows
  PROVE  IdInv'
<1>1. \A x \in Rows' : x \in Rows
  BY RowsAreKnown DEF Rows
<1>2. \A x \in Rows' : Known(x)
  BY <1>1 DEF Known
<1> QED
  BY <1>2, IdKept

\* The steps of the hub's connections.
LEMMA IdSessionSteps ==
  ASSUME Types, IdInv, NEW s \in Sess, SessionStep(s) \/ CloseConn(s)
  PROVE  IdInv'
<1>0. \A t \in todo : Carried(t) \subseteq Rows
  BY RowsAreKnown
<1>00. snap \in [Sess -> SUBSET Link]
  BY DEF Types, SessVarTypes
<1>1. CASE ReadRegister(s)
  <2>1. UNCHANGED <<store, minted, todo>> /\ snap' = [snap EXCEPT ![s] = LinksOf(Owner(s))]
    BY <1>1 DEF ReadRegister, dbVars
  <2>2. \A r \in Sess : snap'[r] \subseteq snap[r] \cup store
    BY <2>1, <1>00 DEF LinksOf
  <2> QED
    BY <1>0, <2>1, <2>2, IdStays
<1>2. CASE HandleRegister(s)
  <2>1. UNCHANGED <<store, minted, todo>> /\ snap' = [snap EXCEPT ![s] = {}]
    BY <1>2 DEF HandleRegister, dbVars
  <2>2. \A r \in Sess : snap'[r] \subseteq snap[r] \cup store
    BY <2>1, <1>00
  <2> QED
    BY <1>0, <2>1, <2>2, IdStays
<1>3. CASE DropSession(s)
  <2>1. UNCHANGED <<store, minted, snap>> /\ todo' = {Detach(t, s) : t \in todo}
    BY <1>3 DEF DropSession
  <2>2. \A t \in todo' : Carried(t) \subseteq Rows
    BY <1>0, <2>1, DetachKeeps
  <2> QED
    BY <2>1, <2>2, IdStays
<1>4. CASE RunSession(s) \/ SendRegisterAck(s) \/ HandleAck(s) \/ CloseConn(s)
  <2>1. UNCHANGED <<store, minted, snap, todo>>
    BY <1>4 DEF RunSession, SendRegisterAck, HandleAck, CloseConn, dbVars, sessVars
  <2> QED
    BY <1>0, <2>1, IdStays
<1> QED
  BY <1>1, <1>2, <1>3, <1>4 DEF SessionStep

\* The steps of admin requests.
LEMMA IdRequestSteps ==
  ASSUME Types, IdInv, NEW t \in todo, RequestStep(t)
  PROVE  IdInv'
<1>0. \A u \in todo : Carried(u) \subseteq Rows
  BY RowsAreKnown
<1>1. CASE StoreCreateLink(t)
  <2>1. PICK l : l = [id |-> minted + 1, ends |-> t.ends, exit |-> None]
    OBVIOUS
  <2>2. PICK u : u = [op |-> "pushLink", link |-> l]
    OBVIOUS
  <2>3. \/ UNCHANGED <<store, minted>> /\ Continue(t, {})
        \/ store' = store \cup {l} /\ minted' = minted + 1 /\ Continue(t, {u})
    BY <1>1, <2>1, <2>2 DEF StoreCreateLink
  <2>4. snap' = snap /\ Carried(u) = {l} /\ l.id = minted + 1 /\ l.ends = t.ends
    BY <1>1, <2>1, <2>2 DEF StoreCreateLink, sessVars, Carried
  <2>5. CASE UNCHANGED <<store, minted>> /\ Continue(t, {})
    BY <1>0, <2>4, <2>5, IdStays DEF Continue
  <2>6. CASE store' = store \cup {l} /\ minted' = minted + 1 /\ Continue(t, {u})
    <3>1. \A x \in Rows' : x \in Rows \/ x = l
      BY <2>4, <2>6 DEF Rows, Continue
    <3>2. \A x \in Rows' : Known(x) \/ (minted' = minted + 1 /\ x.id = minted + 1 /\ x.ends = t.ends)
      BY <2>4, <2>6, <3>1 DEF Known
    <3>3. minted' \in {minted, minted + 1}
      BY <2>6
    <3>4. PICK E : E = t.ends
      OBVIOUS
    <3>5. \A x \in Rows' : Known(x) \/ (minted' = minted + 1 /\ x.id = minted + 1 /\ x.ends = E)
      BY <3>2, <3>4
    <3> QED
      BY <3>3, <3>5, IdKept
  <2> QED
    BY <2>3, <2>5, <2>6
<1>2. CASE PushLink(t) \/ RemoveLink(t) \/ KickClose(t) \/ DeleteNodeForget(t)
  <2>1. UNCHANGED <<store, minted, snap>> /\ Continue(t, {})
    BY <1>2 DEF PushLink, RemoveLink, KickClose, DeleteNodeForget, dbVars, sessVars
  <2> QED
    BY <1>0, <2>1, IdStays DEF Continue
<1>3. CASE DeleteNodeTx(t)
  <2>1. PICK u : u = [op |-> "cascade", node |-> t.node, links |-> t.links]
    OBVIOUS
  <2>2. /\ UNCHANGED <<minted, snap>> /\ store' \subseteq store /\ t.op = "deleteTx"
        /\ todo' = (todo \ {t}) \cup {u}
    BY <1>3, <2>1 DEF DeleteNodeTx, Continue, sessVars
  <2>3. Carried(u) = Carried(t)
    BY <2>1, <2>2 DEF Carried
  <2> QED
    BY <1>0, <2>2, <2>3, IdStays
<1>4. CASE DeleteNodeCascade(t)
  <2>1. PICK u : u = [op |-> "kick", node |-> t.node, sess |-> sessions[t.node]]
    OBVIOUS
  <2>2. UNCHANGED <<store, minted, snap>> /\ todo' = (todo \ {t}) \cup {u}
    BY <1>4, <2>1 DEF DeleteNodeCascade, Continue, dbVars, sessVars
  <2>3. Carried(u) = {}
    BY <2>1 DEF Carried
  <2> QED
    BY <1>0, <2>2, <2>3, IdStays
<1>5. CASE DeleteNodeKick(t)
  <2>1. PICK u : u = [op |-> "forget", node |-> t.node]
    OBVIOUS
  <2>2. PICK C : C = {[op |-> "close", sess |-> s] : s \in {t.sess} \ {None}}
    OBVIOUS
  <2>3. UNCHANGED <<store, minted, snap>> /\ todo' = (todo \ {t}) \cup ({u} \cup C)
    BY <1>5, <2>1, <2>2 DEF DeleteNodeKick, Continue, dbVars, sessVars
  <2>4. Carried(u) = {} /\ \A c \in C : Carried(c) = {}
    BY <2>1, <2>2 DEF Carried
  <2> QED
    BY <1>0, <2>3, <2>4, IdStays
<1> QED
  BY <1>1, <1>2, <1>3, <1>4, <1>5 DEF RequestStep

\* The first steps of admin requests, and the steps of the agents.
LEMMA IdOtherSteps ==
  ASSUME Types, IdInv,
         AdminStep \/ Fault \/ (\E n \in Node : AgentStep(n) \/ LoseConn(n) \/ RegisterFails(n))
  PROVE  IdInv'
<1>0. \A u \in todo : Carried(u) \subseteq Rows
  BY RowsAreKnown
<1>1. ASSUME NEW e \in Ends, ApiCreateLink(e) PROVE IdInv'
  <2>1. PICK u : u = [op |-> "createLink", ends |-> e]
    OBVIOUS
  <2>2. UNCHANGED <<store, minted, snap>> /\ todo' = todo \cup {u}
    BY <1>1, <2>1 DEF ApiCreateLink, dbVars, sessVars
  <2>3. Carried(u) = {}
    BY <2>1 DEF Carried
  <2> QED
    BY <1>0, <2>2, <2>3, IdStays
<1>2. ASSUME NEW l \in store, DeleteLink(l) PROVE IdInv'
  <2>1. PICK u : u = [op |-> "removeLink", link |-> l]
    OBVIOUS
  <2>2. UNCHANGED <<minted, snap>> /\ store' \subseteq store /\ todo' = todo \cup {u}
    BY <1>2, <2>1 DEF DeleteLink, sessVars
  <2>3. Carried(u) = {l} /\ l \in Rows
    BY <2>1, RowsAreKnown DEF Carried
  <2> QED
    BY <1>0, <2>2, <2>3, IdStays
<1>3. ASSUME NEW l \in store, NEW e \in Node \cup {None}, SetLinkExit(l, e) PROVE IdInv'
  <2>1. PICK m : m = [l EXCEPT !.exit = e]
    OBVIOUS
  <2>2. PICK u : u = [op |-> "pushExit", link |-> m]
    OBVIOUS
  <2>3. /\ UNCHANGED <<minted, snap>> /\ store' = (store \ {l}) \cup {m} /\ todo' = todo \cup {u}
    BY <1>3, <2>1, <2>2 DEF SetLinkExit, sessVars
  <2>4. m.id = l.id /\ m.ends = l.ends
    BY <2>1 DEF Types, DbTypes, Link
  <2>5. Carried(u) = {m} /\ l \in Rows
    BY <2>2, RowsAreKnown DEF Carried
  <2>6. \A x \in Rows' : x \in Rows \/ x = m
    BY <2>3, <2>5 DEF Rows
  <2>7. \A x \in Rows' : Known(x)
    BY <2>4, <2>5, <2>6 DEF Known
  <2> QED
    BY <2>3, <2>7, IdKept
<1>4. ASSUME NEW n \in Node, DeleteNode(n) PROVE IdInv'
  <2>1. PICK u : u = [op |-> "deleteTx", node |-> n, links |-> LinksOf(n)]
    OBVIOUS
  <2>2. UNCHANGED <<store, minted, snap>> /\ todo' = todo \cup {u}
    BY <1>4, <2>1 DEF DeleteNode, dbVars, sessVars
  <2>3. Carried(u) \subseteq Rows
    BY <2>1, RowsAreKnown DEF Carried, LinksOf
  <2> QED
    BY <1>0, <2>2, <2>3, IdStays
<1>5. CASE HubRestart
  <2>1. UNCHANGED <<store, minted>> /\ todo' = {} /\ \A s \in Sess : snap'[s] = {}
    BY <1>5 DEF HubRestart, dbVars
  <2> QED
    BY <2>1, IdStays
<1>6. ASSUME NEW n \in Node,
             \/ RotateWG(n) \/ AgentStep(n) \/ LoseConn(n) \/ RegisterFails(n)
             \/ AgentRestart(n) \/ GcOfflinePeer(n) \/ ApplyPeerFails(n)
      PROVE  IdInv'
  <2>1. UNCHANGED <<store, minted, snap, todo>>
    BY <1>6 DEF RotateWG, AgentStep, Connect, RegisterAck, ApplyPeer, ApplyRemove, ApplyRotate,
       ApplyKick, LoseConn, RegisterFails, AgentRestart, GcOfflinePeer, ApplyPeerFails, dbVars, sessVars
  <2> QED
    BY <1>0, <2>1, IdStays
<1> QED
  BY <1>1, <1>2, <1>3, <1>4, <1>5, <1>6 DEF AdminStep, Fault
\* Every step keeps the ids.
LEMMA IdStep == Types /\ IdInv /\ [Next]_vars => IdInv'
<1> SUFFICES ASSUME Types, IdInv, [Next]_vars PROVE IdInv'
  OBVIOUS
<1>1. CASE UNCHANGED vars
  <2>1. UNCHANGED <<store, minted, snap, todo>>
    BY <1>1 DEF vars, dbVars, sessVars
  <2> QED
    BY <2>1, RowsAreKnown, IdStays
<1> QED
  BY <1>1, IdSessionSteps, IdRequestSteps, IdOtherSteps DEF Next

------------------------------------------------------------------------------
(* What a register has read, and the keys of registered nodes               *)

\* Only ReadRegister fills the list; the table has one row per pair.
LEMMA SnapStep == Types /\ LinksInv /\ SnapInv /\ [Next]_vars => SnapInv'
<1> SUFFICES ASSUME Types, LinksInv, SnapInv, [Next]_vars PROVE SnapInv'
  OBVIOUS
<1>1. snap \in [Sess -> SUBSET Link]
  BY DEF Types, SessVarTypes
<1>2. ASSUME NEW s \in Sess, ReadRegister(s) PROVE SnapInv'
  <2>1. snap' = [snap EXCEPT ![s] = LinksOf(Owner(s))]
    BY <1>2 DEF ReadRegister
  <2>2. OnePerPair(LinksOf(Owner(s))) /\ \A x \in LinksOf(Owner(s)) : Owner(s) \in x.ends
    BY DEF LinksInv, OnePerPair, LinksOf
  <2>3. ASSUME NEW r \in Sess PROVE OnePerPair(snap'[r]) /\ \A x \in snap'[r] : Owner(r) \in x.ends
    <3>1. CASE r = s
      BY <1>1, <2>1, <2>2, <3>1
    <3>2. CASE r # s
      BY <1>1, <2>1, <3>2 DEF SnapInv
    <3> QED
      BY <3>1, <3>2
  <2> QED
    BY <2>3 DEF SnapInv
<1>3. ASSUME \A r \in Sess : snap'[r] = snap[r] \/ snap'[r] = {} PROVE SnapInv'
  BY <1>3 DEF SnapInv, OnePerPair
<1>4. ASSUME NEW s \in Sess, SessionStep(s) \/ CloseConn(s), ~ReadRegister(s) PROVE SnapInv'
  <2>1. snap' = snap \/ snap' = [snap EXCEPT ![s] = {}]
    BY <1>4 DEF SessionStep, RunSession, HandleRegister, SendRegisterAck, HandleAck, DropSession,
                CloseConn, sessVars
  <2> QED
    BY <1>1, <1>3, <2>1
<1>5. ASSUME NEW t \in todo, RequestStep(t) PROVE SnapInv'
  <2>1. snap' = snap
    BY <1>5 DEF RequestStep, StoreCreateLink, PushLink, RemoveLink, DeleteNodeTx, DeleteNodeCascade,
                DeleteNodeKick, KickClose, DeleteNodeForget, sessVars
  <2> QED
    BY <1>3, <2>1
<1>6. ASSUME NEW n \in Node, AgentStep(n) \/ LoseConn(n) \/ RegisterFails(n) PROVE SnapInv'
  <2>1. snap' = snap
    BY <1>6 DEF AgentStep, Connect, RegisterAck, ApplyPeer, ApplyRemove, ApplyRotate, ApplyKick,
                LoseConn, RegisterFails, sessVars
  <2> QED
    BY <1>3, <2>1
<1>7. CASE AdminStep
  <2>1. snap' = snap
    BY <1>7 DEF AdminStep, ApiCreateLink, DeleteLink, SetLinkExit, RotateWG, DeleteNode, sessVars
  <2> QED
    BY <1>3, <2>1
<1>8. CASE Fault
  <2>1. \A r \in Sess : snap'[r] = snap[r] \/ snap'[r] = {}
    BY <1>8 DEF Fault, HubRestart, AgentRestart, GcOfflinePeer, ApplyPeerFails, sessVars
  <2> QED
    BY <1>3, <2>1
<1>9. CASE UNCHANGED vars
  BY <1>3, <1>9 DEF vars, sessVars
<1> QED
  BY <1>2, <1>4, <1>5, <1>6, <1>7, <1>8, <1>9 DEF Next

\* Only HandleRegister makes a session registered, and only the last step of
\* a deletion forgets a key.
LEMMA KnownStep == Types /\ LinksInv /\ KnownInv /\ [Next]_vars => KnownInv'
<1> SUFFICES ASSUME Types, LinksInv, KnownInv, [Next]_vars PROVE KnownInv'
  OBVIOUS
<1>1. /\ registered \in [Sess -> BOOLEAN] /\ lastWG \in [Node -> Nat \cup {None}]
      /\ reg \in [Sess -> Nat]
  BY DEF Types, SessVarTypes, HubTypes, Gen
<1>2. ASSUME NEW s \in Sess, HandleRegister(s) PROVE KnownInv'
  <2>1. /\ lastWG' = [lastWG EXCEPT ![Owner(s)] = reg[s]] /\ revokedDB' = revokedDB
        /\ registered' = [registered EXCEPT ![s] = TRUE]
    BY <1>2 DEF HandleRegister, RegisteredKey, dbVars
  <2>2. reg[s] # None
    BY <1>1, NoneAssumption
  <2> QED
    BY <1>1, <2>1, <2>2, OwnerIsNode DEF KnownInv
<1>3. ASSUME lastWG' = lastWG, revokedDB \subseteq revokedDB',
             \A r \in Sess : registered'[r] = registered[r] \/ registered'[r] = FALSE
      PROVE  KnownInv'
  BY <1>3 DEF KnownInv
<1>4. ASSUME NEW s \in Sess, SessionStep(s) \/ CloseConn(s), ~HandleRegister(s) PROVE KnownInv'
  <2>1. /\ lastWG' = lastWG /\ revokedDB' = revokedDB
        /\ registered' = registered \/ registered' = [registered EXCEPT ![s] = FALSE]
    BY <1>4 DEF SessionStep, RunSession, ReadRegister, SendRegisterAck, HandleAck, DropSession,
                CloseConn, sessVars, hubVars, dbVars
  <2> QED
    BY <1>1, <1>3, <2>1
<1>5. ASSUME NEW t \in todo, RequestStep(t) PROVE KnownInv'
  <2>1. CASE DeleteNodeForget(t)
    <3>1. /\ t.op = "forget" /\ lastWG' = [lastWG EXCEPT ![t.node] = None]
          /\ revokedDB' = revokedDB /\ registered' = registered
      BY <2>1 DEF DeleteNodeForget, dbVars, sessVars
    <3>2. t.node \in revokedDB
      BY <3>1 DEF LinksInv
    <3> QED
      BY <1>1, <3>1, <3>2, OwnerIsNode DEF KnownInv
  <2>2. CASE ~DeleteNodeForget(t)
    <3>1. /\ lastWG' = lastWG /\ revokedDB \subseteq revokedDB' /\ registered' = registered
      BY <1>5, <2>2 DEF RequestStep, StoreCreateLink, PushLink, RemoveLink, DeleteNodeTx,
                        DeleteNodeCascade, DeleteNodeKick, KickClose, sessVars, hubVars, dbVars
    <3> QED
      BY <1>3, <3>1
  <2> QED
    BY <2>1, <2>2
<1>6. ASSUME NEW n \in Node, AgentStep(n) \/ LoseConn(n) \/ RegisterFails(n) PROVE KnownInv'
  <2>1. UNCHANGED <<lastWG, revokedDB, registered>>
    BY <1>6 DEF AgentStep, Connect, RegisterAck, ApplyPeer, ApplyRemove, ApplyRotate, ApplyKick,
                LoseConn, RegisterFails, sessVars, hubVars, dbVars
  <2> QED
    BY <1>3, <2>1
<1>7. CASE AdminStep
  <2>1. UNCHANGED <<lastWG, revokedDB, registered>>
    BY <1>7 DEF AdminStep, ApiCreateLink, DeleteLink, SetLinkExit, RotateWG, DeleteNode, sessVars,
                hubVars, dbVars
  <2> QED
    BY <1>3, <2>1
<1>8. CASE HubRestart
  BY <1>8 DEF HubRestart, KnownInv
<1>9. ASSUME NEW n \in Node, AgentRestart(n) \/ GcOfflinePeer(n) \/ ApplyPeerFails(n) PROVE KnownInv'
  <2>1. UNCHANGED <<lastWG, revokedDB, registered>>
    BY <1>9 DEF AgentRestart, GcOfflinePeer, ApplyPeerFails, sessVars, hubVars, dbVars
  <2> QED
    BY <1>3, <2>1
<1>10. CASE UNCHANGED vars
  BY <1>3, <1>10 DEF vars, sessVars, hubVars, dbVars
<1> QED
  BY <1>2, <1>4, <1>5, <1>6, <1>7, <1>8, <1>9, <1>10 DEF Next, Fault
------------------------------------------------------------------------------
(* One register per connection                                              *)

\* How the stream to the hub changes: not at all, with the connection, by an
\* ack of the agent, or by a read.
Moves(s) == \/ inb'[s] = inb[s] \/ inb'[s] = <<>>
            \/ \E f \in ToHub : f.type = "ack" /\ inb'[s] = Append(inb[s], f)
            \/ inb[s] # <<>> /\ inb'[s] = Tail(inb[s])

\* A stream whose only register is in front keeps it there, or loses it.
LEMMA FrontKept ==
  ASSUME ChanTypes, NEW s \in Sess, FrontOk(s), Moves(s)
  PROVE  /\ pc'[s] = pc[s] => FrontOk(s)'
         /\ inb[s] # <<>> /\ inb'[s] = Tail(inb[s]) => FrontOk(s)'
<1>1. inb[s] \in Seq(ToHub)
  BY DEF ChanTypes
<1>2. CASE inb'[s] = inb[s] \/ inb'[s] = <<>>
  <2>1. CASE inb'[s] = <<>>
    BY <2>1 DEF FrontOk
  <2>2. CASE inb'[s] = inb[s]
    <3>1. inb[s] # <<>> => inb[s] # Tail(inb[s])
      <4> SUFFICES ASSUME inb[s] # <<>> PROVE Len(inb[s]) # Len(Tail(inb[s]))
        OBVIOUS
      <4> QED
        BY <1>1, HeadTailProperties
    <3> QED
      BY <2>2, <3>1 DEF FrontOk
  <2> QED
    BY <1>2, <2>1, <2>2
<1>3. CASE inb[s] # <<>> /\ inb'[s] = Tail(inb[s])
  <2>1. /\ Len(inb[s]) \in Nat \ {0} /\ Len(inb'[s]) = Len(inb[s]) - 1
        /\ \A i \in 1 .. Len(inb'[s]) : inb'[s][i] = inb[s][i + 1]
    BY <1>1, <1>3, HeadTailProperties
  <2>2. ASSUME NEW i \in 1 .. Len(inb'[s]) PROVE inb'[s][i].type # "register"
    <3>1. i + 1 \in 1 .. Len(inb[s]) /\ i + 1 # 1
      BY <2>1
    <3> QED
      BY <2>1, <3>1 DEF FrontOk
  <2> QED
    BY <2>2 DEF FrontOk
<1>4. CASE \E f \in ToHub : f.type = "ack" /\ inb'[s] = Append(inb[s], f)
  <2>1. PICK f \in ToHub : f.type = "ack" /\ inb'[s] = Append(inb[s], f)
    BY <1>4
  <2>2. /\ Len(inb[s]) \in Nat /\ Len(inb'[s]) = Len(inb[s]) + 1
        /\ \A i \in 1 .. Len(inb[s]) : inb'[s][i] = inb[s][i]
        /\ inb'[s][Len(inb[s]) + 1] = f
    BY <1>1, <2>1, AppendProperties
  <2>3. ASSUME NEW i \in 1 .. Len(inb'[s]), inb'[s][i].type = "register"
        PROVE  i \in 1 .. Len(inb[s]) /\ inb[s][i].type = "register"
    <3>1. i # Len(inb[s]) + 1
      BY <2>1, <2>2, <2>3
    <3> QED
      BY <2>2, <2>3, <3>1
  <2>4. inb[s] # <<>> /\ inb'[s] = Tail(inb[s]) => FALSE
    <3> SUFFICES ASSUME inb[s] # <<>> PROVE Len(inb'[s]) # Len(Tail(inb[s]))
      OBVIOUS
    <3>1. Len(Tail(inb[s])) = Len(inb[s]) - 1
      BY <1>1, HeadTailProperties
    <3> QED
      BY <2>2, <3>1
  <2> QED
    BY <2>3, <2>4 DEF FrontOk
<1> QED
  BY <1>2, <1>3, <1>4 DEF Moves

\* A connection that has been read to the end of its register carries none.
LEMMA NoRegister ==
  ASSUME ChanTypes, NEW s \in Sess, FrontOk(s)
  PROVE  /\ pc[s] # "idle" => Regs(s) = {}
         /\ inb[s] # <<>> /\ Head(inb[s]).type = "register" => Regs(s) # {}
<1>1. inb[s] \in Seq(ToHub)
  BY DEF ChanTypes
<1>2. Range(inb[s]) = {inb[s][i] : i \in 1 .. Len(inb[s])}
  BY <1>1, RangeOfQueue
<1>3. inb[s] # <<>> => Head(inb[s]) \in Range(inb[s])
  BY <1>1, RangeOfTail
<1> QED
  BY <1>2, <1>3 DEF Regs, FrontOk

\* Steps that send or read frames and are quiet otherwise.
LEMMA QuietOnce ==
  ASSUME ChanTypes, OnceInv, Quiet, \A s \in Sess : Moves(s)
  PROVE  OnceInv'
<1> SUFFICES ASSUME NEW s \in Sess PROVE FrontOk(s)' /\ WaitOk(s)'
  BY DEF OnceInv
<1>1. FrontOk(s)'
  BY FrontKept DEF OnceInv, Quiet
<1>2. Regs(s)' \subseteq Regs(s) /\ Acks(s)' \subseteq Acks(s) /\ UNCHANGED <<pc, phase, conn>>
  BY DEF Quiet
<1>3. WaitOk(s)'
  BY <1>2 DEF OnceInv, WaitOk
<1> QED
  BY <1>1, <1>3

\* What an agent answers is no register.
LEMMA ConsumeMoves ==
  ASSUME Types, NEW n \in Node, HasFrame(n), NEW id \in Nat, NEW ok \in BOOLEAN, Consume(n, id, ok)
  PROVE  \A s \in Sess : Moves(s)
<1>1. PICK f \in ToHub : f = [type |-> "ack", link |-> id, ok |-> ok]
  BY DEF ToHub
<1>2. inb' = [inb EXCEPT ![conn[n]] = IF hubSt[conn[n]] = "open" THEN Append(@, f) ELSE @]
  BY <1>1 DEF Consume
<1>3. inb \in [Sess -> Seq(ToHub)] /\ f.type = "ack"
  BY <1>1 DEF Types, ChanTypes
<1> QED
  BY <1>2, <1>3 DEF Moves

\* The quiet steps.
LEMMA QuietOnceSteps ==
  ASSUME BaseInv, KeyInv, OnceInv,
         \/ \E s \in Sess : RunSession(s) \/ HandleAck(s) \/ CloseConn(s)
         \/ \E t \in todo : \/ StoreCreateLink(t) \/ PushLink(t) \/ RemoveLink(t) \/ DeleteNodeTx(t)
                            \/ DeleteNodeCascade(t) \/ DeleteNodeKick(t) \/ KickClose(t)
         \/ AdminStep
         \/ \E n \in Node : \/ GcOfflinePeer(n) \/ ApplyPeer(n) \/ ApplyPeerFails(n)
                            \/ ApplyRemove(n)
  PROVE  OnceInv'
<1>1. ChanTypes /\ inb \in [Sess -> Seq(ToHub)]
  BY DEF BaseInv, Types, ChanTypes
<1>2. ASSUME NEW s \in Sess, HandleAck(s) PROVE \A r \in Sess : Moves(r)
  <2>1. inb[s] # <<>> /\ inb' = [inb EXCEPT ![s] = Tail(@)]
    BY <1>2 DEF HandleAck
  <2> QED
    BY <1>1, <2>1 DEF Moves
<1>3. ASSUME NEW s \in Sess, RunSession(s) \/ CloseConn(s) PROVE \A r \in Sess : Moves(r)
  BY <1>3 DEF RunSession, CloseConn, Moves
<1>4. ASSUME NEW t \in todo, \/ StoreCreateLink(t) \/ PushLink(t) \/ RemoveLink(t) \/ DeleteNodeTx(t)
                             \/ DeleteNodeCascade(t) \/ DeleteNodeKick(t) \/ KickClose(t)
      PROVE  \A r \in Sess : Moves(r)
  BY <1>4 DEF StoreCreateLink, PushLink, RemoveLink, DeleteNodeTx, DeleteNodeCascade, DeleteNodeKick,
              KickClose, Moves, chanVars
<1>5. ASSUME AdminStep PROVE \A r \in Sess : Moves(r)
  BY <1>5 DEF AdminStep, ApiCreateLink, DeleteLink, SetLinkExit, RotateWG, DeleteNode, Moves, chanVars
<1>6. ASSUME NEW n \in Node, GcOfflinePeer(n) PROVE \A r \in Sess : Moves(r)
  BY <1>6 DEF GcOfflinePeer, Moves
<1>7. ASSUME NEW n \in Node, ApplyPeer(n) \/ ApplyPeerFails(n) PROVE \A r \in Sess : Moves(r)
  <2>1. HasFrame(n) /\ Frame(n).type \in {"peer_add", "peer_update"}
    BY <1>7 DEF ApplyPeer, ApplyPeerFails
  <2>2. Frame(n).spec \in PeerSpec
    BY <2>1, FrameType DEF BaseInv
  <2>3. PICK id \in Nat : id = Frame(n).spec.link
    BY <2>2 DEF PeerSpec
  <2>4. Consume(n, id, TRUE) \/ Consume(n, id, FALSE)
    BY <1>7, <2>3 DEF ApplyPeer, ApplyPeerFails
  <2> QED
    BY <2>1, <2>4, ConsumeMoves DEF BaseInv
<1>8. ASSUME NEW n \in Node, ApplyRemove(n) PROVE \A r \in Sess : Moves(r)
  <2>1. HasFrame(n) /\ (Consume(n, NoLink, TRUE) \/ Consume(n, NoLink, FALSE)) /\ NoLink \in Nat
    BY <1>8 DEF ApplyRemove, NoLink
  <2> QED
    BY <2>1, ConsumeMoves DEF BaseInv
<1>9. \A r \in Sess : Moves(r)
  BY <1>2, <1>3, <1>4, <1>5, <1>6, <1>7, <1>8
<1>10. Quiet
  BY QuietSessionSteps, QuietRequestSteps, QuietAgentSteps DEF BaseInv
<1> QED
  BY <1>1, <1>9, <1>10, QuietOnce
\* The hub reads a register, answers it, and queues the answer.
LEMMA RegisterOnce ==
  ASSUME BaseInv, KeyInv, OnceInv, NEW s \in Sess,
         ReadRegister(s) \/ HandleRegister(s) \/ SendRegisterAck(s)
  PROVE  OnceInv'
<1>1. /\ ChanTypes /\ inb \in [Sess -> Seq(ToHub)] /\ pc \in [Sess -> {"idle", "links", "ack"}]
      /\ \A r \in Sess : FrontOk(r) /\ WaitOk(r)
  BY DEF BaseInv, Types, ChanTypes, SessVarTypes, OnceInv
<1>2. CASE ReadRegister(s)
  <2>1. /\ pc[s] = "idle" /\ inb[s] # <<>> /\ Head(inb[s]).type = "register"
        /\ inb' = [inb EXCEPT ![s] = Tail(@)] /\ pc' = [pc EXCEPT ![s] = "links"]
        /\ UNCHANGED <<out, conn, phase>>
    BY <1>2 DEF ReadRegister, agentVars
  <2>2. Regs(s) # {}
    BY <1>1, <2>1, NoRegister
  <2>3. ASSUME NEW r \in Sess PROVE FrontOk(r)'
    <3>1. Moves(r)
      BY <1>1, <2>1 DEF Moves
    <3>2. pc'[r] = pc[r] \/ (inb[r] # <<>> /\ inb'[r] = Tail(inb[r]))
      BY <1>1, <2>1
    <3> QED
      BY <1>1, <3>1, <3>2, FrontKept
  <2>4. ASSUME NEW r \in Sess PROVE WaitOk(r)'
    <3>1. Acks(r)' = Acks(r)
      BY <2>1 DEF Acks
    <3>2. r # s => Regs(r)' = Regs(r) /\ pc'[r] = pc[r]
      BY <1>1, <2>1 DEF Regs
    <3> QED
      BY <1>1, <2>1, <2>2, <3>1, <3>2 DEF WaitOk
  <2> QED
    BY <2>3, <2>4 DEF OnceInv
<1>3. CASE HandleRegister(s)
  <2>1. /\ pc[s] = "links" /\ pc' = [pc EXCEPT ![s] = "ack"]
        /\ UNCHANGED <<inb, conn, phase>> /\ Send(RegisterFrames(s))
    BY <1>3 DEF HandleRegister, agentVars
  <2>2. FrameMap(RegisterFrames(s)) /\ Plain(RegisterFrames(s))
    BY RegisterFramesOk, PushesArePlain DEF BaseInv
  <2>3. \A r \in Sess : Range(out'[r]) \subseteq Range(out[r])
           \cup (IF r \in DOMAIN RegisterFrames(s) THEN {RegisterFrames(s)[r]} ELSE {})
    BY <2>1, <2>2, SendQueues DEF BaseInv
  <2>4. ASSUME NEW r \in Sess PROVE FrontOk(r)'
    BY <1>1, <2>1 DEF FrontOk
  <2>5. ASSUME NEW r \in Sess PROVE WaitOk(r)'
    <3>1. Acks(r)' \subseteq Acks(r)
      BY <2>2, <2>3 DEF Acks, Plain
    <3>2. Regs(r)' = Regs(r)
      BY <2>1 DEF Regs
    <3>3. pc'[r] # "idle" => pc[r] # "idle"
      BY <1>1, <2>1
    <3> QED
      BY <1>1, <2>1, <3>1, <3>2, <3>3 DEF WaitOk
  <2> QED
    BY <2>4, <2>5 DEF OnceInv
<1>4. CASE SendRegisterAck(s)
  <2>1. PICK fr : fr = [r \in {s} |-> [type |-> "register_ack", peers |-> exp[s]]]
    OBVIOUS
  <2>2. FrameMap(fr) /\ DOMAIN fr = {s}
    BY <2>1, FramesAreFrames DEF FrameMap, BaseInv, Types, SessVarTypes
  <2>3. /\ pc[s] = "ack" /\ pc' = [pc EXCEPT ![s] = "idle"]
        /\ UNCHANGED <<inb, conn, phase>> /\ Send(fr)
    BY <1>4, <2>1 DEF SendRegisterAck, agentVars
  <2>4. Regs(s) = {}
    BY <1>1, <2>3, NoRegister
  <2>5. ASSUME NEW r \in Sess PROVE FrontOk(r)'
    BY <1>1, <2>3 DEF FrontOk
  <2>6. ASSUME NEW r \in Sess PROVE WaitOk(r)'
    <3>1. Regs(r)' = Regs(r)
      BY <2>3 DEF Regs
    <3>2. CASE r = s
      BY <1>1, <2>3, <2>4, <3>1, <3>2 DEF WaitOk
    <3>3. CASE r # s
      <4>1. Range(out'[r]) \subseteq Range(out[r])
        BY <2>2, <2>3, <3>3, SendQueues DEF BaseInv
      <4>2. Acks(r)' \subseteq Acks(r) /\ pc'[r] = pc[r]
        BY <1>1, <2>3, <3>3, <4>1 DEF Acks
      <4> QED
        BY <1>1, <2>3, <3>1, <4>2 DEF WaitOk
    <3> QED
      BY <3>2, <3>3
  <2> QED
    BY <2>5, <2>6 DEF OnceInv
<1> QED
  BY <1>2, <1>3, <1>4

\* Connections end at the hub.
LEMMA DroppedOnce ==
  ASSUME BaseInv, KeyInv, OnceInv, (\E s \in Sess : DropSession(s)) \/ HubRestart
  PROVE  OnceInv'
<1>1. inb \in [Sess -> Seq(ToHub)] /\ \A r \in Sess : FrontOk(r) /\ WaitOk(r)
  BY DEF BaseInv, Types, ChanTypes, OnceInv
<1>2. /\ UNCHANGED <<out, conn, phase>>
      /\ \A r \in Sess : \/ inb'[r] = inb[r] /\ pc'[r] = pc[r]
                         \/ inb'[r] = <<>> /\ pc'[r] = "idle"
  <2>1. CASE HubRestart
    BY <2>1 DEF HubRestart, agentVars
  <2>2. ASSUME NEW s \in Sess, DropSession(s)
        PROVE  /\ UNCHANGED <<out, conn, phase, pc>> /\ pc[s] = "idle"
               /\ inb' = [inb EXCEPT ![s] = <<>>]
    BY <2>2 DEF DropSession, agentVars
  <2> QED
    BY <1>1, <2>1, <2>2
<1>3. ASSUME NEW r \in Sess, inb'[r] = inb[r], pc'[r] = pc[r] PROVE FrontOk(r)' /\ WaitOk(r)'
  <2>1. Regs(r)' = Regs(r) /\ Acks(r)' = Acks(r)
    BY <1>2, <1>3 DEF Regs, Acks
  <2> QED
    BY <1>1, <1>2, <1>3, <2>1 DEF FrontOk, WaitOk
<1>4. ASSUME NEW r \in Sess, inb'[r] = <<>>, pc'[r] = "idle" PROVE FrontOk(r)' /\ WaitOk(r)'
  <2>1. Regs(r)' = {}
    BY <1>4, RangeOfEmpty DEF Regs
  <2>2. FrontOk(r)'
    BY <1>4 DEF FrontOk
  <2> QED
    BY <1>4, <2>1, <2>2 DEF WaitOk
<1> QED
  BY <1>2, <1>3, <1>4 DEF OnceInv

\* A new connection starts with its register.
LEMMA ConnectOnce ==
  ASSUME BaseInv, KeyInv, OnceInv, NEW n \in Node, NEW s \in Sess, Connect(n, s)
  PROVE  OnceInv'
<1>1. PICK r0 : r0 = [type |-> "register", gen |-> key[n]]
  OBVIOUS
<1>2. PICK e0 : e0 = [type |-> "error"]
  OBVIOUS
<1>3. /\ pc' = pc /\ Owner(s) = n /\ hubSt[s] = "none" /\ phase[n] = "down"
      /\ phase' = [phase EXCEPT ![n] = "registering"] /\ conn' = [conn EXCEPT ![n] = s]
  BY DEF Connect, sessVars
<1>4. \/ out' = [out EXCEPT ![s] = <<e0>>] /\ inb' = inb
      \/ out' = out /\ inb' = [inb EXCEPT ![s] = <<r0>>]
  BY <1>1, <1>2 DEF Connect, HandleConn
<1>5. /\ inb \in [Sess -> Seq(ToHub)] /\ out \in [Sess -> Seq(ToAgent)]
      /\ conn \in [Node -> Sess \cup {None}]
      /\ phase \in [Node -> {"down", "registering", "up", "gone"}]
      /\ \A r \in Sess : FrontOk(r) /\ WaitOk(r)
  BY DEF BaseInv, Types, ChanTypes, ConnTypes, OnceInv
<1>6. conn[n] = None /\ out[s] = <<>> /\ inb[s] = <<>> /\ pc[s] = "idle"
  BY <1>3, <1>5, NoneIsNoSession DEF KeyInv, SlotOk, NodeOk
<1>7. /\ out'[s] = <<e0>> \/ out'[s] = <<>>
      /\ inb'[s] = <<r0>> \/ inb'[s] = <<>>
      /\ \A r \in Sess \ {s} : out'[r] = out[r] /\ inb'[r] = inb[r]
  BY <1>4, <1>5, <1>6
<1>8. Acks(s)' = {}
  <2>1. Range(<<e0>>) = {e0} /\ e0.type # "register_ack" /\ Range(<<>>) = {}
    BY <1>2, RangeOfEmpty DEF Range
  <2> QED
    BY <1>7, <2>1 DEF Acks
<1>9. FrontOk(s)'
  BY <1>3, <1>6, <1>7 DEF FrontOk
<1>10. WaitOk(s)'
  BY <1>3, <1>5, <1>8, OwnerIsNode DEF WaitOk
<1>11. ASSUME NEW r \in Sess \ {s} PROVE FrontOk(r)' /\ WaitOk(r)'
  <2>1. Regs(r)' = Regs(r) /\ Acks(r)' = Acks(r)
    BY <1>7 DEF Regs, Acks
  <2>2. FrontOk(r)'
    BY <1>3, <1>5, <1>7 DEF FrontOk
  <2>3. Owner(r) \in Node /\ (Owner(r) = n => conn'[Owner(r)] # r)
    BY <1>3, <1>5, OwnerIsNode
  <2>4. Owner(r) # n => conn'[Owner(r)] = conn[Owner(r)] /\ phase'[Owner(r)] = phase[Owner(r)]
    BY <1>3, <1>5, <2>3
  <2> QED
    BY <1>3, <1>5, <2>1, <2>2, <2>3, <2>4 DEF WaitOk
<1> QED
  BY <1>9, <1>10, <1>11 DEF OnceInv

\* The agent takes the answer, or leaves its connection.
LEMMA AgentOnce ==
  ASSUME BaseInv, KeyInv, OnceInv, NEW n \in Node,
         \/ RegisterAck(n) \/ LoseConn(n) \/ RegisterFails(n) \/ ApplyRotate(n) \/ ApplyKick(n)
         \/ AgentRestart(n)
  PROVE  OnceInv'
<1>1. /\ out \in [Sess -> Seq(ToAgent)] /\ conn \in [Node -> Sess \cup {None}]
      /\ phase \in [Node -> {"down", "registering", "up", "gone"}]
      /\ \A r \in Sess : FrontOk(r) /\ WaitOk(r) /\ Owner(r) \in Node
  BY OwnerIsNode DEF BaseInv, Types, ChanTypes, ConnTypes, OnceInv
<1>2. UNCHANGED <<pc, inb>>
  BY DEF RegisterAck, LoseConn, RegisterFails, ApplyRotate, ApplyKick, AgentRestart, sessVars
<1>3. \A r \in Sess : FrontOk(r)' /\ Regs(r)' = Regs(r)
  BY <1>1, <1>2 DEF FrontOk, Regs
<1>4. CASE RegisterAck(n)
  <2>1. PICK c \in Sess : c = conn[n] /\ out[c] # <<>> /\ Head(out[c]).type = "register_ack"
    BY <1>4, FrameType DEF BaseInv, RegisterAck, HasFrame, Frame
  <2>2. /\ conn' = conn /\ phase' = [phase EXCEPT ![n] = "up"] /\ out' = [out EXCEPT ![c] = Tail(@)]
    BY <1>4, <2>1 DEF RegisterAck
  <2>3. Owner(c) = n
    BY <2>1, NoneIsNoSession DEF KeyInv, NodeOk
  <2>4. Head(out[c]) \in Range(out[c]) /\ Range(Tail(out[c])) \subseteq Range(out[c])
    BY <1>1, <2>1, RangeOfTail
  <2>5. Head(out[c]) \in Acks(c) /\ \A r \in Sess : Acks(r)' \subseteq Acks(r)
    BY <1>1, <2>1, <2>2, <2>4 DEF Acks
  <2>6. pc[c] = "idle" /\ Regs(c) = {}
    BY <1>1, <2>1, <2>3, <2>5 DEF WaitOk
  <2>7. ASSUME NEW r \in Sess PROVE WaitOk(r)'
    <3>1. CASE r = c
      BY <1>2, <1>3, <2>6, <3>1 DEF WaitOk
    <3>2. CASE r # c /\ Owner(r) = n
      BY <2>1, <2>2, <3>2 DEF WaitOk
    <3>3. CASE Owner(r) # n
      BY <1>1, <1>2, <1>3, <2>2, <2>5, <3>3 DEF WaitOk
    <3> QED
      BY <2>3, <3>1, <3>2, <3>3
  <2> QED
    BY <1>3, <2>7 DEF OnceInv
<1>5. CASE ~RegisterAck(n)
  <2>1. /\ conn' = [conn EXCEPT ![n] = None] /\ \E ph \in {"down", "gone"} : phase' = [phase EXCEPT ![n] = ph]
        /\ \A r \in Sess : out'[r] = out[r] \/ r = conn[n]
    BY <1>1, <1>5 DEF LoseConn, RegisterFails, ApplyRotate, ApplyKick, AgentRestart, Hangup
  <2>2. ASSUME NEW r \in Sess PROVE WaitOk(r)'
    <3>1. CASE Owner(r) = n
      BY <1>1, <2>1, <3>1, NoneIsNoSession DEF WaitOk
    <3>2. CASE Owner(r) # n
      <4>1. r # conn[n]
        BY <3>2, NoneIsNoSession DEF KeyInv, NodeOk
      <4>2. out'[r] = out[r] /\ conn'[Owner(r)] = conn[Owner(r)] /\ phase'[Owner(r)] = phase[Owner(r)]
        BY <1>1, <2>1, <3>2, <4>1
      <4>3. Acks(r)' = Acks(r)
        BY <4>2 DEF Acks
      <4> QED
        BY <1>1, <1>2, <1>3, <4>2, <4>3 DEF WaitOk
    <3> QED
      BY <3>1, <3>2
  <2> QED
    BY <1>3, <2>2 DEF OnceInv
<1> QED
  BY <1>4, <1>5

\* Every step keeps one register per connection.
LEMMA OnceStep == FreshInv /\ OnceInv /\ [Next]_vars => OnceInv'
<1> SUFFICES ASSUME BaseInv, KeyInv, OnceInv, [Next]_vars PROVE OnceInv'
  BY DEF FreshInv
<1>1. ASSUME NEW s \in Sess, SessionStep(s) \/ CloseConn(s) PROVE OnceInv'
  BY <1>1, QuietOnceSteps, RegisterOnce, DroppedOnce DEF SessionStep
<1>2. ASSUME UNCHANGED <<pc, inb, out, conn, phase>> PROVE OnceInv'
  BY <1>2 DEF OnceInv, FrontOk, WaitOk, Regs, Acks
<1>3. ASSUME NEW t \in todo, RequestStep(t) PROVE OnceInv'
  <2>1. CASE DeleteNodeForget(t)
    BY <1>2, <2>1 DEF DeleteNodeForget, sessVars, chanVars, agentVars
  <2>2. CASE ~DeleteNodeForget(t)
    BY <1>3, <2>2, QuietOnceSteps DEF RequestStep
  <2> QED
    BY <2>1, <2>2
<1>4. ASSUME NEW n \in Node, AgentStep(n) \/ LoseConn(n) \/ RegisterFails(n) PROVE OnceInv'
  BY <1>4, ConnectOnce, AgentOnce, QuietOnceSteps DEF AgentStep
<1>5. CASE AdminStep
  BY <1>5, QuietOnceSteps
<1>6. CASE Fault
  BY <1>6, DroppedOnce, AgentOnce, QuietOnceSteps DEF Fault
<1>7. CASE UNCHANGED vars
  BY <1>2, <1>7 DEF vars, sessVars, chanVars, agentVars
<1> QED
  BY <1>1, <1>3, <1>4, <1>5, <1>6, <1>7 DEF Next

\* The invariant that the proofs below rest on.
PathsInv == FreshInv /\ PathInv

\* It holds initially ...
LEMMA PathsInit == Init => PathsInv
<1> SUFFICES ASSUME Init PROVE PathInv
  BY FreshInit DEF PathsInv
<1>1. /\ store = {} /\ minted = 0 /\ todo = {}
      /\ registered = [s \in Sess |-> FALSE] /\ pc = [s \in Sess |-> "idle"]
      /\ snap = [s \in Sess |-> {}] /\ inb = [s \in Sess |-> <<>>]
  BY DEF Init
<1>2. Rows = {}
  BY <1>1 DEF Rows
<1>3. ASSUME NEW s \in Sess PROVE FrontOk(s) /\ WaitOk(s)
  <2>1. Regs(s) = {}
    BY <1>1, RangeOfEmpty DEF Regs
  <2> QED
    BY <1>1, <2>1 DEF FrontOk, WaitOk
<1> QED
  BY <1>1, <1>2, <1>3 DEF PathInv, IdInv, SnapInv, OnePerPair, OnceInv, KnownInv

\* ... and every step keeps it.
LEMMA PathsStep == PathsInv /\ [Next]_vars => PathsInv'
  BY FreshStep, IdStep, SnapStep, OnceStep, KnownStep DEF PathsInv, PathInv, FreshInv, BaseInv
------------------------------------------------------------------------------
(* What keeps the deal                                                      *)

\* A linked end to which the hub talks, and the other end.
LEMMA LiveFacts ==
  ASSUME PathsInv, NEW l \in Link, NEW n \in l.ends, Live(l, n)
  PROVE  /\ n \in Node /\ Other(l, n) \in Node /\ Other(l, n) # n
         /\ l.ends = {n, Other(l, n)} /\ Other(l, Other(l, n)) = n
         /\ n \notin revokedDB /\ Other(l, n) \notin revokedDB
         /\ conn[n] \in Sess /\ Owner(conn[n]) = n /\ sessions[n] = conn[n]
         /\ Ready(n) /\ Ready(Other(l, n))
<1>1. /\ n \in Node /\ Other(l, n) \in Node /\ Other(l, n) # n /\ l.ends = {n, Other(l, n)}
      /\ Other(l, Other(l, n)) = n
  BY OtherIsEnd, OtherOfOther, PairOfEnds
<1>2. n \notin revokedDB /\ Other(l, n) \notin revokedDB
  BY <1>1 DEF Live, Settled
<1>3. conn \in [Node -> Sess \cup {None}] /\ sessions \in [Node -> Sess \cup {None}]
  BY DEF PathsInv, FreshInv, BaseInv, Types, ConnTypes, HubTypes
<1>4. conn[n] \in Sess /\ hubSt[conn[n]] = "open" /\ registered[conn[n]]
  BY <1>1, <1>3 DEF Live
<1>5. Owner(conn[n]) = n
  BY <1>1, <1>4, NoneIsNoSession DEF PathsInv, FreshInv, KeyInv, NodeOk
<1>6. sessions[n] = conn[n]
  BY <1>4, <1>5 DEF PathsInv, FreshInv, BaseInv, OneLiveSession
<1>7. lastWG[n] # None
  BY <1>2, <1>4, <1>5 DEF PathsInv, PathInv, KnownInv
<1>8. Ready(n)
  BY <1>4, <1>6, <1>7, NoneIsNoSession DEF Ready
<1> QED
  BY <1>1, <1>2, <1>4, <1>5, <1>6, <1>8 DEF Live

\* Two links of a node lead to different nodes, or are of the same pair.
LEMMA SamePair ==
  ASSUME NEW x \in Link, NEW l \in Link, NEW n \in l.ends, n \in x.ends, Other(x, n) = Other(l, n)
  PROVE  x.ends = l.ends
BY PairOfEnds

\* A link between existing nodes is described as before when the key of the
\* other end is the same.
LEMMA NowStays ==
  ASSUME NEW l \in Link, NEW n \in l.ends, l.ends \cap revokedDB = {}, l.ends \cap revokedDB' = {},
         lastWG'[Other(l, n)] = lastWG[Other(l, n)]
  PROVE  /\ Now(l, n)' = Now(l, n) /\ Settles(l, n)' = Settles(l, n)
         /\ dev'[n] = dev[n] /\ exits'[n] = exits[n] => (Right(l, n)' <=> Right(l, n))
<1>1. Other(l, n) \in l.ends /\ n \in Node
  BY OtherIsEnd, OtherOfOther
<1>2. Now(l, n)' = Now(l, n)
  BY <1>1 DEF Now, SpecOf
<1>3. Settles(l, n)' = Settles(l, n)
  BY <1>2 DEF Settles
<1>4. dev'[n] = dev[n] /\ exits'[n] = exits[n] => (Right(l, n)' <=> Right(l, n))
  BY DEF Right
<1> QED
  BY <1>2, <1>3, <1>4

\* The hub goes on talking to n about l, and neither the other end's key nor
\* what n has and is sent changes.
Same(l, n) ==
  /\ Live(l, n) /\ lastWG'[Other(l, n)] = lastWG[Other(l, n)]
  /\ conn'[n] = conn[n] /\ phase'[n] = phase[n] /\ dev'[n] = dev[n] /\ exits'[n] = exits[n]
  /\ \A c \in Sess : c = conn[n] => Queue(c)' = Queue(c)

\* Such steps keep the deal.
LEMMA DealStays ==
  ASSUME PathsInv, NEW l \in Link, NEW n \in l.ends, Deal(l, n), Live(l, n)' => Same(l, n)
  PROVE  Deal(l, n)'
<1> SUFFICES ASSUME Live(l, n)' PROVE (Doomed(n) \/ Told(l, n))'
  BY DEF Deal
<1>1. PICK c \in Sess : c = conn[n]
  BY LiveFacts DEF Same
<1>2. conn'[n] = c /\ Queue(c)' = Queue(c) /\ phase'[n] = phase[n]
  BY <1>1 DEF Same
<1>3. /\ Settles(l, n)' = Settles(l, n) /\ (Right(l, n)' <=> Right(l, n))
  BY NowStays DEF Same, Live, Settled
<1>4. Doomed(n) \/ Told(l, n)
  BY DEF Deal, Same
<1>5. CASE Doomed(n)
  BY <1>1, <1>2, <1>5 DEF Doomed
<1>6. CASE Told(l, n)
  BY <1>1, <1>2, <1>3, <1>6 DEF Told, LastIn, Matters
<1> QED
  BY <1>4, <1>5, <1>6

\* A frame is queued for a session: the deal is kept if it settles the link,
\* if it does not bear on it, or if it ends the session.
LEMMA DealSent ==
  ASSUME PathsInv, NEW l \in Link, NEW n \in l.ends, NEW fr, FrameMap(fr), Plain(fr), Send(fr),
         NEW c \in Sess, c = conn[n], Owner(c) = n, n \in Node,
         UNCHANGED <<phase, conn, dev, exits>>, pc'[c] = pc[c], exp'[c] = exp[c],
         Live(l, n)' =>
           \/ c \in DOMAIN fr /\ fr[c] \in Settles(l, n)'
           \/ /\ Live(l, n) /\ Deal(l, n) /\ lastWG'[Other(l, n)] = lastWG[Other(l, n)]
              /\ c \in DOMAIN fr => fr[c] \notin Matters(l, n) \/ Fatal(fr[c])
  PROVE  Deal(l, n)'
<1> SUFFICES ASSUME Live(l, n)' PROVE (Doomed(n) \/ Told(l, n))'
  BY DEF Deal
<1>1. /\ hubSt \in [Sess -> {"none", "checked", "open", "closed"}] /\ out \in [Sess -> Seq(ToAgent)]
      /\ pc \in [Sess -> {"idle", "links", "ack"}] /\ exp \in [Sess -> SUBSET PeerSpec]
      /\ OutCap \in Nat
  BY CapAssumption DEF PathsInv, FreshInv, BaseInv, Types, ChanTypes, SessVarTypes
<1>2. hubSt'[c] = "open" /\ conn'[n] = c
  BY DEF Live
<1>3. hubSt[c] = "open" /\ (c \in DOMAIN fr => ~(Len(out[c]) >= OutCap))
  BY <1>1, <1>2 DEF Send, OverflowClosed
<1>4. out'[c] = IF c \in DOMAIN fr THEN Append(out[c], fr[c]) ELSE out[c]
  <2>1. Len(out[c]) \in Nat
    BY <1>1
  <2> QED
    BY <1>1, <1>3, <2>1 DEF Send, Queued
<1>5. CASE c \notin DOMAIN fr
  <2>1. Queue(c)' = Queue(c)
    BY <1>4, <1>5 DEF Queue
  <2>2. Same(l, n) /\ Deal(l, n)
    BY <1>5, <2>1 DEF Same
  <2>3. Deal(l, n)'
    BY <2>2, DealStays
  <2> QED
    BY <2>3 DEF Deal
<1>6. CASE c \in DOMAIN fr
  <2>1. PICK f \in ToAgent : f = fr[c] /\ f.type # "register_ack"
    BY <1>6 DEF FrameMap, Plain
  <2>2. out'[c] = Append(out[c], f)
    BY <1>4, <1>6, <2>1
  <2>3. CASE pc[c] = "ack"
    <3>1. phase[n] = "registering" /\ Acks(c) = {}
      BY <2>3 DEF PathsInv, PathInv, OnceInv, WaitOk
    <3>2. PICK a \in ToAgent : a = [type |-> "register_ack", peers |-> exp[c]]
      BY <1>1, FramesAreFrames
    <3>3. Queue(c)' = Append(Append(out[c], f), a)
      BY <2>2, <2>3, <3>2 DEF Queue
    <3>4. /\ Append(out[c], f) \in Seq(ToAgent) /\ Len(Append(out[c], f)) = Len(out[c]) + 1
          /\ Len(out[c]) \in Nat
          /\ \A i \in 1 .. Len(out[c]) : Append(out[c], f)[i] = out[c][i]
          /\ Append(out[c], f)[Len(out[c]) + 1] = f
      BY <1>1, AppendProperties
    <3>5. Append(out[c], f)[1].type # "register_ack"
      <4>1. CASE Len(out[c]) = 0
        BY <2>1, <3>4, <4>1
      <4>2. CASE Len(out[c]) # 0
        <5>1. 1 \in 1 .. Len(out[c]) /\ Range(out[c]) = {out[c][i] : i \in 1 .. Len(out[c])}
          BY <1>1, <3>4, <4>2, RangeOfQueue
        <5>2. out[c][1] \in Range(out[c])
          BY <5>1
        <5> QED
          BY <3>1, <3>4, <5>1, <5>2 DEF Acks
      <4> QED
        BY <4>1, <4>2
    <3>6. Queue(c)' # <<>> /\ Head(Queue(c)') = Append(out[c], f)[1]
      <4>1. PICK q \in Seq(ToAgent) : q = Append(out[c], f)
        BY <3>4
      <4>2. Len(q) \in Nat \ {0} /\ 1 \in 1 .. Len(q)
        BY <3>4, <4>1
      <4>3. Append(q, a)[1] = q[1] /\ Append(q, a) # <<>> /\ Append(q, a) \in Seq(ToAgent)
        BY <4>2, AppendProperties
      <4>4. Head(Append(q, a)) = Append(q, a)[1]
        BY <4>3, HeadTailProperties
      <4> QED
        BY <3>3, <4>1, <4>3, <4>4
    <3> QED
      BY <1>2, <3>1, <3>5, <3>6 DEF Doomed
  <2>4. CASE pc[c] # "ack"
    <3>1. Queue(c) = out[c] /\ Queue(c)' = Append(out[c], f)
      BY <2>2, <2>4 DEF Queue
    <3>2. /\ Len(out[c]) \in Nat /\ Len(Append(out[c], f)) = Len(out[c]) + 1
          /\ \A i \in 1 .. Len(out[c]) : Append(out[c], f)[i] = out[c][i]
          /\ Append(out[c], f)[Len(out[c]) + 1] = f
      BY <1>1, AppendProperties
    <3>3. CASE f \in Settles(l, n)'
      <4>1. LastIn(Right(l, n)', Append(out[c], f), Settles(l, n)', Matters(l, n))
        BY <1>1, <3>3, LastOfAppend
      <4> QED
        BY <1>2, <3>1, <4>1 DEF Told, Matters
    <3>4. CASE Fatal(f)
      <4>1. Len(out[c]) + 1 \in 1 .. Len(Append(out[c], f))
        BY <3>2
      <4> QED
        BY <1>2, <3>1, <3>2, <3>4, <4>1 DEF Doomed
    <3>5. CASE f \notin Settles(l, n)' /\ ~Fatal(f)
      <4>1. Live(l, n) /\ Deal(l, n) /\ lastWG'[Other(l, n)] = lastWG[Other(l, n)] /\ f \notin Matters(l, n)
        BY <1>6, <2>1, <3>5
      <4>2. Settles(l, n)' = Settles(l, n) /\ (Right(l, n)' <=> Right(l, n))
        BY <4>1, NowStays DEF Live, Settled
      <4>3. Doomed(n) \/ Told(l, n)
        BY <4>1 DEF Deal
      <4>4. CASE Told(l, n)
        <5>1. LastIn(Right(l, n), out[c], Settles(l, n), Matters(l, n))
          BY <3>1, <4>4 DEF Told
        <5>2. LastIn(Right(l, n), Append(out[c], f), Settles(l, n), Matters(l, n))
          BY <1>1, <4>1, <5>1, LastOfAppend
        <5>3. LastIn(Right(l, n)', Append(out[c], f), Settles(l, n)', Matters(l, n))
          BY <4>2, <5>2 DEF LastIn
        <5> QED
          BY <1>2, <3>1, <5>3 DEF Told, Matters
      <4>5. CASE \E i \in 1 .. Len(out[c]) : Fatal(out[c][i])
        BY <1>2, <3>1, <3>2, <4>5 DEF Doomed
      <4>6. CASE phase[n] = "registering" /\ out[c] # <<>> /\ Head(out[c]).type # "register_ack"
        <5>1. Len(out[c]) # 0 /\ Head(out[c]) = out[c][1]
          BY <1>1, <4>6, HeadTailProperties
        <5>2. Append(out[c], f) # <<>> /\ Append(out[c], f) \in Seq(ToAgent)
          BY <1>1, AppendProperties
        <5>3. Head(Append(out[c], f)) = Append(out[c], f)[1]
          BY <5>2, HeadTailProperties
        <5>4. Head(Append(out[c], f)) = Head(out[c])
          BY <3>2, <5>1, <5>3
        <5> QED
          BY <1>2, <3>1, <4>6, <5>2, <5>4 DEF Doomed
      <4> QED
        BY <3>1, <4>3, <4>4, <4>5, <4>6 DEF Doomed
    <3> QED
      BY <3>3, <3>4, <3>5
  <2> QED
    BY <2>3, <2>4
<1> QED
  BY <1>5, <1>6
------------------------------------------------------------------------------
(* The hub's connections                                                    *)

\* The hub starts to read a connection: it has not registered yet, and an
\* older one of the node is closed.
LEMMA RunSessionDeal ==
  ASSUME PathsInv, NEW l \in Link, NEW n \in l.ends, Deal(l, n), NEW s \in Sess, RunSession(s)
  PROVE  Deal(l, n)'
<1> SUFFICES ASSUME Live(l, n)' PROVE Same(l, n)
  BY DealStays
<1> DEFINE o == Other(l, n)
<1>1. n \in Node /\ o \in Node
  BY OtherIsEnd, OtherOfOther
<1>2. /\ hubSt \in [Sess -> {"none", "checked", "open", "closed"}]
      /\ sessions \in [Node -> Sess \cup {None}] /\ conn \in [Node -> Sess \cup {None}]
  BY DEF PathsInv, FreshInv, BaseInv, Types, ChanTypes, HubTypes, ConnTypes
<1>3. /\ UNCHANGED <<lastWG, registered, pc, exp, out, phase, conn, dev, exits, todo, torn, revokedDB>>
      /\ hubSt[s] = "checked" /\ sessions' = [sessions EXCEPT ![Owner(s)] = s]
      /\ \A r \in Sess : r # s /\ hubSt'[r] = "open" => hubSt[r] = "open"
  BY <1>2 DEF RunSession, dbVars, sessVars, agentVars, wgVars
<1>4. ~registered[s]
  BY <1>3 DEF PathsInv, FreshInv, KeyInv, SlotOk
<1>5. conn[n] \in Sess /\ registered[conn[n]] /\ hubSt'[conn[n]] = "open" /\ conn[n] # None
  BY <1>1, <1>2, <1>3 DEF Live
<1>6. hubSt[conn[n]] = "open"
  BY <1>3, <1>4, <1>5
<1>7. Ready(o)
  <2>1. sessions'[o] # None /\ registered[sessions'[o]] /\ lastWG[o] # None
    BY <1>3 DEF Live, Ready
  <2>2. o # Owner(s)
    BY <1>2, <1>3, <1>4, <2>1, OwnerIsNode
  <2> QED
    BY <1>1, <1>2, <1>3, <2>1, <2>2 DEF Ready
<1>8. Settled(l.ends)
  BY <1>3 DEF Live, Settled, Busy
<1> QED
  BY <1>3, <1>5, <1>6, <1>7, <1>8 DEF Same, Live, Queue

\* The hub reads, or closes a connection.
LEMMA ReadDeal ==
  ASSUME PathsInv, NEW l \in Link, NEW n \in l.ends, Deal(l, n), NEW s \in Sess,
         ReadRegister(s) \/ HandleAck(s) \/ CloseConn(s)
  PROVE  Deal(l, n)'
<1> SUFFICES ASSUME Live(l, n)' PROVE Same(l, n)
  BY DealStays
<1>1. /\ hubSt \in [Sess -> {"none", "checked", "open", "closed"}]
      /\ pc \in [Sess -> {"idle", "links", "ack"}] /\ conn \in [Node -> Sess \cup {None}]
  BY DEF PathsInv, FreshInv, BaseInv, Types, ChanTypes, SessVarTypes, ConnTypes
<1>2. /\ UNCHANGED <<sessions, lastWG, registered, exp, out, phase, conn, dev, exits, todo, torn,
                     revokedDB>>
      /\ \A r \in Sess : hubSt'[r] = "open" => hubSt[r] = "open"
      /\ \A r \in Sess : pc'[r] = "ack" <=> pc[r] = "ack"
  BY <1>1 DEF ReadRegister, HandleAck, CloseConn, dbVars, hubVars, sessVars, agentVars, wgVars
<1>3. conn[n] \in Sess /\ hubSt'[conn[n]] = "open"
  BY <1>1, <1>2, OtherOfOther DEF Live
<1>4. Live(l, n)
  BY <1>2, <1>3 DEF Live, Settled, Busy, Ready
<1> QED
  BY <1>2, <1>4 DEF Same, Queue

\* The register_ack that was to be sent is sent.
LEMMA SendRegisterAckDeal ==
  ASSUME PathsInv, NEW l \in Link, NEW n \in l.ends, Deal(l, n), NEW s \in Sess, SendRegisterAck(s)
  PROVE  Deal(l, n)'
<1> SUFFICES ASSUME Live(l, n)' PROVE Same(l, n)
  BY DealStays
<1>1. PICK fr : fr = [r \in {s} |-> [type |-> "register_ack", peers |-> exp[s]]]
  OBVIOUS
<1>2. DOMAIN fr = {s} /\ fr[s] = [type |-> "register_ack", peers |-> exp[s]]
  BY <1>1
<1>3. /\ hubSt \in [Sess -> {"none", "checked", "open", "closed"}] /\ out \in [Sess -> Seq(ToAgent)]
      /\ pc \in [Sess -> {"idle", "links", "ack"}] /\ conn \in [Node -> Sess \cup {None}]
      /\ exp \in [Sess -> SUBSET PeerSpec] /\ OutCap \in Nat
  BY CapAssumption DEF PathsInv, FreshInv, BaseInv, Types, ChanTypes, SessVarTypes, ConnTypes
<1>4. /\ UNCHANGED <<sessions, lastWG, registered, phase, conn, dev, exits, todo, torn, revokedDB>>
      /\ pc[s] = "ack" /\ pc' = [pc EXCEPT ![s] = "idle"] /\ exp' = [exp EXCEPT ![s] = {}] /\ Send(fr)
  BY <1>1 DEF SendRegisterAck, hubVars, agentVars, wgVars
<1>5. PICK c \in Sess : c = conn[n] /\ hubSt'[c] = "open"
  BY <1>3, <1>4, OtherOfOther DEF Live
<1>6. hubSt[c] = "open" /\ (c = s => ~(Len(out[c]) >= OutCap))
  BY <1>2, <1>3, <1>4, <1>5 DEF Send, OverflowClosed
<1>7. Live(l, n)
  BY <1>4, <1>5, <1>6 DEF Live, Settled, Busy, Ready
<1>8. Owner(c) = n
  BY <1>5, <1>7, LiveFacts
<1>9. Queue(c)' = Queue(c)
  <2>1. CASE c = s
    <3>1. out'[c] = Append(out[c], fr[c])
      <4>1. Len(out[c]) \in Nat /\ OutCap \in Nat
        BY <1>3
      <4>2. Len(out[c]) < OutCap
        BY <1>6, <2>1, <4>1
      <4>3. c \in DOMAIN fr /\ out' = Queued(fr)
        BY <1>2, <1>4, <2>1 DEF Send
      <4>4. conn[Owner(c)] = c /\ hubSt[c] = "open"
        BY <1>5, <1>6, <1>8
      <4> QED
        BY <4>2, <4>3, <4>4 DEF Queued
    <3> QED
      BY <1>2, <1>3, <1>4, <2>1, <3>1 DEF Queue
  <2>2. CASE c # s
    <3>1. out'[c] = out[c] /\ pc'[c] = pc[c] /\ exp'[c] = exp[c]
      BY <1>2, <1>3, <1>4, <2>2 DEF Send, Queued
    <3> QED
      BY <3>1 DEF Queue
  <2> QED
    BY <2>1, <2>2
<1> QED
  BY <1>4, <1>5, <1>7, <1>9 DEF Same

\* dropSession of another connection.
LEMMA DropSessionDeal ==
  ASSUME PathsInv, NEW l \in Link, NEW n \in l.ends, Deal(l, n), NEW s \in Sess, DropSession(s)
  PROVE  Deal(l, n)'
<1> SUFFICES ASSUME Live(l, n)' PROVE Same(l, n)
  BY DealStays
<1> DEFINE o == Other(l, n)
<1>1. n \in Node /\ o \in Node /\ Owner(s) \in Node
  BY OtherIsEnd, OtherOfOther, OwnerIsNode
<1>2. /\ hubSt \in [Sess -> {"none", "checked", "open", "closed"}] /\ registered \in [Sess -> BOOLEAN]
      /\ sessions \in [Node -> Sess \cup {None}] /\ conn \in [Node -> Sess \cup {None}]
  BY DEF PathsInv, FreshInv, BaseInv, Types, ChanTypes, SessVarTypes, HubTypes, ConnTypes
<1>3. /\ UNCHANGED <<lastWG, pc, exp, out, phase, conn, dev, exits, torn, revokedDB>>
      /\ hubSt' = [hubSt EXCEPT ![s] = "none"] /\ registered' = [registered EXCEPT ![s] = FALSE]
      /\ sessions' = SessionsWithout(s) /\ todo' = {Detach(t, s) : t \in todo}
  BY DEF DropSession, agentVars, wgVars
<1>4. conn[n] \in Sess /\ hubSt[conn[n]] = "open" /\ registered[conn[n]] /\ conn[n] # None
  BY <1>1, <1>2, <1>3 DEF Live
<1>5. Ready(o)
  <2>1. sessions'[o] # None /\ registered'[sessions'[o]] /\ lastWG[o] # None
    BY <1>3 DEF Live, Ready
  <2>2. sessions'[o] = sessions[o]
    BY <1>1, <1>2, <1>3, <2>1 DEF SessionsWithout
  <2>3. sessions[o] \in Sess /\ registered[sessions[o]]
    BY <1>1, <1>2, <1>3, <2>1, <2>2
  <2> QED
    BY <2>1, <2>2, <2>3 DEF Ready
<1>6. Busy(l.ends) => Busy(l.ends)'
  <2> SUFFICES ASSUME NEW t \in todo,
                      \/ t.op \in {"pushLink", "pushExit", "removeLink"} /\ t.link.ends = l.ends
                      \/ t.op \in {"deleteTx", "cascade"} /\ t.node \in l.ends
               PROVE  Busy(l.ends)'
    BY DEF Busy
  <2>1. Detach(t, s) = t
    BY DEF Detach
  <2>2. t \in todo'
    BY <1>3, <2>1
  <2> QED
    BY <2>2 DEF Busy
<1>7. Settled(l.ends)
  BY <1>3, <1>6 DEF Live, Settled
<1> QED
  BY <1>3, <1>4, <1>5, <1>7 DEF Same, Live, Queue
------------------------------------------------------------------------------
(* A register                                                               *)

\* Rows with the same id are of the same pair, wherever they are.
LEMMA SameId ==
  ASSUME PathsInv, NEW x \in Rows, NEW y \in Rows, x.id = y.id
  PROVE  x.ends = y.ends
BY DEF PathsInv, PathInv, IdInv

\* What requests and registers carry are rows.
LEMMA RowsOfPaths ==
  ASSUME PathsInv
  PROVE  /\ store \subseteq Rows /\ store \subseteq Link
         /\ \A s \in Sess : snap[s] \subseteq Rows /\ snap[s] \subseteq Link
         /\ \A t \in todo : t.op \in {"pushLink", "pushExit", "removeLink"} =>
              t.link \in Rows /\ t.link \in Link
         /\ \A t \in todo : t.op \in {"deleteTx", "cascade"} => t.links \subseteq Rows /\ t.links \subseteq Link
<1>1. Types
  BY DEF PathsInv, FreshInv, BaseInv
<1>2. Rows \subseteq Link
  BY DEF Rows
<1>3. ASSUME NEW t \in todo, t.op \in {"pushLink", "pushExit", "removeLink"} PROVE t.link \in Rows
  BY <1>1, <1>3, RowsAreKnown DEF Carried
<1>4. ASSUME NEW t \in todo, t.op \in {"deleteTx", "cascade"} PROVE t.links \subseteq Rows
  BY <1>1, <1>4, RowsAreKnown DEF Carried
<1> QED
  BY <1>1, <1>2, <1>3, <1>4, RowsAreKnown

\* The frame a register sends to a session is about the one link that the
\* register has listed to that session's node.
LEMMA RegisterFrameIs ==
  ASSUME PathsInv, NEW s \in Sess, NEW c \in Sess, c \in DOMAIN RegisterFrames(s)
  PROVE  \E x \in Expected(s) :
           /\ Owner(c) = Other(x, Owner(s)) /\ c = sessions[Owner(c)]
           /\ RegisterFrames(s)[c] = [type |-> "peer_update", spec |-> SpecOf(x, Owner(s), reg[s])]
           /\ \A y \in Expected(s) : Other(y, Owner(s)) = Owner(c) => y = x
<1> DEFINE m == Owner(s)
<1>1. m \in Node /\ sessions \in [Node -> Sess \cup {None}]
  BY OwnerIsNode DEF PathsInv, FreshInv, BaseInv, Types, HubTypes
<1>2. PICK l \in Expected(s) : c = sessions[Other(l, m)]
  BY DEF RegisterFrames
<1>3. Expected(s) \subseteq snap[s] /\ snap[s] \subseteq Link
  BY RowsOfPaths DEF Expected
<1>4. Other(l, m) \in Node /\ sessions[Other(l, m)] # None
  BY <1>1, <1>2, <1>3, OtherIsEnd DEF Expected, Ready
<1>5. Owner(c) = Other(l, m)
  BY <1>2, <1>4 DEF PathsInv, FreshInv, BaseInv, OneLiveSession
<1>6. ASSUME NEW x \in Expected(s), NEW y \in Expected(s), Other(x, m) = Other(y, m) PROVE x = y
  <2>1. x \in Link /\ y \in Link /\ m \in x.ends /\ m \in y.ends
    BY <1>3 DEF PathsInv, PathInv, SnapInv
  <2>2. x.ends = {m, Other(x, m)} /\ y.ends = {m, Other(y, m)}
    BY <2>1, PairOfEnds
  <2>3. x.ends = y.ends
    BY <1>6, <2>2
  <2> QED
    BY <1>3, <2>3 DEF PathsInv, PathInv, SnapInv, OnePerPair
<1>7. PICK x : x = CHOOSE y \in Expected(s) : Other(y, m) = Owner(c)
  OBVIOUS
<1>8. x \in Expected(s) /\ Other(x, m) = Owner(c)
  BY <1>5, <1>7
<1>9. RegisterFrames(s)[c] = [type |-> "peer_update", spec |-> SpecOf(x, m, reg[s])]
  BY <1>2, <1>7 DEF RegisterFrames
<1> QED
  BY <1>2, <1>5, <1>6, <1>8, <1>9

\* A link of the node that the register has not listed: the pair is torn
\* unless a request is still to push or to withdraw it.
LEMMA RegisterTears ==
  ASSUME PathsInv, NEW s \in Sess, HandleRegister(s), NEW l \in store, Owner(s) \in l.ends,
         l \notin snap[s]
  PROVE  ~Settled(l.ends)'
<1>1. l \in LinksOf(Owner(s)) \ snap[s]
  BY DEF LinksOf
<1>2. todo' = todo /\ torn' = torn \cup TornByRegister(s)
  BY DEF HandleRegister
<1>3. CASE \A p \in Pending : p.id # l.id
  <2>1. l.ends \in TornByRegister(s)
    BY <1>1, <1>3 DEF TornByRegister
  <2> QED
    BY <1>2, <2>1 DEF Settled
<1>4. CASE \E p \in Pending : p.id = l.id
  <2>1. PICK t \in todo : t.op \in {"pushLink", "pushExit", "removeLink"} /\ t.link.id = l.id
    BY <1>4 DEF Pending
  <2>2. t.link.ends = l.ends
    BY <2>1, RowsOfPaths, SameId
  <2> QED
    BY <1>2, <2>1, <2>2 DEF Settled, Busy
<1> QED
  BY <1>3, <1>4

\* The register of n itself: its register_ack settles each of its links.
LEMMA OwnRegisterDeal ==
  ASSUME PathsInv, NEW s \in Sess, HandleRegister(s), NEW l \in store, NEW n \in l.ends,
         conn[n] = s
  PROVE  Deal(l, n)'
<1> SUFFICES ASSUME Live(l, n)' PROVE Told(l, n)'
  BY DEF Deal
<1> DEFINE o == Other(l, n)
<1>1. l \in Link /\ n \in Node /\ o \in Node /\ o # n /\ o \in l.ends
  BY RowsOfPaths, OtherIsEnd, OtherOfOther
<1>2. Owner(s) = n
  BY <1>1, NoneIsNoSession DEF PathsInv, FreshInv, KeyInv, NodeOk
<1>3. /\ lastWG \in [Node -> Nat \cup {None}] /\ sessions \in [Node -> Sess \cup {None}]
      /\ registered \in [Sess -> BOOLEAN] /\ pc \in [Sess -> {"idle", "links", "ack"}]
      /\ exp \in [Sess -> SUBSET PeerSpec] /\ out \in [Sess -> Seq(ToAgent)]
      /\ revokedDB \subseteq Node
  BY DEF PathsInv, FreshInv, BaseInv, Types, ChanTypes, SessVarTypes, HubTypes, DbTypes, Gen
<1>4. PICK E : E = {SpecOf(x, Other(x, n), lastWG[Other(x, n)]) : x \in Expected(s)}
  OBVIOUS
<1>5. /\ UNCHANGED <<sessions, conn, revokedDB, todo>>
      /\ lastWG' = [lastWG EXCEPT ![n] = reg[s]] /\ registered' = [registered EXCEPT ![s] = TRUE]
      /\ pc' = [pc EXCEPT ![s] = "ack"] /\ exp' = [exp EXCEPT ![s] = E] /\ Send(RegisterFrames(s))
  BY <1>2, <1>4 DEF HandleRegister, RegisteredKey, dbVars, agentVars
<1>6. s \notin DOMAIN RegisterFrames(s)
  <2>1. ASSUME s \in DOMAIN RegisterFrames(s) PROVE FALSE
    <3>1. PICK x \in Expected(s) : Owner(s) = Other(x, Owner(s))
      BY <2>1, RegisterFrameIs
    <3>2. x \in Link
      BY RowsOfPaths DEF Expected
    <3> QED
      BY <1>1, <1>2, <3>1, <3>2, OtherIsEnd
  <2> QED
    BY <2>1
<1>7. out'[s] = out[s] /\ pc'[s] = "ack" /\ exp'[s] = E
  BY <1>3, <1>5, <1>6 DEF Send, Queued
<1>8. l \in Expected(s)
  <2>1. l \in snap[s]
    BY <1>2, RegisterTears DEF Live
  <2>2. sessions[o] # None /\ registered'[sessions[o]] /\ lastWG'[o] # None
    BY <1>5 DEF Live, Ready
  <2>3. Owner(sessions[o]) = o
    BY <1>1, <2>2 DEF PathsInv, FreshInv, BaseInv, OneLiveSession
  <2>4. registered[sessions[o]] /\ lastWG[o] # None
    BY <1>1, <1>2, <1>3, <1>5, <2>2, <2>3
  <2> QED
    BY <1>2, <2>1, <2>2, <2>4 DEF Expected, Ready
<1>9. lastWG'[o] = lastWG[o] /\ Now(l, n)' = SpecOf(l, o, lastWG[o])
  BY <1>1, <1>3, <1>5 DEF Now, SpecOf
<1>10. E \in SUBSET PeerSpec
  <2>1. ASSUME NEW x \in Expected(s) PROVE SpecOf(x, Other(x, n), lastWG[Other(x, n)]) \in PeerSpec
    <3>1. x \in Link /\ Ready(Other(x, n))
      BY <1>2, RowsOfPaths DEF Expected
    <3>2. Other(x, n) \in Node
      BY <1>1, <3>1, OtherIsEnd
    <3>3. lastWG[Other(x, n)] \in Gen
      BY <1>3, <3>1, <3>2 DEF Ready, Gen
    <3> QED
      BY <3>1, <3>2, <3>3, SpecIsSpec
  <2> QED
    BY <1>4, <2>1
<1>11. E \cap About(l, n) = {Now(l, n)'}
  <2>1. Now(l, n)' \in E
    BY <1>4, <1>8, <1>9
  <2>2. (Now(l, n)').peer = o
    BY <1>9 DEF SpecOf
  <2>3. Now(l, n)' \in About(l, n)
    BY <1>10, <2>1, <2>2 DEF About
  <2>4. ASSUME NEW x \in Expected(s), SpecOf(x, Other(x, n), lastWG[Other(x, n)]) \in About(l, n)
        PROVE  x = l
    <3>1. x.id = l.id \/ Other(x, n) = o
      BY <2>4 DEF About, SpecOf
    <3>2. x \in snap[s] /\ l \in snap[s] /\ x \in Link /\ n \in x.ends
      BY <1>2, <1>8, RowsOfPaths DEF Expected, PathsInv, PathInv, SnapInv
    <3>3. x.ends = l.ends
      <4>1. CASE x.id = l.id
        BY <3>2, <4>1, RowsOfPaths, SameId
      <4>2. CASE Other(x, n) = o
        BY <1>1, <3>2, <4>2, SamePair
      <4> QED
        BY <3>1, <4>1, <4>2
    <3> QED
      BY <3>2, <3>3 DEF PathsInv, PathInv, SnapInv, OnePerPair
  <2> QED
    BY <1>4, <1>9, <2>1, <2>3, <2>4
<1>12. PICK a \in ToAgent : a = [type |-> "register_ack", peers |-> E]
  BY <1>10, FramesAreFrames
<1>13. a \in Settles(l, n)'
  BY <1>11, <1>12 DEF Settles, About
<1>14. LastIn(Right(l, n)', Append(out[s], a), Settles(l, n)', Matters(l, n))
  BY <1>3, <1>13, LastOfAppend
<1>15. Queue(s)' = Append(out[s], a)
  BY <1>7, <1>12 DEF Queue
<1> QED
  BY <1>5, <1>14, <1>15 DEF Told, Matters
\* The register of the other end, or of a third node, reaches n as a frame.
LEMMA OtherRegisterDeal ==
  ASSUME PathsInv, NEW s \in Sess, HandleRegister(s), NEW l \in store, NEW n \in l.ends, Deal(l, n),
         conn[n] # s
  PROVE  Deal(l, n)'
<1> SUFFICES ASSUME Live(l, n)' PROVE Deal(l, n)'
  BY DEF Deal
<1> DEFINE o == Other(l, n)
           m == Owner(s)
           fr == RegisterFrames(s)
<1>1. l \in Link /\ n \in Node /\ o \in Node /\ o # n /\ o \in l.ends /\ m \in Node
  BY RowsOfPaths, OtherIsEnd, OtherOfOther, OwnerIsNode
<1>2. /\ lastWG \in [Node -> Nat \cup {None}] /\ sessions \in [Node -> Sess \cup {None}]
      /\ registered \in [Sess -> BOOLEAN] /\ pc \in [Sess -> {"idle", "links", "ack"}]
      /\ exp \in [Sess -> SUBSET PeerSpec] /\ conn \in [Node -> Sess \cup {None}]
      /\ reg \in [Sess -> Nat] /\ hubSt \in [Sess -> {"none", "checked", "open", "closed"}]
      /\ reg \in [Sess -> Gen]
  BY DEF PathsInv, FreshInv, BaseInv, Types, ChanTypes, SessVarTypes, HubTypes, ConnTypes, Gen
<1>3. FrameMap(fr) /\ Plain(fr)
  BY RegisterFramesOk, PushesArePlain DEF PathsInv, FreshInv, BaseInv
<1>4. /\ UNCHANGED <<sessions, conn, revokedDB, todo, phase, dev, exits>>
      /\ lastWG' = [lastWG EXCEPT ![m] = reg[s]] /\ registered' = [registered EXCEPT ![s] = TRUE]
      /\ pc' = [pc EXCEPT ![s] = "ack"] /\ \E E : exp' = [exp EXCEPT ![s] = E] /\ Send(fr)
      /\ torn \subseteq torn'
  BY DEF HandleRegister, RegisteredKey, dbVars, agentVars, wgVars
<1>5. PICK c \in Sess : c = conn[n]
  BY <1>1, <1>2, <1>4 DEF Live
<1>6. Owner(c) = n
  BY <1>1, <1>5, NoneIsNoSession DEF PathsInv, FreshInv, KeyInv, NodeOk
<1>7. pc'[c] = pc[c] /\ exp'[c] = exp[c] /\ registered'[c] = registered[c]
  BY <1>2, <1>4, <1>5
<1>8. hubSt[c] = "open" /\ registered[c] /\ Settled(l.ends)
  <2>1. hubSt'[c] = "open" /\ registered[c]
    BY <1>4, <1>5, <1>7 DEF Live
  <2>2. hubSt[c] = "open"
    BY <1>2, <1>4, <2>1 DEF Send, OverflowClosed
  <2>3. Settled(l.ends)
    BY <1>4 DEF Live, Settled, Busy
  <2> QED
    BY <2>1, <2>2, <2>3
<1>9. CASE m # o
  <2>1. lastWG'[o] = lastWG[o] /\ lastWG[o] # None
    BY <1>1, <1>2, <1>4, <1>9 DEF Live, Ready
  <2>2. sessions[o] # None /\ registered'[sessions[o]]
    BY <1>4 DEF Live, Ready
  <2>3. Owner(sessions[o]) = o
    BY <1>1, <2>2 DEF PathsInv, FreshInv, BaseInv, OneLiveSession
  <2>4. Ready(o)
    BY <1>1, <1>2, <1>4, <1>9, <2>1, <2>2, <2>3 DEF Ready
  <2>5. Live(l, n)
    BY <1>5, <1>8, <2>4, NoneIsNoSession DEF Live
  <2>6. ASSUME c \in DOMAIN fr PROVE fr[c] \notin Matters(l, n)
    <3>1. PICK x \in Expected(s) : /\ n = Other(x, m)
                                   /\ fr[c] = [type |-> "peer_update", spec |-> SpecOf(x, m, reg[s])]
      BY <1>6, <2>6, RegisterFrameIs
    <3>2. x \in snap[s] /\ x \in Link /\ x \in Rows /\ m \in x.ends /\ l \in Rows
      BY RowsOfPaths DEF Expected, PathsInv, PathInv, SnapInv
    <3>3. x.ends = {m, n} /\ l.ends = {n, o} /\ m # n
      BY <1>1, <3>1, <3>2, PairOfEnds, OtherIsEnd
    <3>4. x.ends # l.ends
      BY <1>9, <3>3
    <3>5. x.id # l.id
      BY <3>2, <3>4, SameId
    <3>6. (fr[c]).type = "peer_update" /\ (fr[c]).spec.link # l.id /\ (fr[c]).spec.peer # o
      BY <1>9, <3>1, <3>5 DEF SpecOf
    <3> QED
      BY <3>6 DEF Matters, About
  <2> QED
    BY <1>1, <1>3, <1>4, <1>5, <1>6, <1>7, <2>1, <2>5, <2>6, DealSent
<1>10. CASE m = o
  <2>1. l \in snap[s]
    BY <1>1, <1>10, RegisterTears DEF Live
  <2>2. sessions[n] = c
    BY <1>6, <1>8 DEF PathsInv, FreshInv, BaseInv, OneLiveSession
  <2>3. lastWG[n] # None
    <3>1. n \notin revokedDB
      BY <1>8 DEF Settled
    <3> QED
      BY <1>6, <1>8, <3>1 DEF PathsInv, PathInv, KnownInv
  <2>4. Other(l, o) = n
    BY <1>1, OtherOfOther
  <2>5. l \in Expected(s)
    BY <1>8, <1>10, <2>1, <2>2, <2>3, <2>4, NoneIsNoSession DEF Expected, Ready
  <2>6. c \in DOMAIN fr
    BY <1>10, <2>2, <2>4, <2>5 DEF RegisterFrames
  <2>7. fr[c] = [type |-> "peer_update", spec |-> SpecOf(l, o, reg[s])]
    BY <1>6, <1>10, <2>4, <2>5, <2>6, RegisterFrameIs
  <2>8. PICK sp : sp = SpecOf(l, o, reg[s])
    OBVIOUS
  <2>9. Now(l, n)' = sp
    BY <1>1, <1>2, <1>4, <1>10, <2>8 DEF Now, SpecOf
  <2>10. sp \in PeerSpec
    BY <1>1, <1>2, <2>8, SpecIsSpec
  <2>11. PICK f \in ToAgent : f = [type |-> "peer_update", spec |-> sp]
    BY <2>10, FramesAreFrames
  <2>12. f.type = "peer_update" /\ f.spec = Now(l, n)' /\ fr[c] = f
    BY <2>7, <2>8, <2>9, <2>11
  <2>13. f \in Settles(l, n)'
    <3> HIDE DEF o
    <3> QED
      BY <2>12 DEF Settles
  <2> QED
    BY <1>1, <1>3, <1>4, <1>5, <1>6, <1>7, <2>6, <2>12, <2>13, DealSent
<1> QED
  BY <1>9, <1>10
------------------------------------------------------------------------------
(* Admin requests                                                           *)

\* Steps of requests that send nothing: they may close connections, and
\* forget the keys of deleted nodes.
LEMMA IdleDeal ==
  ASSUME PathsInv, NEW l \in Link, NEW n \in l.ends, Deal(l, n),
         UNCHANGED <<sessions, registered, phase, conn, dev, exits, out, pc, exp>>,
         \A c \in Sess : hubSt'[c] = "open" => hubSt[c] = "open",
         \A m \in Node \ revokedDB' : lastWG'[m] = lastWG[m],
         Settled(l.ends)' => Settled(l.ends)
  PROVE  Deal(l, n)'
<1> SUFFICES ASSUME Live(l, n)' PROVE Same(l, n)
  BY DealStays
<1>1. n \in Node /\ Other(l, n) \in Node /\ Other(l, n) \in l.ends /\ conn \in [Node -> Sess \cup {None}]
  BY OtherIsEnd, OtherOfOther DEF PathsInv, FreshInv, BaseInv, Types, ConnTypes
<1>2. Settled(l.ends) /\ lastWG'[Other(l, n)] = lastWG[Other(l, n)]
  BY <1>1 DEF Live, Settled
<1>3. conn[n] \in Sess /\ hubSt'[conn[n]] = "open"
  BY <1>1 DEF Live
<1> QED
  BY <1>2, <1>3 DEF Same, Live, Ready, Queue

\* Steps that send a frame that does not bear on the link, or a last one.
LEMMA FrameDeal ==
  ASSUME PathsInv, NEW l \in Link, NEW n \in l.ends, Deal(l, n),
         NEW fr, FrameMap(fr), Plain(fr), Send(fr),
         UNCHANGED <<sessions, registered, lastWG, phase, conn, dev, exits, pc, exp>>,
         Settled(l.ends)' => Settled(l.ends),
         \A c \in Sess : Live(l, n) /\ c \in DOMAIN fr /\ Owner(c) = n =>
            fr[c] \notin Matters(l, n) \/ Fatal(fr[c])
  PROVE  Deal(l, n)'
<1> SUFFICES ASSUME Live(l, n)' PROVE Deal(l, n)'
  BY DEF Deal
<1>1. n \in Node /\ conn \in [Node -> Sess \cup {None}]
        /\ hubSt \in [Sess -> {"none", "checked", "open", "closed"}]
  BY OtherOfOther DEF PathsInv, FreshInv, BaseInv, Types, ConnTypes, ChanTypes
<1>2. PICK c \in Sess : c = conn[n] /\ hubSt'[c] = "open"
  BY <1>1 DEF Live
<1>3. hubSt[c] = "open"
  BY <1>1, <1>2 DEF Send, OverflowClosed
<1>4. Live(l, n)
  BY <1>2, <1>3 DEF Live, Ready
<1>5. Owner(c) = n
  BY <1>2, <1>4, LiveFacts
<1> QED
  BY <1>1, <1>2, <1>4, <1>5, DealSent

\* What RemoveFrames sends to a session.
LEMMA RemoveFrameIs ==
  ASSUME PathsInv, NEW E \in SUBSET (Link \X Node), NEW c \in Sess, c \in DOMAIN RemoveFrames(E)
  PROVE  \E e \in E :
           /\ e[2] = Owner(c) /\ sessions[Owner(c)] # None
           /\ RemoveFrames(E)[c] = [type |-> "peer_remove", link |-> e[1].id,
                                    wg |-> <<Other(e[1], Owner(c)), lastWG[Other(e[1], Owner(c))]>>]
<1>1. PICK e0 \in E : sessions[e0[2]] # None /\ c = sessions[e0[2]]
  BY DEF RemoveFrames
<1>2. e0[2] \in Node
  BY <1>1
<1>3. e0[2] = Owner(c)
  BY <1>1, <1>2 DEF PathsInv, FreshInv, BaseInv, OneLiveSession
<1>4. PICK e : e = CHOOSE x \in E : x[2] = Owner(c)
  OBVIOUS
<1>5. e \in E /\ e[2] = Owner(c)
  BY <1>3, <1>4
<1>6. RemoveFrames(E)[c] = [type |-> "peer_remove", link |-> e[1].id,
                            wg |-> <<Other(e[1], Owner(c)), lastWG[Other(e[1], Owner(c))]>>]
  BY <1>4 DEF RemoveFrames
<1> QED
  BY <1>1, <1>3, <1>5, <1>6

\* Withdrawing links of other pairs does not bear on a link.
LEMMA RemoveDeal ==
  ASSUME PathsInv, NEW l \in store, NEW n \in l.ends, Deal(l, n),
         NEW E \in SUBSET (Link \X Node), \A x, y \in E : x[2] = y[2] => x = y,
         Send(RemoveFrames(E)),
         UNCHANGED <<sessions, registered, lastWG, phase, conn, dev, exits, pc, exp>>,
         Settled(l.ends)' => Settled(l.ends),
         Live(l, n) => \A e \in E : e[2] = n => e[1] \in Rows /\ n \in e[1].ends /\ e[1].ends # l.ends
  PROVE  Deal(l, n)'
<1>1. l \in Link /\ l \in Rows
  BY RowsOfPaths
<1>2. FrameMap(RemoveFrames(E)) /\ Plain(RemoveFrames(E))
  BY RemoveFramesOk, PushesArePlain DEF PathsInv, FreshInv, BaseInv
<1>3. ASSUME NEW c \in Sess, Live(l, n), c \in DOMAIN RemoveFrames(E), Owner(c) = n
      PROVE  RemoveFrames(E)[c] \notin Matters(l, n)
  <2>1. PICK e \in E :
          /\ e[2] = n
          /\ RemoveFrames(E)[c] = [type |-> "peer_remove", link |-> e[1].id,
                                   wg |-> <<Other(e[1], n), lastWG[Other(e[1], n)]>>]
    BY <1>3, RemoveFrameIs
  <2>2. PICK x \in Link : x = e[1]
    OBVIOUS
  <2>3. x \in Rows /\ n \in x.ends /\ x.ends # l.ends
    BY <1>3, <2>1, <2>2
  <2>4. x.id # l.id
    BY <1>1, <2>3, SameId
  <2>5. Other(x, n) # Other(l, n)
    BY <1>1, <2>3, SamePair
  <2>6. PICK f : f = RemoveFrames(E)[c]
    OBVIOUS
  <2>7. f.type = "peer_remove" /\ f.link # l.id /\ f.wg[1] # Other(l, n)
    BY <2>1, <2>2, <2>4, <2>5, <2>6
  <2> QED
    BY <2>6, <2>7 DEF Matters
<1> QED
  BY <1>1, <1>2, <1>3, FrameDeal
\* A request that is between two steps stays there until its own next step.
LEMMA BusyKept ==
  ASSUME NEW pr, NEW t, todo \ {t} \subseteq todo',
         \/ t.op \notin {"pushLink", "pushExit", "removeLink", "deleteTx", "cascade"}
         \/ Busy(pr)'
         \/ t.op \in {"pushLink", "pushExit", "removeLink"} /\ t.link.ends # pr
         \/ t.op \in {"deleteTx", "cascade"} /\ t.node \notin pr
  PROVE  Busy(pr) => Busy(pr)'
BY DEF Busy

\* Requests that send nothing.
LEMMA IdleRequestDeal ==
  ASSUME PathsInv, NEW l \in store, NEW n \in l.ends, Deal(l, n),
         \/ \E e \in Ends : ApiCreateLink(e)
         \/ \E x \in store : DeleteLink(x) \/ \E e \in Node \cup {None} : SetLinkExit(x, e)
         \/ \E m \in Node : DeleteNode(m)
         \/ \E t \in todo : \/ StoreCreateLink(t) \/ DeleteNodeTx(t) \/ KickClose(t)
                            \/ DeleteNodeForget(t)
  PROVE  Deal(l, n)'
<1>1. l \in Link
  BY RowsOfPaths
<1>2. ASSUME \/ \E e \in Ends : ApiCreateLink(e)
             \/ \E x \in store : DeleteLink(x) \/ \E e \in Node \cup {None} : SetLinkExit(x, e)
             \/ \E m \in Node : DeleteNode(m)
      PROVE  Deal(l, n)'
  <2>1. /\ UNCHANGED <<sessions, registered, phase, conn, dev, exits, out, pc, exp, hubSt, lastWG,
                       revokedDB, torn>>
        /\ todo \subseteq todo'
    BY <1>2 DEF ApiCreateLink, DeleteLink, SetLinkExit, DeleteNode, dbVars, hubVars, sessVars,
                chanVars, agentVars, wgVars
  <2>2. Settled(l.ends)' => Settled(l.ends)
    BY <2>1 DEF Settled, Busy
  <2> QED
    BY <1>1, <2>1, <2>2, IdleDeal
<1>3. ASSUME NEW t \in todo, StoreCreateLink(t) PROVE Deal(l, n)'
  <2>1. /\ UNCHANGED <<sessions, registered, phase, conn, dev, exits, out, pc, exp, hubSt, lastWG,
                       revokedDB, torn>>
        /\ t.op = "createLink" /\ todo \ {t} \subseteq todo'
    BY <1>3 DEF StoreCreateLink, Continue, hubVars, sessVars, chanVars, agentVars, wgVars
  <2>2. Settled(l.ends)' => Settled(l.ends)
    BY <2>1, BusyKept DEF Settled
  <2> QED
    BY <1>1, <2>1, <2>2, IdleDeal
<1>4. ASSUME NEW t \in todo, DeleteNodeTx(t) PROVE Deal(l, n)'
  <2>1. PICK u : u = [op |-> "cascade", node |-> t.node, links |-> t.links]
    OBVIOUS
  <2>2. /\ UNCHANGED <<sessions, registered, phase, conn, dev, exits, out, pc, exp, hubSt, lastWG>>
        /\ revokedDB \subseteq revokedDB' /\ torn \subseteq torn'
        /\ t.op = "deleteTx" /\ todo' = (todo \ {t}) \cup {u}
    BY <1>4, <2>1 DEF DeleteNodeTx, Continue, hubVars, sessVars, chanVars, agentVars, wgVars
  <2>3. u \in todo' /\ u.op = "cascade" /\ u.node = t.node
    BY <2>1, <2>2
  <2>4. Busy(l.ends)' \/ t.node \notin l.ends
    BY <2>3 DEF Busy
  <2>5. Settled(l.ends)' => Settled(l.ends)
    BY <2>2, <2>4, BusyKept DEF Settled
  <2> QED
    BY <1>1, <2>2, <2>5, IdleDeal
<1>5. ASSUME NEW t \in todo, KickClose(t) PROVE Deal(l, n)'
  <2>1. /\ UNCHANGED <<sessions, registered, phase, conn, dev, exits, out, pc, exp, lastWG,
                       revokedDB, torn>>
        /\ t.op = "close" /\ todo \ {t} \subseteq todo'
        /\ \A c \in Sess : hubSt'[c] = "open" => hubSt[c] = "open"
    BY <1>5 DEF KickClose, Continue, dbVars, hubVars, sessVars, agentVars, wgVars
  <2>2. Settled(l.ends)' => Settled(l.ends)
    BY <2>1, BusyKept DEF Settled
  <2> QED
    BY <1>1, <2>1, <2>2, IdleDeal
<1>6. ASSUME NEW t \in todo, DeleteNodeForget(t) PROVE Deal(l, n)'
  <2>1. /\ UNCHANGED <<sessions, registered, phase, conn, dev, exits, out, pc, exp, hubSt, revokedDB>>
        /\ torn \subseteq torn' /\ t.op = "forget" /\ todo \ {t} \subseteq todo'
        /\ lastWG' = [lastWG EXCEPT ![t.node] = None]
    BY <1>6 DEF DeleteNodeForget, Continue, dbVars, sessVars, chanVars, agentVars, wgVars
  <2>2. t.node \in revokedDB
    BY <2>1 DEF PathsInv, FreshInv, BaseInv, LinksInv
  <2>3. \A m \in Node \ revokedDB' : lastWG'[m] = lastWG[m]
    BY <2>1, <2>2 DEF PathsInv, FreshInv, BaseInv, Types, HubTypes
  <2>4. Settled(l.ends)' => Settled(l.ends)
    BY <2>1, BusyKept DEF Settled
  <2> QED
    BY <1>1, <2>1, <2>3, <2>4, IdleDeal
<1> QED
  BY <1>2, <1>3, <1>4, <1>5, <1>6

\* A new link, and one with another exit, are still to be pushed.
LEMMA NewLinkDeal ==
  ASSUME Types, NEW l \in store', l \notin store, NEW n \in l.ends, [Next]_vars
  PROVE  Deal(l, n)'
<1>1. ASSUME NEW u \in todo', u.op \in {"pushLink", "pushExit"}, u.link = l PROVE Deal(l, n)'
  BY <1>1 DEF Deal, Live, Settled, Busy
<1>2. ASSUME NEW t \in todo, StoreCreateLink(t) PROVE Deal(l, n)'
  <2>1. PICK x : x = [id |-> minted + 1, ends |-> t.ends, exit |-> None]
    OBVIOUS
  <2>2. PICK u : u = [op |-> "pushLink", link |-> x]
    OBVIOUS
  <2>3. store' \subseteq store \/ (store' = store \cup {x} /\ Continue(t, {u}))
    BY <1>2, <2>1, <2>2 DEF StoreCreateLink
  <2>4. l = x /\ u \in todo'
    BY <2>3 DEF Continue
  <2> QED
    BY <1>1, <2>2, <2>4
<1>3. ASSUME NEW x \in store, NEW e \in Node \cup {None}, SetLinkExit(x, e) PROVE Deal(l, n)'
  <2>1. PICK m : m = [x EXCEPT !.exit = e]
    OBVIOUS
  <2>2. PICK u : u = [op |-> "pushExit", link |-> m]
    OBVIOUS
  <2>3. store' = (store \ {x}) \cup {m} /\ u \in todo'
    BY <1>3, <2>1, <2>2 DEF SetLinkExit
  <2>4. l = m
    BY <2>3
  <2> QED
    BY <1>1, <2>2, <2>3, <2>4
<1>4. ASSUME store' \subseteq store PROVE FALSE
  BY <1>4
<1>5. ASSUME NEW s \in Sess, SessionStep(s) \/ CloseConn(s) PROVE FALSE
  BY <1>4, <1>5 DEF SessionStep, RunSession, ReadRegister, HandleRegister, SendRegisterAck, HandleAck,
     DropSession, CloseConn, dbVars
<1>6. ASSUME NEW t \in todo, RequestStep(t), ~StoreCreateLink(t) PROVE FALSE
  BY <1>4, <1>6 DEF RequestStep, PushLink, RemoveLink, DeleteNodeTx, DeleteNodeCascade, DeleteNodeKick,
     KickClose, DeleteNodeForget, dbVars
<1>7. ASSUME NEW m \in Node, AgentStep(m) \/ LoseConn(m) \/ RegisterFails(m) PROVE FALSE
  BY <1>4, <1>7 DEF AgentStep, Connect, RegisterAck, ApplyPeer, ApplyRemove, ApplyRotate, ApplyKick,
     LoseConn, RegisterFails, dbVars
<1>8. ASSUME AdminStep PROVE Deal(l, n)'
  BY <1>3, <1>4, <1>8 DEF AdminStep, ApiCreateLink, DeleteLink, RotateWG, DeleteNode, dbVars
<1>9. ASSUME Fault PROVE FALSE
  BY <1>4, <1>9 DEF Fault, HubRestart, AgentRestart, GcOfflinePeer, ApplyPeerFails, dbVars
<1>10. ASSUME UNCHANGED vars PROVE FALSE
  BY <1>4, <1>10 DEF vars, dbVars
<1> QED
  BY <1>2, <1>5, <1>6, <1>7, <1>8, <1>9, <1>10 DEF Next
\* What PairFrames sends to a session.
LEMMA PairFrameIs ==
  ASSUME PathsInv, NEW x \in Link, NEW typ, NEW c \in Sess, c \in DOMAIN PairFrames(x, typ)
  PROVE  /\ Owner(c) \in x.ends
         /\ LET p == Other(x, Owner(c)) IN
              PairFrames(x, typ)[c] = [type |-> typ, spec |-> SpecOf(x, p, lastWG[p])]
<1>1. \A m \in x.ends : Ready(m)
  <2>1. DOMAIN <<>> = {}
    OBVIOUS
  <2> QED
    BY <2>1 DEF PairFrames
<1>2. PICK fr : fr = [s \in {sessions[m] : m \in x.ends} |->
                        LET p == Other(x, Owner(s)) IN
                          [type |-> typ, spec |-> SpecOf(x, p, lastWG[p])]]
  OBVIOUS
<1>3. PairFrames(x, typ) = fr
  BY <1>1, <1>2 DEF PairFrames
<1>4. PICK m \in x.ends : c = sessions[m]
  BY <1>2, <1>3
<1>5. m \in Node /\ sessions[m] # None
  BY <1>1, OtherOfOther DEF Ready
<1>6. Owner(c) = m
  BY <1>4, <1>5 DEF PathsInv, FreshInv, BaseInv, OneLiveSession
<1> QED
  BY <1>2, <1>3, <1>4, <1>6

\* A push that is not for the pair does not bear on the link; the one for the
\* pair carries the current row, or another step of a request is to come, or
\* the pair is torn.
LEMMA PushLinkDeal ==
  ASSUME PathsInv, NEW l \in store, NEW n \in l.ends, Deal(l, n), NEW t \in todo, PushLink(t)
  PROVE  Deal(l, n)'
<1> DEFINE o == Other(l, n)
<1>1. l \in Link /\ l \in Rows /\ n \in Node /\ o \in Node /\ o # n /\ o \in l.ends
  BY RowsOfPaths, OtherIsEnd, OtherOfOther
<1>2. PICK x \in Link : x = t.link /\ x \in Rows
  BY RowsOfPaths DEF PushLink
<1>3. PICK typ \in {"peer_add", "peer_update"} : Send(PairFrames(x, typ))
  BY <1>2 DEF PushLink
<1>4. /\ UNCHANGED <<sessions, registered, lastWG, phase, conn, dev, exits, pc, exp, revokedDB>>
      /\ torn' = torn \cup TornByPush(t) /\ todo' = todo \ {t}
      /\ t.op \in {"pushLink", "pushExit"}
  BY DEF PushLink, Continue, dbVars, sessVars, agentVars, wgVars
<1>5. FrameMap(PairFrames(x, typ)) /\ Plain(PairFrames(x, typ))
  BY PairFramesOk, PushesArePlain DEF PathsInv, FreshInv, BaseInv
<1>6. CASE x.ends # l.ends
  <2>1. Settled(l.ends)' => Settled(l.ends)
    BY <1>2, <1>4, <1>6, BusyKept DEF Settled
  <2>2. ASSUME NEW c \in Sess, c \in DOMAIN PairFrames(x, typ), Owner(c) = n
        PROVE  PairFrames(x, typ)[c] \notin Matters(l, n)
    <3>1. n \in x.ends
      BY <2>2, PairFrameIs
    <3>2. PICK f : f = PairFrames(x, typ)[c]
      OBVIOUS
    <3>3. f = [type |-> typ, spec |-> SpecOf(x, Other(x, n), lastWG[Other(x, n)])]
      BY <2>2, <3>2, PairFrameIs
    <3>4. x.id # l.id /\ Other(x, n) # o
      BY <1>1, <1>2, <1>6, <3>1, SameId, SamePair
    <3>5. f.type = typ /\ f.spec.link # l.id /\ f.spec.peer # o
      BY <3>3, <3>4 DEF SpecOf
    <3> QED
      BY <3>2, <3>5 DEF Matters, About
  <2> QED
    BY <1>1, <1>3, <1>4, <1>5, <2>1, <2>2, FrameDeal
<1>7. CASE x.ends = l.ends
  <2> SUFFICES ASSUME Live(l, n)' PROVE Deal(l, n)'
    BY DEF Deal
  <2>1. t.link \in store
    <3>1. l.ends \notin TornByPush(t)
      BY <1>4 DEF Live, Settled
    <3>2. ASSUME NEW u \in todo \ {t}, u.op \in {"pushExit", "removeLink"}, u.link.id = t.link.id
          PROVE  FALSE
      <4>1. u.link \in Rows
        BY <3>2, RowsOfPaths
      <4>2. u.link.ends = l.ends /\ u \in todo'
        BY <1>2, <1>4, <1>7, <3>2, <4>1, SameId
      <4> QED
        BY <3>2, <4>2 DEF Live, Settled, Busy
    <3> QED
      BY <1>2, <1>7, <3>1, <3>2 DEF TornByPush
  <2>2. x = l
    BY <1>2, <1>7, <2>1 DEF PathsInv, FreshInv, BaseInv, LinksInv, OnePerPair
  <2>3. PICK c \in Sess : c = conn[n]
    BY <1>1, <1>4 DEF Live, PathsInv, FreshInv, BaseInv, Types, ConnTypes
  <2>4. Owner(c) = n
    BY <1>1, <2>3, NoneIsNoSession DEF PathsInv, FreshInv, KeyInv, NodeOk
  <2>5. hubSt[c] = "open" /\ registered[c] /\ Ready(o) /\ n \notin revokedDB
    <3>1. hubSt'[c] = "open" /\ registered[c] /\ Ready(o) /\ n \notin revokedDB
      BY <1>1, <1>4, <2>3 DEF Live, Settled, Ready
    <3>2. hubSt[c] = "open"
      BY <1>3, <3>1 DEF Send, OverflowClosed, PathsInv, FreshInv, BaseInv, Types, ChanTypes
    <3> QED
      BY <3>1, <3>2
  <2>6. sessions[n] = c /\ lastWG[n] # None
    BY <2>4, <2>5 DEF PathsInv, FreshInv, BaseInv, OneLiveSession, PathInv, KnownInv
  <2>7. \A m \in l.ends : Ready(m)
    <3>1. l.ends = {n, o}
      BY <1>1, PairOfEnds
    <3>2. Ready(n)
      BY <2>5, <2>6, NoneIsNoSession DEF Ready
    <3> QED
      BY <2>5, <3>1, <3>2
  <2>8. c \in DOMAIN PairFrames(l, typ)
    BY <2>6, <2>7 DEF PairFrames
  <2>9. PICK sp : sp = SpecOf(l, o, lastWG[o])
    OBVIOUS
  <2>10. PairFrames(l, typ)[c] = [type |-> typ, spec |-> sp]
    BY <1>1, <2>4, <2>8, <2>9, PairFrameIs
  <2>11. Now(l, n)' = sp
    BY <1>4, <2>9 DEF Now, SpecOf
  <2>12. sp \in PeerSpec
    <3>1. lastWG[o] \in Gen
      BY <1>1, <2>5 DEF Ready, PathsInv, FreshInv, BaseInv, Types, HubTypes
    <3> QED
      BY <1>1, <2>9, <3>1, SpecIsSpec
  <2>13. PICK f \in ToAgent : f = [type |-> typ, spec |-> sp]
    BY <2>12, FramesAreFrames
  <2>14. f.type \in {"peer_add", "peer_update"} /\ f.spec = Now(l, n)' /\ PairFrames(l, typ)[c] = f
    BY <2>10, <2>11, <2>13
  <2>15. f \in Settles(l, n)'
    <3> HIDE DEF o
    <3> QED
      BY <2>14 DEF Settles
  <2>16. UNCHANGED <<phase, conn, dev, exits>> /\ pc'[c] = pc[c] /\ exp'[c] = exp[c]
    BY <1>4
  <2> QED
    BY <1>1, <1>3, <1>5, <2>2, <2>3, <2>4, <2>8, <2>14, <2>15, <2>16, DealSent
<1> QED
  BY <1>6, <1>7

\* Withdrawals: of a link, of a deleted node's links, and from an end whose
\* other end has been offline for long.
LEMMA WithdrawalDeal ==
  ASSUME PathsInv, NEW l \in store, NEW n \in l.ends, Deal(l, n),
         \/ \E t \in todo : RemoveLink(t) \/ DeleteNodeCascade(t)
         \/ \E g \in Node : GcOfflinePeer(g)
  PROVE  Deal(l, n)'
<1>1. l \in Link /\ l \in Rows
  BY RowsOfPaths
<1>2. ASSUME NEW t \in todo, RemoveLink(t) PROVE Deal(l, n)'
  <2>1. PICK x \in Link : x = t.link /\ x \in Rows
    BY <1>2, RowsOfPaths DEF RemoveLink
  <2>2. PICK E : E = {x} \X x.ends
    OBVIOUS
  <2>3. E \in SUBSET (Link \X Node) /\ \A e, d \in E : e[2] = d[2] => e = d
    BY <2>2 DEF Link, Ends
  <2>4. /\ UNCHANGED <<sessions, registered, lastWG, phase, conn, dev, exits, pc, exp, revokedDB, store>>
        /\ Send(RemoveFrames(E)) /\ t.op = "removeLink" /\ todo' = todo \ {t} /\ torn \subseteq torn'
    BY <1>2, <2>1, <2>2 DEF RemoveLink, Continue, dbVars, sessVars, agentVars, wgVars
  <2>5. Live(l, n) => x.ends # l.ends
    BY <2>1, <2>4 DEF Live, Settled, Busy
  <2>6. Settled(l.ends)' => Settled(l.ends)
    <3>1. CASE x.ends # l.ends
      BY <2>1, <2>4, <3>1, BusyKept DEF Settled
    <3>2. CASE x.ends = l.ends
      <4>1. PICK p : p = [op |-> "pushLink", link |-> l]
        OBVIOUS
      <4>2. CASE p \in todo
        <5>1. p \in todo'
          BY <2>4, <4>1, <4>2
        <5> QED
          BY <4>1, <5>1 DEF Settled, Busy
      <4>3. CASE p \notin todo
        <5>1. l.ends \in torn'
          BY <1>2, <2>1, <3>2, <4>1, <4>3 DEF RemoveLink
        <5> QED
          BY <5>1 DEF Settled
      <4> QED
        BY <4>2, <4>3
    <3> QED
      BY <3>1, <3>2
  <2>7. Live(l, n) => \A e \in E : e[2] = n => e[1] \in Rows /\ n \in e[1].ends /\ e[1].ends # l.ends
    BY <2>1, <2>2, <2>5
  <2> QED
    BY <2>3, <2>4, <2>6, <2>7, RemoveDeal
<1>3. ASSUME NEW S \in SUBSET Rows, NEW m \in Node, OnePerPair(S), \A x \in S : m \in x.ends,
             Live(l, n) => m \notin l.ends
      PROVE  LET E == {<<x, Other(x, m)>> : x \in S} IN
             /\ E \in SUBSET (Link \X Node) /\ \A e, d \in E : e[2] = d[2] => e = d
             /\ Live(l, n) => \A e \in E : e[2] = n => e[1] \in Rows /\ n \in e[1].ends
                                                         /\ e[1].ends # l.ends
  <2>1. S \in SUBSET Link
    BY DEF Rows
  <2>2. \A x \in S : Other(x, m) \in x.ends
    BY <2>1, OtherIsEnd
  <2>3. \A x \in S : Live(l, n) => x.ends # l.ends
    BY <1>3
  <2> QED
    BY <1>3, <2>1, <2>2, <2>3, WithdrawnOnce
<1>4. ASSUME NEW t \in todo, DeleteNodeCascade(t) PROVE Deal(l, n)'
  <2>1. /\ t.links \in SUBSET Rows /\ t.node \in Node /\ OnePerPair(t.links) /\ t.node \in revokedDB
        /\ \A x \in t.links : t.node \in x.ends
    BY <1>4, RowsOfPaths, RequestFields
       DEF PathsInv, FreshInv, BaseInv, Types, LinksInv, DeleteNodeCascade
  <2>2. PICK E : E = {<<x, Other(x, t.node)>> : x \in t.links}
    OBVIOUS
  <2>3. /\ UNCHANGED <<sessions, registered, lastWG, phase, conn, dev, exits, pc, exp, revokedDB, torn>>
        /\ Send(RemoveFrames(E)) /\ t.op = "cascade" /\ todo \ {t} \subseteq todo'
    BY <1>4, <2>2 DEF DeleteNodeCascade, Continue, dbVars, sessVars, agentVars, wgVars
  <2>4. Live(l, n) => t.node \notin l.ends
    BY <2>1 DEF Live, Settled
  <2>5. Settled(l.ends)' => Settled(l.ends)
    BY <2>1, <2>3, BusyKept DEF Settled
  <2>6. /\ E \in SUBSET (Link \X Node) /\ \A e, d \in E : e[2] = d[2] => e = d
        /\ Live(l, n) => \A e \in E : e[2] = n => e[1] \in Rows /\ n \in e[1].ends
                                                    /\ e[1].ends # l.ends
    BY <1>3, <2>1, <2>2, <2>4
  <2> QED
    BY <2>3, <2>5, <2>6, RemoveDeal
<1>5. ASSUME NEW g \in Node, GcOfflinePeer(g) PROVE Deal(l, n)'
  <2>1. /\ LinksOf(g) \in SUBSET Rows /\ OnePerPair(LinksOf(g)) /\ \A x \in LinksOf(g) : g \in x.ends
    BY RowsOfPaths DEF PathsInv, FreshInv, BaseInv, LinksInv, OnePerPair, LinksOf
  <2>2. PICK E : E = {<<x, Other(x, g)>> : x \in LinksOf(g)}
    OBVIOUS
  <2>3. /\ UNCHANGED <<sessions, registered, lastWG, phase, conn, dev, exits, pc, exp, revokedDB, torn,
                       todo>>
        /\ Send(RemoveFrames(E)) /\ sessions[g] = None
    BY <1>5, <2>2 DEF GcOfflinePeer, dbVars, sessVars, agentVars, wgVars
  <2>4. Live(l, n) => g \notin l.ends
    BY <1>1, <2>3, LiveFacts DEF Ready
  <2>5. Settled(l.ends)' => Settled(l.ends)
    BY <2>3 DEF Settled, Busy
  <2>6. /\ E \in SUBSET (Link \X Node) /\ \A e, d \in E : e[2] = d[2] => e = d
        /\ Live(l, n) => \A e \in E : e[2] = n => e[1] \in Rows /\ n \in e[1].ends
                                                    /\ e[1].ends # l.ends
    BY <1>3, <2>1, <2>2, <2>4
  <2> QED
    BY <2>3, <2>5, <2>6, RemoveDeal
<1> QED
  BY <1>2, <1>4, <1>5

\* The kick of a deleted node and the request to rotate a key end the session.
LEMMA LastFrameDeal ==
  ASSUME PathsInv, NEW l \in store, NEW n \in l.ends, Deal(l, n),
         (\E t \in todo : DeleteNodeKick(t)) \/ (\E m \in Node : RotateWG(m))
  PROVE  Deal(l, n)'
<1>1. l \in Link
  BY RowsOfPaths
<1>2. ASSUME NEW t \in todo, DeleteNodeKick(t) PROVE Deal(l, n)'
  <2>1. PICK fr : fr = [s \in {t.sess} \ {None} |-> [type |-> "kick"]]
    OBVIOUS
  <2>2. FrameMap(fr) /\ Plain(fr) /\ \A c \in DOMAIN fr : Fatal(fr[c])
    BY <2>1, FramesAreFrames DEF FrameMap, Plain, Fatal
  <2>3. /\ UNCHANGED <<sessions, registered, lastWG, phase, conn, dev, exits, pc, exp, revokedDB, torn>>
        /\ Send(fr) /\ t.op = "kick" /\ todo \ {t} \subseteq todo'
    BY <1>2, <2>1 DEF DeleteNodeKick, Continue, dbVars, hubVars, sessVars, agentVars, wgVars
  <2>4. Settled(l.ends)' => Settled(l.ends)
    BY <2>3, BusyKept DEF Settled
  <2> QED
    BY <1>1, <2>2, <2>3, <2>4, FrameDeal
<1>3. ASSUME NEW m \in Node, RotateWG(m) PROVE Deal(l, n)'
  <2>1. PICK fr : fr = [s \in {sessions[m]} |-> [type |-> "rotate_wg"]]
    OBVIOUS
  <2>2. FrameMap(fr) /\ Plain(fr) /\ \A c \in DOMAIN fr : Fatal(fr[c])
    BY <2>1, FramesAreFrames DEF FrameMap, Plain, Fatal
  <2>3. /\ UNCHANGED <<sessions, registered, lastWG, phase, conn, dev, exits, pc, exp, revokedDB, torn,
                       todo>>
        /\ Send(fr)
    BY <1>3, <2>1 DEF RotateWG, dbVars, hubVars, sessVars, agentVars, wgVars
  <2>4. Settled(l.ends)' => Settled(l.ends)
    BY <2>3 DEF Settled, Busy
  <2> QED
    BY <1>1, <2>2, <2>3, <2>4, FrameDeal
<1> QED
  BY <1>2, <1>3
------------------------------------------------------------------------------
(* Agents                                                                   *)

\* What the agents do changes nothing of the hub but its channels.
LEMMA AgentsKeep ==
  ASSUME NEW m \in Node,
         \/ AgentStep(m) \/ LoseConn(m) \/ RegisterFails(m) \/ ApplyPeerFails(m) \/ AgentRestart(m)
  PROVE  /\ UNCHANGED <<store, revokedDB, sessions, lastWG, todo, registered, pc, exp>>
         /\ torn \subseteq torn'
BY DEF AgentStep, Connect, RegisterAck, ApplyPeer, ApplyRemove, ApplyRotate, ApplyKick, LoseConn,
       RegisterFails, ApplyPeerFails, AgentRestart, dbVars, hubVars, sessVars

\* The connection, the device and the exits of another node stay as they are.
LEMMA AgentsAreApart ==
  ASSUME PathsInv, NEW m \in Node, NEW n \in Node \ {m}, NEW c \in Sess, c = conn[n],
         \/ AgentStep(m) \/ LoseConn(m) \/ RegisterFails(m) \/ ApplyPeerFails(m) \/ AgentRestart(m)
  PROVE  /\ conn'[n] = conn[n] /\ phase'[n] = phase[n] /\ dev'[n] = dev[n] /\ exits'[n] = exits[n]
         /\ out'[c] = out[c] /\ hubSt'[c] = hubSt[c]
<1>1. Owner(c) = n
  BY NoneIsNoSession DEF PathsInv, FreshInv, KeyInv, NodeOk
<1>2. conn[m] # c
  BY <1>1, NoneIsNoSession DEF PathsInv, FreshInv, KeyInv, NodeOk
<1>3. /\ conn \in [Node -> Sess \cup {None}] /\ phase \in [Node -> {"down", "registering", "up", "gone"}]
      /\ dev \in [Node -> Device] /\ exits \in [Node -> SUBSET (Nat \X Node)]
      /\ out \in [Sess -> Seq(ToAgent)] /\ hubSt \in [Sess -> {"none", "checked", "open", "closed"}]
  BY DEF PathsInv, FreshInv, BaseInv, Types, ChanTypes, ConnTypes, WgTypes
<1>4. ASSUME NEW s \in Sess, Connect(m, s)
      PROVE  /\ conn'[n] = conn[n] /\ phase'[n] = phase[n] /\ dev'[n] = dev[n] /\ exits'[n] = exits[n]
             /\ out'[c] = out[c] /\ hubSt'[c] = hubSt[c]
  <2>1. s # c
    BY <1>1, <1>4 DEF Connect
  <2>2. /\ UNCHANGED <<dev, exits>> /\ conn' = [conn EXCEPT ![m] = s]
        /\ phase' = [phase EXCEPT ![m] = "registering"]
    BY <1>4 DEF Connect, wgVars
  <2>3. /\ hubSt' = hubSt \/ hubSt' = [hubSt EXCEPT ![s] = "checked"]
        /\ out' = out \/ \E q : out' = [out EXCEPT ![s] = q]
    BY <1>4 DEF Connect, HandleConn
  <2> QED
    BY <1>3, <2>1, <2>2, <2>3
<1>5. CASE \/ RegisterAck(m) \/ ApplyPeer(m) \/ ApplyRemove(m) \/ ApplyRotate(m) \/ ApplyKick(m)
           \/ LoseConn(m) \/ RegisterFails(m) \/ ApplyPeerFails(m) \/ AgentRestart(m)
  <2>1. hubSt' = hubSt /\ out'[c] = out[c]
    BY <1>2, <1>3, <1>5
       DEF RegisterAck, ApplyPeer, ApplyRemove, ApplyRotate, ApplyKick, LoseConn, RegisterFails,
           ApplyPeerFails, AgentRestart, Hangup, Consume
  <2>2. conn'[n] = conn[n] /\ phase'[n] = phase[n]
    BY <1>3, <1>5
       DEF RegisterAck, ApplyPeer, ApplyRemove, ApplyRotate, ApplyKick, LoseConn, RegisterFails,
           ApplyPeerFails, AgentRestart, Hangup, Consume
  <2>3. dev'[n] = dev[n]
    BY <1>3, <1>5
       DEF RegisterAck, ApplyPeer, ApplyRemove, ApplyRotate, ApplyKick, LoseConn, RegisterFails,
           ApplyPeerFails, AgentRestart, wgVars
  <2>4. exits'[n] = exits[n]
    BY <1>3, <1>5
       DEF RegisterAck, ApplyPeer, ApplyRemove, ApplyRotate, ApplyKick, LoseConn, RegisterFails,
           ApplyPeerFails, AgentRestart, SetExits, wgVars
  <2> QED
    BY <2>1, <2>2, <2>3, <2>4
<1> QED
  BY <1>4, <1>5 DEF AgentStep

\* Steps of another agent.
LEMMA OtherAgentDeal ==
  ASSUME PathsInv, NEW l \in Link, NEW n \in l.ends, Deal(l, n), NEW m \in Node, m # n,
         \/ AgentStep(m) \/ LoseConn(m) \/ RegisterFails(m) \/ ApplyPeerFails(m) \/ AgentRestart(m)
  PROVE  Deal(l, n)'
<1> SUFFICES ASSUME Live(l, n)' PROVE Same(l, n)
  BY DealStays
<1>1. n \in Node /\ Other(l, n) \in Node
  BY OtherIsEnd, OtherOfOther
<1>2. UNCHANGED <<revokedDB, sessions, lastWG, todo, registered, pc, exp>> /\ torn \subseteq torn'
  BY AgentsKeep
<1>3. conn[n] # None
  <2>1. conn \in [Node -> Sess \cup {None}]
    BY DEF PathsInv, FreshInv, BaseInv, Types, ConnTypes
  <2>2. ASSUME conn[n] = None PROVE conn'[n] = None
    BY <1>1, <2>1, <2>2
       DEF AgentStep, Connect, RegisterAck, ApplyPeer, ApplyRemove, ApplyRotate, ApplyKick, LoseConn,
           RegisterFails, ApplyPeerFails, AgentRestart, Hangup, Consume
  <2> QED
    BY <2>2 DEF Live
<1>4. PICK c \in Sess : c = conn[n]
  BY <1>1, <1>3 DEF PathsInv, FreshInv, BaseInv, Types, ConnTypes
<1>5. /\ conn'[n] = conn[n] /\ phase'[n] = phase[n] /\ dev'[n] = dev[n] /\ exits'[n] = exits[n]
      /\ out'[c] = out[c] /\ hubSt'[c] = hubSt[c]
  BY <1>1, <1>4, AgentsAreApart
<1>6. Live(l, n)
  BY <1>2, <1>4, <1>5 DEF Live, Settled, Busy, Ready
<1>7. Queue(c)' = Queue(c)
  BY <1>2, <1>5 DEF Queue
<1> QED
  BY <1>2, <1>4, <1>5, <1>6, <1>7 DEF Same

\* The agent leaves its connection, or starts one that the hub does not read yet.
LEMMA LeavingDeal ==
  ASSUME PathsInv, NEW l \in Link, NEW n \in l.ends,
         \/ \E s \in Sess : Connect(n, s)
         \/ ApplyRotate(n) \/ ApplyKick(n) \/ LoseConn(n) \/ RegisterFails(n) \/ AgentRestart(n)
  PROVE  Deal(l, n)'
<1>1. n \in Node /\ conn \in [Node -> Sess \cup {None}]
        /\ hubSt \in [Sess -> {"none", "checked", "open", "closed"}]
  BY OtherOfOther DEF PathsInv, FreshInv, BaseInv, Types, ConnTypes, ChanTypes
<1>2. ASSUME NEW s \in Sess, Connect(n, s) PROVE ~Live(l, n)'
  <2>1. conn'[n] = s /\ hubSt'[s] # "open"
    BY <1>1, <1>2 DEF Connect, HandleConn
  <2> QED
    BY <2>1 DEF Live
<1>3. CASE ApplyRotate(n) \/ ApplyKick(n) \/ LoseConn(n) \/ RegisterFails(n) \/ AgentRestart(n)
  <2>1. conn'[n] = None
    BY <1>1, <1>3 DEF ApplyRotate, ApplyKick, LoseConn, RegisterFails, AgentRestart, Hangup
  <2> QED
    BY <2>1 DEF Deal, Live
<1> QED
  BY <1>2, <1>3 DEF Deal

\* The agent takes a frame that does not end its session.
LEMMA TakenDeal ==
  ASSUME PathsInv, NEW l \in Link, NEW n \in l.ends, Deal(l, n), HasFrame(n), NEW c \in Sess,
         c = conn[n], conn'[n] = c, out'[c] = Tail(out[c]), phase'[n] = "up",
         UNCHANGED <<hubSt, revokedDB, sessions, lastWG, todo, registered, pc>>, torn \subseteq torn',
         pc[c] # "ack", ~Fatal(Frame(n)), phase[n] = "registering" => Frame(n).type = "register_ack",
         Live(l, n)' /\ Frame(n) \in Settles(l, n) => Right(l, n)',
         Live(l, n)' /\ Frame(n) \notin Matters(l, n) /\ Right(l, n) => Right(l, n)'
  PROVE  Deal(l, n)'
<1> SUFFICES ASSUME Live(l, n)' PROVE (Doomed(n) \/ Told(l, n))'
  BY DEF Deal
<1>1. out[c] # <<>> /\ Frame(n) = Head(out[c]) /\ out[c] \in Seq(ToAgent)
  BY DEF HasFrame, Frame, PathsInv, FreshInv, BaseInv, Types, ChanTypes
<1>2. Queue(c) = out[c] /\ Queue(c)' = Tail(out[c])
  BY DEF Queue
<1>3. Live(l, n)
  BY DEF Live, Settled, Busy, Ready
<1>4. Doomed(n) \/ Told(l, n)
  BY <1>3 DEF Deal
<1>5. CASE Doomed(n)
  <2>1. /\ Len(out[c]) \in Nat \ {0} /\ Len(Tail(out[c])) = Len(out[c]) - 1
        /\ \A i \in 1 .. Len(Tail(out[c])) : Tail(out[c])[i] = out[c][i + 1]
        /\ Head(out[c]) = out[c][1]
    BY <1>1, HeadTailProperties
  <2>2. PICK i \in 1 .. Len(out[c]) : Fatal(out[c][i])
    BY <1>1, <1>2, <1>5 DEF Doomed
  <2>3. i # 1
    BY <1>1, <2>1, <2>2
  <2>4. i - 1 \in 1 .. Len(Tail(out[c])) /\ Tail(out[c])[i - 1] = out[c][i]
    BY <2>1, <2>3
  <2> QED
    BY <1>2, <2>2, <2>4 DEF Doomed
<1>6. CASE Told(l, n)
  <2>1. Settles(l, n)' = Settles(l, n)
    BY <1>3, NowStays DEF Live, Settled
  <2>2. LastIn(Right(l, n), out[c], Settles(l, n), Matters(l, n))
    BY <1>2, <1>6 DEF Told
  <2>3. LastIn(Right(l, n)', Tail(out[c]), Settles(l, n), Matters(l, n))
    BY <1>1, <2>2, LastOfTail
  <2> QED
    BY <1>2, <2>1, <2>3 DEF Told, Matters
<1> QED
  BY <1>4, <1>5, <1>6------------------------------------------------------------------------------
(* An agent applies what it is sent                                         *)

\* An agent that reads frames was sent the answer to its register.
LEMMA AgentIdle ==
  ASSUME PathsInv, NEW n \in Node, HasFrame(n), phase[n] = "up" \/ Frame(n).type = "register_ack"
  PROVE  conn[n] \in Sess /\ Owner(conn[n]) = n /\ pc[conn[n]] = "idle"
<1>1. Types
  BY DEF PathsInv, FreshInv, BaseInv
<1>2. PICK c \in Sess : c = conn[n]
  BY <1>1, FrameType
<1>3. Owner(c) = n
  BY <1>2, NoneIsNoSession DEF PathsInv, FreshInv, KeyInv, NodeOk
<1>4. ASSUME pc[c] # "idle" PROVE FALSE
  <2>1. phase[n] = "registering" /\ Acks(c) = {}
    BY <1>2, <1>3, <1>4 DEF PathsInv, PathInv, OnceInv, WaitOk
  <2>2. Frame(n).type = "register_ack"
    BY <2>1
  <2>3. out[c] \in Seq(ToAgent) /\ out[c] # <<>>
    BY <1>1, <1>2 DEF HasFrame, Types, ChanTypes
  <2>4. Head(out[c]) \in Range(out[c])
    BY <2>3, RangeOfTail
  <2> QED
    BY <1>2, <2>1, <2>2, <2>4 DEF Acks, Frame
<1> QED
  BY <1>2, <1>3, <1>4

\* A peer that is configured is there, and the peers of other nodes stay.
LEMMA PeersAfter ==
  ASSUME NEW d \in Device, NEW sp \in PeerSpec, NEW e, e \in {AddPeer(d, sp), UpdatePeer(d, sp)}
  PROVE  /\ <<sp.peer, sp.gen>> \in e.peers
         /\ \A k \in d.peers : k[1] # sp.peer => k \in e.peers
<1>1. CASE e = AddPeer(d, sp)
  BY <1>1 DEF AddPeer
<1>2. CASE e = UpdatePeer(d, sp)
  <2>1. PICK old : old = d.keys[sp.peer]
    OBVIOUS
  <2>2. PICK b : b = IF old \notin {None, sp.gen} THEN RemovePeer(d, <<sp.peer, old>>) ELSE d
    OBVIOUS
  <2>3. e = AddPeer(b, sp)
    BY <1>2, <2>1, <2>2 DEF UpdatePeer
  <2>4. \A k \in d.peers : k[1] # sp.peer => k \in b.peers
    BY <2>2 DEF RemovePeer
  <2> QED
    BY <2>3, <2>4 DEF AddPeer
<1> QED
  BY <1>1, <1>2

\* dispatch of peer_add and peer_update.
LEMMA ApplyPeerDeal ==
  ASSUME PathsInv, NEW l \in Link, NEW n \in l.ends, Deal(l, n), ApplyPeer(n)
  PROVE  Deal(l, n)'
<1> DEFINE o == Other(l, n)
<1>1. /\ n \in Node /\ o \in Node /\ Types /\ HasFrame(n) /\ phase[n] = "up"
      /\ Frame(n).type \in {"peer_add", "peer_update"}
  BY OtherIsEnd, OtherOfOther DEF PathsInv, FreshInv, BaseInv, ApplyPeer
<1>2. PICK c \in Sess : c = conn[n] /\ pc[c] = "idle"
  BY <1>1, AgentIdle
<1>3. PICK f \in ToAgent : f = Frame(n)
  BY <1>1, FrameType
<1>4. PICK sp \in PeerSpec : sp = f.spec
  BY <1>1, <1>3, FrameType
<1>5. PICK d \in Device : d = dev[n]
  BY <1>1 DEF Types, WgTypes
<1>6. PICK e : e = IF f.type = "peer_add" THEN AddPeer(d, sp) ELSE UpdatePeer(d, sp)
  OBVIOUS
<1>7. PICK ex : ex = WithoutExit(n, sp.link) \cup IF sp.exit THEN {<<sp.link, sp.peer>>} ELSE {}
  OBVIOUS
<1>8. dev' = [dev EXCEPT ![n] = e] /\ SetExits(n, ex)
  BY <1>3, <1>4, <1>5, <1>6, <1>7 DEF ApplyPeer
<1>9. dev'[n] = e /\ (n \in SocksNode => exits'[n] = ex)
  <2>1. dev \in [Node -> Device] /\ exits \in [Node -> SUBSET (Nat \X Node)]
    BY <1>1 DEF Types, WgTypes
  <2>2. n \in SocksNode => exits' = [exits EXCEPT ![n] = ex]
    BY <1>8 DEF SetExits
  <2> QED
    BY <1>1, <1>8, <2>1, <2>2
<1>10. <<sp.peer, sp.gen>> \in e.peers /\ \A k \in d.peers : k[1] # sp.peer => k \in e.peers
  BY <1>6, PeersAfter
<1>11. UNCHANGED <<hubSt, revokedDB, sessions, lastWG, todo, registered, pc, torn>>
  BY DEF ApplyPeer, dbVars, hubVars, sessVars
<1>12. conn'[n] = c /\ phase'[n] = "up" /\ out'[c] = Tail(out[c])
  <2>1. out \in [Sess -> Seq(ToAgent)]
    BY <1>1 DEF Types, ChanTypes
  <2>2. out' = [out EXCEPT ![c] = Tail(@)] /\ UNCHANGED <<phase, conn>>
    BY <1>2 DEF ApplyPeer, Consume
  <2> QED
    BY <1>1, <1>2, <2>1, <2>2
<1>13. ASSUME f \in Settles(l, n) PROVE Right(l, n)'
  <2>1. sp = Now(l, n)
    BY <1>1, <1>3, <1>4, <1>13 DEF Settles
  <2>2. sp.link = l.id /\ sp.peer = o /\ sp.gen = lastWG[o] /\ (sp.exit <=> l.exit = o /\ o \in SocksNode)
    BY <2>1 DEF Now, SpecOf
  <2>3. <<l.id, o>> \in ex <=> sp.exit
    BY <1>7, <2>2 DEF WithoutExit
  <2> QED
    BY <1>9, <1>10, <1>11, <2>2, <2>3 DEF Right
<1>14. ASSUME f \notin Matters(l, n), Right(l, n) PROVE Right(l, n)'
  <2>1. sp.link # l.id /\ sp.peer # o
    BY <1>1, <1>3, <1>4, <1>14 DEF Matters, About
  <2>2. <<o, lastWG[o]>> \in e.peers
    <3>1. PICK k : k = <<o, lastWG[o]>>
      OBVIOUS
    <3>2. k \in d.peers /\ k[1] # sp.peer
      BY <1>5, <1>14, <2>1, <3>1 DEF Right
    <3> QED
      BY <1>10, <3>1, <3>2
  <2>3. <<l.id, o>> \in ex <=> <<l.id, o>> \in exits[n]
    BY <1>7, <2>1 DEF WithoutExit
  <2> QED
    BY <1>9, <1>11, <1>14, <2>2, <2>3 DEF Right
<1>15. ~Fatal(f)
  BY <1>1, <1>3 DEF Fatal
<1> QED
  BY <1>1, <1>2, <1>3, <1>11, <1>12, <1>13, <1>14, <1>15, TakenDeal

\* A refused peer tears its pair.
LEMMA ApplyPeerFailsDeal ==
  ASSUME PathsInv, NEW l \in Link, NEW n \in l.ends, Deal(l, n), ApplyPeerFails(n)
  PROVE  Deal(l, n)'
<1> SUFFICES ASSUME Live(l, n)' PROVE Deal(l, n)'
  BY DEF Deal
<1> DEFINE o == Other(l, n)
<1>1. /\ n \in Node /\ o \in Node /\ Types /\ HasFrame(n) /\ phase[n] = "up"
      /\ Frame(n).type \in {"peer_add", "peer_update"}
  BY OtherIsEnd, OtherOfOther DEF PathsInv, FreshInv, BaseInv, ApplyPeerFails
<1>2. PICK c \in Sess : c = conn[n] /\ pc[c] = "idle"
  BY <1>1, AgentIdle
<1>3. PICK f \in ToAgent : f = Frame(n)
  BY <1>1, FrameType
<1>4. PICK sp \in PeerSpec : sp = f.spec
  BY <1>1, <1>3, FrameType
<1>5. /\ UNCHANGED <<hubSt, revokedDB, sessions, lastWG, todo, registered, pc, exits>>
      /\ torn' = torn \cup {{n, sp.peer}}
  BY <1>3, <1>4 DEF ApplyPeerFails, dbVars, hubVars, sessVars
<1>6. sp.peer # o
  <2>1. l.ends = {n, o} /\ l.ends \notin torn'
    BY PairOfEnds DEF Live, Settled
  <2> QED
    BY <1>5, <2>1
<1>7. \A k \in dev[n].peers : k[1] # sp.peer => k \in dev'[n].peers
  <2>1. PICK d \in Device : d = dev[n]
    BY <1>1 DEF Types, WgTypes
  <2>2. PICK old : old = d.keys[sp.peer]
    OBVIOUS
  <2>3. PICK e : e = IF f.type = "peer_update" /\ old \notin {None, sp.gen}
                       THEN RemovePeer(d, <<sp.peer, old>>) ELSE d
    OBVIOUS
  <2>4. \E b \in {d, e} : dev' = [dev EXCEPT ![n] = b]
    BY <1>3, <1>4, <2>1, <2>2, <2>3 DEF ApplyPeerFails
  <2>5. dev'[n] \in {d, e}
    BY <1>1, <2>4 DEF Types, WgTypes
  <2>6. \A k \in d.peers : k[1] # sp.peer => k \in e.peers
    BY <2>3 DEF RemovePeer
  <2> QED
    BY <2>1, <2>5, <2>6
<1>8. conn'[n] = c /\ phase'[n] = "up" /\ out'[c] = Tail(out[c])
  <2>1. out \in [Sess -> Seq(ToAgent)]
    BY <1>1 DEF Types, ChanTypes
  <2>2. out' = [out EXCEPT ![c] = Tail(@)] /\ UNCHANGED <<phase, conn>>
    BY <1>2 DEF ApplyPeerFails, Consume
  <2> QED
    BY <1>1, <1>2, <2>1, <2>2
<1>9. f \notin Settles(l, n)
  BY <1>1, <1>3, <1>4, <1>6 DEF Settles, Now, SpecOf
<1>10. ASSUME Right(l, n) PROVE Right(l, n)'
  <2>1. PICK k : k = <<o, lastWG[o]>>
    OBVIOUS
  <2>2. k \in dev[n].peers /\ k[1] # sp.peer
    BY <1>6, <1>10, <2>1 DEF Right
  <2>3. k \in dev'[n].peers
    BY <1>7, <2>2
  <2> QED
    BY <1>5, <1>10, <2>1, <2>3 DEF Right
<1>11. ~Fatal(f)
  BY <1>1, <1>3 DEF Fatal
<1> QED
  BY <1>1, <1>2, <1>3, <1>5, <1>8, <1>9, <1>10, <1>11, TakenDeal
\* dispatch of peer_remove.
LEMMA ApplyRemoveDeal ==
  ASSUME PathsInv, NEW l \in Link, NEW n \in l.ends, Deal(l, n), ApplyRemove(n)
  PROVE  Deal(l, n)'
<1> DEFINE o == Other(l, n)
<1>1. /\ n \in Node /\ o \in Node /\ Types /\ HasFrame(n) /\ phase[n] = "up"
      /\ Frame(n).type = "peer_remove"
  BY OtherIsEnd, OtherOfOther DEF PathsInv, FreshInv, BaseInv, ApplyRemove
<1>2. PICK c \in Sess : c = conn[n] /\ pc[c] = "idle"
  BY <1>1, AgentIdle
<1>3. PICK f \in ToAgent : f = Frame(n) /\ f.type = "peer_remove"
  BY <1>1, FrameType
<1>4. PICK k \in Key : k = f.wg
  BY <1>1, <1>3, FrameType
<1>5. /\ UNCHANGED <<hubSt, revokedDB, sessions, lastWG, todo, registered, pc>> /\ torn \subseteq torn'
      /\ UNCHANGED <<phase, conn>>
  BY DEF ApplyRemove, Consume, dbVars, hubVars, sessVars
<1>6. conn'[n] = c /\ phase'[n] = "up" /\ out'[c] = Tail(out[c])
  <2>1. out \in [Sess -> Seq(ToAgent)]
    BY <1>1 DEF Types, ChanTypes
  <2>2. out' = [out EXCEPT ![c] = Tail(@)]
    BY <1>2 DEF ApplyRemove, Consume
  <2> QED
    BY <1>1, <1>2, <1>5, <2>1, <2>2
<1>7. \A j \in dev[n].peers : j # k => j \in dev'[n].peers
  <2>1. PICK d \in Device : d = dev[n]
    BY <1>1 DEF Types, WgTypes
  <2>2. PICK e : e = RemovePeer(d, k)
    OBVIOUS
  <2>3. dev' = [dev EXCEPT ![n] = e] \/ dev' = dev
    BY <1>3, <1>4, <2>1, <2>2 DEF ApplyRemove
  <2>4. dev'[n] \in {d, e}
    BY <1>1, <2>1, <2>3 DEF Types, WgTypes
  <2> QED
    BY <2>1, <2>2, <2>4 DEF RemovePeer
<1>8. n \in SocksNode => exits'[n] = exits[n] \/ exits'[n] = WithoutExit(n, f.link)
  <2>1. exits \in [Node -> SUBSET (Nat \X Node)]
    BY <1>1 DEF Types, WgTypes
  <2>2. \/ exits' = exits
        \/ SetExits(n, WithoutExit(n, f.link))
    BY <1>3 DEF ApplyRemove
  <2> QED
    BY <1>1, <2>1, <2>2 DEF SetExits
<1>9. ASSUME f \notin Matters(l, n), Right(l, n) PROVE Right(l, n)'
  <2>1. f.link # l.id /\ k[1] # o
    BY <1>3, <1>4, <1>9 DEF Matters
  <2>2. <<o, lastWG[o]>> \in dev'[n].peers
    BY <1>7, <1>9, <2>1 DEF Right
  <2>3. n \in SocksNode => (<<l.id, o>> \in exits'[n] <=> <<l.id, o>> \in exits[n])
    BY <1>8, <2>1 DEF WithoutExit
  <2> QED
    BY <1>5, <1>9, <2>2, <2>3 DEF Right
<1>10. f \notin Settles(l, n) /\ ~Fatal(f)
  BY <1>3 DEF Settles, Fatal
<1> QED
  BY <1>1, <1>2, <1>3, <1>5, <1>6, <1>9, <1>10, TakenDeal

\* register: the exact peer set of the register_ack.
LEMMA RegisterAckDeal ==
  ASSUME PathsInv, NEW l \in Link, NEW n \in l.ends, Deal(l, n), RegisterAck(n)
  PROVE  Deal(l, n)'
<1> DEFINE o == Other(l, n)
<1>1. /\ n \in Node /\ o \in Node /\ Types /\ HasFrame(n)
      /\ Frame(n).type = "register_ack"
  BY OtherIsEnd, OtherOfOther DEF PathsInv, FreshInv, BaseInv, RegisterAck
<1>2. PICK c \in Sess : c = conn[n] /\ pc[c] = "idle"
  BY <1>1, AgentIdle
<1>3. PICK f \in ToAgent : f = Frame(n) /\ f.type = "register_ack" /\ \A sp \in f.peers : sp.valid
  BY <1>1, FrameType DEF RegisterAck
<1>4. f.peers \subseteq PeerSpec
  BY <1>1, <1>3, FrameType
<1>5. PICK ex : ex = {<<sp.link, sp.peer>> : sp \in {x \in f.peers : x.exit}}
  OBVIOUS
<1>6. dev' = [dev EXCEPT ![n] = Reconcile(f.peers)] /\ SetExits(n, ex)
  BY <1>3, <1>5 DEF RegisterAck
<1>7. dev'[n].peers = {<<sp.peer, sp.gen>> : sp \in f.peers} /\ (n \in SocksNode => exits'[n] = ex)
  <2>1. dev \in [Node -> Device] /\ exits \in [Node -> SUBSET (Nat \X Node)]
    BY <1>1 DEF Types, WgTypes
  <2>2. n \in SocksNode => exits' = [exits EXCEPT ![n] = ex]
    BY <1>6 DEF SetExits
  <2> QED
    BY <1>1, <1>6, <2>1, <2>2 DEF Reconcile
<1>8. UNCHANGED <<hubSt, revokedDB, sessions, lastWG, todo, registered, pc, torn>>
  BY DEF RegisterAck, dbVars, hubVars, sessVars
<1>9. conn'[n] = c /\ phase'[n] = "up" /\ out'[c] = Tail(out[c])
  <2>1. out \in [Sess -> Seq(ToAgent)] /\ phase \in [Node -> {"down", "registering", "up", "gone"}]
    BY <1>1 DEF Types, ChanTypes, ConnTypes
  <2>2. /\ out' = [out EXCEPT ![c] = Tail(@)] /\ UNCHANGED conn
        /\ phase' = [phase EXCEPT ![n] = "up"]
    BY <1>2 DEF RegisterAck
  <2> QED
    BY <1>1, <1>2, <2>1, <2>2
<1>10. ASSUME f \in Settles(l, n) PROVE Right(l, n)'
  <2>1. PICK now : now = Now(l, n)
    OBVIOUS
  <2>2. f.peers \cap About(l, n) = {now}
    BY <1>3, <1>10, <2>1 DEF Settles
  <2>3. now.link = l.id /\ now.peer = o /\ now.gen = lastWG[o] /\ (now.exit <=> l.exit = o /\ o \in SocksNode)
    BY <2>1 DEF Now, SpecOf
  <2>4. now \in f.peers
    BY <2>2
  <2>5. \A sp \in f.peers : sp.link = l.id => sp = now
    BY <1>4, <2>2 DEF About
  <2>6. <<l.id, o>> \in ex <=> now.exit
    BY <1>5, <2>3, <2>4, <2>5
  <2> QED
    BY <1>7, <1>8, <2>3, <2>4, <2>6 DEF Right
<1>11. f \in Matters(l, n) /\ ~Fatal(f)
  BY <1>3 DEF Matters, Fatal
<1> QED
  BY <1>1, <1>2, <1>3, <1>8, <1>9, <1>10, <1>11, TakenDeal------------------------------------------------------------------------------
(* Every link is dealt with                                                 *)

\* Initially there is no link.
LEMMA DealInit == Init => DealInv
  BY DEF Init, DealInv

\* The deal is kept by every step.
LEMMA DealStep == PathsInv /\ DealInv /\ [Next]_vars => DealInv'
<1> SUFFICES ASSUME PathsInv, DealInv, [Next]_vars, NEW l \in store', NEW n \in l.ends
             PROVE  Deal(l, n)'
  BY DEF DealInv
<1>1. CASE l \notin store
  BY <1>1, NewLinkDeal DEF PathsInv, FreshInv, BaseInv
<1>2. CASE l \in store
  <2>0. l \in Link /\ Deal(l, n)
    BY <1>2, RowsOfPaths DEF DealInv
  <2>1. ASSUME NEW s \in Sess, SessionStep(s) \/ CloseConn(s) PROVE Deal(l, n)'
    <3>1. CASE HandleRegister(s)
      BY <1>2, <2>0, <3>1, OwnRegisterDeal, OtherRegisterDeal
    <3>2. CASE ReadRegister(s) \/ HandleAck(s) \/ CloseConn(s)
      BY <2>0, <3>2, ReadDeal
    <3>3. CASE RunSession(s) \/ SendRegisterAck(s) \/ DropSession(s)
      BY <2>0, <3>3, RunSessionDeal, SendRegisterAckDeal, DropSessionDeal
    <3> QED
      BY <2>1, <3>1, <3>2, <3>3 DEF SessionStep
  <2>2. ASSUME NEW t \in todo, RequestStep(t) PROVE Deal(l, n)'
    <3>1. CASE StoreCreateLink(t) \/ DeleteNodeTx(t) \/ KickClose(t) \/ DeleteNodeForget(t)
      BY <1>2, <2>0, <3>1, IdleRequestDeal
    <3>2. CASE PushLink(t)
      BY <1>2, <2>0, <3>2, PushLinkDeal
    <3>3. CASE RemoveLink(t) \/ DeleteNodeCascade(t)
      BY <1>2, <2>0, <3>3, WithdrawalDeal
    <3>4. CASE DeleteNodeKick(t)
      BY <1>2, <2>0, <3>4, LastFrameDeal
    <3> QED
      BY <2>2, <3>1, <3>2, <3>3, <3>4 DEF RequestStep
  <2>3. ASSUME NEW m \in Node, AgentStep(m) \/ LoseConn(m) \/ RegisterFails(m) PROVE Deal(l, n)'
    <3>1. CASE m # n
      BY <2>0, <2>3, <3>1, OtherAgentDeal
    <3>2. CASE m = n
      BY <2>0, <2>3, <3>2, RegisterAckDeal, ApplyPeerDeal, ApplyRemoveDeal, LeavingDeal DEF AgentStep
    <3> QED
      BY <3>1, <3>2
  <2>4. CASE AdminStep
    BY <1>2, <2>0, <2>4, IdleRequestDeal, LastFrameDeal DEF AdminStep
  <2>5. CASE Fault
    <3>1. ASSUME HubRestart PROVE Deal(l, n)'
      <4>1. conn' = conn /\ hubSt' = [s \in Sess |-> "none"]
        BY <3>1 DEF HubRestart, agentVars
      <4>2. n \in Node /\ conn \in [Node -> Sess \cup {None}]
        BY <2>0, OtherOfOther DEF PathsInv, FreshInv, BaseInv, Types, ConnTypes
      <4> QED
        BY <4>1, <4>2 DEF Deal, Live
    <3>2. ASSUME NEW m \in Node, AgentRestart(m) \/ ApplyPeerFails(m) PROVE Deal(l, n)'
      <4>1. CASE m # n
        BY <2>0, <3>2, <4>1, OtherAgentDeal
      <4>2. CASE m = n
        BY <2>0, <3>2, <4>2, ApplyPeerFailsDeal, LeavingDeal
      <4> QED
        BY <4>1, <4>2
    <3>3. ASSUME NEW m \in Node, GcOfflinePeer(m) PROVE Deal(l, n)'
      BY <1>2, <2>0, <3>3, WithdrawalDeal
    <3> QED
      BY <2>5, <3>1, <3>2, <3>3 DEF Fault
  <2>6. CASE UNCHANGED vars
    <3>1. UNCHANGED <<sessions, registered, lastWG, phase, conn, dev, exits, out, pc, exp, hubSt,
                      revokedDB, torn, todo>>
      BY <2>6 DEF vars, dbVars, hubVars, sessVars, chanVars, agentVars, wgVars
    <3>2. Settled(l.ends)' => Settled(l.ends)
      BY <3>1 DEF Settled, Busy
    <3> QED
      BY <2>0, <3>1, <3>2, IdleDeal
  <2> QED
    BY <2>1, <2>2, <2>3, <2>4, <2>5, <2>6 DEF Next
<1> QED
  BY <1>1, <1>2

\* When an end has applied everything it was sent, what it has is right.
LEMMA DrainedIsRight ==
  ASSUME PathsInv, DealInv, NEW l \in store, NEW n \in l.ends,
         Drained(n), Ready(Other(l, n)), Settled(l.ends)
  PROVE  Right(l, n)
<1>1. l \in Link /\ n \in Node
  BY RowsOfPaths, OtherOfOther
<1>2. /\ phase[n] = "up" /\ conn[n] # None /\ hubSt[conn[n]] = "open" /\ out[conn[n]] = <<>>
  BY DEF Drained, Current
<1>3. PICK c \in Sess : c = conn[n] /\ Owner(c) = n
  BY <1>1, <1>2, NoneIsNoSession DEF PathsInv, FreshInv, BaseInv, Types, ConnTypes, KeyInv, NodeOk
<1>4. registered[c]
  BY <1>2, <1>3 DEF PathsInv, FreshInv, KeyInv, UsedOk
<1>5. pc[c] = "idle"
  BY <1>2, <1>3 DEF PathsInv, PathInv, OnceInv, WaitOk
<1>6. Queue(c) = <<>>
  BY <1>2, <1>3, <1>5 DEF Queue
<1>7. Live(l, n)
  BY <1>2, <1>3, <1>4 DEF Live
<1>8. ~Doomed(n)
  <2>1. Len(<<>>) = 0
    OBVIOUS
  <2> QED
    BY <1>2, <1>3, <1>6, <2>1 DEF Doomed
<1>9. Told(l, n)
  BY <1>7, <1>8 DEF DealInv, Deal
<1> QED
  BY <1>3, <1>6, <1>9, LastOfEmpty DEF Told

\* The invariant of this module is one.
LEMMA DeliveryInv == Spec => [](PathsInv /\ DealInv)
<1>1. Init => PathsInv /\ DealInv
  BY PathsInit, DealInit
<1>2. PathsInv /\ DealInv /\ [Next]_vars => (PathsInv /\ DealInv)'
  BY PathsStep, DealStep
<1> QED
  BY <1>1, <1>2, PTL DEF Spec

\* When a link's end has applied all it was sent and the other end is
\* registered, its kernel has that end's registered key, for any number of
\* nodes, links, connections and queue capacity (handleRegister, pushLink,
\* removeLinkFromPeers, dispatch).
THEOREM Delivery == Spec => []Delivered
<1>1. PathsInv /\ DealInv => Delivered
  BY DrainedIsRight DEF Delivered, Right
<1> QED
  BY <1>1, DeliveryInv, PTL
------------------------------------------------------------------------------
(* The egress follows the designations                                      *)

\* The upstream in use is one of the designated exits.
UpstreamInv == \A n \in SocksNode : upstream[n] \in Upstreams(exits[n])

\* recompute picks one of them.
LEMMA SetExitsPicks ==
  ASSUME Types, UpstreamInv, NEW n \in Node, NEW ex, SetExits(n, ex)
  PROVE  UpstreamInv'
<1>1. exits \in [Node -> SUBSET (Nat \X Node)] /\ upstream \in [Node -> Node \cup {None}]
  BY DEF Types, WgTypes
<1>2. CASE n \in SocksNode
  <2>1. exits' = [exits EXCEPT ![n] = ex]
    BY <1>2 DEF SetExits
  <2>2. PICK u \in Upstreams(ex) : upstream' = [upstream EXCEPT ![n] = u]
    BY <1>2 DEF SetExits
  <2>3. \A m \in Node : /\ exits'[m] = IF m = n THEN ex ELSE exits[m]
                        /\ upstream'[m] = IF m = n THEN u ELSE upstream[m]
    BY <1>1, <2>1, <2>2
  <2>4. SocksNode \subseteq Node
    BY SocksAssumption
  <2>5. ASSUME NEW m \in SocksNode PROVE upstream'[m] \in Upstreams(exits'[m])
    <3>1. CASE m = n
      BY <2>2, <2>3, <3>1
    <3>2. CASE m # n
      BY <2>3, <2>4, <3>2 DEF UpstreamInv
    <3> QED
      BY <3>1, <3>2
  <2> QED
    BY <2>5 DEF UpstreamInv, Upstreams
<1>3. CASE n \notin SocksNode
  BY <1>3 DEF SetExits, UpstreamInv, Upstreams
<1> QED
  BY <1>2, <1>3

\* Every step that changes the exits recomputes the upstream.
LEMMA UpstreamStep == Types /\ UpstreamInv /\ [Next]_vars => UpstreamInv'
<1> SUFFICES ASSUME Types, UpstreamInv, [Next]_vars PROVE UpstreamInv'
  OBVIOUS
<1>1. ASSUME UNCHANGED <<exits, upstream>> PROVE UpstreamInv'
  BY <1>1 DEF UpstreamInv, Upstreams
<1>2. ASSUME NEW s \in Sess, SessionStep(s) \/ CloseConn(s) PROVE UNCHANGED <<exits, upstream>>
  BY <1>2 DEF SessionStep, RunSession, ReadRegister, HandleRegister, SendRegisterAck, HandleAck,
     DropSession, CloseConn, agentVars, wgVars
<1>3. ASSUME NEW t \in todo, RequestStep(t) PROVE UNCHANGED <<exits, upstream>>
  BY <1>3 DEF RequestStep, StoreCreateLink, PushLink, RemoveLink, DeleteNodeTx, DeleteNodeCascade,
     DeleteNodeKick, KickClose, DeleteNodeForget, agentVars, wgVars
<1>4. ASSUME AdminStep PROVE UNCHANGED <<exits, upstream>>
  BY <1>4 DEF AdminStep, ApiCreateLink, DeleteLink, SetLinkExit, RotateWG, DeleteNode, agentVars, wgVars
<1>5. ASSUME NEW n \in Node,
             \/ (\E s \in Sess : Connect(n, s)) \/ ApplyRotate(n) \/ LoseConn(n) \/ RegisterFails(n)
             \/ ApplyPeerFails(n) \/ GcOfflinePeer(n)
      PROVE  UNCHANGED <<exits, upstream>>
  BY <1>5 DEF Connect, ApplyRotate, LoseConn, RegisterFails, ApplyPeerFails, GcOfflinePeer, agentVars,
     wgVars
<1>6. ASSUME NEW n \in Node, RegisterAck(n) \/ ApplyPeer(n) PROVE UpstreamInv'
  <2>1. \E ex : SetExits(n, ex)
    BY <1>6 DEF RegisterAck, ApplyPeer
  <2> QED
    BY <2>1, SetExitsPicks
<1>7. ASSUME NEW n \in Node, ApplyRemove(n) PROVE UpstreamInv'
  <2>1. (\E ex : SetExits(n, ex)) \/ UNCHANGED <<exits, upstream>>
    BY <1>7 DEF ApplyRemove
  <2> QED
    BY <1>1, <2>1, SetExitsPicks
<1>8. ASSUME NEW n \in Node, ApplyKick(n) \/ AgentRestart(n) PROVE UpstreamInv'
  <2>1. /\ exits' = [exits EXCEPT ![n] = {}] /\ upstream' = [upstream EXCEPT ![n] = None]
        /\ exits \in [Node -> SUBSET (Nat \X Node)] /\ upstream \in [Node -> Node \cup {None}]
    BY <1>8 DEF ApplyKick, AgentRestart, Types, WgTypes
  <2>2. ASSUME NEW m \in SocksNode PROVE upstream'[m] \in Upstreams(exits'[m])
    <3>1. m \in Node
      BY SocksAssumption
    <3>2. CASE m = n
      BY <2>1, <3>1, <3>2 DEF Upstreams
    <3>3. CASE m # n
      BY <2>1, <3>1, <3>3 DEF UpstreamInv
    <3> QED
      BY <3>2, <3>3
  <2> QED
    BY <2>2 DEF UpstreamInv, Upstreams
<1>9. CASE HubRestart \/ UNCHANGED vars
  BY <1>1, <1>9 DEF HubRestart, vars, agentVars, wgVars
<1> QED
  BY <1>1, <1>2, <1>3, <1>4, <1>5, <1>6, <1>7, <1>8, <1>9 DEF Next, AgentStep, Fault

\* The egress of a connected agent is what the database designates once it
\* has applied all it was sent, and the upstream in use is a designated one
\* at any time (SetLinkExit, peerSpecLocked, ExitController).
THEOREM ExitsAreDesignated == Spec => []ExitFollowsLink
<1>1. Init => UpstreamInv
  BY SocksAssumption DEF Init, UpstreamInv, Upstreams
<1>2. PathsInv /\ UpstreamInv /\ [Next]_vars => UpstreamInv'
  BY UpstreamStep DEF PathsInv, FreshInv, BaseInv
<1>3. ASSUME PathsInv, DealInv, UpstreamInv PROVE ExitFollowsLink
  <2>1. ASSUME NEW n \in SocksNode, NEW l \in LinksOf(n),
               Drained(n), Ready(Other(l, n)), Settled(l.ends)
        PROVE  (<<l.id, Other(l, n)>> \in exits[n]) <=> (l.exit = Other(l, n) /\ Other(l, n) \in SocksNode)
    <3>1. l \in store /\ n \in l.ends
      BY DEF LinksOf
    <3>2. Right(l, n)
      BY <1>3, <2>1, <3>1, DrainedIsRight
    <3> QED
      BY <3>2 DEF Right
  <2> QED
    BY <1>3, <2>1 DEF ExitFollowsLink, UpstreamInv
<1>4. PathsInv /\ DealInv /\ UpstreamInv => ExitFollowsLink
  BY <1>3
<1> QED
  BY <1>1, <1>2, <1>4, DeliveryInv, PTL DEF Spec
------------------------------------------------------------------------------
(* What a queue makes of the key that a device has of a peer                *)

\* The keys of p in n's device; the set of a key that is there, or not.
Held(n, p) == {k[2] : k \in {x \in dev[n].peers : x[1] = p}}
Only(a) == {a} \ {None}

\* A frame that configures p, and one that drops a key of p.
Sets(p, f) == f.type \in {"peer_add", "peer_update"} /\ f.spec.peer = p /\ f.spec.valid
Drops(p, f) == f.type = "peer_remove" /\ f.wg[1] = p

\* The frame turns the one key a of p, or none, into b: a peer_add finds no
\* other key.
Turns(p, a, f, b) ==
  /\ f.type = "register_ack" =>
       Only(b) = {sp.gen : sp \in {x \in f.peers : x.peer = p /\ x.valid}}
  /\ Sets(p, f) => b = f.spec.gen /\ (f.type = "peer_add" => a \in {None, b})
  /\ Drops(p, f) => b = IF a = f.wg[2] THEN None ELSE a
  /\ f.type # "register_ack" /\ ~Sets(p, f) /\ ~Drops(p, f) => b = a

\* What p's key is before, between and after the frames of a queue.
Chain(p, q, h) == /\ h \in [0 .. Len(q) -> Nat \cup {None}]
                  /\ \A i \in 1 .. Len(q) : Turns(p, h[i - 1], q[i], h[i])

\* The hub talks to n, which is not deleted, and which has its register_ack
\* or will find it first.
Talking(n) ==
  /\ conn[n] # None /\ hubSt[conn[n]] = "open" /\ registered[conn[n]] /\ n \notin revokedDB
  /\ phase[n] = "up" \/ (Queue(conn[n]) # <<>> /\ Head(Queue(conn[n])).type = "register_ack")

\* There is a link between n and p, or its withdrawal from n is still to come.
Wanted(n, p) == p \notin revokedDB /\ \E l \in store : l.ends = {n, p}
Withdrawing(n, p) ==
  \E t \in todo : \/ t.op = "removeLink" /\ t.link.ends = {n, p}
                  \/ t.op = "cascade" /\ t.node = p /\ \E l \in t.links : l.ends = {n, p}

\* A device starts with at most one key, the last one it was given; the last
\* frame leaves the registered key of a peer that is wanted or still to be
\* withdrawn, or none.
Starts(n, p, a) ==
  phase[n] = "up" => Held(n, p) = Only(a) /\ (a # None => dev[n].keys[p] = a)
Leaves(n, p, x) ==
  x \in {None, lastWG[p]} /\ (x # None => Wanted(n, p) \/ Withdrawing(n, p))

Plot(n, p) ==
  Talking(n) /\ {n, p} \notin torn =>
    \E h : /\ Chain(p, Queue(conn[n]), h)
           /\ Starts(n, p, h[0]) /\ Leaves(n, p, h[Len(Queue(conn[n]))])

PlotInv == \A n, p \in Node : Plot(n, p)

\* A frame is appended.
LEMMA ChainAppend ==
  ASSUME NEW S, NEW p, NEW q \in Seq(S), NEW f \in S, NEW h, Chain(p, q, h),
         NEW b \in Nat \cup {None}, Turns(p, h[Len(q)], f, b)
  PROVE  \E g : /\ Chain(p, Append(q, f), g)
                /\ g[0] = h[0] /\ g[Len(Append(q, f))] = b
<1> DEFINE r == Append(q, f)
           g == [i \in 0 .. Len(r) |-> IF i = Len(r) THEN b ELSE h[i]]
<1>1. /\ Len(q) \in Nat /\ Len(r) = Len(q) + 1
      /\ \A i \in 1 .. Len(q) : r[i] = q[i]
      /\ r[Len(q) + 1] = f
  BY AppendProperties
<1> HIDE DEF r
<1>2. h \in [0 .. Len(q) -> Nat \cup {None}]
  BY DEF Chain
<1>3. \A i \in 0 .. Len(r) : g[i] = IF i = Len(r) THEN b ELSE h[i]
  OBVIOUS
<1>4. g \in [0 .. Len(r) -> Nat \cup {None}]
  <2>1. ASSUME NEW i \in 0 .. Len(r) PROVE (IF i = Len(r) THEN b ELSE h[i]) \in Nat \cup {None}
    <3>1. i = Len(r) \/ i \in 0 .. Len(q)
      BY <1>1
    <3> QED
      BY <1>2, <3>1
  <2> QED
    BY <2>1
<1> HIDE DEF g
<1>5. ASSUME NEW i \in 1 .. Len(r) PROVE Turns(p, g[i - 1], r[i], g[i])
  <2>1. CASE i = Len(r)
    <3>1. i - 1 = Len(q) /\ i - 1 \in 0 .. Len(r) /\ i - 1 # Len(r) /\ i \in 0 .. Len(r)
      BY <1>1, <2>1
    <3>2. g[i - 1] = h[Len(q)] /\ g[i] = b /\ r[i] = f
      BY <1>1, <1>3, <2>1, <3>1
    <3> QED
      BY <3>2
  <2>2. CASE i # Len(r)
    <3>1. /\ i \in 1 .. Len(q) /\ i \in 0 .. Len(r)
          /\ i - 1 \in 0 .. Len(r) /\ i - 1 # Len(r)
      BY <1>1, <2>2
    <3>2. g[i - 1] = h[i - 1] /\ g[i] = h[i] /\ r[i] = q[i]
      BY <1>1, <1>3, <2>2, <3>1
    <3> QED
      BY <3>1, <3>2 DEF Chain
  <2> QED
    BY <2>1, <2>2
<1>6. g[0] = h[0] /\ g[Len(r)] = b
  <2>1. 0 \in 0 .. Len(r) /\ Len(r) \in 0 .. Len(r) /\ 0 # Len(r)
    BY <1>1
  <2> QED
    BY <1>3, <2>1
<1>7. Chain(p, r, g)
  BY <1>4, <1>5 DEF Chain
<1> QED
  BY <1>6, <1>7 DEF r

\* The head is taken.
LEMMA ChainTail ==
  ASSUME NEW S, NEW p, NEW q \in Seq(S), q # <<>>, NEW h, Chain(p, q, h)
  PROVE  /\ Turns(p, h[0], Head(q), h[1])
         /\ \E g : /\ Chain(p, Tail(q), g)
                   /\ g[0] = h[1] /\ g[Len(Tail(q))] = h[Len(q)]
<1> DEFINE r == Tail(q)
           g == [i \in 0 .. Len(r) |-> h[i + 1]]
<1>1. /\ Len(q) \in Nat \ {0} /\ Len(r) = Len(q) - 1
      /\ \A i \in 1 .. Len(r) : r[i] = q[i + 1]
      /\ Head(q) = q[1]
  BY HeadTailProperties
<1> HIDE DEF r
<1>2. h \in [0 .. Len(q) -> Nat \cup {None}]
  BY DEF Chain
<1>3. \A i \in 0 .. Len(r) : g[i] = h[i + 1]
  OBVIOUS
<1>4. g \in [0 .. Len(r) -> Nat \cup {None}]
  <2>1. \A i \in 0 .. Len(r) : i + 1 \in 0 .. Len(q)
    BY <1>1
  <2> QED
    BY <1>2, <2>1
<1> HIDE DEF g
<1>5. ASSUME NEW i \in 1 .. Len(r) PROVE Turns(p, g[i - 1], r[i], g[i])
  <2>1. /\ i + 1 \in 1 .. Len(q) /\ i \in 0 .. Len(r) /\ i - 1 \in 0 .. Len(r)
        /\ (i - 1) + 1 = i /\ (i + 1) - 1 = i
    BY <1>1
  <2>2. g[i - 1] = h[i] /\ g[i] = h[i + 1] /\ r[i] = q[i + 1]
    BY <1>1, <1>3, <2>1
  <2>3. Turns(p, h[(i + 1) - 1], q[i + 1], h[i + 1])
    BY <2>1 DEF Chain
  <2> QED
    BY <2>1, <2>2, <2>3
<1>6. g[0] = h[1] /\ g[Len(r)] = h[Len(q)]
  <2>1. 0 \in 0 .. Len(r) /\ Len(r) \in 0 .. Len(r) /\ 0 + 1 = 1 /\ Len(r) + 1 = Len(q)
    BY <1>1
  <2> QED
    BY <1>3, <2>1
<1>7. Chain(p, r, g)
  BY <1>4, <1>5 DEF Chain
<1>8. Turns(p, h[0], Head(q), h[1])
  <2>1. 1 \in 1 .. Len(q) /\ 1 - 1 = 0
    BY <1>1
  <2>2. Turns(p, h[1 - 1], q[1], h[1])
    BY <2>1 DEF Chain
  <2> QED
    BY <1>1, <2>1, <2>2
<1> QED
  BY <1>6, <1>7, <1>8 DEF r

\* One frame.
LEMMA ChainOfOne ==
  ASSUME NEW S, NEW p, NEW f \in S, NEW b \in Nat \cup {None}, Turns(p, None, f, b)
  PROVE  \E h : Chain(p, <<f>>, h) /\ h[Len(<<f>>)] = b
<1>1. PICK h : h = [i \in 0 .. 1 |-> IF i = 0 THEN None ELSE b]
  OBVIOUS
<1>2. h \in [0 .. 1 -> Nat \cup {None}] /\ h[0] = None /\ h[1] = b
  BY <1>1
<1>3. Len(<<f>>) = 1 /\ <<f>>[1] = f
  OBVIOUS
<1>4. ASSUME NEW i \in 1 .. 1 PROVE Turns(p, h[i - 1], <<f>>[i], h[i])
  <2>1. i = 1 /\ i - 1 = 0
    OBVIOUS
  <2> QED
    BY <1>2, <1>3, <2>1
<1> QED
  BY <1>2, <1>3, <1>4 DEF Chain

\* A queue is one of frames.
LEMMA QueueIsQueue ==
  ASSUME PathsInv, NEW c \in Sess
  PROVE  Queue(c) \in Seq(ToAgent)
<1>1. /\ out \in [Sess -> Seq(ToAgent)] /\ exp \in [Sess -> SUBSET PeerSpec]
  BY DEF PathsInv, FreshInv, BaseInv, Types, ChanTypes, SessVarTypes
<1>2. PICK a \in ToAgent : a = [type |-> "register_ack", peers |-> exp[c]]
  BY <1>1, FramesAreFrames
<1>3. out[c] \in Seq(ToAgent) /\ Append(out[c], a) \in Seq(ToAgent)
  BY <1>1, AppendProperties
<1> QED
  BY <1>2, <1>3 DEF Queue

\* The connection of an agent, and of one that the hub talks to.
LEMMA TalkFacts ==
  ASSUME PathsInv, NEW n \in Node, conn[n] # None
  PROVE  /\ conn[n] \in Sess /\ Owner(conn[n]) = n
         /\ Talking(n) => sessions[n] = conn[n] /\ Ready(n)
<1>1. conn[n] \in Sess
  BY DEF PathsInv, FreshInv, BaseInv, Types, ConnTypes
<1>2. Owner(conn[n]) = n
  BY <1>1 DEF PathsInv, FreshInv, KeyInv, NodeOk
<1>3. ASSUME Talking(n) PROVE sessions[n] = conn[n] /\ Ready(n)
  <2>1. sessions[n] = conn[n]
    BY <1>1, <1>2, <1>3 DEF Talking, PathsInv, FreshInv, BaseInv, OneLiveSession
  <2>2. lastWG[n] # None
    BY <1>1, <1>2, <1>3 DEF Talking, PathsInv, PathInv, KnownInv
  <2> QED
    BY <1>3, <2>1, <2>2 DEF Talking, Ready
<1> QED
  BY <1>1, <1>2, <1>3

\* A chain's values.
LEMMA ChainEnds ==
  ASSUME NEW S, NEW p, NEW q \in Seq(S), NEW h, Chain(p, q, h)
  PROVE  h[0] \in Nat \cup {None} /\ h[Len(q)] \in Nat \cup {None}
<1>1. Len(q) \in Nat /\ 0 \in 0 .. Len(q) /\ Len(q) \in 0 .. Len(q)
  OBVIOUS
<1> QED
  BY <1>1 DEF Chain

\* Steps that leave n and its queue alone, and what the queue leaves behind
\* in order.
LEMMA PlotKept ==
  ASSUME PathsInv, NEW n \in Node, NEW p \in Node, Plot(n, p), torn \subseteq torn',
         Talking(n)' => /\ Talking(n) /\ conn'[n] = conn[n] /\ phase'[n] = phase[n] /\ dev'[n] = dev[n]
                        /\ \A c \in Sess : c = conn[n] => Queue(c)' = Queue(c),
         \A x \in Nat \cup {None} : Talking(n) /\ Talking(n)' /\ {n, p} \notin torn' /\ Leaves(n, p, x)
                                       => Leaves(n, p, x)'
  PROVE  Plot(n, p)'
<1> SUFFICES ASSUME Talking(n)', {n, p} \notin torn' PROVE Plot(n, p)'
  BY DEF Plot
<1>1. PICK c \in Sess : c = conn[n]
  BY TalkFacts DEF Talking
<1>2. PICK q \in Seq(ToAgent) : q = Queue(c)
  BY QueueIsQueue
<1>3. PICK h : Chain(p, q, h) /\ Starts(n, p, h[0]) /\ Leaves(n, p, h[Len(q)])
  BY <1>1, <1>2 DEF Plot
<1>4. PICK a : a = h[0]
  OBVIOUS
<1>5. PICK x \in Nat \cup {None} : x = h[Len(q)]
  BY <1>2, <1>3, ChainEnds
<1>6. Starts(n, p, a)'
  BY <1>3, <1>4 DEF Starts, Held
<1>7. Leaves(n, p, x)'
  BY <1>3, <1>5
<1>8. conn'[n] = c /\ Queue(c)' = q
  BY <1>1, <1>2
<1> QED
  BY <1>3, <1>4, <1>5, <1>6, <1>7, <1>8 DEF Plot

\* Frames are sent: what the one for n, if any, makes of the last key is in
\* order again.
LEMMA PlotSent ==
  ASSUME PathsInv, NEW n \in Node, NEW p \in Node, Plot(n, p), torn \subseteq torn',
         NEW fr, FrameMap(fr), Plain(fr), Send(fr), revokedDB \subseteq revokedDB',
         UNCHANGED <<phase, conn, dev>>,
         \A c \in Sess : c = conn[n] =>
           pc'[c] = pc[c] /\ exp'[c] = exp[c] /\ registered'[c] = registered[c],
         \A c \in Sess : \A x \in Nat \cup {None} :
           Talking(n) /\ {n, p} \notin torn' /\ c = conn[n] /\ Leaves(n, p, x) =>
             IF c \in DOMAIN fr
               THEN \E y \in Nat \cup {None} : Turns(p, x, fr[c], y) /\ Leaves(n, p, y)'
               ELSE Leaves(n, p, x)'
  PROVE  Plot(n, p)'
<1> SUFFICES ASSUME Talking(n)', {n, p} \notin torn' PROVE Plot(n, p)'
  BY DEF Plot
<1>1. conn[n] # None
  BY DEF Talking
<1>2. PICK c \in Sess : c = conn[n] /\ Owner(c) = n
  BY <1>1, TalkFacts
<1>3. /\ hubSt \in [Sess -> {"none", "checked", "open", "closed"}] /\ out \in [Sess -> Seq(ToAgent)]
      /\ pc \in [Sess -> {"idle", "links", "ack"}] /\ exp \in [Sess -> SUBSET PeerSpec]
      /\ OutCap \in Nat /\ Len(out[c]) \in Nat
  BY CapAssumption DEF PathsInv, FreshInv, BaseInv, Types, ChanTypes, SessVarTypes
<1>4. hubSt'[c] = "open" /\ conn'[n] = c
  BY <1>2 DEF Talking
<1>5. hubSt[c] = "open" /\ (c \in DOMAIN fr => ~(Len(out[c]) >= OutCap))
  BY <1>3, <1>4 DEF Send, OverflowClosed
<1>6. out'[c] = IF c \in DOMAIN fr THEN Append(out[c], fr[c]) ELSE out[c]
  BY <1>2, <1>3, <1>5 DEF Send, Queued
<1>7. hubSt[c] = "open" /\ registered[c] /\ n \notin revokedDB
  BY <1>2, <1>5 DEF Talking
<1>8. CASE c \notin DOMAIN fr
  <2>1. Queue(c)' = Queue(c)
    BY <1>2, <1>6, <1>8 DEF Queue
  <2>2. Talking(n)
    BY <1>2, <1>4, <1>7, <2>1, NoneIsNoSession DEF Talking
  <2>3. \A x \in Nat \cup {None} : Leaves(n, p, x) => Leaves(n, p, x)'
    BY <1>2, <1>8, <2>2
  <2> QED
    BY <1>2, <2>1, <2>2, <2>3, PlotKept
<1>9. CASE c \in DOMAIN fr
  <2>1. PICK f \in ToAgent : f = fr[c] /\ f.type # "register_ack"
    BY <1>9 DEF FrameMap, Plain
  <2>2. out'[c] = Append(out[c], f)
    BY <1>6, <1>9, <2>1
  <2>3. CASE pc[c] = "ack"
    <3>1. phase[n] = "registering" /\ Acks(c) = {}
      BY <1>2, <2>3 DEF PathsInv, PathInv, OnceInv, WaitOk
    <3>2. PICK a \in ToAgent : a = [type |-> "register_ack", peers |-> exp[c]]
      BY <1>3, FramesAreFrames
    <3>3. PICK r \in Seq(ToAgent) : r = Append(out[c], f)
      BY <1>3, AppendProperties
    <3>4. Queue(c)' = Append(r, a)
      BY <1>2, <2>2, <2>3, <3>2, <3>3 DEF Queue
    <3>5. /\ Len(r) = Len(out[c]) + 1 /\ r[Len(out[c]) + 1] = f
          /\ \A i \in 1 .. Len(out[c]) : r[i] = out[c][i]
      BY <1>3, <3>3, AppendProperties
    <3>6. r[1].type # "register_ack"
      <4>1. CASE Len(out[c]) = 0
        BY <2>1, <3>5, <4>1
      <4>2. CASE Len(out[c]) # 0
        <5>1. 1 \in 1 .. Len(out[c]) /\ Range(out[c]) = {out[c][i] : i \in 1 .. Len(out[c])}
          BY <1>3, <4>2, RangeOfQueue
        <5>2. out[c][1] \in Range(out[c])
          BY <5>1
        <5> QED
          BY <3>1, <3>5, <5>1, <5>2 DEF Acks
      <4> QED
        BY <4>1, <4>2
    <3>7. Head(Append(r, a)) = r[1]
      <4>1. Len(r) \in Nat \ {0} /\ 1 \in 1 .. Len(r)
        BY <1>3, <3>5
      <4>2. Append(r, a)[1] = r[1] /\ Append(r, a) # <<>> /\ Append(r, a) \in Seq(ToAgent)
        BY <4>1, AppendProperties
      <4> QED
        BY <4>2, HeadTailProperties
    <3> QED
      BY <1>4, <3>1, <3>4, <3>6, <3>7 DEF Talking
  <2>4. CASE pc[c] # "ack"
    <3>1. PICK q \in Seq(ToAgent) : q = out[c] /\ q = Queue(c)
      BY <1>3, <2>4 DEF Queue
    <3>2. Queue(c)' = Append(q, f)
      BY <1>2, <2>2, <2>4, <3>1 DEF Queue
    <3>3. Talking(n)
      <4>1. CASE phase[n] = "up"
        BY <1>2, <1>7, <4>1, NoneIsNoSession DEF Talking
      <4>2. CASE phase[n] # "up"
        <5>1. Head(Append(q, f)).type = "register_ack"
          BY <1>4, <3>2, <4>2 DEF Talking
        <5>2. /\ Append(q, f) # <<>> /\ Append(q, f) \in Seq(ToAgent) /\ Len(q) \in Nat
              /\ Append(q, f)[Len(q) + 1] = f
              /\ \A i \in 1 .. Len(q) : Append(q, f)[i] = q[i]
          BY AppendProperties
        <5>3. Head(Append(q, f)) = Append(q, f)[1]
          BY <5>2, HeadTailProperties
        <5>4. Len(q) # 0
          BY <2>1, <5>1, <5>2, <5>3
        <5>5. q # <<>> /\ Head(q) = q[1] /\ 1 \in 1 .. Len(q)
          BY <5>2, <5>4, HeadTailProperties
        <5> QED
          BY <1>2, <1>7, <3>1, <5>1, <5>2, <5>3, <5>5, NoneIsNoSession DEF Talking
      <4> QED
        BY <4>1, <4>2
    <3>4. PICK h : Chain(p, q, h) /\ Starts(n, p, h[0]) /\ Leaves(n, p, h[Len(q)])
      BY <1>2, <3>1, <3>3 DEF Plot
    <3>5. PICK x \in Nat \cup {None} : x = h[Len(q)]
      BY <3>4, ChainEnds
    <3>6. PICK y \in Nat \cup {None} : Turns(p, x, f, y) /\ Leaves(n, p, y)'
      BY <1>2, <1>9, <2>1, <3>3, <3>4, <3>5
    <3>7. PICK g : Chain(p, Append(q, f), g) /\ g[0] = h[0] /\ g[Len(Append(q, f))] = y
      BY <3>4, <3>5, <3>6, ChainAppend
    <3>8. PICK a : a = h[0]
      OBVIOUS
    <3>9. Starts(n, p, a)'
      BY <3>4, <3>8 DEF Starts, Held
    <3> QED
      BY <1>4, <3>2, <3>6, <3>7, <3>8, <3>9 DEF Plot
  <2> QED
    BY <2>3, <2>4
<1> QED
  BY <1>8, <1>9

\* The agent takes a frame that does not end its session.
LEMMA PlotTaken ==
  ASSUME PathsInv, NEW n \in Node, NEW p \in Node, Plot(n, p), torn \subseteq torn',
         HasFrame(n), NEW c \in Sess, c = conn[n], conn'[n] = c, out'[c] = Tail(out[c]), pc[c] = "idle",
         phase'[n] = "up", phase[n] = "up" \/ Frame(n).type = "register_ack",
         UNCHANGED <<store, hubSt, revokedDB, lastWG, todo, registered, pc>>,
         \A a, b \in Nat \cup {None} :
           {n, p} \notin torn' /\ Starts(n, p, a) /\ Turns(p, a, Frame(n), b) => Starts(n, p, b)'
  PROVE  Plot(n, p)'
<1> SUFFICES ASSUME Talking(n)', {n, p} \notin torn' PROVE Plot(n, p)'
  BY DEF Plot
<1>1. PICK q \in Seq(ToAgent) : q = out[c] /\ q # <<>> /\ Frame(n) = Head(q)
  BY DEF HasFrame, Frame, PathsInv, FreshInv, BaseInv, Types, ChanTypes
<1>2. PICK r : r = Tail(q)
  OBVIOUS
<1>3. Queue(c) = q /\ Queue(c)' = r
  BY <1>1, <1>2 DEF Queue
<1>4. Talking(n)
  BY <1>1, <1>3 DEF Talking
<1>5. PICK h : Chain(p, q, h) /\ Starts(n, p, h[0]) /\ Leaves(n, p, h[Len(q)])
  BY <1>3, <1>4 DEF Plot
<1>6. PICK g : Chain(p, r, g) /\ g[0] = h[1] /\ g[Len(r)] = h[Len(q)]
  <2>1. \E g : Chain(p, Tail(q), g) /\ g[0] = h[1] /\ g[Len(Tail(q))] = h[Len(q)]
    BY <1>1, <1>5, ChainTail
  <2> QED
    BY <1>2, <2>1
<1>7. Turns(p, h[0], Head(q), h[1])
  BY <1>1, <1>5, ChainTail
<1>8. PICK a \in Nat \cup {None} : a = h[0]
  BY <1>5, ChainEnds
<1>9. PICK b \in Nat \cup {None} : b = h[1]
  <2>1. r \in Seq(ToAgent)
    BY <1>1, <1>2
  <2> QED
    BY <1>6, <2>1, ChainEnds
<1>10. Starts(n, p, b)'
  BY <1>1, <1>5, <1>7, <1>8, <1>9
<1>11. PICK x : x = h[Len(q)]
  OBVIOUS
<1>12. Leaves(n, p, x)'
  BY <1>5, <1>11 DEF Leaves, Wanted, Withdrawing
<1> QED
  BY <1>3, <1>6, <1>9, <1>10, <1>11, <1>12 DEF Plot
------------------------------------------------------------------------------
(* Steps that send nothing                                                  *)

\* They may close connections, or admit one that has not registered.
LEMMA PlotQuiet ==
  ASSUME PathsInv, NEW n \in Node, NEW p \in Node, Plot(n, p), torn \subseteq torn',
         UNCHANGED <<phase, conn, dev, out, exp>>, revokedDB \subseteq revokedDB',
         \A c \in Sess : hubSt'[c] = "open" /\ registered'[c] => hubSt[c] = "open" /\ registered[c],
         \A c \in Sess : pc'[c] = "ack" <=> pc[c] = "ack",
         \A x \in Nat \cup {None} : Talking(n)' /\ {n, p} \notin torn' /\ Leaves(n, p, x) => Leaves(n, p, x)'
  PROVE  Plot(n, p)'
<1>1. ASSUME Talking(n)'
      PROVE  /\ Talking(n)
             /\ \A c \in Sess : c = conn[n] => Queue(c)' = Queue(c)
  <2>1. PICK c \in Sess : c = conn[n]
    BY <1>1, TalkFacts DEF Talking
  <2>2. Queue(c)' = Queue(c)
    BY DEF Queue
  <2>3. hubSt[c] = "open" /\ registered[c] /\ n \notin revokedDB
    BY <1>1, <2>1 DEF Talking
  <2> QED
    BY <1>1, <2>1, <2>2, <2>3, NoneIsNoSession DEF Talking
<1> QED
  BY <1>1, PlotKept

\* A withdrawal waits for its own next step; an order that no longer
\* changes what is wanted is kept.
LEMMA WithdrawingKept ==
  ASSUME NEW n, NEW p, \A t \in todo : t.op \in {"removeLink", "cascade"} => t \in todo'
  PROVE  Withdrawing(n, p) => Withdrawing(n, p)'
BY DEF Withdrawing

LEMMA LeavesKept ==
  ASSUME NEW n, NEW p, NEW x, Leaves(n, p, x), lastWG'[p] = lastWG[p],
         Wanted(n, p) => (Wanted(n, p) \/ Withdrawing(n, p))',
         Withdrawing(n, p) => (Wanted(n, p) \/ Withdrawing(n, p))'
  PROVE  Leaves(n, p, x)'
BY DEF Leaves

\* The hub reads, admits, closes or drops a connection.
LEMMA QuietConnPlot ==
  ASSUME PathsInv, NEW n \in Node, NEW p \in Node, Plot(n, p), NEW s \in Sess,
         RunSession(s) \/ ReadRegister(s) \/ HandleAck(s) \/ CloseConn(s) \/ DropSession(s)
  PROVE  Plot(n, p)'
<1>1. /\ hubSt \in [Sess -> {"none", "checked", "open", "closed"}] /\ registered \in [Sess -> BOOLEAN]
      /\ pc \in [Sess -> {"idle", "links", "ack"}]
  BY DEF PathsInv, FreshInv, BaseInv, Types, ChanTypes, SessVarTypes
<1>2. /\ UNCHANGED <<store, revokedDB, lastWG, torn, phase, conn, dev, out, exp>>
      /\ \A c \in Sess : pc'[c] = "ack" <=> pc[c] = "ack"
  BY <1>1 DEF RunSession, ReadRegister, HandleAck, CloseConn, DropSession, dbVars, hubVars, sessVars,
     agentVars, wgVars
<1>3. \A c \in Sess : hubSt'[c] = "open" /\ registered'[c] => hubSt[c] = "open" /\ registered[c]
  <2>1. CASE RunSession(s)
    <3>1. registered' = registered /\ hubSt[s] = "checked"
      BY <2>1 DEF RunSession, sessVars
    <3>2. ~registered[s]
      BY <3>1 DEF PathsInv, FreshInv, KeyInv, SlotOk
    <3> QED
      BY <1>1, <2>1, <3>1, <3>2 DEF RunSession
  <2>2. CASE ReadRegister(s) \/ HandleAck(s) \/ CloseConn(s)
    BY <1>1, <2>2 DEF ReadRegister, HandleAck, CloseConn, sessVars
  <2>3. CASE DropSession(s)
    BY <1>1, <2>3 DEF DropSession
  <2> QED
    BY <2>1, <2>2, <2>3
<1>4. \A t \in todo : t.op \in {"removeLink", "cascade"} => t \in todo'
  <2>1. CASE DropSession(s)
    <3>1. \A t \in todo : t.op \in {"removeLink", "cascade"} => Detach(t, s) = t
      BY DEF Detach
    <3>2. todo' = {Detach(t, s) : t \in todo}
      BY <2>1 DEF DropSession
    <3> QED
      BY <3>1, <3>2
  <2>2. CASE RunSession(s) \/ ReadRegister(s) \/ HandleAck(s) \/ CloseConn(s)
    BY <2>2 DEF RunSession, ReadRegister, HandleAck, CloseConn
  <2> QED
    BY <2>1, <2>2
<1>5. Withdrawing(n, p) => Withdrawing(n, p)'
  BY <1>4, WithdrawingKept
<1>6. Wanted(n, p) => Wanted(n, p)'
  BY <1>2 DEF Wanted
<1>7. \A x \in Nat \cup {None} : Leaves(n, p, x) => Leaves(n, p, x)'
  BY <1>2, <1>5, <1>6, LeavesKept
<1> QED
  BY <1>2, <1>3, <1>7, PlotQuiet

\* Requests up to their first message, and the end of a connection. What a
\* deletion takes from the table, it is about to withdraw.
LEMMA QuietRequestPlot ==
  ASSUME PathsInv, NEW n \in Node, NEW p \in Node, Plot(n, p),
         \/ \E e \in Ends : ApiCreateLink(e)
         \/ \E x \in store : DeleteLink(x) \/ \E e \in Node \cup {None} : SetLinkExit(x, e)
         \/ \E m \in Node : DeleteNode(m)
         \/ \E t \in todo : StoreCreateLink(t) \/ KickClose(t)
         \/ UNCHANGED vars
  PROVE  Plot(n, p)'
<1>1. /\ UNCHANGED <<revokedDB, lastWG, torn, phase, conn, dev, out, exp, registered, pc>>
      /\ \A c \in Sess : hubSt'[c] = "open" => hubSt[c] = "open"
  BY DEF ApiCreateLink, DeleteLink, SetLinkExit, DeleteNode, StoreCreateLink, KickClose, vars, dbVars,
     hubVars, sessVars, chanVars, agentVars, wgVars
<1>2. \A t \in todo : t.op \in {"removeLink", "cascade"} => t \in todo'
  BY DEF ApiCreateLink, DeleteLink, SetLinkExit, DeleteNode, StoreCreateLink, KickClose, Continue, vars
<1>3. Withdrawing(n, p) => Withdrawing(n, p)'
  BY <1>2, WithdrawingKept
<1>4. Wanted(n, p) => (Wanted(n, p) \/ Withdrawing(n, p))'
  <2> SUFFICES ASSUME p \notin revokedDB, NEW l \in store, l.ends = {n, p}
               PROVE  (Wanted(n, p) \/ Withdrawing(n, p))'
    BY DEF Wanted
  <2>1. CASE l \in store'
    BY <1>1, <2>1 DEF Wanted
  <2>2. ASSUME NEW x \in store, DeleteLink(x), l \notin store' PROVE Withdrawing(n, p)'
    <3>1. PICK u : u = [op |-> "removeLink", link |-> x]
      OBVIOUS
    <3>2. x = l /\ u \in todo'
      BY <2>2, <3>1 DEF DeleteLink
    <3> QED
      BY <3>1, <3>2 DEF Withdrawing
  <2>3. ASSUME NEW x \in store, NEW e \in Node \cup {None}, SetLinkExit(x, e), l \notin store'
        PROVE  Wanted(n, p)'
    <3>1. PICK m : m = [x EXCEPT !.exit = e]
      OBVIOUS
    <3>2. x = l /\ m \in store'
      BY <2>3, <3>1 DEF SetLinkExit
    <3>3. l \in Link
      BY RowsOfPaths
    <3>4. m.ends = l.ends
      BY <3>1, <3>2, <3>3 DEF Link
    <3> QED
      BY <1>1, <3>2, <3>4 DEF Wanted
  <2>4. ASSUME \/ \E e \in Ends : ApiCreateLink(e)
               \/ \E m \in Node : DeleteNode(m)
               \/ \E t \in todo : StoreCreateLink(t) \/ KickClose(t)
               \/ UNCHANGED vars
        PROVE  l \in store'
    BY <2>4 DEF ApiCreateLink, DeleteNode, StoreCreateLink, KickClose, vars, dbVars
  <2> QED
    BY <2>1, <2>2, <2>3, <2>4
<1>5. \A x \in Nat \cup {None} : Leaves(n, p, x) => Leaves(n, p, x)'
  BY <1>1, <1>3, <1>4, LeavesKept
<1> QED
  BY <1>1, <1>5, PlotQuiet

\* The transaction of a deletion takes links that the withdrawal will name,
\* but for one that was inserted since they were listed.
LEMMA DeleteNodeTxPlot ==
  ASSUME PathsInv, NEW n \in Node, NEW p \in Node, Plot(n, p), NEW t \in todo, DeleteNodeTx(t)
  PROVE  Plot(n, p)'
<1>1. PICK u : u = [op |-> "cascade", node |-> t.node, links |-> t.links]
  OBVIOUS
<1>2. /\ UNCHANGED <<lastWG, phase, conn, dev, out, exp, registered, pc, hubSt>>
      /\ revokedDB' = revokedDB \cup {t.node} /\ store' = store \ LinksOf(t.node)
      /\ torn' = torn \cup {l.ends : l \in LinksOf(t.node) \ t.links}
      /\ t.op = "deleteTx" /\ todo' = (todo \ {t}) \cup {u}
  BY <1>1 DEF DeleteNodeTx, Continue, hubVars, sessVars, chanVars, agentVars, wgVars
<1>3. Withdrawing(n, p) => Withdrawing(n, p)'
  <2>1. \A v \in todo : v.op \in {"removeLink", "cascade"} => v \in todo'
    BY <1>2
  <2> QED
    BY <2>1, WithdrawingKept
<1>4. ASSUME Talking(n)', {n, p} \notin torn', Wanted(n, p) PROVE (Wanted(n, p) \/ Withdrawing(n, p))'
  <2>1. PICK l \in store : p \notin revokedDB /\ l.ends = {n, p}
    BY <1>4 DEF Wanted
  <2>2. n # t.node
    BY <1>2, <1>4 DEF Talking
  <2>3. CASE p = t.node
    <3>1. l \in LinksOf(t.node)
      BY <2>1, <2>3 DEF LinksOf
    <3>2. l \in t.links
      BY <1>2, <1>4, <2>1, <3>1
    <3> QED
      BY <1>1, <1>2, <2>1, <2>3, <3>2 DEF Withdrawing
  <2>4. CASE p # t.node
    <3>1. l \in store' /\ p \notin revokedDB'
      BY <1>2, <2>1, <2>2, <2>4 DEF LinksOf
    <3> QED
      BY <2>1, <3>1 DEF Wanted
  <2> QED
    BY <2>3, <2>4
<1>5. \A x \in Nat \cup {None} : Talking(n)' /\ {n, p} \notin torn' /\ Leaves(n, p, x) => Leaves(n, p, x)'
  BY <1>2, <1>3, <1>4, LeavesKept
<1> QED
  BY <1>2, <1>5, PlotQuiet

\* The key of a deleted node is forgotten when nothing is left to withdraw.
LEMMA ForgetPlot ==
  ASSUME PathsInv, NEW n \in Node, NEW p \in Node, Plot(n, p), NEW t \in todo, DeleteNodeForget(t)
  PROVE  Plot(n, p)'
<1>1. /\ UNCHANGED <<store, revokedDB, phase, conn, dev, out, exp, registered, pc, hubSt>>
      /\ lastWG' = [lastWG EXCEPT ![t.node] = None]
      /\ torn' = torn \cup {l.ends : l \in {x \in Withdrawn : t.node \in x.ends}}
      /\ t.op = "forget" /\ todo' = todo \ {t}
  BY DEF DeleteNodeForget, Continue, dbVars, sessVars, chanVars, agentVars, wgVars
<1>2. t.node \in revokedDB
  BY <1>1 DEF PathsInv, FreshInv, BaseInv, LinksInv
<1>3. Withdrawing(n, p) => Withdrawing(n, p)'
  <2>1. \A v \in todo : v.op \in {"removeLink", "cascade"} => v \in todo'
    BY <1>1
  <2> QED
    BY <2>1, WithdrawingKept
<1>4. Wanted(n, p) => Wanted(n, p)'
  BY <1>1 DEF Wanted
<1>5. ASSUME {n, p} \notin torn', p = t.node PROVE ~Wanted(n, p) /\ ~Withdrawing(n, p)
  <2>1. ASSUME Withdrawing(n, p) PROVE FALSE
    <3>1. PICK u \in todo : \/ u.op = "removeLink" /\ u.link.ends = {n, p}
                            \/ u.op = "cascade" /\ \E l \in u.links : l.ends = {n, p}
      BY <2>1 DEF Withdrawing
    <3>2. \E l \in Withdrawn : l.ends = {n, p}
      BY <3>1 DEF Withdrawn
    <3> QED
      BY <1>1, <1>5, <3>2
  <2> QED
    BY <1>2, <1>5, <2>1 DEF Wanted
<1>6. ASSUME NEW x \in Nat \cup {None}, {n, p} \notin torn', Leaves(n, p, x) PROVE Leaves(n, p, x)'
  <2>1. CASE p = t.node
    BY <1>5, <1>6, <2>1 DEF Leaves
  <2>2. CASE p # t.node
    <3>1. lastWG'[p] = lastWG[p]
      BY <1>1, <2>2 DEF PathsInv, FreshInv, BaseInv, Types, HubTypes
    <3> QED
      BY <1>3, <1>4, <1>6, <3>1, LeavesKept
  <2> QED
    BY <2>1, <2>2
<1> QED
  BY <1>1, <1>6, PlotQuiet
------------------------------------------------------------------------------
(* Withdrawals and pushes                                                   *)

\* What the frames of the hub do to the key of p.
LEMMA TurnsBy ==
  ASSUME NEW p, NEW x
  PROVE  /\ \A f : f.type \in {"rotate_wg", "kick"} => Turns(p, x, f, x)
         /\ \A i, q, g :
              LET f == [type |-> "peer_remove", link |-> i, wg |-> <<q, g>>] IN
              /\ q # p => Turns(p, x, f, x)
              /\ q = p /\ x \in {None, g} => Turns(p, x, f, None)
         /\ \A typ \in {"peer_add", "peer_update"} : \A sp :
              LET f == [type |-> typ, spec |-> sp] IN
              /\ sp.peer # p \/ ~sp.valid => Turns(p, x, f, x)
              /\ sp.peer = p /\ sp.valid /\ (typ = "peer_update" \/ x \in {None, sp.gen}) =>
                   Turns(p, x, f, sp.gen)
<1>1. ASSUME NEW f, f.type \in {"rotate_wg", "kick"} PROVE Turns(p, x, f, x)
  BY <1>1 DEF Turns, Sets, Drops
<1>2. ASSUME NEW i, NEW q, NEW g, NEW f, f = [type |-> "peer_remove", link |-> i, wg |-> <<q, g>>]
      PROVE  /\ q # p => Turns(p, x, f, x)
             /\ q = p /\ x \in {None, g} => Turns(p, x, f, None)
  BY <1>2 DEF Turns, Sets, Drops
<1>3. ASSUME NEW typ \in {"peer_add", "peer_update"}, NEW sp, NEW f, f = [type |-> typ, spec |-> sp]
      PROVE  /\ sp.peer # p \/ ~sp.valid => Turns(p, x, f, x)
             /\ sp.peer = p /\ sp.valid /\ (typ = "peer_update" \/ x \in {None, sp.gen}) =>
                  Turns(p, x, f, sp.gen)
  <2>1. f.type = typ /\ f.spec = sp
    BY <1>3
  <2> QED
    BY <2>1 DEF Turns, Sets, Drops
<1> QED
  BY <1>1, <1>2, <1>3

\* The withdrawal of links from their ends.
LEMMA RemovePlot ==
  ASSUME PathsInv, NEW n \in Node, NEW p \in Node, Plot(n, p), torn \subseteq torn',
         NEW E \in SUBSET (Link \X Node), \A x, y \in E : x[2] = y[2] => x = y,
         Send(RemoveFrames(E)),
         UNCHANGED <<store, revokedDB, registered, lastWG, phase, conn, dev, pc, exp>>,
         Withdrawing(n, p) => \/ Withdrawing(n, p)'
                              \/ \E e \in E : e[2] = n /\ Other(e[1], n) = p
  PROVE  Plot(n, p)'
<1> DEFINE fr == RemoveFrames(E)
<1>1. FrameMap(fr) /\ Plain(fr)
  BY RemoveFramesOk, PushesArePlain DEF PathsInv, FreshInv, BaseInv
<1>2. Wanted(n, p) => Wanted(n, p)'
  BY DEF Wanted
<1>3. ASSUME NEW c \in Sess, NEW x \in Nat \cup {None}, Talking(n), c = conn[n], Leaves(n, p, x)
      PROVE  IF c \in DOMAIN fr
               THEN \E y \in Nat \cup {None} : Turns(p, x, fr[c], y) /\ Leaves(n, p, y)'
               ELSE Leaves(n, p, x)'
  <2>1. sessions[n] = c /\ Owner(c) = n /\ sessions[n] # None
    BY <1>3, TalkFacts DEF Talking
  <2>2. Leaves(n, p, None)'
    BY DEF Leaves
  <2>3. CASE c \in DOMAIN fr
    <3>1. PICK e \in E :
            /\ e[2] = n
            /\ fr[c] = [type |-> "peer_remove", link |-> e[1].id,
                        wg |-> <<Other(e[1], n), lastWG[Other(e[1], n)]>>]
      BY <2>1, <2>3, RemoveFrameIs
    <3>2. PICK q, g : q = Other(e[1], n) /\ g = lastWG[q]
      OBVIOUS
    <3>3. PICK f : f = [type |-> "peer_remove", link |-> e[1].id, wg |-> <<q, g>>]
      OBVIOUS
    <3>4. f = fr[c]
      BY <3>1, <3>2, <3>3
    <3>5. CASE q = p
      <4>1. Turns(p, x, f, None)
        BY <1>3, <3>2, <3>3, <3>5, TurnsBy DEF Leaves
      <4> QED
        BY <2>2, <2>3, <3>4, <4>1
    <3>6. CASE q # p
      <4>1. Turns(p, x, f, x)
        BY <3>3, <3>6, TurnsBy
      <4>2. Withdrawing(n, p) => Withdrawing(n, p)'
        BY <3>1, <3>2, <3>6
      <4>3. Leaves(n, p, x)'
        BY <1>2, <1>3, <4>2, LeavesKept
      <4> QED
        BY <2>3, <3>4, <4>1, <4>3
    <3> QED
      BY <3>5, <3>6
  <2>4. CASE c \notin DOMAIN fr
    <3>1. CASE \E e \in E : e[2] = n /\ Other(e[1], n) = p
      <4>1. PICK e \in E : e[2] = n /\ Other(e[1], n) = p
        BY <3>1
      <4>2. lastWG[p] = None
        BY <2>1, <2>4, <4>1 DEF RemoveFrames
      <4>3. x = None
        BY <1>3, <4>2 DEF Leaves
      <4> QED
        BY <2>2, <2>4, <4>3
    <3>2. CASE ~\E e \in E : e[2] = n /\ Other(e[1], n) = p
      <4>1. Leaves(n, p, x)'
        BY <1>2, <1>3, <3>2, LeavesKept
      <4> QED
        BY <2>4, <4>1
    <3> QED
      BY <3>1, <3>2
  <2> QED
    BY <2>3, <2>4
<1> HIDE DEF fr
<1>4. Send(fr)
  BY DEF fr
<1> QED
  BY <1>1, <1>3, <1>4, PlotSent

\* removeLinkFromPeers, the cascade of a deletion, and the collection of a
\* node that has been offline for long.
LEMMA WithdrawalPlot ==
  ASSUME PathsInv, NEW n \in Node, NEW p \in Node, Plot(n, p),
         \/ \E t \in todo : RemoveLink(t) \/ DeleteNodeCascade(t)
         \/ \E g \in Node : GcOfflinePeer(g)
  PROVE  Plot(n, p)'
<1>1. ASSUME NEW t \in todo, RemoveLink(t) PROVE Plot(n, p)'
  <2>1. PICK x \in Link : x = t.link
    BY <1>1, RowsOfPaths DEF RemoveLink
  <2>2. PICK E : E = {x} \X x.ends
    OBVIOUS
  <2>3. E \in SUBSET (Link \X Node) /\ \A e, d \in E : e[2] = d[2] => e = d
    BY <2>2 DEF Link, Ends
  <2>4. /\ UNCHANGED <<store, revokedDB, registered, lastWG, phase, conn, dev, pc, exp>>
        /\ Send(RemoveFrames(E)) /\ t.op = "removeLink" /\ todo' = todo \ {t} /\ torn \subseteq torn'
    BY <1>1, <2>1, <2>2 DEF RemoveLink, Continue, dbVars, sessVars, agentVars, wgVars
  <2>5. ASSUME Withdrawing(n, p), ~Withdrawing(n, p)'
        PROVE  \E e \in E : e[2] = n /\ Other(e[1], n) = p
    <3>1. x.ends = {n, p}
      BY <2>1, <2>4, <2>5 DEF Withdrawing
    <3>2. <<x, n>> \in E /\ Other(x, n) = p
      BY <2>2, <3>1, OtherIsEnd
    <3> QED
      BY <3>2
  <2> QED
    BY <2>3, <2>4, <2>5, RemovePlot
<1>2. ASSUME NEW t \in todo, DeleteNodeCascade(t) PROVE Plot(n, p)'
  <2>1. /\ t.links \in SUBSET Link /\ t.node \in Node /\ OnePerPair(t.links)
        /\ \A x \in t.links : t.node \in x.ends
    BY <1>2, RequestFields
       DEF PathsInv, FreshInv, BaseInv, Types, LinksInv, DeleteNodeCascade
  <2>2. PICK E : E = {<<x, Other(x, t.node)>> : x \in t.links}
    OBVIOUS
  <2>3. /\ UNCHANGED <<store, revokedDB, registered, lastWG, phase, conn, dev, pc, exp, torn>>
        /\ Send(RemoveFrames(E)) /\ t.op = "cascade" /\ todo \ {t} \subseteq todo'
    BY <1>2, <2>2 DEF DeleteNodeCascade, Continue, dbVars, sessVars, agentVars, wgVars
  <2>4. ASSUME Withdrawing(n, p), ~Withdrawing(n, p)'
        PROVE  \E e \in E : e[2] = n /\ Other(e[1], n) = p
    <3>1. PICK l \in t.links : t.node = p /\ l.ends = {n, p}
      BY <2>3, <2>4 DEF Withdrawing
    <3>2. Other(l, p) = n /\ Other(l, n) = p
      BY <2>1, <3>1, OtherIsEnd
    <3>3. PICK e : e = <<l, Other(l, t.node)>>
      OBVIOUS
    <3>4. e[1] = l /\ e[2] = n
      BY <3>1, <3>2, <3>3
    <3> QED
      BY <2>2, <3>2, <3>3, <3>4
  <2>5. E \in SUBSET (Link \X Node) /\ \A e, d \in E : e[2] = d[2] => e = d
    BY <2>1, <2>2, WithdrawnOnce
  <2> QED
    BY <2>3, <2>4, <2>5, RemovePlot
<1>3. ASSUME NEW g \in Node, GcOfflinePeer(g) PROVE Plot(n, p)'
  <2>1. /\ LinksOf(g) \in SUBSET Link /\ OnePerPair(LinksOf(g)) /\ \A x \in LinksOf(g) : g \in x.ends
    BY RowsOfPaths DEF PathsInv, FreshInv, BaseInv, LinksInv, OnePerPair, LinksOf
  <2>2. PICK E : E = {<<x, Other(x, g)>> : x \in LinksOf(g)}
    OBVIOUS
  <2>3. /\ UNCHANGED <<store, revokedDB, registered, lastWG, phase, conn, dev, pc, exp, torn, todo>>
        /\ Send(RemoveFrames(E))
    BY <1>3, <2>2 DEF GcOfflinePeer, dbVars, sessVars, agentVars, wgVars
  <2>4. Withdrawing(n, p) => Withdrawing(n, p)'
    BY <2>3 DEF Withdrawing
  <2>5. E \in SUBSET (Link \X Node) /\ \A e, d \in E : e[2] = d[2] => e = d
    BY <2>1, <2>2, WithdrawnOnce
  <2> QED
    BY <2>3, <2>4, <2>5, RemovePlot
<1> QED
  BY <1>1, <1>2, <1>3

\* The kick of a deleted node, and the request to rotate a key.
LEMMA LastFramePlot ==
  ASSUME PathsInv, NEW n \in Node, NEW p \in Node, Plot(n, p),
         (\E t \in todo : DeleteNodeKick(t)) \/ (\E m \in Node : RotateWG(m))
  PROVE  Plot(n, p)'
<1>1. PICK fr : /\ Send(fr) /\ FrameMap(fr) /\ Plain(fr)
                /\ \A c \in DOMAIN fr : fr[c].type \in {"rotate_wg", "kick"}
  <2>1. ASSUME NEW t \in todo, DeleteNodeKick(t)
        PROVE  \E fr : /\ Send(fr) /\ FrameMap(fr) /\ Plain(fr)
                       /\ \A c \in DOMAIN fr : fr[c].type \in {"rotate_wg", "kick"}
    <3>1. PICK fr : fr = [s \in {t.sess} \ {None} |-> [type |-> "kick"]]
      OBVIOUS
    <3>2. FrameMap(fr) /\ Plain(fr) /\ \A c \in DOMAIN fr : fr[c].type \in {"rotate_wg", "kick"}
      BY <3>1, FramesAreFrames DEF FrameMap, Plain
    <3> QED
      BY <2>1, <3>1, <3>2 DEF DeleteNodeKick
  <2>2. ASSUME NEW m \in Node, RotateWG(m)
        PROVE  \E fr : /\ Send(fr) /\ FrameMap(fr) /\ Plain(fr)
                       /\ \A c \in DOMAIN fr : fr[c].type \in {"rotate_wg", "kick"}
    <3>1. PICK fr : fr = [s \in {sessions[m]} |-> [type |-> "rotate_wg"]]
      OBVIOUS
    <3>2. FrameMap(fr) /\ Plain(fr) /\ \A c \in DOMAIN fr : fr[c].type \in {"rotate_wg", "kick"}
      BY <3>1, FramesAreFrames DEF FrameMap, Plain
    <3> QED
      BY <2>2, <3>1, <3>2 DEF RotateWG
  <2> QED
    BY <2>1, <2>2
<1>2. /\ UNCHANGED <<store, revokedDB, lastWG, registered, phase, conn, dev, pc, exp, torn>>
      /\ \A t \in todo : t.op \in {"removeLink", "cascade"} => t \in todo'
  BY DEF DeleteNodeKick, RotateWG, Continue, dbVars, hubVars, sessVars, agentVars, wgVars
<1>3. ASSUME NEW x, Leaves(n, p, x) PROVE Leaves(n, p, x)'
  <2>1. Withdrawing(n, p) => Withdrawing(n, p)'
    BY <1>2, WithdrawingKept
  <2>2. Wanted(n, p) => Wanted(n, p)'
    BY <1>2 DEF Wanted
  <2> QED
    BY <1>2, <1>3, <2>1, <2>2, LeavesKept
<1>4. ASSUME NEW c \in Sess, NEW x \in Nat \cup {None}, c \in DOMAIN fr PROVE Turns(p, x, fr[c], x)
  BY <1>1, <1>4, TurnsBy
<1> QED
  BY <1>1, <1>2, <1>3, <1>4, PlotSent
------------------------------------------------------------------------------
(* A register                                                               *)

\* The register_ack that was to come is sent: the queue is what it was.
LEMMA SendRegisterAckPlot ==
  ASSUME PathsInv, NEW n \in Node, NEW p \in Node, Plot(n, p), NEW s \in Sess, SendRegisterAck(s)
  PROVE  Plot(n, p)'
<1>1. PICK fr : fr = [r \in {s} |-> [type |-> "register_ack", peers |-> exp[s]]]
  OBVIOUS
<1>2. DOMAIN fr = {s} /\ fr[s] = [type |-> "register_ack", peers |-> exp[s]]
  BY <1>1
<1>3. /\ hubSt \in [Sess -> {"none", "checked", "open", "closed"}] /\ out \in [Sess -> Seq(ToAgent)]
      /\ pc \in [Sess -> {"idle", "links", "ack"}]
      /\ exp \in [Sess -> SUBSET PeerSpec] /\ OutCap \in Nat
  BY CapAssumption DEF PathsInv, FreshInv, BaseInv, Types, ChanTypes, SessVarTypes
<1>4. /\ UNCHANGED <<store, lastWG, registered, phase, conn, dev, todo, torn, revokedDB>>
      /\ pc[s] = "ack" /\ pc' = [pc EXCEPT ![s] = "idle"] /\ exp' = [exp EXCEPT ![s] = {}] /\ Send(fr)
  BY <1>1 DEF SendRegisterAck, hubVars, agentVars, wgVars
<1>5. ASSUME Talking(n)'
      PROVE  Talking(n) /\ \A c \in Sess : c = conn[n] => Queue(c)' = Queue(c)
  <2>1. conn[n] # None
    BY <1>4, <1>5 DEF Talking
  <2>2. PICK c \in Sess : c = conn[n] /\ Owner(c) = n
    BY <2>1, TalkFacts
  <2>3. hubSt'[c] = "open"
    BY <1>4, <1>5, <2>2 DEF Talking
  <2>4. hubSt[c] = "open" /\ (c = s => ~(Len(out[c]) >= OutCap))
    BY <1>2, <1>3, <1>4, <2>3 DEF Send, OverflowClosed
  <2>5. Queue(c)' = Queue(c)
    <3>1. CASE c = s
      <4>1. out'[c] = Append(out[c], fr[c])
        <5>1. Len(out[c]) \in Nat
          BY <1>3
        <5>2. Len(out[c]) < OutCap
          BY <1>3, <2>4, <3>1, <5>1
        <5>3. c \in DOMAIN fr /\ out' = Queued(fr)
          BY <1>2, <1>4, <3>1 DEF Send
        <5> QED
          BY <2>2, <2>4, <5>2, <5>3 DEF Queued
      <4> QED
        BY <1>2, <1>3, <1>4, <3>1, <4>1 DEF Queue
    <3>2. CASE c # s
      <4>1. out'[c] = out[c] /\ pc'[c] = pc[c] /\ exp'[c] = exp[c]
        BY <1>2, <1>3, <1>4, <3>2 DEF Send, Queued
      <4> QED
        BY <4>1 DEF Queue
    <3> QED
      BY <3>1, <3>2
  <2>6. Talking(n)
    BY <1>4, <1>5, <2>2, <2>4, <2>5, NoneIsNoSession DEF Talking
  <2> QED
    BY <2>2, <2>5, <2>6
<1>6. \A x \in Nat \cup {None} : Leaves(n, p, x) => Leaves(n, p, x)'
  <2>1. UNCHANGED <<lastWG, revokedDB, store, todo>>
    BY <1>4
  <2> QED
    BY <2>1 DEF Leaves, Wanted, Withdrawing
<1> QED
  BY <1>4, <1>5, <1>6, PlotKept

\* A pair that a register does not tear, of a row it has listed or that gives
\* it another key, is in the table or still to be withdrawn.
LEMMA ListedIsWanted ==
  ASSUME PathsInv, NEW s \in Sess, HandleRegister(s), NEW n \in Node, NEW p \in Node,
         {n, p} \notin torn', NEW y \in snap[s], y.ends = {n, p}, p \notin revokedDB
  PROVE  (Wanted(n, p) \/ Withdrawing(n, p))'
<1>1. UNCHANGED <<store, revokedDB, todo>> /\ torn' = torn \cup TornByRegister(s)
  BY DEF HandleRegister, dbVars
<1>2. CASE y \in store
  BY <1>1, <1>2 DEF Wanted
<1>3. CASE y \notin store
  <2>1. \E q \in Pending : q.id = y.id
    <3>1. ASSUME \A q \in Pending : q.id # y.id PROVE y.ends \in TornByRegister(s)
      BY <1>3, <3>1 DEF TornByRegister
    <3> QED
      BY <1>1, <3>1
  <2>2. PICK t \in todo : /\ t.op = "removeLink" \/ (t.op \in {"pushLink", "pushExit"} /\ t.link \in store)
                          /\ t.link.id = y.id
    BY <2>1 DEF Pending
  <2>3. t.link.ends = {n, p}
    BY <2>2, RowsOfPaths, SameId
  <2>4. CASE t.op = "removeLink"
    BY <1>1, <2>3, <2>4 DEF Withdrawing
  <2>5. CASE t.op # "removeLink"
    BY <1>1, <2>2, <2>3, <2>5 DEF Wanted
  <2> QED
    BY <2>4, <2>5
<1> QED
  BY <1>2, <1>3

\* The register of n itself: its register_ack, the one frame that is to come,
\* names the registered key of a peer with a link, and no other.
LEMMA OwnRegisterPlot ==
  ASSUME PathsInv, NEW s \in Sess, HandleRegister(s), NEW n \in Node, NEW p \in Node, conn[n] = s
  PROVE  Plot(n, p)'
<1> SUFFICES ASSUME Talking(n)', {n, p} \notin torn' PROVE Plot(n, p)'
  BY DEF Plot
<1>1. Owner(s) = n /\ conn'[n] = s
  BY NoneIsNoSession, TalkFacts DEF HandleRegister, agentVars
<1>2. /\ lastWG \in [Node -> Nat \cup {None}] /\ pc \in [Sess -> {"idle", "links", "ack"}]
      /\ exp \in [Sess -> SUBSET PeerSpec] /\ out \in [Sess -> Seq(ToAgent)]
  BY DEF PathsInv, FreshInv, BaseInv, Types, ChanTypes, SessVarTypes, HubTypes, Gen
<1>3. PICK E : E = {SpecOf(x, Other(x, n), lastWG[Other(x, n)]) : x \in Expected(s)}
  OBVIOUS
<1>4. /\ UNCHANGED <<revokedDB, phase>> /\ pc[s] = "links"
      /\ lastWG' = [lastWG EXCEPT ![n] = reg[s]]
      /\ pc' = [pc EXCEPT ![s] = "ack"] /\ exp' = [exp EXCEPT ![s] = E] /\ Send(RegisterFrames(s))
  BY <1>1, <1>3 DEF HandleRegister, RegisteredKey, dbVars, agentVars
<1>5. \A x \in Expected(s) : /\ x \in snap[s] /\ x \in Link /\ n \in x.ends /\ Ready(Other(x, n))
                             /\ Other(x, n) \in Node /\ Other(x, n) # n
                             /\ x.ends = {n, Other(x, n)} /\ lastWG[Other(x, n)] \in Nat
  <2> SUFFICES ASSUME NEW x \in Expected(s)
               PROVE  /\ x \in snap[s] /\ x \in Link /\ n \in x.ends /\ Ready(Other(x, n))
                      /\ Other(x, n) \in Node /\ Other(x, n) # n
                      /\ x.ends = {n, Other(x, n)} /\ lastWG[Other(x, n)] \in Nat
    OBVIOUS
  <2>1. x \in snap[s] /\ x \in Link /\ n \in x.ends /\ Ready(Other(x, n))
    BY <1>1, RowsOfPaths DEF Expected, PathsInv, PathInv, SnapInv
  <2>2. Other(x, n) \in Node /\ Other(x, n) # n /\ x.ends = {n, Other(x, n)}
    BY <2>1, OtherIsEnd, PairOfEnds
  <2> QED
    BY <1>2, <2>1, <2>2 DEF Ready
<1>6. s \notin DOMAIN RegisterFrames(s)
  BY <1>1, <1>5, RegisterFrameIs
<1>7. out'[s] = out[s] /\ pc'[s] = "ack" /\ exp'[s] = E
  BY <1>2, <1>4, <1>6 DEF Send, Queued
<1>8. E \in SUBSET PeerSpec
  <2>1. \A x \in Expected(s) : SpecOf(x, Other(x, n), lastWG[Other(x, n)]) \in PeerSpec
    BY <1>5, SpecIsSpec DEF Gen
  <2> QED
    BY <1>3, <2>1
<1>9. PICK f \in ToAgent : f = [type |-> "register_ack", peers |-> E]
  BY <1>8, FramesAreFrames
<1>10. phase[n] = "registering" /\ Acks(s) = {}
  BY <1>1, <1>4 DEF PathsInv, PathInv, OnceInv, WaitOk
<1>11. Queue(s)' = Append(out[s], f)
  BY <1>7, <1>9 DEF Queue
<1>12. Queue(s)' = <<f>>
  <2>1. PICK q \in Seq(ToAgent) : q = out[s]
    BY <1>2
  <2>2. Head(Append(q, f)).type = "register_ack"
    BY <1>1, <1>4, <1>10, <1>11, <2>1 DEF Talking
  <2>3. ASSUME q # <<>> PROVE FALSE
    <3>1. /\ Len(q) \in Nat /\ 1 \in 1 .. Len(q) /\ Head(q) = q[1]
          /\ Append(q, f) \in Seq(ToAgent) /\ Append(q, f) # <<>> /\ Append(q, f)[1] = q[1]
      BY <2>3, AppendProperties, HeadTailProperties
    <3>2. Head(Append(q, f)) = q[1]
      BY <3>1, HeadTailProperties
    <3>3. q[1] \in Range(q)
      BY <3>1, RangeOfQueue
    <3> QED
      BY <1>10, <2>1, <2>2, <3>2, <3>3 DEF Acks
  <2>4. Append(<<>>, f) = <<f>>
    OBVIOUS
  <2> QED
    BY <1>11, <2>1, <2>3, <2>4
<1>13. PICK b \in Nat \cup {None} : Turns(p, None, f, b) /\ Leaves(n, p, b)'
  <2>1. CASE p \notin revokedDB /\ \E y \in Expected(s) : Other(y, n) = p
    <3>1. PICK y \in Expected(s) : Other(y, n) = p
      BY <2>1
    <3>2. PICK b \in Nat : b = lastWG[p]
      BY <1>5, <3>1
    <3>3. PICK sp : sp = SpecOf(y, p, b)
      OBVIOUS
    <3>4. sp \in E /\ sp.peer = p /\ sp.valid /\ sp.gen = b
      BY <1>3, <2>1, <3>1, <3>2, <3>3 DEF SpecOf
    <3>5. \A d \in E : d.peer = p => d.gen = b
      BY <1>3, <3>2 DEF SpecOf
    <3>6. b # None
      BY NoneAssumption
    <3>7. Turns(p, None, f, b)
      BY <1>9, <3>4, <3>5, <3>6 DEF Turns, Sets, Drops, Only
    <3>8. (Wanted(n, p) \/ Withdrawing(n, p))'
      BY <1>5, <2>1, <3>1, ListedIsWanted
    <3>9. lastWG'[p] = b
      BY <1>2, <1>4, <1>5, <3>1, <3>2
    <3> QED
      BY <3>7, <3>8, <3>9 DEF Leaves
  <2>2. CASE ~(p \notin revokedDB /\ \E y \in Expected(s) : Other(y, n) = p)
    <3>1. \A d \in E : d.peer = p => ~d.valid
      <4>1. ASSUME NEW x \in Expected(s), Other(x, n) = p PROVE p \in revokedDB
        BY <2>2, <4>1
      <4>2. ASSUME NEW d \in E, d.peer = p PROVE ~d.valid
        <5>1. PICK x \in Expected(s) : d = SpecOf(x, Other(x, n), lastWG[Other(x, n)])
          BY <1>3
        <5>2. PICK o, g : o = Other(x, n) /\ d = SpecOf(x, o, g)
          BY <5>1
        <5>3. o = p /\ d.valid = (p \notin revokedDB)
          BY <4>2, <5>2 DEF SpecOf
        <5> QED
          BY <4>1, <5>2, <5>3
      <4> QED
        BY <4>2
    <3>2. Turns(p, None, f, None)
      BY <1>9, <3>1 DEF Turns, Sets, Drops, Only
    <3> QED
      BY <3>2 DEF Leaves
  <2> QED
    BY <2>1, <2>2
<1>14. PICK h : Chain(p, <<f>>, h) /\ h[Len(<<f>>)] = b
  BY <1>13, ChainOfOne
<1>15. PICK a : a = h[0]
  OBVIOUS
<1>16. Starts(n, p, a)'
  BY <1>4, <1>10 DEF Starts
<1> QED
  BY <1>1, <1>12, <1>13, <1>14, <1>15, <1>16 DEF Plot

\* Nobody is linked to itself.
LEMMA NotItself ==
  ASSUME PathsInv, NEW n \in Node
  PROVE  ~Wanted(n, n) /\ ~Withdrawing(n, n)
<1>1. \A l \in Link : l.ends # {n, n}
  BY OtherIsEnd
<1> QED
  BY <1>1, RowsOfPaths DEF Wanted, Withdrawing

\* The register of p with another key than the hub's tears what is withdrawn,
\* and what it has not listed.
LEMMA RekeyTears ==
  ASSUME PathsInv, NEW s \in Sess, HandleRegister(s), NEW n \in Node, NEW p \in Node, Owner(s) = p,
         {n, p} \notin torn', lastWG[p] \notin {None, reg[s]}
  PROVE  ~Withdrawing(n, p) /\ \A l \in store : l.ends = {n, p} => l \in snap[s]
<1>1. torn' = torn \cup TornByRegister(s)
  BY DEF HandleRegister
<1>2. ASSUME Withdrawing(n, p) PROVE FALSE
  <2>1. PICK l \in Withdrawn : l.ends = {n, p}
    <3>1. PICK t \in todo : \/ t.op = "removeLink" /\ t.link.ends = {n, p}
                            \/ t.op = "cascade" /\ \E l \in t.links : l.ends = {n, p}
      BY <1>2 DEF Withdrawing
    <3> QED
      BY <3>1 DEF Withdrawn
  <2>2. {n, p} \in TornByRegister(s)
    BY <2>1 DEF TornByRegister
  <2> QED
    BY <1>1, <2>2
<1>3. ASSUME NEW l \in store, l.ends = {n, p}, l \notin snap[s] PROVE FALSE
  <2>1. l \in LinksOf(p) \ snap[s]
    BY <1>3 DEF LinksOf
  <2>2. {n, p} \in TornByRegister(s)
    BY <1>3, <2>1 DEF TornByRegister
  <2> QED
    BY <1>1, <2>2
<1> QED
  BY <1>2, <1>3

\* What a spec says of the peer.
LEMMA SpecFields ==
  ASSUME NEW l, NEW o, NEW g
  PROVE  /\ SpecOf(l, o, g).peer = o /\ SpecOf(l, o, g).gen = g
         /\ (SpecOf(l, o, g).valid <=> o \notin revokedDB)
BY DEF SpecOf

\* The register of a peer reaches n as a peer_update, or concerns nobody that
\* n has a key of.
LEMMA OtherRegisterPlot ==
  ASSUME PathsInv, NEW s \in Sess, HandleRegister(s), NEW n \in Node, NEW p \in Node, Plot(n, p),
         conn[n] # s
  PROVE  Plot(n, p)'
<1>1. PICK m \in Node : m = Owner(s)
  BY OwnerIsNode
<1>2. /\ lastWG \in [Node -> Nat \cup {None}] /\ registered \in [Sess -> BOOLEAN]
      /\ pc \in [Sess -> {"idle", "links", "ack"}] /\ exp \in [Sess -> SUBSET PeerSpec]
      /\ reg \in [Sess -> Nat]
  BY DEF PathsInv, FreshInv, BaseInv, Types, ChanTypes, SessVarTypes, HubTypes, Gen
<1>3. PICK fr, g : fr = RegisterFrames(s) /\ g = reg[s]
  OBVIOUS
<1>4. FrameMap(fr) /\ Plain(fr)
  BY <1>3, RegisterFramesOk, PushesArePlain DEF PathsInv, FreshInv, BaseInv
<1>5. PICK E : exp' = [exp EXCEPT ![s] = E]
  BY DEF HandleRegister
<1>6. /\ UNCHANGED <<store, revokedDB, todo, phase, conn, dev>> /\ torn \subseteq torn'
      /\ lastWG' = [lastWG EXCEPT ![m] = g] /\ registered' = [registered EXCEPT ![s] = TRUE]
      /\ pc' = [pc EXCEPT ![s] = "ack"] /\ Send(fr)
  BY <1>1, <1>3 DEF HandleRegister, RegisteredKey, dbVars, agentVars, wgVars
<1>7. \A c \in Sess : c = conn[n] => pc'[c] = pc[c] /\ exp'[c] = exp[c] /\ registered'[c] = registered[c]
  BY <1>2, <1>5, <1>6
<1>8. (Wanted(n, p) => Wanted(n, p)') /\ (Withdrawing(n, p) => Withdrawing(n, p)')
  BY <1>6 DEF Wanted, Withdrawing
<1>9. ASSUME NEW c \in Sess, NEW x \in Nat \cup {None}, Talking(n), {n, p} \notin torn', c = conn[n],
             Leaves(n, p, x)
      PROVE  IF c \in DOMAIN fr
               THEN \E y \in Nat \cup {None} : Turns(p, x, fr[c], y) /\ Leaves(n, p, y)'
               ELSE Leaves(n, p, x)'
  <2>1. Owner(c) = n /\ sessions[n] = c /\ Ready(n)
    BY <1>9, TalkFacts DEF Talking
  <2>2. ASSUME c \in DOMAIN fr
        PROVE  \E z \in Expected(s) : /\ z \in snap[s] /\ z.ends = {n, m} /\ n # m
                                      /\ fr[c] = [type |-> "peer_update", spec |-> SpecOf(z, m, g)]
    <3>1. PICK z \in Expected(s) : /\ n = Other(z, m)
                                   /\ fr[c] = [type |-> "peer_update", spec |-> SpecOf(z, m, g)]
      BY <1>1, <1>3, <2>1, <2>2, RegisterFrameIs
    <3>2. z \in snap[s] /\ z \in Link /\ m \in z.ends
      BY <1>1, RowsOfPaths DEF Expected, PathsInv, PathInv, SnapInv
    <3>3. z.ends = {m, n} /\ n # m
      BY <3>1, <3>2, PairOfEnds, OtherIsEnd
    <3> QED
      BY <3>1, <3>2, <3>3
  <2>3. CASE m # p
    <3>1. lastWG'[p] = lastWG[p]
      BY <1>2, <1>6, <2>3
    <3>2. Leaves(n, p, x)'
      BY <1>8, <1>9, <3>1, LeavesKept
    <3>3. ASSUME c \in DOMAIN fr PROVE Turns(p, x, fr[c], x)
      <4>1. PICK z \in Expected(s) : fr[c] = [type |-> "peer_update", spec |-> SpecOf(z, m, g)]
        BY <2>2, <3>3
      <4>2. PICK sp : sp = SpecOf(z, m, g)
        OBVIOUS
      <4>3. sp.peer # p
        BY <2>3, <4>2, SpecFields
      <4> QED
        BY <4>1, <4>2, <4>3, TurnsBy
    <3> QED
      BY <3>2, <3>3
  <2>4. CASE m = p /\ n = p
    <3>1. x = None /\ c \notin DOMAIN fr
      BY <1>9, <2>2, <2>4, NotItself DEF Leaves
    <3> QED
      BY <3>1 DEF Leaves
  <2>5. CASE m = p /\ n # p
    <3>1. lastWG'[p] = g /\ g \in Nat
      BY <1>2, <1>3, <1>6, <2>5
    <3>2. CASE x \in {None, g}
      <4>1. Leaves(n, p, x)'
        BY <1>8, <1>9, <3>1, <3>2 DEF Leaves
      <4>2. ASSUME c \in DOMAIN fr
            PROVE  \E y \in Nat \cup {None} : Turns(p, x, fr[c], y) /\ Leaves(n, p, y)'
        <5>1. PICK z \in Expected(s) : /\ z \in snap[s] /\ z.ends = {n, p}
                                       /\ fr[c] = [type |-> "peer_update", spec |-> SpecOf(z, p, g)]
          BY <2>2, <2>5, <4>2
        <5>2. PICK sp : sp = SpecOf(z, p, g)
          OBVIOUS
        <5>5. sp.peer = p /\ sp.gen = g /\ (sp.valid <=> p \notin revokedDB)
          BY <5>2, SpecFields
        <5>3. CASE p \in revokedDB
          BY <4>1, <5>1, <5>2, <5>3, <5>5, TurnsBy
        <5>4. CASE p \notin revokedDB
          <6>1. Turns(p, x, fr[c], g)
            BY <5>1, <5>2, <5>4, <5>5, TurnsBy
          <6>2. Leaves(n, p, g)'
            BY <1>9, <3>1, <5>1, <5>4, ListedIsWanted DEF Leaves
          <6> QED
            BY <3>1, <6>1, <6>2
        <5> QED
          BY <5>3, <5>4
      <4> QED
        BY <4>1, <4>2
    <3>3. CASE x \notin {None, g}
      <4>1. lastWG[p] \notin {None, g}
        BY <1>9, <3>3 DEF Leaves
      <4>2. ~Withdrawing(n, p) /\ \A l \in store : l.ends = {n, p} => l \in snap[s]
        BY <1>1, <1>3, <1>9, <2>5, <4>1, RekeyTears
      <4>3. PICK l \in store : p \notin revokedDB /\ l.ends = {n, p} /\ l \in snap[s]
        BY <1>9, <3>3, <4>2 DEF Leaves, Wanted
      <4>4. Other(l, p) = n
        <5>1. l \in Link
          BY RowsOfPaths
        <5>2. Other(l, p) \in l.ends /\ Other(l, p) # p
          BY <5>1, OtherIsEnd
        <5> QED
          BY <4>3, <5>2
      <4>5. l \in Expected(s)
        BY <1>1, <2>1, <2>5, <4>3, <4>4 DEF Expected
      <4>6. c \in DOMAIN fr
        BY <1>1, <1>3, <2>1, <2>5, <4>4, <4>5 DEF RegisterFrames
      <4>7. PICK z \in Expected(s) : /\ z \in snap[s] /\ z.ends = {n, p}
                                     /\ fr[c] = [type |-> "peer_update", spec |-> SpecOf(z, p, g)]
        BY <2>2, <2>5, <4>6
      <4>8. PICK sp : sp = SpecOf(z, p, g)
        OBVIOUS
      <4>9. sp.peer = p /\ sp.gen = g /\ sp.valid
        BY <4>3, <4>8, SpecFields
      <4>11. Turns(p, x, fr[c], g)
        BY <4>7, <4>8, <4>9, TurnsBy
      <4>10. Leaves(n, p, g)'
        BY <1>9, <3>1, <4>3, <4>7, ListedIsWanted DEF Leaves
      <4> QED
        BY <3>1, <4>6, <4>10, <4>11
    <3> QED
      BY <3>2, <3>3
  <2> QED
    BY <2>3, <2>4, <2>5
<1>10. revokedDB \subseteq revokedDB'
  BY <1>6
<1> QED
  BY <1>4, <1>6, <1>7, <1>9, <1>10, PlotSent

\* A push gives both ends of a link that is in the table, or about to be
\* withdrawn, the other end's key.
LEMMA PushLinkPlot ==
  ASSUME PathsInv, NEW n \in Node, NEW p \in Node, Plot(n, p), NEW t \in todo, PushLink(t)
  PROVE  Plot(n, p)'
<1>1. PICK l \in Link : l = t.link /\ l \in Rows
  BY RowsOfPaths DEF PushLink
<1>2. PICK typ \in {"peer_add", "peer_update"} : Send(PairFrames(l, typ))
  BY <1>1 DEF PushLink
<1>3. PICK fr : fr = PairFrames(l, typ)
  OBVIOUS
<1>4. /\ UNCHANGED <<store, registered, lastWG, phase, conn, dev, pc, exp, revokedDB>>
      /\ torn' = torn \cup TornByPush(t) /\ todo' = todo \ {t}
      /\ t.op \in {"pushLink", "pushExit"}
  BY DEF PushLink, Continue, dbVars, sessVars, agentVars, wgVars
<1>5. FrameMap(fr) /\ Plain(fr)
  BY <1>3, PairFramesOk, PushesArePlain DEF PathsInv, FreshInv, BaseInv
<1>6. Withdrawing(n, p) => Withdrawing(n, p)'
  <2>1. \A u \in todo : u.op \in {"removeLink", "cascade"} => u \in todo'
    BY <1>4
  <2> QED
    BY <2>1, WithdrawingKept
<1>7. Wanted(n, p) => Wanted(n, p)'
  BY <1>4 DEF Wanted
<1>8. ASSUME {n, p} \notin torn', l.ends = {n, p}, p \notin revokedDB
      PROVE  (Wanted(n, p) \/ Withdrawing(n, p))'
  <2>1. CASE l \in store
    BY <1>4, <1>8, <2>1 DEF Wanted
  <2>2. CASE l \notin store
    <3>1. PICK u \in todo \ {t} : /\ u.link.id = l.id
                                  /\ u.op = "removeLink" \/ (u.op = "pushExit" /\ u.link \in store)
      <4>1. {n, p} \notin TornByPush(t)
        BY <1>4, <1>8
      <4> QED
        BY <1>1, <1>8, <2>2, <4>1 DEF TornByPush
    <3>2. u.link.ends = {n, p}
      BY <1>1, <1>8, <3>1, RowsOfPaths, SameId
    <3>3. CASE u.op = "removeLink"
      BY <1>4, <3>2, <3>3 DEF Withdrawing
    <3>4. CASE u.op # "removeLink"
      BY <1>4, <1>8, <3>1, <3>2, <3>4 DEF Wanted
    <3> QED
      BY <3>3, <3>4
  <2> QED
    BY <2>1, <2>2
<1>9. ASSUME NEW c \in Sess, NEW x \in Nat \cup {None}, Talking(n), {n, p} \notin torn', c = conn[n],
             Leaves(n, p, x)
      PROVE  IF c \in DOMAIN fr
               THEN \E y \in Nat \cup {None} : Turns(p, x, fr[c], y) /\ Leaves(n, p, y)'
               ELSE Leaves(n, p, x)'
  <2>1. Owner(c) = n
    BY <1>9, TalkFacts DEF Talking
  <2>2. Leaves(n, p, x)'
    BY <1>4, <1>6, <1>7, <1>9, LeavesKept
  <2>3. ASSUME c \in DOMAIN fr
        PROVE  \E y \in Nat \cup {None} : Turns(p, x, fr[c], y) /\ Leaves(n, p, y)'
    <3>1. PICK q, g : q = Other(l, n) /\ g = lastWG[q]
      OBVIOUS
    <3>2. PICK sp : sp = SpecOf(l, q, g)
      OBVIOUS
    <3>3. n \in l.ends /\ fr[c] = [type |-> typ, spec |-> sp]
      BY <1>3, <2>1, <2>3, <3>1, <3>2, PairFrameIs
    <3>4. sp.peer = q /\ sp.gen = g /\ (sp.valid <=> q \notin revokedDB)
      BY <3>2, SpecFields
    <3>5. CASE q # p \/ p \in revokedDB
      <4>1. Turns(p, x, fr[c], x)
        BY <3>3, <3>4, <3>5, TurnsBy
      <4> QED
        BY <2>2, <4>1
    <3>6. CASE q = p /\ p \notin revokedDB
      <4>1. l.ends = {n, p}
        BY <3>1, <3>3, <3>6, PairOfEnds
      <4>2. g \in Nat
        <5>1. DOMAIN <<>> = {}
          OBVIOUS
        <5>2. Ready(p)
          BY <1>3, <2>3, <4>1, <5>1 DEF PairFrames
        <5> QED
          BY <3>1, <3>6, <5>2 DEF Ready, PathsInv, FreshInv, BaseInv, Types, HubTypes, Gen
      <4>3. x \in {None, g}
        BY <1>9, <3>1, <3>6 DEF Leaves
      <4>4. Turns(p, x, fr[c], g)
        BY <3>3, <3>4, <3>6, <4>3, TurnsBy
      <4>5. lastWG'[p] = g
        BY <1>4, <3>1, <3>6
      <4>6. Leaves(n, p, g)'
        BY <1>8, <1>9, <3>6, <4>1, <4>5 DEF Leaves
      <4> QED
        BY <4>2, <4>4, <4>6
    <3> QED
      BY <3>5, <3>6
  <2> QED
    BY <2>2, <2>3
<1>10. Send(fr) /\ revokedDB \subseteq revokedDB' /\ torn \subseteq torn'
  BY <1>2, <1>3, <1>4
<1> QED
  BY <1>4, <1>5, <1>9, <1>10, PlotSent
------------------------------------------------------------------------------
(* Agents and chains                                                        *)

\* Steps of another agent.
LEMMA OtherAgentPlot ==
  ASSUME PathsInv, NEW n \in Node, NEW p \in Node, Plot(n, p), NEW m \in Node, m # n,
         \/ AgentStep(m) \/ LoseConn(m) \/ RegisterFails(m) \/ ApplyPeerFails(m) \/ AgentRestart(m)
  PROVE  Plot(n, p)'
<1>1. /\ UNCHANGED <<store, revokedDB, sessions, lastWG, todo, registered, pc, exp>>
      /\ torn \subseteq torn'
  BY AgentsKeep
<1>2. ASSUME Talking(n)'
      PROVE  /\ Talking(n) /\ conn'[n] = conn[n] /\ phase'[n] = phase[n] /\ dev'[n] = dev[n]
             /\ \A c \in Sess : c = conn[n] => Queue(c)' = Queue(c)
  <2>1. conn[n] # None
    <3>1. conn \in [Node -> Sess \cup {None}]
      BY DEF PathsInv, FreshInv, BaseInv, Types, ConnTypes
    <3>2. ASSUME conn[n] = None PROVE conn'[n] = None
      BY <3>1, <3>2
         DEF AgentStep, Connect, RegisterAck, ApplyPeer, ApplyRemove, ApplyRotate, ApplyKick, LoseConn,
             RegisterFails, ApplyPeerFails, AgentRestart, Hangup, Consume
    <3> QED
      BY <1>2, <3>2 DEF Talking
  <2>2. PICK c \in Sess : c = conn[n]
    BY <2>1, TalkFacts
  <2>3. /\ conn'[n] = conn[n] /\ phase'[n] = phase[n] /\ dev'[n] = dev[n]
        /\ out'[c] = out[c] /\ hubSt'[c] = hubSt[c]
    BY <2>2, AgentsAreApart
  <2>4. Queue(c)' = Queue(c)
    BY <1>1, <2>3 DEF Queue
  <2>5. Talking(n)
    BY <1>1, <1>2, <2>2, <2>3, <2>4, NoneIsNoSession DEF Talking
  <2> QED
    BY <2>2, <2>3, <2>4, <2>5
<1>3. \A x \in Nat \cup {None} : Leaves(n, p, x) => Leaves(n, p, x)'
  BY <1>1 DEF Leaves, Wanted, Withdrawing
<1> QED
  BY <1>1, <1>2, <1>3, PlotKept

\* The agent leaves its connection, or starts one that the hub does not read
\* yet; the hub stops.
LEMMA LeavingPlot ==
  ASSUME PathsInv, NEW n \in Node, NEW p \in Node,
         \/ \E s \in Sess : Connect(n, s)
         \/ ApplyRotate(n) \/ ApplyKick(n) \/ LoseConn(n) \/ RegisterFails(n) \/ AgentRestart(n)
         \/ HubRestart
  PROVE  Plot(n, p)'
<1>1. /\ conn \in [Node -> Sess \cup {None}]
      /\ hubSt \in [Sess -> {"none", "checked", "open", "closed"}]
  BY DEF PathsInv, FreshInv, BaseInv, Types, ConnTypes, ChanTypes
<1>2. ASSUME NEW s \in Sess, Connect(n, s) PROVE ~Talking(n)'
  <2>1. conn'[n] = s /\ hubSt'[s] # "open"
    BY <1>1, <1>2 DEF Connect, HandleConn
  <2> QED
    BY <2>1 DEF Talking
<1>3. CASE ApplyRotate(n) \/ ApplyKick(n) \/ LoseConn(n) \/ RegisterFails(n) \/ AgentRestart(n)
  <2>1. conn'[n] = None
    BY <1>1, <1>3 DEF ApplyRotate, ApplyKick, LoseConn, RegisterFails, AgentRestart, Hangup
  <2> QED
    BY <2>1 DEF Plot, Talking
<1>4. ASSUME HubRestart PROVE ~Talking(n)'
  <2>1. conn' = conn /\ hubSt' = [s \in Sess |-> "none"]
    BY <1>4 DEF HubRestart, agentVars
  <2> QED
    BY <1>1, <2>1 DEF Talking
<1> QED
  BY <1>2, <1>3, <1>4 DEF Plot

\* A device has the key a of p and no other, or none.
Holds(d, p, a) == /\ \A k \in Key : k[1] = p => (k \in d.peers <=> k[2] = a)
                  /\ a # None => d.keys[p] = a

LEMMA HoldsIs ==
  ASSUME NEW d \in Device, NEW p \in Node, NEW a \in Nat \cup {None}
  PROVE  Holds(d, p, a) <=> /\ {k[2] : k \in {x \in d.peers : x[1] = p}} = Only(a)
                            /\ a # None => d.keys[p] = a
<1>1. PICK P : P = d.peers /\ P \subseteq Key
  BY DEF Device
<1>2. PICK H : H = {k[2] : k \in {x \in P : x[1] = p}}
  OBVIOUS
<1>3. \A k \in Key : k[2] \in Nat /\ k[2] # None
  BY NoneAssumption DEF Key, Gen
<1>4. ASSUME H = Only(a), NEW k \in Key, k[1] = p PROVE k \in P <=> k[2] = a
  <2>1. ASSUME k \in P PROVE k[2] = a
    BY <1>2, <1>4, <2>1 DEF Only
  <2>2. ASSUME k[2] = a PROVE k \in P
    <3>1. a \in H
      BY <1>3, <1>4, <2>2 DEF Only
    <3>2. PICK j \in P : j[1] = p /\ j[2] = a
      BY <1>2, <3>1
    <3>3. j = k
      BY <1>1, <1>4, <2>2, <3>2 DEF Key
    <3> QED
      BY <3>2, <3>3
  <2> QED
    BY <2>1, <2>2
<1>5. ASSUME \A k \in Key : k[1] = p => (k \in P <=> k[2] = a) PROVE H = Only(a)
  <2>1. ASSUME NEW g \in H PROVE g \in Only(a)
    <3>1. PICK k \in P : k[1] = p /\ g = k[2]
      BY <1>2
    <3> QED
      BY <1>1, <1>3, <1>5, <3>1 DEF Only
  <2>2. ASSUME NEW g \in Only(a) PROVE g \in H
    <3>1. g = a /\ a \in Nat
      BY DEF Only
    <3>2. PICK k : k = <<p, a>>
      OBVIOUS
    <3>3. k \in Key /\ k[1] = p /\ k[2] = a
      BY <3>1, <3>2 DEF Key, Gen
    <3>4. k \in {x \in P : x[1] = p}
      BY <1>5, <3>3
    <3> QED
      BY <1>2, <3>1, <3>3, <3>4
  <2> QED
    BY <2>1, <2>2
<1>6. H = Only(a) <=> \A k \in Key : k[1] = p => (k \in P <=> k[2] = a)
  BY <1>4, <1>5
<1> QED
  BY <1>1, <1>2, <1>6 DEF Holds

\* The operations of a device.
LEMMA RemoveHolds ==
  ASSUME NEW d \in Device, NEW p \in Node, NEW a \in Nat \cup {None}, Holds(d, p, a), NEW j \in Key
  PROVE  /\ j[1] # p => Holds(RemovePeer(d, j), p, a)
         /\ j[1] = p => Holds(RemovePeer(d, j), p, IF a = j[2] THEN None ELSE a)
<1>1. PICK e : e = RemovePeer(d, j)
  OBVIOUS
<1>2. e.peers = d.peers \ {j}
  BY <1>1 DEF RemovePeer
<1>3. \A q \in Node : q # j[1] \/ d.keys[q] # j[2] => e.keys[q] = d.keys[q]
  <2>1. e.keys = d.keys \/ (e.keys = [d.keys EXCEPT ![j[1]] = None] /\ d.keys[j[1]] = j[2])
    BY <1>1 DEF RemovePeer
  <2>2. d.keys \in [Node -> Gen \cup {None}]
    BY DEF Device
  <2> QED
    BY <2>1, <2>2
<1>4. CASE j[1] # p
  BY <1>1, <1>2, <1>3, <1>4 DEF Holds
<1>5. CASE j[1] = p /\ a # j[2]
  BY <1>1, <1>2, <1>3, <1>5 DEF Holds
<1>6. CASE j[1] = p /\ a = j[2]
  <2>1. \A k \in Key : k[2] # None
    BY NoneAssumption DEF Key, Gen
  <2>2. \A k \in Key : k[1] = p /\ k[2] = a => k = j
    BY <1>6 DEF Key
  <2>3. Holds(e, p, None)
    BY <1>2, <2>1, <2>2 DEF Holds
  <2> QED
    BY <1>1, <1>6, <2>3
<1> QED
  BY <1>4, <1>5, <1>6

LEMMA RemoveType ==
  ASSUME NEW d \in Device, NEW j \in Key
  PROVE  RemovePeer(d, j) \in Device
BY DEF RemovePeer, Device, Key

LEMMA AddHolds ==
  ASSUME NEW d \in Device, NEW p \in Node, NEW a \in Nat \cup {None}, Holds(d, p, a), NEW sp \in PeerSpec
  PROVE  /\ sp.peer # p => Holds(AddPeer(d, sp), p, a)
         /\ sp.peer = p /\ a \in {None, sp.gen} => Holds(AddPeer(d, sp), p, sp.gen)
<1>1. PICK e : e = AddPeer(d, sp)
  OBVIOUS
<1>2. PICK j : j = <<sp.peer, sp.gen>>
  OBVIOUS
<1>3. j[1] = sp.peer /\ j[2] = sp.gen /\ sp.peer \in Node
  BY <1>2 DEF PeerSpec
<1>4. e.peers = d.peers \cup {j}
  BY <1>1, <1>2 DEF AddPeer
<1>5. e.keys = [d.keys EXCEPT ![sp.peer] = sp.gen] /\ d.keys \in [Node -> Gen \cup {None}]
  BY <1>1 DEF AddPeer, Device
<1>6. CASE sp.peer # p
  BY <1>1, <1>3, <1>4, <1>5, <1>6 DEF Holds
<1>7. CASE sp.peer = p /\ a \in {None, sp.gen}
  <2>1. \A k \in Key : k[2] # None
    BY NoneAssumption DEF Key, Gen
  <2>2. \A k \in Key : k[1] = p /\ k[2] = sp.gen => k = j
    BY <1>2, <1>7 DEF Key
  <2>3. \A k \in Key : k[1] = p => (k \in e.peers <=> k[2] = sp.gen)
    BY <1>3, <1>4, <1>7, <2>1, <2>2 DEF Holds
  <2> QED
    BY <1>1, <1>3, <1>5, <1>7, <2>3 DEF Holds
<1> QED
  BY <1>6, <1>7

LEMMA PairIsKey ==
  ASSUME NEW q \in Node, NEW g \in Gen
  PROVE  <<q, g>> \in Key /\ <<q, g>>[1] = q /\ <<q, g>>[2] = g
BY DEF Key

LEMMA UpdateHolds ==
  ASSUME NEW d \in Device, NEW p \in Node, NEW a \in Nat \cup {None}, Holds(d, p, a), NEW sp \in PeerSpec
  PROVE  /\ sp.peer # p => Holds(UpdatePeer(d, sp), p, a)
         /\ sp.peer = p => Holds(UpdatePeer(d, sp), p, sp.gen)
<1>1. PICK old \in Gen \cup {None} : old = d.keys[sp.peer]
  BY DEF Device, PeerSpec
<1>2. CASE old \in {None, sp.gen}
  <2>1. UpdatePeer(d, sp) = AddPeer(d, sp)
    BY <1>1, <1>2 DEF UpdatePeer
  <2>2. sp.peer = p => a \in {None, sp.gen}
    BY <1>1, <1>2 DEF Holds
  <2> QED
    BY <2>1, <2>2, AddHolds
<1>3. CASE old \notin {None, sp.gen}
  <2>0. sp.peer \in Node /\ old \in Gen
    BY <1>1, <1>3 DEF PeerSpec
  <2>1. PICK j \in Key : j = <<sp.peer, old>> /\ j[1] = sp.peer /\ j[2] = old
    BY <2>0, PairIsKey
  <2>2. PICK e \in Device : e = RemovePeer(d, j)
    BY DeviceTypes
  <2>3. UpdatePeer(d, sp) = AddPeer(e, sp)
    BY <1>1, <1>3, <2>1, <2>2 DEF UpdatePeer
  <2>4. sp.peer # p => Holds(e, p, a)
    BY <2>1, <2>2, RemoveHolds
  <2>5. sp.peer = p => Holds(e, p, None)
    <3>1. sp.peer = p => a \in {None, old}
      BY <1>1 DEF Holds
    <3>2. sp.peer = p => Holds(e, p, IF a = old THEN None ELSE a)
      BY <2>1, <2>2, RemoveHolds
    <3> QED
      BY <3>1, <3>2
  <2> QED
    BY <2>2, <2>3, <2>4, <2>5, AddHolds
<1> QED
  BY <1>2, <1>3

LEMMA ReconcileHolds ==
  ASSUME NEW S \in SUBSET PeerSpec, NEW p \in Node, NEW a \in Nat \cup {None},
         Only(a) = {sp.gen : sp \in {x \in S : x.peer = p}}
  PROVE  Holds(Reconcile(S), p, a)
<1>1. PICK e : e = Reconcile(S)
  OBVIOUS
<1>2. ASSUME NEW k \in Key, k[1] = p PROVE k \in e.peers <=> k[2] = a
  <2>1. ASSUME k \in e.peers PROVE k[2] = a
    <3>1. PICK sp \in S : k = <<sp.peer, sp.gen>>
      BY <1>1, <2>1 DEF Reconcile
    <3>2. sp.peer = p /\ sp.gen = k[2]
      BY <1>2, <3>1
    <3>3. k[2] \in Only(a)
      BY <3>2
    <3> QED
      BY <3>3 DEF Only
  <2>2. ASSUME k[2] = a PROVE k \in e.peers
    <3>1. a \in Only(a)
      BY <2>2, NoneAssumption DEF Only, Key, Gen
    <3>2. PICK sp \in S : sp.peer = p /\ sp.gen = a
      BY <3>1
    <3>3. k = <<sp.peer, sp.gen>>
      BY <1>2, <2>2, <3>2 DEF Key
    <3> QED
      BY <1>1, <3>3 DEF Reconcile
  <2> QED
    BY <2>1, <2>2
<1>3. ASSUME a # None PROVE e.keys[p] = a
  <2>1. PICK sp \in S : sp.peer = p
    BY <1>3 DEF Only
  <2>2. PICK c : c = CHOOSE x \in S : x.peer = p
    OBVIOUS
  <2>3. c \in S /\ c.peer = p
    BY <2>1, <2>2
  <2>4. c.gen \in Only(a)
    BY <2>3
  <2>5. e.keys[p] = c.gen
    BY <1>1, <2>1, <2>2 DEF Reconcile
  <2> QED
    BY <2>4, <2>5 DEF Only
<1> QED
  BY <1>1, <1>2, <1>3 DEF Holds

\* A device before and after a frame.
LEMMA HoldsNow ==
  ASSUME NEW n \in Node, NEW p \in Node, NEW a \in Nat \cup {None}, Starts(n, p, a), phase[n] = "up",
         NEW d \in Device, d = dev[n]
  PROVE  Holds(d, p, a)
BY HoldsIs DEF Starts, Held

LEMMA StartsNext ==
  ASSUME NEW n \in Node, NEW p \in Node, NEW a \in Nat \cup {None}, NEW d \in Device, d = dev'[n],
         Holds(d, p, a)
  PROVE  Starts(n, p, a)'
BY HoldsIs DEF Starts, Held

\* dispatch of peer_add and peer_update.
LEMMA ApplyPeerPlot ==
  ASSUME PathsInv, NEW n \in Node, NEW p \in Node, Plot(n, p), ApplyPeer(n)
  PROVE  Plot(n, p)'
<1>1. /\ Types /\ HasFrame(n) /\ phase[n] = "up" /\ Frame(n).type \in {"peer_add", "peer_update"}
  BY DEF PathsInv, FreshInv, BaseInv, ApplyPeer
<1>2. PICK c \in Sess : c = conn[n] /\ pc[c] = "idle"
  BY <1>1, AgentIdle
<1>3. PICK f \in ToAgent : f = Frame(n)
  BY <1>1, FrameType
<1>4. PICK sp \in PeerSpec : sp = f.spec /\ sp.valid
  BY <1>1, <1>3, FrameType DEF ApplyPeer
<1>5. PICK d \in Device : d = dev[n]
  BY <1>1 DEF Types, WgTypes
<1>6. PICK e : e = IF f.type = "peer_add" THEN AddPeer(d, sp) ELSE UpdatePeer(d, sp)
  OBVIOUS
<1>7. dev'[n] = e /\ e \in Device
  <2>1. dev' = [dev EXCEPT ![n] = e] /\ dev \in [Node -> Device]
    BY <1>1, <1>3, <1>4, <1>5, <1>6 DEF ApplyPeer, Types, WgTypes
  <2>2. AddPeer(d, sp) \in Device /\ UpdatePeer(d, sp) \in Device
    <3>1. <<sp.peer, sp.gen>> \in Key
      BY DEF PeerSpec, Key
    <3> QED
      BY <3>1, DeviceTypes
  <2> QED
    BY <1>6, <2>1, <2>2
<1>8. UNCHANGED <<store, hubSt, revokedDB, lastWG, todo, registered, pc, torn>>
  BY DEF ApplyPeer, dbVars, hubVars, sessVars
<1>9. conn'[n] = c /\ phase'[n] = "up" /\ out'[c] = Tail(out[c])
  <2>1. out \in [Sess -> Seq(ToAgent)]
    BY <1>1 DEF Types, ChanTypes
  <2>2. out' = [out EXCEPT ![c] = Tail(@)] /\ UNCHANGED <<phase, conn>>
    BY <1>2 DEF ApplyPeer, Consume
  <2> QED
    BY <1>1, <1>2, <2>1, <2>2
<1>10. ASSUME NEW a \in Nat \cup {None}, NEW b \in Nat \cup {None}, Starts(n, p, a), Turns(p, a, f, b)
       PROVE  Starts(n, p, b)'
  <2>1. Holds(d, p, a)
    BY <1>1, <1>5, <1>10, HoldsNow
  <2>2. Holds(e, p, b)
    <3>1. CASE sp.peer # p
      <4>1. b = a
        BY <1>1, <1>3, <1>4, <1>10, <3>1 DEF Turns, Sets, Drops
      <4> QED
        BY <1>6, <2>1, <3>1, <4>1, AddHolds, UpdateHolds
    <3>2. CASE sp.peer = p
      <4>1. b = sp.gen /\ (f.type = "peer_add" => a \in {None, sp.gen})
        BY <1>1, <1>3, <1>4, <1>10, <3>2 DEF Turns, Sets
      <4> QED
        BY <1>6, <2>1, <3>2, <4>1, AddHolds, UpdateHolds
    <3> QED
      BY <3>1, <3>2
  <2> QED
    BY <1>7, <2>2, StartsNext
<1> QED
  BY <1>1, <1>2, <1>3, <1>8, <1>9, <1>10, PlotTaken

\* A refused peer tears its pair, and touches no other key.
LEMMA ApplyPeerFailsPlot ==
  ASSUME PathsInv, NEW n \in Node, NEW p \in Node, Plot(n, p), ApplyPeerFails(n)
  PROVE  Plot(n, p)'
<1>1. /\ Types /\ HasFrame(n) /\ phase[n] = "up" /\ Frame(n).type \in {"peer_add", "peer_update"}
  BY DEF PathsInv, FreshInv, BaseInv, ApplyPeerFails
<1>2. PICK c \in Sess : c = conn[n] /\ pc[c] = "idle"
  BY <1>1, AgentIdle
<1>3. PICK f \in ToAgent : f = Frame(n)
  BY <1>1, FrameType
<1>4. PICK sp \in PeerSpec : sp = f.spec
  BY <1>1, <1>3, FrameType
<1>5. PICK d \in Device : d = dev[n]
  BY <1>1 DEF Types, WgTypes
<1>6. PICK old \in Gen \cup {None} : old = d.keys[sp.peer]
  BY <1>5 DEF Device, PeerSpec
<1>7. PICK e : e = IF f.type = "peer_update" /\ old \notin {None, sp.gen}
                     THEN RemovePeer(d, <<sp.peer, old>>) ELSE d
  OBVIOUS
<1>8. /\ UNCHANGED <<store, hubSt, revokedDB, lastWG, todo, registered, pc>>
      /\ torn' = torn \cup {{n, sp.peer}} /\ torn \subseteq torn'
  BY <1>3, <1>4 DEF ApplyPeerFails, dbVars, hubVars, sessVars
<1>9. dev'[n] \in {d, e}
  <2>1. \E b \in {d, e} : dev' = [dev EXCEPT ![n] = b]
    BY <1>3, <1>4, <1>5, <1>6, <1>7 DEF ApplyPeerFails
  <2> QED
    BY <1>1, <2>1 DEF Types, WgTypes
<1>10. conn'[n] = c /\ phase'[n] = "up" /\ out'[c] = Tail(out[c])
  <2>1. out \in [Sess -> Seq(ToAgent)]
    BY <1>1 DEF Types, ChanTypes
  <2>2. out' = [out EXCEPT ![c] = Tail(@)] /\ UNCHANGED <<phase, conn>>
    BY <1>2 DEF ApplyPeerFails, Consume
  <2> QED
    BY <1>1, <1>2, <2>1, <2>2
<1>11. ASSUME NEW a \in Nat \cup {None}, NEW b \in Nat \cup {None}, {n, p} \notin torn', Starts(n, p, a),
              Turns(p, a, f, b)
       PROVE  Starts(n, p, b)'
  <2>1. sp.peer # p
    BY <1>8, <1>11
  <2>2. b = a
    BY <1>1, <1>3, <1>4, <1>11, <2>1 DEF Turns, Sets, Drops
  <2>3. Holds(d, p, a)
    BY <1>1, <1>5, <1>11, HoldsNow
  <2>4. e \in Device /\ Holds(e, p, a)
    <3>1. CASE f.type = "peer_update" /\ old \notin {None, sp.gen}
      <4>1. sp.peer \in Node /\ old \in Gen
        BY <1>6, <3>1 DEF PeerSpec
      <4>2. PICK j \in Key : j = <<sp.peer, old>> /\ j[1] = sp.peer
        BY <4>1, PairIsKey
      <4>3. e = RemovePeer(d, j)
        BY <1>7, <3>1, <4>2
      <4> QED
        BY <2>1, <2>3, <4>2, <4>3, RemoveType, RemoveHolds
    <3>2. CASE ~(f.type = "peer_update" /\ old \notin {None, sp.gen})
      BY <1>7, <2>3, <3>2
    <3> QED
      BY <3>1, <3>2
  <2> QED
    BY <1>9, <2>2, <2>3, <2>4, StartsNext
<1> QED
  BY <1>1, <1>2, <1>3, <1>8, <1>10, <1>11, PlotTaken

\* dispatch of peer_remove: the key it names goes, or the pair is torn.
LEMMA ApplyRemovePlot ==
  ASSUME PathsInv, NEW n \in Node, NEW p \in Node, Plot(n, p), ApplyRemove(n)
  PROVE  Plot(n, p)'
<1>1. Types /\ HasFrame(n) /\ phase[n] = "up" /\ Frame(n).type = "peer_remove"
  BY DEF PathsInv, FreshInv, BaseInv, ApplyRemove
<1>2. PICK c \in Sess : c = conn[n] /\ pc[c] = "idle"
  BY <1>1, AgentIdle
<1>3. PICK f \in ToAgent : f = Frame(n) /\ f.type = "peer_remove"
  BY <1>1, FrameType
<1>4. PICK j \in Key : j = f.wg
  BY <1>1, <1>3, FrameType
<1>5. PICK d \in Device : d = dev[n]
  BY <1>1 DEF Types, WgTypes
<1>6. PICK e : e = RemovePeer(d, j)
  OBVIOUS
<1>7. /\ UNCHANGED <<store, hubSt, revokedDB, lastWG, todo, registered, pc, phase, conn>>
      /\ torn \subseteq torn'
  BY DEF ApplyRemove, Consume, dbVars, hubVars, sessVars
<1>8. conn'[n] = c /\ phase'[n] = "up" /\ out'[c] = Tail(out[c])
  <2>1. out \in [Sess -> Seq(ToAgent)]
    BY <1>1 DEF Types, ChanTypes
  <2>2. out' = [out EXCEPT ![c] = Tail(@)]
    BY <1>2 DEF ApplyRemove, Consume
  <2> QED
    BY <1>1, <1>2, <1>7, <2>1, <2>2
<1>9. dev'[n] = e \/ (dev'[n] = d /\ {n, j[1]} \in torn')
  <2>1. \/ dev' = [dev EXCEPT ![n] = e]
        \/ dev' = dev /\ torn' = torn \cup {{n, j[1]}}
    BY <1>3, <1>4, <1>5, <1>6 DEF ApplyRemove
  <2> QED
    BY <1>1, <1>5, <2>1 DEF Types, WgTypes
<1>10. ASSUME NEW a \in Nat \cup {None}, NEW b \in Nat \cup {None}, {n, p} \notin torn', Starts(n, p, a),
              Turns(p, a, f, b)
       PROVE  Starts(n, p, b)'
  <2>1. Holds(d, p, a)
    BY <1>1, <1>5, <1>10, HoldsNow
  <2>2. CASE j[1] # p
    <3>1. b = a
      BY <1>3, <1>4, <1>10, <2>2 DEF Turns, Sets, Drops
    <3>2. e \in Device /\ Holds(e, p, b)
      BY <1>6, <2>1, <2>2, <3>1, RemoveHolds, RemoveType
    <3> QED
      BY <1>9, <2>1, <3>1, <3>2, StartsNext
  <2>3. CASE j[1] = p
    <3>1. b = IF a = j[2] THEN None ELSE a
      BY <1>3, <1>4, <1>10, <2>3 DEF Turns, Drops
    <3>2. e \in Device /\ Holds(e, p, b)
      BY <1>6, <2>1, <2>3, <3>1, RemoveHolds, RemoveType
    <3> QED
      BY <1>9, <1>10, <2>3, <3>2, StartsNext
  <2> QED
    BY <2>2, <2>3
<1> QED
  BY <1>1, <1>2, <1>3, <1>7, <1>8, <1>10, PlotTaken

\* register: the exact peer set of the register_ack.
LEMMA RegisterAckPlot ==
  ASSUME PathsInv, NEW n \in Node, NEW p \in Node, Plot(n, p), RegisterAck(n)
  PROVE  Plot(n, p)'
<1>1. Types /\ HasFrame(n) /\ Frame(n).type = "register_ack"
  BY DEF PathsInv, FreshInv, BaseInv, RegisterAck
<1>2. PICK c \in Sess : c = conn[n] /\ pc[c] = "idle"
  BY <1>1, AgentIdle
<1>3. PICK f \in ToAgent : f = Frame(n) /\ f.type = "register_ack" /\ \A sp \in f.peers : sp.valid
  BY <1>1, FrameType DEF RegisterAck
<1>4. PICK S \in SUBSET PeerSpec : S = f.peers
  BY <1>1, <1>3, FrameType
<1>5. PICK e \in Device : e = Reconcile(S)
  BY ReconcileType
<1>6. dev'[n] = e
  BY <1>1, <1>3, <1>4, <1>5 DEF RegisterAck, Types, WgTypes
<1>7. UNCHANGED <<store, hubSt, revokedDB, lastWG, todo, registered, pc, torn>>
  BY DEF RegisterAck, dbVars, hubVars, sessVars
<1>8. conn'[n] = c /\ phase'[n] = "up" /\ out'[c] = Tail(out[c])
  <2>1. out \in [Sess -> Seq(ToAgent)] /\ phase \in [Node -> {"down", "registering", "up", "gone"}]
    BY <1>1 DEF Types, ChanTypes, ConnTypes
  <2>2. /\ out' = [out EXCEPT ![c] = Tail(@)] /\ UNCHANGED conn
        /\ phase' = [phase EXCEPT ![n] = "up"]
    BY <1>2 DEF RegisterAck
  <2> QED
    BY <1>1, <1>2, <2>1, <2>2
<1>9. ASSUME NEW a \in Nat \cup {None}, NEW b \in Nat \cup {None}, Turns(p, a, f, b)
      PROVE  Starts(n, p, b)'
  <2>1. Only(b) = {sp.gen : sp \in {x \in S : x.peer = p /\ x.valid}}
    BY <1>3, <1>4, <1>9 DEF Turns
  <2>2. {x \in S : x.peer = p /\ x.valid} = {x \in S : x.peer = p}
    BY <1>3, <1>4
  <2>3. Only(b) = {sp.gen : sp \in {x \in S : x.peer = p}}
    BY <2>1, <2>2
  <2>4. Holds(e, p, b)
    BY <1>5, <2>3, ReconcileHolds
  <2> QED
    BY <1>6, <2>4, StartsNext
<1> QED
  BY <1>1, <1>2, <1>3, <1>7, <1>8, <1>9, PlotTaken
------------------------------------------------------------------------------
(* Every queue has its chains                                               *)

\* Initially nobody is connected.
LEMMA PlotInit == Init => PlotInv
  BY DEF Init, PlotInv, Plot, Talking

\* The chains are kept by every step.
LEMMA PlotStep == PathsInv /\ PlotInv /\ [Next]_vars => PlotInv'
<1> SUFFICES ASSUME PathsInv, PlotInv, [Next]_vars, NEW n \in Node, NEW p \in Node
             PROVE  Plot(n, p)'
  BY DEF PlotInv
<1>0. Plot(n, p)
  BY DEF PlotInv
<1>1. ASSUME NEW s \in Sess, SessionStep(s) \/ CloseConn(s) PROVE Plot(n, p)'
  <2>1. CASE HandleRegister(s)
    BY <1>0, <2>1, OwnRegisterPlot, OtherRegisterPlot
  <2>2. CASE RunSession(s) \/ ReadRegister(s) \/ HandleAck(s) \/ CloseConn(s) \/ DropSession(s)
    BY <1>0, <2>2, QuietConnPlot
  <2>3. CASE SendRegisterAck(s)
    BY <1>0, <2>3, SendRegisterAckPlot
  <2> QED
    BY <1>1, <2>1, <2>2, <2>3 DEF SessionStep
<1>2. ASSUME NEW t \in todo, RequestStep(t) PROVE Plot(n, p)'
  <2>1. CASE StoreCreateLink(t) \/ KickClose(t)
    BY <1>0, <2>1, QuietRequestPlot
  <2>2. CASE DeleteNodeTx(t) \/ DeleteNodeForget(t)
    BY <1>0, <2>2, DeleteNodeTxPlot, ForgetPlot
  <2>3. CASE PushLink(t)
    BY <1>0, <2>3, PushLinkPlot
  <2>4. CASE RemoveLink(t) \/ DeleteNodeCascade(t)
    BY <1>0, <2>4, WithdrawalPlot
  <2>5. CASE DeleteNodeKick(t)
    BY <1>0, <2>5, LastFramePlot
  <2> QED
    BY <1>2, <2>1, <2>2, <2>3, <2>4, <2>5 DEF RequestStep
<1>3. ASSUME NEW m \in Node, AgentStep(m) \/ LoseConn(m) \/ RegisterFails(m) PROVE Plot(n, p)'
  <2>1. CASE m # n
    BY <1>0, <1>3, <2>1, OtherAgentPlot
  <2>2. CASE m = n
    BY <1>0, <1>3, <2>2, RegisterAckPlot, ApplyPeerPlot, ApplyRemovePlot, LeavingPlot DEF AgentStep
  <2> QED
    BY <2>1, <2>2
<1>4. CASE AdminStep
  BY <1>0, <1>4, QuietRequestPlot, LastFramePlot DEF AdminStep
<1>5. CASE Fault
  <2>1. CASE HubRestart
    BY <2>1, LeavingPlot
  <2>2. ASSUME NEW m \in Node, AgentRestart(m) \/ ApplyPeerFails(m) PROVE Plot(n, p)'
    <3>1. CASE m # n
      BY <1>0, <2>2, <3>1, OtherAgentPlot
    <3>2. CASE m = n
      BY <1>0, <2>2, <3>2, ApplyPeerFailsPlot, LeavingPlot
    <3> QED
      BY <3>1, <3>2
  <2>3. ASSUME NEW m \in Node, GcOfflinePeer(m) PROVE Plot(n, p)'
    BY <1>0, <2>3, WithdrawalPlot
  <2> QED
    BY <1>5, <2>1, <2>2, <2>3 DEF Fault
<1>6. CASE UNCHANGED vars
  BY <1>0, <1>6, QuietRequestPlot
<1> QED
  BY <1>1, <1>2, <1>3, <1>4, <1>5, <1>6 DEF Next

\* The invariant of this part is one.
LEMMA ChainsInv == Spec => [](PathsInv /\ PlotInv)
<1>1. Init => PathsInv /\ PlotInv
  BY PathsInit, PlotInit
<1>2. PathsInv /\ PlotInv /\ [Next]_vars => (PathsInv /\ PlotInv)'
  BY PathsStep, PlotStep
<1> QED
  BY <1>1, <1>2, PTL DEF Spec

\* A connected agent has of each peer the key at the start of its chain.
LEMMA CurrentHolds ==
  ASSUME PathsInv, PlotInv, NEW n \in Node \ revokedDB, Current(n), NEW p \in Node, {n, p} \notin torn
  PROVE  \E h : /\ Chain(p, Queue(conn[n]), h) /\ Leaves(n, p, h[Len(Queue(conn[n]))])
               /\ h[0] \in Nat \cup {None} /\ Holds(dev[n], p, h[0])
<1>1. phase[n] = "up" /\ conn[n] # None /\ hubSt[conn[n]] = "open"
  BY DEF Current
<1>2. PICK c \in Sess : c = conn[n] /\ Owner(c) = n
  BY <1>1, TalkFacts
<1>3. registered[c]
  BY <1>1, <1>2 DEF PathsInv, FreshInv, KeyInv, UsedOk
<1>4. Talking(n)
  BY <1>1, <1>2, <1>3 DEF Talking
<1>5. PICK h : /\ Chain(p, Queue(conn[n]), h) /\ Starts(n, p, h[0])
               /\ Leaves(n, p, h[Len(Queue(conn[n]))])
  BY <1>4 DEF PlotInv, Plot
<1>6. Queue(conn[n]) \in Seq(ToAgent)
  BY <1>2, QueueIsQueue
<1>7. PICK a \in Nat \cup {None} : a = h[0]
  BY <1>5, <1>6, ChainEnds
<1>8. dev[n] \in Device
  BY DEF PathsInv, FreshInv, BaseInv, Types, WgTypes
<1>9. Holds(dev[n], p, a)
  BY <1>1, <1>5, <1>7, <1>8, HoldsNow
<1> QED
  BY <1>5, <1>7, <1>9

\* The kernel of a connected agent has one key of a peer, the one last
\* configured, for any number of nodes, links, connections and queue capacity
\* (AddPeer, UpdatePeer, RemovePeer, ReplacePeers).
THEOREM OneKeyHolds == Spec => []OneKeyPerPeer
<1>1. PathsInv /\ PlotInv => OneKeyPerPeer
  <2> SUFFICES ASSUME PathsInv, PlotInv, NEW n \in Node \ revokedDB, Current(n),
                      NEW k \in dev[n].peers, {n, k[1]} \notin torn
               PROVE  dev[n].keys[k[1]] = k[2]
    BY DEF OneKeyPerPeer
  <2>1. k \in Key
    BY DEF PathsInv, FreshInv, BaseInv, Types, WgTypes, Device
  <2>2. PICK p \in Node : p = k[1]
    BY <2>1 DEF Key
  <2>3. PICK a : Holds(dev[n], p, a)
    BY <2>2, CurrentHolds
  <2>4. k[2] = a /\ a # None
    BY <2>1, <2>2, <2>3, NoneAssumption DEF Holds, Key, Gen
  <2> QED
    BY <2>2, <2>3, <2>4 DEF Holds
<1> QED
  BY <1>1, ChainsInv, PTL

\* A peer is in the kernel of an agent that has applied all it was sent only
\* if their link exists, whatever was deleted, restarted or reconnected before
\* (removeLinkFromPeers, DeleteNode, handleRegister, ReplacePeers).
THEOREM NoGhosts == Spec => []NoGhostPeer
<1>1. PathsInv /\ PlotInv => NoGhostPeer
  <2> SUFFICES ASSUME PathsInv, PlotInv, NEW n \in Node \ revokedDB, Drained(n),
                      NEW k \in dev[n].peers, {n, k[1]} \notin torn, ~Busy({n, k[1]})
               PROVE  \E l \in store : l.ends = {n, k[1]}
    BY DEF NoGhostPeer
  <2>1. k \in Key
    BY DEF PathsInv, FreshInv, BaseInv, Types, WgTypes, Device
  <2>2. PICK p \in Node : p = k[1]
    BY <2>1 DEF Key
  <2>3. Current(n) /\ phase[n] = "up" /\ conn[n] # None /\ out[conn[n]] = <<>>
    BY DEF Drained, Current
  <2>4. PICK c \in Sess : c = conn[n] /\ Owner(c) = n
    BY <2>3, TalkFacts
  <2>5. Queue(conn[n]) = <<>>
    <3>1. pc[c] = "idle"
      BY <2>3, <2>4 DEF PathsInv, PathInv, OnceInv, WaitOk
    <3> QED
      BY <2>3, <2>4, <3>1 DEF Queue
  <2>6. PICK h : Leaves(n, p, h[Len(Queue(conn[n]))]) /\ Holds(dev[n], p, h[0])
    BY <2>2, <2>3, CurrentHolds
  <2>7. Len(<<>>) = 0
    OBVIOUS
  <2>8. PICK a : a = h[0] /\ Leaves(n, p, a)
    BY <2>5, <2>6, <2>7
  <2>9. k[2] = a /\ a # None
    BY <2>1, <2>2, <2>6, <2>8, NoneAssumption DEF Holds, Key, Gen
  <2>10. ~Withdrawing(n, p)
    BY <2>2 DEF Withdrawing, Busy
  <2>11. Wanted(n, p)
    BY <2>8, <2>9, <2>10 DEF Leaves
  <2> QED
    BY <2>2, <2>11 DEF Wanted
<1> QED
  BY <1>1, ChainsInv, PTL
------------------------------------------------------------------------------
(* What a step sends                                                        *)

\* A frame that a step queues for s: it ends the session, or names a row and
\* that row's other end, a spec with the key that the hub has of it then.
Says(s, f) ==
  \/ f.type \in {"rotate_wg", "kick"}
  \/ f.type = "register_ack" /\ pc[s] = "ack" /\ f.peers = exp[s]
  \/ /\ f.type = "peer_remove"
     /\ \E x \in Rows : x.id = f.link /\ x.ends = {Owner(s), f.wg[1]}
  \/ /\ f.type \in {"peer_add", "peer_update"}
     /\ \E x \in Rows : x.id = f.spec.link /\ x.ends = {Owner(s), f.spec.peer}
     /\ f.spec.gen = lastWG'[f.spec.peer] /\ (f.spec.valid <=> f.spec.peer \notin revokedDB)

\* A step leaves the queue alone, drops it, takes its head, answers a deleted
\* node's connection, or appends such a frame.
Fed(s) == \/ out'[s] \in {out[s], <<>>}
          \/ out[s] # <<>> /\ out'[s] = Tail(out[s])
          \/ \E f \in ToAgent : f.type = "error" /\ out'[s] = <<f>>
          \/ \E f \in ToAgent : Says(s, f) /\ out'[s] = Append(out[s], f)

\* Sending such frames feeds every queue.
LEMMA SendFeeds ==
  ASSUME PathsInv, NEW fr, FrameMap(fr), Send(fr), NEW s \in Sess, s \in DOMAIN fr => Says(s, fr[s])
  PROVE  Fed(s)
<1>1. \/ out'[s] = out[s]
      \/ s \in DOMAIN fr /\ out'[s] = Append(out[s], fr[s]) /\ fr[s] \in ToAgent
  BY SendQueues DEF PathsInv, FreshInv, BaseInv
<1> QED
  BY <1>1 DEF Fed

\* The frames of a push, of a withdrawal and of a register.
LEMMA PushFeeds ==
  ASSUME PathsInv, NEW s \in Sess, NEW t \in todo, PushLink(t)
  PROVE  Fed(s)
<1>1. PICK l \in Link : l = t.link /\ l \in Rows
  BY RowsOfPaths DEF PushLink
<1>2. PICK typ \in {"peer_add", "peer_update"} :
        typ = IF t.op = "pushLink" THEN "peer_add" ELSE "peer_update"
  OBVIOUS
<1>3. PICK fr : fr = PairFrames(l, typ)
  OBVIOUS
<1>4. Send(fr) /\ FrameMap(fr) /\ lastWG' = lastWG
  BY <1>1, <1>2, <1>3, PairFramesOk DEF PushLink, PathsInv, FreshInv, BaseInv
<1>5. ASSUME s \in DOMAIN fr PROVE Says(s, fr[s])
  <2>1. PICK p : p = Other(l, Owner(s))
    OBVIOUS
  <2>2. Owner(s) \in l.ends /\ fr[s] = [type |-> typ, spec |-> SpecOf(l, p, lastWG[p])]
    BY <1>1, <1>3, <1>5, <2>1, PairFrameIs
  <2>3. l.ends = {Owner(s), p}
    BY <2>1, <2>2, PairOfEnds
  <2>4. PICK sp : sp = SpecOf(l, p, lastWG[p])
    OBVIOUS
  <2>5. sp.link = l.id /\ sp.peer = p /\ sp.gen = lastWG'[p] /\ (sp.valid <=> p \notin revokedDB)
    BY <1>4, <2>4 DEF SpecOf
  <2>6. PICK f : f = fr[s] /\ f.type = typ /\ f.spec = sp
    BY <2>2, <2>4
  <2> QED
    BY <1>1, <2>3, <2>5, <2>6 DEF Says
<1> QED
  BY <1>4, <1>5, SendFeeds

\* Telling ends to remove a peer does, at most once per end.
LEMMA RemoveFeeds ==
  ASSUME PathsInv, NEW s \in Sess, NEW E \in SUBSET (Link \X Node), \A x, y \in E : x[2] = y[2] => x = y,
         Send(RemoveFrames(E)), \A e \in E : e[1] \in Rows /\ e[2] \in e[1].ends
  PROVE  Fed(s)
<1>1. PICK fr : fr = RemoveFrames(E)
  OBVIOUS
<1>2. FrameMap(fr)
  BY <1>1, RemoveFramesOk DEF PathsInv, FreshInv, BaseInv
<1>3. ASSUME s \in DOMAIN fr PROVE Says(s, fr[s])
  <2>1. PICK e \in E : /\ e[2] = Owner(s)
                       /\ fr[s] = [type |-> "peer_remove", link |-> e[1].id,
                                   wg |-> <<Other(e[1], Owner(s)), lastWG[Other(e[1], Owner(s))]>>]
    BY <1>1, <1>3, RemoveFrameIs
  <2>2. PICK x \in Link : x = e[1] /\ x \in Rows /\ Owner(s) \in x.ends
    BY <2>1
  <2>3. PICK p, g : p = Other(x, Owner(s)) /\ g = lastWG[p]
    OBVIOUS
  <2>4. x.ends = {Owner(s), p}
    BY <2>2, <2>3, PairOfEnds
  <2>5. PICK f : f = fr[s] /\ f.type = "peer_remove" /\ f.link = x.id /\ f.wg[1] = p
    BY <2>1, <2>2, <2>3
  <2> QED
    BY <2>2, <2>4, <2>5 DEF Says
<1> QED
  BY <1>1, <1>2, <1>3, SendFeeds

\* So do the withdrawals: of one link, of a node's links, of an offline node.
LEMMA WithdrawalFeeds ==
  ASSUME PathsInv, NEW s \in Sess,
         \/ \E t \in todo : RemoveLink(t) \/ DeleteNodeCascade(t)
         \/ \E g \in Node : GcOfflinePeer(g)
  PROVE  Fed(s)
<1>1. ASSUME NEW t \in todo, RemoveLink(t) PROVE Fed(s)
  <2>1. PICK x \in Link : x = t.link /\ x \in Rows
    BY <1>1, RowsOfPaths DEF RemoveLink
  <2>2. PICK E : E = {x} \X x.ends
    OBVIOUS
  <2>3. E \in SUBSET (Link \X Node) /\ \A e, d \in E : e[2] = d[2] => e = d
    BY <2>2 DEF Link, Ends
  <2>4. Send(RemoveFrames(E))
    BY <1>1, <2>1, <2>2 DEF RemoveLink
  <2> QED
    BY <2>1, <2>2, <2>3, <2>4, RemoveFeeds
<1>2. ASSUME NEW m \in Node, NEW L \in SUBSET Link, L \subseteq Rows, OnePerPair(L),
             \A x \in L : m \in x.ends, Send(RemoveFrames({<<x, Other(x, m)>> : x \in L}))
      PROVE  Fed(s)
  <2>1. PICK E : E = {<<x, Other(x, m)>> : x \in L}
    OBVIOUS
  <2>2. E \in SUBSET (Link \X Node) /\ \A e, d \in E : e[2] = d[2] => e = d
    BY <1>2, <2>1, WithdrawnOnce
  <2>3. \A x \in L : Other(x, m) \in x.ends
    BY OtherIsEnd
  <2>4. \A e \in E : e[1] \in Rows /\ e[2] \in e[1].ends
    BY <1>2, <2>1, <2>3
  <2> QED
    BY <1>2, <2>1, <2>2, <2>4, RemoveFeeds
<1>3. ASSUME NEW t \in todo, DeleteNodeCascade(t) PROVE Fed(s)
  <2>1. /\ t.links \in SUBSET Link /\ t.node \in Node /\ OnePerPair(t.links)
        /\ \A x \in t.links : t.node \in x.ends
    BY <1>3, RequestFields DEF PathsInv, FreshInv, BaseInv, Types, LinksInv, DeleteNodeCascade
  <2>2. t.links \subseteq Rows
    BY <1>3, RowsOfPaths DEF DeleteNodeCascade
  <2>3. Send(RemoveFrames({<<x, Other(x, t.node)>> : x \in t.links}))
    BY <1>3 DEF DeleteNodeCascade
  <2> QED
    BY <1>2, <2>1, <2>2, <2>3
<1>4. ASSUME NEW g \in Node, GcOfflinePeer(g) PROVE Fed(s)
  <2>1. /\ LinksOf(g) \in SUBSET Link /\ OnePerPair(LinksOf(g)) /\ \A x \in LinksOf(g) : g \in x.ends
        /\ LinksOf(g) \subseteq Rows
    BY RowsOfPaths DEF PathsInv, FreshInv, BaseInv, LinksInv, OnePerPair, LinksOf
  <2>2. Send(RemoveFrames({<<x, Other(x, g)>> : x \in LinksOf(g)}))
    BY <1>4 DEF GcOfflinePeer
  <2> QED
    BY <1>2, <2>1, <2>2
<1> QED
  BY <1>1, <1>3, <1>4

\* So do the frames of a register: pushes to the peers and earlier specs.
LEMMA RegisterFeeds ==
  ASSUME PathsInv, NEW s \in Sess, NEW r \in Sess, HandleRegister(r)
  PROVE  Fed(s)
<1>1. PICK m \in Node : m = Owner(r)
  BY OwnerIsNode
<1>2. PICK fr, g : fr = RegisterFrames(r) /\ g = reg[r]
  OBVIOUS
<1>3. Send(fr) /\ FrameMap(fr)
  BY <1>2, RegisterFramesOk DEF HandleRegister, PathsInv, FreshInv, BaseInv
<1>4. lastWG'[m] = g
  BY <1>1, <1>2 DEF HandleRegister, RegisteredKey, PathsInv, FreshInv, BaseInv, Types, HubTypes
<1>5. ASSUME s \in DOMAIN fr PROVE Says(s, fr[s])
  <2>1. PICK x \in Expected(r) : /\ Owner(s) = Other(x, m)
                                 /\ fr[s] = [type |-> "peer_update", spec |-> SpecOf(x, m, g)]
    BY <1>1, <1>2, <1>5, RegisterFrameIs
  <2>2. x \in Rows /\ x \in Link /\ m \in x.ends
    BY <1>1, RowsOfPaths DEF Expected, PathsInv, PathInv, SnapInv
  <2>3. x.ends = {Owner(s), m}
    BY <2>1, <2>2, PairOfEnds
  <2>4. PICK sp : sp = SpecOf(x, m, g)
    OBVIOUS
  <2>5. sp.link = x.id /\ sp.peer = m /\ sp.gen = lastWG'[m] /\ (sp.valid <=> m \notin revokedDB)
    BY <1>4, <2>4 DEF SpecOf
  <2>6. PICK f : f = fr[s] /\ f.type = "peer_update" /\ f.spec = sp
    BY <2>1, <2>4
  <2> QED
    BY <2>2, <2>3, <2>5, <2>6 DEF Says
<1> QED
  BY <1>3, <1>5, SendFeeds

\* What an agent does to a queue.
LEMMA AgentFeeds ==
  ASSUME PathsInv, NEW s \in Sess, NEW m \in Node,
         \/ AgentStep(m) \/ LoseConn(m) \/ RegisterFails(m) \/ ApplyPeerFails(m) \/ AgentRestart(m)
  PROVE  Fed(s)
<1>1. out \in [Sess -> Seq(ToAgent)]
  BY DEF PathsInv, FreshInv, BaseInv, Types, ChanTypes
<1>2. ASSUME NEW r \in Sess, Connect(m, r) PROVE Fed(s)
  <2>1. PICK f \in ToAgent : f = [type |-> "error"]
    BY FramesAreFrames
  <2>2. out' = [out EXCEPT ![r] = <<f>>] \/ out' = out
    BY <1>2, <2>1 DEF Connect, HandleConn
  <2>3. f.type = "error"
    BY <2>1
  <2> QED
    BY <1>1, <2>2, <2>3 DEF Fed
<1>3. CASE LoseConn(m) \/ RegisterFails(m) \/ ApplyRotate(m) \/ ApplyKick(m) \/ AgentRestart(m)
  <2>1. \/ out' = [out EXCEPT ![conn[m]] = <<>>]
        \/ out' = [c \in Sess |-> IF c = conn[m] THEN <<>> ELSE out[c]]
    BY <1>3 DEF LoseConn, RegisterFails, ApplyRotate, ApplyKick, AgentRestart, Hangup
  <2> QED
    BY <1>1, <2>1 DEF Fed
<1>4. CASE RegisterAck(m) \/ ApplyPeer(m) \/ ApplyRemove(m) \/ ApplyPeerFails(m)
  <2>1. out' = [out EXCEPT ![conn[m]] = Tail(@)] /\ out[conn[m]] # <<>>
    BY <1>4 DEF RegisterAck, ApplyPeer, ApplyRemove, ApplyPeerFails, Consume, HasFrame
  <2> QED
    BY <1>1, <2>1 DEF Fed
<1> QED
  BY <1>2, <1>3, <1>4 DEF AgentStep

\* Every step feeds the queues so.
LEMMA StepFeeds == PathsInv /\ [Next]_vars => \A s \in Sess : Fed(s)
<1> SUFFICES ASSUME PathsInv, [Next]_vars, NEW s \in Sess PROVE Fed(s)
  OBVIOUS
<1>0. out' = out => Fed(s)
  BY DEF Fed
<1>1. ASSUME NEW r \in Sess, SessionStep(r) \/ CloseConn(r) PROVE Fed(s)
  <2>1. CASE RunSession(r) \/ ReadRegister(r) \/ HandleAck(r) \/ CloseConn(r) \/ DropSession(r)
    BY <1>0, <2>1 DEF RunSession, ReadRegister, HandleAck, CloseConn, DropSession
  <2>2. CASE SendRegisterAck(r)
    <3>1. PICK f : f = [type |-> "register_ack", peers |-> exp[r]]
      OBVIOUS
    <3>2. f \in ToAgent
      BY <3>1, FramesAreFrames DEF PathsInv, FreshInv, BaseInv, Types, SessVarTypes
    <3>3. PICK fr : fr = [c \in {r} |-> f]
      OBVIOUS
    <3>4. Send(fr) /\ FrameMap(fr) /\ pc[r] = "ack"
      BY <2>2, <3>1, <3>2, <3>3 DEF SendRegisterAck, FrameMap
    <3>5. s \in DOMAIN fr => s = r /\ fr[s] = f
      BY <3>3
    <3>6. Says(r, f)
      BY <3>1, <3>4 DEF Says
    <3> QED
      BY <3>4, <3>5, <3>6, SendFeeds
  <2> QED
    BY <1>1, <2>1, <2>2, RegisterFeeds DEF SessionStep
<1>2. ASSUME NEW t \in todo, RequestStep(t) PROVE Fed(s)
  <2>1. CASE StoreCreateLink(t) \/ DeleteNodeTx(t) \/ KickClose(t) \/ DeleteNodeForget(t)
    BY <1>0, <2>1 DEF StoreCreateLink, DeleteNodeTx, KickClose, DeleteNodeForget, chanVars
  <2>2. CASE DeleteNodeKick(t)
    <3>1. PICK fr : fr = [c \in {t.sess} \ {None} |-> [type |-> "kick"]]
      OBVIOUS
    <3>2. FrameMap(fr) /\ Send(fr) /\ (s \in DOMAIN fr => Says(s, fr[s]))
      BY <2>2, <3>1, FramesAreFrames DEF FrameMap, DeleteNodeKick, Says
    <3> QED
      BY <3>2, SendFeeds
  <2> QED
    BY <1>2, <2>1, <2>2, PushFeeds, WithdrawalFeeds DEF RequestStep
<1>3. ASSUME NEW m \in Node, AgentStep(m) \/ LoseConn(m) \/ RegisterFails(m) PROVE Fed(s)
  BY <1>3, AgentFeeds
<1>4. CASE AdminStep
  <2>1. ASSUME NEW m \in Node, RotateWG(m) PROVE Fed(s)
    <3>1. PICK fr : fr = [c \in {sessions[m]} |-> [type |-> "rotate_wg"]]
      OBVIOUS
    <3>2. FrameMap(fr) /\ Send(fr) /\ (s \in DOMAIN fr => Says(s, fr[s]))
      BY <2>1, <3>1, FramesAreFrames DEF FrameMap, RotateWG, Says
    <3> QED
      BY <3>2, SendFeeds
  <2>2. CASE \/ \E e \in Ends : ApiCreateLink(e)
             \/ \E l \in store : DeleteLink(l) \/ \E e \in Node \cup {None} : SetLinkExit(l, e)
             \/ \E m \in Node : DeleteNode(m)
    BY <1>0, <2>2 DEF ApiCreateLink, DeleteLink, SetLinkExit, DeleteNode, chanVars
  <2> QED
    BY <1>4, <2>1, <2>2 DEF AdminStep
<1>5. CASE Fault
  <2>1. CASE HubRestart
    BY <1>0, <2>1 DEF HubRestart
  <2> QED
    BY <1>5, <2>1, AgentFeeds, WithdrawalFeeds DEF Fault
<1>6. CASE UNCHANGED vars
  BY <1>0, <1>6 DEF vars, chanVars
<1> QED
  BY <1>1, <1>2, <1>3, <1>4, <1>5, <1>6 DEF Next
------------------------------------------------------------------------------
(* The rows that frames name                                                *)

\* The table only loses rows, gets one with a new id, or changes an exit.
LEMMA RowsRemain ==
  ASSUME PathsInv, [Next]_vars
  PROVE  /\ minted <= minted'
         /\ \A l \in store' : \/ l.id = minted + 1
                              \/ \E x \in store : x.id = l.id /\ x.ends = l.ends
<1>1. store \subseteq Link /\ minted \in Nat
  BY DEF PathsInv, FreshInv, BaseInv, Types, DbTypes
<1>2. CASE \E t \in todo : StoreCreateLink(t)
  <2>1. PICK t \in todo : StoreCreateLink(t)
    BY <1>2
  <2>2. PICK l : l = [id |-> minted + 1, ends |-> t.ends, exit |-> None]
    OBVIOUS
  <2>3. \/ UNCHANGED <<store, minted>>
        \/ store' = store \cup {l} /\ minted' = minted + 1
    BY <2>1, <2>2 DEF StoreCreateLink
  <2>4. l.id = minted + 1
    BY <2>2
  <2> QED
    BY <1>1, <2>3, <2>4
<1>3. ASSUME NEW l \in store, NEW e \in Node \cup {None}, SetLinkExit(l, e)
      PROVE  /\ minted' = minted
             /\ \A y \in store' : \E x \in store : x.id = y.id /\ x.ends = y.ends
  <2>1. PICK m : m = [l EXCEPT !.exit = e]
    OBVIOUS
  <2>2. minted' = minted /\ store' = (store \ {l}) \cup {m}
    BY <1>3, <2>1 DEF SetLinkExit
  <2>3. m.id = l.id /\ m.ends = l.ends
    BY <1>1, <2>1 DEF Link
  <2> QED
    BY <2>2, <2>3
<1>4. CASE ~ \/ \E t \in todo : StoreCreateLink(t)
             \/ \E l \in store : \E e \in Node \cup {None} : SetLinkExit(l, e)
  <2>1. minted' = minted /\ store' \subseteq store
    <3>1. ASSUME NEW s \in Sess, SessionStep(s) \/ CloseConn(s) PROVE minted' = minted /\ store' \subseteq store
      BY <3>1 DEF SessionStep, RunSession, ReadRegister, HandleRegister, SendRegisterAck, HandleAck,
                  CloseConn, DropSession, dbVars
    <3>2. ASSUME NEW t \in todo, RequestStep(t) PROVE minted' = minted /\ store' \subseteq store
      BY <1>4, <3>2 DEF RequestStep, PushLink, RemoveLink, DeleteNodeTx, DeleteNodeCascade, DeleteNodeKick,
                        KickClose, DeleteNodeForget, dbVars
    <3>3. ASSUME NEW n \in Node,
                 \/ AgentStep(n) \/ LoseConn(n) \/ RegisterFails(n) \/ ApplyPeerFails(n)
                 \/ AgentRestart(n) \/ GcOfflinePeer(n) \/ RotateWG(n) \/ DeleteNode(n)
          PROVE  minted' = minted /\ store' \subseteq store
      BY <3>3 DEF AgentStep, Connect, RegisterAck, ApplyPeer, ApplyRemove, ApplyRotate, ApplyKick, LoseConn,
                  RegisterFails, ApplyPeerFails, AgentRestart, GcOfflinePeer, RotateWG, DeleteNode, dbVars
    <3>4. ASSUME \/ \E e \in Ends : ApiCreateLink(e)
                 \/ \E l \in store : DeleteLink(l)
                 \/ HubRestart \/ UNCHANGED vars
          PROVE  minted' = minted /\ store' \subseteq store
      BY <3>4 DEF ApiCreateLink, DeleteLink, HubRestart, vars, dbVars
    <3> QED
      BY <1>4, <3>1, <3>2, <3>3, <3>4 DEF Next, AdminStep, Fault
  <2> QED
    BY <1>1, <2>1
<1> QED
  BY <1>1, <1>2, <1>3, <1>4

\* The id has been handed out, and if its row is in the table, it is E's.
Names(i, E) == i <= minted /\ \A l \in store : l.id = i => l.ends = E

\* A frame on its way names the row of its pair, if any: of the receiver and
\* the node that it is about.
Addressed(s, f) ==
  /\ f.type \in {"peer_add", "peer_update"} => Names(f.spec.link, {Owner(s), f.spec.peer})
  /\ f.type = "peer_remove" => Names(f.link, {Owner(s), f.wg[1]})
NameInv == \A s \in Sess : \A f \in Range(out[s]) : Addressed(s, f)

\* A name is kept: the ids of rows are never given out again.
LEMMA NamesKept ==
  ASSUME PathsInv, [Next]_vars, NEW i \in Nat, NEW E, Names(i, E)
  PROVE  Names(i, E)'
<1>1. minted \in Nat /\ minted' \in Nat
  BY PathsStep DEF PathsInv, FreshInv, BaseInv, Types, DbTypes
<1>2. minted <= minted' /\ i <= minted /\ i # minted + 1
  BY <1>1, RowsRemain DEF Names
<1>3. ASSUME NEW l \in store', l.id = i PROVE l.ends = E
  <2>1. PICK x \in store : x.id = i /\ x.ends = l.ends
    BY <1>2, <1>3, RowsRemain
  <2> QED
    BY <2>1 DEF Names
<1> QED
  BY <1>1, <1>2, <1>3 DEF Names

\* A row has the name that its id gives its ends.
LEMMA RowIsNamed ==
  ASSUME PathsInv, NEW x \in Rows
  PROVE  Names(x.id, x.ends)
BY RowsOfPaths DEF PathsInv, PathInv, IdInv, Names

\* A queued frame goes on naming the same link and ends.
LEMMA FramesKeepNames ==
  ASSUME PathsInv, [Next]_vars, NEW s \in Sess, NEW f \in ToAgent, Addressed(s, f)
  PROVE  Addressed(s, f)'
<1>1. /\ f.type \in {"peer_add", "peer_update"} => f.spec \in PeerSpec /\ f.spec.link \in Nat
      /\ f.type = "peer_remove" => f.link \in Nat
  BY DEF ToAgent, PeerSpec
<1>2. PICK E : E = {Owner(s), f.spec.peer}
  OBVIOUS
<1>3. PICK F : F = {Owner(s), f.wg[1]}
  OBVIOUS
<1>4. ASSUME f.type \in {"peer_add", "peer_update"} PROVE Names(f.spec.link, E)'
  <2>1. PICK i \in Nat : i = f.spec.link
    BY <1>1, <1>4
  <2>2. Names(i, E)'
    BY <1>2, <1>4, <2>1, NamesKept DEF Addressed
  <2> QED
    BY <2>1, <2>2
<1>5. ASSUME f.type = "peer_remove" PROVE Names(f.link, F)'
  <2>1. PICK i \in Nat : i = f.link
    BY <1>1, <1>5
  <2>2. Names(i, F)'
    BY <1>3, <1>5, <2>1, NamesKept DEF Addressed
  <2> QED
    BY <2>1, <2>2
<1> QED
  BY <1>2, <1>3, <1>4, <1>5 DEF Addressed

\* Every frame on its way names a link between its two ends, after every step.
LEMMA NameStep == PathsInv /\ NameInv /\ [Next]_vars => NameInv'
<1> SUFFICES ASSUME PathsInv, NameInv, [Next]_vars, NEW s \in Sess, NEW f \in Range(out'[s])
             PROVE  Addressed(s, f)'
  BY DEF NameInv
<1>1. PICK q \in Seq(ToAgent) : q = out[s]
  BY DEF PathsInv, FreshInv, BaseInv, Types, ChanTypes
<1>2. ASSUME NEW g \in Range(q) PROVE g \in ToAgent /\ Addressed(s, g)'
  <2>1. g \in ToAgent
    BY RangeOfQueue
  <2> QED
    BY <1>1, <2>1, FramesKeepNames DEF NameInv
<1>3. ASSUME NEW g \in ToAgent, Says(s, g) PROVE Addressed(s, g)'
  <2>1. ASSUME NEW x \in Rows PROVE Names(x.id, x.ends)
    BY RowIsNamed
  <2>2. Addressed(s, g)
    BY <1>3, <2>1 DEF Says, Addressed
  <2> QED
    BY <2>2, FramesKeepNames
<1>4. ASSUME NEW g \in ToAgent, g.type = "error" PROVE Addressed(s, g)'
  BY <1>4 DEF Addressed
<1>5. Fed(s)
  BY StepFeeds
<1>6. CASE out'[s] \in {q, <<>>} \/ (q # <<>> /\ out'[s] = Tail(q))
  <2>1. Range(out'[s]) \subseteq Range(q)
    BY <1>6, RangeOfTail, RangeOfEmpty
  <2> QED
    BY <1>2, <2>1
<1>7. ASSUME NEW g \in ToAgent, g.type = "error", out'[s] = <<g>> PROVE Addressed(s, f)'
  <2>1. Range(<<g>>) = {g}
    BY DEF Range
  <2> QED
    BY <1>4, <1>7, <2>1
<1>8. ASSUME NEW g \in ToAgent, Says(s, g), out'[s] = Append(q, g) PROVE Addressed(s, f)'
  <2>1. Range(Append(q, g)) = Range(q) \cup {g}
    BY RangeOfAppend
  <2> QED
    BY <1>2, <1>3, <1>8, <2>1
<1> QED
  BY <1>1, <1>5, <1>6, <1>7, <1>8 DEF Fed
------------------------------------------------------------------------------
(* Keys only grow                                                           *)

\* While the hub runs, nothing that was torn is mended, no key gets older, the
\* hub's knowledge of the key of a node that exists is not lost or replaced by
\* an older one, and a register_ack is built from that knowledge.
Advance ==
  /\ torn \subseteq torn' /\ revokedDB \subseteq revokedDB'
  /\ \A p \in Node : key[p] <= key'[p]
  /\ \A p \in Node \ revokedDB :
       {p} \notin torn' /\ lastWG[p] # None => lastWG'[p] # None /\ lastWG[p] <= lastWG'[p]
  /\ \A s \in Sess : pc'[s] = "ack" =>
       \/ pc[s] = "ack" /\ exp'[s] = exp[s]
       \/ \A sp \in exp'[s] : sp.valid => sp.peer \notin revokedDB /\ sp.gen = lastWG'[sp.peer]

\* Steps that change no key.
LEMMA QuietAdvance ==
  ASSUME PathsInv, torn \subseteq torn', revokedDB \subseteq revokedDB', UNCHANGED <<key, lastWG>>,
         \A s \in Sess : pc'[s] = "ack" => pc[s] = "ack" /\ exp'[s] = exp[s]
  PROVE  Advance
<1>1. key \in [Node -> Nat] /\ lastWG \in [Node -> Nat \cup {None}]
  BY DEF PathsInv, FreshInv, BaseInv, Types, WgTypes, HubTypes, Gen
<1>2. ASSUME NEW p \in Node, lastWG[p] # None PROVE lastWG[p] <= lastWG[p]
  BY <1>1, <1>2
<1> QED
  BY <1>1, <1>2 DEF Advance

\* A register only brings a key forward: the agent's is the newest.
LEMMA RegisterAdvances ==
  ASSUME PathsInv, NEW s \in Sess, HandleRegister(s)
  PROVE  Advance
<1>1. PICK m \in Node : m = Owner(s)
  BY OwnerIsNode
<1>2. PICK g \in Nat : g = reg[s]
  BY DEF PathsInv, FreshInv, BaseInv, Types, SessVarTypes, Gen
<1>3. /\ key \in [Node -> Nat] /\ lastWG \in [Node -> Nat \cup {None}]
      /\ pc \in [Sess -> {"idle", "links", "ack"}] /\ exp \in [Sess -> SUBSET PeerSpec]
  BY DEF PathsInv, FreshInv, BaseInv, Types, WgTypes, HubTypes, SessVarTypes, Gen
<1>4. PICK E : E = {SpecOf(l, Other(l, m), lastWG[Other(l, m)]) : l \in Expected(s)}
  OBVIOUS
<1>5. /\ UNCHANGED <<key, revokedDB>> /\ lastWG' = [lastWG EXCEPT ![m] = g]
      /\ pc' = [pc EXCEPT ![s] = "ack"] /\ exp' = [exp EXCEPT ![s] = E]
      /\ torn' = torn \cup TornByRegister(s)
  BY <1>1, <1>2, <1>4 DEF HandleRegister, RegisteredKey, dbVars, agentVars, wgVars
<1>6. ASSUME lastWG[m] # None, ~(lastWG[m] <= g) PROVE {m} \in torn'
  <2>1. lastWG[m] \notin {None, g} /\ g < lastWG[m]
    BY <1>3, <1>6
  <2>2. PICK Y : Y = {y \in {m} : lastWG[m] \notin {None, reg[s]} /\ reg[s] < lastWG[m]}
    OBVIOUS
  <2>3. m \in Y
    BY <1>2, <2>1, <2>2
  <2>4. {{m} : x \in Y} \subseteq TornByRegister(s)
    BY <1>1, <2>2, Zenon DEF TornByRegister
  <2> QED
    BY <1>5, <2>3, <2>4
<1>7. ASSUME NEW p \in Node \ revokedDB, {p} \notin torn', lastWG[p] # None
      PROVE  lastWG'[p] # None /\ lastWG[p] <= lastWG'[p]
  <2>1. g # None
    BY NoneAssumption
  <2>2. lastWG'[p] = IF p = m THEN g ELSE lastWG[p]
    BY <1>3, <1>5
  <2>3. lastWG[p] <= lastWG[p]
    BY <1>3, <1>7
  <2> QED
    BY <1>6, <1>7, <2>1, <2>2, <2>3
<1>8. ASSUME NEW sp \in E, sp.valid PROVE sp.peer \notin revokedDB /\ sp.gen = lastWG'[sp.peer]
  <2>1. PICK l \in Expected(s) : sp = SpecOf(l, Other(l, m), lastWG[Other(l, m)])
    BY <1>4
  <2>2. l \in Link
    BY RowsOfPaths DEF Expected
  <2>3. PICK o \in Node : o = Other(l, m) /\ o # m
    BY <2>2, OtherIsEnd
  <2>4. sp.peer = o /\ sp.gen = lastWG[o] /\ o \notin revokedDB
    BY <1>8, <2>1, <2>3, SpecFields
  <2> QED
    BY <1>3, <1>5, <2>3, <2>4
<1>9. ASSUME NEW c \in Sess, pc'[c] = "ack"
      PROVE  \/ pc[c] = "ack" /\ exp'[c] = exp[c]
             \/ \A sp \in exp'[c] : sp.valid => sp.peer \notin revokedDB /\ sp.gen = lastWG'[sp.peer]
  BY <1>3, <1>5, <1>8, <1>9
<1> QED
  BY <1>3, <1>5, <1>7, <1>9 DEF Advance

\* A key is made, and a deleted node's key forgotten.
LEMMA KeyAdvances ==
  ASSUME PathsInv,
         \/ \E n \in Node : ApplyRotate(n) \/ AgentRestart(n)
         \/ \E t \in todo : DeleteNodeForget(t)
  PROVE  Advance
<1>1. key \in [Node -> Nat] /\ lastWG \in [Node -> Nat \cup {None}]
  BY DEF PathsInv, FreshInv, BaseInv, Types, WgTypes, HubTypes, Gen
<1>2. ASSUME NEW n \in Node, ApplyRotate(n) \/ AgentRestart(n) PROVE Advance
  <2>1. UNCHANGED <<revokedDB, lastWG, pc, exp, torn>> /\ key' = [key EXCEPT ![n] = @ + 1]
    BY <1>2 DEF ApplyRotate, AgentRestart, dbVars, hubVars, sessVars
  <2>2. \A p \in Node : key[p] <= key'[p]
    BY <1>1, <2>1
  <2>3. ASSUME NEW p \in Node, lastWG[p] # None PROVE lastWG[p] <= lastWG[p]
    BY <1>1, <2>3
  <2> QED
    BY <2>1, <2>2, <2>3 DEF Advance
<1>3. ASSUME NEW t \in todo, DeleteNodeForget(t) PROVE Advance
  <2>1. t.node \in revokedDB
    BY <1>3 DEF PathsInv, FreshInv, BaseInv, LinksInv, DeleteNodeForget
  <2>2. /\ UNCHANGED <<key, revokedDB, pc, exp>> /\ torn \subseteq torn'
        /\ lastWG' = [lastWG EXCEPT ![t.node] = None]
    BY <1>3 DEF DeleteNodeForget, dbVars, sessVars, agentVars, wgVars
  <2>3. ASSUME NEW p \in Node \ revokedDB, lastWG[p] # None
        PROVE  lastWG'[p] # None /\ lastWG[p] <= lastWG'[p]
    BY <1>1, <2>1, <2>2, <2>3
  <2>4. \A p \in Node : key[p] <= key'[p]
    BY <1>1, <2>2
  <2> QED
    BY <2>2, <2>3, <2>4 DEF Advance
<1> QED
  BY <1>1, <1>2, <1>3

\* No step but a restart of the hub takes back a key that the hub knows.
LEMMA StepAdvances == PathsInv /\ [Next]_vars => HubRestart \/ Advance
<1> SUFFICES ASSUME PathsInv, [Next]_vars, ~HubRestart PROVE Advance
  OBVIOUS
<1>0. pc \in [Sess -> {"idle", "links", "ack"}] /\ exp \in [Sess -> SUBSET PeerSpec]
  BY DEF PathsInv, FreshInv, BaseInv, Types, SessVarTypes
<1>1. ASSUME NEW s \in Sess, SessionStep(s) \/ CloseConn(s), ~HandleRegister(s) PROVE Advance
  <2>1. CASE ReadRegister(s)
    <3>1. /\ UNCHANGED <<torn, revokedDB, key, lastWG, exp>> /\ pc' = [pc EXCEPT ![s] = "links"]
      BY <2>1 DEF ReadRegister, dbVars, hubVars, agentVars, wgVars
    <3> QED
      BY <1>0, <3>1, QuietAdvance
  <2>2. CASE SendRegisterAck(s)
    <3>1. /\ UNCHANGED <<torn, revokedDB, key, lastWG>> /\ pc' = [pc EXCEPT ![s] = "idle"]
          /\ exp' = [exp EXCEPT ![s] = {}]
      BY <2>2 DEF SendRegisterAck, hubVars, agentVars, wgVars
    <3> QED
      BY <1>0, <3>1, QuietAdvance
  <2>3. CASE RunSession(s) \/ HandleAck(s) \/ CloseConn(s) \/ DropSession(s)
    <3>1. UNCHANGED <<torn, revokedDB, key, lastWG, pc, exp>>
      BY <2>3 DEF RunSession, HandleAck, CloseConn, DropSession, dbVars, hubVars, sessVars, agentVars, wgVars
    <3> QED
      BY <3>1, QuietAdvance
  <2> QED
    BY <1>1, <2>1, <2>2, <2>3 DEF SessionStep
<1>2. ASSUME NEW t \in todo, RequestStep(t), ~DeleteNodeForget(t) PROVE Advance
  <2>1. UNCHANGED <<key, lastWG, pc, exp>> /\ torn \subseteq torn' /\ revokedDB \subseteq revokedDB'
    BY <1>2 DEF RequestStep, StoreCreateLink, PushLink, RemoveLink, DeleteNodeTx, DeleteNodeCascade,
                DeleteNodeKick, KickClose, dbVars, hubVars, sessVars, agentVars, wgVars
  <2> QED
    BY <2>1, QuietAdvance
<1>3. ASSUME NEW n \in Node, AgentStep(n) \/ LoseConn(n) \/ RegisterFails(n) \/ ApplyPeerFails(n),
             ~ApplyRotate(n)
      PROVE  Advance
  <2>1. UNCHANGED <<revokedDB, lastWG, pc, exp>> /\ torn \subseteq torn'
    BY <1>3, AgentsKeep
  <2>2. key' = key
    BY <1>3 DEF AgentStep, Connect, RegisterAck, ApplyPeer, ApplyRemove, ApplyKick, LoseConn, RegisterFails,
                ApplyPeerFails, wgVars
  <2> QED
    BY <2>1, <2>2, QuietAdvance
<1>4. ASSUME AdminStep \/ \E n \in Node : GcOfflinePeer(n) PROVE Advance
  <2>1. UNCHANGED <<torn, revokedDB, key, lastWG, pc, exp>>
    BY <1>4 DEF AdminStep, ApiCreateLink, DeleteLink, SetLinkExit, RotateWG, DeleteNode, GcOfflinePeer,
                dbVars, hubVars, sessVars, agentVars, wgVars
  <2> QED
    BY <2>1, QuietAdvance
<1>5. CASE UNCHANGED vars
  <2>1. UNCHANGED <<torn, revokedDB, key, lastWG, pc, exp>>
    BY <1>5 DEF vars, dbVars, hubVars, sessVars, agentVars, wgVars
  <2> QED
    BY <2>1, QuietAdvance
<1> QED
  BY <1>1, <1>2, <1>3, <1>4, <1>5, RegisterAdvances, KeyAdvances DEF Next, Fault
------------------------------------------------------------------------------
(* A queue gives a peer's keys in order                                     *)

\* The keys of p that a list of specs, a frame and a queue would configure.
SpecGens(p, S) == {sp.gen : sp \in {x \in S : x.peer = p /\ x.valid}}
Gens(p, f) == IF f.type = "register_ack" THEN SpecGens(p, f.peers)
              ELSE IF Sets(p, f) THEN {f.spec.gen} ELSE {}
Offers(p, q) == UNION {Gens(p, f) : f \in Range(q)}

\* No push gives an older key than one of H, or than a frame before it.
Follows(p, H, q) ==
  \A f \in Range(q) : f.type # "register_ack" => \A a \in H, b \in Gens(p, f) : a <= b
Ordered(p, q) ==
  \A i, j \in 1 .. Len(q) :
    i < j /\ q[j].type # "register_ack" => \A a \in Gens(p, q[i]), b \in Gens(p, q[j]) : a <= b

\* The keys of a peer are generations.
LEMMA GensAreGens ==
  /\ \A p : \A S \in SUBSET PeerSpec : SpecGens(p, S) \subseteq Nat
  /\ \A p : \A f \in ToAgent : Gens(p, f) \subseteq Nat
<1>1. \A sp \in PeerSpec : sp.gen \in Nat
  BY DEF PeerSpec, Gen
<1>2. ASSUME NEW p, NEW S \in SUBSET PeerSpec PROVE SpecGens(p, S) \subseteq Nat
  BY <1>1 DEF SpecGens
<1>3. ASSUME NEW p, NEW f \in ToAgent PROVE Gens(p, f) \subseteq Nat
  <2>1. /\ f.type = "register_ack" => f.peers \in SUBSET PeerSpec
        /\ f.type \in {"peer_add", "peer_update"} => f.spec \in PeerSpec
    BY DEF ToAgent
  <2> QED
    BY <1>1, <1>2, <2>1 DEF Gens, Sets
<1> QED
  BY <1>2, <1>3

\* A frame comes to the end, the first one is taken.
LEMMA OrderAppended ==
  ASSUME NEW p, NEW q \in Seq(ToAgent), NEW f \in ToAgent, Ordered(p, q),
         f.type # "register_ack" => \A a \in Offers(p, q), b \in Gens(p, f) : a <= b
  PROVE  Ordered(p, Append(q, f))
<1>1. PICK r : r = Append(q, f)
  OBVIOUS
<1>2. /\ Len(q) \in Nat /\ Len(r) = Len(q) + 1 /\ r[Len(q) + 1] = f
      /\ \A i \in 1 .. Len(q) : r[i] = q[i]
  BY <1>1, AppendProperties
<1>3. ASSUME NEW i \in 1 .. Len(q) PROVE Gens(p, q[i]) \subseteq Offers(p, q)
  <2>1. q[i] \in Range(q)
    BY RangeOfQueue
  <2> QED
    BY <2>1 DEF Offers
<1>4. ASSUME NEW i \in 1 .. Len(r), NEW j \in 1 .. Len(r), i < j, r[j].type # "register_ack",
             NEW a \in Gens(p, r[i]), NEW b \in Gens(p, r[j])
      PROVE  a <= b
  <2>1. i \in 1 .. Len(q) /\ r[i] = q[i]
    BY <1>2, <1>4
  <2>2. CASE j \in 1 .. Len(q)
    <3>1. r[j] = q[j]
      BY <1>2, <2>2
    <3> QED
      BY <1>4, <2>1, <2>2, <3>1 DEF Ordered
  <2>3. CASE j \notin 1 .. Len(q)
    <3>1. r[j] = f
      BY <1>2, <2>3
    <3> QED
      BY <1>3, <1>4, <2>1, <3>1
  <2> QED
    BY <2>2, <2>3
<1> QED
  BY <1>1, <1>4 DEF Ordered

\* Taking the head of a queue in order leaves it in order, behind the head's keys.
LEMMA OrderTaken ==
  ASSUME NEW p, NEW q \in Seq(ToAgent), q # <<>>, Ordered(p, q)
  PROVE  Ordered(p, Tail(q)) /\ Follows(p, Gens(p, Head(q)), Tail(q))
<1>1. PICK r \in Seq(ToAgent) : r = Tail(q)
  BY RangeOfTail
<1>2. /\ Len(q) \in Nat /\ Len(r) = Len(q) - 1 /\ Head(q) = q[1]
      /\ \A i \in 1 .. Len(r) : r[i] = q[i + 1]
  BY <1>1, HeadTailProperties
<1>3. \A i \in 1 .. Len(r) : i + 1 \in 1 .. Len(q) /\ 1 \in 1 .. Len(q) /\ 1 < i + 1
  BY <1>2
<1>4. Ordered(p, r)
  <2>1. ASSUME NEW i \in 1 .. Len(r), NEW j \in 1 .. Len(r), i < j, r[j].type # "register_ack",
               NEW a \in Gens(p, r[i]), NEW b \in Gens(p, r[j])
        PROVE  a <= b
    <3>1. i + 1 < j + 1 /\ i + 1 \in 1 .. Len(q) /\ j + 1 \in 1 .. Len(q)
      BY <1>3, <2>1
    <3>2. r[i] = q[i + 1] /\ r[j] = q[j + 1]
      BY <1>2
    <3> QED
      BY <2>1, <3>1, <3>2 DEF Ordered
  <2> QED
    BY <2>1 DEF Ordered
<1>5. Follows(p, Gens(p, Head(q)), r)
  <2>1. ASSUME NEW f \in Range(r), f.type # "register_ack", NEW a \in Gens(p, Head(q)), NEW b \in Gens(p, f)
        PROVE  a <= b
    <3>1. PICK i \in 1 .. Len(r) : f = r[i]
      BY RangeOfQueue
    <3>2. f = q[i + 1]
      BY <1>2, <3>1
    <3> QED
      BY <1>2, <1>3, <2>1, <3>2 DEF Ordered
  <2> QED
    BY <2>1 DEF Follows
<1> QED
  BY <1>1, <1>4, <1>5

\* A key that p has had, not newer than the one the hub knows.
Old(p, a) == a <= key[p] /\ (p \notin revokedDB => lastWG[p] # None /\ a <= lastWG[p])

\* The keys of p that n has, or will be given on its connection.
Given(n, p) == Offers(p, out[conn[n]])
                 \cup (IF pc[conn[n]] = "ack" THEN SpecGens(p, exp[conn[n]]) ELSE {})
                 \cup (IF phase[n] = "up" THEN Held(n, p) ELSE {})

\* An agent is given the keys of a peer in the order in which they were made.
Age(n, p) ==
  conn[n] # None /\ hubSt[conn[n]] # "none" /\ {p} \notin torn =>
    /\ Ordered(p, out[conn[n]])
    /\ phase[n] = "up" => Follows(p, Held(n, p), out[conn[n]])
    /\ \A a \in Given(n, p) : Old(p, a)
AgeInv == \A n, p \in Node : Age(n, p)

\* A key that is old stays old.
LEMMA OldKept ==
  ASSUME PathsInv, PathsInv', Advance, NEW p \in Node, NEW a \in Nat, {p} \notin torn', Old(p, a)
  PROVE  Old(p, a)'
<1>1. /\ key[p] \in Nat /\ key'[p] \in Nat /\ lastWG[p] \in Nat \cup {None} /\ lastWG'[p] \in Nat \cup {None}
  BY DEF PathsInv, FreshInv, BaseInv, Types, WgTypes, HubTypes, Gen
<1>2. a <= key'[p]
  BY <1>1 DEF Old, Advance
<1>3. ASSUME p \notin revokedDB' PROVE lastWG'[p] # None /\ a <= lastWG'[p]
  <2>1. p \in Node \ revokedDB /\ lastWG[p] # None /\ a <= lastWG[p]
    BY <1>3 DEF Old, Advance
  <2>2. lastWG'[p] # None /\ lastWG[p] <= lastWG'[p]
    BY <2>1 DEF Advance
  <2> QED
    BY <1>1, <2>1, <2>2
<1> QED
  BY <1>2, <1>3 DEF Old

\* The key that the hub has of a peer is old from then on.
LEMMA NewIsOld ==
  ASSUME PathsInv', NEW p \in Node, NEW a \in Nat, a = lastWG'[p]
  PROVE  Old(p, a)'
<1>1. a # None /\ a <= key'[p] /\ a <= a
  BY NoneAssumption DEF PathsInv, FreshInv, KeyInv, NodeOk
<1> QED
  BY <1>1 DEF Old

\* The queues that a step leaves are in order.
LEMMA AgeFed ==
  ASSUME PathsInv, PathsInv', Advance, NEW n \in Node, NEW p \in Node, {p} \notin torn',
         NEW c \in Sess, c = conn[n], Fed(c), hubSt[c] # "none", Age(n, p)
  PROVE  /\ Ordered(p, out'[c])
         /\ phase[n] = "up" => Follows(p, Held(n, p), out'[c])
         /\ \A a \in Offers(p, out'[c]) : Old(p, a)'
<1>1. PICK q \in Seq(ToAgent) : q = out[c]
  BY DEF PathsInv, FreshInv, BaseInv, Types, ChanTypes
<1>2. {p} \notin torn /\ conn[n] # None
  BY NoneIsNoSession DEF Advance
<1>3. /\ Ordered(p, q) /\ (phase[n] = "up" => Follows(p, Held(n, p), q))
      /\ \A a \in Offers(p, q) : Old(p, a)
      /\ pc[c] = "ack" => \A a \in SpecGens(p, exp[c]) : Old(p, a)
      /\ phase[n] = "up" => \A a \in Held(n, p) : Old(p, a)
  BY <1>1, <1>2 DEF Age, Given
<1>4. \A a \in Offers(p, q) : a \in Nat /\ Old(p, a)'
  <2>1. \A f \in Range(q) : Gens(p, f) \subseteq Nat
    BY GensAreGens, RangeOfQueue
  <2>2. Offers(p, q) \subseteq Nat
    BY <2>1 DEF Offers
  <2> QED
    BY <1>3, <2>2, OldKept
<1>5. ASSUME NEW r, Range(r) \subseteq Range(q), out'[c] = r, Ordered(p, r)
      PROVE  /\ phase[n] = "up" => Follows(p, Held(n, p), r)
             /\ \A a \in Offers(p, r) : Old(p, a)'
  <2>1. Offers(p, r) \subseteq Offers(p, q)
    BY <1>5 DEF Offers
  <2> QED
    BY <1>3, <1>4, <1>5, <2>1 DEF Follows
<1>6. CASE out'[c] \in {q, <<>>} \/ (q # <<>> /\ out'[c] = Tail(q))
  <2>1. Ordered(p, <<>>) /\ Range(<<>>) = {}
    <3>1. Len(<<>>) = 0 /\ Range(<<>>) = {}
      BY DEF Range
    <3> QED
      BY <3>1 DEF Ordered
  <2>2. PICK r : r = out'[c]
    OBVIOUS
  <2>3. q # <<>> => Range(Tail(q)) \subseteq Range(q) /\ Ordered(p, Tail(q))
    BY <1>3, RangeOfTail, OrderTaken
  <2>4. Range(r) \subseteq Range(q) /\ Ordered(p, r)
    BY <1>3, <1>6, <2>1, <2>2, <2>3
  <2> QED
    BY <1>5, <2>2, <2>4
<1>7. ASSUME NEW f \in ToAgent, f.type = "error", out'[c] = <<f>>
      PROVE  /\ Ordered(p, out'[c])
             /\ phase[n] = "up" => Follows(p, Held(n, p), out'[c])
             /\ \A a \in Offers(p, out'[c]) : Old(p, a)'
  <2>1. Gens(p, f) = {} /\ Range(<<f>>) = {f} /\ Len(<<f>>) = 1
    BY <1>7 DEF Gens, Sets, Range
  <2>2. Ordered(p, <<f>>)
    BY <2>1 DEF Ordered
  <2> QED
    BY <1>7, <2>1, <2>2 DEF Follows, Offers
<1>8. ASSUME NEW f \in ToAgent, Says(c, f), out'[c] = Append(q, f)
      PROVE  /\ Ordered(p, out'[c])
             /\ phase[n] = "up" => Follows(p, Held(n, p), out'[c])
             /\ \A a \in Offers(p, out'[c]) : Old(p, a)'
  <2>1. Gens(p, f) \subseteq Nat
    BY GensAreGens
  <2>2. ASSUME f.type = "register_ack", NEW b \in Gens(p, f) PROVE Old(p, b)'
    <3>1. b \in SpecGens(p, exp[c]) /\ pc[c] = "ack"
      BY <1>8, <2>2 DEF Says, Gens
    <3> QED
      BY <1>3, <2>1, <3>1, OldKept
  <2>3. ASSUME f.type # "register_ack", NEW b \in Gens(p, f)
        PROVE  b = lastWG'[p] /\ p \notin revokedDB
    <3>1. Sets(p, f) /\ b = f.spec.gen
      BY <2>3 DEF Gens
    <3> QED
      BY <1>8, <3>1 DEF Sets, Says
  <2>4. ASSUME NEW a \in Nat, Old(p, a), f.type # "register_ack", NEW b \in Gens(p, f) PROVE a <= b
    <3>1. p \in Node \ revokedDB /\ lastWG[p] # None /\ a <= lastWG[p] /\ b = lastWG'[p]
      BY <2>3, <2>4 DEF Old
    <3>2. lastWG[p] <= lastWG'[p]
      BY <3>1 DEF Advance
    <3>3. lastWG[p] \in Nat /\ b \in Nat
      BY <2>1, <3>1 DEF PathsInv, FreshInv, BaseInv, Types, HubTypes, Gen
    <3> QED
      BY <3>1, <3>2, <3>3
  <2>5. Range(Append(q, f)) = Range(q) \cup {f}
    BY RangeOfAppend
  <2>6. Ordered(p, Append(q, f))
    BY <1>3, <1>4, <2>4, OrderAppended
  <2>7. \A a \in Gens(p, f) : Old(p, a)'
    BY <2>1, <2>2, <2>3, NewIsOld
  <2>8. ASSUME phase[n] = "up" PROVE Follows(p, Held(n, p), Append(q, f))
    <3>1. Held(n, p) \subseteq Nat
      <4>1. dev[n] \in Device
        BY DEF PathsInv, FreshInv, BaseInv, Types, WgTypes
      <4> QED
        BY <4>1 DEF Held, Device, Key, Gen
    <3> QED
      BY <1>3, <2>4, <2>5, <2>8, <3>1 DEF Follows
  <2> QED
    BY <1>4, <1>8, <2>5, <2>6, <2>7, <2>8 DEF Offers
<1> QED
  BY <1>1, <1>6, <1>7, <1>8 DEF Fed
\* The agent stays as it is; frames may come to its queue, or leave it.
LEMMA AgeKept ==
  ASSUME PathsInv, PathsInv', Advance, NEW n \in Node, NEW p \in Node, Age(n, p),
         conn'[n] = conn[n], phase'[n] = phase[n], dev'[n] = dev[n],
         \A c \in Sess : c = conn[n] => Fed(c) /\ (hubSt'[c] # "none" => hubSt[c] # "none")
  PROVE  Age(n, p)'
<1> SUFFICES ASSUME conn'[n] # None, hubSt'[conn'[n]] # "none", {p} \notin torn'
             PROVE  Age(n, p)'
  BY DEF Age
<1>1. PICK c \in Sess : c = conn[n] /\ Fed(c) /\ hubSt[c] # "none"
  BY TalkFacts
<1>2. /\ Ordered(p, out'[c])
      /\ phase[n] = "up" => Follows(p, Held(n, p), out'[c])
      /\ \A a \in Offers(p, out'[c]) : Old(p, a)'
  BY <1>1, AgeFed
<1>3. {p} \notin torn
  BY DEF Advance
<1>4. Held(n, p)' = Held(n, p)
  BY DEF Held
<1>5. /\ pc[c] = "ack" => \A a \in SpecGens(p, exp[c]) : Old(p, a)
      /\ phase[n] = "up" => \A a \in Held(n, p) : Old(p, a)
  BY <1>1, <1>3 DEF Age, Given
<1>6. ASSUME phase[n] = "up", NEW a \in Held(n, p) PROVE Old(p, a)'
  <2>1. dev[n] \in Device
    BY DEF PathsInv, FreshInv, BaseInv, Types, WgTypes
  <2>2. a \in Nat
    BY <1>6, <2>1 DEF Held, Device, Key, Gen
  <2> QED
    BY <1>5, <1>6, <2>2, OldKept
<1>7. ASSUME pc'[c] = "ack", NEW a \in SpecGens(p, exp'[c]) PROVE Old(p, a)'
  <2>1. exp[c] \in SUBSET PeerSpec /\ exp'[c] \in SUBSET PeerSpec
    BY DEF PathsInv, FreshInv, BaseInv, Types, SessVarTypes
  <2>2. a \in Nat
    BY <1>7, <2>1, GensAreGens
  <2>3. CASE pc[c] = "ack" /\ exp'[c] = exp[c]
    BY <1>5, <1>7, <2>2, <2>3, OldKept
  <2>4. CASE \A sp \in exp'[c] : sp.valid => sp.peer \notin revokedDB /\ sp.gen = lastWG'[sp.peer]
    <3>1. a = lastWG'[p]
      BY <1>7, <2>4 DEF SpecGens
    <3> QED
      BY <2>2, <3>1, NewIsOld
  <2> QED
    BY <1>7, <2>3, <2>4 DEF Advance
<1>8. conn'[n] = c
  BY <1>1
<1>9. \A a \in Given(n, p)' : Old(p, a)'
  BY <1>2, <1>4, <1>6, <1>7, <1>8 DEF Given, Offers
<1> QED
  BY <1>2, <1>4, <1>8, <1>9 DEF Age

\* The agent takes a frame, and then has of p no other keys than before and
\* those of the frame.
LEMMA AgeTaken ==
  ASSUME PathsInv, PathsInv', Advance, NEW n \in Node, NEW p \in Node, Age(n, p), HasFrame(n),
         NEW c \in Sess, c = conn[n], conn'[n] = c, out'[c] = Tail(out[c]), pc'[c] = "idle",
         phase'[n] = "up", hubSt' = hubSt,
         NEW H, H = Held(n, p)',
         H \subseteq Gens(p, Frame(n)) \cup (IF phase[n] = "up" THEN Held(n, p) ELSE {})
  PROVE  Age(n, p)'
<1> SUFFICES ASSUME hubSt'[c] # "none", {p} \notin torn' PROVE Age(n, p)'
  BY DEF Age
<1>1. PICK q \in Seq(ToAgent) : q = out[c] /\ q # <<>> /\ Frame(n) = Head(q)
  BY DEF HasFrame, Frame, PathsInv, FreshInv, BaseInv, Types, ChanTypes
<1>2. {p} \notin torn /\ conn[n] # None /\ Fed(c)
  BY <1>1, NoneIsNoSession DEF Advance, Fed
<1>3. /\ Ordered(p, q) /\ (phase[n] = "up" => Follows(p, Held(n, p), q))
      /\ phase[n] = "up" => \A a \in Held(n, p) : Old(p, a)
      /\ \A a \in Offers(p, q) : Old(p, a)
  BY <1>1, <1>2 DEF Age, Given
<1>4. /\ Ordered(p, Tail(q)) /\ Follows(p, Gens(p, Head(q)), Tail(q))
      /\ Head(q) \in Range(q) /\ Range(Tail(q)) \subseteq Range(q)
  BY <1>1, <1>3, OrderTaken, RangeOfTail
<1>5. \A a \in Offers(p, out'[c]) : Old(p, a)'
  BY <1>2, AgeFed
<1>6. dev'[n] \in Device
  BY DEF PathsInv, FreshInv, BaseInv, Types, WgTypes
<1>7. ASSUME NEW a \in H PROVE a \in Nat /\ Old(p, a)'
  <2>1. a \in Nat
    BY <1>6 DEF Held, Device, Key, Gen
  <2>2. a \in Gens(p, Head(q)) => a \in Offers(p, q)
    BY <1>4 DEF Offers
  <2>3. Old(p, a)
    BY <1>1, <1>3, <2>2
  <2> QED
    BY <2>1, <2>3, OldKept
<1>8. Follows(p, H, Tail(q))
  BY <1>1, <1>3, <1>4 DEF Follows
<1>9. \A a \in Given(n, p)' : Old(p, a)'
  BY <1>5, <1>7 DEF Given, Offers
<1> QED
  BY <1>1, <1>4, <1>8, <1>9 DEF Age

\* A configured peer brings its own key only, and a dropped one none.
LEMMA PeersBrought ==
  ASSUME NEW d \in Device
  PROVE  /\ \A sp \in PeerSpec : AddPeer(d, sp).peers \subseteq d.peers \cup {<<sp.peer, sp.gen>>}
         /\ \A sp \in PeerSpec : UpdatePeer(d, sp).peers \subseteq d.peers \cup {<<sp.peer, sp.gen>>}
         /\ \A k : RemovePeer(d, k).peers \subseteq d.peers
<1>1. \A k : RemovePeer(d, k).peers \subseteq d.peers
  BY DEF RemovePeer
<1>2. \A e, sp : AddPeer(e, sp).peers = e.peers \cup {<<sp.peer, sp.gen>>}
  BY DEF AddPeer
<1>3. ASSUME NEW sp \in PeerSpec
      PROVE  UpdatePeer(d, sp).peers \subseteq d.peers \cup {<<sp.peer, sp.gen>>}
  <2>1. PICK old : old = d.keys[sp.peer]
    OBVIOUS
  <2>2. PICK b : b = IF old \notin {None, sp.gen} THEN RemovePeer(d, <<sp.peer, old>>) ELSE d
    OBVIOUS
  <2>3. UpdatePeer(d, sp) = AddPeer(b, sp)
    BY <2>1, <2>2 DEF UpdatePeer
  <2>4. b.peers \subseteq d.peers
    BY <1>1, <2>2
  <2> QED
    BY <1>2, <2>3, <2>4
<1> QED
  BY <1>1, <1>2, <1>3

\* What the agent takes from its queue moves from the offers to what it was given.
LEMMA TakingAge ==
  ASSUME PathsInv, PathsInv', Advance, NEW n \in Node, NEW p \in Node, Age(n, p),
         RegisterAck(n) \/ ApplyPeer(n) \/ ApplyRemove(n) \/ ApplyPeerFails(n)
  PROVE  Age(n, p)'
<1>1. /\ HasFrame(n) /\ (phase[n] = "up" \/ Frame(n).type = "register_ack")
      /\ hubSt' = hubSt /\ pc' = pc
  BY DEF RegisterAck, ApplyPeer, ApplyRemove, ApplyPeerFails, sessVars
<1>2. PICK c \in Sess : c = conn[n] /\ pc'[c] = "idle"
  BY <1>1, AgentIdle
<1>3. /\ conn \in [Node -> Sess \cup {None}] /\ phase \in [Node -> {"down", "registering", "up", "gone"}]
      /\ dev \in [Node -> Device] /\ out \in [Sess -> Seq(ToAgent)] /\ dev'[n] \in Device
  BY DEF PathsInv, FreshInv, BaseInv, Types, ConnTypes, ChanTypes, WgTypes
<1>4. conn'[n] = c /\ out'[c] = Tail(out[c]) /\ phase'[n] = "up"
  BY <1>1, <1>2, <1>3 DEF RegisterAck, ApplyPeer, ApplyRemove, ApplyPeerFails, Consume
<1>5. PICK f \in ToAgent : f = Frame(n)
  BY <1>1, FrameType DEF PathsInv, FreshInv, BaseInv
<1>6. PICK d \in Device, e \in Device : d = dev[n] /\ e = dev'[n]
  BY <1>3
<1>7. PICK H : H = {k[2] : k \in {x \in e.peers : x[1] = p}}
  OBVIOUS
<1>8. H = Held(n, p)' /\ Held(n, p) = {k[2] : k \in {x \in d.peers : x[1] = p}}
  BY <1>6, <1>7 DEF Held
<1>9. H \subseteq Gens(p, f) \cup (IF phase[n] = "up" THEN Held(n, p) ELSE {})
  <2>1. CASE RegisterAck(n)
    <3>1. PICK S \in SUBSET PeerSpec : S = f.peers /\ \A sp \in S : sp.valid
      BY <1>1, <1>5, <2>1, FrameType DEF RegisterAck, PathsInv, FreshInv, BaseInv
    <3>2. f.type = "register_ack" /\ e = Reconcile(S)
      BY <1>3, <1>5, <1>6, <2>1, <3>1 DEF RegisterAck
    <3>3. e.peers = {<<sp.peer, sp.gen>> : sp \in S}
      BY <3>2 DEF Reconcile
    <3>4. Gens(p, f) = {sp.gen : sp \in {x \in S : x.peer = p /\ x.valid}}
      BY <3>1, <3>2 DEF Gens, SpecGens
    <3>5. ASSUME NEW k \in e.peers, k[1] = p PROVE k[2] \in Gens(p, f)
      <4>1. PICK sp \in S : k = <<sp.peer, sp.gen>>
        BY <3>3
      <4> QED
        BY <3>1, <3>4, <3>5, <4>1
    <3> QED
      BY <1>7, <3>5
  <2>2. CASE ApplyPeer(n)
    <3>1. PICK sp \in PeerSpec : sp = f.spec /\ sp.valid
      BY <1>1, <1>5, <2>2, FrameType DEF ApplyPeer, PathsInv, FreshInv, BaseInv
    <3>2. PICK k \in Key : k = <<sp.peer, sp.gen>>
      BY DEF PeerSpec, Key
    <3>3. e \in {AddPeer(d, sp), UpdatePeer(d, sp)}
      BY <1>3, <1>5, <1>6, <2>2, <3>1 DEF ApplyPeer
    <3>4. e.peers \subseteq d.peers \cup {k}
      BY <3>2, <3>3, PeersBrought
    <3>5. ASSUME k[1] = p PROVE k[2] \in Gens(p, f)
      BY <1>5, <2>2, <3>1, <3>2, <3>5 DEF Gens, Sets, ApplyPeer
    <3>6. phase[n] = "up"
      BY <2>2 DEF ApplyPeer
    <3> QED
      BY <1>7, <1>8, <3>4, <3>5, <3>6
  <2>3. CASE ApplyRemove(n) \/ ApplyPeerFails(n)
    <3>1. \E k : e \in {d, RemovePeer(d, k)}
      BY <1>3, <1>6, <2>3 DEF ApplyRemove, ApplyPeerFails
    <3>2. e.peers \subseteq d.peers /\ phase[n] = "up"
      BY <2>3, <3>1, PeersBrought DEF ApplyRemove, ApplyPeerFails
    <3> QED
      BY <1>7, <1>8, <3>2
  <2> QED
    BY <2>1, <2>2, <2>3
<1> QED
  BY <1>1, <1>2, <1>4, <1>5, <1>8, <1>9, AgeTaken

\* The agent leaves its connection, or starts one; the hub stops.
LEMMA LeavingAge ==
  ASSUME PathsInv, NEW n \in Node, NEW p \in Node,
         \/ \E s \in Sess : Connect(n, s)
         \/ ApplyRotate(n) \/ ApplyKick(n) \/ LoseConn(n) \/ RegisterFails(n) \/ AgentRestart(n)
         \/ HubRestart
  PROVE  Age(n, p)'
<1>1. /\ conn \in [Node -> Sess \cup {None}] /\ phase \in [Node -> {"down", "registering", "up", "gone"}]
      /\ out \in [Sess -> Seq(ToAgent)] /\ hubSt \in [Sess -> {"none", "checked", "open", "closed"}]
  BY DEF PathsInv, FreshInv, BaseInv, Types, ConnTypes, ChanTypes
<1>2. CASE ApplyRotate(n) \/ ApplyKick(n) \/ LoseConn(n) \/ RegisterFails(n) \/ AgentRestart(n)
  <2>1. conn'[n] = None
    BY <1>1, <1>2 DEF ApplyRotate, ApplyKick, LoseConn, RegisterFails, AgentRestart, Hangup
  <2> QED
    BY <2>1 DEF Age
<1>3. CASE HubRestart
  <2>1. \A c \in Sess : hubSt'[c] = "none"
    BY <1>3 DEF HubRestart
  <2>2. conn'[n] \in Sess \cup {None}
    BY <1>1, <1>3 DEF HubRestart, agentVars
  <2> QED
    BY <2>1, <2>2 DEF Age
<1>4. ASSUME NEW s \in Sess, Connect(n, s) PROVE Age(n, p)'
  <2>1. /\ phase[n] = "down" /\ Owner(s) = n /\ hubSt[s] = "none" /\ pc' = pc
        /\ phase'[n] = "registering" /\ conn'[n] = s /\ HandleConn(n, s)
    BY <1>1, <1>4 DEF Connect, sessVars
  <2>2. conn[n] = None
    BY <2>1 DEF PathsInv, FreshInv, KeyInv, NodeOk
  <2>3. out[s] = <<>> /\ pc'[s] = "idle"
    BY <2>1, <2>2, NoneIsNoSession DEF PathsInv, FreshInv, KeyInv, SlotOk
  <2>4. CASE n \in revokedDB
    <3>1. hubSt'[s] = "none"
      BY <2>1, <2>4 DEF HandleConn
    <3> QED
      BY <2>1, <3>1 DEF Age
  <2>5. CASE n \notin revokedDB
    <3>1. out'[s] = <<>> /\ Len(<<>>) = 0 /\ Range(<<>>) = {}
      BY <2>1, <2>3, <2>5 DEF HandleConn, Range
    <3>2. Ordered(p, out'[s])
      BY <3>1 DEF Ordered
    <3>3. Given(n, p)' = {}
      BY <2>1, <2>3, <3>1 DEF Given, Offers
    <3> QED
      BY <2>1, <3>2, <3>3 DEF Age
  <2> QED
    BY <2>4, <2>5
<1> QED
  BY <1>2, <1>3, <1>4

\* Steps of the hub and of the admin leave the agents alone, and do not admit
\* a connection that they do not know.
LEMMA HubsKeep ==
  ASSUME PathsInv,
         \/ \E s \in Sess : SessionStep(s) \/ CloseConn(s)
         \/ \E t \in todo : RequestStep(t)
         \/ AdminStep \/ (\E g \in Node : GcOfflinePeer(g)) \/ UNCHANGED vars
  PROVE  /\ UNCHANGED agentVars
         /\ \A c \in Sess : hubSt'[c] # "none" => hubSt[c] # "none"
<1>1. hubSt \in [Sess -> {"none", "checked", "open", "closed"}]
  BY DEF PathsInv, FreshInv, BaseInv, Types, ChanTypes
<1>2. ASSUME NEW s \in Sess, SessionStep(s) \/ CloseConn(s)
      PROVE  /\ UNCHANGED agentVars
             /\ \A c \in Sess : hubSt'[c] # "none" => hubSt[c] # "none"
  BY <1>1, <1>2 DEF SessionStep, RunSession, ReadRegister, HandleRegister, SendRegisterAck, HandleAck,
                    CloseConn, DropSession, Send, OverflowClosed
<1>3. ASSUME NEW t \in todo, RequestStep(t)
      PROVE  /\ UNCHANGED agentVars
             /\ \A c \in Sess : hubSt'[c] # "none" => hubSt[c] # "none"
  BY <1>1, <1>3 DEF RequestStep, StoreCreateLink, PushLink, RemoveLink, DeleteNodeTx, DeleteNodeCascade,
                    DeleteNodeKick, KickClose, DeleteNodeForget, chanVars, Send, OverflowClosed
<1>4. ASSUME AdminStep \/ (\E g \in Node : GcOfflinePeer(g)) \/ UNCHANGED vars
      PROVE  /\ UNCHANGED agentVars
             /\ \A c \in Sess : hubSt'[c] # "none" => hubSt[c] # "none"
  BY <1>1, <1>4 DEF AdminStep, ApiCreateLink, DeleteLink, SetLinkExit, RotateWG, DeleteNode, GcOfflinePeer,
                    vars, chanVars, Send, OverflowClosed
<1> QED
  BY <1>2, <1>3, <1>4

\* Keys in the queue follow those on the device after every step.
LEMMA AgeStep == PathsInv /\ AgeInv /\ [Next]_vars => AgeInv'
<1> SUFFICES ASSUME PathsInv, AgeInv, [Next]_vars, NEW n \in Node, NEW p \in Node PROVE Age(n, p)'
  BY DEF AgeInv
<1>1. PathsInv' /\ Age(n, p) /\ \A c \in Sess : Fed(c)
  BY PathsStep, StepFeeds DEF AgeInv
<1>2. CASE \/ \E s \in Sess : Connect(n, s)
           \/ ApplyRotate(n) \/ ApplyKick(n) \/ LoseConn(n) \/ RegisterFails(n) \/ AgentRestart(n)
           \/ HubRestart
  BY <1>2, LeavingAge
<1>3. CASE ~HubRestart /\ (RegisterAck(n) \/ ApplyPeer(n) \/ ApplyRemove(n) \/ ApplyPeerFails(n))
  BY <1>1, <1>3, StepAdvances, TakingAge
<1>4. CASE /\ ~HubRestart
           /\ \/ \E s \in Sess : SessionStep(s) \/ CloseConn(s)
              \/ \E t \in todo : RequestStep(t)
              \/ AdminStep \/ (\E g \in Node : GcOfflinePeer(g)) \/ UNCHANGED vars
  <2>1. /\ UNCHANGED <<conn, phase, dev>>
        /\ \A c \in Sess : hubSt'[c] # "none" => hubSt[c] # "none"
    BY <1>4, HubsKeep DEF agentVars, wgVars
  <2> QED
    BY <1>1, <1>4, <2>1, StepAdvances, AgeKept
<1>5. ASSUME ~HubRestart, NEW m \in Node, m # n,
             \/ AgentStep(m) \/ LoseConn(m) \/ RegisterFails(m) \/ ApplyPeerFails(m) \/ AgentRestart(m)
      PROVE  Age(n, p)'
  <2>1. conn \in [Node -> Sess \cup {None}]
    BY DEF PathsInv, FreshInv, BaseInv, Types, ConnTypes
  <2>2. CASE conn[n] = None
    <3>1. conn'[n] = None
      BY <1>5, <2>1, <2>2
         DEF AgentStep, Connect, RegisterAck, ApplyPeer, ApplyRemove, ApplyRotate, ApplyKick, LoseConn,
             RegisterFails, ApplyPeerFails, AgentRestart, Hangup, Consume
    <3> QED
      BY <3>1 DEF Age
  <2>3. CASE conn[n] # None
    <3>1. PICK c \in Sess : c = conn[n]
      BY <2>1, <2>3
    <3>2. /\ conn'[n] = conn[n] /\ phase'[n] = phase[n] /\ dev'[n] = dev[n] /\ hubSt'[c] = hubSt[c]
      BY <1>5, <3>1, AgentsAreApart
    <3> QED
      BY <1>1, <1>5, <3>1, <3>2, StepAdvances, AgeKept
  <2> QED
    BY <2>2, <2>3
<1> QED
  BY <1>2, <1>3, <1>4, <1>5 DEF Next, AgentStep, Fault
------------------------------------------------------------------------------
(* What takes a key of a peer off a device                                  *)

\* Initially nobody is connected, and nothing is queued.
LEMMA CutInit == Init => NameInv /\ AgeInv
<1>1. Range(<<>>) = {}
  BY DEF Range
<1> QED
  BY <1>1 DEF Init, NameInv, AgeInv, Age

\* Names and keys in order hold of every reachable state.
LEMMA CutInv == Spec => [](PathsInv /\ NameInv /\ AgeInv)
<1>1. PathsInv /\ NameInv /\ AgeInv /\ [Next]_vars => PathsInv' /\ NameInv' /\ AgeInv'
  BY PathsStep, NameStep, AgeStep
<1> QED
  BY PathsInit, CutInit, <1>1, PTL DEF Spec

\* The peer's key is dropped while link, peer and key stay.
Cut(l, n, o) ==
  /\ conn[n] # None /\ hubSt[conn[n]] # "none"
  /\ <<o, key[o]>> \in dev[n].peers /\ <<o, key'[o]>> \notin dev'[n].peers
  /\ key'[o] = key[o] /\ {l.ends, {o}} \cap torn' = {}

\* A configured peer leaves the keys of the other peers, and its own if it is
\* the one configured.
LEMMA PeersSpared ==
  ASSUME NEW d \in Device, NEW sp \in PeerSpec, NEW k \in d.peers,
         k[1] # sp.peer \/ k = <<sp.peer, sp.gen>>
  PROVE  k \in AddPeer(d, sp).peers /\ k \in UpdatePeer(d, sp).peers
<1>1. \A e : AddPeer(e, sp).peers = e.peers \cup {<<sp.peer, sp.gen>>}
  BY DEF AddPeer
<1>2. PICK old : old = d.keys[sp.peer]
  OBVIOUS
<1>3. PICK b : b = IF old \notin {None, sp.gen} THEN RemovePeer(d, <<sp.peer, old>>) ELSE d
  OBVIOUS
<1>4. UpdatePeer(d, sp) = AddPeer(b, sp)
  BY <1>2, <1>3 DEF UpdatePeer
<1>5. k \in b.peers \/ k = <<sp.peer, sp.gen>>
  <2>1. RemovePeer(d, <<sp.peer, old>>).peers = d.peers \ {<<sp.peer, old>>}
    BY DEF RemovePeer
  <2>2. k = <<sp.peer, old>> => k[1] = sp.peer
    OBVIOUS
  <2> QED
    BY <1>3, <2>1, <2>2
<1> QED
  BY <1>1, <1>4, <1>5

\* A push never drops the key in use: the key it names is as new.
LEMMA PushSpares ==
  ASSUME PathsInv, AgeInv, [Next]_vars, NEW l \in store, NEW n \in l.ends, NEW o \in Node, o = Other(l, n),
         n \in Node, ApplyPeer(n), Cut(l, n, o)
  PROVE  FALSE
<1>1. /\ HasFrame(n) /\ phase[n] = "up" /\ torn' = torn /\ Frame(n).type \in {"peer_add", "peer_update"}
  BY DEF ApplyPeer
<1>2. PICK f \in ToAgent : f = Frame(n) /\ f.type \in {"peer_add", "peer_update"}
  BY <1>1, FrameType DEF PathsInv, FreshInv, BaseInv
<1>3. PICK sp \in PeerSpec : sp = f.spec /\ sp.valid
  BY <1>1, <1>2, FrameType DEF ApplyPeer, PathsInv, FreshInv, BaseInv
<1>4. /\ dev \in [Node -> Device] /\ key \in [Node -> Nat] /\ out \in [Sess -> Seq(ToAgent)]
  BY DEF PathsInv, FreshInv, BaseInv, Types, WgTypes, ChanTypes, Gen
<1>5. PICK d, k : d \in Device /\ d = dev[n] /\ k = <<o, key[o]>>
  BY <1>4
<1>6. dev'[n] \in {AddPeer(d, sp), UpdatePeer(d, sp)}
  BY <1>2, <1>3, <1>4, <1>5 DEF ApplyPeer
<1>7. k \in d.peers /\ k \notin dev'[n].peers
  BY <1>5 DEF Cut
<1>8. k[1] = sp.peer /\ k # <<sp.peer, sp.gen>>
  BY <1>5, <1>6, <1>7, PeersSpared
<1>9. o = sp.peer /\ sp.gen # key[o] /\ sp.gen \in Nat
  BY <1>5, <1>8 DEF PeerSpec, Gen
<1>10. PICK c \in Sess, q \in Seq(ToAgent) : c = conn[n] /\ q = out[c] /\ f = Head(q) /\ q # <<>>
  BY <1>1, <1>2, <1>4, FrameType DEF HasFrame, Frame, PathsInv, FreshInv, BaseInv
<1>11. f \in Range(q)
  BY <1>10, RangeOfTail
<1>12. Follows(o, Held(n, o), q) /\ \A a \in Given(n, o) : Old(o, a)
  BY <1>1, <1>10 DEF AgeInv, Age, Cut
<1>13. sp.gen \in Gens(o, f) /\ f.type # "register_ack"
  BY <1>2, <1>3, <1>9 DEF Gens, Sets
<1>14. key[o] \in Held(n, o)
  BY <1>5, <1>7 DEF Held
<1>15. key[o] <= sp.gen
  BY <1>11, <1>12, <1>13, <1>14 DEF Follows
<1>16. sp.gen \in Given(n, o)
  BY <1>10, <1>11, <1>13 DEF Given, Offers
<1>17. sp.gen <= key[o]
  BY <1>12, <1>16 DEF Old
<1> QED
  BY <1>4, <1>9, <1>15, <1>17

\* A refused push drops a key of the peer that it names, and is noted.
LEMMA RefusalSpares ==
  ASSUME PathsInv, NEW l \in store, NEW n \in l.ends, NEW o \in Node, o = Other(l, n),
         n \in Node, ApplyPeerFails(n), Cut(l, n, o)
  PROVE  FALSE
<1>1. HasFrame(n) /\ Frame(n).type \in {"peer_add", "peer_update"}
  BY DEF ApplyPeerFails
<1>2. PICK sp \in PeerSpec : sp = Frame(n).spec
  BY <1>1, FrameType DEF PathsInv, FreshInv, BaseInv
<1>3. dev \in [Node -> Device]
  BY DEF PathsInv, FreshInv, BaseInv, Types, WgTypes
<1>4. PICK d, k : d \in Device /\ d = dev[n] /\ k = <<o, key[o]>>
  BY <1>3
<1>5. \E old : dev'[n] \in {d, RemovePeer(d, <<sp.peer, old>>)}
  BY <1>2, <1>3, <1>4 DEF ApplyPeerFails
<1>6. PICK old : dev'[n] \in {d, RemovePeer(d, <<sp.peer, old>>)}
  BY <1>5
<1>7. RemovePeer(d, <<sp.peer, old>>).peers = d.peers \ {<<sp.peer, old>>}
  BY DEF RemovePeer
<1>8. k \in d.peers /\ k \notin dev'[n].peers
  BY <1>4 DEF Cut
<1>9. k = <<sp.peer, old>>
  BY <1>6, <1>7, <1>8
<1>10. o = sp.peer
  BY <1>4, <1>9
<1>11. {n, sp.peer} \in torn'
  BY <1>2 DEF ApplyPeerFails
<1>12. l.ends = {n, o}
  BY PairOfEnds, RowsOfPaths
<1> QED
  BY <1>10, <1>11, <1>12 DEF Cut

\* A peer_remove that drops a key names no other row of the table.
LEMMA RemovalIsNamed ==
  ASSUME PathsInv, NameInv, NEW l \in store, NEW n \in l.ends, NEW o \in Node, o = Other(l, n),
         n \in Node, ApplyRemove(n), Cut(l, n, o)
  PROVE  Frame(n).type = "peer_remove" /\ Frame(n).link \notin {m.id : m \in store \ {l}}
<1>1. HasFrame(n) /\ Frame(n).type = "peer_remove"
  BY DEF ApplyRemove
<1>2. PICK f \in ToAgent : f = Frame(n) /\ f.type = "peer_remove"
  BY <1>1, FrameType DEF PathsInv, FreshInv, BaseInv
<1>3. dev \in [Node -> Device] /\ out \in [Sess -> Seq(ToAgent)]
  BY DEF PathsInv, FreshInv, BaseInv, Types, WgTypes, ChanTypes
<1>4. PICK d, k : d \in Device /\ d = dev[n] /\ k = <<o, key[o]>>
  BY <1>3
<1>5. dev'[n] \in {d, RemovePeer(d, f.wg)}
  BY <1>2, <1>3, <1>4 DEF ApplyRemove
<1>6. RemovePeer(d, f.wg).peers = d.peers \ {f.wg}
  BY DEF RemovePeer
<1>7. k \in d.peers /\ k \notin dev'[n].peers
  BY <1>4 DEF Cut
<1>8. k = f.wg
  BY <1>5, <1>6, <1>7
<1>9. f.wg[1] = o
  BY <1>4, <1>8
<1>10. PICK c \in Sess, q \in Seq(ToAgent) : c = conn[n] /\ q = out[c] /\ f = Head(q) /\ q # <<>>
  BY <1>1, <1>2, <1>3, FrameType DEF HasFrame, Frame, PathsInv, FreshInv, BaseInv
<1>11. f \in Range(q) /\ Owner(c) = n
  BY <1>10, RangeOfTail, TalkFacts, NoneIsNoSession
<1>12. Names(f.link, {n, o})
  BY <1>2, <1>9, <1>10, <1>11 DEF NameInv, Addressed
<1>13. l.ends = {n, o}
  BY PairOfEnds, RowsOfPaths
<1>14. ASSUME NEW m \in store, m.id = f.link PROVE m = l
  BY <1>12, <1>13, <1>14 DEF Names, PathsInv, FreshInv, BaseInv, LinksInv, OnePerPair
<1> QED
  BY <1>2, <1>14

\* The other steps leave the device, start a new key or end the agent.
LEMMA StepCuts ==
  ASSUME PathsInv, NameInv, AgeInv, [Next]_vars, NEW l \in store, NEW n \in l.ends, NEW o \in Node,
         o = Other(l, n), Cut(l, n, o)
  PROVE  \/ key'[n] # key[n] \/ phase'[n] = "gone" \/ phase[n] = "registering"
         \/ /\ Frame(n).type = "peer_remove"
            /\ Frame(n).link \notin {m.id : m \in store \ {l}}
<1>1. n \in Node
  BY RowsOfPaths DEF Link, Ends
<1>2. /\ key \in [Node -> Nat] /\ phase \in [Node -> {"down", "registering", "up", "gone"}]
      /\ dev \in [Node -> Device] /\ conn \in [Node -> Sess \cup {None}]
  BY DEF PathsInv, FreshInv, BaseInv, Types, WgTypes, ConnTypes, Gen
<1>3. dev'[n] # dev[n]
  BY DEF Cut
<1>4. PICK c \in Sess : c = conn[n]
  BY <1>1, <1>2 DEF Cut
<1>5. ~ \/ \E s \in Sess : SessionStep(s) \/ CloseConn(s)
        \/ \E t \in todo : RequestStep(t)
        \/ AdminStep \/ (\E g \in Node : GcOfflinePeer(g)) \/ UNCHANGED vars
  BY <1>3, HubsKeep DEF agentVars, wgVars
<1>6. ~HubRestart
  BY <1>3 DEF HubRestart, agentVars, wgVars
<1>7. ASSUME NEW m \in Node, m # n,
             \/ AgentStep(m) \/ LoseConn(m) \/ RegisterFails(m) \/ ApplyPeerFails(m) \/ AgentRestart(m)
      PROVE  FALSE
  BY <1>1, <1>3, <1>4, <1>7, AgentsAreApart
<1>8. ~(LoseConn(n) \/ RegisterFails(n) \/ \E s \in Sess : Connect(n, s))
  BY <1>3 DEF LoseConn, RegisterFails, Connect, wgVars
<1>9. ASSUME ApplyRotate(n) \/ AgentRestart(n) PROVE key'[n] # key[n]
  <2>1. key' = [key EXCEPT ![n] = @ + 1] /\ key[n] \in Nat
    BY <1>1, <1>2, <1>9 DEF ApplyRotate, AgentRestart
  <2> QED
    BY <1>1, <1>2, <2>1
<1>10. ASSUME ApplyKick(n) PROVE phase'[n] = "gone"
  BY <1>1, <1>2, <1>10 DEF ApplyKick, Hangup
<1>11. RegisterAck(n) => phase[n] = "registering"
  BY DEF RegisterAck
<1>12. ~ApplyPeer(n) /\ ~ApplyPeerFails(n)
  BY <1>1, PushSpares, RefusalSpares
<1>13. ApplyRemove(n) => /\ Frame(n).type = "peer_remove"
                         /\ Frame(n).link \notin {m.id : m \in store \ {l}}
  BY <1>1, RemovalIsNamed
<1> QED
  BY <1>1, <1>5, <1>6, <1>7, <1>8, <1>9, <1>10, <1>11, <1>12, <1>13 DEF Next, AgentStep, Fault

\* What an agent applies of a connection that the hub has not dropped never
\* takes down one direction of a tunnel whose link stays, for any number of
\* nodes, links and reconnections: only a changed key of its own, the exact peer
\* set of a register_ack, the collection of an offline node, or the withdrawal
\* of an earlier link of the pair does (dispatch, removeLinkFromPeers,
\* UpdatePeer).
THEOREM CutsAreMeant == Spec => CutsAreIntended
<1>1. PathsInv /\ NameInv /\ AgeInv /\ [Next]_vars =>
             [\A l \in store \cap store' : \A n \in l.ends :
                LET o == Other(l, n) IN
                ( /\ conn[n] # None /\ hubSt[conn[n]] # "none"
                  /\ <<o, key[o]>> \in dev[n].peers /\ <<o, key'[o]>> \notin dev'[n].peers
                  /\ key'[o] = key[o] /\ {l.ends, {o}} \cap torn' = {} )
                => \/ key'[n] # key[n] \/ phase'[n] = "gone"
                   \/ phase[n] = "registering"
                   \/ /\ Frame(n).type = "peer_remove"
                      /\ Frame(n).link \notin {m.id : m \in store \ {l}}]_vars
  <2> SUFFICES ASSUME PathsInv, NameInv, AgeInv, [Next]_vars
               PROVE  \A l \in store \cap store' : \A n \in l.ends :
                        LET o == Other(l, n) IN
                        Cut(l, n, o) => \/ key'[n] # key[n] \/ phase'[n] = "gone"
                                        \/ phase[n] = "registering"
                                        \/ /\ Frame(n).type = "peer_remove"
                                           /\ Frame(n).link \notin {m.id : m \in store \ {l}}
    BY DEF Cut
  <2>1. ASSUME NEW l \in store, NEW n \in l.ends, NEW o, o = Other(l, n) PROVE o \in Node
    <3>1. l \in Link /\ n \in Node
      BY RowsOfPaths DEF Link, Ends
    <3> QED
      BY <2>1, <3>1, OtherIsEnd
  <2> QED
    BY <2>1, StepCuts
<1> QED
  BY CutInv, <1>1, PTL DEF Spec, CutsAreIntended
------------------------------------------------------------------------------
(* The flags of a link                                                      *)

\* A request is still to push the link.
Unpushed(l) == \E t \in todo : t.op \in {"pushLink", "pushExit"} /\ t.link.id = l.id

\* Nothing about the link went wrong or is still to be pushed.
Calm(l) == l.ends \notin torn /\ l.ends \cap revokedDB = {} /\ ~Unpushed(l)

\* Between a push and the flag of a side there is a frame on its way to the
\* agent, or an ack on its way back.
Asked(c, i) == \E f \in Range(out[c]) : f.type \in {"peer_add", "peer_update"} /\ f.spec.link = i
Replied(c, i) == \E f \in Range(inb[c]) : f.type = "ack" /\ f.link = i /\ f.ok
Answered(l, n) == <<l.id, n>> \in acked \/ Asked(conn[n], l.id) \/ Replied(conn[n], l.id)

\* Both ends are registered, and the hub talks to n.
Awaits(l, n) == /\ Calm(l) /\ \A m \in l.ends : Ready(m)
                /\ conn[n] = sessions[n] /\ hubSt[conn[n]] = "open"

\* A link that is still to be withdrawn is no longer in the table; of any
\* other the hub knows, once an end is registered, and its sides answer.
GoneInv == \A t \in todo : t.op = "removeLink" => \A l \in store : l.id # t.link.id
Tracked(l) == Calm(l) /\ (\E n \in l.ends : Ready(n)) => l.id \in rt
Answers(l, n) == Awaits(l, n) => Answered(l, n)
FlagInv == GoneInv /\ \A l \in store : Tracked(l) /\ \A n \in l.ends : Answers(l, n)

\* What is to be withdrawn was withdrawn before, or is deleted now.
LEMMA NewRemovals ==
  ASSUME PathsInv, [Next]_vars, NEW t \in todo', t.op = "removeLink"
  PROVE  t \in todo \/ DeleteLink(t.link)
<1>1. Types
  BY DEF PathsInv, FreshInv, BaseInv
<1>2. ASSUME NEW s \in Sess, DropSession(s) PROVE t \in todo
  <2>1. PICK u \in todo : t = Detach(u, s)
    BY <1>2 DEF DropSession
  <2> QED
    BY <1>1, <2>1, DetachKeeps
<1>3. ASSUME NEW s \in Sess, SessionStep(s) \/ CloseConn(s) PROVE t \in todo
  BY <1>2, <1>3 DEF SessionStep, RunSession, ReadRegister, HandleRegister, SendRegisterAck, HandleAck, CloseConn
<1>4. ASSUME NEW u \in todo, RequestStep(u) PROVE t \in todo
  BY <1>4 DEF RequestStep, StoreCreateLink, PushLink, RemoveLink, DeleteNodeTx, DeleteNodeCascade,
              DeleteNodeKick, KickClose, DeleteNodeForget, Continue
<1>5. CASE AdminStep
  <2>1. ASSUME NEW l \in store, DeleteLink(l), t \notin todo PROVE DeleteLink(t.link)
    <3>1. t = [op |-> "removeLink", link |-> l]
      BY <2>1 DEF DeleteLink
    <3> QED
      BY <2>1, <3>1
  <2>2. ASSUME NEW l \in store, NEW e \in Node \cup {None}, SetLinkExit(l, e) PROVE t \in todo
    BY <2>2 DEF SetLinkExit
  <2>3. ASSUME NEW m \in Node, RotateWG(m) \/ DeleteNode(m) PROVE t \in todo
    BY <2>3 DEF RotateWG, DeleteNode
  <2>4. ASSUME NEW e \in Ends, ApiCreateLink(e) PROVE t \in todo
    BY <2>4 DEF ApiCreateLink
  <2> QED
    BY <1>5, <2>1, <2>2, <2>3, <2>4 DEF AdminStep
<1>6. ASSUME NEW m \in Node,
             \/ AgentStep(m) \/ LoseConn(m) \/ RegisterFails(m) \/ ApplyPeerFails(m) \/ AgentRestart(m)
             \/ GcOfflinePeer(m)
      PROVE  t \in todo
  BY <1>6, AgentsKeep DEF GcOfflinePeer
<1>7. CASE HubRestart \/ UNCHANGED vars
  BY <1>7 DEF HubRestart, vars
<1> QED
  BY <1>3, <1>4, <1>5, <1>6, <1>7 DEF Next, Fault

\* A row in the table is never one that is still to be withdrawn: ids are new.
LEMMA GoneStep == PathsInv /\ GoneInv /\ [Next]_vars => GoneInv'
<1> SUFFICES ASSUME PathsInv, GoneInv, [Next]_vars, NEW t \in todo', t.op = "removeLink", NEW l \in store',
                    l.id = t.link.id
             PROVE  FALSE
  BY DEF GoneInv
<1>1. /\ store \subseteq Link /\ minted \in Nat /\ store \subseteq Rows
      /\ \A x \in Rows : x.id <= minted /\ x.id \in Nat
  BY RowsOfPaths DEF PathsInv, PathInv, IdInv, FreshInv, BaseInv, Types, DbTypes, Rows, Link
<1>2. CASE t \in todo
  <2>1. t.link \in Rows
    BY <1>2, RowsOfPaths
  <2>2. PICK x \in store : x.id = l.id
    BY <1>1, <2>1, RowsRemain
  <2> QED
    BY <1>2, <2>2 DEF GoneInv
<1>3. CASE DeleteLink(t.link)
  <2>1. PICK x \in store : x = t.link /\ store' = store \ {x}
    BY <1>3 DEF DeleteLink
  <2>2. l.ends = x.ends
    BY <1>1, <2>1, SameId
  <2> QED
    BY <2>1, <2>2 DEF PathsInv, FreshInv, BaseInv, LinksInv, OnePerPair
<1> QED
  BY <1>2, <1>3, NewRemovals
------------------------------------------------------------------------------
(* Steps that leave the flags of a link alone                               *)

\* The link is calm only if it was; its ends are registered only if they were;
\* flags, frames and acks stay.
Steady(l) ==
  Calm(l)' =>
    /\ Calm(l) /\ (l.id \in rt => l.id \in rt')
    /\ \A m \in l.ends : Ready(m)' => Ready(m) /\ sessions'[m] = sessions[m]
    /\ \A m \in l.ends : <<l.id, m>> \in acked => <<l.id, m>> \in acked'
Stays(l, n) ==
  Awaits(l, n)' =>
    /\ conn'[n] = conn[n] /\ hubSt[conn[n]] = "open"
    /\ (Asked(conn[n], l.id) \/ Replied(conn[n], l.id)) => Answered(l, n)'

\* Under a step that leaves its flags alone a link goes on being accounted for.
LEMMA SteadyKeeps ==
  ASSUME NEW l, NEW n \in l.ends, Tracked(l), Answers(l, n), Steady(l)
  PROVE  Tracked(l)' /\ (Stays(l, n) => Answers(l, n)')
<1>1. Tracked(l)'
  BY DEF Steady, Tracked
<1>2. ASSUME Stays(l, n), Awaits(l, n)' PROVE Answered(l, n)'
  <2>1. Awaits(l, n)
    BY <1>2 DEF Steady, Stays, Awaits
  <2>2. <<l.id, n>> \in acked => <<l.id, n>> \in acked'
    BY <1>2 DEF Steady, Awaits
  <2> QED
    BY <1>2, <2>1, <2>2 DEF Stays, Answers, Answered
<1> QED
  BY <1>1, <1>2 DEF Answers

\* A link is calm only if it was, when nothing is mended and no push is lost.
LEMMA CalmBefore ==
  ASSUME NEW l, torn \subseteq torn', revokedDB \subseteq revokedDB',
         \A t \in todo : t.op \in {"pushLink", "pushExit"} /\ t.link.id = l.id => t \in todo',
         Calm(l)'
  PROVE  Calm(l)
BY DEF Calm, Unpushed

\* The hub will talk to the node on a connection that it has open.
LEMMA AwaitsNext ==
  ASSUME PathsInv', NEW l \in Link, NEW n \in l.ends, Awaits(l, n)'
  PROVE  n \in Node /\ conn'[n] \in Sess /\ sessions'[n] = conn'[n] /\ hubSt'[conn'[n]] = "open"
<1>1. n \in Node
  BY DEF Link, Ends
<1>2. conn'[n] = sessions'[n] /\ conn'[n] # None /\ hubSt'[conn'[n]] = "open"
  BY DEF Awaits, Ready
<1>3. conn' \in [Node -> Sess \cup {None}]
  BY DEF PathsInv, FreshInv, BaseInv, Types, ConnTypes
<1> QED
  BY <1>1, <1>2, <1>3

\* Frames are only added to the queues.
LEMMA SendStays ==
  ASSUME PathsInv, PathsInv', NEW l \in Link, NEW n \in l.ends, NEW fr, FrameMap(fr), Send(fr),
         UNCHANGED <<conn, inb>>
  PROVE  Stays(l, n)
<1> SUFFICES ASSUME Awaits(l, n)'
             PROVE  /\ hubSt[conn[n]] = "open"
                    /\ Asked(conn[n], l.id) \/ Replied(conn[n], l.id) => Answered(l, n)'
  BY DEF Stays
<1>1. PICK c \in Sess : c = conn[n] /\ hubSt'[c] = "open"
  <2>1. conn'[n] \in Sess /\ hubSt'[conn'[n]] = "open"
    BY AwaitsNext
  <2> QED
    BY <2>1
<1>2. hubSt[c] = "open" /\ Range(out[c]) \subseteq Range(out'[c])
  <2>1. Types
    BY DEF PathsInv, FreshInv, BaseInv
  <2>2. PICK q \in Seq(ToAgent) : q = out[c]
    BY <2>1 DEF Types, ChanTypes
  <2>3. out'[c] = q \/ \E f \in ToAgent : out'[c] = Append(q, f)
    BY <2>1, <2>2, SendQueues
  <2>4. \A f \in ToAgent : Range(Append(q, f)) = Range(q) \cup {f}
    BY RangeOfAppend
  <2>5. hubSt[c] = "open"
    BY <1>1, <2>1, SendQueues
  <2> QED
    BY <2>2, <2>3, <2>4, <2>5
<1>3. conn'[n] = c /\ inb'[c] = inb[c]
  BY <1>1
<1> QED
  BY <1>1, <1>2, <1>3 DEF Answered, Asked, Replied

\* Enough for the first: the database, the table and the flags only grow.
LEMMA SteadyBy ==
  ASSUME NEW l, torn \subseteq torn', revokedDB \subseteq revokedDB', rt \subseteq rt', acked \subseteq acked',
         \A t \in todo : t.op \in {"pushLink", "pushExit"} /\ t.link.id = l.id => t \in todo',
         UNCHANGED <<sessions, registered, lastWG>>
  PROVE  Steady(l)
<1>1. \A m : Ready(m)' <=> Ready(m)
  BY DEF Ready
<1> QED
  BY <1>1, CalmBefore DEF Steady

\* Connections are closed, and no frame moves.
LEMMA StaysBy ==
  ASSUME PathsInv', NEW l \in Link, NEW n \in l.ends, UNCHANGED <<conn, out>>,
         \A c \in Sess : hubSt'[c] = "open" => hubSt[c] = "open" /\ inb'[c] = inb[c]
  PROVE  Stays(l, n)
<1> SUFFICES ASSUME Awaits(l, n)'
             PROVE  /\ hubSt[conn[n]] = "open"
                    /\ Asked(conn[n], l.id) \/ Replied(conn[n], l.id) => Answered(l, n)'
  BY DEF Stays
<1>1. PICK c \in Sess : c = conn[n] /\ hubSt'[c] = "open"
  <2>1. conn'[n] \in Sess /\ hubSt'[conn'[n]] = "open"
    BY AwaitsNext
  <2> QED
    BY <2>1
<1>2. conn'[n] = c /\ inb'[c] = inb[c] /\ out'[c] = out[c] /\ hubSt[c] = "open"
  BY <1>1
<1> QED
  BY <1>1, <1>2 DEF Answered, Asked, Replied

\* A connection is opened: its node has not registered on it yet.
LEMMA RunSessionFlags ==
  ASSUME PathsInv, PathsInv', NEW s \in Sess, RunSession(s), NEW l \in Link, NEW n \in l.ends
  PROVE  Steady(l) /\ Stays(l, n)
<1>1. PICK m \in Node : m = Owner(s)
  BY OwnerIsNode
<1>2. /\ sessions \in [Node -> Sess \cup {None}] /\ hubSt \in [Sess -> {"none", "checked", "open", "closed"}]
      /\ ~registered[s]
  BY DEF RunSession, PathsInv, FreshInv, BaseInv, Types, HubTypes, ChanTypes, KeyInv, SlotOk
<1>3. /\ UNCHANGED <<torn, revokedDB, rt, acked, todo, registered, lastWG, conn, out, inb>>
      /\ sessions' = [sessions EXCEPT ![m] = s]
      /\ \A c \in Sess : hubSt'[c] = "open" => c = s \/ hubSt[c] = "open"
  BY <1>1 DEF RunSession, dbVars, sessVars, agentVars
<1>4. ASSUME NEW k \in l.ends, Ready(k)' PROVE k # m /\ Ready(k) /\ sessions'[k] = sessions[k]
  <2>1. k \in Node
    BY DEF Link, Ends
  <2>2. k # m
    BY <1>2, <1>3, <1>4 DEF Ready
  <2>3. sessions'[k] = sessions[k]
    BY <1>2, <1>3, <2>1, <2>2
  <2> QED
    BY <1>3, <1>4, <2>2, <2>3 DEF Ready
<1>5. Calm(l)' => Calm(l)
  BY <1>3, CalmBefore
<1>6. Steady(l)
  BY <1>3, <1>4, <1>5 DEF Steady
<1>7. ASSUME Awaits(l, n)'
      PROVE  /\ conn'[n] = conn[n] /\ hubSt[conn[n]] = "open"
             /\ (Asked(conn[n], l.id) \/ Replied(conn[n], l.id)) => Answered(l, n)'
  <2>1. n \in Node /\ conn'[n] \in Sess /\ sessions'[n] = conn'[n] /\ hubSt'[conn'[n]] = "open" /\ n # m
    BY <1>4, <1>7, AwaitsNext DEF Awaits
  <2>2. PICK c \in Sess : c = conn[n] /\ c = sessions[n] /\ hubSt'[c] = "open"
    BY <1>2, <1>3, <2>1
  <2>3. Owner(c) = n
    BY <2>1, <2>2, NoneIsNoSession DEF PathsInv, FreshInv, BaseInv, OneLiveSession
  <2>4. hubSt[c] = "open"
    BY <1>1, <1>3, <2>1, <2>2, <2>3
  <2>5. conn'[n] = c /\ inb'[c] = inb[c] /\ out'[c] = out[c]
    BY <1>3, <2>2
  <2> QED
    BY <2>2, <2>4, <2>5 DEF Answered, Asked, Replied
<1> QED
  BY <1>6, <1>7 DEF Stays

\* A connection is dropped: its node is registered no longer.
LEMMA DropSessionFlags ==
  ASSUME PathsInv, PathsInv', NEW s \in Sess, DropSession(s), NEW l \in Link, NEW n \in l.ends
  PROVE  Steady(l) /\ Stays(l, n)
<1>1. PICK m \in Node : m = Owner(s)
  BY OwnerIsNode
<1>2. /\ sessions \in [Node -> Sess \cup {None}] /\ hubSt \in [Sess -> {"none", "checked", "open", "closed"}]
      /\ registered \in [Sess -> BOOLEAN] /\ inb \in [Sess -> Seq(ToHub)] /\ Types
  BY DEF PathsInv, FreshInv, BaseInv, Types, HubTypes, ChanTypes, SessVarTypes
<1>3. /\ UNCHANGED <<torn, revokedDB, rt, acked, lastWG, conn, out>> /\ hubSt[s] = "closed"
      /\ sessions' \in {sessions, [sessions EXCEPT ![m] = None]}
      /\ registered' = [registered EXCEPT ![s] = FALSE]
      /\ hubSt' = [hubSt EXCEPT ![s] = "none"] /\ inb' = [inb EXCEPT ![s] = <<>>]
      /\ todo' = {Detach(t, s) : t \in todo}
  BY <1>1 DEF DropSession, SessionsWithout, agentVars
<1>4. ASSUME NEW k \in l.ends, Ready(k)' PROVE Ready(k) /\ sessions'[k] = sessions[k]
  <2>1. k \in Node
    BY DEF Link, Ends
  <2>2. sessions'[k] = sessions[k]
    BY <1>2, <1>3, <1>4, <2>1 DEF Ready
  <2>3. sessions[k] \in Sess /\ registered'[sessions[k]]
    BY <1>2, <1>4, <2>1, <2>2 DEF Ready
  <2>4. registered[sessions[k]]
    BY <1>2, <1>3, <2>3
  <2> QED
    BY <1>3, <1>4, <2>2, <2>4 DEF Ready
<1>5. ASSUME NEW t \in todo, t.op \in {"pushLink", "pushExit"} PROVE t \in todo'
  <2>1. Detach(t, s) = t
    BY <1>2, <1>5, DetachKeeps
  <2> QED
    BY <1>3, <2>1
<1>6. Calm(l)' => Calm(l)
  BY <1>3, <1>5, CalmBefore
<1>7. \A c \in Sess : hubSt'[c] = "open" => hubSt[c] = "open" /\ inb'[c] = inb[c]
  BY <1>2, <1>3
<1> QED
  BY <1>3, <1>4, <1>6, <1>7, StaysBy DEF Steady

\* The other steps of a connection but registers and acks.
LEMMA ConnFlags ==
  ASSUME PathsInv, PathsInv', NEW s \in Sess, NEW l \in Link, NEW n \in l.ends,
         ReadRegister(s) \/ SendRegisterAck(s) \/ CloseConn(s)
  PROVE  Steady(l) /\ Stays(l, n)
<1>1. UNCHANGED <<torn, revokedDB, rt, acked, todo, sessions, registered, lastWG, conn>>
  BY DEF ReadRegister, SendRegisterAck, CloseConn, dbVars, hubVars, sessVars, agentVars
<1>2. Steady(l)
  BY <1>1, SteadyBy
<1>3. /\ hubSt \in [Sess -> {"none", "checked", "open", "closed"}] /\ inb \in [Sess -> Seq(ToHub)]
  BY DEF PathsInv, FreshInv, BaseInv, Types, ChanTypes
<1>4. CASE ReadRegister(s)
  <2>1. PICK q \in Seq(ToHub) : q = inb[s]
    BY <1>3
  <2>2. /\ UNCHANGED <<out, hubSt>> /\ q # <<>> /\ Head(q).type = "register"
        /\ inb' = [inb EXCEPT ![s] = Tail(q)]
    BY <1>3, <1>4, <2>1 DEF ReadRegister
  <2>3. Range(q) \subseteq Range(Tail(q)) \cup {Head(q)}
    BY <2>2, RangeOfTail
  <2>4. ASSUME NEW c \in Sess, Asked(c, l.id) \/ Replied(c, l.id) PROVE Asked(c, l.id)' \/ Replied(c, l.id)'
    <3>1. ASSUME Replied(c, l.id) PROVE Replied(c, l.id)'
      <4>1. CASE c = s
        <5>1. PICK f \in Range(q) : f.type = "ack" /\ f.link = l.id /\ f.ok
          BY <2>1, <3>1, <4>1 DEF Replied
        <5>2. f \in Range(Tail(q)) /\ inb'[c] = Tail(q)
          BY <1>3, <2>2, <2>3, <4>1, <5>1
        <5> QED
          BY <5>1, <5>2 DEF Replied
      <4>2. CASE c # s
        <5>1. inb'[c] = inb[c]
          BY <1>3, <2>2, <4>2
        <5> QED
          BY <3>1, <5>1 DEF Replied
      <4> QED
        BY <4>1, <4>2
    <3>2. Asked(c, l.id) => Asked(c, l.id)'
      BY <2>2 DEF Asked
    <3> QED
      BY <2>4, <3>1, <3>2
  <2>5. ASSUME Awaits(l, n)'
        PROVE  /\ hubSt[conn[n]] = "open"
               /\ (Asked(conn[n], l.id) \/ Replied(conn[n], l.id)) => Answered(l, n)'
    <3>1. conn'[n] \in Sess /\ hubSt'[conn'[n]] = "open"
      BY <2>5, AwaitsNext
    <3>2. PICK c \in Sess : c = conn[n] /\ c = conn'[n] /\ hubSt[c] = "open"
      BY <1>1, <2>2, <3>1
    <3> QED
      BY <2>4, <3>2 DEF Answered, Asked, Replied
  <2> QED
    BY <1>1, <1>2, <2>5 DEF Stays
<1>5. CASE SendRegisterAck(s)
  <2>1. PICK f : f = [type |-> "register_ack", peers |-> exp[s]]
    OBVIOUS
  <2>2. f \in ToAgent
    BY <2>1, FramesAreFrames DEF PathsInv, FreshInv, BaseInv, Types, SessVarTypes
  <2>3. PICK fr : fr = [c \in {s} |-> f]
    OBVIOUS
  <2>4. Send(fr) /\ FrameMap(fr) /\ UNCHANGED <<conn, inb>>
    BY <1>5, <2>1, <2>2, <2>3 DEF SendRegisterAck, FrameMap, agentVars
  <2> QED
    BY <1>2, <2>4, SendStays
<1>6. CASE CloseConn(s)
  <2>1. hubSt' = [hubSt EXCEPT ![s] = "closed"] /\ UNCHANGED <<out, inb>>
    BY <1>6 DEF CloseConn
  <2>2. \A c \in Sess : hubSt'[c] = "open" => hubSt[c] = "open" /\ inb'[c] = inb[c]
    BY <1>3, <2>1
  <2> QED
    BY <1>1, <1>2, <2>1, <2>2, StaysBy
<1> QED
  BY <1>4, <1>5, <1>6

\* An ack counts, since the hub knows of the link.
LEMMA HandleAckFlags ==
  ASSUME PathsInv, PathsInv', NEW s \in Sess, HandleAck(s), NEW l \in Link, NEW n \in l.ends, Tracked(l)
  PROVE  Steady(l) /\ Stays(l, n)
<1>1. UNCHANGED <<torn, revokedDB, rt, todo, sessions, registered, lastWG, conn, hubSt, out>>
  BY DEF HandleAck, dbVars, sessVars, agentVars
<1>2. PICK g \in ToHub, q \in Seq(ToHub) :
        /\ q = inb[s] /\ q # <<>> /\ g = Head(q) /\ inb' = [inb EXCEPT ![s] = Tail(q)]
        /\ acked' = IF g.ok /\ g.link \in rt THEN acked \cup {<<g.link, Owner(s)>>} ELSE acked
  <2>1. PICK q \in Seq(ToHub) : q = inb[s]
    BY DEF PathsInv, FreshInv, BaseInv, Types, ChanTypes
  <2>2. q # <<>> /\ inb' = [inb EXCEPT ![s] = Tail(q)]
    BY <2>1 DEF HandleAck
  <2>3. PICK g \in ToHub : g = Head(q)
    BY <2>2, RangeOfTail
  <2> QED
    BY <2>1, <2>2, <2>3 DEF HandleAck
<1>3. acked \subseteq acked'
  BY <1>2
<1>4. Steady(l)
  BY <1>1, <1>3, SteadyBy
<1>5. ASSUME Awaits(l, n)'
      PROVE  /\ hubSt[conn[n]] = "open"
             /\ (Asked(conn[n], l.id) \/ Replied(conn[n], l.id)) => Answered(l, n)'
  <2>1. n \in Node /\ conn'[n] \in Sess /\ sessions'[n] = conn'[n] /\ hubSt'[conn'[n]] = "open"
    BY <1>5, AwaitsNext
  <2>2. PICK c \in Sess : c = conn[n] /\ c = conn'[n] /\ hubSt[c] = "open"
    BY <1>1, <2>1
  <2>3. Owner(c) = n
    BY <2>1, <2>2, TalkFacts, NoneIsNoSession
  <2>4. Asked(c, l.id) => Asked(c, l.id)'
    BY <1>1 DEF Asked
  <2>5. l.id \in rt
    BY <1>1, <1>4, <1>5 DEF Steady, Tracked, Awaits
  <2>6. ASSUME NEW f \in Range(inb[c]), f.type = "ack", f.link = l.id, f.ok
        PROVE  <<l.id, n>> \in acked' \/ Replied(c, l.id)'
    <3>1. CASE c = s /\ f = g
      BY <1>2, <2>3, <2>5, <2>6, <3>1
    <3>2. CASE c = s /\ f # g
      <4>1. f \in Range(Tail(q))
        BY <1>2, <2>6, <3>2, RangeOfTail
      <4>2. inb'[c] = Tail(q)
        BY <1>2, <3>2 DEF PathsInv, FreshInv, BaseInv, Types, ChanTypes
      <4> QED
        BY <2>6, <4>1, <4>2 DEF Replied
    <3>3. CASE c # s
      <4>1. inb'[c] = inb[c]
        BY <1>2, <3>3 DEF PathsInv, FreshInv, BaseInv, Types, ChanTypes
      <4> QED
        BY <2>6, <4>1 DEF Replied
    <3> QED
      BY <3>1, <3>2, <3>3
  <2>7. Replied(c, l.id) => <<l.id, n>> \in acked' \/ Replied(c, l.id)'
    BY <2>6 DEF Replied
  <2>8. Answered(l, n)' <=> <<l.id, n>> \in acked' \/ Asked(c, l.id)' \/ Replied(c, l.id)'
    BY <2>2 DEF Answered, Asked, Replied
  <2> QED
    BY <2>2, <2>4, <2>7, <2>8
<1> QED
  BY <1>1, <1>4, <1>5 DEF Stays

\* A frame for an open session is in its queue.
LEMMA SentIsQueued ==
  ASSUME PathsInv, NEW fr, FrameMap(fr), Send(fr), NEW c \in Sess, c \in DOMAIN fr, hubSt'[c] = "open",
         conn[Owner(c)] = c
  PROVE  fr[c] \in Range(out'[c])
<1>1. PICK q \in Seq(ToAgent) : q = out[c]
  BY DEF PathsInv, FreshInv, BaseInv, Types, ChanTypes
<1>2. hubSt[c] = "open" /\ ~(Len(q) >= OutCap)
  BY <1>1 DEF Send, OverflowClosed
<1>3. Len(q) < OutCap
  BY <1>2, CapAssumption
<1>4. out'[c] = Append(q, fr[c]) /\ fr[c] \in ToAgent
  BY <1>1, <1>2, <1>3 DEF Send, Queued, FrameMap
<1> QED
  BY <1>4, RangeOfAppend

\* A register has listed every link of its node that stays calm.
LEMMA CalmIsListed ==
  ASSUME PathsInv, GoneInv, NEW s \in Sess, HandleRegister(s), NEW l \in store, Owner(s) \in l.ends, Calm(l)'
  PROVE  l \in snap[s]
<1> SUFFICES ASSUME l \notin snap[s] PROVE FALSE
  OBVIOUS
<1>1. l \in LinksOf(Owner(s)) \ snap[s]
  BY DEF LinksOf
<1>2. todo' = todo /\ torn' = torn \cup TornByRegister(s)
  BY DEF HandleRegister
<1>3. PICK p \in Pending : p.id = l.id
  <2>1. l.ends \notin TornByRegister(s)
    BY <1>2 DEF Calm
  <2> QED
    BY <1>1, <2>1 DEF TornByRegister
<1>4. PICK t \in todo : /\ t.op = "removeLink" \/ t.op \in {"pushLink", "pushExit"}
                        /\ t.link.id = l.id
  BY <1>3 DEF Pending
<1>5. t.op # "removeLink"
  BY <1>4 DEF GoneInv
<1> QED
  BY <1>2, <1>4, <1>5 DEF Calm, Unpushed

\* A register sets its own side's flag and tells the other ends.
LEMMA HandleRegisterFlags ==
  ASSUME PathsInv, PathsInv', GoneInv, NEW s \in Sess, HandleRegister(s), NEW l \in store,
         NEW n \in l.ends, Tracked(l), Answers(l, n)
  PROVE  Tracked(l)' /\ Answers(l, n)'
<1>1. PICK m \in Node : m = Owner(s)
  BY OwnerIsNode
<1>2. PICK fr : fr = RegisterFrames(s)
  OBVIOUS
<1>3. /\ UNCHANGED <<revokedDB, todo, sessions, conn, inb>> /\ torn \subseteq torn'
      /\ lastWG' = [lastWG EXCEPT ![m] = reg[s]] /\ registered' = [registered EXCEPT ![s] = TRUE]
      /\ rt' = rt \cup {x.id : x \in snap[s]}
      /\ acked' = acked \cup {<<x.id, m>> : x \in Expected(s)}
      /\ Send(fr) /\ FrameMap(fr)
  BY <1>1, <1>2, RegisterFramesOk
     DEF HandleRegister, RegisteredKey, RegisterAcks, dbVars, agentVars, PathsInv, FreshInv, BaseInv
<1>4. /\ l \in Link /\ n \in Node /\ l.ends \subseteq Node
      /\ sessions \in [Node -> Sess \cup {None}] /\ registered \in [Sess -> BOOLEAN]
      /\ lastWG \in [Node -> Nat \cup {None}]
  BY RowsOfPaths DEF PathsInv, FreshInv, BaseInv, Types, HubTypes, SessVarTypes, Link, Ends, Gen
<1>5. ASSUME NEW k \in Node, k # m, Ready(k)' PROVE Ready(k)
  <2>1. PICK c \in Sess : c = sessions[k] /\ registered'[c] /\ lastWG'[k] # None
    BY <1>3, <1>4, <1>5 DEF Ready
  <2>2. Owner(c) = k
    BY <1>5, <2>1, NoneIsNoSession DEF PathsInv, FreshInv, BaseInv, OneLiveSession
  <2>3. registered[c]
    BY <1>1, <1>3, <1>4, <1>5, <2>1, <2>2
  <2>4. lastWG[k] # None
    BY <1>3, <1>4, <1>5, <2>1
  <2> QED
    BY <2>1, <2>3, <2>4, NoneIsNoSession DEF Ready
<1>6. ASSUME m \in l.ends, Calm(l)' PROVE l \in snap[s]
  BY <1>1, <1>6, CalmIsListed
<1>7. Calm(l)' => Calm(l)
  BY <1>3, CalmBefore
<1>8. Tracked(l)'
  <2> SUFFICES ASSUME Calm(l)', NEW k \in l.ends, Ready(k)' PROVE l.id \in rt'
    BY DEF Tracked
  <2>1. CASE m \in l.ends
    BY <1>3, <1>6, <2>1
  <2>2. CASE m \notin l.ends
    BY <1>3, <1>4, <1>5, <1>7, <2>2 DEF Tracked
  <2> QED
    BY <2>1, <2>2
<1>9. ASSUME Awaits(l, n)' PROVE Answered(l, n)'
  <2>1. conn'[n] \in Sess /\ sessions'[n] = conn'[n] /\ hubSt'[conn'[n]] = "open"
    BY <1>4, <1>9, AwaitsNext
  <2>2. PICK c \in Sess : c = conn[n] /\ c = conn'[n] /\ c = sessions[n] /\ hubSt'[c] = "open"
    BY <1>3, <2>1
  <2>3. Owner(c) = n
    BY <1>4, <2>2, NoneIsNoSession DEF PathsInv, FreshInv, BaseInv, OneLiveSession
  <2>4. CASE m \notin l.ends
    <3>1. \A k \in l.ends : Ready(k)
      BY <1>4, <1>5, <1>9, <2>4 DEF Awaits
    <3>2. Stays(l, n)
      BY <1>3, <1>4, SendStays
    <3>3. Awaits(l, n)
      BY <1>3, <1>7, <1>9, <2>2, <3>1, <3>2 DEF Awaits, Stays
    <3> QED
      BY <1>3, <1>9, <3>2, <3>3 DEF Answers, Answered, Stays
  <2>5. CASE m \in l.ends
    <3>1. PICK o \in Node : o = Other(l, m) /\ o # m /\ o \in l.ends
      BY <1>4, OtherIsEnd
    <3>2. Ready(o) /\ l \in snap[s]
      BY <1>5, <1>6, <1>9, <2>5, <3>1 DEF Awaits
    <3>3. l \in Expected(s)
      BY <1>1, <3>1, <3>2 DEF Expected
    <3>4. CASE n = m
      BY <1>3, <3>3, <3>4 DEF Answered
    <3>5. CASE n # m
      <4>1. n = o
        BY <1>4, <2>5, <3>1, <3>5, PairOfEnds
      <4>2. c \in DOMAIN fr
        BY <1>1, <1>2, <2>2, <3>1, <3>3, <4>1 DEF RegisterFrames
      <4>3. fr[c] \in Range(out'[c])
        BY <1>3, <2>2, <2>3, <4>2, SentIsQueued
      <4>4. fr[c] = [type |-> "peer_update", spec |-> SpecOf(l, m, reg[s])]
        BY <1>1, <1>2, <2>3, <3>1, <3>3, <4>1, <4>2, RegisterFrameIs
      <4>5. fr[c].type = "peer_update" /\ fr[c].spec.link = l.id
        BY <4>4 DEF SpecOf
      <4>6. Asked(c, l.id)'
        BY <4>3, <4>5 DEF Asked
      <4> QED
        BY <2>2, <4>6 DEF Answered, Asked
    <3> QED
      BY <3>4, <3>5
  <2> QED
    BY <2>4, <2>5
<1> QED
  BY <1>8, <1>9 DEF Answers

\* A push is queued for both sides when it clears their flags.
LEMMA PushLinkFlags ==
  ASSUME PathsInv, PathsInv', NEW t \in todo, PushLink(t), NEW l \in store, NEW n \in l.ends,
         Tracked(l), Answers(l, n)
  PROVE  Tracked(l)' /\ Answers(l, n)'
<1>1. PICK x \in Link : x = t.link /\ x \in Rows
  BY RowsOfPaths DEF PushLink
<1>2. PICK typ \in {"peer_add", "peer_update"} :
        typ = IF t.op = "pushLink" THEN "peer_add" ELSE "peer_update"
  OBVIOUS
<1>3. PICK fr : fr = PairFrames(x, typ)
  OBVIOUS
<1>4. /\ UNCHANGED <<revokedDB, sessions, registered, lastWG, conn, inb>> /\ torn \subseteq torn'
      /\ rt' = rt \cup {x.id} /\ acked' = PairAcks(x) /\ todo' = todo \ {t}
      /\ Send(fr) /\ FrameMap(fr)
  BY <1>1, <1>2, <1>3, PairFramesOk
     DEF PushLink, Continue, dbVars, sessVars, agentVars, PathsInv, FreshInv, BaseInv
<1>5. l \in Link /\ n \in Node /\ l \in Rows
  BY RowsOfPaths DEF Link, Ends
<1>6. \A m : Ready(m)' <=> Ready(m)
  BY <1>4 DEF Ready
<1>7. CASE x.id = l.id
  <2>1. l.id \in rt'
    BY <1>4, <1>7
  <2>2. ASSUME Awaits(l, n)' PROVE Answered(l, n)'
    <3>1. conn'[n] \in Sess /\ sessions'[n] = conn'[n] /\ hubSt'[conn'[n]] = "open"
      BY <1>5, <2>2, AwaitsNext
    <3>2. PICK c \in Sess : c = conn[n] /\ c = conn'[n] /\ c = sessions[n] /\ hubSt'[c] = "open"
      BY <1>4, <3>1
    <3>3. Owner(c) = n
      BY <1>5, <3>2, NoneIsNoSession DEF PathsInv, FreshInv, BaseInv, OneLiveSession
    <3>4. x.ends = l.ends
      BY <1>1, <1>5, <1>7, SameId
    <3>5. \A m \in x.ends : Ready(m)
      BY <1>6, <2>2, <3>4 DEF Awaits
    <3>6. c \in DOMAIN fr
      BY <1>3, <3>2, <3>4, <3>5 DEF PairFrames
    <3>7. fr[c] \in Range(out'[c])
      BY <1>4, <3>2, <3>3, <3>6, SentIsQueued
    <3>8. fr[c] = [type |-> typ, spec |-> SpecOf(x, Other(x, n), lastWG[Other(x, n)])]
      BY <1>3, <3>3, <3>6, PairFrameIs
    <3>9. fr[c].type = typ /\ fr[c].spec.link = l.id
      BY <1>7, <3>8 DEF SpecOf
    <3>10. Asked(c, l.id)'
      BY <3>7, <3>9 DEF Asked
    <3> QED
      BY <3>2, <3>10 DEF Answered, Asked
  <2> QED
    BY <2>1, <2>2 DEF Tracked, Answers
<1>8. CASE x.id # l.id
  <2>1. \A u \in todo : u.op \in {"pushLink", "pushExit"} /\ u.link.id = l.id => u \in todo'
    BY <1>1, <1>4, <1>8
  <2>2. Calm(l)' => Calm(l)
    BY <1>4, <2>1, CalmBefore
  <2>3. \A m : <<l.id, m>> \in acked => <<l.id, m>> \in acked'
    BY <1>4, <1>8 DEF PairAcks
  <2>4. Steady(l)
    BY <1>4, <1>6, <2>2, <2>3 DEF Steady
  <2>5. Stays(l, n)
    BY <1>4, <1>5, SendStays
  <2> QED
    BY <2>4, <2>5, SteadyKeeps
<1> QED
  BY <1>7, <1>8

\* A withdrawal sends frames.
LEMMA WithdrawalSends ==
  ASSUME PathsInv,
         \/ \E t \in todo : RemoveLink(t) \/ DeleteNodeCascade(t)
         \/ \E g \in Node : GcOfflinePeer(g)
  PROVE  \E fr : Send(fr) /\ FrameMap(fr)
<1>1. ASSUME NEW E \in SUBSET (Link \X Node), \A x, y \in E : x[2] = y[2] => x = y, Send(RemoveFrames(E))
      PROVE  \E fr : Send(fr) /\ FrameMap(fr)
  BY <1>1, RemoveFramesOk DEF PathsInv, FreshInv, BaseInv
<1>2. ASSUME NEW t \in todo, RemoveLink(t) PROVE \E fr : Send(fr) /\ FrameMap(fr)
  <2>1. PICK x \in Link : x = t.link
    BY <1>2, RowsOfPaths DEF RemoveLink
  <2>2. PICK E : E = {x} \X x.ends
    OBVIOUS
  <2>3. E \in SUBSET (Link \X Node) /\ \A e, d \in E : e[2] = d[2] => e = d
    BY <2>2 DEF Link, Ends
  <2> QED
    BY <1>1, <1>2, <2>1, <2>2, <2>3 DEF RemoveLink
<1>3. ASSUME NEW m \in Node, NEW L \in SUBSET Link, OnePerPair(L), \A x \in L : m \in x.ends,
             Send(RemoveFrames({<<x, Other(x, m)>> : x \in L}))
      PROVE  \E fr : Send(fr) /\ FrameMap(fr)
  BY <1>1, <1>3, WithdrawnOnce
<1>4. ASSUME NEW t \in todo, DeleteNodeCascade(t) PROVE \E fr : Send(fr) /\ FrameMap(fr)
  <2>1. /\ t.links \in SUBSET Link /\ t.node \in Node /\ OnePerPair(t.links)
        /\ \A x \in t.links : t.node \in x.ends
    BY <1>4, RequestFields DEF PathsInv, FreshInv, BaseInv, Types, LinksInv, DeleteNodeCascade
  <2> QED
    BY <1>3, <1>4, <2>1 DEF DeleteNodeCascade
<1>5. ASSUME NEW g \in Node, GcOfflinePeer(g) PROVE \E fr : Send(fr) /\ FrameMap(fr)
  <2>1. LinksOf(g) \in SUBSET Link /\ OnePerPair(LinksOf(g)) /\ \A x \in LinksOf(g) : g \in x.ends
    BY RowsOfPaths DEF PathsInv, FreshInv, BaseInv, LinksInv, OnePerPair, LinksOf
  <2> QED
    BY <1>3, <1>5, <2>1 DEF GcOfflinePeer
<1> QED
  BY <1>2, <1>4, <1>5

\* What is forgotten is no longer in the table, or of a deleted node.
LEMMA ForgetFlags ==
  ASSUME PathsInv, PathsInv', GoneInv, NEW t \in todo, RemoveLink(t) \/ DeleteNodeCascade(t),
         NEW l \in store, NEW n \in l.ends
  PROVE  Steady(l) /\ Stays(l, n)
<1>1. l \in Link /\ l \in Rows
  BY RowsOfPaths
<1>2. PICK ids : ForgetLinks(ids) /\ (Calm(l)' => l.id \notin ids)
  <2>1. CASE RemoveLink(t)
    <3>1. l.id # t.link.id /\ ForgetLinks({t.link.id})
      BY <2>1 DEF RemoveLink, GoneInv
    <3> QED
      BY <3>1
  <2>2. CASE DeleteNodeCascade(t)
    <3>1. ForgetLinks({x.id : x \in t.links}) /\ t.op = "cascade" /\ revokedDB' = revokedDB
      BY <2>2 DEF DeleteNodeCascade, dbVars
    <3>2. t.node \in revokedDB /\ \A x \in t.links : t.node \in x.ends /\ x \in Rows
      BY <3>1, RowsOfPaths DEF PathsInv, FreshInv, BaseInv, LinksInv
    <3>3. ASSUME NEW x \in t.links, x.id = l.id PROVE ~Calm(l)'
      <4>1. x.ends = l.ends
        BY <1>1, <3>2, <3>3, SameId
      <4> QED
        BY <3>1, <3>2, <4>1 DEF Calm
    <3> QED
      BY <3>1, <3>3
  <2> QED
    BY <2>1, <2>2
<1>3. /\ UNCHANGED <<revokedDB, sessions, registered, lastWG, conn, inb>> /\ torn \subseteq torn'
      /\ t.op \in {"removeLink", "cascade"} /\ todo \ {t} \subseteq todo'
  BY DEF RemoveLink, DeleteNodeCascade, Continue, dbVars, sessVars, agentVars
<1>5. PICK fr : Send(fr) /\ FrameMap(fr)
  BY WithdrawalSends
<1>6. \A m : Ready(m)' <=> Ready(m)
  BY <1>3 DEF Ready
<1>7. Calm(l)' => Calm(l)
  BY <1>3, CalmBefore
<1>8. Steady(l)
  BY <1>2, <1>3, <1>6, <1>7 DEF Steady, ForgetLinks
<1>9. Stays(l, n)
  BY <1>1, <1>3, <1>5, SendStays
<1> QED
  BY <1>8, <1>9

\* The other requests.
LEMMA RequestFlags ==
  ASSUME PathsInv, PathsInv', NEW l \in Link, NEW n \in l.ends,
         \/ \E t \in todo : \/ StoreCreateLink(t) \/ DeleteNodeTx(t) \/ DeleteNodeKick(t)
                            \/ KickClose(t) \/ DeleteNodeForget(t)
         \/ AdminStep \/ (\E g \in Node : GcOfflinePeer(g)) \/ UNCHANGED vars
  PROVE  Steady(l) /\ Stays(l, n)
<1>0. Types
  BY DEF PathsInv, FreshInv, BaseInv
<1>1. ASSUME NEW t \in todo, \/ StoreCreateLink(t) \/ DeleteNodeTx(t) \/ DeleteNodeKick(t)
                             \/ KickClose(t) \/ DeleteNodeForget(t)
      PROVE  Steady(l)
  <2>1. /\ UNCHANGED <<rt, acked, sessions, registered>> /\ torn \subseteq torn' /\ revokedDB \subseteq revokedDB'
        /\ t.op \notin {"pushLink", "pushExit"} /\ todo \ {t} \subseteq todo'
        /\ lastWG' = lastWG \/ lastWG' = [lastWG EXCEPT ![t.node] = None]
    BY <1>1 DEF StoreCreateLink, DeleteNodeTx, DeleteNodeKick, KickClose, DeleteNodeForget, Continue,
                dbVars, hubVars, sessVars
  <2>2. \A u \in todo : u.op \in {"pushLink", "pushExit"} /\ u.link.id = l.id => u \in todo'
    BY <2>1
  <2>3. ASSUME NEW m \in l.ends, Ready(m)' PROVE Ready(m)
    <3>1. m \in Node /\ lastWG \in [Node -> Gen \cup {None}]
      BY <1>0 DEF Types, HubTypes, Link, Ends
    <3>2. lastWG'[m] = lastWG[m]
      BY <2>1, <2>3, <3>1 DEF Ready
    <3> QED
      BY <2>1, <2>3, <3>2 DEF Ready
  <2>4. Calm(l)' => Calm(l)
    BY <2>1, <2>2, CalmBefore
  <2> QED
    BY <2>1, <2>3, <2>4 DEF Steady
<1>2. ASSUME AdminStep \/ (\E g \in Node : GcOfflinePeer(g)) \/ UNCHANGED vars PROVE Steady(l)
  <2>1. /\ UNCHANGED <<rt, acked, sessions, registered, lastWG, torn, revokedDB>> /\ todo \subseteq todo'
    BY <1>2 DEF AdminStep, ApiCreateLink, DeleteLink, SetLinkExit, RotateWG, DeleteNode, GcOfflinePeer,
                vars, dbVars, hubVars, sessVars
  <2> QED
    BY <2>1, SteadyBy
<1>3. ASSUME \/ \E t \in todo : StoreCreateLink(t) \/ DeleteNodeTx(t) \/ KickClose(t) \/ DeleteNodeForget(t)
             \/ \E e \in Ends : ApiCreateLink(e)
             \/ \E x \in store : DeleteLink(x) \/ \E e \in Node \cup {None} : SetLinkExit(x, e)
             \/ \E m \in Node : DeleteNode(m)
             \/ UNCHANGED vars
      PROVE  Stays(l, n)
  <2>1. UNCHANGED <<conn, out, inb>>
    BY <1>3 DEF StoreCreateLink, DeleteNodeTx, KickClose, DeleteNodeForget, ApiCreateLink, DeleteLink,
                SetLinkExit, DeleteNode, vars, chanVars, agentVars
  <2>2. \A c \in Sess : hubSt'[c] = "open" => hubSt[c] = "open"
    <3>1. hubSt' = hubSt \/ \E t \in todo : KickClose(t)
      BY <1>3 DEF StoreCreateLink, DeleteNodeTx, DeleteNodeForget, ApiCreateLink, DeleteLink,
                  SetLinkExit, DeleteNode, vars, chanVars
    <3> QED
      BY <3>1 DEF KickClose
  <2> QED
    BY <2>1, <2>2, StaysBy
<1>4. ASSUME NEW t \in todo, DeleteNodeKick(t) PROVE Stays(l, n)
  <2>1. PICK fr : fr = [c \in {t.sess} \ {None} |-> [type |-> "kick"]]
    OBVIOUS
  <2>2. FrameMap(fr) /\ Send(fr) /\ UNCHANGED <<conn, inb>>
    BY <1>4, <2>1, FramesAreFrames DEF FrameMap, DeleteNodeKick, agentVars
  <2> QED
    BY <2>2, SendStays
<1>5. ASSUME NEW m \in Node, RotateWG(m) PROVE Stays(l, n)
  <2>1. PICK fr : fr = [c \in {sessions[m]} |-> [type |-> "rotate_wg"]]
    OBVIOUS
  <2>2. FrameMap(fr) /\ Send(fr) /\ UNCHANGED <<conn, inb>>
    BY <1>5, <2>1, FramesAreFrames DEF FrameMap, RotateWG, agentVars
  <2> QED
    BY <2>2, SendStays
<1>6. ASSUME NEW g \in Node, GcOfflinePeer(g) PROVE Stays(l, n)
  <2>1. PICK fr : Send(fr) /\ FrameMap(fr)
    BY <1>6, WithdrawalSends
  <2>2. UNCHANGED <<conn, inb>>
    BY <1>6 DEF GcOfflinePeer, agentVars
  <2> QED
    BY <2>1, <2>2, SendStays
<1> QED
  BY <1>1, <1>2, <1>3, <1>4, <1>5, <1>6 DEF AdminStep

\* What the agents do leaves the hub's knowledge alone.
LEMMA AgentSteady ==
  ASSUME NEW m \in Node, NEW l,
         \/ AgentStep(m) \/ LoseConn(m) \/ RegisterFails(m) \/ ApplyPeerFails(m) \/ AgentRestart(m)
  PROVE  Steady(l)
<1>1. UNCHANGED <<rt, acked>>
  BY DEF AgentStep, Connect, RegisterAck, ApplyPeer, ApplyRemove, ApplyRotate, ApplyKick, LoseConn,
         RegisterFails, ApplyPeerFails, AgentRestart, hubVars
<1>2. UNCHANGED <<revokedDB, sessions, lastWG, todo, registered>> /\ torn \subseteq torn'
  BY AgentsKeep
<1> QED
  BY <1>1, <1>2, SteadyBy

\* Another agent.
LEMMA OtherAgentStays ==
  ASSUME PathsInv, PathsInv', NEW m \in Node, NEW l \in Link, NEW n \in l.ends, m # n,
         \/ AgentStep(m) \/ LoseConn(m) \/ RegisterFails(m) \/ ApplyPeerFails(m) \/ AgentRestart(m)
  PROVE  Stays(l, n)
<1> SUFFICES ASSUME Awaits(l, n)'
             PROVE  /\ conn'[n] = conn[n] /\ hubSt[conn[n]] = "open"
                    /\ Asked(conn[n], l.id) \/ Replied(conn[n], l.id) => Answered(l, n)'
  BY DEF Stays
<1>1. n \in Node /\ conn'[n] \in Sess /\ hubSt'[conn'[n]] = "open"
  BY AwaitsNext
<1>2. conn \in [Node -> Sess \cup {None}] /\ inb \in [Sess -> Seq(ToHub)]
  BY DEF PathsInv, FreshInv, BaseInv, Types, ConnTypes, ChanTypes
<1>3. conn'[n] = conn[n]
  <2>1. conn' = conn \/ \E c : conn' = [conn EXCEPT ![m] = c]
    BY DEF AgentStep, Connect, RegisterAck, ApplyPeer, ApplyRemove, ApplyRotate, ApplyKick, LoseConn,
           RegisterFails, ApplyPeerFails, AgentRestart, Hangup, Consume
  <2> QED
    BY <1>1, <1>2, <2>1
<1>4. PICK c \in Sess : c = conn[n] /\ c = conn'[n] /\ hubSt'[c] = "open"
  BY <1>1, <1>3
<1>5. out'[c] = out[c] /\ hubSt'[c] = hubSt[c]
  BY <1>1, <1>4, AgentsAreApart
<1>6. inb'[c] = inb[c]
  <2>1. Owner(c) = n /\ (conn[m] # None => Owner(conn[m]) = m)
    BY <1>1, <1>4, TalkFacts, NoneIsNoSession
  <2>2. ASSUME NEW s \in Sess, Connect(m, s) PROVE inb'[c] = inb[c]
    <3>1. c # s
      BY <2>1, <2>2 DEF Connect
    <3>2. inb' = inb \/ \E q : inb' = [inb EXCEPT ![s] = q]
      BY <2>2 DEF Connect, HandleConn
    <3> QED
      BY <1>2, <3>1, <3>2
  <2>3. CASE RegisterAck(m) \/ ApplyRotate(m) \/ ApplyKick(m) \/ LoseConn(m) \/ RegisterFails(m) \/ AgentRestart(m)
    BY <2>3 DEF RegisterAck, ApplyRotate, ApplyKick, LoseConn, RegisterFails, AgentRestart
  <2>4. CASE ApplyPeer(m) \/ ApplyRemove(m) \/ ApplyPeerFails(m)
    <3>1. conn[m] # c
      BY <2>1, <1>4, NoneIsNoSession
    <3>2. \E q : inb' = [inb EXCEPT ![conn[m]] = q]
      BY <2>4 DEF ApplyPeer, ApplyRemove, ApplyPeerFails, Consume
    <3> QED
      BY <1>2, <3>1, <3>2
  <2> QED
    BY <2>2, <2>3, <2>4 DEF AgentStep
<1> QED
  BY <1>4, <1>5, <1>6 DEF Answered, Asked, Replied

\* The agent leaves its connection, or starts one.
LEMMA LeavingStays ==
  ASSUME PathsInv, PathsInv', NEW l \in Link, NEW n \in l.ends,
         \/ \E s \in Sess : Connect(n, s)
         \/ ApplyRotate(n) \/ ApplyKick(n) \/ LoseConn(n) \/ RegisterFails(n) \/ AgentRestart(n)
  PROVE  Stays(l, n)
<1> SUFFICES ASSUME Awaits(l, n)' PROVE FALSE
  BY DEF Stays
<1>1. n \in Node /\ conn'[n] \in Sess /\ hubSt'[conn'[n]] = "open"
  BY AwaitsNext
<1>2. /\ conn \in [Node -> Sess \cup {None}] /\ hubSt \in [Sess -> {"none", "checked", "open", "closed"}]
  BY DEF PathsInv, FreshInv, BaseInv, Types, ConnTypes, ChanTypes
<1>3. CASE ApplyRotate(n) \/ ApplyKick(n) \/ LoseConn(n) \/ RegisterFails(n) \/ AgentRestart(n)
  <2>1. conn' = [conn EXCEPT ![n] = None]
    BY <1>3 DEF ApplyRotate, ApplyKick, LoseConn, RegisterFails, AgentRestart, Hangup
  <2> QED
    BY <1>1, <1>2, <2>1, NoneIsNoSession
<1>4. ASSUME NEW s \in Sess, Connect(n, s) PROVE FALSE
  <2>1. conn'[n] = s /\ hubSt[s] = "none"
    BY <1>1, <1>2, <1>4 DEF Connect
  <2>2. hubSt' = hubSt \/ hubSt' = [hubSt EXCEPT ![s] = "checked"]
    BY <1>4 DEF Connect, HandleConn
  <2>3. hubSt'[s] \in {"none", "checked"}
    BY <1>2, <2>1, <2>2
  <2> QED
    BY <1>1, <2>1, <2>3
<1> QED
  BY <1>3, <1>4

\* The agent takes a frame: a push is answered, or refused and noted.
LEMMA TakingStays ==
  ASSUME PathsInv, PathsInv', NameInv, NEW l \in store, NEW n \in l.ends, n \in Node,
         RegisterAck(n) \/ ApplyPeer(n) \/ ApplyRemove(n) \/ ApplyPeerFails(n)
  PROVE  Stays(l, n)
<1> SUFFICES ASSUME Awaits(l, n)'
             PROVE  /\ conn'[n] = conn[n] /\ hubSt[conn[n]] = "open"
                    /\ Asked(conn[n], l.id) \/ Replied(conn[n], l.id) => Answered(l, n)'
  BY DEF Stays
<1>1. l \in Link /\ HasFrame(n) /\ hubSt' = hubSt /\ conn' = conn
  BY RowsOfPaths DEF RegisterAck, ApplyPeer, ApplyRemove, ApplyPeerFails, Consume
<1>2. conn'[n] \in Sess /\ hubSt'[conn'[n]] = "open"
  BY <1>1, AwaitsNext
<1>3. PICK c \in Sess : c = conn[n] /\ c = conn'[n] /\ hubSt[c] = "open"
  BY <1>1, <1>2
<1>4. out \in [Sess -> Seq(ToAgent)] /\ inb \in [Sess -> Seq(ToHub)]
  BY DEF PathsInv, FreshInv, BaseInv, Types, ChanTypes
<1>5. PICK q \in Seq(ToAgent), r \in Seq(ToHub) : q = out[c] /\ r = inb[c]
  BY <1>4
<1>6. PICK f \in ToAgent : f = Frame(n) /\ f = Head(q) /\ q # <<>>
  BY <1>1, <1>3, <1>5, FrameType DEF HasFrame, Frame, PathsInv, FreshInv, BaseInv
<1>7. out'[c] = Tail(q)
  BY <1>3, <1>4, <1>5 DEF RegisterAck, ApplyPeer, ApplyRemove, ApplyPeerFails, Consume
<1>8. PICK g \in ToHub : inb'[c] = r \/ inb'[c] = Append(r, g)
  <2>1. CASE RegisterAck(n)
    <3>1. inb'[c] = r /\ [type |-> "register", gen |-> 0] \in ToHub
      BY <1>5, <2>1 DEF RegisterAck, ToHub, Gen
    <3> QED
      BY <3>1
  <2>2. ASSUME NEW i \in Nat, NEW b \in BOOLEAN, Consume(n, i, b)
        PROVE  \E g \in ToHub : inb'[c] = Append(r, g)
    <3>1. PICK g : g = [type |-> "ack", link |-> i, ok |-> b]
      OBVIOUS
    <3>2. g \in ToHub /\ inb'[c] = Append(r, g)
      BY <1>3, <1>4, <1>5, <2>2, <3>1 DEF Consume, ToHub
    <3> QED
      BY <3>2
  <2>3. CASE ApplyPeer(n) \/ ApplyPeerFails(n)
    <3>1. PICK sp \in PeerSpec : sp = Frame(n).spec
      BY <1>1, <2>3, FrameType DEF ApplyPeer, ApplyPeerFails, PathsInv, FreshInv, BaseInv
    <3>2. PICK i \in Nat : i = sp.link
      BY DEF PeerSpec
    <3> QED
      BY <2>2, <2>3, <3>1, <3>2 DEF ApplyPeer, ApplyPeerFails
  <2>4. CASE ApplyRemove(n)
    <3>1. NoLink \in Nat /\ (Consume(n, NoLink, TRUE) \/ Consume(n, NoLink, FALSE))
      BY <2>4 DEF ApplyRemove, NoLink
    <3> QED
      BY <2>2, <3>1
  <2> QED
    BY <2>1, <2>3, <2>4
<1>9. Range(r) \subseteq Range(inb'[c])
  <2>1. Range(Append(r, g)) = Range(r) \cup {g}
    BY RangeOfAppend
  <2> QED
    BY <1>8, <2>1
<1>10. Replied(c, l.id) => Replied(c, l.id)'
  BY <1>5, <1>9 DEF Replied
<1>11. ASSUME NEW h \in Range(q), h.type \in {"peer_add", "peer_update"}, h.spec.link = l.id
       PROVE  Asked(c, l.id)' \/ Replied(c, l.id)'
  <2>1. CASE h # f
    <3>1. h \in Range(Tail(q))
      BY <1>6, <2>1, RangeOfTail
    <3> QED
      BY <1>7, <1>11, <3>1 DEF Asked
  <2>2. CASE h = f
    <3>1. ~RegisterAck(n) /\ ~ApplyRemove(n)
      BY <1>6, <1>11, <2>2 DEF RegisterAck, ApplyRemove
    <3>2. ~ApplyPeerFails(n)
      <4>1. SUFFICES ASSUME ApplyPeerFails(n) PROVE FALSE
        OBVIOUS
      <4>2. {n, f.spec.peer} \in torn'
        BY <1>6, <4>1 DEF ApplyPeerFails
      <4>3. Owner(c) = n
        BY <1>3, TalkFacts, NoneIsNoSession
      <4>4. Names(l.id, {n, f.spec.peer})
        BY <1>5, <1>11, <2>2, <4>3 DEF NameInv, Addressed
      <4>5. l.ends = {n, f.spec.peer}
        BY <4>4 DEF Names
      <4> QED
        BY <4>2, <4>5 DEF Awaits, Calm
    <3>3. ApplyPeer(n)
      BY <3>1, <3>2
    <3>4. PICK a : a = [type |-> "ack", link |-> l.id, ok |-> TRUE]
      OBVIOUS
    <3>5. inb'[c] = Append(r, a)
      BY <1>3, <1>4, <1>5, <1>6, <1>11, <2>2, <3>3, <3>4 DEF ApplyPeer, Consume
    <3>6. a \in ToHub
      BY <1>1, <3>4 DEF ToHub, Link
    <3>7. a \in Range(inb'[c])
      BY <3>5, <3>6, RangeOfAppend
    <3> QED
      BY <3>4, <3>7 DEF Replied
  <2> QED
    BY <2>1, <2>2
<1>12. Asked(c, l.id) => Asked(c, l.id)' \/ Replied(c, l.id)'
  BY <1>5, <1>11 DEF Asked
<1>13. Answered(l, n)' <=> <<l.id, n>> \in acked' \/ Asked(c, l.id)' \/ Replied(c, l.id)'
  BY <1>3 DEF Answered, Asked, Replied
<1> QED
  BY <1>3, <1>10, <1>12, <1>13
------------------------------------------------------------------------------
(* Links that are not pending catch up                                      *)

\* A row that comes into the table is still to be pushed.
LEMMA NewIsUnpushed ==
  ASSUME PathsInv, [Next]_vars, NEW l \in store' \ store
  PROVE  Unpushed(l)'
<1>1. store \subseteq Link
  BY DEF PathsInv, FreshInv, BaseInv, Types, DbTypes
<1>2. ASSUME NEW t \in todo, RequestStep(t) PROVE Unpushed(l)'
  <2>1. StoreCreateLink(t)
    BY <1>2 DEF RequestStep, PushLink, RemoveLink, DeleteNodeTx, DeleteNodeCascade, DeleteNodeKick,
                KickClose, DeleteNodeForget, dbVars
  <2>2. PICK u : u = [op |-> "pushLink", link |-> l]
    OBVIOUS
  <2>3. u \in todo'
    BY <2>1, <2>2 DEF StoreCreateLink, Continue
  <2>4. u.op = "pushLink" /\ u.link = l
    BY <2>2
  <2> QED
    BY <2>3, <2>4 DEF Unpushed
<1>3. ASSUME NEW x \in store, NEW e \in Node \cup {None}, SetLinkExit(x, e) PROVE Unpushed(l)'
  <2>1. PICK u : u = [op |-> "pushExit", link |-> l]
    OBVIOUS
  <2>2. u \in todo'
    BY <1>3, <2>1 DEF SetLinkExit
  <2>3. u.op = "pushExit" /\ u.link = l
    BY <2>1
  <2> QED
    BY <2>2, <2>3 DEF Unpushed
<1>4. ASSUME NEW s \in Sess, SessionStep(s) \/ CloseConn(s) PROVE FALSE
  BY <1>4 DEF SessionStep, RunSession, ReadRegister, HandleRegister, SendRegisterAck, HandleAck,
              CloseConn, DropSession, dbVars
<1>5. ASSUME NEW n \in Node,
             \/ AgentStep(n) \/ LoseConn(n) \/ RegisterFails(n) \/ ApplyPeerFails(n)
             \/ AgentRestart(n) \/ GcOfflinePeer(n) \/ RotateWG(n) \/ DeleteNode(n)
      PROVE  FALSE
  BY <1>5, AgentsKeep DEF GcOfflinePeer, RotateWG, DeleteNode, dbVars
<1>6. ASSUME \/ \E e \in Ends : ApiCreateLink(e)
             \/ \E x \in store : DeleteLink(x)
             \/ HubRestart \/ UNCHANGED vars
      PROVE  FALSE
  BY <1>6 DEF ApiCreateLink, DeleteLink, HubRestart, vars, dbVars
<1> QED
  BY <1>2, <1>3, <1>4, <1>5, <1>6 DEF Next, AdminStep, Fault

\* Initially the table is empty.
LEMMA FlagInit == Init => FlagInv
  BY DEF Init, FlagInv, GoneInv

\* Flags, frames and acks account for every link after every step.
LEMMA FlagStep == PathsInv /\ NameInv /\ FlagInv /\ [Next]_vars => FlagInv'
<1> SUFFICES ASSUME PathsInv, NameInv, FlagInv, [Next]_vars PROVE FlagInv'
  OBVIOUS
<1>1. PathsInv' /\ GoneInv /\ GoneInv'
  BY PathsStep, GoneStep DEF FlagInv
<1>2. ASSUME NEW l \in store', NEW n \in l.ends PROVE Tracked(l)' /\ Answers(l, n)'
  <2>1. CASE l \notin store
    <3>1. ~Calm(l)'
      BY <2>1, NewIsUnpushed DEF Calm
    <3> QED
      BY <3>1 DEF Tracked, Answers, Awaits
  <2>2. CASE l \in store
    <3>1. l \in Link /\ n \in Node /\ Tracked(l) /\ Answers(l, n)
      BY <2>2, RowsOfPaths DEF FlagInv, Link, Ends
    <3>2. (Steady(l) /\ Stays(l, n)) => Tracked(l)' /\ Answers(l, n)'
      BY <3>1, SteadyKeeps
    <3>3. ASSUME NEW s \in Sess, SessionStep(s) \/ CloseConn(s) PROVE Tracked(l)' /\ Answers(l, n)'
      <4>1. CASE HandleRegister(s)
        BY <1>1, <2>2, <3>1, <4>1, HandleRegisterFlags
      <4>2. CASE ~HandleRegister(s)
        BY <1>1, <3>1, <3>2, <3>3, <4>2, RunSessionFlags, DropSessionFlags, ConnFlags, HandleAckFlags
           DEF SessionStep
      <4> QED
        BY <4>1, <4>2
    <3>4. ASSUME NEW t \in todo, RequestStep(t) PROVE Tracked(l)' /\ Answers(l, n)'
      <4>1. CASE PushLink(t)
        BY <1>1, <2>2, <3>1, <4>1, PushLinkFlags
      <4>2. CASE RemoveLink(t) \/ DeleteNodeCascade(t)
        BY <1>1, <2>2, <3>2, <4>2, ForgetFlags
      <4>3. CASE \/ StoreCreateLink(t) \/ DeleteNodeTx(t) \/ DeleteNodeKick(t)
                 \/ KickClose(t) \/ DeleteNodeForget(t)
        BY <1>1, <3>1, <3>2, <4>3, RequestFlags
      <4> QED
        BY <3>4, <4>1, <4>2, <4>3 DEF RequestStep
    <3>5. ASSUME AdminStep \/ (\E g \in Node : GcOfflinePeer(g)) \/ UNCHANGED vars
          PROVE  Tracked(l)' /\ Answers(l, n)'
      BY <1>1, <3>1, <3>2, <3>5, RequestFlags
    <3>6. ASSUME NEW m \in Node,
                 \/ AgentStep(m) \/ LoseConn(m) \/ RegisterFails(m) \/ ApplyPeerFails(m) \/ AgentRestart(m)
          PROVE  Tracked(l)' /\ Answers(l, n)'
      <4>1. Steady(l)
        BY <3>6, AgentSteady
      <4>2. CASE m # n
        BY <1>1, <3>1, <3>2, <3>6, <4>1, <4>2, OtherAgentStays
      <4>3. CASE m = n
        BY <1>1, <2>2, <3>1, <3>2, <3>6, <4>1, <4>3, LeavingStays, TakingStays DEF AgentStep
      <4> QED
        BY <4>2, <4>3
    <3>7. CASE HubRestart
      <4>1. \A m \in Node : sessions'[m] = None
        BY <3>7 DEF HubRestart
      <4>2. \A m \in l.ends : m \in Node /\ ~Ready(m)'
        BY <3>1, <4>1 DEF Ready, Link, Ends
      <4> QED
        BY <4>2 DEF Tracked, Answers, Awaits
    <3> QED
      BY <3>3, <3>4, <3>5, <3>6, <3>7 DEF Next, Fault
  <2> QED
    BY <2>1, <2>2
<1>3. ASSUME NEW l \in store' PROVE Tracked(l)'
  <2>1. CASE l \in store
    <3>1. \E n : n \in l.ends
      BY <2>1, RowsOfPaths, OtherIsEnd, OtherOfOther DEF Link, Ends
    <3> QED
      BY <1>2, <3>1
  <2>2. CASE l \notin store
    <3>1. ~Calm(l)'
      BY <2>2, NewIsUnpushed DEF Calm
    <3> QED
      BY <3>1 DEF Tracked
  <2> QED
    BY <2>1, <2>2
<1> QED
  BY <1>1, <1>2, <1>3 DEF FlagInv

\* Names and flags hold of every reachable state.
LEMMA FlagsHold == Spec => [](PathsInv /\ NameInv /\ FlagInv)
<1>1. PathsInv /\ NameInv /\ FlagInv /\ [Next]_vars => PathsInv' /\ NameInv' /\ FlagInv'
  BY PathsStep, NameStep, FlagStep
<1> QED
  BY PathsInit, CutInit, FlagInit, <1>1, PTL DEF Spec

\* A link does not stay pending in the panel once both ends have applied
\* everything and their acks are read, for any number of nodes, links and
\* reconnections: a flag that a push cleared waits for a frame in the queue or
\* an ack on its way (LinkStatus, handleRegister, handleAck, pushPairLocked).
THEOREM StatusIsReached == Spec => []StatusCatchesUp
<1>1. ASSUME PathsInv, FlagInv, NEW l \in store, Settled(l.ends),
             \A n \in l.ends : Drained(n) /\ inb[conn[n]] = <<>>
      PROVE  LinkStatus(l) = "up"
  <2>1. l \in Link /\ l \in Rows /\ l.ends \subseteq Node
    BY <1>1, RowsOfPaths DEF Link, Ends
  <2>2. Calm(l)
    <3>1. ASSUME NEW t \in todo, t.op \in {"pushLink", "pushExit"}, t.link.id = l.id PROVE FALSE
      <4>1. t.link.ends = l.ends
        BY <1>1, <2>1, <3>1, RowsOfPaths, SameId
      <4> QED
        BY <1>1, <3>1, <4>1 DEF Settled, Busy
    <3> QED
      BY <1>1, <3>1 DEF Calm, Unpushed, Settled
  <2>3. ASSUME NEW n \in l.ends
        PROVE  /\ Ready(n) /\ conn[n] = sessions[n] /\ hubSt[conn[n]] = "open"
               /\ Range(out[conn[n]]) = {} /\ Range(inb[conn[n]]) = {}
    <3>1. /\ n \in Node /\ phase[n] = "up" /\ conn[n] # None /\ conn[n] = sessions[n] /\ hubSt[conn[n]] = "open"
          /\ out[conn[n]] = <<>> /\ inb[conn[n]] = <<>> /\ n \notin revokedDB
      BY <1>1, <2>1 DEF Drained, Current, Settled
    <3>2. PICK c \in Sess : c = conn[n] /\ Owner(c) = n
      BY <1>1, <3>1, TalkFacts
    <3>3. registered[c]
      BY <1>1, <3>1, <3>2 DEF PathsInv, FreshInv, KeyInv, UsedOk
    <3>4. lastWG[n] # None
      BY <1>1, <3>1, <3>2, <3>3 DEF PathsInv, PathInv, KnownInv
    <3>5. Range(<<>>) = {}
      BY DEF Range
    <3> QED
      BY <3>1, <3>2, <3>3, <3>4, <3>5 DEF Ready
  <2>4. ASSUME NEW n \in l.ends PROVE <<l.id, n>> \in acked
    <3>1. Answered(l, n)
      BY <1>1, <2>2, <2>3 DEF FlagInv, Answers, Awaits
    <3> QED
      BY <2>3, <3>1 DEF Answered, Asked, Replied
  <2>5. \E n : n \in l.ends
    BY <2>1, OtherIsEnd, OtherOfOther DEF Link, Ends
  <2>6. l.id \in rt
    BY <1>1, <2>2, <2>3, <2>5 DEF FlagInv, Tracked
  <2> QED
    BY <2>3, <2>4, <2>6 DEF LinkStatus, Ready
<1>2. PathsInv /\ FlagInv => StatusCatchesUp
  BY <1>1 DEF StatusCatchesUp
<1> QED
  BY FlagsHold, <1>2, PTL
==============================================================================
