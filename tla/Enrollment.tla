------------------------------ MODULE Enrollment ------------------------------
(***************************************************************************)
(* How a machine becomes a node: one-time tokens, the rate limit of the    *)
(* unauthenticated path, and the overlay addresses with their cooldown     *)
(* (handleEnroll in internal/hub/control.go and the store it uses).        *)
(*                                                                         *)
(* Each enrolling connection has a goroutine of its own, and no lock is    *)
(* held across its database calls: every call is a step, and the steps of  *)
(* several connections and of admin requests interleave.                   *)
(***************************************************************************)
EXTENDS Integers, FiniteSets

CONSTANTS
  Conn,       \* connections without a client certificate, each used once
  Token,      \* tokens the admin may create
  Source,     \* remote IP addresses
  Size,       \* number of addresses of overlay_cidr, 2^(32 - bits)
  Ttl,        \* lifetimes a token can be given
  Window,     \* the rate limit's minute, in ticks
  MaxTries,   \* attempts per source and window (5 in the code)
  Cooldown,   \* ip_cooldown_s, in ticks
  MaxTime,    \* bound on the clock
  MaxDeletes, \* bound on node deletions
  MaxRestarts,\* bound on hub restarts
  MaxEvents,  \* bound on both together
  None

ASSUME ConnAssumption == IsFiniteSet(Conn)
ASSUME SizeAssumption == Size \in Nat \ {0}
ASSUME TtlAssumption == Ttl \subseteq Nat
ASSUME RateAssumption == Window \in Nat /\ MaxTries \in Nat
ASSUME CooldownAssumption == Cooldown \in Nat
ASSUME BoundAssumption == {MaxTime, MaxDeletes, MaxRestarts, MaxEvents} \subseteq Nat
ASSUME NoneAssumption == None \notin Nat \cup Token \cup Source

VARIABLES
  clock,      \* time.Now
  \* SQLite database
  tokenSt,    \* table tokens: "new" (no row yet), "valid", "used" or "deleted"
  expires,    \* tokens.expires_at
  row,        \* table nodes: the row inserted by a connection, or None
  cooldown,   \* table ip_cooldown: address -> freed_at, or None
  \* struct Hub
  tries,      \* h.enrollTries: per source, the attempts still listed
  began,      \* the time of an attempt that passed the rate limit, or None
  \* the goroutine of an enrolling connection (handleEnroll's locals)
  pc,
  src,        \* remoteIP
  tok,        \* d.Token
  at,         \* now
  used,       \* the first result set of AllocateIP
  ip,         \* overlayIP
  \* node deletions between GetNode and their transaction
  del,
  \* bookkeeping of the model
  freed,      \* address -> freed_at of its last release, never expired
  late,       \* addresses released since a connection read the cooldown table
  deletes, restarts

dbVars == <<tokenSt, expires, row, cooldown>>
locals == <<src, tok, at, used, ip>>
vars == <<clock, dbVars, tries, pc, locals, del, began, freed, late, deletes, restarts>>

Addr == 0 .. Size - 1

\* The loop of AllocateIP: not the network, not .1, not the broadcast address.
HostAddr == 2 .. Size - 2

NodeRow == [ip : Addr \cup {None}, revoked : BOOLEAN, token : Token]
ASSUME RowAssumption == None \notin NodeRow
Deletion == [node : Conn, ip : Addr \cup {None}, at : Nat]
Step == {"idle", "read", "select", "burn", "used", "expire", "cooldown", "create",
         "done", "failed"}

Init ==
  /\ clock = 0
  /\ tokenSt = [t \in Token |-> "new"]
  /\ expires = [t \in Token |-> 0]
  /\ row = [c \in Conn |-> None]
  /\ cooldown = [a \in Addr |-> None]
  /\ tries = [s \in Source |-> {}]
  /\ pc = [c \in Conn |-> "idle"]
  /\ src = [c \in Conn |-> None]
  /\ tok = [c \in Conn |-> None]
  /\ at = [c \in Conn |-> 0]
  /\ used = [c \in Conn |-> {}]
  /\ ip = [c \in Conn |-> None]
  /\ del = {}
  /\ began = [c \in Conn |-> None]
  /\ freed = [a \in Addr |-> None]
  /\ late = [c \in Conn |-> {}]
  /\ deletes = 0 /\ restarts = 0

Goto(c, l) == pc' = [pc EXCEPT ![c] = l]

------------------------------------------------------------------------------
(* handleEnroll                                                            *)

\* The attempts of a source that are not older than the window.
Recent(s) == {c \in tries[s] : clock - began[c] < Window}

\* Mutant: one attempt too many.
EnrollAllowedOneMore(s) == Cardinality(Recent(s)) <= MaxTries

EnrollAllowed(s) == Cardinality(Recent(s)) < MaxTries

\* handleEnroll up to the rate limit: the pruned list is stored either way.
Enroll(c, s) ==
  /\ pc[c] = "idle"
  /\ src' = [src EXCEPT ![c] = s]
  /\ IF EnrollAllowed(s)
       THEN /\ tries' = [tries EXCEPT ![s] = Recent(s) \cup {c}]
            /\ began' = [began EXCEPT ![c] = clock]
            /\ Goto(c, "read")
       ELSE /\ tries' = [tries EXCEPT ![s] = Recent(s)]
            /\ Goto(c, "failed")
            /\ UNCHANGED began
  /\ UNCHANGED <<clock, dbVars, tok, at, used, ip, del, freed, late, deletes, restarts>>

\* The enroll frame arrives, with a token that exists or once existed.
ReadFrame(c, t) ==
  /\ pc[c] = "read" /\ tokenSt[t] # "new"
  /\ tok' = [tok EXCEPT ![c] = t]
  /\ at' = [at EXCEPT ![c] = clock]
  /\ Goto(c, "select")
  /\ UNCHANGED <<clock, dbVars, tries, src, used, ip, del, began, freed, late, deletes,
                 restarts>>

\* No frame, another frame than enroll, or an unknown token.
BadFrame(c) ==
  /\ pc[c] = "read"
  /\ Goto(c, "failed")
  /\ UNCHANGED <<clock, dbVars, tries, locals, del, began, freed, late, deletes, restarts>>

\* ConsumeToken, its query.
SelectToken(c) ==
  LET t == tok[c] IN
  /\ pc[c] = "select"
  /\ Goto(c, IF tokenSt[t] = "valid" /\ at[c] <= expires[t] THEN "burn" ELSE "failed")
  /\ UNCHANGED <<clock, dbVars, tries, locals, del, began, freed, late, deletes, restarts>>

\* Mutant: the number of updated rows is not looked at.
BurnTokenUnchecked(c) ==
  /\ pc[c] = "burn"
  /\ tokenSt' = [tokenSt EXCEPT ![tok[c]] = "used"]
  /\ Goto(c, "used")
  /\ UNCHANGED <<clock, expires, row, cooldown, tries, locals, del, began, freed, late,
                 deletes, restarts>>

\* ConsumeToken, its update: of two connections with the same token, one
\* changes a row.
BurnToken(c) ==
  LET t == tok[c] IN
  /\ pc[c] = "burn"
  /\ IF tokenSt[t] = "valid"
       THEN tokenSt' = [tokenSt EXCEPT ![t] = "used"] /\ Goto(c, "used")
       ELSE UNCHANGED tokenSt /\ Goto(c, "failed")
  /\ UNCHANGED <<clock, expires, row, cooldown, tries, locals, del, began, freed, late,
                 deletes, restarts>>

\* The addresses of the nodes that are not revoked.
LiveAddrs == {row[c].ip : c \in {x \in Conn : row[x] # None /\ ~row[x].revoked}}

\* AllocateIP: its three database calls and the choice of the lowest address.
ReadUsed(c) ==
  /\ pc[c] = "used"
  /\ used' = [used EXCEPT ![c] = LiveAddrs]
  /\ Goto(c, "expire")
  /\ UNCHANGED <<clock, dbVars, tries, src, tok, at, ip, del, began, freed, late, deletes,
                 restarts>>

\* Mutant: the sign of the cutoff.
UnexpiredLoose(now) ==
  [a \in Addr |-> IF cooldown[a] # None /\ cooldown[a] < now + Cooldown
                    THEN None ELSE cooldown[a]]

\* DELETE FROM ip_cooldown WHERE freed_at < now - cooldown
Unexpired(now) ==
  [a \in Addr |-> IF cooldown[a] # None /\ cooldown[a] < now - Cooldown
                    THEN None ELSE cooldown[a]]

ExpireCooldown(c) ==
  /\ pc[c] = "expire"
  /\ cooldown' = Unexpired(at[c])
  /\ Goto(c, "cooldown")
  /\ UNCHANGED <<clock, tokenSt, expires, row, tries, locals, del, began, freed, late,
                 deletes, restarts>>

\* Mutant: the scan starts at the network address and includes the last one.
FreeAddrsAll(c) == {a \in Addr : a \notin used[c] /\ cooldown[a] = None}

\* The addresses AllocateIP may hand out.
FreeAddrs(c) == {a \in HostAddr : a \notin used[c] /\ cooldown[a] = None}

ReadCooldown(c) ==
  /\ pc[c] = "cooldown"
  /\ IF FreeAddrs(c) = {}
       THEN Goto(c, "failed") /\ UNCHANGED ip
       ELSE /\ Goto(c, "create")
            /\ \E a \in FreeAddrs(c) :
                 /\ \A b \in FreeAddrs(c) : a <= b
                 /\ ip' = [ip EXCEPT ![c] = a]
  /\ late' = [late EXCEPT ![c] = {}]
  /\ UNCHANGED <<clock, dbVars, tries, src, tok, at, used, del, began, freed, deletes,
                 restarts>>

\* SignCSR refuses the request; the token stays burnt.
RejectCSR(c) ==
  /\ pc[c] = "create"
  /\ Goto(c, "failed")
  /\ UNCHANGED <<clock, dbVars, tries, locals, del, began, freed, late, deletes, restarts>>

\* Mutant: overlay_ip is not UNIQUE.
TakenNever(a) == FALSE

\* overlay_ip is UNIQUE in the table nodes.
Taken(a) == \E c \in Conn : row[c] # None /\ row[c].ip = a

\* CreateNode, and the enroll_ack.
CreateNode(c) ==
  /\ pc[c] = "create"
  /\ IF Taken(ip[c])
       THEN Goto(c, "failed") /\ UNCHANGED row
       ELSE /\ row' = [row EXCEPT ![c] = [ip |-> ip[c], revoked |-> FALSE, token |-> tok[c]]]
            /\ Goto(c, "done")
  /\ UNCHANGED <<clock, tokenSt, expires, cooldown, tries, locals, del, began, freed, late,
                 deletes, restarts>>

------------------------------------------------------------------------------
(* Admin requests and the environment                                      *)

CreateToken(t, ttl) ==
  /\ tokenSt[t] = "new"
  /\ tokenSt' = [tokenSt EXCEPT ![t] = "valid"]
  /\ expires' = [expires EXCEPT ![t] = clock + ttl]
  /\ UNCHANGED <<clock, row, cooldown, tries, pc, locals, del, began, freed, late, deletes,
                 restarts>>

DeleteToken(t) ==
  /\ tokenSt[t] \in {"valid", "used"}
  /\ tokenSt' = [tokenSt EXCEPT ![t] = "deleted"]
  /\ UNCHANGED <<clock, expires, row, cooldown, tries, pc, locals, del, began, freed, late,
                 deletes, restarts>>

\* Store.DeleteNode reads the row before its transaction.
DeleteNode(c) ==
  /\ row[c] # None
  /\ deletes < MaxDeletes /\ deletes + restarts < MaxEvents /\ deletes' = deletes + 1
  /\ del' = del \cup {[node |-> c, ip |-> row[c].ip, at |-> clock]}
  /\ UNCHANGED <<clock, dbVars, tries, pc, locals, began, freed, late, restarts>>

\* Mutant: the cutoff is recorded instead of the time of the release.
DeleteNodeTxCutoff(d) ==
  LET c == d.node IN
  /\ row' = [row EXCEPT ![c] = [ip |-> None, revoked |-> TRUE, token |-> row[c].token]]
  /\ IF d.ip = None
       THEN UNCHANGED <<cooldown, freed, late>>
       ELSE /\ cooldown' = [cooldown EXCEPT ![d.ip] = d.at - Cooldown]
            /\ freed' = [freed EXCEPT ![d.ip] = d.at]
            /\ late' = [x \in Conn |-> IF pc[x] = "create" THEN late[x] \cup {d.ip} ELSE late[x]]
  /\ del' = del \ {d}
  /\ UNCHANGED <<clock, tokenSt, expires, tries, pc, locals, began, deletes, restarts>>

\* The transaction: the row is revoked and loses its address, which cools
\* down. A row deleted a second time has no address any more.
DeleteNodeTx(d) ==
  LET c == d.node IN
  /\ row' = [row EXCEPT ![c] = [ip |-> None, revoked |-> TRUE, token |-> row[c].token]]
  /\ IF d.ip = None
       THEN UNCHANGED <<cooldown, freed, late>>
       ELSE /\ cooldown' = [cooldown EXCEPT ![d.ip] = d.at]
            /\ freed' = [freed EXCEPT ![d.ip] = d.at]
            /\ late' = [x \in Conn |-> IF pc[x] = "create" THEN late[x] \cup {d.ip} ELSE late[x]]
  /\ del' = del \ {d}
  /\ UNCHANGED <<clock, tokenSt, expires, tries, pc, locals, began, deletes, restarts>>

\* The hub process dies: the connections and the rate limit are lost, the
\* database stays.
HubRestart ==
  /\ restarts < MaxRestarts /\ deletes + restarts < MaxEvents /\ restarts' = restarts + 1
  /\ tries' = [s \in Source |-> {}]
  /\ began' = [c \in Conn |-> None]
  /\ pc' = [c \in Conn |-> IF pc[c] \in {"idle", "done"} THEN pc[c] ELSE "failed"]
  /\ del' = {}
  /\ UNCHANGED <<clock, dbVars, locals, freed, late, deletes>>

Tick ==
  /\ clock < MaxTime
  /\ clock' = clock + 1
  /\ UNCHANGED <<dbVars, tries, pc, locals, del, began, freed, late, deletes, restarts>>

------------------------------------------------------------------------------
ConnStep(c) ==
  \/ \E s \in Source : Enroll(c, s)
  \/ \E t \in Token : ReadFrame(c, t)
  \/ BadFrame(c) \/ SelectToken(c) \/ BurnToken(c)
  \/ ReadUsed(c) \/ ExpireCooldown(c) \/ ReadCooldown(c)
  \/ RejectCSR(c) \/ CreateNode(c)

AdminStep ==
  \/ \E t \in Token : DeleteToken(t) \/ \E ttl \in Ttl : CreateToken(t, ttl)
  \/ \E c \in Conn : DeleteNode(c)
  \/ \E d \in del : DeleteNodeTx(d)

Next ==
  \/ \E c \in Conn : ConnStep(c)
  \/ AdminStep
  \/ HubRestart
  \/ Tick

Spec == Init /\ [][Next]_vars

------------------------------------------------------------------------------
(* Properties                                                              *)

\* Every variable has its type.
TypeOK ==
  /\ clock \in Nat
  /\ tokenSt \in [Token -> {"new", "valid", "used", "deleted"}]
  /\ expires \in [Token -> Nat]
  /\ row \in [Conn -> NodeRow \cup {None}]
  /\ cooldown \in [Addr -> Nat \cup {None}]
  /\ tries \in [Source -> SUBSET Conn]
  /\ pc \in [Conn -> Step]
  /\ src \in [Conn -> Source \cup {None}]
  /\ tok \in [Conn -> Token \cup {None}]
  /\ at \in [Conn -> Nat]
  /\ used \in [Conn -> SUBSET (Addr \cup {None})]
  /\ ip \in [Conn -> Addr \cup {None}]
  /\ del \subseteq Deletion
  /\ began \in [Conn -> Nat \cup {None}]
  /\ freed \in [Addr -> Nat \cup {None}]
  /\ late \in [Conn -> SUBSET Addr]
  /\ deletes \in Nat /\ restarts \in Nat

\* A token is one-time although it is looked up and burnt in two database
\* calls (ConsumeToken): no two nodes, deleted ones included, ever came from
\* the same token, also across a hub restart.
OneNodePerToken ==
  \A c, d \in Conn : (c # d /\ row[c] # None /\ row[d] # None)
                       => row[c].token # row[d].token

\* Two nodes never share an overlay address although addresses are chosen
\* from a reading of the table that is stale at the insert (AllocateIP,
\* CreateNode), and a live node has a host address that is not the hub's.
DistinctAddrs ==
  \A c \in Conn : (row[c] # None /\ ~row[c].revoked) =>
    /\ row[c].ip \in HostAddr
    /\ \A d \in Conn \ {c} : row[d] # None => row[d].ip # row[c].ip

\* The enrollments that source s started in the window from t on.
Started(s, t) == {c \in Conn : src[c] = s /\ began[c] # None /\ began[c] \in t .. t + Window - 1}

\* No source starts more than MaxTries enrollments in any window while the
\* hub runs, although every attempt prunes the list it is counted in
\* (enrollAllowed).
RateBound ==
  \A s \in Source : \A t \in 0 .. clock :
    Cardinality(Started(s, t)) <= MaxTries

\* An address released before an enrollment read the cooldown table is given
\* out only when its cooldown has passed, whatever other enrollments expire
\* from the table (AllocateIP, DeleteNode).
CooldownWaits ==
  [][\A c \in Conn : (row[c] = None /\ row'[c] # None) =>
       LET a == row'[c].ip IN
       a \in late[c] \/ freed[a] = None \/ clock - freed[a] > Cooldown]_vars

\* "A deleted node's IP can be reused only after 30 days in the cooldown
\* pool" (AGENT.md §8): the same without the exemption.
NoReuseBeforeCooldown ==
  [][\A c \in Conn : (row[c] = None /\ row'[c] # None) =>
       LET a == row'[c].ip IN freed[a] = None \/ clock - freed[a] > Cooldown]_vars
==============================================================================
