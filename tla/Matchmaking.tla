----------------------------- MODULE Matchmaking -----------------------------
(***************************************************************************)
(* The control plane of LightPN: one hub (internal/hub) that keeps links   *)
(* in a database and sessions in memory, and agents (internal/agent) that  *)
(* register their ephemeral WireGuard key over a control connection and    *)
(* apply the peers the hub pushes to them to their kernel device.          *)
(*                                                                         *)
(* Every critical section of Hub.mu and every database call is one step;   *)
(* what the code does between two of them may interleave with the rest.    *)
(***************************************************************************)
EXTENDS Integers, Sequences, FiniteSets

CONSTANTS
  Node,       \* enrolled node ids
  SocksNode,  \* nodes whose agent runs with -socks-port (a.Exit /= nil)
  Sess,       \* <<n, i>>: node n can have an i-th connection at the hub
  OutCap,     \* capacity of session.out (64 in the code)
  Scenarios,  \* budgets: how often each kind of event may happen; None: no bound
  None        \* nil

Event == {"dial", "break", "crash", "restart", "rotate", "link", "unlink", "exit",
          "delete", "gc", "wgfail"}

ASSUME SessAssumption == Sess \subseteq Node \X Nat
ASSUME SocksAssumption == SocksNode \subseteq Node
ASSUME CapAssumption == OutCap \in Nat \ {0}
ASSUME ScenariosAssumption == Scenarios \subseteq [Event -> Nat \cup {None}]
ASSUME NoneAssumption == None \notin Nat \cup Node \cup Sess

VARIABLES
  \* SQLite database (store.go): survives a hub restart
  store,      \* live rows of table links
  minted,     \* ids handed out so far; a ULID is never reused
  revokedDB,  \* nodes whose row has revoked=1
  seen,       \* nodes whose row has last_seen /= 0
  \* struct Hub (hub.go): lost in a restart
  sessions,   \* h.sessions: node -> current session or None
  lastWG,     \* h.lastWG: node -> generation of its last registered key
  rt,         \* ids of the links that have a linkRT in h.links
  acked,      \* <<id, n>>: the ack flag of n's side of link id is set
  gcDone,     \* h.gcDone
  todo,       \* admin requests between two of their steps
  \* struct session (control.go), one per connection
  hubSt,      \* "none", "checked", "open" or "closed"
  registered, \* s.registered
  pc,         \* where its goroutine is in handleRegister
  reg,        \* the key generation of the register frame being handled
  snap,       \* links: the result of LinksOfNode in handleRegister
  exp,        \* expected: the peer list of the register_ack to be sent
  out,        \* s.out and the TCP stream to the agent
  inb,        \* the TCP stream to the hub
  \* struct Agent (agent.go) and its kernel device (wg_linux.go)
  phase,      \* "down", "registering", "up" or "gone" (kicked)
  conn,       \* the connection the agent uses, or None
  key,        \* a.wgPub: the generation of the device's key
  dev,        \* the kernel device's peers (and w.peerNodes), and w.nodeKeys
  exits,      \* ExitController.exits: <<link id, exit node>>
  upstream,   \* ExitController.up: the exit node in use or None (direct)
  \* bookkeeping of the model
  budget,     \* what is left of the scenario's budget
  torn        \* pairs whose steps overlapped in a way named below

dbVars    == <<store, minted, revokedDB, seen>>
hubVars   == <<sessions, lastWG, rt, acked, gcDone>>
sessVars  == <<registered, pc, reg, snap, exp>>
chanVars  == <<hubSt, out, inb>>
wgVars    == <<key, dev, exits, upstream>>
agentVars == <<phase, conn, wgVars>>
vars == <<dbVars, hubVars, todo, sessVars, chanVars, agentVars, budget, torn>>

------------------------------------------------------------------------------
(* Data                                                                    *)

Owner(s) == s[1]
NoLink == 0
Gen == Nat
Key == Node \X Gen

\* A kernel device: its peers' keys, and per node the key last configured.
Device == [peers : SUBSET Key, keys : [Node -> Gen \cup {None}]]
NoPeers == [peers |-> {}, keys |-> [p \in Node |-> None]]

\* The row stores its two ends sorted, to make the pair UNIQUE: a set.
Ends == {{a, b} : a, b \in Node} \ {{a} : a \in Node}
Link == [id : Nat \ {0}, ends : Ends, exit : Node \cup {None}]
Other(l, n) == CHOOSE m \in l.ends : m # n
LinksOf(n) == {l \in store : n \in l.ends}

\* valid: allowed_ips can be parsed. Store.DeleteNode overwrites the overlay
\* address of a revoked row, and a spec of such a node is refused.
PeerSpec == [link : Nat, peer : Node, gen : Gen, exit : BOOLEAN, valid : BOOLEAN]

ToAgent ==
  [type : {"register_ack"}, peers : SUBSET PeerSpec]
    \cup [type : {"peer_add", "peer_update"}, spec : PeerSpec]
    \cup [type : {"peer_remove"}, link : Nat, wg : Key]
    \cup [type : {"rotate_wg", "kick", "error"}]

ToHub == [type : {"register"}, gen : Gen]
           \cup [type : {"ack"}, link : Nat, ok : BOOLEAN]

\* The rest of an admin request, after the step that queued it.
Todo ==
  [op : {"createLink"}, ends : Ends]
    \cup [op : {"pushLink", "pushExit", "removeLink"}, link : Link]
    \cup [op : {"deleteTx", "cascade"}, node : Node, links : SUBSET Link]
    \cup [op : {"kick"}, node : Node, sess : Sess \cup {None}]
    \cup [op : {"close"}, sess : Sess \cup {None}]
    \cup [op : {"forget"}, node : Node]

Spend(e) == \/ budget[e] = None /\ UNCHANGED budget
            \/ budget[e] # None /\ budget[e] > 0 /\ budget' = [budget EXCEPT ![e] = @ - 1]

------------------------------------------------------------------------------
(* Sending on a session: the frame is queued; a full queue closes the      *)
(* session; nothing reaches an agent that is gone, or through a closed one. *)

\* fr maps some sessions to the frame each is sent.
Queued(fr) ==
  [s \in Sess |-> IF /\ s \in DOMAIN fr /\ hubSt[s] = "open"
                     /\ conn[Owner(s)] = s /\ Len(out[s]) < OutCap
                    THEN Append(out[s], fr[s]) ELSE out[s]]

OverflowClosed(fr) ==
  [s \in Sess |-> IF s \in DOMAIN fr /\ hubSt[s] = "open" /\ Len(out[s]) >= OutCap
                    THEN "closed" ELSE hubSt[s]]

Send(fr) == out' = Queued(fr) /\ hubSt' = OverflowClosed(fr)

\* Online and registered, with known WG material.
Ready(n) == /\ sessions[n] # None
            /\ registered[sessions[n]]
            /\ lastWG[n] # None

\* Mutant: any designation counts, also that of the receiving end.
SpecOfAnyExit(l, p, gen) ==
  [link |-> l.id, peer |-> p, gen |-> gen,
   exit |-> l.exit # None /\ p \in SocksNode, valid |-> p \notin revokedDB]

\* peerSpecLocked: what the other end of l must configure for peer p.
SpecOf(l, p, gen) ==
  [link |-> l.id, peer |-> p, gen |-> gen,
   exit |-> l.exit = p /\ p \in SocksNode, valid |-> p \notin revokedDB]

\* Mutant: only one end is sent the push.
PairFramesOneSide(l, typ) ==
  LET n == CHOOSE x \in l.ends : TRUE
      p == Other(l, n)
  IN  IF \A m \in l.ends : Ready(m)
        THEN [s \in {sessions[n]} |-> [type |-> typ, spec |-> SpecOf(l, p, lastWG[p])]]
        ELSE <<>>

\* pushPairLocked: sent to both ends, or to neither.
PairFrames(l, typ) ==
  IF \A n \in l.ends : Ready(n)
    THEN [s \in {sessions[n] : n \in l.ends} |->
            LET p == Other(l, Owner(s)) IN
              [type |-> typ, spec |-> SpecOf(l, p, lastWG[p])]]
    ELSE <<>>

PairAcks(l) == IF \A n \in l.ends : Ready(n)
                 THEN {x \in acked : x[1] # l.id} ELSE acked

\* Mutant: the key named is the receiver's own.
RemoveFramesOwnKey(ends) ==
  [s \in {sessions[e[2]] : e \in {x \in ends : /\ sessions[x[2]] # None
                                            /\ lastWG[Other(x[1], x[2])] # None}} |->
     LET l == (CHOOSE e \in ends : e[2] = Owner(s))[1]
     IN  [type |-> "peer_remove", link |-> l.id, wg |-> <<Owner(s), lastWG[Owner(s)]>>]]

\* removeSideLocked for every <<link, to>> of a set: `to` drops the other end.
\* No two members of ends have the same second component.
RemoveFrames(ends) ==
  [s \in {sessions[e[2]] : e \in {x \in ends : /\ sessions[x[2]] # None
                                            /\ lastWG[Other(x[1], x[2])] # None}} |->
     LET l == (CHOOSE e \in ends : e[2] = Owner(s))[1]
         p == Other(l, Owner(s))
     IN  [type |-> "peer_remove", link |-> l.id, wg |-> <<p, lastWG[p]>>]]

\* delete(h.links, id)
ForgetLinks(ids) == /\ rt' = rt \ ids
                    /\ acked' = {x \in acked : x[1] \notin ids}

------------------------------------------------------------------------------
Init ==
  /\ store = {} /\ minted = 0 /\ revokedDB = {} /\ seen = {}
  /\ sessions = [n \in Node |-> None]
  /\ lastWG = [n \in Node |-> None]
  /\ rt = {} /\ acked = {} /\ gcDone = {} /\ todo = {}
  /\ hubSt = [s \in Sess |-> "none"]
  /\ registered = [s \in Sess |-> FALSE]
  /\ pc = [s \in Sess |-> "idle"]
  /\ reg = [s \in Sess |-> 0]
  /\ snap = [s \in Sess |-> {}]
  /\ exp = [s \in Sess |-> {}]
  /\ out = [s \in Sess |-> <<>>]
  /\ inb = [s \in Sess |-> <<>>]
  /\ phase = [n \in Node |-> "down"]
  /\ conn = [n \in Node |-> None]
  /\ key = [n \in Node |-> 0]
  /\ dev = [n \in Node |-> NoPeers]
  /\ exits = [n \in Node |-> {}]
  /\ upstream = [n \in Node |-> None]
  /\ budget \in Scenarios
  /\ torn = {}

------------------------------------------------------------------------------
(* Control connections at the hub (control.go)                             *)

\* runSession, up to its read loop: one live session per node.
RunSession(s) ==
  LET n == Owner(s) IN
  /\ hubSt[s] = "checked"
  /\ hubSt' = [r \in Sess |-> IF r = s THEN "open"
                              ELSE IF r = sessions[n] /\ hubSt[r] = "open"
                                THEN "closed" ELSE hubSt[r]]
  /\ sessions' = [sessions EXCEPT ![n] = s]
  /\ gcDone' = gcDone \ {n}
  /\ UNCHANGED <<dbVars, lastWG, rt, acked, todo, sessVars, out, inb,
                 agentVars, budget, torn>>

\* handleRegister, before the lock: the frame is read and the links are
\* listed. A goroutine that had read the frame goes on after a close.
ReadRegister(s) ==
  /\ hubSt[s] \in {"open", "closed"} /\ pc[s] = "idle"
  /\ inb[s] # <<>> /\ Head(inb[s]).type = "register"
  /\ inb' = [inb EXCEPT ![s] = Tail(@)]
  /\ pc' = [pc EXCEPT ![s] = "links"]
  /\ reg' = [reg EXCEPT ![s] = Head(inb[s]).gen]
  /\ snap' = [snap EXCEPT ![s] = LinksOf(Owner(s))]
  /\ UNCHANGED <<dbVars, hubVars, todo, registered, exp, hubSt, out,
                 agentVars, budget, torn>>

\* Mutant: an other end that is online but has not registered counts.
ExpectedOnline(s) == {l \in snap[s] : sessions[Other(l, Owner(s))] # None}

\* The links of a register whose other end is online and registered.
Expected(s) == {l \in snap[s] : Ready(Other(l, Owner(s)))}

\* Mutant: the other ends are not told.
RegisterFramesNone(s) == <<>>

\* The peer_update each of those other ends is sent.
RegisterFrames(s) ==
  LET n == Owner(s) IN
  [r \in {sessions[Other(l, n)] : l \in Expected(s)} |->
     LET l == CHOOSE x \in Expected(s) : Other(x, n) = Owner(r)
     IN  [type |-> "peer_update", spec |-> SpecOf(l, n, reg[s])]]

\* Links of which a current row is still to be pushed, or to be withdrawn.
Pending == {t.link : t \in {u \in todo : \/ u.op = "removeLink"
                                         \/ u.op \in {"pushLink", "pushExit"}
                                              /\ u.link \in store}}

\* Links that a request is about to withdraw from their ends.
Withdrawn == {t.link : t \in {u \in todo : u.op = "removeLink"}}
               \cup UNION {t.links : t \in {u \in todo : u.op = "cascade"}}

\* What the steps around a register can tear: a pair whose link changed
\* since the register listed it, unless a step of that change is still to
\* come and the key is the same; a pair that is being withdrawn, when the
\* withdrawal will name a key the other end was not sent; and the node
\* itself, when an older connection brings back a key that a newer one has
\* replaced.
TornByRegister(s) ==
  LET n == Owner(s)
      stale == (snap[s] \ store) \cup (LinksOf(n) \ snap[s])
      rekeyed == lastWG[n] \notin {None, reg[s]}
  IN  {l.ends : l \in {x \in stale : rekeyed \/ \A p \in Pending : p.id # x.id}}
        \cup {l.ends : l \in {x \in Withdrawn : rekeyed /\ n \in x.ends}}
        \cup {{n} : x \in {y \in {n} : rekeyed /\ reg[s] < lastWG[n]}}

\* Mutant: only an ack frame acknowledges.
RegisterAcksNone(s) == acked

\* The register_ack counts as acknowledged on this side when it is built.
RegisterAcks(s) == acked \cup {<<l.id, Owner(s)>> : l \in Expected(s)}

\* Mutant: the first key of a node is kept.
RegisteredKeyOnce(s) ==
  IF lastWG[Owner(s)] = None THEN [lastWG EXCEPT ![Owner(s)] = reg[s]] ELSE lastWG

\* h.lastWG after a register.
RegisteredKey(s) == [lastWG EXCEPT ![Owner(s)] = reg[s]]

\* handleRegister, under the lock.
HandleRegister(s) ==
  LET n == Owner(s) IN
  /\ pc[s] = "links"
  /\ lastWG' = RegisteredKey(s)
  /\ registered' = [registered EXCEPT ![s] = TRUE]
  /\ rt' = rt \cup {l.id : l \in snap[s]}
  /\ acked' = RegisterAcks(s)
  /\ exp' = [exp EXCEPT ![s] = {SpecOf(l, Other(l, n), lastWG[Other(l, n)]) :
                                  l \in Expected(s)}]
  /\ Send(RegisterFrames(s))
  /\ pc' = [pc EXCEPT ![s] = "ack"]
  /\ snap' = [snap EXCEPT ![s] = {}]
  /\ reg' = [reg EXCEPT ![s] = 0]
  /\ torn' = torn \cup TornByRegister(s)
  /\ UNCHANGED <<dbVars, sessions, gcDone, todo, inb, agentVars, budget>>

\* handleRegister, after the lock: the register_ack is queued behind
\* whatever was sent to the session since it was set.
SendRegisterAck(s) ==
  /\ pc[s] = "ack"
  /\ Send([r \in {s} |-> [type |-> "register_ack", peers |-> exp[s]]])
  /\ pc' = [pc EXCEPT ![s] = "idle"]
  /\ exp' = [exp EXCEPT ![s] = {}]
  /\ seen' = seen \cup {Owner(s)}
  /\ UNCHANGED <<store, minted, revokedDB, hubVars, todo, registered, reg, snap, inb, agentVars,
                 budget, torn>>

\* handleAck. s.pendingAcks holds the ids of the peer_add and peer_update
\* frames not yet acknowledged, so the model's ack carries its ackRef.
HandleAck(s) ==
  LET f == Head(inb[s]) IN
  /\ hubSt[s] \in {"open", "closed"} /\ pc[s] = "idle"
  /\ inb[s] # <<>> /\ f.type = "ack"
  /\ inb' = [inb EXCEPT ![s] = Tail(@)]
  /\ acked' = IF f.ok /\ f.link \in rt THEN acked \cup {<<f.link, Owner(s)>>} ELSE acked
  /\ UNCHANGED <<dbVars, sessions, lastWG, rt, gcDone, todo, sessVars, hubSt,
                 out, agentVars, budget, torn>>

\* The read loop ends (end of stream, read deadline) or a write fails.
CloseConn(s) ==
  /\ hubSt[s] = "open"
  /\ hubSt' = [hubSt EXCEPT ![s] = "closed"]
  /\ \/ conn[Owner(s)] # s /\ UNCHANGED budget
     \/ conn[Owner(s)] = s /\ Spend("break")
  /\ UNCHANGED <<dbVars, hubVars, todo, sessVars, out, inb, agentVars, torn>>

\* Mutant: the node's entry goes, whoever holds it.
SessionsWithoutNode(s) == [sessions EXCEPT ![Owner(s)] = None]

\* h.sessions after dropSession(s): only s itself is removed.
SessionsWithout(s) ==
  IF sessions[Owner(s)] = s THEN [sessions EXCEPT ![Owner(s)] = None] ELSE sessions

\* A delayed kick or close no longer finds the connection.
Detach(t, s) == IF t.op \in {"kick", "close"} /\ t.sess = s
                  THEN [t EXCEPT !.sess = None] ELSE t

\* dropSession, when the session's goroutine leaves runSession.
DropSession(s) ==
  /\ hubSt[s] = "closed" /\ pc[s] = "idle"
  /\ hubSt' = [hubSt EXCEPT ![s] = "none"]
  /\ sessions' = SessionsWithout(s)
  /\ registered' = [registered EXCEPT ![s] = FALSE]
  /\ inb' = [inb EXCEPT ![s] = <<>>]
  /\ todo' = {Detach(t, s) : t \in todo}
  /\ seen' = seen \cup {Owner(s)}
  /\ UNCHANGED <<store, minted, revokedDB, lastWG, rt, acked, gcDone, pc, reg, snap, exp, out,
                 agentVars, budget, torn>>

\* gcOfflinePeers for one node offline for longer than peer_gc_after.
GcOfflinePeer(n) ==
  /\ n \in seen \ revokedDB /\ sessions[n] = None /\ n \notin gcDone
  /\ Spend("gc")
  /\ Send(RemoveFrames({<<l, Other(l, n)>> : l \in LinksOf(n)}))
  /\ gcDone' = gcDone \cup {n}
  /\ UNCHANGED <<dbVars, sessions, lastWG, rt, acked, todo, sessVars, inb,
                 agentVars, torn>>

\* The hub process dies and is started again: New with an empty runtime.
\* Frames already on the wire may still reach the agents. No pair stays
\* torn: every agent has to register again.
HubRestart ==
  /\ Spend("crash")
  /\ sessions' = [n \in Node |-> None]
  /\ lastWG' = [n \in Node |-> None]
  /\ rt' = {} /\ acked' = {} /\ gcDone' = {} /\ todo' = {}
  /\ hubSt' = [s \in Sess |-> "none"]
  /\ registered' = [s \in Sess |-> FALSE]
  /\ pc' = [s \in Sess |-> "idle"]
  /\ reg' = [s \in Sess |-> 0]
  /\ snap' = [s \in Sess |-> {}]
  /\ exp' = [s \in Sess |-> {}]
  /\ inb' = [s \in Sess |-> <<>>]
  /\ torn' = {}
  /\ UNCHANGED <<dbVars, out, agentVars>>

------------------------------------------------------------------------------
(* Admin requests (api.go, hub.go). A request is a sequence of steps; what *)
(* is left of it waits in todo.                                            *)

\* A request goes from its step t to the steps next (at most one, or none).
Continue(t, next) == todo' = (todo \ {t}) \cup next

\* The API handler createLink: both nodes exist and are not revoked.
ApiCreateLink(ends) ==
  /\ ends \cap revokedDB = {}
  /\ Spend("link")
  /\ todo' = todo \cup {[op |-> "createLink", ends |-> ends]}
  /\ UNCHANGED <<dbVars, hubVars, sessVars, chanVars, agentVars, torn>>

\* Store.CreateLink: the pair is UNIQUE, a second insert fails.
StoreCreateLink(t) ==
  LET l == [id |-> minted + 1, ends |-> t.ends, exit |-> None] IN
  /\ t.op = "createLink"
  /\ IF \E x \in store : x.ends = t.ends
       THEN Continue(t, {}) /\ UNCHANGED <<store, minted>>
       ELSE /\ store' = store \cup {l}
            /\ minted' = minted + 1
            /\ Continue(t, {[op |-> "pushLink", link |-> l]})
  /\ UNCHANGED <<revokedDB, seen, hubVars, sessVars, chanVars, agentVars, budget, torn>>

\* A pair is torn when a push carries a row that is no longer current and
\* no later step of another request will push again.
TornByPush(t) ==
  LET id == t.link.id
      later == \E u \in todo \ {t} :
                 \/ u.op = "removeLink" /\ u.link.id = id
                 \/ u.op = "pushExit" /\ u.link.id = id /\ u.link \in store
  IN  IF t.link \in store \/ later THEN {} ELSE {t.link.ends}

\* pushLink at the end of CreateLink, and the locked part of SetLinkExit.
PushLink(t) ==
  /\ t.op \in {"pushLink", "pushExit"}
  /\ rt' = rt \cup {t.link.id}
  /\ acked' = PairAcks(t.link)
  /\ Send(PairFrames(t.link, IF t.op = "pushLink" THEN "peer_add" ELSE "peer_update"))
  /\ torn' = torn \cup TornByPush(t)
  /\ Continue(t, {})
  /\ UNCHANGED <<dbVars, sessions, lastWG, gcDone, sessVars, inb, agentVars, budget>>

\* Hub.SetLinkExit, its database part: an end of the link, or none.
SetLinkExit(l, e) ==
  LET m == [l EXCEPT !.exit = e] IN
  /\ l \in store /\ e \in l.ends \cup {None}
  /\ Spend("exit")
  /\ store' = (store \ {l}) \cup {m}
  /\ todo' = todo \cup {[op |-> "pushExit", link |-> m]}
  /\ UNCHANGED <<minted, revokedDB, seen, hubVars, sessVars, chanVars, agentVars, torn>>

\* Hub.DeleteLink, its database part.
DeleteLink(l) ==
  /\ l \in store
  /\ Spend("unlink")
  /\ store' = store \ {l}
  /\ todo' = todo \cup {[op |-> "removeLink", link |-> l]}
  /\ UNCHANGED <<minted, revokedDB, seen, hubVars, sessVars, chanVars, agentVars, torn>>

\* removeLinkFromPeers. peer_remove names a key, not a link: a new link of
\* the same pair, already pushed, loses its peers.
RemoveLink(t) ==
  LET l == t.link IN
  /\ t.op = "removeLink"
  /\ Send(RemoveFrames({l} \X l.ends))
  /\ ForgetLinks({l.id})
  /\ torn' = torn \cup {x.ends : x \in {y \in store : y.ends = l.ends
                            /\ [op |-> "pushLink", link |-> y] \notin todo}}
  /\ Continue(t, {})
  /\ UNCHANGED <<dbVars, sessions, lastWG, gcDone, sessVars, inb, agentVars, budget>>

\* RotateWG: refused for an offline node.
RotateWG(n) ==
  /\ sessions[n] # None
  /\ Spend("rotate")
  /\ Send([s \in {sessions[n]} |-> [type |-> "rotate_wg"]])
  /\ UNCHANGED <<dbVars, hubVars, todo, sessVars, inb, agentVars, torn>>

\* Store.DeleteNode: the links are listed before the transaction.
DeleteNode(n) ==
  /\ Spend("delete")
  /\ todo' = todo \cup {[op |-> "deleteTx", node |-> n, links |-> LinksOf(n)]}
  /\ UNCHANGED <<dbVars, hubVars, sessVars, chanVars, agentVars, torn>>

DeleteNodeTx(t) ==
  /\ t.op = "deleteTx"
  /\ store' = store \ LinksOf(t.node)
  /\ revokedDB' = revokedDB \cup {t.node}
  /\ torn' = torn \cup {l.ends : l \in LinksOf(t.node) \ t.links}
  /\ Continue(t, {[op |-> "cascade", node |-> t.node, links |-> t.links]})
  /\ UNCHANGED <<minted, seen, hubVars, sessVars, chanVars, agentVars, budget>>

\* Hub.DeleteNode, first locked part.
DeleteNodeCascade(t) ==
  /\ t.op = "cascade"
  /\ Send(RemoveFrames({<<l, Other(l, t.node)>> : l \in t.links}))
  /\ ForgetLinks({l.id : l \in t.links})
  /\ Continue(t, {[op |-> "kick", node |-> t.node, sess |-> sessions[t.node]]})
  /\ UNCHANGED <<dbVars, sessions, lastWG, gcDone, sessVars, inb, agentVars,
                 budget, torn>>

\* The kick frame, and a close two seconds later.
DeleteNodeKick(t) ==
  LET to == {t.sess} \ {None} IN
  /\ t.op = "kick"
  /\ Send([s \in to |-> [type |-> "kick"]])
  /\ Continue(t, {[op |-> "forget", node |-> t.node]}
                   \cup {[op |-> "close", sess |-> s] : s \in to})
  /\ UNCHANGED <<dbVars, hubVars, sessVars, inb, agentVars, budget, torn>>

KickClose(t) ==
  /\ t.op = "close"
  /\ hubSt' = [s \in Sess |-> IF s = t.sess /\ hubSt[s] = "open"
                                THEN "closed" ELSE hubSt[s]]
  /\ Continue(t, {})
  /\ UNCHANGED <<dbVars, hubVars, sessVars, out, inb, agentVars, budget, torn>>

\* Hub.DeleteNode, second locked part.
DeleteNodeForget(t) ==
  /\ t.op = "forget"
  /\ lastWG' = [lastWG EXCEPT ![t.node] = None]
  /\ gcDone' = gcDone \ {t.node}
  /\ torn' = torn \cup {l.ends : l \in {x \in Withdrawn : t.node \in x.ends}}
  /\ Continue(t, {})
  /\ UNCHANGED <<dbVars, sessions, rt, acked, sessVars, chanVars, agentVars, budget>>

------------------------------------------------------------------------------
(* The kernel device and the exit controller of an agent (wg_linux.go,     *)
(* socks.go).                                                              *)

AddPeer(d, sp) ==
  [peers |-> d.peers \cup {<<sp.peer, sp.gen>>},
   keys  |-> [d.keys EXCEPT ![sp.peer] = sp.gen]]

RemovePeer(d, k) ==
  [peers |-> d.peers \ {k},
   keys  |-> IF k \in d.peers /\ d.keys[k[1]] = k[2]
               THEN [d.keys EXCEPT ![k[1]] = None] ELSE d.keys]

\* Mutant: the previous key stays.
UpdatePeerKeepsOld(d, sp) == AddPeer(d, sp)

\* Mutant: the known key is dropped although it is the new one.
UpdatePeerDropsSame(d, sp) ==
  LET old == d.keys[sp.peer] IN
  IF old # None THEN RemovePeer(AddPeer(d, sp), <<sp.peer, old>>) ELSE AddPeer(d, sp)

\* The peer's previous key goes first.
UpdatePeer(d, sp) ==
  LET old == d.keys[sp.peer] IN
  AddPeer(IF old \notin {None, sp.gen} THEN RemovePeer(d, <<sp.peer, old>>) ELSE d, sp)

\* ReplacePeers: nothing that is not in the list survives.
Reconcile(specs) ==
  [peers |-> {<<sp.peer, sp.gen>> : sp \in specs},
   keys  |-> [p \in Node |-> IF \E sp \in specs : sp.peer = p
                               THEN (CHOOSE sp \in specs : sp.peer = p).gen ELSE None]]

\* ExitController.recompute picks any entry of the map, or direct egress.
Upstreams(ex) == IF ex = {} THEN {None} ELSE {e[2] : e \in ex}

WithoutExit(n, id) == {e \in exits[n] : e[1] # id}

\* The exit set becomes ex; an agent without the controller has none.
SetExits(n, ex) ==
  IF n \in SocksNode
    THEN /\ exits' = [exits EXCEPT ![n] = ex]
         /\ \E u \in Upstreams(ex) : upstream' = [upstream EXCEPT ![n] = u]
    ELSE UNCHANGED <<exits, upstream>>

------------------------------------------------------------------------------
(* Agents (agent.go)                                                       *)

\* handleConn: a revoked certificate is answered with an error frame (the
\* database row is decisive: DeleteNode writes it before the in-memory list).
HandleConn(n, s) ==
  IF n \in revokedDB
    THEN /\ out' = [out EXCEPT ![s] = <<[type |-> "error"]>>]
         /\ UNCHANGED <<hubSt, inb>>
    ELSE /\ hubSt' = [hubSt EXCEPT ![s] = "checked"]
         /\ inb' = [inb EXCEPT ![s] = <<[type |-> "register", gen |-> key[n]]>>]
         /\ UNCHANGED out

\* session: dial and send the register frame with the current key. Which
\* free slot names the connection does not matter.
Connect(n, s) ==
  /\ phase[n] = "down" /\ Owner(s) = n /\ hubSt[s] = "none"
  /\ \A r \in Sess : Owner(r) = n /\ hubSt[r] = "none" => s[2] <= r[2]
  /\ phase' = [phase EXCEPT ![n] = "registering"]
  /\ conn' = [conn EXCEPT ![n] = s]
  /\ HandleConn(n, s)
  /\ Spend("dial")
  /\ UNCHANGED <<dbVars, hubVars, todo, sessVars, wgVars, torn>>

\* The agent leaves its connection; unread frames are lost.
Hangup(n, ph) ==
  /\ phase' = [phase EXCEPT ![n] = ph]
  /\ conn' = [conn EXCEPT ![n] = None]
  /\ out' = [out EXCEPT ![conn[n]] = <<>>]

\* The frame in front of the agent on its connection.
HasFrame(n) == conn[n] # None /\ out[conn[n]] # <<>>
Frame(n) == Head(out[conn[n]])

\* One frame is consumed and answered with an ack, which the hub reads
\* only if it still reads this connection.
Consume(n, id, ok) ==
  /\ out' = [out EXCEPT ![conn[n]] = Tail(@)]
  /\ inb' = [inb EXCEPT ![conn[n]] =
               IF hubSt[conn[n]] = "open"
                 THEN Append(@, [type |-> "ack", link |-> id, ok |-> ok]) ELSE @]
  /\ UNCHANGED <<phase, conn>>

\* A read or a write fails: the hub's end is closed, or the network broke.
LoseConn(n) ==
  /\ conn[n] # None
  /\ \/ hubSt[conn[n]] \in {"closed", "none"} /\ UNCHANGED budget
     \/ hubSt[conn[n]] \notin {"closed", "none"} /\ Spend("break")
  /\ Hangup(n, "down")
  /\ UNCHANGED <<dbVars, hubVars, todo, sessVars, hubSt, inb, wgVars, torn>>

\* register: the first frame must be the register_ack; it is applied as the
\* exact peer set.
RegisterAck(n) ==
  /\ phase[n] = "registering" /\ HasFrame(n) /\ Frame(n).type = "register_ack"
  /\ \A sp \in Frame(n).peers : sp.valid
  /\ phase' = [phase EXCEPT ![n] = "up"]
  /\ out' = [out EXCEPT ![conn[n]] = Tail(@)]
  /\ dev' = [dev EXCEPT ![n] = Reconcile(Frame(n).peers)]
  /\ SetExits(n, {<<sp.link, sp.peer>> : sp \in {x \in Frame(n).peers : x.exit}})
  /\ UNCHANGED <<dbVars, hubVars, todo, sessVars, hubSt, inb, conn, key, budget, torn>>

\* Any other first frame, one bad peer in the list, or a failing device
\* ends the session.
RegisterFails(n) ==
  LET accepted == Frame(n).type = "register_ack" /\ \A sp \in Frame(n).peers : sp.valid IN
  /\ phase[n] = "registering" /\ HasFrame(n)
  /\ \/ ~accepted /\ UNCHANGED budget
     \/ accepted /\ Spend("wgfail")
  /\ Hangup(n, "down")
  /\ UNCHANGED <<dbVars, hubVars, todo, sessVars, hubSt, inb, wgVars, torn>>

\* dispatch of peer_add and peer_update.
ApplyPeer(n) ==
  LET f == Frame(n)
      sp == f.spec
  IN
  /\ phase[n] = "up" /\ HasFrame(n) /\ f.type \in {"peer_add", "peer_update"}
  /\ sp.valid
  /\ dev' = [dev EXCEPT ![n] = IF f.type = "peer_add" THEN AddPeer(@, sp)
                                                      ELSE UpdatePeer(@, sp)]
  /\ SetExits(n, WithoutExit(n, sp.link)
                   \cup IF sp.exit THEN {<<sp.link, sp.peer>>} ELSE {})
  /\ Consume(n, sp.link, TRUE)
  /\ UNCHANGED <<dbVars, hubVars, todo, sessVars, hubSt, key, budget, torn>>

\* The peer is refused, by its address or by the device: a peer_update may
\* have dropped the old key by then.
ApplyPeerFails(n) ==
  LET f == Frame(n)
      sp == f.spec
      old == dev[n].keys[sp.peer]
      dropped == IF f.type = "peer_update" /\ old \notin {None, sp.gen}
                   THEN RemovePeer(dev[n], <<sp.peer, old>>) ELSE dev[n]
  IN
  /\ phase[n] = "up" /\ HasFrame(n) /\ f.type \in {"peer_add", "peer_update"}
  /\ \/ /\ ~sp.valid /\ UNCHANGED budget
        /\ dev' = [dev EXCEPT ![n] = dropped]
     \/ /\ sp.valid /\ Spend("wgfail")
        /\ \E d \in {dev[n], dropped} : dev' = [dev EXCEPT ![n] = d]
  /\ Consume(n, sp.link, FALSE)
  /\ torn' = torn \cup {{n, sp.peer}}
  /\ UNCHANGED <<dbVars, hubVars, todo, sessVars, hubSt, key, exits, upstream>>

\* dispatch of peer_remove; its ack has no ackRef at the hub.
ApplyRemove(n) ==
  LET f == Frame(n) IN
  /\ phase[n] = "up" /\ HasFrame(n) /\ f.type = "peer_remove"
  /\ \/ /\ dev' = [dev EXCEPT ![n] = RemovePeer(@, f.wg)]
        /\ Consume(n, NoLink, TRUE) /\ UNCHANGED <<budget, torn>>
     \/ /\ Spend("wgfail") /\ UNCHANGED dev
        /\ Consume(n, NoLink, FALSE) /\ torn' = torn \cup {{n, f.wg[1]}}
  /\ IF WithoutExit(n, f.link) # exits[n]
       THEN SetExits(n, WithoutExit(n, f.link)) ELSE UNCHANGED <<exits, upstream>>
  /\ UNCHANGED <<dbVars, hubVars, todo, sessVars, hubSt, key>>

\* dispatch of rotate_wg: a fresh key, no peers, and a new session. (When
\* the device refuses, the session just ends: LoseConn.)
ApplyRotate(n) ==
  /\ phase[n] = "up" /\ HasFrame(n) /\ Frame(n).type = "rotate_wg"
  /\ key' = [key EXCEPT ![n] = @ + 1]
  /\ dev' = [dev EXCEPT ![n] = NoPeers]
  /\ Hangup(n, "down")
  /\ UNCHANGED <<dbVars, hubVars, todo, sessVars, hubSt, inb, exits, upstream,
                 budget, torn>>

\* dispatch of kick: device and identity are destroyed, the process ends.
ApplyKick(n) ==
  /\ phase[n] = "up" /\ HasFrame(n) /\ Frame(n).type = "kick"
  /\ dev' = [dev EXCEPT ![n] = NoPeers]
  /\ exits' = [exits EXCEPT ![n] = {}]
  /\ upstream' = [upstream EXCEPT ![n] = None]
  /\ Hangup(n, "gone")
  /\ UNCHANGED <<dbVars, hubVars, todo, sessVars, hubSt, inb, key, budget, torn>>

\* The agent process is restarted: Init makes a fresh device and key.
AgentRestart(n) ==
  /\ phase[n] # "gone"
  /\ Spend("restart")
  /\ key' = [key EXCEPT ![n] = @ + 1]
  /\ dev' = [dev EXCEPT ![n] = NoPeers]
  /\ exits' = [exits EXCEPT ![n] = {}]
  /\ upstream' = [upstream EXCEPT ![n] = None]
  /\ phase' = [phase EXCEPT ![n] = "down"]
  /\ conn' = [conn EXCEPT ![n] = None]
  /\ out' = [s \in Sess |-> IF s = conn[n] THEN <<>> ELSE out[s]]
  /\ UNCHANGED <<dbVars, hubVars, todo, sessVars, hubSt, inb, torn>>

------------------------------------------------------------------------------
SessionStep(s) ==
  \/ RunSession(s) \/ ReadRegister(s) \/ HandleRegister(s)
  \/ SendRegisterAck(s) \/ HandleAck(s) \/ DropSession(s)

RequestStep(t) ==
  \/ StoreCreateLink(t) \/ PushLink(t) \/ RemoveLink(t)
  \/ DeleteNodeTx(t) \/ DeleteNodeCascade(t) \/ DeleteNodeKick(t)
  \/ KickClose(t) \/ DeleteNodeForget(t)

AgentStep(n) ==
  \/ \E s \in Sess : Connect(n, s)
  \/ RegisterAck(n) \/ ApplyPeer(n) \/ ApplyRemove(n) \/ ApplyRotate(n) \/ ApplyKick(n)

AdminStep ==
  \/ \E e \in Ends : ApiCreateLink(e)
  \/ \E l \in store : DeleteLink(l) \/ \E e \in Node \cup {None} : SetLinkExit(l, e)
  \/ \E n \in Node : RotateWG(n) \/ DeleteNode(n)

Fault ==
  \/ HubRestart
  \/ \E n \in Node : AgentRestart(n) \/ GcOfflinePeer(n) \/ ApplyPeerFails(n)

Next ==
  \/ \E s \in Sess : SessionStep(s) \/ CloseConn(s)
  \/ \E t \in todo : RequestStep(t)
  \/ \E n \in Node : AgentStep(n) \/ LoseConn(n) \/ RegisterFails(n)
  \/ AdminStep
  \/ Fault

Spec == Init /\ [][Next]_vars

\* The goroutines run, the agents read and reconnect; admins, faults and the
\* garbage collector's clock owe nothing. Strong fairness: of all the
\* register_acks, not every one is overtaken by a push in the few
\* instructions between the unlock and the send.
Fairness ==
  /\ \A s \in Sess : /\ WF_vars(SessionStep(s))
                     /\ SF_vars(conn[Owner(s)] = s /\ out[s] = <<>> /\ SendRegisterAck(s))
                     /\ WF_vars(conn[Owner(s)] # s /\ CloseConn(s))
  /\ WF_vars(\E t \in todo : RequestStep(t))
  /\ \A n \in Node : /\ WF_vars(AgentStep(n))
                     /\ WF_vars(RegisterFails(n) /\ UNCHANGED budget)
                     /\ WF_vars(ApplyPeerFails(n) /\ UNCHANGED budget)
                     /\ WF_vars(LoseConn(n) /\ UNCHANGED budget)

FairSpec == Spec /\ Fairness

------------------------------------------------------------------------------
(* Properties                                                              *)

\* Every variable has its type.
TypeOK ==
  /\ store \subseteq Link /\ minted \in Nat
  /\ revokedDB \subseteq Node /\ seen \subseteq Node
  /\ sessions \in [Node -> Sess \cup {None}]
  /\ lastWG \in [Node -> Gen \cup {None}]
  /\ rt \subseteq Nat /\ acked \subseteq Nat \X Node /\ gcDone \subseteq Node
  /\ todo \subseteq Todo
  /\ hubSt \in [Sess -> {"none", "checked", "open", "closed"}]
  /\ registered \in [Sess -> BOOLEAN]
  /\ pc \in [Sess -> {"idle", "links", "ack"}]
  /\ reg \in [Sess -> Gen]
  /\ snap \in [Sess -> SUBSET Link]
  /\ exp \in [Sess -> SUBSET PeerSpec]
  /\ out \in [Sess -> Seq(ToAgent)]
  /\ inb \in [Sess -> Seq(ToHub)]
  /\ phase \in [Node -> {"down", "registering", "up", "gone"}]
  /\ conn \in [Node -> Sess \cup {None}]
  /\ key \in [Node -> Gen]
  /\ dev \in [Node -> Device]
  /\ exits \in [Node -> SUBSET (Nat \X Node)]
  /\ upstream \in [Node -> Node \cup {None}]
  /\ budget \in [Event -> Nat \cup {None}]
  /\ torn \subseteq SUBSET Node

\* runSession closes the previous connection and dropSession spares a newer
\* one: a connection the hub still reads is the node's entry in h.sessions,
\* so no node ever has two live control connections.
OneLiveSession ==
  /\ \A s \in Sess : hubSt[s] = "open" => sessions[Owner(s)] = s
  /\ \A n \in Node : sessions[n] # None =>
       Owner(sessions[n]) = n /\ hubSt[sessions[n]] \in {"open", "closed"}

\* n is up on the connection the hub knows it by ...
Current(n) == /\ phase[n] = "up" /\ conn[n] # None
              /\ conn[n] = sessions[n] /\ hubSt[conn[n]] = "open"

\* ... and has applied everything the hub sent on it.
Drained(n) == Current(n) /\ out[conn[n]] = <<>>

\* An admin request about the pair is between two of its steps.
Busy(pr) ==
  \E t \in todo : \/ t.op \in {"pushLink", "pushExit", "removeLink"} /\ t.link.ends = pr
                  \/ t.op \in {"deleteTx", "cascade"} /\ t.node \in pr

\* Nothing is under way or went wrong between two nodes that exist.
Settled(pr) == pr \notin torn /\ pr \cap revokedDB = {} /\ ~Busy(pr)

\* Whatever the order of registers, pushes, restarts and reconnects: when a
\* link's end has applied all it was sent and the other end is registered,
\* its kernel has the other end's registered key (handleRegister, pushLink).
Delivered ==
  \A l \in store : \A n \in l.ends :
    LET o == Other(l, n) IN
    (Drained(n) /\ Ready(o) /\ Settled(l.ends)) => <<o, lastWG[o]>> \in dev[n].peers

\* A peer survives in a drained agent's kernel only while its link exists:
\* deleted links and deleted nodes are withdrawn (removeLinkFromPeers,
\* DeleteNode, Reconcile), also across reconnects and hub restarts.
NoGhostPeer ==
  \A n \in Node \ revokedDB : Drained(n) =>
    \A k \in dev[n].peers :
      {n, k[1]} \notin torn /\ ~Busy({n, k[1]}) => \E l \in store : l.ends = {n, k[1]}

\* The hub hands out the key a connected agent really uses, although a key
\* changes without notice on restart and rotate_wg.
FreshKey == \A n \in Node \ revokedDB :
              Current(n) /\ {n} \notin torn => lastWG[n] = key[n]

\* The device of a connected agent that is not deleted never keeps two keys
\* of one peer: only peer_update and the exact set of a register_ack drop an
\* old one (AddPeer, UpdatePeer, ReplacePeers).
OneKeyPerPeer ==
  \A n \in Node \ revokedDB : Current(n) =>
    \A k \in dev[n].peers :
      {n, k[1]} \notin torn => dev[n].keys[k[1]] = k[2]

\* LinkStatus: what the panel shows of a link ("up": active or degraded,
\* after the age of the last handshake).
LinkStatus(l) ==
  IF l.id \in rt /\ \A n \in l.ends : /\ sessions[n] # None /\ registered[sessions[n]]
                                     /\ <<l.id, n>> \in acked
    THEN "up" ELSE "pending"

\* A link does not stay "pending" in the panel once both ends have applied
\* everything and their acks are read, although pushes clear the flags, late
\* acks set them and a register counts without an ack frame (LinkStatus,
\* handleRegister, handleAck).
StatusCatchesUp ==
  \A l \in store :
    (Settled(l.ends) /\ \A n \in l.ends : Drained(n) /\ inb[conn[n]] = <<>>)
      => LinkStatus(l) = "up"

\* The egress follows the link's exit designation, and the active upstream
\* is one of the designated exits.
ExitFollowsLink ==
  \A n \in SocksNode :
    /\ upstream[n] \in Upstreams(exits[n])
    /\ \A l \in LinksOf(n) :
         LET o == Other(l, n) IN
         (Drained(n) /\ Ready(o) /\ Settled(l.ends)) =>
            ((<<l.id, o>> \in exits[n]) <=> (l.exit = o /\ o \in SocksNode))

\* Both ends' kernels have the other's key in use: the tunnel can carry
\* traffic, whatever the state of the control plane.
Tunnel(l) == \A n \in l.ends : <<Other(l, n), key[Other(l, n)]>> \in dev[n].peers

\* What an agent applies of a connection that the hub has not dropped never
\* takes down one direction of a tunnel whose link stays: only a changed key of
\* its own, the exact peer set of a register_ack, the collection of an offline
\* node, or the withdrawal of an earlier link of the pair does (dispatch,
\* removeLinkFromPeers, UpdatePeer).
CutsAreIntended ==
  [][\A l \in store \cap store' : \A n \in l.ends :
       LET o == Other(l, n) IN
       ( /\ conn[n] # None /\ hubSt[conn[n]] # "none"
         /\ <<o, key[o]>> \in dev[n].peers /\ <<o, key'[o]>> \notin dev'[n].peers
         /\ key'[o] = key[o] /\ {l.ends, {o}} \cap torn' = {} )
       => \/ key'[n] # key[n] \/ phase'[n] = "gone"
          \/ phase[n] = "registering"
          \/ /\ Frame(n).type = "peer_remove"
             /\ Frame(n).link \notin {m.id : m \in store \ {l}}]_vars

\* Once the disturbances end, every link between existing nodes carries its
\* tunnel for good: restarts of agents and of the hub, lost connections and
\* lost pushes all converge through register (the purpose of §5.3).
Converges ==
  <>[](\A l \in store :
         (l.ends \cap revokedDB = {} /\ torn \cap ({l.ends} \cup {{n} : n \in l.ends}) = {})
           => Tunnel(l))

(* What the repository says of the program and the code does not do.       *)

\* "Losing the control channel or restarting the hub must not interrupt an
\* established tunnel" (AGENT.md, invariant 1): no step but a key change
\* takes down the tunnel of a link that stays.
TunnelSurvivesControlLoss ==
  [][\A l \in store \cap store' : (Tunnel(l) /\ key' = key) => Tunnel(l)']_vars

\* "pending; register reconcile will complete it" (pushPairLocked): when both
\* ends are up and have applied everything, and no request is under way, the
\* link's peers are configured.
PendingIsCompleted ==
  \A l \in store :
    (~Busy(l.ends) /\ \A n \in l.ends : Drained(n))
      => \A n \in l.ends : <<Other(l, n), lastWG[Other(l, n)]>> \in dev[n].peers

\* "a node deleted while offline is kicked when it comes online" (AGENT.md
\* §12): its agent eventually destroys its device and identity.
DeletedAgentsLeave ==
  \A n \in Node : (n \in revokedDB /\ conn[n] = None) ~> (phase[n] = "gone")
==============================================================================
