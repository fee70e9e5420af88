-------------------------------- MODULE Panel --------------------------------
(***************************************************************************)
(* What the admin panel shows of the nodes: the hub's event bus and the    *)
(* WebSocket that carries it (hub.go, api.go), the snapshots of the REST   *)
(* API, and the page that puts both together (web/app.js).                 *)
(*                                                                         *)
(* The hub changes its state first and publishes afterwards, from many     *)
(* goroutines; the page asks for a snapshot when it hears of a change, and *)
(* applies the answers in whatever order they arrive.                      *)
(***************************************************************************)
EXTENDS Naturals, Sequences, FiniteSets

CONSTANTS
  Node,
  QCap,      \* events a subscriber's channel holds (64)
  MaxFetch,  \* bound on the snapshots that are on their way
  MaxSock,   \* bound on the WebSocket objects that are not closed yet
  Scenarios, \* budgets: how often each kind of event may happen
  None

Event == {"enroll", "connect", "beat", "drop", "delete", "restart",
          "expire", "break", "fail", "login", "logout"}

ASSUME BoundsAssumption == {QCap, MaxFetch, MaxSock} \subseteq Nat \ {0}
ASSUME ScenariosAssumption == Scenarios \subseteq [Event -> Nat]

Fetch == 1 .. MaxFetch
Sock == 1 .. MaxSock

VARIABLES
  \* the hub
  rows,     \* the nodes of the store
  sess,     \* Hub.sessions: the number of the node's session, or None
  live,     \* goroutines of runSession: <<node, number>>
  due,      \* state changes that are not published yet
  valid,    \* the browser's lp_session cookie names a session of apiServer
  \* the WebSockets
  sock,     \* none, connecting, open (subscribed), closing (before onclose)
  q,        \* the channel of the open one
  \* the page
  authed,   \* state.authed
  form,     \* the login form is on the screen
  ws,       \* state.ws, or None
  timers,   \* reconnects that wait for their three seconds
  fetch,    \* calls of refreshSnapshots
  view,     \* state.nodes: the status shown
  \* bookkeeping of the model
  budget,
  lost,     \* an event or an answer was lost, and no later snapshot shown
  swapped,  \* the snapshot shown was read before one that was shown earlier
  doubled   \* the user logged in over a socket or a login still at work

hubVars  == <<rows, sess, live, due, valid>>
sockVars == <<sock, q>>
pageVars == <<authed, form, ws, timers, fetch, view>>
ghosts   == <<lost, swapped, doubled>>
vars == <<hubVars, sockVars, pageVars, budget, ghosts>>

Status == {"absent", "offline", "online"}
Msg == [node : Node, by : Nat, ev : {"enrolled", "online", "heartbeat", "offline", "deleted"}]
Call == [st : {"asked", "rows", "answered"}, rows : SUBSET Node, seen : [Node -> Status],
         then : BOOLEAN,        \* connectWS is called when it is done
         before : SUBSET Fetch, \* the calls that were read before and are not done
         late : BOOLEAN,        \* one that was read later is shown already
         covers : BOOLEAN]      \* nothing was lost since it was read

Spend(e) == budget[e] > 0 /\ budget' = [budget EXCEPT ![e] = @ - 1]

\* A hub with its nodes, and a page that shows the login form.
Init ==
  /\ budget \in Scenarios
  /\ rows = IF budget["enroll"] > 0 THEN {} ELSE Node
  /\ sess = [n \in Node |-> None] /\ live = {} /\ due = {} /\ valid = FALSE
  /\ sock = [s \in Sock |-> "none"] /\ q = <<>>
  /\ authed = FALSE /\ form = TRUE /\ ws = None /\ timers = 0
  /\ fetch = [f \in Fetch |-> None]
  /\ view = [n \in Node |-> "absent"]
  /\ lost = FALSE /\ swapped = FALSE /\ doubled = FALSE

\* nodeStatusLocked, without the status "stale"
NodeStatus(n) == IF sess[n] = None THEN "offline" ELSE "online"

Shown(n) == IF n \in rows THEN NodeStatus(n) ELSE "absent"

Open == {s \in Sock : sock[s] = "open"}

------------------------------------------------------------------------------
(* The hub's changes of state, each followed by its publish                *)

\* The goroutine of a session is not on its way to a publish.
Idle(g) == g \in live /\ \A e \in due : <<e.node, e.by>> # g

Enroll(n) ==
  /\ n \notin rows /\ Spend("enroll")
  /\ rows' = rows \cup {n}
  /\ due' = due \cup {[node |-> n, by |-> 0, ev |-> "enrolled"]}
  /\ UNCHANGED <<sess, live, valid, sockVars, pageVars, ghosts>>

\* runSession replaces the node's session; the old goroutine still drops it.
RunSession(n) ==
  /\ n \in rows /\ Spend("connect")
  /\ sess' = [sess EXCEPT ![n] = budget["connect"]]
  /\ live' = live \cup {<<n, budget["connect"]>>}
  /\ due' = due \cup {[node |-> n, by |-> budget["connect"], ev |-> "online"]}
  /\ UNCHANGED <<rows, valid, sockVars, pageVars, ghosts>>

Heartbeat(g) ==
  /\ Idle(g) /\ Spend("beat")
  /\ due' = due \cup {[node |-> g[1], by |-> g[2], ev |-> "heartbeat"]}
  /\ UNCHANGED <<rows, sess, live, valid, sockVars, pageVars, ghosts>>

\* The hub closes the connection: old.close() in runSession, or the kick of a
\* deleted node.
Replaced(g) == sess[g[1]] # g[2] \/ g[1] \notin rows

\* dropSession, on a connection that the hub has closed or one that breaks.
DropSession(g) ==
  /\ Idle(g)
  /\ IF Replaced(g) THEN UNCHANGED budget ELSE Spend("drop")
  /\ sess' = [sess EXCEPT ![g[1]] = IF @ = g[2] THEN None ELSE @]
  /\ live' = live \ {g}
  /\ due' = due \cup {[node |-> g[1], by |-> g[2], ev |-> "offline"]}
  /\ UNCHANGED <<rows, valid, sockVars, pageVars, ghosts>>

DeleteNode(n) ==
  /\ n \in rows /\ Spend("delete")
  /\ rows' = rows \ {n}
  /\ due' = due \cup {[node |-> n, by |-> 0, ev |-> "deleted"]}
  /\ UNCHANGED <<sess, live, valid, sockVars, pageVars, ghosts>>

\* What is read of the hub before a loss does not make up for it.
Uncover(fs) == [f \in Fetch |-> IF fs[f] = None THEN None
                                ELSE [fs[f] EXCEPT !.covers = FALSE]]

\* Mutant: the channel has no bound.
EnqueueAll(e) == q' = Append(q, e) /\ UNCHANGED <<fetch, lost>>

\* A full channel drops the event.
Enqueue(e) ==
  IF Len(q) < QCap
    THEN q' = Append(q, e) /\ UNCHANGED <<fetch, lost>>
    ELSE lost' = TRUE /\ fetch' = Uncover(fetch) /\ UNCHANGED q

Publish(e) ==
  /\ due' = due \ {e}
  /\ IF Open # {} THEN Enqueue(e)
     ELSE lost' = TRUE /\ fetch' = Uncover(fetch) /\ UNCHANGED q
  /\ UNCHANGED <<rows, sess, live, valid, sock, authed, form, ws, timers, view, budget,
                 swapped, doubled>>

------------------------------------------------------------------------------
(* REST: auth, listNodes                                                   *)

\* A call of refreshSnapshots leaves the page.
Ask(fs, then) ==
  LET f == CHOOSE g \in Fetch : fs[g] = None IN
  [fs EXCEPT ![f] = [st |-> "asked", rows |-> {}, seen |-> [n \in Node |-> "absent"],
                     then |-> then, before |-> {}, late |-> FALSE, covers |-> TRUE]]

CanAsk == \E f \in Fetch : fetch[f] = None

\* A call ends: the others do not remember it, and if it is shown the ones
\* read before it are late.
Done(fs, f, shown) ==
  [g \in Fetch |->
    IF g = f \/ fs[g] = None THEN None
    ELSE [fs[g] EXCEPT !.before = @ \ {f}, !.late = @ \/ (shown /\ g \in fs[f].before)]]

\* ListNodes, then the status of every node. A heartbeat that is already in
\* the channel will be shown after the answer.
ReadRows(f) ==
  /\ fetch[f] # None /\ fetch[f].st = "asked" /\ valid
  /\ fetch' = [fetch EXCEPT ![f].st = "rows", ![f].rows = rows,
                 ![f].before = {g \in Fetch : fetch[g] # None /\ fetch[g].st # "asked"},
                 ![f].covers = \A i \in 1 .. Len(q) : q[i].ev # "heartbeat"]
  /\ UNCHANGED <<hubVars, sockVars, authed, form, ws, timers, view, budget, ghosts>>

ReadStatus(f) ==
  /\ fetch[f] # None /\ fetch[f].st = "rows"
  /\ fetch' = [fetch EXCEPT ![f].st = "answered",
                 ![f].seen = [n \in Node |-> IF n \in fetch[f].rows THEN NodeStatus(n)
                                             ELSE "absent"]]
  /\ UNCHANGED <<hubVars, sockVars, authed, form, ws, timers, view, budget, ghosts>>

\* 401: api shows the login form.
Refused(f) ==
  /\ fetch[f] # None /\ fetch[f].st = "asked" /\ ~valid
  /\ authed' = FALSE /\ form' = TRUE
  /\ fetch' = Done(fetch, f, FALSE)
  /\ lost' = TRUE
  /\ UNCHANGED <<hubVars, sockVars, ws, timers, view, budget, swapped, doubled>>

\* Any other failure leaves the page as it is.
FetchFails(f) ==
  /\ fetch[f] # None /\ Spend("fail")
  /\ fetch' = Uncover(Done(fetch, f, FALSE))
  /\ lost' = TRUE
  /\ UNCHANGED <<hubVars, sockVars, authed, form, ws, timers, view, swapped, doubled>>

------------------------------------------------------------------------------
(* The page                                                                *)

CanConnect == \E s \in Sock : sock[s] = "none"

\* connectWS: the socket there is is closed, its onclose comes later.
ConnectWS ==
  LET new == CHOOSE s \in Sock : sock[s] = "none" IN
  /\ sock' = [s \in Sock |-> IF s = new THEN "connecting"
                             ELSE IF s = ws /\ sock[s] # "none" THEN "closing"
                             ELSE sock[s]]
  /\ ws' = new
  /\ q' = <<>>

\* bindLogin, or boot when the page is loaded with a session.
Login ==
  /\ form /\ CanAsk /\ Spend("login")
  /\ valid' = TRUE /\ authed' = TRUE
  /\ fetch' = Ask(fetch, TRUE)
  /\ doubled' = (\/ doubled \/ timers > 0
                 \/ \E s \in Sock : sock[s] # "none"
                 \/ \E f \in Fetch : fetch[f] # None /\ fetch[f].then)
  /\ UNCHANGED <<rows, sess, live, due, sockVars, form, ws, timers, view, lost, swapped>>

\* The page logs out even if the request fails.
Logout ==
  /\ authed /\ ~form /\ Spend("logout")
  /\ valid' \in {FALSE, valid} /\ authed' = FALSE /\ form' = TRUE
  /\ sock' = IF ws = None \/ sock[ws] = "none" THEN sock
             ELSE [sock EXCEPT ![ws] = "closing"]
  /\ q' = <<>> /\ lost' = TRUE
  /\ UNCHANGED <<rows, sess, live, due, ws, timers, fetch, view, swapped, doubled>>

\* refreshSnapshots returns, and after a login connectWS; then render.
Apply(f) ==
  /\ fetch[f] # None /\ fetch[f].st = "answered"
  /\ view' = fetch[f].seen
  /\ swapped' = fetch[f].late
  /\ fetch' = IF fetch[f].then /\ q # <<>> THEN Uncover(Done(fetch, f, TRUE))
              ELSE Done(fetch, f, TRUE)
  /\ IF fetch[f].then
       THEN /\ CanConnect /\ ConnectWS
            /\ lost' = ((lost /\ ~fetch[f].covers) \/ q # <<>>)
       ELSE /\ lost' = (lost /\ ~fetch[f].covers)
            /\ UNCHANGED <<sockVars, ws>>
  /\ form' = ~authed
  /\ UNCHANGED <<hubVars, authed, timers, budget, doubled>>

\* ws of the hub: the session is checked, then the channel subscribed.
Upgrade(s) ==
  /\ sock[s] = "connecting"
  /\ sock' = [sock EXCEPT ![s] = IF valid THEN "open" ELSE "closing"]
  /\ UNCHANGED <<hubVars, q, pageVars, budget, ghosts>>

\* The connection is cut; what is in the channel is gone.
Break(s) ==
  /\ sock[s] \in {"connecting", "open"} /\ Spend("break")
  /\ sock' = [sock EXCEPT ![s] = "closing"]
  /\ q' = <<>> /\ lost' = TRUE /\ fetch' = Uncover(fetch)
  /\ UNCHANGED <<hubVars, authed, form, ws, timers, view, swapped, doubled>>

\* Mutant: a timer for the error and one for the close.
ReconnectsTwice == IF authed THEN 2 ELSE 0

\* The reconnects that a closed socket asks for, whichever socket it was.
Reconnects == IF authed THEN 1 ELSE 0

OnClose(s) ==
  /\ sock[s] = "closing"
  /\ sock' = [sock EXCEPT ![s] = "none"]
  /\ timers' = timers + Reconnects
  /\ UNCHANGED <<hubVars, q, authed, form, ws, fetch, view, budget, ghosts>>

\* Mutant: a reconnect only refreshes.
ReconnectWSNot == UNCHANGED <<sockVars, ws>>

ReconnectWS == ConnectWS

\* Three seconds later: the snapshot and the socket are asked for at once.
Reconnect ==
  /\ timers > 0 /\ CanAsk /\ CanConnect
  /\ timers' = timers - 1
  /\ lost' = (lost \/ q # <<>>)
  /\ fetch' = IF q # <<>> THEN Ask(Uncover(fetch), FALSE) ELSE Ask(fetch, FALSE)
  /\ ReconnectWS
  /\ UNCHANGED <<hubVars, authed, form, view, budget, swapped, doubled>>

\* Mutant: a status event is taken for the status.
RefetchEnrolled(e) == e.ev \in {"enrolled", "deleted"}

\* The events that make the page ask for a snapshot.
Refetch(e) == e.ev # "heartbeat"

\* handleEvent
Deliver(s) ==
  LET e == Head(q) IN
  /\ sock[s] = "open" /\ q # <<>>
  /\ q' = Tail(q)
  /\ IF Refetch(e) THEN CanAsk /\ fetch' = Ask(fetch, FALSE) ELSE UNCHANGED fetch
  /\ view' = IF e.ev = "heartbeat" /\ view[e.node] # "absent"
               THEN [view EXCEPT ![e.node] = "online"] ELSE view
  /\ form' = IF view' # view THEN ~authed ELSE form
  /\ UNCHANGED <<hubVars, sock, authed, ws, timers, budget, ghosts>>

------------------------------------------------------------------------------
(* Sessions end                                                            *)

\* sessionTTL
Expire ==
  /\ valid /\ Spend("expire") /\ valid' = FALSE
  /\ UNCHANGED <<rows, sess, live, due, sockVars, pageVars, ghosts>>

\* Sessions of agents and of the panel are not persisted.
HubRestart ==
  /\ Spend("restart")
  /\ sess' = [n \in Node |-> None] /\ live' = {} /\ due' = {} /\ valid' = FALSE
  /\ sock' = [s \in Sock |-> IF sock[s] = "none" THEN "none" ELSE "closing"]
  /\ q' = <<>> /\ lost' = TRUE
  /\ fetch' = [f \in Fetch |-> None]
  /\ UNCHANGED <<rows, authed, form, ws, timers, view, swapped, doubled>>

Next ==
  \/ \E n \in Node : Enroll(n) \/ RunSession(n) \/ DeleteNode(n)
  \/ \E g \in live : Heartbeat(g) \/ DropSession(g)
  \/ \E e \in due : Publish(e)
  \/ \E f \in Fetch : ReadRows(f) \/ ReadStatus(f) \/ Refused(f) \/ FetchFails(f) \/ Apply(f)
  \/ \E s \in Sock : Upgrade(s) \/ Break(s) \/ OnClose(s) \/ Deliver(s)
  \/ Login \/ Logout \/ Reconnect \/ Expire \/ HubRestart

Spec == Init /\ [][Next]_vars

\* Goroutines and the page's event loop run; the network answers. Nobody
\* has to log in, and no agent has to do anything: a session ends for certain
\* only when the hub has closed it, so that a node may stay online for good.
Fairness ==
  /\ WF_vars(\E e \in due : Publish(e))
  /\ WF_vars(\E g \in live : Replaced(g) /\ DropSession(g))
  /\ \A f \in Fetch : WF_vars(ReadRows(f) \/ ReadStatus(f) \/ Refused(f) \/ Apply(f))
  /\ \A s \in Sock : WF_vars(Upgrade(s) \/ OnClose(s)) /\ WF_vars(Deliver(s))
  /\ WF_vars(Reconnect)

FairSpec == Spec /\ Fairness

------------------------------------------------------------------------------
(* Properties                                                              *)

\* Every variable has its type, and the channel keeps its bound.
TypeOK ==
  /\ rows \subseteq Node
  /\ sess \in [Node -> Nat \cup {None}] /\ live \subseteq Node \X Nat
  /\ due \subseteq Msg /\ valid \in BOOLEAN
  /\ sock \in [Sock -> {"none", "connecting", "open", "closing"}]
  /\ q \in Seq(Msg) /\ Len(q) <= QCap
  /\ authed \in BOOLEAN /\ form \in BOOLEAN /\ ws \in Sock \cup {None} /\ timers \in Nat
  /\ fetch \in [Fetch -> Call \cup {None}] /\ view \in [Node -> Status]
  /\ budget \in [Event -> Nat]
  /\ {lost, swapped, doubled} \subseteq BOOLEAN

\* The page has one way to its events: a socket, a closed one whose onclose
\* is to come, a reconnect or a login, never two at once (connectWS), unless
\* the user logged in while one was still at work. Then the onclose of the
\* socket that connectWS closes asks for another reconnect, which closes the
\* next one: every three seconds, as long as the page is open.
OneSocket ==
  ~doubled =>
    timers + Cardinality({s \in Sock : sock[s] # "none"})
           + Cardinality({f \in Fetch : fetch[f] # None /\ fetch[f].then}) <= 1

\* When nothing changes any more, the page shows the hub's state ("前端的实时性
\* 完全依赖这条 WS", AGENT.md): although the offline of a replaced session comes
\* after the online of the new one, heartbeats are shown without asking, and a
\* deleted node's session lives on. It does not if an event fell into the gap
\* between snapshot and subscription or off a full channel, or an older answer
\* came after a newer one (handleEvent, publish).
CatchesUp ==
  <>[](authed /\ ~lost /\ ~swapped => \A n \in Node : view[n] = Shown(n))

\* A page that has a socket keeps one or gets another, or the login form, whatever is
\* cut, answered late or restarted (onclose), unless the user logged in over a
\* socket at work: reconnects that close each other's sockets may go on.
Reconnected ==
  ws # None /\ sock[ws] # "none" /\ ~form ~> Open # {} \/ form \/ doubled
==============================================================================
