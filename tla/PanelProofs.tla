----------------------------- MODULE PanelProofs -----------------------------
(* Proofs about Panel: the hub's event bus, the snapshots on their way and   *)
(* the sockets of a page keep their types and bounds, and a page has one way *)
(* to its events.                                                            *)
EXTENDS Panel, FiniteSetTheorems, TLAPS

------------------------------------------------------------------------------
(* Calls of refreshSnapshots                                                *)

Calls == [Fetch -> Call \cup {None}]

\* The calls after which connectWS is called.
Waiting(fs) == {f \in Fetch : fs[f] # None /\ fs[f].then}

\* The sockets that are not closed.
Used == {s \in Sock : sock[s] # "none"}

\* Budgets are spent.
LEMMA SpendOk ==
  ASSUME TypeOK, NEW e \in Event, Spend(e)
  PROVE  budget' \in [Event -> Nat]
<1>1. budget \in [Event -> Nat] /\ budget[e] - 1 \in Nat
  BY DEF TypeOK, Spend
<1> QED
  BY <1>1 DEF Spend

\* A new call takes a free place and remembers whether connectWS follows.
LEMMA AskOk ==
  ASSUME NEW fs \in Calls, NEW then \in BOOLEAN, \E f \in Fetch : fs[f] = None
  PROVE  /\ Ask(fs, then) \in Calls
         /\ ~then => Waiting(Ask(fs, then)) \subseteq Waiting(fs)
         /\ \E f \in Fetch : Waiting(Ask(fs, then)) \subseteq Waiting(fs) \cup {f}
<1> DEFINE f == CHOOSE g \in Fetch : fs[g] = None
           c == [st |-> "asked", rows |-> {}, seen |-> [n \in Node |-> "absent"],
                 then |-> then, before |-> {}, late |-> FALSE, covers |-> TRUE]
<1>1. f \in Fetch /\ Ask(fs, then) = [fs EXCEPT ![f] = c]
  BY DEF Ask
<1>2. c \in Call
  BY DEF Call, Status
<1>3. c.then = then
  OBVIOUS
<1> HIDE DEF f, c
<1>4. \A g \in Fetch : Ask(fs, then)[g] = IF g = f THEN c ELSE fs[g]
  BY <1>1 DEF Calls
<1>5. Ask(fs, then) \in Calls
  BY <1>1, <1>2 DEF Calls
<1>6. Waiting(Ask(fs, then)) \subseteq Waiting(fs) \cup {f}
  BY <1>4 DEF Waiting
<1>7. ~then => Waiting(Ask(fs, then)) \subseteq Waiting(fs)
  BY <1>3, <1>4 DEF Waiting
<1> QED
  BY <1>1, <1>5, <1>6, <1>7

\* A call that ends leaves its place, and the others as they are.
LEMMA DoneOk ==
  ASSUME NEW fs \in Calls, NEW f \in Fetch, NEW shown \in BOOLEAN, fs[f] # None
  PROVE  Done(fs, f, shown) \in Calls /\ Waiting(Done(fs, f, shown)) \subseteq Waiting(fs) \ {f}
<1>1. PICK new : new = Done(fs, f, shown)
  OBVIOUS
<1>2. new = [g \in Fetch |->
               IF g = f \/ fs[g] = None THEN None
               ELSE [fs[g] EXCEPT !.before = fs[g].before \ {f},
                                  !.late = fs[g].late \/ (shown /\ g \in fs[f].before)]]
  BY <1>1, Zenon DEF Done
<1>3. ASSUME NEW g \in Fetch, ~(g = f \/ fs[g] = None)
      PROVE  new[g] \in Call /\ new[g].then = fs[g].then
  <2>1. PICK c : c = fs[g]
    OBVIOUS
  <2>2. PICK l : l = (fs[g].late \/ (shown /\ g \in fs[f].before))
    OBVIOUS
  <2>3. c \in Call /\ l \in BOOLEAN
    BY <1>3, <2>1, <2>2 DEF Calls
  <2>4. new[g] = [fs[g] EXCEPT !.before = fs[g].before \ {f},
                              !.late = fs[g].late \/ (shown /\ g \in fs[f].before)]
    BY <1>2, <1>3
  <2>5. new[g] = [c EXCEPT !.before = c.before \ {f}, !.late = l]
    BY <2>1, <2>2, <2>4, Zenon
  <2>6. [c EXCEPT !.before = c.before \ {f}, !.late = l] \in Call
    BY <2>3 DEF Call
  <2>7. [c EXCEPT !.before = c.before \ {f}, !.late = l].then = c.then
    BY <2>3 DEF Call
  <2> QED
    BY <2>1, <2>5, <2>6, <2>7
<1>4. \A g \in Fetch : g = f \/ fs[g] = None => new[g] = None
  BY <1>2
<1>5. new \in Calls
  <2>1. \A g \in Fetch : new[g] \in Call \cup {None}
    BY <1>3, <1>4
  <2> QED
    BY <1>2, <2>1 DEF Calls
<1>6. Waiting(new) \subseteq Waiting(fs) \ {f}
  BY <1>3, <1>4 DEF Waiting
<1> QED
  BY <1>1, <1>5, <1>6

\* Uncover touches one field of the calls.
LEMMA UncoverOk ==
  ASSUME NEW fs \in Calls
  PROVE  /\ Uncover(fs) \in Calls /\ Waiting(Uncover(fs)) \subseteq Waiting(fs)
         /\ \A f \in Fetch : fs[f] = None => Uncover(fs)[f] = None
<1>1. PICK new : new = Uncover(fs)
  OBVIOUS
<1>2. new = [f \in Fetch |-> IF fs[f] = None THEN None ELSE [fs[f] EXCEPT !.covers = FALSE]]
  BY <1>1, Zenon DEF Uncover
<1>3. ASSUME NEW g \in Fetch, fs[g] # None
      PROVE  new[g] \in Call /\ new[g].then = fs[g].then
  <2>1. PICK c : c = fs[g]
    OBVIOUS
  <2>2. c \in Call /\ new[g] = [c EXCEPT !.covers = FALSE]
    BY <1>2, <1>3, <2>1 DEF Calls
  <2> QED
    BY <2>1, <2>2 DEF Call
<1>4. \A g \in Fetch : fs[g] = None => new[g] = None
  BY <1>2
<1>5. new \in Calls
  <2>1. \A g \in Fetch : new[g] \in Call \cup {None}
    BY <1>3, <1>4
  <2> QED
    BY <1>2, <2>1 DEF Calls
<1>6. Waiting(new) \subseteq Waiting(fs)
  BY <1>3, <1>4 DEF Waiting
<1> QED
  BY <1>1, <1>4, <1>5, <1>6

------------------------------------------------------------------------------
(* Types                                                                    *)

\* Two kinds of steps of a hub's goroutine or handler: its state changes, and a
\* publish is due.
LEMMA HubTypes ==
  ASSUME TypeOK,
         \/ \E n \in Node : Enroll(n) \/ RunSession(n) \/ DeleteNode(n)
         \/ \E g \in live : Heartbeat(g) \/ DropSession(g)
  PROVE  TypeOK'
<1> USE DEF sockVars, pageVars, ghosts
<1>0. budget \in [Event -> Nat] /\ budget["connect"] \in Nat
  BY DEF TypeOK, Event
<1>1. ASSUME NEW n \in Node, Enroll(n) PROVE TypeOK'
  <2>1. budget' \in [Event -> Nat]
    BY <1>1, SpendOk DEF Enroll, Event
  <2>2. [node |-> n, by |-> 0, ev |-> "enrolled"] \in Msg
    BY DEF Msg
  <2>3. /\ rows' = rows \cup {n} /\ due' = due \cup {[node |-> n, by |-> 0, ev |-> "enrolled"]}
        /\ UNCHANGED <<sess, live, valid, sockVars, pageVars, ghosts>>
    BY <1>1 DEF Enroll
  <2> QED
    BY <2>1, <2>2, <2>3 DEF TypeOK
<1>2. ASSUME NEW n \in Node, RunSession(n) PROVE TypeOK'
  <2>1. budget' \in [Event -> Nat]
    BY <1>2, SpendOk DEF RunSession, Event
  <2>2. [node |-> n, by |-> budget["connect"], ev |-> "online"] \in Msg
    BY <1>0 DEF Msg
  <2>3. /\ sess' = [sess EXCEPT ![n] = budget["connect"]]
        /\ live' = live \cup {<<n, budget["connect"]>>}
        /\ due' = due \cup {[node |-> n, by |-> budget["connect"], ev |-> "online"]}
        /\ UNCHANGED <<rows, valid, sockVars, pageVars, ghosts>>
    BY <1>2 DEF RunSession
  <2> QED
    BY <1>0, <2>1, <2>2, <2>3 DEF TypeOK
<1>3. ASSUME NEW n \in Node, DeleteNode(n) PROVE TypeOK'
  <2>1. budget' \in [Event -> Nat]
    BY <1>3, SpendOk DEF DeleteNode, Event
  <2>2. [node |-> n, by |-> 0, ev |-> "deleted"] \in Msg
    BY DEF Msg
  <2>3. /\ rows' = rows \ {n} /\ due' = due \cup {[node |-> n, by |-> 0, ev |-> "deleted"]}
        /\ UNCHANGED <<sess, live, valid, sockVars, pageVars, ghosts>>
    BY <1>3 DEF DeleteNode
  <2> QED
    BY <2>1, <2>2, <2>3 DEF TypeOK
<1>4. ASSUME NEW g \in live PROVE g[1] \in Node /\ g[2] \in Nat
  BY DEF TypeOK
<1>5. ASSUME NEW g \in live, Heartbeat(g) PROVE TypeOK'
  <2>1. budget' \in [Event -> Nat]
    BY <1>5, SpendOk DEF Heartbeat, Event
  <2>2. [node |-> g[1], by |-> g[2], ev |-> "heartbeat"] \in Msg
    BY <1>4 DEF Msg
  <2>3. /\ due' = due \cup {[node |-> g[1], by |-> g[2], ev |-> "heartbeat"]}
        /\ UNCHANGED <<rows, sess, live, valid, sockVars, pageVars, ghosts>>
    BY <1>5 DEF Heartbeat
  <2> QED
    BY <2>1, <2>2, <2>3 DEF TypeOK
<1>6. ASSUME NEW g \in live, DropSession(g) PROVE TypeOK'
  <2>1. budget' \in [Event -> Nat]
    BY <1>0, <1>6, SpendOk DEF DropSession, Replaced, Event
  <2>2. [node |-> g[1], by |-> g[2], ev |-> "offline"] \in Msg
    BY <1>4 DEF Msg
  <2>3. /\ sess' = [sess EXCEPT ![g[1]] = IF @ = g[2] THEN None ELSE @]
        /\ live' = live \ {g} /\ due' = due \cup {[node |-> g[1], by |-> g[2], ev |-> "offline"]}
        /\ UNCHANGED <<rows, valid, sockVars, pageVars, ghosts>>
    BY <1>6 DEF DropSession
  <2>4. sess' \in [Node -> Nat \cup {None}]
    BY <1>4, <2>3 DEF TypeOK
  <2> QED
    BY <2>1, <2>2, <2>3, <2>4 DEF TypeOK
<1> QED
  BY <1>1, <1>2, <1>3, <1>5, <1>6

\* The bus keeps its bound: a full channel drops the event (publish).
LEMMA PublishTypes ==
  ASSUME TypeOK, NEW e \in due, Publish(e)
  PROVE  TypeOK' /\ Waiting(fetch') \subseteq Waiting(fetch)
<1>1. /\ due' = due \ {e}
      /\ UNCHANGED <<rows, sess, live, valid, sock, authed, form, ws, timers, view, budget,
                     swapped, doubled>>
      /\ \/ q' = Append(q, e) /\ Len(q) < QCap /\ fetch' = fetch /\ lost' = lost
         \/ lost' = TRUE /\ fetch' = Uncover(fetch) /\ q' = q
  BY DEF Publish, Enqueue
<1>2. e \in Msg /\ q \in Seq(Msg) /\ Len(q) <= QCap /\ QCap \in Nat /\ fetch \in Calls
  BY BoundsAssumption DEF TypeOK, Calls
<1>3. q' \in Seq(Msg) /\ Len(q') <= QCap
  <2>1. CASE q' = Append(q, e) /\ Len(q) < QCap
    <3>1. Append(q, e) \in Seq(Msg) /\ Len(Append(q, e)) = Len(q) + 1 /\ Len(q) \in Nat
      BY <1>2
    <3> QED
      BY <1>2, <2>1, <3>1
  <2>2. CASE q' = q
    BY <1>2, <2>2
  <2> QED
    BY <1>1, <2>1, <2>2
<1>4. fetch' \in Calls /\ Waiting(fetch') \subseteq Waiting(fetch) /\ lost' \in BOOLEAN
  BY <1>1, <1>2, UncoverOk DEF TypeOK
<1> QED
  BY <1>1, <1>3, <1>4 DEF TypeOK, Calls

\* A call gets another content: it is among the ones connectWS follows if it was.
LEMMA CallOk ==
  ASSUME NEW fs \in Calls, NEW f \in Fetch, fs[f] # None, NEW c \in Call, c.then = fs[f].then,
         NEW new, new = [fs EXCEPT ![f] = c]
  PROVE  new \in Calls /\ Waiting(new) \subseteq Waiting(fs)
<1>1. \A g \in Fetch : new[g] = IF g = f THEN c ELSE fs[g]
  BY DEF Calls
<1>2. new \in Calls
  BY DEF Calls
<1> QED
  BY <1>1, <1>2 DEF Waiting

\* What the hub answers is a snapshot of its nodes (listNodes).
LEMMA ReadTypes ==
  ASSUME TypeOK, NEW f \in Fetch, ReadRows(f) \/ ReadStatus(f)
  PROVE  TypeOK' /\ Waiting(fetch') \subseteq Waiting(fetch) /\ sock' = sock /\ timers' = timers
<1> USE DEF hubVars, sockVars, ghosts
<1>0. fetch \in Calls /\ rows \subseteq Node /\ fetch[f] # None
  BY DEF TypeOK, Calls, ReadRows, ReadStatus
<1>1. PICK c : c = fetch[f]
  OBVIOUS
<1>2. c \in Call
  BY <1>0, <1>1 DEF Calls
<1>3. CASE ReadRows(f)
  <2>1. PICK new : new = [c EXCEPT !.st = "rows", !.rows = rows,
                            !.before = {g \in Fetch : fetch[g] # None /\ fetch[g].st # "asked"},
                            !.covers = \A i \in 1 .. Len(q) : q[i].ev # "heartbeat"]
    OBVIOUS
  <2>2. fetch' = [fetch EXCEPT ![f] = new]
    BY <1>0, <1>1, <1>3, <2>1 DEF ReadRows, Calls
  <2>3. new \in Call /\ new.then = c.then
    BY <1>0, <1>2, <2>1 DEF Call
  <2>4. fetch' \in Calls /\ Waiting(fetch') \subseteq Waiting(fetch)
    BY <1>0, <1>1, <2>2, <2>3, CallOk
  <2>5. UNCHANGED <<hubVars, sockVars, authed, form, ws, timers, view, budget, ghosts>>
    BY <1>3 DEF ReadRows
  <2> QED
    BY <2>4, <2>5 DEF TypeOK, Calls
<1>4. CASE ReadStatus(f)
  <2>1. PICK seen : seen = [n \in Node |-> IF n \in fetch[f].rows THEN NodeStatus(n) ELSE "absent"]
    OBVIOUS
  <2>2. seen \in [Node -> Status]
    BY <2>1 DEF NodeStatus, Status
  <2>3. PICK new : new = [c EXCEPT !.st = "answered", !.seen = seen]
    OBVIOUS
  <2>4. fetch' = [fetch EXCEPT ![f] = new]
    BY <1>0, <1>1, <1>4, <2>1, <2>3 DEF ReadStatus, Calls
  <2>5. new \in Call /\ new.then = c.then
    BY <1>2, <2>2, <2>3 DEF Call
  <2>6. fetch' \in Calls /\ Waiting(fetch') \subseteq Waiting(fetch)
    BY <1>0, <1>1, <2>4, <2>5, CallOk
  <2>7. UNCHANGED <<hubVars, sockVars, authed, form, ws, timers, view, budget, ghosts>>
    BY <1>4 DEF ReadStatus
  <2> QED
    BY <2>6, <2>7 DEF TypeOK, Calls
<1> QED
  BY <1>3, <1>4

\* A call that fails leaves its place; 401 shows the login form.
LEMMA FailTypes ==
  ASSUME TypeOK, NEW f \in Fetch, Refused(f) \/ FetchFails(f)
  PROVE  TypeOK' /\ Waiting(fetch') \subseteq Waiting(fetch) /\ sock' = sock /\ timers' = timers
<1> USE DEF hubVars, sockVars
<1>0. fetch \in Calls /\ fetch[f] # None
  BY DEF TypeOK, Calls, Refused, FetchFails
<1>1. Done(fetch, f, FALSE) \in Calls /\ Waiting(Done(fetch, f, FALSE)) \subseteq Waiting(fetch)
  BY <1>0, DoneOk
<1>2. CASE Refused(f)
  <2>1. /\ authed' = FALSE /\ form' = TRUE /\ fetch' = Done(fetch, f, FALSE) /\ lost' = TRUE
        /\ UNCHANGED <<hubVars, sockVars, ws, timers, view, budget, swapped, doubled>>
    BY <1>2 DEF Refused
  <2> QED
    BY <1>1, <2>1 DEF TypeOK, Calls
<1>3. CASE FetchFails(f)
  <2>1. /\ fetch' = Uncover(Done(fetch, f, FALSE)) /\ lost' = TRUE /\ Spend("fail")
        /\ UNCHANGED <<hubVars, sockVars, authed, form, ws, timers, view, swapped, doubled>>
    BY <1>3 DEF FetchFails
  <2>2. fetch' \in Calls /\ Waiting(fetch') \subseteq Waiting(fetch)
    BY <1>1, <2>1, UncoverOk
  <2>3. budget' \in [Event -> Nat]
    BY <2>1, SpendOk DEF Event
  <2> QED
    BY <2>1, <2>2, <2>3 DEF TypeOK, Calls
<1> QED
  BY <1>2, <1>3

------------------------------------------------------------------------------
(* Sockets                                                                  *)

\* connectWS: a free object connects, the socket there was is closing.
LEMMA ConnectOk ==
  ASSUME TypeOK, CanConnect, ConnectWS
  PROVE  /\ sock' \in [Sock -> {"none", "connecting", "open", "closing"}] /\ ws' \in Sock /\ q' = <<>>
         /\ \E s \in Sock : Used' \subseteq Used \cup {s}
<1>1. PICK new : new = CHOOSE s \in Sock : sock[s] = "none"
  OBVIOUS
<1>2. new \in Sock
  BY <1>1 DEF CanConnect
<1>3. /\ sock' = [s \in Sock |-> IF s = new THEN "connecting"
                                ELSE IF s = ws /\ sock[s] # "none" THEN "closing"
                                ELSE sock[s]]
      /\ ws' = new /\ q' = <<>>
  BY <1>1 DEF ConnectWS
<1> QED
  BY <1>2, <1>3 DEF TypeOK, Used

\* Login, logout and the end of a session.
LEMMA UserTypes ==
  ASSUME TypeOK, Login \/ Logout \/ Expire \/ HubRestart
  PROVE  TypeOK'
<1> USE DEF hubVars, sockVars, pageVars, ghosts
<1>0. fetch \in Calls /\ \A f \in Fetch : fetch[f] = None \/ fetch[f] \in Call
  BY DEF TypeOK, Calls
<1>1. CASE Login
  <2>1. /\ valid' = TRUE /\ authed' = TRUE /\ fetch' = Ask(fetch, TRUE) /\ Spend("login") /\ CanAsk
        /\ doubled' = (\/ doubled \/ timers > 0
                       \/ \E s \in Sock : sock[s] # "none"
                       \/ \E f \in Fetch : fetch[f] # None /\ fetch[f].then)
        /\ UNCHANGED <<rows, sess, live, due, sockVars, form, ws, timers, view, lost, swapped>>
    BY <1>1 DEF Login
  <2>2. budget' \in [Event -> Nat]
    BY <2>1, SpendOk DEF Event
  <2>3. fetch' \in Calls
    BY <1>0, <2>1, AskOk DEF CanAsk
  <2>4. doubled' \in BOOLEAN
    BY <2>1, Zenon
  <2> QED
    BY <2>1, <2>2, <2>3, <2>4 DEF TypeOK, Calls
<1>2. CASE Logout
  <2>1. /\ valid' \in BOOLEAN /\ authed' = FALSE /\ form' = TRUE /\ q' = <<>> /\ lost' = TRUE
        /\ sock' = sock \/ (ws # None /\ sock' = [sock EXCEPT ![ws] = "closing"])
        /\ Spend("logout")
        /\ UNCHANGED <<rows, sess, live, due, ws, timers, fetch, view, swapped, doubled>>
    BY <1>0, <1>2 DEF Logout, TypeOK
  <2>2. budget' \in [Event -> Nat]
    BY <2>1, SpendOk DEF Event
  <2>3. q' \in Seq(Msg) /\ Len(q') <= QCap
    BY <2>1, BoundsAssumption
  <2>4. sock' \in [Sock -> {"none", "connecting", "open", "closing"}]
    BY <2>1 DEF TypeOK
  <2> QED
    BY <2>1, <2>2, <2>3, <2>4 DEF TypeOK
<1>3. CASE Expire
  <2>1. budget' \in [Event -> Nat]
    BY <1>3, SpendOk DEF Event, Expire
  <2> QED
    BY <1>3, <2>1 DEF TypeOK, Expire
<1>4. CASE HubRestart
  <2>1. /\ sess' = [n \in Node |-> None] /\ live' = {} /\ due' = {} /\ valid' = FALSE
        /\ sock' = [s \in Sock |-> IF sock[s] = "none" THEN "none" ELSE "closing"]
        /\ q' = <<>> /\ lost' = TRUE /\ fetch' = [f \in Fetch |-> None] /\ Spend("restart")
        /\ UNCHANGED <<rows, authed, form, ws, timers, view, swapped, doubled>>
    BY <1>4 DEF HubRestart
  <2>2. budget' \in [Event -> Nat]
    BY <2>1, SpendOk DEF Event
  <2>3. q' \in Seq(Msg) /\ Len(q') <= QCap
    BY <2>1, BoundsAssumption
  <2> QED
    BY <2>1, <2>2, <2>3 DEF TypeOK
<1> QED
  BY <1>1, <1>2, <1>3, <1>4

\* A snapshot is shown, and after a login the socket follows it.
LEMMA ApplyTypes ==
  ASSUME TypeOK, NEW f \in Fetch, Apply(f)
  PROVE  /\ TypeOK' /\ timers' = timers /\ fetch[f] # None
         /\ Waiting(fetch') \subseteq Waiting(fetch) \ {f}
         /\ ~fetch[f].then => sock' = sock
         /\ fetch[f].then => \E s \in Sock : Used' \subseteq Used \cup {s}
<1> USE DEF hubVars, sockVars
<1>0. fetch \in Calls /\ fetch[f] # None /\ fetch[f] \in Call
  BY DEF TypeOK, Calls, Apply
<1>1. PICK c : c = fetch[f]
  OBVIOUS
<1>2. c \in Call /\ c.seen \in [Node -> Status] /\ c.late \in BOOLEAN /\ c.then \in BOOLEAN /\ c.covers \in BOOLEAN
  BY <1>0, <1>1 DEF Call
<1>3. /\ view' = c.seen /\ swapped' = c.late
      /\ fetch' = Uncover(Done(fetch, f, TRUE)) \/ fetch' = Done(fetch, f, TRUE)
      /\ c.then => CanConnect /\ ConnectWS /\ (lost' = ((lost /\ ~c.covers) \/ q # <<>>))
      /\ ~c.then => (lost' = (lost /\ ~c.covers)) /\ UNCHANGED <<sockVars, ws>>
      /\ form' = ~authed
      /\ UNCHANGED <<hubVars, authed, timers, budget, doubled>>
  BY <1>1 DEF Apply
<1>4. fetch' \in Calls /\ Waiting(fetch') \subseteq Waiting(fetch) \ {f}
  <2>1. PICK d : d = Done(fetch, f, TRUE)
    OBVIOUS
  <2>2. d \in Calls /\ Waiting(d) \subseteq Waiting(fetch) \ {f}
    BY <1>0, <2>1, DoneOk
  <2>3. Uncover(d) \in Calls /\ Waiting(Uncover(d)) \subseteq Waiting(d)
    BY <2>2, UncoverOk
  <2> QED
    BY <1>3, <2>1, <2>2, <2>3
<1>5. CASE c.then
  <2>1. /\ sock' \in [Sock -> {"none", "connecting", "open", "closing"}] /\ ws' \in Sock /\ q' = <<>>
        /\ \E s \in Sock : Used' \subseteq Used \cup {s}
    BY <1>3, <1>5, ConnectOk
  <2>2. q' \in Seq(Msg) /\ Len(q') <= QCap
    BY <2>1, BoundsAssumption
  <2>3. lost' \in BOOLEAN /\ form' \in BOOLEAN
    BY <1>3, <1>5, Zenon
  <2>4. TypeOK'
    BY <1>2, <1>3, <1>4, <2>1, <2>2, <2>3 DEF TypeOK, Calls
  <2> QED
    BY <1>0, <1>1, <1>3, <1>4, <1>5, <2>1, <2>4
<1>6. CASE ~c.then
  <2>1. lost' \in BOOLEAN /\ form' \in BOOLEAN
    BY <1>3, <1>6, Zenon
  <2>2. TypeOK'
    BY <1>2, <1>3, <1>4, <1>6, <2>1 DEF TypeOK, Calls
  <2> QED
    BY <1>0, <1>1, <1>3, <1>4, <1>6, <2>2
<1> QED
  BY <1>5, <1>6

\* A reconnect asks for the snapshot and for the socket at once.
LEMMA ReconnectTypes ==
  ASSUME TypeOK, Reconnect
  PROVE  /\ TypeOK' /\ timers \in Nat /\ timers > 0 /\ timers' = timers - 1
         /\ Waiting(fetch') \subseteq Waiting(fetch)
         /\ \E s \in Sock : Used' \subseteq Used \cup {s}
<1> USE DEF hubVars
<1>1. /\ timers > 0 /\ CanAsk /\ CanConnect /\ ConnectWS /\ timers' = timers - 1
      /\ lost' = (lost \/ q # <<>>)
      /\ fetch' = Ask(Uncover(fetch), FALSE) \/ fetch' = Ask(fetch, FALSE)
      /\ UNCHANGED <<hubVars, authed, form, view, budget, swapped, doubled>>
  BY DEF Reconnect, ReconnectWS
<1>2. fetch \in Calls /\ timers \in Nat
  BY DEF TypeOK, Calls
<1>3. fetch' \in Calls /\ Waiting(fetch') \subseteq Waiting(fetch)
  <2>1. PICK u : u = Uncover(fetch)
    OBVIOUS
  <2>2. u \in Calls /\ Waiting(u) \subseteq Waiting(fetch) /\ \E f \in Fetch : u[f] = None
    BY <1>1, <1>2, <2>1, UncoverOk DEF CanAsk
  <2>3. Ask(u, FALSE) \in Calls /\ Waiting(Ask(u, FALSE)) \subseteq Waiting(u)
    BY <2>2, AskOk
  <2>4. Ask(fetch, FALSE) \in Calls /\ Waiting(Ask(fetch, FALSE)) \subseteq Waiting(fetch)
    BY <1>1, <1>2, AskOk DEF CanAsk
  <2> QED
    BY <1>1, <2>1, <2>2, <2>3, <2>4
<1>4. /\ sock' \in [Sock -> {"none", "connecting", "open", "closing"}] /\ ws' \in Sock /\ q' = <<>>
      /\ \E s \in Sock : Used' \subseteq Used \cup {s}
  BY <1>1, ConnectOk
<1>5. q' \in Seq(Msg) /\ Len(q') <= QCap
  BY <1>4, BoundsAssumption
<1>6. lost' \in BOOLEAN
  BY <1>1, Zenon
<1>7. TypeOK'
  BY <1>1, <1>2, <1>3, <1>4, <1>5, <1>6 DEF TypeOK, Calls
<1> QED
  BY <1>1, <1>2, <1>3, <1>4, <1>7

\* An event is delivered, and may make the page ask (handleEvent).
LEMMA DeliverTypes ==
  ASSUME TypeOK, NEW s \in Sock, Deliver(s)
  PROVE  TypeOK' /\ Waiting(fetch') \subseteq Waiting(fetch) /\ sock' = sock /\ timers' = timers
<1> USE DEF hubVars
<1>0. q \in Seq(Msg) /\ q # <<>> /\ Len(q) <= QCap /\ fetch \in Calls /\ QCap \in Nat
  BY BoundsAssumption DEF TypeOK, Calls, Deliver
<1>1. PICK e : e = Head(q)
  OBVIOUS
<1>2. e \in Msg /\ Tail(q) \in Seq(Msg) /\ Len(Tail(q)) <= QCap
  <2>1. Len(Tail(q)) = Len(q) - 1 /\ Len(q) \in Nat
    BY <1>0
  <2> QED
    BY <1>0, <1>1, <2>1
<1>3. /\ q' = Tail(q)
      /\ (CanAsk /\ fetch' = Ask(fetch, FALSE)) \/ fetch' = fetch
      /\ view' = [view EXCEPT ![e.node] = "online"] \/ view' = view
      /\ form' = ~authed \/ form' = form
      /\ UNCHANGED <<hubVars, sock, authed, ws, timers, budget, ghosts>>
  BY <1>1 DEF Deliver
<1>4. fetch' \in Calls /\ Waiting(fetch') \subseteq Waiting(fetch)
  BY <1>0, <1>3, AskOk DEF CanAsk
<1>5. view' \in [Node -> Status]
  BY <1>3 DEF TypeOK, Status
<1>6. form' \in BOOLEAN
  BY <1>3 DEF TypeOK
<1> QED
  BY <1>2, <1>3, <1>4, <1>5, <1>6 DEF TypeOK, Calls, ghosts

\* A socket is answered, cut or closed.
LEMMA SocketTypes ==
  ASSUME TypeOK, NEW s \in Sock, Upgrade(s) \/ Break(s) \/ OnClose(s)
  PROVE  /\ TypeOK' /\ Waiting(fetch') \subseteq Waiting(fetch) /\ Used' \subseteq Used
         /\ timers' = timers \/ (timers' \in {timers, timers + 1} /\ s \in Used /\ Used' \subseteq Used \ {s})
<1> USE DEF hubVars, pageVars, ghosts
<1>0. sock \in [Sock -> {"none", "connecting", "open", "closing"}] /\ timers \in Nat /\ fetch \in Calls
  BY DEF TypeOK, Calls
<1>1. CASE Upgrade(s)
  <2>1. /\ sock[s] = "connecting"
        /\ sock' = [sock EXCEPT ![s] = "open"] \/ sock' = [sock EXCEPT ![s] = "closing"]
        /\ UNCHANGED <<hubVars, q, pageVars, budget, ghosts>>
    BY <1>1 DEF Upgrade
  <2>2. sock' \in [Sock -> {"none", "connecting", "open", "closing"}] /\ Used' \subseteq Used
    BY <1>0, <2>1 DEF Used
  <2> QED
    BY <2>1, <2>2 DEF TypeOK, Waiting
<1>2. CASE Break(s)
  <2>1. /\ sock[s] # "none" /\ sock' = [sock EXCEPT ![s] = "closing"]
        /\ q' = <<>> /\ lost' = TRUE /\ fetch' = Uncover(fetch) /\ Spend("break")
        /\ UNCHANGED <<hubVars, authed, form, ws, timers, view, swapped, doubled>>
    BY <1>2 DEF Break
  <2>2. sock' \in [Sock -> {"none", "connecting", "open", "closing"}] /\ Used' \subseteq Used
    BY <1>0, <2>1 DEF Used
  <2>3. budget' \in [Event -> Nat]
    BY <2>1, SpendOk DEF Event
  <2>4. q' \in Seq(Msg) /\ Len(q') <= QCap
    BY <2>1, BoundsAssumption
  <2>5. fetch' \in Calls /\ Waiting(fetch') \subseteq Waiting(fetch)
    BY <1>0, <2>1, UncoverOk
  <2> QED
    BY <2>1, <2>2, <2>3, <2>4, <2>5 DEF TypeOK, Calls
<1>3. CASE OnClose(s)
  <2>1. /\ sock[s] = "closing" /\ sock' = [sock EXCEPT ![s] = "none"]
        /\ timers' \in {timers, timers + 1}
        /\ UNCHANGED <<hubVars, q, authed, form, ws, fetch, view, budget, ghosts>>
    BY <1>0, <1>3 DEF OnClose, Reconnects
  <2>2. /\ sock' \in [Sock -> {"none", "connecting", "open", "closing"}]
        /\ s \in Used /\ Used' \subseteq Used \ {s}
    BY <1>0, <2>1 DEF Used
  <2>3. timers' \in Nat
    BY <1>0, <2>1
  <2> QED
    BY <2>1, <2>2, <2>3 DEF TypeOK, Waiting
<1> QED
  BY <1>1, <1>2, <1>3

------------------------------------------------------------------------------
(* One way to the events                                                    *)

\* Sets of sockets and calls are finite, and bigger sets have more members.
LEMMA Counted ==
  ASSUME NEW S, S \subseteq Sock \/ S \subseteq Fetch
  PROVE  /\ IsFiniteSet(S) /\ Cardinality(S) \in Nat /\ (Cardinality(S) = 0 <=> S = {})
         /\ \A T : T \subseteq S => Cardinality(T) \in Nat /\ Cardinality(T) <= Cardinality(S)
         /\ \A x : S \subseteq {x} => Cardinality(S) <= 1
         /\ \A x \in S : Cardinality(S \ {x}) = Cardinality(S) - 1
<1>1. IsFiniteSet(Sock) /\ IsFiniteSet(Fetch)
  BY BoundsAssumption, FS_Interval DEF Sock, Fetch
<1>2. IsFiniteSet(S)
  BY <1>1, FS_Subset
<1>3. Cardinality(S) \in Nat /\ (Cardinality(S) = 0 <=> S = {})
  BY <1>2, FS_CardinalityType, FS_EmptySet
<1>4. ASSUME NEW T, T \subseteq S PROVE Cardinality(T) \in Nat /\ Cardinality(T) <= Cardinality(S)
  BY <1>2, <1>4, FS_Subset, FS_CardinalityType
<1>5. ASSUME NEW x, S \subseteq {x} PROVE Cardinality(S) <= 1
  <2>1. IsFiniteSet({x}) /\ Cardinality({x}) = 1
    BY FS_Singleton
  <2> QED
    BY <1>5, <2>1, FS_Subset
<1>6. ASSUME NEW x \in S PROVE Cardinality(S \ {x}) = Cardinality(S) - 1
  BY <1>2, FS_RemoveElement
<1> QED
  BY <1>2, <1>3, <1>4, <1>5, <1>6

\* OneSocket, in the words of this module.
One == timers + Cardinality(Used) + Cardinality(Waiting(fetch)) <= 1

\* A step that adds nothing keeps one way, or none.
LEMMA OneKept ==
  ASSUME TypeOK, One, timers' = timers, Used' \subseteq Used, Waiting(fetch') \subseteq Waiting(fetch)
  PROVE  One'
<1>1. Used \subseteq Sock /\ Waiting(fetch) \subseteq Fetch /\ timers \in Nat
  BY DEF Used, Waiting, TypeOK
<1>2. /\ Cardinality(Used) \in Nat /\ Cardinality(Waiting(fetch)) \in Nat
      /\ Cardinality(Used') \in Nat /\ Cardinality(Used') <= Cardinality(Used)
      /\ Cardinality(Waiting(fetch')) \in Nat
      /\ Cardinality(Waiting(fetch')) <= Cardinality(Waiting(fetch))
  BY <1>1, Counted
<1>3. timers + Cardinality(Used) + Cardinality(Waiting(fetch)) <= 1
  BY DEF One
<1>4. timers' + Cardinality(Used') + Cardinality(Waiting(fetch')) <= 1
  BY <1>1, <1>2, <1>3
<1> QED
  BY <1>4 DEF One

\* A step that takes the one way there is for another, or finds none.
LEMMA OneMoved ==
  ASSUME TypeOK, One, timers' \in Nat,
         \/ /\ timers > 0 /\ timers' = timers - 1
            /\ Waiting(fetch') \subseteq Waiting(fetch) /\ \E s \in Sock : Used' \subseteq Used \cup {s}
         \/ /\ timers' = timers /\ Waiting(fetch) # {} /\ \E s \in Sock : Used' \subseteq Used \cup {s}
            /\ \E f \in Waiting(fetch) : Waiting(fetch') \subseteq Waiting(fetch) \ {f}
         \/ /\ timers' \in {timers, timers + 1} /\ Waiting(fetch') \subseteq Waiting(fetch)
            /\ \E s \in Used : Used' \subseteq Used \ {s}
         \/ /\ timers = 0 /\ timers' = 0 /\ Used = {} /\ Used' = {} /\ Waiting(fetch) = {}
            /\ \E f \in Fetch : Waiting(fetch') \subseteq {f}
  PROVE  One'
<1> DEFINE S == Used
           F == Waiting(fetch)
           T == Used'
           G == Waiting(fetch')
<1>1. S \subseteq Sock /\ F \subseteq Fetch /\ T \subseteq Sock /\ G \subseteq Fetch /\ timers \in Nat
  BY DEF Used, Waiting, TypeOK
<1>2. /\ Cardinality(S) \in Nat /\ Cardinality(F) \in Nat /\ Cardinality(T) \in Nat /\ Cardinality(G) \in Nat
      /\ Cardinality(S) = 0 <=> S = {}
      /\ Cardinality(F) = 0 <=> F = {}
      /\ Cardinality(T) = 0 <=> T = {}
      /\ Cardinality(G) = 0 <=> G = {}
      /\ T \subseteq S => Cardinality(T) <= Cardinality(S)
      /\ G \subseteq F => Cardinality(G) <= Cardinality(F)
      /\ \A x : T \subseteq {x} => Cardinality(T) <= 1
      /\ \A x : G \subseteq {x} => Cardinality(G) <= 1
  BY <1>1, Counted
<1>3. timers + Cardinality(S) + Cardinality(F) <= 1
  BY DEF One
<1>4. CASE /\ timers > 0 /\ timers' = timers - 1
           /\ G \subseteq F /\ \E s \in Sock : T \subseteq S \cup {s}
  <2>1. timers = 1 /\ S = {} /\ F = {} /\ G = {}
    <3>1. Cardinality(S) = 0 /\ Cardinality(F) = 0 /\ timers = 1
      BY <1>1, <1>2, <1>3, <1>4
    <3> QED
      BY <1>2, <1>4, <3>1
  <2>2. Cardinality(T) <= 1 /\ Cardinality(G) = 0 /\ timers' = 0
    BY <1>2, <1>4, <2>1
  <2> QED
    BY <1>2, <2>2 DEF One
<1>5. CASE /\ timers' = timers /\ F # {} /\ \E s \in Sock : T \subseteq S \cup {s}
           /\ \E f \in F : G \subseteq F \ {f}
  <2>1. timers = 0 /\ S = {} /\ Cardinality(F) = 1
    <3>1. Cardinality(F) # 0
      BY <1>2, <1>5
    <3>2. timers = 0 /\ Cardinality(S) = 0 /\ Cardinality(F) = 1
      <4>1. Cardinality(S) \in Nat /\ Cardinality(F) \in Nat /\ timers \in Nat
        BY <1>1, <1>2
      <4>2. ASSUME NEW a \in Nat, NEW b \in Nat, NEW c \in Nat, a + b + c <= 1, c # 0
            PROVE  a = 0 /\ b = 0 /\ c = 1
        BY <4>2
      <4> HIDE DEF S, F
      <4> QED
        BY <1>3, <3>1, <4>1, <4>2
    <3> QED
      BY <1>2, <3>2
  <2>2. Cardinality(G) = 0
    <3>1. PICK f \in F : G \subseteq F \ {f}
      BY <1>5
    <3>2. Cardinality(F \ {f}) = Cardinality(F) - 1
      BY <1>1, Counted
    <3>3. F \ {f} \subseteq Fetch
      BY <1>1
    <3>4. Cardinality(F \ {f}) \in Nat /\ Cardinality(G) <= Cardinality(F \ {f})
      BY <3>1, <3>3, Counted
    <3> QED
      BY <1>2, <2>1, <3>2, <3>4
  <2>3. Cardinality(T) <= 1
    BY <1>2, <1>5, <2>1
  <2> QED
    BY <1>2, <1>5, <2>1, <2>2, <2>3 DEF One
<1>6. CASE timers' \in {timers, timers + 1} /\ G \subseteq F /\ \E s \in S : T \subseteq S \ {s}
  <2>1. PICK s \in S : T \subseteq S \ {s}
    BY <1>6
  <2>2. Cardinality(S \ {s}) = Cardinality(S) - 1
    BY <1>1, Counted
  <2>3. S \ {s} \subseteq Sock
    BY <1>1
  <2>4. Cardinality(T) <= Cardinality(S) - 1
    BY <2>1, <2>2, <2>3, Counted
  <2>5. Cardinality(G) <= Cardinality(F)
    BY <1>2, <1>6
  <2> QED
    BY <1>1, <1>2, <1>3, <1>6, <2>4, <2>5 DEF One
<1>7. CASE /\ timers = 0 /\ timers' = 0 /\ S = {} /\ T = {} /\ F = {}
           /\ \E f \in Fetch : G \subseteq {f}
  <2>1. Cardinality(T) = 0 /\ Cardinality(G) <= 1
    BY <1>2, <1>7
  <2> QED
    BY <1>2, <1>7, <2>1 DEF One
<1> QED
  BY <1>4, <1>5, <1>6, <1>7

\* What a page or its user does keeps one way to the events.
LEMMA OneStep ==
  ASSUME TypeOK, TypeOK', ~doubled => One, [Next]_vars, ~doubled'
  PROVE  One'
<1> USE DEF hubVars, sockVars, pageVars, ghosts
<1>0. timers' \in Nat
  BY DEF TypeOK
<1>1. CASE Login
  <2>1. /\ fetch' = Ask(fetch, TRUE) /\ CanAsk
        /\ doubled' = (\/ doubled \/ timers > 0
                       \/ \E s \in Sock : sock[s] # "none"
                       \/ \E f \in Fetch : fetch[f] # None /\ fetch[f].then)
        /\ UNCHANGED <<sockVars, timers>>
    BY <1>1 DEF Login
  <2>2. ~doubled /\ ~(timers > 0) /\ Used = {} /\ Waiting(fetch) = {}
    BY <2>1, Zenon DEF Used, Waiting
  <2>3. timers = 0
    BY <2>2 DEF TypeOK
  <2>4. Used' = {}
    BY <2>1, <2>2 DEF Used
  <2>5. \E f \in Fetch : Waiting(fetch') \subseteq {f}
    BY <2>1, <2>2, AskOk DEF CanAsk, TypeOK, Calls
  <2> QED
    BY <1>0, <2>1, <2>2, <2>3, <2>4, <2>5, OneMoved
<1> SUFFICES ASSUME ~Login PROVE One'
  BY <1>1
<1>2. ~doubled /\ One
  <2>1. doubled' = doubled
    BY DEF Next, vars, Enroll, RunSession, DeleteNode, Heartbeat, DropSession, Publish, ReadRows,
           ReadStatus, Refused, FetchFails, Apply, Upgrade, Break, OnClose, Deliver, Logout,
           Reconnect, Expire, HubRestart
  <2> QED
    BY <2>1
<1>3. CASE \/ \E n \in Node : Enroll(n) \/ RunSession(n) \/ DeleteNode(n)
           \/ \E g \in live : Heartbeat(g) \/ DropSession(g)
           \/ Expire \/ UNCHANGED vars
  <2>1. UNCHANGED <<sock, timers, fetch>>
    BY <1>3 DEF Enroll, RunSession, DeleteNode, Heartbeat, DropSession, Expire, vars
  <2> QED
    BY <1>2, <2>1, OneKept DEF Used, Waiting
<1>4. ASSUME NEW e \in due, Publish(e) PROVE One'
  <2>1. UNCHANGED <<sock, timers>> /\ Waiting(fetch') \subseteq Waiting(fetch)
    BY <1>4, PublishTypes DEF Publish
  <2> QED
    BY <1>2, <2>1, OneKept DEF Used
<1>5. ASSUME NEW f \in Fetch, ReadRows(f) \/ ReadStatus(f) \/ Refused(f) \/ FetchFails(f) PROVE One'
  <2>1. UNCHANGED <<sock, timers>> /\ Waiting(fetch') \subseteq Waiting(fetch)
    BY <1>5, ReadTypes, FailTypes
  <2> QED
    BY <1>2, <2>1, OneKept DEF Used
<1>6. ASSUME NEW f \in Fetch, Apply(f) PROVE One'
  <2>1. /\ timers' = timers /\ Waiting(fetch') \subseteq Waiting(fetch) \ {f} /\ fetch[f] # None
        /\ ~fetch[f].then => sock' = sock
        /\ fetch[f].then => \E s \in Sock : Used' \subseteq Used \cup {s}
    BY <1>6, ApplyTypes
  <2>2. CASE fetch[f].then
    <3>1. f \in Waiting(fetch)
      BY <2>1, <2>2 DEF Waiting
    <3> QED
      BY <1>0, <1>2, <2>1, <2>2, <3>1, OneMoved
  <2>3. CASE ~fetch[f].then
    <3>1. Used' = Used
      BY <2>1, <2>3 DEF Used
    <3> QED
      BY <1>2, <2>1, <3>1, OneKept
  <2> QED
    BY <2>2, <2>3
<1>7. ASSUME NEW s \in Sock, Upgrade(s) \/ Break(s) \/ OnClose(s) PROVE One'
  <2>1. /\ Waiting(fetch') \subseteq Waiting(fetch) /\ Used' \subseteq Used
        /\ \/ timers' = timers
           \/ timers' \in {timers, timers + 1} /\ s \in Used /\ Used' \subseteq Used \ {s}
    BY <1>7, SocketTypes
  <2> QED
    BY <1>0, <1>2, <2>1, OneKept, OneMoved
<1>8. ASSUME NEW s \in Sock, Deliver(s) PROVE One'
  <2>1. UNCHANGED <<sock, timers>> /\ Waiting(fetch') \subseteq Waiting(fetch)
    BY <1>8, DeliverTypes
  <2> QED
    BY <1>2, <2>1, OneKept DEF Used
<1>9. CASE Logout
  <2>1. /\ UNCHANGED <<timers, fetch>>
        /\ sock' = sock \/ (ws # None /\ sock[ws] # "none" /\ sock' = [sock EXCEPT ![ws] = "closing"])
    BY <1>9 DEF Logout
  <2>2. Used' \subseteq Used
    BY <2>1 DEF Used, TypeOK
  <2> QED
    BY <1>2, <2>1, <2>2, OneKept DEF Waiting
<1>10. CASE Reconnect
  BY <1>0, <1>2, <1>10, ReconnectTypes, OneMoved
<1>11. CASE HubRestart
  <2>1. /\ sock' = [s \in Sock |-> IF sock[s] = "none" THEN "none" ELSE "closing"]
        /\ fetch' = [f \in Fetch |-> None] /\ timers' = timers
    BY <1>11 DEF HubRestart
  <2>2. Used' \subseteq Used /\ Waiting(fetch') \subseteq Waiting(fetch)
    BY <2>1 DEF Used, Waiting
  <2> QED
    BY <1>2, <2>1, <2>2, OneKept
<1> QED
  BY <1>3, <1>4, <1>5, <1>6, <1>7, <1>8, <1>9, <1>10, <1>11 DEF Next

------------------------------------------------------------------------------
(* The theorems                                                             *)

\* Every step keeps the types.
LEMMA TypeStep ==
  ASSUME TypeOK, [Next]_vars
  PROVE  TypeOK'
<1>1. CASE UNCHANGED vars
  BY <1>1 DEF vars, hubVars, sockVars, pageVars, ghosts, TypeOK
<1>2. CASE Next
  BY <1>2, HubTypes, PublishTypes, ReadTypes, FailTypes, ApplyTypes, SocketTypes, DeliverTypes,
     UserTypes, ReconnectTypes DEF Next
<1> QED
  BY <1>1, <1>2

\* A page that shows the login form, and a hub that publishes nothing yet.
LEMMA InitOk ==
  ASSUME Init
  PROVE  TypeOK /\ One
<1>1. budget \in [Event -> Nat] /\ rows \subseteq Node
  BY ScenariosAssumption DEF Init
<1>2. q \in Seq(Msg) /\ Len(q) <= QCap
  BY BoundsAssumption DEF Init
<1>3. view \in [Node -> Status]
  BY DEF Init, Status
<1>4. TypeOK
  BY <1>1, <1>2, <1>3 DEF Init, TypeOK
<1>5. timers = 0 /\ Used = {} /\ Waiting(fetch) = {}
  BY DEF Init, Used, Waiting
<1>6. Cardinality({}) = 0
  BY FS_EmptySet
<1> QED
  BY <1>4, <1>5, <1>6 DEF One

\* TypeOK of Panel holds for any nodes and bounds: the channel of a subscriber
\* never holds more events than it can (publish).
THEOREM TypeCorrect == Spec => []TypeOK
<1>1. Init => TypeOK
  BY InitOk
<1>2. TypeOK /\ [Next]_vars => TypeOK'
  BY TypeStep
<1> QED
  BY <1>1, <1>2, PTL DEF Spec

\* OneSocket holds: reconnects, cut sockets, closed ones and logins never make
\* two ways to the events, unless the user logs in over one (connectWS).
THEOREM OneWay == Spec => []OneSocket
<1>1. Init => (~doubled => One)
  BY InitOk
<1>2. TypeOK /\ TypeOK' /\ (~doubled => One) /\ [Next]_vars => (~doubled' => One')
  BY OneStep
<1>3. (~doubled => One) => OneSocket
  BY DEF One, OneSocket, Used, Waiting
<1> QED
  BY <1>1, <1>2, <1>3, TypeCorrect, PTL DEF Spec
==============================================================================
