------------------------------ MODULE Telemetry ------------------------------
(***************************************************************************)
(* What the hub learns from heartbeats: the ring of metrics of every node  *)
(* (internal/hub/ring.go) and the runtime of a link, its rate and its last *)
(* handshake (linkRT in hub.go, handleHeartbeat in control.go).            *)
(*                                                                         *)
(* Agents (heartbeatLoop in agent.go) stamp a heartbeat with their own     *)
(* clock before they collect it, and report counters since their boot, or  *)
(* since the peer was configured; frames are delayed, connections          *)
(* replaced, and the goroutine of a replaced one may still have a          *)
(* heartbeat in hand. Time is counted in ticks, of which a machine's       *)
(* time.Now().Unix() shows whole seconds, and its clock may be stepped.    *)
(***************************************************************************)
EXTENDS Integers, Sequences, FiniteSetsExt

CONSTANTS
  Node,
  End,           \* the two ends of the link that is looked at
  Hub,           \* the machine of the hub
  Ahead, Behind, \* how far a machine's clock may be off
  Skew,          \* how far it is at first
  Sec,           \* ticks of a second
  Step, Slots,   \* ringStep, ringSlots
  HSWindow,      \* the age up to which a handshake makes a link active (180 s)
  Speed,         \* the most that a counter grows in a tick
  Collect,       \* collectSys is done by then
  MaxDelay,      \* a heartbeat is handled, or its connection is dead, by then
  Start,         \* the time at first, long after the epoch
  MaxTime,       \* bound on the clock
  Scenarios,     \* budgets: how often each kind of event may happen
  None

Event == {"beat", "fail", "shake", "connect", "boot", "delete", "restart", "step"}
Machine == Node \cup {Hub}
Offset == -Behind .. Ahead

ASSUME EndAssumption == Hub \notin Node /\ \E a, b \in Node : End = {a, b}
ASSUME ClockAssumption == {Ahead, Behind} \subseteq Nat /\ Skew \in [Machine -> Offset]
ASSUME RingAssumption == {Sec, Step, Slots, Speed, HSWindow} \subseteq Nat \ {0}
ASSUME DelayAssumption ==
  /\ {Collect, MaxDelay, MaxTime} \subseteq Nat /\ Collect <= MaxDelay
  /\ Ahead + Behind + MaxDelay <= Sec * (Step * (Slots - 1))
ASSUME StartAssumption ==
  Start \in Nat /\ Start >= Behind + Sec * Step /\ Start >= Behind + Sec * HSWindow
ASSUME ScenariosAssumption == Scenarios \subseteq [Event -> Nat]

VARIABLES
  clock,    \* the time
  off,      \* how far the clocks are off it
  \* agents
  conn,     \* number of the node's connection, 0: none
  making,   \* the heartbeat that send is collecting, or None
  wire,     \* heartbeats sent on the connection
  sys,      \* NetRx of the machine
  wg,       \* RxBytes of the peer at the link's other end
  sysTold, wgTold, \* when they were last read or reset
  shook,    \* the kernel's stamp of the peer's last handshake, 0: none
  \* struct Hub
  handling, \* heartbeats between the unlock of handleHeartbeat and Ingest
  rt,       \* the linkRT, or None
  ring,     \* Metrics.rings
  deleted,  \* nodes whose row is deleted
  dropped,  \* of these, the ones whose history has been dropped
  \* bookkeeping of the model
  budget,
  tunnel,   \* when the tunnel's last handshake was, or None
  blank,    \* nodes that have sent a heartbeat without their counters
  hist,     \* per node and bucket of time, the sample that was ingested last
  said      \* the handshake stamp in the last heartbeat handled from an end

clockVars == <<clock, off>>
countVars == <<sys, wg, sysTold, wgTold, shook>>
agentVars == <<conn, making, wire, countVars>>
hubVars   == <<handling, rt, ring, deleted, dropped>>
ghosts    == <<tunnel, blank, hist, said>>
vars == <<clockVars, agentVars, hubVars, budget, ghosts>>

Ring == Step * Slots
\* A heartbeat: ts is its stamp, at and off the time and the error of the clock
\* when it was stamped.
Beat == [ts : Nat, at : Nat, off : Int, sys : Nat, wg : Nat \cup {None}, hs : Nat]
\* A rate is kept as a difference of counters and of stamps; it is steady if
\* one clock, not stepped meanwhile, made both stamps.
Sample == [ts : Nat, bytes : Nat, secs : Nat, steady : BOOLEAN]
LinkRT == [hs : Nat, bytes : Nat, secs : Nat, prev : Nat, at : Nat, by : Node \cup {None},
           off : Int, steady : BOOLEAN]
NodeRing == [slots : [0 .. Slots - 1 -> Sample], last : Nat, prev : Nat, at : Nat, off : Int]

ASSUME NoneAssumption == None \notin Int /\ None \notin LinkRT /\ None \notin NodeRing
                           /\ None \notin Beat

NoRate == [bytes |-> 0, secs |-> 0, steady |-> TRUE]
NoSample == [ts |-> 0, bytes |-> 0, secs |-> 0, steady |-> TRUE]
NewRing == [slots |-> [i \in 0 .. Slots - 1 |-> NoSample], last |-> 0, prev |-> 0,
            at |-> 0, off |-> 0]
NewRT == [hs |-> 0, bytes |-> 0, secs |-> 0, prev |-> 0, at |-> 0, by |-> None,
          off |-> 0, steady |-> TRUE]

Spend(e) == budget[e] > 0 /\ budget' = [budget EXCEPT ![e] = @ - 1]

\* time.Now().Unix() on machine m.
Unix(m) == (clock + off[m]) \div Sec

\* Both agents have connected; the time is past the first slot and window.
Init ==
  /\ budget \in Scenarios /\ blank = {}
  /\ clock = Start /\ off = Skew
  /\ conn = [n \in Node |-> budget["connect"] + 1]
  /\ making = [n \in Node |-> None]
  /\ wire = [n \in Node |-> <<>>]
  /\ sys = [n \in Node |-> 0] /\ wg = [n \in Node |-> 0]
  /\ sysTold = [n \in Node |-> Start] /\ wgTold = [n \in Node |-> Start]
  /\ shook = [n \in Node |-> 0]
  /\ tunnel = None
  /\ handling = {} /\ rt = None /\ ring = [n \in Node |-> None]
  /\ deleted = {} /\ dropped = {}
  /\ hist = [n \in Node |-> <<>>]
  /\ said = [n \in Node |-> None]

------------------------------------------------------------------------------
(* Agents                                                                  *)

\* The agent connects, maybe while the hub still works on its previous
\* connection; reconciling configures its peers anew.
Connect(n) ==
  /\ n \notin deleted /\ Spend("connect")
  /\ conn' = [conn EXCEPT ![n] = budget["connect"]]
  /\ making' = [making EXCEPT ![n] = None]
  /\ wire' = [wire EXCEPT ![n] = <<>>]
  /\ wg' = [wg EXCEPT ![n] = 0] /\ wgTold' = [wgTold EXCEPT ![n] = clock]
  /\ shook' = [shook EXCEPT ![n] = 0]
  /\ UNCHANGED <<clockVars, sys, sysTold, hubVars, ghosts>>

\* The machine was silent or busy since the counter was last read.
Grown(count, since) == {count, count + Speed * (clock - since)}

\* send in heartbeatLoop up to collectSys: WG.Status, or no table if the device
\* cannot be read, then the stamp.
StartBeat(n) ==
  /\ conn[n] # 0 /\ making[n] = None /\ budget["beat"] > 0
  /\ \E g \in Grown(wg[n], wgTold[n]) : wg' = [wg EXCEPT ![n] = g]
  /\ wgTold' = [wgTold EXCEPT ![n] = clock]
  /\ \E fails \in {0, 1} :
       /\ fails <= budget["fail"]
       /\ budget' = [budget EXCEPT !["beat"] = @ - 1, !["fail"] = @ - fails]
       /\ making' = [making EXCEPT ![n] =
            [ts |-> Unix(n), at |-> clock, off |-> off[n], sys |-> 0,
             wg |-> IF fails = 1 THEN None ELSE wg'[n], hs |-> shook[n]]]
  /\ UNCHANGED <<clockVars, conn, wire, sys, sysTold, shook, hubVars, ghosts>>

\* collectSys, whose counters are zero when their collector fails, and a.write.
SendBeat(n) ==
  /\ making[n] # None
  /\ \E g \in Grown(sys[n], sysTold[n]) : sys' = [sys EXCEPT ![n] = g]
  /\ sysTold' = [sysTold EXCEPT ![n] = clock]
  /\ \/ /\ wire' = [wire EXCEPT ![n] = Append(@, [making[n] EXCEPT !.sys = sys'[n]])]
        /\ UNCHANGED <<budget, blank>>
     \/ /\ Spend("fail") /\ blank' = blank \cup {n}
        /\ wire' = [wire EXCEPT ![n] = Append(@, making[n])]
  /\ making' = [making EXCEPT ![n] = None]
  /\ UNCHANGED <<clockVars, conn, wg, wgTold, shook, hubVars, tunnel, hist, said>>

\* The machine is rebooted: its counters start again, its connection is lost.
Reboot(n) ==
  /\ Spend("boot")
  /\ sys' = [sys EXCEPT ![n] = 0] /\ wg' = [wg EXCEPT ![n] = 0]
  /\ sysTold' = [sysTold EXCEPT ![n] = clock] /\ wgTold' = [wgTold EXCEPT ![n] = clock]
  /\ shook' = [shook EXCEPT ![n] = 0]
  /\ conn' = [conn EXCEPT ![n] = 0]
  /\ making' = [making EXCEPT ![n] = None]
  /\ wire' = [wire EXCEPT ![n] = <<>>]
  /\ UNCHANGED <<clockVars, hubVars, ghosts>>

\* The kernels of the two ends shake hands.
Handshake ==
  /\ tunnel # clock /\ tunnel' = clock /\ Spend("shake")
  /\ shook' = [n \in Node |-> IF n \in End THEN Unix(n) ELSE shook[n]]
  /\ UNCHANGED <<clockVars, conn, making, wire, sys, wg, sysTold, wgTold, hubVars, blank, hist,
                 said>>

------------------------------------------------------------------------------
(* handleHeartbeat                                                         *)

\* The goroutine of the node's connection is in handleHeartbeat.
Handling(n) == \E h \in handling : h.node = n /\ h.conn = conn[n]

\* Mutant: the last report decides.
NewestHSReported(r, b) == b.hs

\* The newest handshake of the two reports.
NewestHS(r, b) == IF b.hs > r.hs THEN b.hs ELSE r.hs

\* Whether a report gives a link a new rate, on the hub's clock: one of its
\* ends has reported before, and no counter has been reset.
Comparable(r, b) == r.at > 0 /\ Unix(Hub) > r.at /\ b.wg >= r.prev

\* Mutant: the counters to compare with are kept while there is a rate.
BaseKept(r, b) == IF Comparable(r, b) THEN r.prev ELSE b.wg

\* The counters the next report is compared with, whichever end sends it.
Base(r, b) == b.wg

Updated(r, n, b) ==
  LET rate == IF Comparable(r, b)
                THEN [bytes |-> b.wg - r.prev, secs |-> Unix(Hub) - r.at,
                      steady |-> r.by = n /\ r.off = off[Hub]]
                ELSE [bytes |-> r.bytes, secs |-> r.secs, steady |-> r.steady]
  IN  [hs |-> NewestHS(r, b), bytes |-> rate.bytes, secs |-> rate.secs,
       steady |-> rate.steady, prev |-> Base(r, b), at |-> Unix(Hub), by |-> n,
       off |-> off[Hub]]

\* Under the lock: the runtime of the node's links, if their rows exist.
HandleHeartbeat(n) ==
  LET b == Head(wire[n]) IN
  /\ conn[n] # 0 /\ wire[n] # <<>> /\ ~Handling(n)
  /\ wire' = [wire EXCEPT ![n] = Tail(@)]
  /\ handling' = handling \cup {[node |-> n, conn |-> conn[n], beat |-> b]}
  /\ IF n \in End /\ End \cap deleted = {} /\ b.wg # None
       THEN /\ rt' = Updated(IF rt = None THEN NewRT ELSE rt, n, b)
            /\ said' = [said EXCEPT ![n] = b.hs]
       ELSE UNCHANGED <<rt, said>>
  /\ UNCHANGED <<clockVars, conn, making, countVars, ring, deleted, dropped, budget, tunnel,
                 blank, hist>>

\* Mutant: the slot is counted in seconds.
SlotOfSecond(ts) == ts % Slots

SlotOf(ts) == (ts \div Step) % Slots
BucketOf(ts) == ts - (ts % Step)

Difference(r, b) == [bytes |-> b.sys - r.prev, secs |-> b.ts - r.last, steady |-> b.off = r.off]

\* Mutant: the counters are not compared.
RateUnguarded(r, b) == IF r.last > 0 /\ b.ts > r.last THEN Difference(r, b) ELSE NoRate

\* The rate of a sample, on the agent's clock; none after a reset.
Rate(r, b) == IF r.last > 0 /\ b.ts > r.last /\ b.sys >= r.prev THEN Difference(r, b) ELSE NoRate

\* Mutant: a report that is not newer leaves the stamp, not the counters.
KeptStampNewest(r, b) == IF b.ts > r.last THEN b.ts ELSE r.last

\* lastTS and prevTS, which are always the same.
KeptStamp(r, b) == b.ts

\* Metrics.Ingest
Ingest(h) ==
  LET n == h.node
      b == h.beat
      r == IF ring[n] = None THEN NewRing ELSE ring[n]
      d == Rate(r, b)
      s == [ts |-> BucketOf(b.ts), bytes |-> d.bytes, secs |-> d.secs, steady |-> d.steady]
  IN
  /\ handling' = handling \ {h}
  /\ ring' = [ring EXCEPT ![n] = [slots |-> [r.slots EXCEPT ![SlotOf(b.ts)] = s],
                                  last |-> KeptStamp(r, b), prev |-> b.sys,
                                  at |-> b.at, off |-> b.off]]
  /\ hist' = [hist EXCEPT ![n] = [t \in DOMAIN @ \cup {s.ts} |-> IF t = s.ts THEN s ELSE @[t]]]
  /\ UNCHANGED <<clockVars, agentVars, rt, deleted, dropped, budget, tunnel, blank, said>>

------------------------------------------------------------------------------
(* Deletion, restart of the hub, time                                      *)

\* Hub.DeleteNode: the rows and the links' runtime ...
DeleteNode(n) ==
  /\ n \notin deleted /\ Spend("delete")
  /\ deleted' = deleted \cup {n}
  /\ rt' = IF n \in End THEN None ELSE rt
  /\ said' = IF n \in End THEN [e \in Node |-> None] ELSE said
  /\ UNCHANGED <<clockVars, agentVars, handling, ring, dropped, tunnel, blank, hist>>

\* ... then Metrics.Drop, while the connection still has two seconds.
Drop(n) ==
  /\ n \in deleted \ dropped
  /\ dropped' = dropped \cup {n}
  /\ ring' = [ring EXCEPT ![n] = None]
  /\ hist' = [hist EXCEPT ![n] = <<>>]
  /\ UNCHANGED <<clockVars, agentVars, handling, rt, deleted, budget, tunnel, blank, said>>

\* Nothing of this is persisted.
HubRestart ==
  /\ Spend("restart")
  /\ handling' = {} /\ rt' = None
  /\ ring' = [n \in Node |-> None]
  /\ conn' = [n \in Node |-> 0]
  /\ making' = [n \in Node |-> None]
  /\ wire' = [n \in Node |-> <<>>]
  /\ hist' = [n \in Node |-> <<>>]
  /\ said' = [n \in Node |-> None]
  /\ dropped' = deleted
  /\ UNCHANGED <<clockVars, countVars, tunnel, deleted, blank>>

\* A machine's clock is set, forward or back.
StepClock(m) ==
  /\ Spend("step")
  /\ \E o \in Offset \ {off[m]} : off' = [off EXCEPT ![m] = o]
  /\ UNCHANGED <<clock, agentVars, hubVars, ghosts>>

\* Time passes no heartbeat by that is sent or read at all.
Tick ==
  /\ clock < MaxTime
  /\ \A n \in Node : making[n] # None => clock < making[n].at + Collect
  /\ \A n \in Node : wire[n] # <<>> => clock < Head(wire[n]).at + MaxDelay
  /\ \A h \in handling : clock < h.beat.at + MaxDelay
  /\ clock' = clock + 1
  /\ UNCHANGED <<off, agentVars, hubVars, budget, ghosts>>

------------------------------------------------------------------------------
(* What the API answers                                                    *)

\* The stamps nodeMetrics asks for and shows: the last seconds up to now,
\* never the stamp of an empty slot.
Span(secs) == (Unix(Hub) - secs .. Unix(Hub)) \ {0}

\* Metrics.Range
RangeOf(n, secs) ==
  IF ring[n] = None THEN {}
  ELSE {s \in {ring[n].slots[i] : i \in 0 .. Slots - 1} : s.ts \in Span(secs)}

\* Metrics.Latest
Latest(n) == ring[n].slots[SlotOf(ring[n].last)]

\* LinkStatus of a link whose ends have acknowledged.
Active == rt # None /\ Unix(Hub) - rt.hs < HSWindow

Next ==
  \/ \E n \in Node : \/ Connect(n) \/ StartBeat(n) \/ SendBeat(n) \/ Reboot(n)
                     \/ HandleHeartbeat(n) \/ DeleteNode(n) \/ Drop(n)
  \/ \E h \in handling : Ingest(h)
  \/ \E m \in Machine : StepClock(m)
  \/ Handshake \/ HubRestart \/ Tick

Spec == Init /\ [][Next]_vars

------------------------------------------------------------------------------
(* Properties                                                              *)

\* Every variable has its type: in particular no rate is negative ("counter
\* reset yields a skipped point, not a negative spike", Ingest).
TypeOK ==
  /\ clock \in Nat
  /\ off \in [Machine -> Offset]
  /\ conn \in [Node -> Nat] /\ making \in [Node -> Beat \cup {None}]
  /\ wire \in [Node -> Seq(Beat)]
  /\ sys \in [Node -> Nat] /\ wg \in [Node -> Nat] /\ shook \in [Node -> Nat]
  /\ sysTold \in [Node -> Nat] /\ wgTold \in [Node -> Nat]
  /\ tunnel \in Nat \cup {None}
  /\ handling \subseteq [node : Node, conn : Nat, beat : Beat]
  /\ rt \in LinkRT \cup {None}
  /\ ring \in [Node -> NodeRing \cup {None}]
  /\ dropped \subseteq deleted /\ deleted \subseteq Node
  /\ budget \in [Event -> Nat] /\ blank \subseteq Node
  /\ \A n \in Node : \A t \in DOMAIN hist[n] : hist[n][t] \in Sample
  /\ said \in [Node -> Nat \cup {None}]

\* The panel's curve is the history: every point is the last sample of its
\* bucket, and no bucket within the ring's length of the newest stamp is
\* missing, although slots are reused, connections replaced and heartbeats
\* handled late or out of order (Ingest, Range). The summary is one of the
\* samples and never an empty slot (Latest).
RangeFaithful ==
  \A n \in Node : ring[n] # None =>
    LET newest == Max(DOMAIN hist[n] \cup {0}) IN
    /\ Latest(n) = hist[n][BucketOf(ring[n].last)]
    /\ \A secs \in 1 .. Ring :
         /\ \A s \in RangeOf(n, secs) : s.ts \in DOMAIN hist[n] /\ hist[n][s.ts] = s
         /\ \A t \in DOMAIN hist[n] \cap (Unix(Hub) - secs .. Unix(Hub)) :
              t > newest - Ring => hist[n][t] \in RangeOf(n, secs)

\* No rate of the curve is more than the machine carries, over reboots, lost
\* heartbeats and two connections of the node at once, but for the two errors of
\* measuring: the stamps are whole seconds, so that almost two can pass for one,
\* and the counters are read some time after the stamp (heartbeatLoop, Ingest).
\* A clock that is set between two stamps spoils the rate between them, and so
\* does a collector that fails: its zero is taken for a reset, and the next
\* report for the traffic of one period.
RateBounded ==
  \A n \in Node : \A t \in DOMAIN hist[n] :
    n \notin blank /\ hist[n][t].steady =>
      hist[n][t].bytes <= Speed * (Sec * (hist[n][t].secs + 1) + Collect)

\* The rate shown for a link is off by no more than a second's and a delay's
\* traffic, as long as it comes from two reports of the same end and the hub's
\* clock is not set between them (handleHeartbeat).
LinkRateBounded ==
  rt # None /\ rt.steady => rt.bytes <= Speed * (Sec * (rt.secs + 1) + MaxDelay)

\* A link shown as active had its handshake within the window, give or take what
\* the clocks may be off, and one that either end reports as recent is shown as
\* active, whatever the other end reported since (LinkStatus).
ActiveIsRecent ==
  /\ Active => tunnel # None /\ clock - tunnel < Sec * HSWindow + Ahead + Behind
  /\ \A n \in End : said[n] # None /\ Unix(Hub) - said[n] < HSWindow => Active
==============================================================================
