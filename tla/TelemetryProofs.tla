--------------------------- MODULE TelemetryProofs ---------------------------
(* Proofs about Telemetry: what the hub shows of a machine and of a link,    *)
(* whatever heartbeats are late, lost, overtaken or sent after a reboot, and *)
(* whatever the clocks are set to.                                           *)
EXTENDS Telemetry, FiniteSetTheorems, TLAPS

------------------------------------------------------------------------------
(* The inductive invariant                                                  *)

\* The heartbeats an agent has stamped and the hub has not read: the ones on
\* the wire, and the one that is still collected.
Out(n) == IF making[n] = None THEN wire[n] ELSE Append(wire[n], making[n])

\* A stamp of a handshake is not newer than the last one, by more than a clock's
\* error.
Shaken(s) == s = 0 \/ (tunnel # None /\ Sec * s <= tunnel + Ahead)

\* A stamp is what a clock showed that was off by off at that time.
Stamped(ts, at, o) == o \in Offset /\ Start <= at /\ ts = (at + o) \div Sec

\* A heartbeat that is under way: stamped with the agent's clock, not too old.
Fresh(n, b) ==
  /\ Stamped(b.ts, b.at, b.off) /\ b.at <= wgTold[n] /\ clock <= b.at + MaxDelay
  /\ Shaken(b.hs)

\* Heartbeats are in order and none is older than MaxDelay.
Timing ==
  /\ Start <= clock
  /\ tunnel # None => tunnel <= clock
  /\ \A n \in Node :
       /\ sysTold[n] <= clock /\ wgTold[n] <= clock /\ Shaken(shook[n])
       /\ making[n] # None => clock <= making[n].at + Collect
       /\ \A i \in 1 .. Len(Out(n)) : Fresh(n, Out(n)[i])
       /\ \A i, j \in 1 .. Len(Out(n)) : i < j => Out(n)[i].at <= Out(n)[j].at
  /\ \A h \in handling : Fresh(h.node, h.beat)

\* What the machine has reported of its counter and the hub may still use:
\* heartbeats sent, and the one that was ingested last.
Reports(n) ==
  {[at |-> wire[n][i].at, sys |-> wire[n][i].sys] : i \in 1 .. Len(wire[n])}
  \cup {[at |-> h.beat.at, sys |-> h.beat.sys] : h \in {g \in handling : g.node = n}}
  \cup {[at |-> r.at, sys |-> r.prev] : r \in {ring[n]} \ {None}}

\* Between two reports, and since any report, no counter grew faster than it
\* can: it is read within Collect of the stamp, and before the next stamp.
Slow(n) ==
  /\ \A a, b \in Reports(n) : a.at > b.at => a.sys - b.sys <= Speed * (a.at + Collect - b.at)
  /\ \A a \in Reports(n) :
       /\ a.at <= sysTold[n] /\ sys[n] - a.sys <= Speed * (sysTold[n] - a.at)
       /\ making[n] # None => a.at <= making[n].at

\* RateBounded for one node.
Bounded(n) ==
  \A t \in DOMAIN hist[n] :
    hist[n][t].steady => hist[n][t].bytes <= Speed * (Sec * (hist[n][t].secs + 1) + Collect)

Counters == \A n \in Node \ blank : Slow(n) /\ Bounded(n)

\* What a ring remembers of the stamp it was given last.
Kept == \A n \in Node : ring[n] # None => Stamped(ring[n].last, ring[n].at, ring[n].off)

\* The peer's counter was v at time t or later: what n reports from now on has
\* grown from there.
From(n, v, t) ==
  /\ t <= wgTold[n] /\ wg[n] - v <= Speed * (wgTold[n] - t)
  /\ \A i \in 1 .. Len(Out(n)) :
       Out(n)[i].wg # None => Out(n)[i].wg - v <= Speed * (Out(n)[i].at - t)

\* Between the reports of a connection, and since, the counter grew no faster.
Grows(n) ==
  /\ \A i, j \in 1 .. Len(Out(n)) :
       Out(n)[i].wg # None /\ Out(n)[j].wg # None /\ i < j =>
         Out(n)[j].wg - Out(n)[i].wg <= Speed * (Out(n)[j].at - Out(n)[i].at)
  /\ \A i \in 1 .. Len(Out(n)) :
       Out(n)[i].wg # None => wg[n] - Out(n)[i].wg <= Speed * (wgTold[n] - Out(n)[i].at)

\* The counter v was reported for time t, and handled at time c, no later than a
\* delay after t, when a clock that was off by o showed at.
Handled(n, v, at, o, t, c) ==
  From(n, v, t) /\ c <= t + MaxDelay /\ c <= clock /\ Stamped(at, c, o)

\* What the link's rate is made of: a report of the end that reported last, and
\* the time at which the hub handled it.
LinkInv ==
  /\ \A n \in Node : Grows(n)
  /\ rt # None =>
       /\ rt.steady => rt.bytes <= Speed * (Sec * (rt.secs + 1) + MaxDelay)
       /\ rt.by \in Node
       /\ \E t, c \in Nat : Handled(rt.by, rt.prev, rt.at, rt.off, t, c)

\* The stamp that is kept is of a real handshake, and of the newest one reported.
Shakes ==
  /\ rt # None => Shaken(rt.hs)
  /\ \A n \in Node : said[n] # None => rt # None /\ said[n] <= rt.hs

\* A slot holds the last sample of a bucket that falls into it, and of a bucket
\* that is not a whole ring behind another.
CurveOf(n) ==
  /\ ring[n] = None => DOMAIN hist[n] = {}
  /\ \A t \in DOMAIN hist[n] : /\ t \in Nat /\ t % Step = 0 /\ 0 < t /\ Sec * t <= clock + Ahead
                               /\ hist[n][t].ts = t
  /\ \E t \in DOMAIN hist[n] \cup {0} : \A u \in DOMAIN hist[n] \cup {0} : t >= u
  /\ ring[n] # None =>
       /\ BucketOf(ring[n].last) \in DOMAIN hist[n]
       /\ Latest(n) = hist[n][BucketOf(ring[n].last)]
       /\ \A i \in 0 .. Slots - 1 :
            LET s == ring[n].slots[i] IN
            s.ts # 0 => s.ts \in DOMAIN hist[n] /\ hist[n][s.ts] = s /\ SlotOf(s.ts) = i
       /\ \A t \in DOMAIN hist[n] :
            (\A u \in DOMAIN hist[n] : t > u - Ring) => ring[n].slots[SlotOf(t)] = hist[n][t]

Curve == \A n \in Node : CurveOf(n)

\* There is a history of every node.
Histories == hist = [n \in Node |-> hist[n]]

Inv == TypeOK /\ Histories /\ Timing /\ Counters /\ Kept /\ LinkInv /\ Shakes /\ Curve

------------------------------------------------------------------------------
(* Arithmetic                                                               *)

\* The constants are positive.
LEMMA Positive ==
  /\ Step \in Nat /\ Step > 0 /\ Slots \in Nat /\ Slots > 0 /\ Speed \in Nat /\ Speed > 0
  /\ Sec \in Nat /\ Sec > 0 /\ HSWindow \in Nat /\ HSWindow > 0
  /\ MaxDelay \in Nat /\ Collect \in Nat /\ Collect <= MaxDelay
  /\ Ahead \in Nat /\ Behind \in Nat /\ Start \in Nat
  /\ End \subseteq Node /\ None \notin Int /\ Hub \in Machine /\ Node \subseteq Machine
BY RingAssumption, DelayAssumption, ClockAssumption, StartAssumption, EndAssumption,
   NoneAssumption DEF Machine

\* A product grows with its factor.
LEMMA Product ==
  ASSUME NEW k \in Nat, NEW a \in Int, NEW b \in Int
  PROVE  /\ a <= b => k * a <= k * b
         /\ k * (a + b) = k * a + k * b
         /\ k * (b - a) = k * b - k * a
<1>1. k * (b - a) = k * b - k * a /\ k * (a + b) = k * a + k * b
  BY SMTT(30)
<1>2. a <= b => k * (b - a) >= 0
  BY SMTT(30)
<1>3. k * a \in Int /\ k * b \in Int /\ k * (b - a) \in Int
  OBVIOUS
<1> QED
  BY <1>1, <1>2, <1>3

\* Division with a remainder.
LEMMA Division ==
  ASSUME NEW a \in Nat, NEW k \in Nat, k > 0
  PROVE  /\ a \div k \in Nat /\ a % k \in 0 .. k - 1
         /\ a = k * (a \div k) + (a % k)
         /\ \A q \in Nat, r \in 0 .. k - 1 : a = k * q + r => q = a \div k /\ r = a % k
<1>1. a \div k \in Nat /\ a % k \in 0 .. k - 1 /\ a = k * (a \div k) + (a % k)
  BY SMTT(30)
<1>2. ASSUME NEW q \in Nat, NEW r \in 0 .. k - 1, a = k * q + r
      PROVE  q = a \div k /\ r = a % k
  <2> DEFINE p == a \div k
  <2>1. p \in Nat /\ k * p \in Nat /\ k * q \in Nat /\ a % k \in 0 .. k - 1 /\ a = k * p + (a % k)
    BY <1>1
  <2> HIDE DEF p
  <2>2. ~(p + 1 <= q)
    <3>1. p + 1 <= q => k * (p + 1) <= k * q
      BY <2>1, Product
    <3>2. k * (p + 1) = k * p + k
      BY <2>1, Product
    <3> QED
      BY <1>2, <2>1, <3>1, <3>2
  <2>3. ~(q + 1 <= p)
    <3>1. q + 1 <= p => k * (q + 1) <= k * p
      BY <2>1, Product
    <3>2. k * (q + 1) = k * q + k
      BY <2>1, Product
    <3> QED
      BY <1>2, <2>1, <3>1, <3>2, SMTT(30)
  <2>4. p = q
    BY <2>1, <2>2, <2>3
  <2> QED
    BY <1>2, <2>1, <2>4 DEF p
<1> QED
  BY <1>1, <1>2

\* The bucket of a stamp starts at most a step before it, and falls into its slot.
LEMMA Buckets ==
  ASSUME NEW t \in Nat
  PROVE  /\ BucketOf(t) \in Nat /\ BucketOf(t) % Step = 0
         /\ BucketOf(t) <= t /\ t < BucketOf(t) + Step
         /\ SlotOf(t) \in 0 .. Slots - 1 /\ SlotOf(BucketOf(t)) = SlotOf(t)
<1> DEFINE q == t \div Step
           r == t % Step
<1>1. q \in Nat /\ r \in 0 .. Step - 1 /\ t = Step * q + r /\ Step * q \in Nat
  BY Positive, Division
<1>2. BucketOf(t) = Step * q + 0
  BY <1>1, Positive DEF BucketOf
<1> HIDE DEF q, r
<1>3. 0 \in 0 .. Step - 1 /\ Step * q + 0 \in Nat
  BY <1>1, Positive
<1>4. q = BucketOf(t) \div Step /\ 0 = BucketOf(t) % Step
  BY <1>1, <1>2, <1>3, Positive, Division
<1>5. SlotOf(t) = q % Slots /\ SlotOf(BucketOf(t)) = q % Slots
  BY <1>4 DEF SlotOf, q
<1>6. q % Slots \in 0 .. Slots - 1
  BY <1>1, Positive, Division
<1> QED
  BY <1>1, <1>2, <1>3, <1>4, <1>5, <1>6, Positive

\* Two buckets within the ring's length have different slots.
LEMMA SlotsDiffer ==
  ASSUME NEW t \in Nat, NEW u \in Nat, t % Step = 0, u % Step = 0, t < u, u < t + Ring
  PROVE  SlotOf(t) # SlotOf(u)
<1> DEFINE p == t \div Step
           q == u \div Step
           a == p \div Slots
           b == q \div Slots
<1>1. p \in Nat /\ q \in Nat /\ t = Step * p /\ u = Step * q
  BY Positive, Division
<1>2. a \in Nat /\ b \in Nat /\ p = Slots * a + (p % Slots) /\ q = Slots * b + (q % Slots)
        /\ p % Slots \in 0 .. Slots - 1 /\ q % Slots \in 0 .. Slots - 1
  BY <1>1, Positive, Division
<1> SUFFICES ASSUME p % Slots = q % Slots PROVE FALSE
  BY DEF SlotOf
<1> HIDE DEF a, b, p, q
<1>3. p < q
  <2>1. q <= p => Step * q <= Step * p
    BY <1>1, Positive, Product
  <2> QED
    BY <1>1, <2>1
<1>4. q < p + Slots
  <2>1. p + Slots <= q => Step * (p + Slots) <= Step * q
    BY <1>1, Positive, Product
  <2>2. Step * (p + Slots) = Step * p + Step * Slots
    BY <1>1, Positive, Product
  <2>3. Step * p \in Nat /\ Step * Slots \in Nat /\ Step * q \in Nat /\ Ring = Step * Slots
    BY <1>1, Positive DEF Ring
  <2> QED
    BY <1>1, <2>1, <2>2, <2>3, Positive
<1>5. b <= a => Slots * b <= Slots * a
  BY <1>2, Positive, Product
<1>6. a + 1 <= b => Slots * (a + 1) <= Slots * b
  BY <1>2, Positive, Product
<1>7. Slots * (a + 1) = Slots * a + Slots /\ Slots * a \in Nat /\ Slots * b \in Nat
  BY <1>2, Positive, Product
<1> QED
  BY <1>1, <1>2, <1>3, <1>4, <1>5, <1>6, <1>7, Positive

\* What a clock shows, in whole seconds, of a time that is not too early.
LEMMA Seconds ==
  ASSUME NEW x \in Int, NEW o \in Offset, Start <= x, NEW u, u = (x + o) \div Sec
  PROVE  /\ u \in Nat /\ o \in Int /\ x + o \in Nat
         /\ x - Behind <= x + o /\ x + o <= x + Ahead
         /\ Sec * u \in Nat /\ Sec * (u + 1) = Sec * u + Sec
         /\ Sec * u <= x + o /\ x + o < Sec * (u + 1)
         /\ Step <= u /\ HSWindow <= u
<1>1. o \in Int /\ -Behind <= o /\ o <= Ahead
  BY Positive DEF Offset
<1>2. /\ Sec * Step \in Nat /\ Sec * HSWindow \in Nat /\ Start \in Nat /\ Behind \in Nat
      /\ Start >= Behind + Sec * Step /\ Start >= Behind + Sec * HSWindow
  BY Positive, StartAssumption
<1>3. PICK y : y = x + o
  OBVIOUS
<1>4. y \in Nat /\ Sec * Step <= y /\ Sec * HSWindow <= y
  BY <1>1, <1>2, <1>3
<1>5. u \in Nat /\ y % Sec \in 0 .. Sec - 1 /\ y = Sec * u + (y % Sec)
  <2>1. u = y \div Sec
    BY <1>3
  <2>2. y \in Nat /\ Sec \in Nat /\ Sec > 0
    BY <1>4, Positive
  <2> QED
    BY <2>1, <2>2, Division
<1>6. Sec * (u + 1) = Sec * u + Sec /\ Sec * u \in Nat /\ u \in Int
  <2>1. u \in Int /\ u \in Nat
    BY <1>5
  <2>2. Sec * u \in Nat
    BY <2>1, Positive
  <2>3. Sec * (u + 1) = Sec * u + Sec * 1
    BY <2>1, Positive, Product
  <2> QED
    BY <2>1, <2>2, <2>3, Positive
<1>7. Sec * u <= y /\ y < Sec * (u + 1)
  BY <1>4, <1>5, <1>6, Positive
<1>8. ASSUME NEW w \in Nat, Sec * w <= y PROVE w <= u
  <2>1. u + 1 <= w => Sec * (u + 1) <= Sec * w
    BY <1>5, Positive, Product
  <2>2. Sec * (u + 1) \in Nat /\ Sec * w \in Nat
    BY <1>5, Positive
  <2>3. ~(u + 1 <= w)
    BY <1>4, <1>7, <1>8, <2>1, <2>2
  <2> QED
    BY <1>5, <2>3
<1>9. Step <= u /\ HSWindow <= u
  BY <1>4, <1>8, Positive
<1>10. x - Behind <= x + o /\ x + o <= x + Ahead
  BY <1>1, Positive
<1> QED
  BY <1>1, <1>3, <1>4, <1>5, <1>6, <1>7, <1>9, <1>10

\* Two times that a clock showed, not set in between, as different seconds.
LEMMA Apart ==
  ASSUME NEW x \in Int, NEW y \in Int, NEW u \in Nat, NEW v \in Nat, NEW o \in Offset,
         Stamped(u, x, o), Stamped(v, y, o), u < v
  PROVE  x < y /\ y - x < Sec * (v - u + 1)
<1>1. /\ o \in Int /\ Sec * u \in Nat /\ Sec * (u + 1) = Sec * u + Sec /\ Sec * u <= x + o
      /\ x + o < Sec * (u + 1)
  BY Seconds DEF Stamped
<1>2. Sec * v \in Nat /\ Sec * v <= y + o /\ y + o < Sec * (v + 1) /\ Sec * (v + 1) = Sec * v + Sec
  BY Seconds DEF Stamped
<1>3. u + 1 <= v => Sec * (u + 1) <= Sec * v
  BY Positive, Product
<1>4. Sec * ((v + 1) - u) = Sec * (v + 1) - Sec * u /\ (v + 1) - u = v - u + 1
  BY Positive, Product
<1> QED
  BY <1>1, <1>2, <1>3, <1>4, Positive

\* A counter that grows no faster than Speed does so over a longer time, and
\* over two times one after the other.
LEMMA Growth ==
  ASSUME NEW x \in Int, NEW y \in Int, NEW s \in Int, NEW t \in Int
  PROVE  /\ x <= Speed * s /\ s <= t => x <= Speed * t
         /\ x <= Speed * s /\ y <= Speed * t => x + y <= Speed * (s + t)
         /\ 0 <= t => 0 <= Speed * t
         /\ Speed * s \in Int /\ Speed * t \in Int
<1>1. /\ s <= t => Speed * s <= Speed * t
      /\ Speed * (s + t) = Speed * s + Speed * t
      /\ 0 <= t => Speed * 0 <= Speed * t
      /\ Speed \in Nat /\ Speed * 0 = 0
  BY Positive, Product
<1>2. Speed * s \in Int /\ Speed * t \in Int
  BY <1>1
<1> QED
  BY <1>1, <1>2

\* The clock of a machine shows a second.
LEMMA UnixIs ==
  ASSUME TypeOK, Timing, NEW m \in Machine
  PROVE  Unix(m) \in Nat /\ off[m] \in Offset /\ off[m] \in Int /\ Stamped(Unix(m), clock, off[m])
<1>1. clock \in Int /\ off[m] \in Offset /\ Start <= clock
  BY DEF TypeOK, Timing
<1> QED
  BY <1>1, Seconds DEF Unix, Stamped

\* What is under way is on the wire, but for the last one if it is still collected.
LEMMA OutIs ==
  ASSUME TypeOK, NEW n \in Node
  PROVE  /\ wire[n] \in Seq(Beat) /\ Len(wire[n]) \in Nat
         /\ Out(n) \in Seq(Beat) /\ Len(Out(n)) \in Nat
         /\ \A i \in 1 .. Len(wire[n]) : i \in 1 .. Len(Out(n)) /\ Out(n)[i] = wire[n][i]
         /\ making[n] = None => Out(n) = wire[n]
         /\ making[n] # None => /\ making[n] \in Beat
                                /\ Len(Out(n)) = Len(wire[n]) + 1
                                /\ Out(n)[Len(wire[n]) + 1] = making[n]
<1>1. wire[n] \in Seq(Beat) /\ Len(wire[n]) \in Nat /\ making[n] \in Beat \cup {None}
  BY DEF TypeOK
<1>2. CASE making[n] = None
  BY <1>1, <1>2 DEF Out
<1>3. CASE making[n] # None
  <2>1. making[n] \in Beat /\ Out(n) = Append(wire[n], making[n])
    BY <1>1, <1>3 DEF Out
  <2> QED
    BY <1>1, <1>3, <2>1
<1> QED
  BY <1>1, <1>2, <1>3

------------------------------------------------------------------------------
(* What agents do                                                           *)

\* Budgets are spent.
LEMMA SpendOk ==
  ASSUME TypeOK, NEW e \in Event, Spend(e)
  PROVE  budget' \in [Event -> Nat]
<1>1. budget \in [Event -> Nat] /\ budget[e] - 1 \in Nat
  BY DEF TypeOK, Spend
<1> QED
  BY <1>1 DEF Spend

\* A counter that is read has grown by what the machine can carry.
LEMMA GrownIs ==
  ASSUME NEW count \in Nat, NEW since \in Nat, clock \in Nat, since <= clock,
         NEW g \in Grown(count, since)
  PROVE  g \in Nat /\ count <= g /\ g - count <= Speed * (clock - since)
<1>1. PICK d : d = clock - since
  OBVIOUS
<1>2. d \in Nat /\ Speed * d \in Nat
  <2>1. d \in Nat
    BY <1>1
  <2> QED
    BY <2>1, Positive
<1>3. g = count \/ g = count + Speed * d
  BY <1>1 DEF Grown
<1>4. g \in Nat /\ count <= g /\ g - count <= Speed * d
  BY <1>2, <1>3
<1> QED
  BY <1>1, <1>4

\* A heartbeat b is stamped; the peer's counter is g.
Started(n, g, b) ==
  /\ making[n] = None
  /\ g - wg[n] <= Speed * (clock - wgTold[n])
  /\ wg' = [wg EXCEPT ![n] = g] /\ wgTold' = [wgTold EXCEPT ![n] = clock]
  /\ making' = [making EXCEPT ![n] = b]
  /\ Stamped(b.ts, b.at, b.off) /\ b.at = clock
  /\ b.wg = g \/ b.wg = None
  /\ b.hs = shook[n]

\* StartBeat stamps a heartbeat with the agent's clock, and reads the peer's
\* counter unless the device cannot be read.
LEMMA Starts ==
  ASSUME TypeOK, Timing, NEW n \in Node, StartBeat(n)
  PROVE  /\ \E g \in Nat, b \in Beat : Started(n, g, b)
         /\ UNCHANGED <<clockVars, conn, wire, sys, sysTold, shook, hubVars, ghosts>>
         /\ budget' \in [Event -> Nat]
<1>1. /\ clock \in Nat /\ wgTold[n] \in Nat /\ wgTold[n] <= clock /\ wg \in [Node -> Nat]
      /\ wg[n] \in Nat /\ shook[n] \in Nat /\ budget \in [Event -> Nat] /\ n \in Machine
  BY Positive DEF TypeOK, Timing
<1>2. PICK g \in Grown(wg[n], wgTold[n]) : wg' = [wg EXCEPT ![n] = g]
  BY DEF StartBeat
<1>3. g \in Nat /\ g - wg[n] <= Speed * (clock - wgTold[n]) /\ wg'[n] = g
  BY <1>1, <1>2, GrownIs
<1>4. PICK fails \in {0, 1} :
        /\ fails <= budget["fail"]
        /\ budget' = [budget EXCEPT !["beat"] = @ - 1, !["fail"] = @ - fails]
        /\ making' = [making EXCEPT ![n] =
             [ts |-> Unix(n), at |-> clock, off |-> off[n], sys |-> 0,
              wg |-> IF fails = 1 THEN None ELSE wg'[n], hs |-> shook[n]]]
  BY DEF StartBeat
<1>5. PICK b : b = [ts |-> Unix(n), at |-> clock, off |-> off[n], sys |-> 0,
                    wg |-> IF fails = 1 THEN None ELSE wg'[n], hs |-> shook[n]]
  OBVIOUS
<1>6. Unix(n) \in Nat /\ off[n] \in Int /\ Stamped(Unix(n), clock, off[n])
  BY <1>1, UnixIs
<1>7. /\ b.ts = Unix(n) /\ b.at = clock /\ b.off = off[n] /\ b.hs = shook[n]
      /\ b.wg = g \/ b.wg = None
      /\ b \in Beat
  BY <1>1, <1>3, <1>5, <1>6 DEF Beat
<1>8. /\ making[n] = None /\ wgTold' = [wgTold EXCEPT ![n] = clock] /\ budget["beat"] > 0
      /\ UNCHANGED <<clockVars, conn, wire, sys, sysTold, shook, hubVars, ghosts>>
  BY DEF StartBeat
<1>9. making' = [making EXCEPT ![n] = b]
  BY <1>4, <1>5
<1>10. Started(n, g, b)
  BY <1>2, <1>3, <1>6, <1>7, <1>8, <1>9 DEF Started
<1>11. budget' \in [Event -> Nat]
  <2>1. budget["beat"] - 1 \in Nat /\ budget["fail"] - fails \in Nat
    BY <1>1, <1>4, <1>8 DEF Event
  <2> QED
    BY <1>1, <1>4, <2>1 DEF Event
<1> QED
  BY <1>3, <1>7, <1>8, <1>10, <1>11

\* Two heartbeats that differ at most in the counter that is collected last.
Same(a, b) == /\ a.ts = b.ts /\ a.at = b.at /\ a.off = b.off /\ a.wg = b.wg /\ a.hs = b.hs

\* The heartbeat b is sent; the machine's counter is g.
Sent(n, g, b) ==
  /\ making[n] # None
  /\ g - sys[n] <= Speed * (clock - sysTold[n])
  /\ sys' = [sys EXCEPT ![n] = g] /\ sysTold' = [sysTold EXCEPT ![n] = clock]
  /\ making' = [making EXCEPT ![n] = None]
  /\ wire' = [wire EXCEPT ![n] = Append(wire[n], b)]
  /\ Same(b, making[n])
  /\ b.sys = g \/ n \in blank'
  /\ blank \subseteq blank' /\ blank' \subseteq blank \cup {n}

\* SendBeat puts the stamped heartbeat on the wire, with the machine's counter
\* as it is now unless its collector fails.
LEMMA Sends ==
  ASSUME TypeOK, Timing, NEW n \in Node, SendBeat(n)
  PROVE  /\ \E g \in Nat, b \in Beat : Sent(n, g, b)
         /\ UNCHANGED <<clockVars, conn, wg, wgTold, shook, hubVars, tunnel, hist, said>>
         /\ budget' \in [Event -> Nat]
<1>1. /\ clock \in Nat /\ sysTold[n] \in Nat /\ sysTold[n] <= clock /\ sys \in [Node -> Nat]
      /\ sys[n] \in Nat /\ making[n] # None /\ making[n] \in Beat
  BY DEF TypeOK, Timing, SendBeat
<1>2. PICK g \in Grown(sys[n], sysTold[n]) : sys' = [sys EXCEPT ![n] = g]
  BY DEF SendBeat
<1>3. g \in Nat /\ g - sys[n] <= Speed * (clock - sysTold[n]) /\ sys'[n] = g
  BY <1>1, <1>2, GrownIs
<1>4. /\ sysTold' = [sysTold EXCEPT ![n] = clock]
      /\ making' = [making EXCEPT ![n] = None]
      /\ UNCHANGED <<clockVars, conn, wg, wgTold, shook, hubVars, tunnel, hist, said>>
  BY DEF SendBeat
<1>5. PICK m : m = making[n]
  OBVIOUS
<1>6. PICK a : a = [m EXCEPT !.sys = g]
  OBVIOUS
<1>7. /\ m \in Beat /\ a \in Beat /\ a.sys = g /\ Same(a, m) /\ Same(m, m)
  <2>1. m \in Beat
    BY <1>1, <1>5
  <2>2. a \in Beat
    BY <1>3, <1>6, <2>1 DEF Beat
  <2>3. a.sys = g /\ Same(a, m)
    BY <1>6, <2>1 DEF Beat, Same
  <2> QED
    BY <2>1, <2>2, <2>3 DEF Same
<1>8. \/ /\ wire' = [wire EXCEPT ![n] = Append(wire[n], [making[n] EXCEPT !.sys = sys'[n]])]
         /\ UNCHANGED <<budget, blank>>
      \/ /\ Spend("fail") /\ blank' = blank \cup {n}
         /\ wire' = [wire EXCEPT ![n] = Append(wire[n], making[n])]
  BY Zenon DEF SendBeat
<1>9. CASE /\ wire' = [wire EXCEPT ![n] = Append(wire[n], [making[n] EXCEPT !.sys = sys'[n]])]
           /\ UNCHANGED <<budget, blank>>
  <2>1. wire' = [wire EXCEPT ![n] = Append(wire[n], a)]
    BY <1>3, <1>5, <1>6, <1>9
  <2>2. Sent(n, g, a)
    BY <1>1, <1>2, <1>3, <1>4, <1>5, <1>7, <1>9, <2>1 DEF Sent
  <2>3. budget' \in [Event -> Nat]
    BY <1>9 DEF TypeOK
  <2> QED
    BY <1>3, <1>4, <1>7, <2>2, <2>3
<1>10. CASE /\ Spend("fail") /\ blank' = blank \cup {n}
            /\ wire' = [wire EXCEPT ![n] = Append(wire[n], making[n])]
  <2>1. wire' = [wire EXCEPT ![n] = Append(wire[n], m)] /\ n \in blank'
    BY <1>5, <1>10
  <2>2. Sent(n, g, m)
    BY <1>1, <1>2, <1>3, <1>4, <1>5, <1>7, <1>10, <2>1 DEF Sent
  <2>3. budget' \in [Event -> Nat]
    BY <1>10, SpendOk DEF Event
  <2> QED
    BY <1>3, <1>4, <1>7, <2>2, <2>3
<1> QED
  BY <1>8, <1>9, <1>10

------------------------------------------------------------------------------
(* Types                                                                    *)

\* A heartbeat makes of a runtime another one: no rate is negative.
LEMMA UpdatedIs ==
  ASSUME TypeOK, Timing, NEW n \in Node, NEW b \in Beat, b.wg # None, NEW r \in LinkRT, NEW new,
         new = Updated(r, n, b)
  PROVE  /\ new \in LinkRT
         /\ new.by = n /\ new.prev = b.wg /\ new.at = Unix(Hub) /\ new.off = off[Hub]
         /\ new.hs \in {r.hs, b.hs} /\ new.hs >= r.hs /\ new.hs >= b.hs
         /\ \/ new.bytes = r.bytes /\ new.secs = r.secs /\ new.steady = r.steady
            \/ /\ Comparable(r, b) /\ new.bytes = b.wg - r.prev /\ new.secs = Unix(Hub) - r.at
               /\ new.steady = (r.by = n /\ r.off = off[Hub])
<1>1. b.wg \in Nat /\ b.hs \in Nat
  BY DEF Beat
<1>2. /\ r.hs \in Nat /\ r.bytes \in Nat /\ r.secs \in Nat /\ r.prev \in Nat /\ r.at \in Nat
      /\ r.steady \in BOOLEAN
  BY DEF LinkRT
<1>3. PICK u, o : u = Unix(Hub) /\ o = off[Hub]
  OBVIOUS
<1>4. u \in Nat /\ o \in Int
  BY <1>3, UnixIs, Positive
<1>5. PICK hs : hs = NewestHS(r, b)
  OBVIOUS
<1>6. hs \in Nat /\ hs \in {r.hs, b.hs} /\ hs >= r.hs /\ hs >= b.hs
  BY <1>1, <1>2, <1>5 DEF NewestHS
<1>7. CASE Comparable(r, b)
  <2>1. PICK d, s, t : d = b.wg - r.prev /\ s = u - r.at /\ t = (r.by = n /\ r.off = o)
    OBVIOUS
  <2>2. d \in Nat /\ s \in Nat /\ t \in BOOLEAN
    BY <1>1, <1>2, <1>3, <1>4, <1>7, <2>1 DEF Comparable
  <2>3. new = [hs |-> hs, bytes |-> d, secs |-> s, steady |-> t, prev |-> b.wg, at |-> u,
               by |-> n, off |-> o]
    BY <1>3, <1>5, <1>7, <2>1 DEF Updated, Base
  <2>4. /\ new \in LinkRT /\ new.by = n /\ new.prev = b.wg /\ new.at = u /\ new.off = o
        /\ new.hs = hs /\ new.bytes = d /\ new.secs = s /\ new.steady = t
    BY <1>1, <1>4, <1>6, <2>2, <2>3 DEF LinkRT
  <2> QED
    BY <1>3, <1>6, <1>7, <2>1, <2>4
<1>8. CASE ~Comparable(r, b)
  <2>1. new = [hs |-> hs, bytes |-> r.bytes, secs |-> r.secs, steady |-> r.steady,
               prev |-> b.wg, at |-> u, by |-> n, off |-> o]
    BY <1>3, <1>5, <1>8 DEF Updated, Base
  <2>2. /\ new \in LinkRT /\ new.by = n /\ new.prev = b.wg /\ new.at = u /\ new.off = o
        /\ new.hs = hs /\ new.bytes = r.bytes /\ new.secs = r.secs /\ new.steady = r.steady
    BY <1>1, <1>2, <1>4, <1>6, <2>1 DEF LinkRT
  <2> QED
    BY <1>3, <1>6, <2>2
<1> QED
  BY <1>7, <1>8

\* The heartbeat that handleHeartbeat takes, and what is left of the wire.
LEMMA Taken ==
  ASSUME TypeOK, NEW n \in Node, HandleHeartbeat(n)
  PROVE  /\ 1 \in 1 .. Len(wire[n]) /\ Head(wire[n]) \in Beat /\ Head(wire[n]) = wire[n][1]
         /\ wire' = [wire EXCEPT ![n] = Tail(wire[n])] /\ Tail(wire[n]) \in Seq(Beat)
         /\ \A i \in 1 .. Len(Tail(wire[n])) :
              i + 1 \in 1 .. Len(wire[n]) /\ Tail(wire[n])[i] = wire[n][i + 1]
         /\ Len(Tail(wire[n])) = Len(wire[n]) - 1
         /\ handling' = handling \cup {[node |-> n, conn |-> conn[n], beat |-> Head(wire[n])]}
         /\ \/ rt' = rt /\ said' = said
            \/ /\ n \in End /\ Head(wire[n]).wg # None
               /\ rt' = Updated(IF rt = None THEN NewRT ELSE rt, n, Head(wire[n]))
               /\ said' = [said EXCEPT ![n] = Head(wire[n]).hs]
         /\ UNCHANGED <<clockVars, conn, making, countVars, ring, deleted, dropped, budget, tunnel,
                        blank, hist>>
<1>1. /\ wire[n] \in Seq(Beat) /\ wire[n] # <<>>
      /\ wire' = [wire EXCEPT ![n] = Tail(wire[n])]
      /\ handling' = handling \cup {[node |-> n, conn |-> conn[n], beat |-> Head(wire[n])]}
      /\ UNCHANGED <<clockVars, conn, making, countVars, ring, deleted, dropped, budget, tunnel,
                     blank, hist>>
  BY DEF TypeOK, HandleHeartbeat
<1>2. /\ 1 \in 1 .. Len(wire[n]) /\ Head(wire[n]) \in Beat /\ Head(wire[n]) = wire[n][1]
      /\ Tail(wire[n]) \in Seq(Beat) /\ Len(Tail(wire[n])) = Len(wire[n]) - 1
      /\ \A i \in 1 .. Len(Tail(wire[n])) :
           i + 1 \in 1 .. Len(wire[n]) /\ Tail(wire[n])[i] = wire[n][i + 1]
  BY <1>1
<1>3. PICK b : b = Head(wire[n])
  OBVIOUS
<1>4. IF n \in End /\ End \cap deleted = {} /\ b.wg # None
        THEN /\ rt' = Updated(IF rt = None THEN NewRT ELSE rt, n, b)
             /\ said' = [said EXCEPT ![n] = b.hs]
        ELSE UNCHANGED <<rt, said>>
  BY <1>3, Zenon DEF HandleHeartbeat
<1>5. \/ rt' = rt /\ said' = said
      \/ /\ n \in End /\ b.wg # None
         /\ rt' = Updated(IF rt = None THEN NewRT ELSE rt, n, b)
         /\ said' = [said EXCEPT ![n] = b.hs]
  BY <1>4
<1> QED
  BY <1>1, <1>2, <1>3, <1>5, Zenon

\* The runtime that a heartbeat finds, or the one it starts.
LEMMA RuntimeIs ==
  ASSUME TypeOK, NEW r, r = (IF rt = None THEN NewRT ELSE rt)
  PROVE  r \in LinkRT
<1>1. NewRT \in LinkRT
  BY DEF NewRT, LinkRT
<1> QED
  BY <1>1 DEF TypeOK

\* Handling a heartbeat gives the link a runtime of its type.
LEMMA HandleTypes ==
  ASSUME TypeOK, Timing, NEW n \in Node, HandleHeartbeat(n)
  PROVE  /\ rt' \in LinkRT \cup {None} /\ said' \in [Node -> Nat \cup {None}]
         /\ wire' \in [Node -> Seq(Beat)]
         /\ handling' \subseteq [node : Node, conn : Nat, beat : Beat]
<1>1. PICK b : b = Head(wire[n])
  OBVIOUS
<1>2. b \in Beat /\ b.hs \in Nat
  BY <1>1, Taken DEF Beat
<1>3. rt' \in LinkRT \cup {None} /\ said' \in [Node -> Nat \cup {None}]
  <2>1. CASE rt' = rt /\ said' = said
    BY <2>1 DEF TypeOK
  <2>2. CASE /\ b.wg # None
             /\ rt' = Updated(IF rt = None THEN NewRT ELSE rt, n, b)
             /\ said' = [said EXCEPT ![n] = b.hs]
    <3>1. PICK r : r = (IF rt = None THEN NewRT ELSE rt)
      OBVIOUS
    <3>2. r \in LinkRT
      BY <3>1, RuntimeIs
    <3>3. rt' \in LinkRT
      BY <1>2, <2>2, <3>1, <3>2, UpdatedIs
    <3> QED
      BY <1>2, <2>2, <3>3 DEF TypeOK
  <2> QED
    BY <1>1, <2>1, <2>2, Taken
<1>4. wire' \in [Node -> Seq(Beat)]
  BY Taken DEF TypeOK
<1>5. handling' \subseteq [node : Node, conn : Nat, beat : Beat]
  <2>1. conn[n] \in Nat /\ handling' = handling \cup {[node |-> n, conn |-> conn[n], beat |-> b]}
    BY <1>1, Taken DEF TypeOK
  <2> QED
    BY <1>2, <2>1 DEF TypeOK
<1> QED
  BY <1>3, <1>4, <1>5

\* The ring of a node, or the empty one that Ingest starts with.
RingOf(n) == IF ring[n] = None THEN NewRing ELSE ring[n]

\* The sample that Ingest makes of a heartbeat.
SampleOf(n, b) ==
  LET d == Rate(RingOf(n), b)
  IN  [ts |-> BucketOf(b.ts), bytes |-> d.bytes, secs |-> d.secs, steady |-> d.steady]

\* The ring after a heartbeat whose sample is s.
RingWith(r, b, s) ==
  [slots |-> [r.slots EXCEPT ![SlotOf(b.ts)] = s], last |-> b.ts, prev |-> b.sys,
   at |-> b.at, off |-> b.off]

\* The history after a sample s.
HistWith(n, s) == [t \in DOMAIN hist[n] \cup {s.ts} |-> IF t = s.ts THEN s ELSE hist[n][t]]

\* Ingest writes one sample, into its slot, and remembers the counter.
LEMMA IngestStep ==
  ASSUME TypeOK, NEW h \in handling, Ingest(h), NEW n, NEW b, NEW r, NEW s,
         n = h.node, b = h.beat, r = RingOf(n), s = SampleOf(n, b)
  PROVE  /\ n \in Node /\ b \in Beat /\ b.ts \in Nat /\ b.sys \in Nat
         /\ r \in NodeRing /\ s \in Sample /\ s.ts = BucketOf(b.ts)
         /\ s.bytes = Rate(r, b).bytes /\ s.secs = Rate(r, b).secs /\ s.steady = Rate(r, b).steady
         /\ SlotOf(b.ts) \in 0 .. Slots - 1
         /\ handling' = handling \ {h}
         /\ ring' = [ring EXCEPT ![n] = RingWith(r, b, s)]
         /\ hist' = [hist EXCEPT ![n] = HistWith(n, s)]
         /\ UNCHANGED <<clockVars, agentVars, rt, deleted, dropped, budget, tunnel, blank, said>>
<1>1. n \in Node /\ b \in Beat
  BY DEF TypeOK
<1>2. b.ts \in Nat /\ b.sys \in Nat
  BY <1>1 DEF Beat
<1>3. r \in NodeRing
  <2>1. NewRing \in NodeRing
    BY DEF NewRing, NodeRing, NoSample, Sample
  <2> HIDE DEF NodeRing, NewRing
  <2> QED
    BY <1>1, <2>1 DEF TypeOK, RingOf
<1>4. PICK d : d = Rate(r, b)
  OBVIOUS
<1>5. d.bytes \in Nat /\ d.secs \in Nat /\ d.steady \in BOOLEAN
  <2>1. r.last \in Nat /\ r.prev \in Nat
    BY <1>3 DEF NodeRing
  <2>2. CASE r.last > 0 /\ b.ts > r.last /\ b.sys >= r.prev
    <3>1. d = [bytes |-> b.sys - r.prev, secs |-> b.ts - r.last, steady |-> b.off = r.off]
      BY <1>4, <2>2, Zenon DEF Rate, Difference
    <3> QED
      BY <1>2, <2>1, <2>2, <3>1
  <2>3. CASE ~(r.last > 0 /\ b.ts > r.last /\ b.sys >= r.prev)
    <3>1. d = [bytes |-> 0, secs |-> 0, steady |-> TRUE]
      BY <1>4, <2>3, Zenon DEF Rate, NoRate
    <3> QED
      BY <3>1
  <2> QED
    BY <2>2, <2>3
<1>6. BucketOf(b.ts) \in Nat /\ SlotOf(b.ts) \in 0 .. Slots - 1
  BY <1>2, Buckets
<1>7. s = [ts |-> BucketOf(b.ts), bytes |-> d.bytes, secs |-> d.secs, steady |-> d.steady]
  BY <1>4 DEF SampleOf
<1>8. /\ s \in Sample /\ s.ts = BucketOf(b.ts) /\ s.bytes = d.bytes /\ s.secs = d.secs
      /\ s.steady = d.steady
  BY <1>5, <1>6, <1>7 DEF Sample
<1>9. /\ handling' = handling \ {h}
      /\ UNCHANGED <<clockVars, agentVars, rt, deleted, dropped, budget, tunnel, blank, said>>
  BY DEF Ingest
<1>10. /\ ring' = [ring EXCEPT ![n] = RingWith(r, b, s)]
       /\ hist' = [hist EXCEPT ![n] = HistWith(n, s)]
  BY Zenon DEF Ingest, SampleOf, RingOf, RingWith, HistWith, KeptStamp
<1> QED
  BY <1>1, <1>2, <1>3, <1>4, <1>6, <1>8, <1>9, <1>10

\* What Ingest does to the history and the ring of a node.
LEMMA Ingested ==
  ASSUME TypeOK, Histories, NEW h \in handling, Ingest(h), NEW m \in Node, NEW n, NEW b, NEW r, NEW s,
         n = h.node, b = h.beat, r = RingOf(n), s = SampleOf(n, b)
  PROVE  /\ m # n => ring'[m] = ring[m] /\ hist'[m] = hist[m]
         /\ m = n => ring'[m] = RingWith(r, b, s) /\ hist'[m] = HistWith(n, s)
         /\ clock' = clock
<1>1. PICK new, now : new = RingWith(r, b, s) /\ now = HistWith(n, s)
  OBVIOUS
<1>2. /\ n \in Node /\ ring' = [ring EXCEPT ![n] = new] /\ hist' = [hist EXCEPT ![n] = now]
      /\ clock' = clock
  <2>1. n \in Node /\ ring' = [ring EXCEPT ![n] = new] /\ hist' = [hist EXCEPT ![n] = now]
    BY <1>1, IngestStep
  <2>2. clock' = clock
    BY DEF Ingest, clockVars
  <2> QED
    BY <2>1, <2>2
<1>3. ring'[m] = IF m = n THEN new ELSE ring[m]
  BY <1>2 DEF TypeOK
<1>4. hist'[m] = IF m = n THEN now ELSE hist[m]
  BY <1>2 DEF Histories
<1> QED
  BY <1>1, <1>2, <1>3, <1>4, Zenon

\* Ingest keeps the types of the ring and the history.
LEMMA IngestTypes ==
  ASSUME TypeOK, Histories, NEW h \in handling, Ingest(h)
  PROVE  TypeOK' /\ Histories'
<1>1. PICK n, b, r, s : n = h.node /\ b = h.beat /\ r = RingOf(n) /\ s = SampleOf(n, b)
  OBVIOUS
<1>2. PICK new, now : new = RingWith(r, b, s) /\ now = HistWith(n, s)
  OBVIOUS
<1>3. /\ n \in Node /\ b \in Beat /\ r \in NodeRing /\ s \in Sample
      /\ SlotOf(b.ts) \in 0 .. Slots - 1
      /\ ring' = [ring EXCEPT ![n] = new] /\ hist' = [hist EXCEPT ![n] = now]
      /\ handling' = handling \ {h}
      /\ UNCHANGED <<clockVars, agentVars, rt, deleted, dropped, budget, tunnel, blank, said>>
  BY <1>1, <1>2, IngestStep
<1>4. new \in NodeRing
  <2>1. PICK slots : slots = [r.slots EXCEPT ![SlotOf(b.ts)] = s]
    OBVIOUS
  <2>2. r.slots \in [0 .. Slots - 1 -> Sample]
    BY <1>3 DEF NodeRing
  <2>3. slots \in [0 .. Slots - 1 -> Sample]
    BY <1>3, <2>1, <2>2
  <2>4. b.ts \in Nat /\ b.sys \in Nat /\ b.at \in Nat /\ b.off \in Int
    BY <1>3 DEF Beat
  <2>5. new = [slots |-> slots, last |-> b.ts, prev |-> b.sys, at |-> b.at, off |-> b.off]
    BY <1>2, <2>1 DEF RingWith
  <2> QED
    BY <2>3, <2>4, <2>5 DEF NodeRing
<1>5. ring' \in [Node -> NodeRing \cup {None}]
  BY <1>3, <1>4 DEF TypeOK
<1>6. \A m \in Node : hist'[m] = IF m = n THEN now ELSE hist[m]
  BY <1>3 DEF Histories
<1>7. ASSUME NEW m \in Node, NEW t \in DOMAIN hist'[m] PROVE hist'[m][t] \in Sample
  <2>1. CASE m = n
    <3>1. now = [x \in DOMAIN hist[n] \cup {s.ts} |-> IF x = s.ts THEN s ELSE hist[n][x]]
      BY <1>2 DEF HistWith
    <3> QED
      BY <1>3, <1>6, <2>1, <3>1 DEF TypeOK
  <2>2. CASE m # n
    BY <1>6, <2>2 DEF TypeOK
  <2> QED
    BY <2>1, <2>2
<1>8. Histories'
  BY <1>3 DEF Histories
<1>9. handling' \subseteq [node : Node, conn : Nat, beat : Beat]
  BY <1>3 DEF TypeOK
<1> QED
  BY <1>3, <1>5, <1>7, <1>8, <1>9 DEF TypeOK, clockVars, agentVars, countVars

\* Every step keeps the types.
LEMMA TypeStep ==
  ASSUME TypeOK, Histories, Timing, [Next]_vars
  PROVE  TypeOK' /\ Histories'
<1> USE DEF clockVars, countVars, agentVars, hubVars, ghosts
<1>1. ASSUME NEW n \in Node, Connect(n) PROVE TypeOK' /\ Histories'
  <2>1. /\ conn' = [conn EXCEPT ![n] = budget["connect"]] /\ wire' = [wire EXCEPT ![n] = <<>>]
        /\ making' = [making EXCEPT ![n] = None]
        /\ wg' = [wg EXCEPT ![n] = 0] /\ wgTold' = [wgTold EXCEPT ![n] = clock]
        /\ shook' = [shook EXCEPT ![n] = 0] /\ Spend("connect")
        /\ UNCHANGED <<clockVars, sys, sysTold, hubVars, ghosts>>
    BY <1>1 DEF Connect
  <2>2. budget' \in [Event -> Nat] /\ budget["connect"] \in Nat /\ clock \in Nat
    BY <2>1, SpendOk DEF Event, TypeOK
  <2>3. /\ conn' \in [Node -> Nat] /\ wg' \in [Node -> Nat] /\ wire' \in [Node -> Seq(Beat)]
        /\ making' \in [Node -> Beat \cup {None}]
        /\ wgTold' \in [Node -> Nat] /\ shook' \in [Node -> Nat]
    BY <2>1, <2>2 DEF TypeOK
  <2> QED
    BY <2>1, <2>2, <2>3 DEF TypeOK, Histories
<1>2. ASSUME NEW n \in Node, StartBeat(n) PROVE TypeOK' /\ Histories'
  <2>1. PICK g \in Nat, b \in Beat : Started(n, g, b)
    BY <1>2, Starts
  <2>2. /\ UNCHANGED <<clockVars, conn, wire, sys, sysTold, shook, hubVars, ghosts>>
        /\ budget' \in [Event -> Nat]
    BY <1>2, Starts
  <2>3. /\ wg' \in [Node -> Nat] /\ wgTold' \in [Node -> Nat]
        /\ making' \in [Node -> Beat \cup {None}]
    BY <2>1 DEF Started, TypeOK
  <2> QED
    BY <2>2, <2>3 DEF TypeOK, Histories
<1>3. ASSUME NEW n \in Node, SendBeat(n) PROVE TypeOK' /\ Histories'
  <2>1. PICK g \in Nat, b \in Beat : Sent(n, g, b)
    BY <1>3, Sends
  <2>2. /\ UNCHANGED <<clockVars, conn, wg, wgTold, shook, hubVars, tunnel, hist, said>>
        /\ budget' \in [Event -> Nat]
    BY <1>3, Sends
  <2>3. Append(wire[n], b) \in Seq(Beat)
    BY <2>1 DEF TypeOK
  <2>4. /\ sys' \in [Node -> Nat] /\ sysTold' \in [Node -> Nat] /\ blank' \subseteq Node
        /\ making' \in [Node -> Beat \cup {None}] /\ wire' \in [Node -> Seq(Beat)]
    BY <2>1, <2>3 DEF Sent, TypeOK
  <2> QED
    BY <2>2, <2>4 DEF TypeOK, Histories
<1>4. ASSUME NEW n \in Node, Reboot(n) PROVE TypeOK' /\ Histories'
  <2>1. /\ sys' = [sys EXCEPT ![n] = 0] /\ wg' = [wg EXCEPT ![n] = 0]
        /\ sysTold' = [sysTold EXCEPT ![n] = clock] /\ wgTold' = [wgTold EXCEPT ![n] = clock]
        /\ shook' = [shook EXCEPT ![n] = 0] /\ conn' = [conn EXCEPT ![n] = 0]
        /\ making' = [making EXCEPT ![n] = None]
        /\ wire' = [wire EXCEPT ![n] = <<>>] /\ Spend("boot")
        /\ UNCHANGED <<clockVars, hubVars, ghosts>>
    BY <1>4 DEF Reboot
  <2>2. budget' \in [Event -> Nat] /\ clock \in Nat
    BY <2>1, SpendOk DEF Event, TypeOK
  <2>3. /\ conn' \in [Node -> Nat] /\ wg' \in [Node -> Nat] /\ wire' \in [Node -> Seq(Beat)]
        /\ sys' \in [Node -> Nat] /\ sysTold' \in [Node -> Nat] /\ wgTold' \in [Node -> Nat]
        /\ shook' \in [Node -> Nat] /\ making' \in [Node -> Beat \cup {None}]
    BY <2>1, <2>2 DEF TypeOK
  <2> QED
    BY <2>1, <2>2, <2>3 DEF TypeOK, Histories
<1>5. ASSUME NEW n \in Node, HandleHeartbeat(n) PROVE TypeOK' /\ Histories'
  <2>1. UNCHANGED <<clockVars, conn, making, countVars, ring, deleted, dropped, budget, tunnel,
                    blank, hist>>
    BY <1>5, Taken
  <2>2. /\ rt' \in LinkRT \cup {None} /\ said' \in [Node -> Nat \cup {None}]
        /\ wire' \in [Node -> Seq(Beat)]
        /\ handling' \subseteq [node : Node, conn : Nat, beat : Beat]
    BY <1>5, HandleTypes
  <2> QED
    BY <2>1, <2>2 DEF TypeOK, Histories
<1>6. ASSUME NEW n \in Node, DeleteNode(n) PROVE TypeOK' /\ Histories'
  <2>1. /\ deleted' = deleted \cup {n} /\ rt' \in {rt, None} /\ Spend("delete")
        /\ said' \in {said, [e \in Node |-> None]}
        /\ UNCHANGED <<clockVars, agentVars, handling, ring, dropped, tunnel, blank, hist>>
    BY <1>6 DEF DeleteNode
  <2>2. budget' \in [Event -> Nat]
    BY <2>1, SpendOk DEF Event
  <2> QED
    BY <2>1, <2>2 DEF TypeOK, Histories
<1>7. ASSUME NEW n \in Node, Drop(n) PROVE TypeOK' /\ Histories'
  <2>1. /\ n \in deleted /\ dropped' = dropped \cup {n} /\ ring' = [ring EXCEPT ![n] = None]
        /\ hist' = [hist EXCEPT ![n] = <<>>]
        /\ UNCHANGED <<clockVars, agentVars, handling, rt, deleted, budget, tunnel, blank, said>>
    BY <1>7 DEF Drop
  <2>2. ring' \in [Node -> NodeRing \cup {None}]
    BY <2>1 DEF TypeOK
  <2>3. \A m \in Node : \A t \in DOMAIN hist'[m] : hist'[m][t] \in Sample
    <3>1. \A m \in Node : hist'[m] = hist[m] \/ DOMAIN hist'[m] = {}
      <4>1. \A m \in Node : hist'[m] = IF m = n THEN <<>> ELSE hist[m]
        BY <2>1 DEF Histories
      <4> QED
        BY <4>1
    <3> QED
      BY <3>1 DEF TypeOK
  <2> QED
    BY <2>1, <2>2, <2>3 DEF TypeOK, Histories
<1>8. CASE Handshake
  <2>1. /\ tunnel' = clock /\ Spend("shake")
        /\ shook' = [n \in Node |-> IF n \in End THEN Unix(n) ELSE shook[n]]
        /\ UNCHANGED <<clockVars, conn, making, wire, sys, wg, sysTold, wgTold, hubVars, blank, hist,
                       said>>
    BY <1>8 DEF Handshake
  <2>2. budget' \in [Event -> Nat]
    BY <2>1, SpendOk DEF Event
  <2>3. shook' \in [Node -> Nat]
    <3>1. \A n \in Node : Unix(n) \in Nat /\ shook[n] \in Nat
      BY UnixIs, Positive DEF TypeOK
    <3> HIDE DEF Unix
    <3> QED
      BY <2>1, <3>1
  <2> QED
    BY <2>1, <2>2, <2>3 DEF TypeOK, Histories
<1>9. CASE HubRestart
  <2>1. /\ handling' = {} /\ rt' = None /\ ring' = [n \in Node |-> None]
        /\ conn' = [n \in Node |-> 0] /\ wire' = [n \in Node |-> <<>>]
        /\ making' = [n \in Node |-> None]
        /\ hist' = [n \in Node |-> <<>>] /\ said' = [n \in Node |-> None]
        /\ dropped' = deleted /\ Spend("restart")
        /\ UNCHANGED <<clockVars, countVars, tunnel, deleted, blank>>
    BY <1>9 DEF HubRestart
  <2>2. budget' \in [Event -> Nat]
    BY <2>1, SpendOk DEF Event
  <2>3. wire' \in [Node -> Seq(Beat)] /\ conn' \in [Node -> Nat]
    BY <2>1
  <2> QED
    BY <2>1, <2>2, <2>3 DEF TypeOK, Histories
<1>10. ASSUME NEW m \in Machine, StepClock(m) PROVE TypeOK' /\ Histories'
  <2>1. PICK o \in Offset : off' = [off EXCEPT ![m] = o]
    BY <1>10 DEF StepClock
  <2>2. Spend("step") /\ UNCHANGED <<clock, agentVars, hubVars, ghosts>>
    BY <1>10 DEF StepClock
  <2>3. budget' \in [Event -> Nat]
    BY <2>2, SpendOk DEF Event
  <2>4. off' \in [Machine -> Offset]
    BY <2>1 DEF TypeOK
  <2> QED
    BY <2>2, <2>3, <2>4 DEF TypeOK, Histories
<1>11. CASE Tick
  BY <1>11 DEF Tick, TypeOK, Histories
<1>12. CASE UNCHANGED vars
  BY <1>12 DEF vars, TypeOK, Histories
<1> QED
  BY <1>1, <1>2, <1>3, <1>4, <1>5, <1>6, <1>7, <1>8, <1>9, <1>10, <1>11, <1>12, IngestTypes DEF Next

------------------------------------------------------------------------------
(* Heartbeats under way                                                     *)

\* The heartbeats under way are handled in order or lost.
Moved(n) ==
  \E d \in {0, 1} : \A i \in 1 .. Len(Out(n)') :
    i + d \in 1 .. Len(Out(n)) /\ Same(Out(n)'[i], Out(n)[i + d])

\* What every step has in common that stamps no heartbeat: the ones under way
\* move in time, and counters stay or start again.
Quiet ==
  /\ \A n \in Node : Moved(n)
  /\ \A h \in handling' : h \in handling \/ (1 \in 1 .. Len(wire[h.node]) /\ h.beat = wire[h.node][1])
  /\ \A n \in Node : /\ wgTold[n] <= wgTold'[n] /\ wgTold'[n] <= clock'
                     /\ wg'[n] \in {0, wg[n]}
  /\ clock' \in {clock, clock + 1}
  /\ \A n \in Node : \A i \in 1 .. Len(Out(n)') : clock' <= Out(n)'[i].at + MaxDelay
  /\ \A h \in handling' : clock' <= h.beat.at + MaxDelay
  /\ tunnel' \in {tunnel, clock}

\* The heartbeats under way are in the types of Beat.
LEMMA OnWay ==
  ASSUME TypeOK, NEW n \in Node, NEW i \in 1 .. Len(Out(n)), NEW b, b = Out(n)[i]
  PROVE  /\ b \in Beat /\ b.ts \in Nat /\ b.at \in Nat /\ b.off \in Int /\ b.sys \in Nat
         /\ b.hs \in Nat /\ b.wg \in Nat \cup {None}
<1>1. b \in Beat
  BY OutIs
<1> QED
  BY <1>1 DEF Beat

\* The next heartbeat is the oldest one under way.
LEMMA HeadFirst ==
  ASSUME TypeOK, Timing, NEW n \in Node, NEW i \in 1 .. Len(wire[n])
  PROVE  /\ wire[n] # <<>> /\ 1 \in 1 .. Len(wire[n]) /\ Head(wire[n]) = wire[n][1]
         /\ 1 \in 1 .. Len(Out(n)) /\ Out(n)[1] = wire[n][1]
<1>1. wire[n] \in Seq(Beat) /\ wire[n] # <<>> /\ Len(wire[n]) \in Nat /\ 1 \in 1 .. Len(wire[n])
  BY DEF TypeOK
<1> QED
  BY <1>1, OutIs

\* What is left under way when the oldest heartbeat is taken.
LEMMA TailOut ==
  ASSUME TypeOK, NEW n \in Node, wire[n] # <<>>, wire'[n] = Tail(wire[n]), making'[n] = making[n]
  PROVE  \A i \in 1 .. Len(Out(n)') : i + 1 \in 1 .. Len(Out(n)) /\ Out(n)'[i] = Out(n)[i + 1]
<1>1. /\ wire[n] \in Seq(Beat) /\ Len(wire[n]) \in Nat
      /\ Out(n) \in Seq(Beat) /\ Len(Out(n)) \in Nat
      /\ \A i \in 1 .. Len(wire[n]) : i \in 1 .. Len(Out(n)) /\ Out(n)[i] = wire[n][i]
      /\ making[n] = None => Out(n) = wire[n]
      /\ making[n] # None => /\ making[n] \in Beat
                             /\ Len(Out(n)) = Len(wire[n]) + 1
                             /\ Out(n)[Len(wire[n]) + 1] = making[n]
  BY OutIs
<1>2. PICK p, q : p = Out(n) /\ q = Out(n)'
  OBVIOUS
<1>3. q = IF making'[n] = None THEN wire'[n] ELSE Append(wire'[n], making'[n])
  BY <1>2 DEF Out
<1> SUFFICES ASSUME NEW i \in 1 .. Len(q) PROVE i + 1 \in 1 .. Len(p) /\ q[i] = p[i + 1]
  BY <1>2
<1>4. /\ wire'[n] \in Seq(Beat) /\ Len(wire'[n]) = Len(wire[n]) - 1
      /\ \A k \in 1 .. Len(wire'[n]) : /\ k + 1 \in 1 .. Len(wire[n])
                                       /\ wire'[n][k] = wire[n][k + 1]
  BY <1>1
<1>5. CASE making[n] = None
  <2>1. q = wire'[n] /\ p = wire[n]
    BY <1>1, <1>2, <1>3, <1>5
  <2> QED
    BY <1>4, <2>1
<1>6. CASE making[n] # None
  <2>1. q = Append(wire'[n], making[n]) /\ making[n] \in Beat /\ Len(p) = Len(wire[n]) + 1
    BY <1>1, <1>2, <1>3, <1>6
  <2>2. Len(q) = Len(wire[n])
    BY <1>1, <1>4, <2>1
  <2>3. CASE i \in 1 .. Len(wire'[n])
    BY <1>1, <1>2, <1>4, <2>1, <2>3
  <2>4. CASE i = Len(wire[n])
    <3>1. q[i] = making[n]
      BY <1>1, <1>4, <2>1, <2>4
    <3>2. p[i + 1] = making[n]
      BY <1>1, <1>2, <1>6, <2>4
    <3> QED
      BY <1>1, <2>1, <2>4, <3>1, <3>2
  <2> QED
    BY <1>1, <1>4, <2>2, <2>3, <2>4
<1> QED
  BY <1>5, <1>6

\* Every way in which the heartbeats of a node move.
LEMMA Moves ==
  ASSUME TypeOK, NEW n \in Node,
         \/ wire'[n] = wire[n] /\ making'[n] = making[n]
         \/ wire'[n] = <<>> /\ making'[n] = None
         \/ wire[n] # <<>> /\ wire'[n] = Tail(wire[n]) /\ making'[n] = making[n]
         \/ \E b \in Beat : /\ making[n] # None /\ Same(b, making[n])
                            /\ wire'[n] = Append(wire[n], b) /\ making'[n] = None
  PROVE  Moved(n)
<1>0. /\ wire[n] \in Seq(Beat) /\ Len(wire[n]) \in Nat
      /\ Out(n) \in Seq(Beat) /\ Len(Out(n)) \in Nat
      /\ \A i \in 1 .. Len(wire[n]) : i \in 1 .. Len(Out(n)) /\ Out(n)[i] = wire[n][i]
      /\ making[n] = None => Out(n) = wire[n]
      /\ making[n] # None => /\ making[n] \in Beat
                             /\ Len(Out(n)) = Len(wire[n]) + 1
                             /\ Out(n)[Len(wire[n]) + 1] = making[n]
  BY OutIs
<1>1. PICK p, q : p = Out(n) /\ q = Out(n)'
  OBVIOUS
<1>2. q = IF making'[n] = None THEN wire'[n] ELSE Append(wire'[n], making'[n])
  BY <1>1 DEF Out
<1> SUFFICES \E d \in {0, 1} : \A i \in 1 .. Len(q) : i + d \in 1 .. Len(p) /\ Same(q[i], p[i + d])
  BY <1>1 DEF Moved
<1>3. CASE wire'[n] = wire[n] /\ making'[n] = making[n]
  <2>1. p = q
    BY <1>1, <1>2, <1>3 DEF Out
  <2>2. \A i \in 1 .. Len(q) : i + 0 \in 1 .. Len(p) /\ Same(q[i], p[i + 0])
    BY <1>0, <1>1, <2>1 DEF Same
  <2> QED
    BY <2>2
<1>4. CASE wire'[n] = <<>> /\ making'[n] = None
  <2>1. 1 .. Len(q) = {}
    BY <1>2, <1>4
  <2> QED
    BY <2>1
<1>5. CASE wire[n] # <<>> /\ wire'[n] = Tail(wire[n]) /\ making'[n] = making[n]
  <2>1. \A i \in 1 .. Len(q) : i + 1 \in 1 .. Len(p) /\ q[i] = p[i + 1]
    BY <1>1, <1>5, TailOut
  <2> QED
    BY <2>1 DEF Same
<1>6. ASSUME NEW b \in Beat, making[n] # None, Same(b, making[n]),
             wire'[n] = Append(wire[n], b), making'[n] = None
      PROVE  \E d \in {0, 1} : \A i \in 1 .. Len(q) : i + d \in 1 .. Len(p) /\ Same(q[i], p[i + d])
  <2>1. /\ q = Append(wire[n], b) /\ Len(q) = Len(wire[n]) + 1 /\ Len(p) = Len(wire[n]) + 1
        /\ q[Len(wire[n]) + 1] = b /\ p[Len(wire[n]) + 1] = making[n]
        /\ \A i \in 1 .. Len(wire[n]) : q[i] = wire[n][i] /\ p[i] = wire[n][i]
    BY <1>0, <1>1, <1>2, <1>6
  <2>2. ASSUME NEW i \in 1 .. Len(q) PROVE i + 0 \in 1 .. Len(p) /\ Same(q[i], p[i])
    <3>1. i \in 1 .. Len(wire[n]) \/ i = Len(wire[n]) + 1
      BY <1>0, <2>1
    <3>2. i + 0 \in 1 .. Len(p)
      BY <1>0, <2>1
    <3> QED
      BY <1>6, <2>1, <3>1, <3>2 DEF Same
  <2>3. \A i \in 1 .. Len(q) : i + 0 \in 1 .. Len(p) /\ Same(q[i], p[i + 0])
    <3>1. \A i \in 1 .. Len(q) : i + 0 = i
      BY <1>0, <2>1
    <3> QED
      BY <2>2, <3>1
  <2> QED
    BY <2>3
<1> QED
  BY <1>3, <1>4, <1>5, <1>6

\* While no time passes, a heartbeat does not get too old.
LEMMA Timely ==
  ASSUME TypeOK, Timing, clock' = clock, tunnel' \in {tunnel, clock},
         \A n \in Node : Moved(n),
         \A h \in handling' : h \in handling \/ (1 \in 1 .. Len(wire[h.node]) /\ h.beat = wire[h.node][1]),
         handling' \subseteq [node : Node, conn : Nat, beat : Beat],
         \A n \in Node : wgTold'[n] \in {wgTold[n], clock} /\ wg'[n] \in {0, wg[n]}
  PROVE  Quiet
<1>1. ASSUME NEW n \in Node PROVE wgTold[n] <= wgTold'[n] /\ wgTold'[n] <= clock'
  <2>1. wgTold[n] \in Nat /\ clock \in Nat /\ wgTold[n] <= clock /\ wgTold'[n] \in {wgTold[n], clock}
    BY DEF TypeOK, Timing
  <2> QED
    BY <2>1
<1>2. ASSUME NEW n \in Node, NEW i \in 1 .. Len(Out(n)') PROVE clock' <= Out(n)'[i].at + MaxDelay
  <2>1. PICK j \in 1 .. Len(Out(n)) : Same(Out(n)'[i], Out(n)[j])
    BY DEF Moved
  <2> QED
    BY <2>1 DEF Timing, Fresh, Same
<1>3. ASSUME NEW h \in handling' PROVE clock' <= h.beat.at + MaxDelay
  <2>1. CASE h \in handling
    BY <2>1 DEF Timing, Fresh
  <2>2. CASE 1 \in 1 .. Len(wire[h.node]) /\ h.beat = wire[h.node][1]
    <3>1. h.node \in Node
      OBVIOUS
    <3>2. 1 \in 1 .. Len(Out(h.node)) /\ h.beat = Out(h.node)[1]
      BY <2>2, <3>1, OutIs
    <3> QED
      BY <3>1, <3>2 DEF Timing, Fresh
  <2> QED
    BY <2>1, <2>2
<1>4. \A n \in Node : /\ wgTold[n] <= wgTold'[n] /\ wgTold'[n] <= clock' /\ wg'[n] \in {0, wg[n]}
  BY <1>1
<1> QED
  BY <1>2, <1>3, <1>4, Zenon DEF Quiet

\* Time passes only while no heartbeat gets too old.
LEMMA TickTimely ==
  ASSUME TypeOK, Timing, Tick
  PROVE  Quiet
<1>1. /\ UNCHANGED <<agentVars, hubVars, ghosts>> /\ clock' = clock + 1
      /\ \A n \in Node : making[n] # None => clock < making[n].at + Collect
      /\ \A n \in Node : wire[n] # <<>> => clock < Head(wire[n]).at + MaxDelay
      /\ \A h \in handling : clock < h.beat.at + MaxDelay
  BY DEF Tick
<1>2. /\ UNCHANGED <<wire, making, wg, wgTold, handling, tunnel>>
      /\ clock \in Nat /\ MaxDelay \in Nat /\ Collect \in Nat /\ Collect <= MaxDelay
  BY <1>1, Positive DEF TypeOK, agentVars, countVars, hubVars, ghosts
<1>3. ASSUME NEW n \in Node, NEW i \in 1 .. Len(Out(n)) PROVE clock + 1 <= Out(n)[i].at + MaxDelay
  <2>0. PICK b : b = Out(n)[i]
    OBVIOUS
  <2>1. b.at \in Nat
    BY <2>0, OnWay
  <2>2. CASE wire[n] # <<>>
    <3>0. 1 \in 1 .. Len(wire[n])
      BY <2>2 DEF TypeOK
    <3>1. PICK a : a = Head(wire[n])
      OBVIOUS
    <3>2. 1 \in 1 .. Len(Out(n)) /\ a = Out(n)[1] /\ clock < a.at + MaxDelay
      BY <1>1, <2>2, <3>0, <3>1, HeadFirst
    <3>3. a.at \in Nat
      BY <3>2, OnWay
    <3>4. a.at <= b.at
      <4>1. i = 1 \/ 1 < i
        BY OutIs
      <4> QED
        BY <2>0, <2>1, <3>2, <3>3, <4>1 DEF Timing
    <3> QED
      BY <1>2, <2>0, <2>1, <3>2, <3>3, <3>4
  <2>3. CASE wire[n] = <<>>
    <3>1. Len(wire[n]) = 0
      BY <2>3
    <3>2. making[n] # None /\ Len(Out(n)) = 1 /\ Out(n)[1] = making[n]
      <4>1. making[n] = None => Out(n) = wire[n] /\ i \in 1 .. 0
        BY <3>1, OutIs
      <4>2. making[n] # None => Len(Out(n)) = 1 /\ Out(n)[1] = making[n]
        <5>1. Len(wire[n]) + 1 = 1
          BY <3>1
        <5>2. making[n] # None => /\ Len(Out(n)) = Len(wire[n]) + 1
                                  /\ Out(n)[Len(wire[n]) + 1] = making[n]
          BY OutIs, Zenon
        <5> QED
          BY <5>1, <5>2, Zenon
      <4> QED
        BY <4>1, <4>2
    <3>3. b = making[n]
      BY <2>0, <3>2
    <3> QED
      BY <1>1, <1>2, <2>0, <2>1, <3>2, <3>3
  <2> QED
    BY <2>2, <2>3
<1>4. ASSUME NEW h \in handling PROVE clock + 1 <= h.beat.at + MaxDelay
  <2>1. h.beat \in Beat
    BY DEF TypeOK
  <2>2. h.beat.at \in Nat
    BY <2>1 DEF Beat
  <2> QED
    BY <1>1, <1>2, <2>2
<1>5. ASSUME NEW n \in Node PROVE Moved(n) /\ Out(n)' = Out(n)
  <2>1. Moved(n)
    BY <1>2, Moves
  <2> QED
    BY <1>2, <2>1 DEF Out
<1>6. ASSUME NEW n \in Node
      PROVE  wgTold[n] <= wgTold'[n] /\ wgTold'[n] <= clock' /\ wg'[n] \in {0, wg[n]}
  <2>1. wgTold[n] \in Nat /\ wgTold[n] <= clock
    BY DEF TypeOK, Timing
  <2> QED
    BY <1>1, <1>2, <2>1
<1>7. \A n \in Node : \A i \in 1 .. Len(Out(n)') : clock' <= Out(n)'[i].at + MaxDelay
  BY <1>1, <1>3, <1>5
<1>8. \A h \in handling' : clock' <= h.beat.at + MaxDelay
  BY <1>1, <1>2, <1>4
<1>9. \A n \in Node : wgTold[n] <= wgTold'[n] /\ wgTold'[n] <= clock' /\ wg'[n] \in {0, wg[n]}
  BY <1>6
<1>10. \A n \in Node : Moved(n)
  BY <1>5
<1>11. clock' \in {clock, clock + 1} /\ tunnel' \in {tunnel, clock} /\ handling' = handling
  BY <1>1, <1>2
<1> QED
  BY <1>7, <1>8, <1>9, <1>10, <1>11, Zenon DEF Quiet

\* Every step but StartBeat is quiet.
LEMMA QuietStep ==
  ASSUME TypeOK, TypeOK', Timing, [Next]_vars, ~\E n \in Node : StartBeat(n)
  PROVE  Quiet
<1> USE DEF clockVars, countVars, agentVars, hubVars, ghosts
<1>0. /\ wire \in [Node -> Seq(Beat)] /\ wgTold \in [Node -> Nat] /\ wg \in [Node -> Nat]
      /\ making \in [Node -> Beat \cup {None}]
      /\ handling' \subseteq [node : Node, conn : Nat, beat : Beat]
  BY DEF TypeOK
<1>1. ASSUME UNCHANGED <<clock, wire, making, wg, wgTold>>, tunnel' \in {tunnel, clock},
             handling' \subseteq handling
      PROVE  Quiet
  <2>1. \A n \in Node : Moved(n)
    BY <1>1, Moves
  <2> QED
    BY <1>0, <1>1, <2>1, Timely
<1>2. ASSUME NEW n \in Node, Connect(n) \/ Reboot(n) PROVE Quiet
  <2>1. /\ clock' = clock /\ tunnel' = tunnel /\ handling' = handling
        /\ wire' = [wire EXCEPT ![n] = <<>>] /\ making' = [making EXCEPT ![n] = None]
        /\ wg' = [wg EXCEPT ![n] = 0] /\ wgTold' = [wgTold EXCEPT ![n] = clock]
    BY <1>2 DEF Connect, Reboot
  <2>2. ASSUME NEW m \in Node PROVE Moved(m)
    BY <1>0, <2>1, Moves
  <2>3. \A m \in Node : wgTold'[m] \in {wgTold[m], clock} /\ wg'[m] \in {0, wg[m]}
    BY <1>0, <2>1
  <2> QED
    BY <1>0, <2>1, <2>2, <2>3, Timely
<1>3. ASSUME NEW n \in Node, SendBeat(n) PROVE Quiet
  <2>1. PICK g \in Nat, b \in Beat : Sent(n, g, b)
    BY <1>3, Sends
  <2>2. UNCHANGED <<clock, wg, wgTold, handling, tunnel>>
    BY <1>3, Sends
  <2>3. /\ making[n] # None /\ Same(b, making[n])
        /\ wire' = [wire EXCEPT ![n] = Append(wire[n], b)]
        /\ making' = [making EXCEPT ![n] = None]
    BY <2>1 DEF Sent
  <2>4. ASSUME NEW m \in Node PROVE Moved(m)
    <3>1. CASE m = n
      <4>1. wire'[n] = Append(wire[n], b) /\ making'[n] = None
        BY <1>0, <2>3
      <4> QED
        BY <2>3, <3>1, <4>1, Moves
    <3>2. CASE m # n
      <4>1. wire'[m] = wire[m] /\ making'[m] = making[m]
        BY <1>0, <2>3, <3>2
      <4> QED
        BY <4>1, Moves
    <3> QED
      BY <3>1, <3>2
  <2> QED
    BY <1>0, <2>2, <2>4, Timely
<1>4. ASSUME NEW n \in Node, HandleHeartbeat(n) PROVE Quiet
  <2>1. /\ UNCHANGED <<clock, making, wg, wgTold, tunnel>>
        /\ 1 \in 1 .. Len(wire[n]) /\ Head(wire[n]) = wire[n][1]
        /\ wire' = [wire EXCEPT ![n] = Tail(wire[n])]
        /\ handling' = handling \cup {[node |-> n, conn |-> conn[n], beat |-> Head(wire[n])]}
    BY <1>4, Taken
  <2>2. wire[n] # <<>>
    BY <1>4 DEF HandleHeartbeat
  <2>3. ASSUME NEW m \in Node PROVE Moved(m)
    <3>1. making'[m] = making[m] /\ wire'[m] = IF m = n THEN Tail(wire[m]) ELSE wire[m]
      BY <1>0, <2>1
    <3> QED
      BY <2>2, <3>1, Moves
  <2>4. \A h \in handling' : h \in handling \/ (1 \in 1 .. Len(wire[h.node]) /\ h.beat = wire[h.node][1])
    BY <2>1
  <2> QED
    BY <1>0, <2>1, <2>3, <2>4, Timely
<1>5. ASSUME NEW n \in Node, DeleteNode(n) \/ Drop(n) PROVE Quiet
  <2>1. UNCHANGED <<clock, wire, making, wg, wgTold, tunnel, handling>>
    BY <1>5 DEF DeleteNode, Drop
  <2> QED
    BY <1>1, <2>1
<1>6. ASSUME NEW h \in handling, Ingest(h) PROVE Quiet
  <2>1. UNCHANGED <<clock, wire, making, wg, wgTold, tunnel>> /\ handling' \subseteq handling
    BY <1>6 DEF Ingest
  <2> QED
    BY <1>1, <2>1
<1>7. CASE Handshake \/ UNCHANGED vars
  <2>1. UNCHANGED <<clock, wire, making, wg, wgTold, handling>> /\ tunnel' \in {tunnel, clock}
    BY <1>7 DEF Handshake, vars
  <2> QED
    BY <1>1, <2>1
<1>8. CASE HubRestart
  <2>1. /\ UNCHANGED <<clock, wg, wgTold, tunnel>> /\ handling' = {}
        /\ wire' = [n \in Node |-> <<>>] /\ making' = [n \in Node |-> None]
    BY <1>8 DEF HubRestart
  <2>2. ASSUME NEW m \in Node PROVE Moved(m)
    BY <2>1, Moves
  <2> QED
    BY <1>0, <2>1, <2>2, Timely
<1>9. ASSUME NEW m \in Machine, StepClock(m) PROVE Quiet
  <2>1. UNCHANGED <<clock, wire, making, wg, wgTold, tunnel, handling>>
    BY <1>9 DEF StepClock
  <2> QED
    BY <1>1, <2>1
<1> QED
  BY <1>2, <1>3, <1>4, <1>5, <1>6, <1>7, <1>8, <1>9, TickTimely DEF Next

\* What StartBeat appends to the heartbeats under way.
LEMMA StartOut ==
  ASSUME TypeOK, NEW n \in Node, StartBeat(n), NEW g \in Nat, NEW b \in Beat, Started(n, g, b),
         wire' = wire
  PROVE  /\ Len(Out(n)) \in Nat /\ Len(Out(n)') = Len(Out(n)) + 1
         /\ Out(n)'[Len(Out(n)')] = b
         /\ \A i \in 1 .. Len(Out(n)) : Out(n)'[i] = Out(n)[i]
         /\ \A i \in 1 .. Len(Out(n)') : i \in 1 .. Len(Out(n)) \/ i = Len(Out(n)')
         /\ \A m \in Node : m # n => Out(m)' = Out(m)
<1>1. making[n] = None /\ making' = [making EXCEPT ![n] = b] /\ making \in [Node -> Beat \cup {None}]
  BY DEF Started, TypeOK
<1>2. b # None
  BY NoneAssumption
<1>3. Out(n) = wire[n] /\ Out(n)' = Append(wire[n], b) /\ wire[n] \in Seq(Beat)
  BY <1>1, <1>2 DEF Out, TypeOK
<1>4. \A m \in Node : m # n => Out(m)' = Out(m)
  BY <1>1 DEF Out
<1>5. PICK p, q : p = Out(n) /\ q = Out(n)'
  OBVIOUS
<1>6. /\ Len(p) \in Nat /\ Len(q) = Len(p) + 1 /\ q[Len(q)] = b
      /\ \A i \in 1 .. Len(p) : q[i] = p[i]
      /\ \A i \in 1 .. Len(q) : i \in 1 .. Len(p) \/ i = Len(q)
  BY <1>3, <1>5
<1> QED
  BY <1>4, <1>5, <1>6

\* The tunnel is younger than what was shaken.
LEMMA ShakenStep ==
  ASSUME TypeOK, TypeOK', Timing, tunnel' \in {tunnel, clock}, NEW s \in Nat, Shaken(s)
  PROVE  Shaken(s)'
<1>1. /\ tunnel \in Nat \cup {None} /\ clock \in Nat /\ Ahead \in Nat
      /\ (tunnel # None => tunnel <= clock)
  BY Positive DEF TypeOK, Timing
<1>2. Sec * s \in Nat
  BY Positive
<1>3. CASE s = 0
  BY <1>3 DEF Shaken
<1>4. CASE tunnel # None /\ Sec * s <= tunnel + Ahead
  <2>1. tunnel' # None /\ tunnel <= tunnel' /\ tunnel' \in Nat
    BY <1>1, <1>4, NoneAssumption
  <2> QED
    BY <1>1, <1>2, <1>4, <2>1 DEF Shaken
<1> QED
  BY <1>3, <1>4 DEF Shaken

\* A heartbeat that is under way stays plausible while time passes and tunnels
\* shake hands again.
LEMMA FreshStep ==
  ASSUME TypeOK, TypeOK', Timing, NEW n \in Node, NEW b \in Beat, NEW c \in Beat, Same(c, b),
         Fresh(n, b), clock' <= c.at + MaxDelay, wgTold[n] <= wgTold'[n], tunnel' \in {tunnel, clock}
  PROVE  Fresh(n, c)'
<1>1. /\ b.at \in Nat /\ b.hs \in Nat /\ c.ts = b.ts /\ c.at = b.at /\ c.off = b.off
      /\ c.hs = b.hs /\ wgTold[n] \in Nat /\ wgTold'[n] \in Nat
  BY DEF Beat, Same, TypeOK
<1>2. Shaken(b.hs)'
  BY <1>1, ShakenStep DEF Fresh
<1>3. Stamped(c.ts, c.at, c.off) /\ c.at <= wgTold'[n] /\ Shaken(c.hs)'
  BY <1>1, <1>2 DEF Fresh, Shaken, Stamped
<1> QED
  BY <1>3 DEF Fresh, Stamped

\* When counters were read, what is collected and which handshake is known, after
\* any step.
LEMMA Gauges ==
  ASSUME TypeOK, Timing, [Next]_vars, NEW n \in Node
  PROVE  /\ sysTold'[n] \in {sysTold[n], clock}
         /\ making'[n] # None =>
              making'[n].at = clock \/ (making[n] # None /\ making'[n] = making[n])
         /\ clock' = clock \/ Tick
         /\ tunnel' \in {tunnel, clock}
         /\ shook'[n] \in {shook[n], 0} \/ (tunnel' = clock /\ shook'[n] = Unix(n))
<1> USE DEF clockVars, countVars, agentVars, hubVars, ghosts
<1>0. /\ sysTold \in [Node -> Nat] /\ shook \in [Node -> Nat]
      /\ making \in [Node -> Beat \cup {None}]
  BY DEF TypeOK
<1>1. ASSUME NEW m \in Node, Connect(m) \/ Reboot(m)
      PROVE  /\ sysTold' \in {sysTold, [sysTold EXCEPT ![m] = clock]}
             /\ making' = [making EXCEPT ![m] = None]
             /\ shook' = [shook EXCEPT ![m] = 0]
             /\ clock' = clock /\ tunnel' = tunnel
  BY <1>1 DEF Connect, Reboot
<1>2. ASSUME NEW m \in Node, SendBeat(m)
      PROVE  /\ sysTold' = [sysTold EXCEPT ![m] = clock]
             /\ making' = [making EXCEPT ![m] = None]
             /\ UNCHANGED <<clock, tunnel, shook>>
  BY <1>2 DEF SendBeat
<1>3. ASSUME NEW m \in Node, HandleHeartbeat(m) \/ DeleteNode(m) \/ Drop(m)
      PROVE  UNCHANGED <<clock, tunnel, shook, making, sysTold>>
  BY <1>3 DEF HandleHeartbeat, DeleteNode, Drop
<1>4. ASSUME NEW h \in handling, Ingest(h) PROVE UNCHANGED <<clock, tunnel, shook, making, sysTold>>
  BY <1>4 DEF Ingest
<1>5. CASE Handshake
  <2>1. /\ tunnel' = clock /\ UNCHANGED <<clock, making, sysTold>>
        /\ shook' = [k \in Node |-> IF k \in End THEN Unix(k) ELSE shook[k]]
    BY <1>5 DEF Handshake
  <2>2. shook'[n] = IF n \in End THEN Unix(n) ELSE shook[n]
    BY <2>1
  <2> HIDE DEF Unix
  <2> QED
    BY <2>1, <2>2
<1>6. CASE HubRestart
  BY <1>6 DEF HubRestart
<1>7. ASSUME NEW m \in Machine, StepClock(m) PROVE UNCHANGED <<clock, tunnel, shook, making, sysTold>>
  BY <1>7 DEF StepClock
<1>8. CASE Tick
  BY <1>8 DEF Tick
<1>9. CASE UNCHANGED vars
  BY <1>9 DEF vars
<1>10. ASSUME NEW m \in Node, Connect(m) \/ Reboot(m) \/ SendBeat(m)
       PROVE  /\ sysTold'[n] \in {sysTold[n], clock}
              /\ making'[n] # None => making[n] # None /\ making'[n] = making[n]
              /\ shook'[n] \in {shook[n], 0}
              /\ clock' = clock /\ tunnel' = tunnel
  <2>1. sysTold' \in {sysTold, [sysTold EXCEPT ![m] = clock]}
    BY <1>1, <1>2, <1>10
  <2>2. making' = [making EXCEPT ![m] = None]
    BY <1>1, <1>2, <1>10
  <2>3. shook' = shook \/ shook' = [shook EXCEPT ![m] = 0]
    BY <1>1, <1>2, <1>10
  <2>4. clock' = clock /\ tunnel' = tunnel
    BY <1>1, <1>2, <1>10
  <2>5. sysTold'[n] \in {sysTold[n], clock}
    BY <1>0, <2>1
  <2>6. making'[n] # None => making[n] # None /\ making'[n] = making[n]
    BY <1>0, <2>2
  <2>7. shook'[n] \in {shook[n], 0}
    BY <1>0, <2>3
  <2> QED
    BY <2>4, <2>5, <2>6, <2>7
<1>11. CASE UNCHANGED <<clock, tunnel, shook, making, sysTold>>
  BY <1>11
<1>12. ASSUME NEW m \in Node, StartBeat(m)
       PROVE  /\ UNCHANGED <<clock, tunnel, sysTold, shook>>
              /\ making'[n] # None =>
                   making'[n].at = clock \/ (making[n] # None /\ making'[n] = making[n])
  <2>1. PICK g \in Nat, b \in Beat : Started(m, g, b)
    BY <1>12, Starts
  <2>2. UNCHANGED <<clock, tunnel, sysTold, shook>>
    BY <1>12, Starts
  <2>3. making' = [making EXCEPT ![m] = b] /\ b.at = clock
    BY <2>1 DEF Started
  <2> QED
    BY <1>0, <2>2, <2>3
<1> QED
  BY <1>3, <1>4, <1>5, <1>6, <1>7, <1>8, <1>9, <1>10, <1>11, <1>12 DEF Next

\* Every step keeps the order and the age of the heartbeats under way.
LEMMA TimingStep ==
  ASSUME TypeOK, TypeOK', Timing, [Next]_vars
  PROVE  Timing'
<1> DEFINE Ages(n) == /\ \A i \in 1 .. Len(Out(n)) : Fresh(n, Out(n)[i])
                      /\ \A i, j \in 1 .. Len(Out(n)) : i < j => Out(n)[i].at <= Out(n)[j].at
<1>0. /\ clock \in Nat /\ clock' \in Nat /\ wgTold \in [Node -> Nat] /\ wgTold' \in [Node -> Nat]
      /\ sysTold \in [Node -> Nat] /\ shook \in [Node -> Nat]
      /\ \A h \in handling : h.node \in Node /\ h.beat \in Beat
      /\ \A h \in handling' : h.node \in Node /\ h.beat \in Beat
      /\ \A n \in Node : making'[n] \in Beat \cup {None} /\ making[n] \in Beat \cup {None}
      /\ Start <= clock /\ Start \in Nat /\ Collect \in Nat
  BY Positive DEF TypeOK, Timing
<1>1. ASSUME NEW n \in Node PROVE Len(Out(n)') \in Nat /\ \A i \in 1 .. Len(Out(n)') : Out(n)'[i] \in Beat
  <2>1. wire'[n] \in Seq(Beat) /\ making'[n] \in Beat \cup {None}
    BY DEF TypeOK
  <2>2. Out(n)' \in Seq(Beat)
    BY <2>1 DEF Out
  <2> QED
    BY <2>2
<1>2. ASSUME ~\E n \in Node : StartBeat(n)
      PROVE  /\ clock' \in {clock, clock + 1} /\ tunnel' \in {tunnel, clock}
             /\ \A n \in Node : wgTold'[n] <= clock' /\ Ages(n)'
             /\ \A h \in handling' : Fresh(h.node, h.beat)'
  <2>0. Quiet
    BY <1>2, QuietStep
  <2>1. /\ clock' \in {clock, clock + 1} /\ tunnel' \in {tunnel, clock}
        /\ \A n \in Node : wgTold[n] <= wgTold'[n] /\ wgTold'[n] <= clock'
    BY <2>0 DEF Quiet
  <2>2. ASSUME NEW n \in Node PROVE Ages(n)'
    <3>1. PICK d \in {0, 1} : \A i \in 1 .. Len(Out(n)') :
             i + d \in 1 .. Len(Out(n)) /\ Same(Out(n)'[i], Out(n)[i + d])
      BY <2>0 DEF Quiet, Moved
    <3>2. ASSUME NEW i \in 1 .. Len(Out(n)') PROVE Fresh(n, Out(n)[i])'
      <4>1. PICK c : c = Out(n)'[i]
        OBVIOUS
      <4>2. PICK b : b = Out(n)[i + d]
        OBVIOUS
      <4>3. b \in Beat /\ Fresh(n, b) /\ Same(c, b)
        BY <3>1, <4>1, <4>2, OnWay DEF Timing
      <4>4. c \in Beat
        BY <1>1, <4>1
      <4>5. clock' <= c.at + MaxDelay
        BY <2>0, <4>1 DEF Quiet
      <4>6. Fresh(n, c)'
        BY <2>1, <4>3, <4>4, <4>5, FreshStep
      <4> QED
        BY <4>1, <4>6 DEF Fresh
    <3>3. ASSUME NEW i \in 1 .. Len(Out(n)'), NEW j \in 1 .. Len(Out(n)'), i < j
          PROVE  Out(n)'[i].at <= Out(n)'[j].at
      <4>1. /\ i + d \in 1 .. Len(Out(n)) /\ Same(Out(n)'[i], Out(n)[i + d])
            /\ j + d \in 1 .. Len(Out(n)) /\ Same(Out(n)'[j], Out(n)[j + d]) /\ i + d < j + d
        BY <1>1, <3>1, <3>3
      <4> QED
        BY <4>1 DEF Timing, Same
    <3> QED
      BY <3>2, <3>3
  <2>3. ASSUME NEW h \in handling' PROVE Fresh(h.node, h.beat)'
    <3>1. h.node \in Node /\ h.beat \in Beat
      BY <1>0
    <3>2. Fresh(h.node, h.beat)
      <4>1. CASE h \in handling
        BY <4>1 DEF Timing
      <4>2. CASE 1 \in 1 .. Len(wire[h.node]) /\ h.beat = wire[h.node][1]
        BY <3>1, <4>2, OutIs DEF Timing
      <4> QED
        BY <2>0, <4>1, <4>2 DEF Quiet
    <3>3. clock' <= h.beat.at + MaxDelay /\ Same(h.beat, h.beat)
      BY <2>0 DEF Quiet, Same
    <3> QED
      BY <2>1, <3>1, <3>2, <3>3, FreshStep
  <2> QED
    BY <2>1, <2>2, <2>3
<1>3. ASSUME NEW n \in Node, StartBeat(n)
      PROVE  /\ UNCHANGED <<clock, tunnel, sysTold, shook>>
             /\ \A m \in Node : wgTold'[m] <= clock' /\ Ages(m)'
             /\ \A h \in handling' : Fresh(h.node, h.beat)'
  <2>1. PICK g \in Nat, b \in Beat : Started(n, g, b)
    BY <1>3, Starts
  <2>2. UNCHANGED <<clock, wire, handling, tunnel, sysTold, shook>>
    BY <1>3, Starts DEF clockVars, hubVars, ghosts
  <2>3. /\ wgTold' = [wgTold EXCEPT ![n] = clock] /\ making' = [making EXCEPT ![n] = b]
        /\ Stamped(b.ts, b.at, b.off) /\ b.at = clock /\ b.hs = shook[n]
    BY <2>1 DEF Started
  <2>4. /\ \A m \in Node : wgTold[m] <= clock
        /\ Shaken(shook[n])
    BY DEF Timing
  <2>5. \A m \in Node : wgTold[m] <= wgTold'[m] /\ wgTold'[m] <= clock'
    BY <1>0, <2>2, <2>3, <2>4
  <2>6. Fresh(n, b)'
    <3>1. wgTold'[n] = clock /\ clock <= clock + MaxDelay
      BY <1>0, <2>3, Positive
    <3>2. Shaken(b.hs)'
      BY <2>2, <2>3, <2>4 DEF Shaken
    <3>3. b.at <= wgTold'[n] /\ clock' <= b.at + MaxDelay
      BY <1>0, <2>2, <2>3, <3>1
    <3>4. Stamped(b.ts, b.at, b.off)'
      BY <2>3 DEF Stamped
    <3> QED
      BY <3>2, <3>3, <3>4, Zenon DEF Fresh
  <2>7. ASSUME NEW m \in Node, NEW c \in Beat, Fresh(m, c) PROVE Fresh(m, c)'
    <3>1. clock' <= c.at + MaxDelay /\ Same(c, c) /\ tunnel' \in {tunnel, clock}
      BY <2>2, <2>7 DEF Fresh, Same
    <3> QED
      BY <2>5, <2>7, <3>1, FreshStep
  <2>8. ASSUME NEW m \in Node, m # n PROVE Ages(m)'
    <3>1. Out(m)' = Out(m)
      BY <1>3, <2>1, <2>2, <2>8, StartOut
    <3>2. ASSUME NEW i \in 1 .. Len(Out(m)') PROVE Fresh(m, Out(m)[i])'
      <4>1. PICK c : c = Out(m)[i]
        OBVIOUS
      <4>2. c \in Beat /\ Fresh(m, c)
        BY <3>1, <4>1, OnWay DEF Timing
      <4>3. Fresh(m, c)'
        BY <2>7, <4>2
      <4> QED
        BY <3>1, <4>1, <4>3 DEF Fresh
    <3> QED
      BY <3>1, <3>2 DEF Timing
  <2>9. Ages(n)'
    <3>1. PICK p, q : p = Out(n) /\ q = Out(n)'
      OBVIOUS
    <3>2. /\ Len(p) \in Nat /\ Len(q) = Len(p) + 1 /\ q[Len(q)] = b
          /\ \A i \in 1 .. Len(p) : q[i] = p[i]
          /\ \A i \in 1 .. Len(q) : i \in 1 .. Len(p) \/ i = Len(q)
      BY <1>3, <2>1, <2>2, <3>1, StartOut
    <3>3. \A i \in 1 .. Len(p) : p[i] \in Beat /\ Fresh(n, p[i]) /\ p[i].at \in Nat
      BY <3>1, OnWay DEF Timing
    <3>4. ASSUME NEW i \in 1 .. Len(q) PROVE Fresh(n, q[i])'
      <4>1. PICK c : c = q[i]
        OBVIOUS
      <4>2. c = b \/ (c \in Beat /\ Fresh(n, c))
        BY <3>2, <3>3, <4>1
      <4>3. Fresh(n, c)'
        BY <2>6, <2>7, <4>2
      <4> QED
        BY <4>1, <4>3
    <3>5. ASSUME NEW i \in 1 .. Len(q), NEW j \in 1 .. Len(q), i < j PROVE q[i].at <= q[j].at
      <4>1. i \in 1 .. Len(p) /\ q[i] = p[i]
        BY <3>2, <3>5
      <4>2. CASE j \in 1 .. Len(p)
        BY <3>1, <3>2, <3>5, <4>1, <4>2 DEF Timing
      <4>3. CASE j = Len(q)
        <5>1. q[j].at = clock
          BY <2>3, <3>2, <4>3
        <5>2. p[i].at <= clock
          <6>1. p[i].at <= wgTold[n] /\ wgTold[n] \in Nat /\ p[i].at \in Nat
            BY <1>0, <3>3, <4>1 DEF Fresh
          <6> QED
            BY <1>0, <2>4, <6>1
        <5> QED
          BY <4>1, <5>1, <5>2
      <4> QED
        BY <3>2, <4>2, <4>3
    <3>6. \A i \in 1 .. Len(Out(n)') : Fresh(n, Out(n)[i])'
      <4> SUFFICES ASSUME NEW i \in 1 .. Len(Out(n)') PROVE Fresh(n, Out(n)[i])'
        OBVIOUS
      <4>1. PICK c : c = q[i]
        OBVIOUS
      <4>2. Fresh(n, c)' /\ c = Out(n)'[i]
        BY <3>1, <3>4, <4>1
      <4> QED
        BY <4>2 DEF Fresh
    <3> QED
      BY <3>1, <3>5, <3>6
  <2>10. ASSUME NEW h \in handling' PROVE Fresh(h.node, h.beat)'
    <3>1. h.node \in Node /\ h.beat \in Beat /\ Fresh(h.node, h.beat)
      BY <1>0, <2>2 DEF Timing
    <3> QED
      BY <2>7, <3>1
  <2> QED
    BY <2>2, <2>5, <2>8, <2>9, <2>10
<1> HIDE DEF Ages
<1>4. clock' \in {clock, clock + 1} /\ (clock' = clock \/ Tick) /\ tunnel' \in {tunnel, clock}
  <2>1. clock' \in {clock, clock + 1} /\ tunnel' \in {tunnel, clock}
    BY <1>2, <1>3
  <2>2. clock' = clock \/ Tick
    <3>1. PICK a \in Node : TRUE
      BY EndAssumption
    <3> QED
      BY Gauges, <3>1
  <2> QED
    BY <2>1, <2>2
<1>5. Start <= clock' /\ (tunnel' # None => tunnel' <= clock')
  <2>1. tunnel \in Nat \cup {None} /\ (tunnel # None => tunnel <= clock)
    BY DEF TypeOK, Timing
  <2> QED
    BY <1>0, <1>4, <2>1
<1>6. ASSUME NEW n \in Node PROVE sysTold'[n] <= clock' /\ Shaken(shook[n])'
  <2>1. sysTold[n] <= clock /\ sysTold[n] \in Nat /\ Shaken(shook[n]) /\ shook[n] \in Nat
    BY <1>0 DEF Timing
  <2>2. sysTold'[n] <= clock'
    BY <1>0, <1>4, <2>1, Gauges
  <2>3. PICK s, t : s = shook[n] /\ t = shook'[n]
    OBVIOUS
  <2>4. Shaken(s)'
    BY <1>4, <2>1, <2>3, ShakenStep
  <2>5. Shaken(t)'
    <3>1. CASE t \in {s, 0}
      BY <2>4, <3>1 DEF Shaken
    <3>2. CASE tunnel' = clock /\ t = Unix(n)
      <4>1. n \in Machine /\ off[n] \in Offset /\ clock \in Int /\ Start <= clock
        BY <1>0, Positive DEF TypeOK
      <4>2. t = (clock + off[n]) \div Sec
        BY <3>2 DEF Unix
      <4>3. Sec * t <= clock + off[n] /\ clock + off[n] <= clock + Ahead /\ Sec * t \in Nat /\ off[n] \in Int
        BY <4>1, <4>2, Seconds
      <4>4. tunnel' # None /\ Sec * t <= tunnel' + Ahead
        BY <1>0, <3>2, <4>3, NoneAssumption, Positive
      <4> QED
        BY <4>4 DEF Shaken
    <3> QED
      BY <2>3, <3>1, <3>2, Gauges
  <2> QED
    BY <2>2, <2>3, <2>5 DEF Shaken
<1>7. ASSUME NEW n \in Node, making'[n] # None PROVE clock' <= making'[n].at + Collect
  <2>1. CASE clock' = clock
    <3>1. making[n] # None => clock <= making[n].at + Collect
      BY DEF Timing
    <3>2. clock <= clock + Collect
      BY <1>0
    <3> QED
      BY <1>7, <2>1, <3>1, <3>2, Gauges
  <2>2. CASE Tick
    <3>1. making' = making /\ clock' = clock + 1 /\ (making[n] # None => clock < making[n].at + Collect)
      BY <2>2 DEF Tick, agentVars
    <3>2. making[n] \in Beat
      BY <1>0, <1>7, <3>1
    <3>3. making[n].at \in Nat
      BY <3>2 DEF Beat
    <3> QED
      BY <1>0, <1>7, <3>1, <3>3
  <2> QED
    BY <1>4, <2>1, <2>2
<1>8. /\ \A n \in Node : wgTold'[n] <= clock' /\ Ages(n)'
      /\ \A h \in handling' : Fresh(h.node, h.beat)'
  BY <1>2, <1>3
<1> QED
  BY <1>5, <1>6, <1>7, <1>8 DEF Timing, Ages

------------------------------------------------------------------------------
(* Counters of machines                                                     *)

\* Only Ingest writes into a ring; Drop and a restart of the hub empty it.
LEMMA RingKept ==
  ASSUME TypeOK, Histories, [Next]_vars, ~\E h \in handling : Ingest(h), NEW n \in Node
  PROVE  \/ ring'[n] = ring[n] /\ hist'[n] = hist[n]
         \/ ring'[n] = None /\ DOMAIN hist'[n] = {}
<1> USE DEF clockVars, agentVars, hubVars, ghosts
<1>1. ASSUME NEW m \in Node, Drop(m)
      PROVE  \/ ring'[n] = ring[n] /\ hist'[n] = hist[n]
             \/ ring'[n] = None /\ DOMAIN hist'[n] = {}
  <2>1. ring' = [ring EXCEPT ![m] = None] /\ hist' = [hist EXCEPT ![m] = <<>>]
    BY <1>1 DEF Drop
  <2>2. ring'[n] = IF n = m THEN None ELSE ring[n]
    BY <2>1 DEF TypeOK
  <2>3. hist'[n] = IF n = m THEN <<>> ELSE hist[n]
    BY <2>1 DEF Histories
  <2> QED
    BY <2>2, <2>3
<1>2. CASE HubRestart
  BY <1>2 DEF HubRestart
<1>3. CASE UNCHANGED <<ring, hist>>
  BY <1>3
<1>4. ASSUME NEW m \in Node,
             Connect(m) \/ StartBeat(m) \/ SendBeat(m) \/ Reboot(m) \/ HandleHeartbeat(m) \/ DeleteNode(m)
      PROVE  UNCHANGED <<ring, hist>>
  BY <1>4 DEF Connect, StartBeat, SendBeat, Reboot, HandleHeartbeat, DeleteNode
<1>5. ASSUME Handshake \/ Tick \/ UNCHANGED vars \/ (\E m \in Machine : StepClock(m))
      PROVE  UNCHANGED <<ring, hist>>
  BY <1>5 DEF Handshake, Tick, vars, StepClock
<1> QED
  BY <1>1, <1>2, <1>3, <1>4, <1>5 DEF Next

\* A report is a time and a counter.
LEMMA ReportTypes ==
  ASSUME TypeOK, NEW n \in Node, NEW a \in Reports(n)
  PROVE  a.at \in Nat /\ a.sys \in Nat
<1>1. ASSUME NEW b \in Beat, a = [at |-> b.at, sys |-> b.sys] PROVE a.at \in Nat /\ a.sys \in Nat
  BY <1>1 DEF Beat
<1>2. ASSUME NEW i \in 1 .. Len(wire[n]) PROVE wire[n][i] \in Beat
  BY DEF TypeOK
<1>3. ASSUME NEW h \in handling PROVE h.beat \in Beat
  BY DEF TypeOK
<1>4. ASSUME ring[n] # None, a = [at |-> ring[n].at, sys |-> ring[n].prev]
      PROVE  a.at \in Nat /\ a.sys \in Nat
  <2>1. ring[n] \in NodeRing
    BY <1>4 DEF TypeOK
  <2> QED
    BY <1>4, <2>1 DEF NodeRing
<1> QED
  BY <1>1, <1>2, <1>3, <1>4 DEF Reports

\* What every step but SendBeat does to the heartbeats sent and to the counters.
LEMMA Unsent ==
  ASSUME TypeOK, Timing, [Next]_vars, ~\E m \in Node : SendBeat(m), NEW n \in Node
  PROVE  /\ \A i \in 1 .. Len(wire'[n]) : \E j \in 1 .. Len(wire[n]) : wire'[n][i] = wire[n][j]
         /\ \A h \in handling' : h \in handling \/ (1 \in 1 .. Len(wire[h.node]) /\ h.beat = wire[h.node][1])
         /\ sys'[n] \in {0, sys[n]}
         /\ blank' = blank
<1> USE DEF clockVars, countVars, agentVars, hubVars, ghosts
<1>0. wire \in [Node -> Seq(Beat)] /\ sys \in [Node -> Nat]
  BY DEF TypeOK
<1>1. CASE UNCHANGED <<wire, sys, blank>> /\ handling' \subseteq handling
  BY <1>1
<1>2. ASSUME NEW m \in Node, Connect(m) \/ Reboot(m)
      PROVE  /\ wire' = [wire EXCEPT ![m] = <<>>] /\ handling' = handling /\ blank' = blank
             /\ sys' \in {sys, [sys EXCEPT ![m] = 0]}
  BY <1>2 DEF Connect, Reboot
<1>3. ASSUME NEW m \in Node, Connect(m) \/ Reboot(m)
      PROVE  /\ \A i \in 1 .. Len(wire'[n]) : \E j \in 1 .. Len(wire[n]) : wire'[n][i] = wire[n][j]
             /\ sys'[n] \in {0, sys[n]} /\ handling' = handling /\ blank' = blank
  <2>1. wire'[n] = IF n = m THEN <<>> ELSE wire[n]
    BY <1>0, <1>2, <1>3
  <2>2. sys'[n] \in {0, sys[n]}
    <3>1. sys' = sys \/ sys' = [sys EXCEPT ![m] = 0]
      BY <1>2, <1>3
    <3> QED
      BY <1>0, <3>1
  <2> QED
    BY <1>2, <1>3, <2>1, <2>2
<1>4. ASSUME NEW m \in Node, HandleHeartbeat(m)
      PROVE  /\ \A i \in 1 .. Len(wire'[n]) : \E j \in 1 .. Len(wire[n]) : wire'[n][i] = wire[n][j]
             /\ \A h \in handling' : \/ h \in handling
                                     \/ (1 \in 1 .. Len(wire[h.node]) /\ h.beat = wire[h.node][1])
             /\ sys' = sys /\ blank' = blank
  <2>1. /\ UNCHANGED <<sys, blank>>
        /\ 1 \in 1 .. Len(wire[m]) /\ Head(wire[m]) = wire[m][1]
        /\ wire' = [wire EXCEPT ![m] = Tail(wire[m])]
        /\ \A i \in 1 .. Len(Tail(wire[m])) :
             i + 1 \in 1 .. Len(wire[m]) /\ Tail(wire[m])[i] = wire[m][i + 1]
        /\ handling' = handling \cup {[node |-> m, conn |-> conn[m], beat |-> Head(wire[m])]}
    BY <1>4, Taken
  <2>2. wire'[n] = IF n = m THEN Tail(wire[n]) ELSE wire[n]
    BY <1>0, <2>1
  <2> QED
    BY <2>1, <2>2
<1>5. ASSUME NEW m \in Node, StartBeat(m) \/ DeleteNode(m) \/ Drop(m)
      PROVE  UNCHANGED <<wire, sys, blank>> /\ handling' \subseteq handling
  BY <1>5 DEF StartBeat, DeleteNode, Drop
<1>6. ASSUME NEW h \in handling, Ingest(h)
      PROVE  UNCHANGED <<wire, sys, blank>> /\ handling' \subseteq handling
  BY <1>6 DEF Ingest
<1>7. ASSUME Handshake \/ Tick \/ UNCHANGED vars \/ (\E m \in Machine : StepClock(m))
      PROVE  UNCHANGED <<wire, sys, blank>> /\ handling' \subseteq handling
  BY <1>7 DEF Handshake, Tick, vars, StepClock
<1>8. CASE HubRestart
  <2>1. wire' = [m \in Node |-> <<>>] /\ handling' = {} /\ UNCHANGED <<sys, blank>>
    BY <1>8 DEF HubRestart
  <2> QED
    BY <2>1
<1> QED
  BY <1>1, <1>3, <1>4, <1>5, <1>6, <1>7, <1>8 DEF Next

\* But for what an agent sends, no report appears that was not there: a
\* heartbeat goes from the wire to a goroutine and from there into the ring.
LEMMA ReportsMove ==
  ASSUME TypeOK, Timing, [Next]_vars, ~\E m \in Node : SendBeat(m), NEW n \in Node,
         \/ ring'[n] \in {ring[n], None}
         \/ \E h \in handling : h.node = n /\ ring'[n].at = h.beat.at /\ ring'[n].prev = h.beat.sys
  PROVE  Reports(n)' \subseteq Reports(n)
<1> SUFFICES ASSUME NEW a \in Reports(n)' PROVE a \in Reports(n)
  OBVIOUS
<1>1. ASSUME NEW i \in 1 .. Len(wire'[n]), a = [at |-> wire'[n][i].at, sys |-> wire'[n][i].sys]
      PROVE  a \in Reports(n)
  <2>1. PICK j \in 1 .. Len(wire[n]) : wire'[n][i] = wire[n][j]
    BY Unsent
  <2> QED
    BY <1>1, <2>1 DEF Reports
<1>2. ASSUME NEW h \in handling', h.node = n, a = [at |-> h.beat.at, sys |-> h.beat.sys]
      PROVE  a \in Reports(n)
  <2>1. CASE h \in handling
    BY <1>2, <2>1 DEF Reports
  <2>2. CASE 1 \in 1 .. Len(wire[n]) /\ h.beat = wire[n][1]
    BY <1>2, <2>2 DEF Reports
  <2> QED
    BY <1>2, <2>1, <2>2, Unsent
<1>3. ASSUME ring'[n] # None, a = [at |-> ring'[n].at, sys |-> ring'[n].prev]
      PROVE  a \in Reports(n)
  <2>1. CASE ring'[n] = ring[n]
    BY <1>3, <2>1 DEF Reports
  <2>2. ASSUME NEW h \in handling, h.node = n, ring'[n].at = h.beat.at, ring'[n].prev = h.beat.sys
        PROVE  a \in Reports(n)
    BY <1>3, <2>2 DEF Reports
  <2> QED
    BY <1>3, <2>1, <2>2
<1> QED
  BY <1>1, <1>2, <1>3 DEF Reports

\* A machine's counter grows with time, or starts again.
LEMMA SlowStep ==
  ASSUME TypeOK, TypeOK', Timing, [Next]_vars, NEW n \in Node, Slow(n),
         sys'[n] \in {0, sys[n]}, Reports(n)' \subseteq Reports(n)
  PROVE  Slow(n)'
<1>0. /\ sys[n] \in Nat /\ sysTold[n] \in Nat /\ clock \in Nat /\ sysTold[n] <= clock
      /\ sysTold'[n] \in {sysTold[n], clock}
      /\ making'[n] # None =>
           making'[n].at = clock \/ (making[n] # None /\ making'[n] = making[n])
  BY Gauges DEF TypeOK, Timing
<1>1. ASSUME NEW a \in Reports(n)'
      PROVE  /\ a.at <= sysTold'[n]
             /\ sys'[n] - a.sys <= Speed * (sysTold'[n] - a.at)
             /\ making'[n] # None => a.at <= making'[n].at
  <2>1. a \in Reports(n) /\ a.at \in Nat /\ a.sys \in Nat
    BY ReportTypes
  <2>2. /\ a.at <= sysTold[n] /\ sys[n] - a.sys <= Speed * (sysTold[n] - a.at)
        /\ making[n] # None => a.at <= making[n].at
    BY <2>1 DEF Slow
  <2>3. PICK x, y, c, d : /\ x = sysTold[n] - a.at /\ y = sysTold'[n] - a.at
                          /\ c = sys[n] - a.sys /\ d = sys'[n] - a.sys
    OBVIOUS
  <2>4. x \in Int /\ y \in Int /\ c \in Int /\ d \in Int /\ x <= y /\ 0 <= y /\ (d <= c)
    BY <1>0, <2>1, <2>2, <2>3
  <2>5. c <= Speed * x
    BY <2>2, <2>3
  <2>6. c <= Speed * y /\ Speed * y \in Int
    BY <2>4, <2>5, Growth
  <2>7. d <= Speed * y
    BY <2>4, <2>6
  <2>8. a.at <= sysTold'[n]
    BY <1>0, <2>1, <2>2
  <2>9. making'[n] # None => a.at <= making'[n].at
    BY <1>0, <2>1, <2>2
  <2> QED
    BY <2>3, <2>7, <2>8, <2>9
<1>2. \A a, b \in Reports(n)' : a.at > b.at => a.sys - b.sys <= Speed * (a.at + Collect - b.at)
  BY DEF Slow
<1> QED
  BY <1>1, <1>2 DEF Slow

\* A new report has grown no faster since any report before it.
LEMMA SlowSend ==
  ASSUME TypeOK, Timing, NEW n \in Node, Slow(n), NEW g \in Nat, NEW new, NEW m \in Beat,
         making[n] # None, m = making[n],
         g - sys[n] <= Speed * (clock - sysTold[n]), sys'[n] = g, sysTold'[n] = clock,
         making'[n] = None, new = [at |-> m.at, sys |-> g],
         Reports(n)' \subseteq Reports(n) \cup {new}
  PROVE  Slow(n)'
<1>0. /\ sys[n] \in Nat /\ sysTold[n] \in Nat /\ clock \in Nat /\ sysTold[n] <= clock
      /\ m.at \in Nat /\ clock <= m.at + Collect /\ Collect \in Nat /\ m.at <= clock
  <2>1. /\ sys[n] \in Nat /\ sysTold[n] \in Nat /\ clock \in Nat /\ sysTold[n] <= clock
        /\ m.at \in Nat /\ clock <= m.at + Collect /\ Collect \in Nat
    BY Positive DEF TypeOK, Timing, Beat
  <2>2. m.at <= wgTold[n] /\ wgTold[n] <= clock /\ wgTold[n] \in Nat
    <3>1. Len(wire[n]) + 1 \in 1 .. Len(Out(n)) /\ Out(n)[Len(wire[n]) + 1] = m
      <4>1. /\ Len(wire[n]) \in Nat /\ Len(Out(n)) = Len(wire[n]) + 1
            /\ Out(n)[Len(wire[n]) + 1] = making[n]
        BY OutIs, Zenon
      <4> QED
        BY <4>1
    <3>2. PICK i \in 1 .. Len(Out(n)) : Out(n)[i] = m
      BY <3>1
    <3> QED
      BY <3>2 DEF Timing, Fresh, TypeOK
  <2> QED
    BY <2>1, <2>2
<1>1. ASSUME NEW a \in Reports(n)
      PROVE  /\ a.at \in Nat /\ a.sys \in Nat /\ a.at <= clock /\ a.at <= m.at
             /\ g - a.sys <= Speed * (clock - a.at)
             /\ g - a.sys <= Speed * (m.at + Collect - a.at)
  <2>1. a.at \in Nat /\ a.sys \in Nat
    BY ReportTypes
  <2>2. a.at <= sysTold[n] /\ sys[n] - a.sys <= Speed * (sysTold[n] - a.at) /\ a.at <= m.at
    BY DEF Slow
  <2>3. PICK x, y, z, w, c, d : /\ x = sysTold[n] - a.at /\ y = clock - sysTold[n]
                                /\ z = clock - a.at /\ w = m.at + Collect - a.at
                                /\ c = sys[n] - a.sys /\ d = g - sys[n]
    OBVIOUS
  <2>4. /\ x \in Int /\ y \in Int /\ z \in Int /\ w \in Int /\ c \in Int /\ d \in Int
        /\ x + y = z /\ z <= w /\ c + d = g - a.sys
    BY <1>0, <2>1, <2>2, <2>3
  <2>5. c <= Speed * x /\ d <= Speed * y
    BY <2>2, <2>3
  <2>6. c + d <= Speed * z
    BY <2>4, <2>5, Growth
  <2>7. c + d \in Int
    BY <2>4
  <2>8. c + d <= Speed * w
    BY <2>4, <2>6, <2>7, Growth
  <2>9. a.at <= clock
    BY <1>0, <2>1, <2>2
  <2> QED
    BY <2>1, <2>2, <2>3, <2>4, <2>6, <2>8, <2>9
<1>2. new.at = m.at /\ new.sys = g
  OBVIOUS
<1>3. ASSUME NEW a \in Reports(n)'
      PROVE  /\ a.at <= sysTold'[n] /\ sys'[n] - a.sys <= Speed * (sysTold'[n] - a.at)
             /\ making'[n] # None => a.at <= making'[n].at
  <2>1. CASE a \in Reports(n)
    BY <1>1, <2>1
  <2>2. CASE a = new
    <3>1. PICK d : d = clock - m.at
      OBVIOUS
    <3>2. d \in Int /\ 0 <= d
      BY <1>0, <3>1
    <3>3. 0 <= Speed * d
      BY <3>2, Growth
    <3>4. sys'[n] - a.sys = 0 /\ sysTold'[n] - a.at = d
      BY <1>2, <2>2, <3>1
    <3> QED
      BY <1>0, <1>2, <2>2, <3>3, <3>4
  <2> QED
    BY <2>1, <2>2
<1>4. ASSUME NEW a \in Reports(n)', NEW b \in Reports(n)', a.at > b.at
      PROVE  a.sys - b.sys <= Speed * (a.at + Collect - b.at)
  <2>1. CASE a \in Reports(n) /\ b \in Reports(n)
    BY <1>4, <2>1 DEF Slow
  <2>2. CASE a = new /\ b \in Reports(n)
    BY <1>1, <1>2, <2>2
  <2>3. ~(b = new)
    <3> SUFFICES ASSUME b = new PROVE FALSE
      OBVIOUS
    <3>1. a = new \/ (a.at \in Nat /\ a.at <= m.at)
      BY <1>1
    <3> QED
      BY <1>0, <1>2, <1>4, <3>1
  <2> QED
    BY <2>1, <2>2, <2>3
<1> QED
  BY <1>3, <1>4 DEF Slow

\* The rate that Ingest computes is between two reports, or zero: the whole
\* seconds between two stamps of one clock are less than one second short.
LEMMA RateSlow ==
  ASSUME TypeOK, Timing, Kept, NEW n \in Node, Slow(n), NEW h \in handling, h.node = n,
         NEW s, s = SampleOf(n, h.beat), s.steady
  PROVE  s.bytes <= Speed * (Sec * (s.secs + 1) + Collect)
<1>1. PICK b, r, d : b = h.beat /\ r = RingOf(n) /\ d = Rate(r, b)
  OBVIOUS
<1>2. s.bytes = d.bytes /\ s.secs = d.secs /\ d.steady
  BY <1>1 DEF SampleOf
<1>3. CASE r.last > 0 /\ b.ts > r.last /\ b.sys >= r.prev
  <2>1. d = [bytes |-> b.sys - r.prev, secs |-> b.ts - r.last, steady |-> b.off = r.off]
    BY <1>1, <1>3, Zenon DEF Rate, Difference
  <2>2. ring[n] # None /\ r = ring[n]
    <3>1. NewRing.last = 0
      BY DEF NewRing
    <3> QED
      BY <1>1, <1>3, <3>1 DEF RingOf
  <2>3. PICK x, y : x = [at |-> b.at, sys |-> b.sys] /\ y = [at |-> r.at, sys |-> r.prev]
    OBVIOUS
  <2>4. x \in Reports(n) /\ y \in Reports(n)
    BY <1>1, <2>2, <2>3 DEF Reports
  <2>5. x.at > y.at => x.sys - y.sys <= Speed * (x.at + Collect - y.at)
    BY <2>4 DEF Slow
  <2>6. b.at > r.at => b.sys - r.prev <= Speed * (b.at + Collect - r.at)
    BY <2>3, <2>5
  <2>7. b.off = r.off
    BY <1>2, <2>1, Zenon
  <2>8. /\ b.at \in Nat /\ b.ts \in Nat /\ b.sys \in Nat /\ r.at \in Nat /\ r.last \in Nat
        /\ r.prev \in Nat
    <3>1. b \in Beat /\ r \in NodeRing
      BY <1>1, <2>2 DEF TypeOK
    <3> QED
      BY <3>1 DEF Beat, NodeRing
  <2>9. PICK u, v, o : u = r.last /\ v = b.ts /\ o = b.off
    OBVIOUS
  <2>10. Stamped(u, r.at, o) /\ Stamped(v, b.at, o) /\ u < v
    BY <1>1, <1>3, <2>2, <2>7, <2>8, <2>9 DEF Kept, Timing, Fresh
  <2>11. o \in Offset
    BY <2>10 DEF Stamped
  <2>12. r.at < b.at /\ b.at - r.at < Sec * (v - u + 1)
    BY <2>8, <2>9, <2>10, <2>11, Apart
  <2>13. PICK w, z, c : /\ w = b.at + Collect - r.at /\ z = Sec * (v - u + 1) + Collect
                        /\ c = b.sys - r.prev
    OBVIOUS
  <2>14. w \in Int /\ z \in Int /\ c \in Int /\ w <= z
    <3>1. PICK k : k = Sec * (v - u + 1)
      OBVIOUS
    <3>2. k \in Int
      BY <2>8, <2>9, <3>1, Positive
    <3> QED
      BY <2>8, <2>12, <2>13, <3>1, <3>2, Positive
  <2>15. c <= Speed * w
    BY <2>6, <2>8, <2>12, <2>13
  <2>16. c <= Speed * z
    BY <2>14, <2>15, Growth
  <2> QED
    BY <1>2, <2>1, <2>9, <2>13, <2>16, Zenon
<1>4. CASE ~(r.last > 0 /\ b.ts > r.last /\ b.sys >= r.prev)
  <2>1. d = [bytes |-> 0, secs |-> 0, steady |-> TRUE]
    BY <1>1, <1>4, Zenon DEF Rate, NoRate
  <2>2. PICK z : z = Sec * (0 + 1) + Collect
    OBVIOUS
  <2>3. z \in Int /\ 0 <= z
    BY <2>2, Positive
  <2>4. 0 <= Speed * z
    BY <2>3, Growth
  <2> QED
    BY <1>2, <2>1, <2>2, <2>4
<1> QED
  BY <1>3, <1>4

\* A ring remembers stamps of real heartbeats.
LEMMA KeptStep ==
  ASSUME TypeOK, Histories, Timing, Kept, [Next]_vars
  PROVE  Kept'
<1> SUFFICES ASSUME NEW n \in Node, ring'[n] # None
             PROVE  Stamped(ring[n].last, ring[n].at, ring[n].off)'
  BY DEF Kept
<1>1. CASE ring'[n] = ring[n]
  BY <1>1 DEF Kept, Stamped
<1>2. ASSUME NEW h \in handling, Ingest(h) PROVE Stamped(ring[n].last, ring[n].at, ring[n].off)'
  <2>1. PICK m, b, r, s : m = h.node /\ b = h.beat /\ r = RingOf(m) /\ s = SampleOf(m, b)
    OBVIOUS
  <2>2. /\ n # m => ring'[n] = ring[n]
        /\ n = m => ring'[n] = RingWith(r, b, s)
    BY <1>2, <2>1, Ingested
  <2>3. CASE n = m
    <3>1. ring'[n].last = b.ts /\ ring'[n].at = b.at /\ ring'[n].off = b.off
      BY <2>2, <2>3 DEF RingWith
    <3>2. Stamped(b.ts, b.at, b.off)
      BY <2>1 DEF Timing, Fresh
    <3> QED
      BY <3>1, <3>2 DEF Stamped
  <2> QED
    BY <1>1, <2>2, <2>3
<1> QED
  BY <1>1, <1>2, RingKept

\* What Ingest does to a node whose counters are reported.
LEMMA BoundedIngest ==
  ASSUME TypeOK, Histories, Timing, Kept, NEW n \in Node, Slow(n), Bounded(n),
         NEW h \in handling, Ingest(h)
  PROVE  /\ Bounded(n)'
         /\ n = h.node => ring'[n].at = h.beat.at /\ ring'[n].prev = h.beat.sys
         /\ n # h.node => ring'[n] = ring[n] /\ hist'[n] = hist[n]
<1>1. PICK m, b, r, s : m = h.node /\ b = h.beat /\ r = RingOf(m) /\ s = SampleOf(m, b)
  OBVIOUS
<1>2. /\ n # m => ring'[n] = ring[n] /\ hist'[n] = hist[n]
      /\ n = m => ring'[n] = RingWith(r, b, s) /\ hist'[n] = HistWith(m, s)
  BY <1>1, Ingested
<1>3. CASE n # m
  BY <1>1, <1>2, <1>3 DEF Bounded
<1>4. CASE n = m
  <2>1. ring'[n].at = h.beat.at /\ ring'[n].prev = h.beat.sys
    BY <1>1, <1>2, <1>4 DEF RingWith
  <2>2. s.steady => s.bytes <= Speed * (Sec * (s.secs + 1) + Collect)
    BY <1>1, <1>4, RateSlow
  <2>3. hist'[n] = [t \in DOMAIN hist[n] \cup {s.ts} |-> IF t = s.ts THEN s ELSE hist[n][t]]
    BY <1>2, <1>4 DEF HistWith
  <2>4. PICK H, now : H = hist[n] /\ now = hist'[n]
    OBVIOUS
  <2>5. ASSUME NEW t \in DOMAIN now, now[t].steady
        PROVE  now[t].bytes <= Speed * (Sec * (now[t].secs + 1) + Collect)
    <3>1. now[t] = s \/ (t \in DOMAIN H /\ now[t] = H[t])
      BY <2>3, <2>4
    <3>2. CASE now[t] = s
      BY <2>2, <2>5, <3>2
    <3>3. CASE t \in DOMAIN H /\ now[t] = H[t]
      <4>1. H[t].steady => H[t].bytes <= Speed * (Sec * (H[t].secs + 1) + Collect)
        BY <2>4, <3>3, Zenon DEF Bounded
      <4> QED
        BY <2>5, <3>3, <4>1
    <3> QED
      BY <3>1, <3>2, <3>3
  <2>6. Bounded(n)'
    BY <2>4, <2>5, Zenon DEF Bounded
  <2> QED
    BY <1>1, <1>4, <2>1, <2>6
<1> QED
  BY <1>3, <1>4

\* Every step keeps the rates of the curve below what a machine can carry.
LEMMA CountersStep ==
  ASSUME TypeOK, TypeOK', Histories, Timing, Counters, Kept, [Next]_vars
  PROVE  Counters'
<1> SUFFICES ASSUME NEW n \in Node, n \notin blank'
             PROVE  Slow(n)' /\ Bounded(n)'
  BY DEF Counters
<1>1. ASSUME NEW m \in Node, SendBeat(m) PROVE Slow(n)' /\ n \notin blank /\ hist' = hist
  <2>1. PICK g \in Nat, b \in Beat : Sent(m, g, b)
    BY <1>1, Sends
  <2>2. UNCHANGED <<clock, handling, ring, hist>>
    BY <1>1, Sends DEF clockVars, hubVars
  <2>3. /\ making[m] # None /\ g - sys[m] <= Speed * (clock - sysTold[m])
        /\ sys' = [sys EXCEPT ![m] = g] /\ sysTold' = [sysTold EXCEPT ![m] = clock]
        /\ making' = [making EXCEPT ![m] = None]
        /\ wire' = [wire EXCEPT ![m] = Append(wire[m], b)]
        /\ Same(b, making[m]) /\ (b.sys = g \/ m \in blank') /\ blank \subseteq blank'
    BY <2>1 DEF Sent
  <2>4. n \notin blank /\ Slow(n)
    BY <2>3 DEF Counters
  <2>5. /\ sys \in [Node -> Nat] /\ sysTold \in [Node -> Nat] /\ wire \in [Node -> Seq(Beat)]
        /\ making \in [Node -> Beat \cup {None}]
    BY DEF TypeOK
  <2>6. CASE m # n
    <3>1. wire'[n] = wire[n] /\ sys'[n] = sys[n]
      BY <2>3, <2>5, <2>6
    <3>2. Reports(n)' \subseteq Reports(n)
      BY <2>2, <3>1 DEF Reports
    <3> QED
      BY <2>2, <2>4, <3>1, <3>2, SlowStep
  <2>7. CASE m = n
    <3>1. PICK c, new : c = making[n] /\ new = [at |-> c.at, sys |-> g]
      OBVIOUS
    <3>2. c \in Beat /\ new = [at |-> b.at, sys |-> b.sys]
      BY <2>3, <2>5, <2>7, <3>1 DEF Same
    <3>3. sys'[n] = g /\ sysTold'[n] = clock /\ making'[n] = None /\ wire'[n] = Append(wire[n], b)
      BY <2>3, <2>5, <2>7
    <3>4. Reports(n)' \subseteq Reports(n) \cup {new}
      <4>1. \A i \in 1 .. Len(wire'[n]) : wire'[n][i] = b
                                          \/ (i \in 1 .. Len(wire[n]) /\ wire'[n][i] = wire[n][i])
        BY <2>5, <3>3
      <4> SUFFICES ASSUME NEW a \in Reports(n)' PROVE a \in Reports(n) \cup {new}
        OBVIOUS
      <4>2. CASE \E i \in 1 .. Len(wire'[n]) : a = [at |-> wire'[n][i].at, sys |-> wire'[n][i].sys]
        BY <3>2, <4>1, <4>2 DEF Reports
      <4>3. CASE ~\E i \in 1 .. Len(wire'[n]) : a = [at |-> wire'[n][i].at, sys |-> wire'[n][i].sys]
        BY <2>2, <4>3 DEF Reports
      <4> QED
        BY <4>2, <4>3
    <3> QED
      BY <2>2, <2>3, <2>4, <2>7, <3>1, <3>2, <3>3, <3>4, SlowSend
  <2> QED
    BY <2>2, <2>4, <2>6, <2>7
<1>2. ASSUME ~\E m \in Node : SendBeat(m) PROVE n \notin blank /\ Slow(n)'
  <2>1. n \notin blank /\ Slow(n) /\ Bounded(n) /\ sys'[n] \in {0, sys[n]}
    BY <1>2, Unsent DEF Counters
  <2>2. \/ ring'[n] \in {ring[n], None}
        \/ \E h \in handling : h.node = n /\ ring'[n].at = h.beat.at /\ ring'[n].prev = h.beat.sys
    <3>1. CASE \E h \in handling : Ingest(h)
      BY <2>1, <3>1, BoundedIngest
    <3>2. CASE ~\E h \in handling : Ingest(h)
      BY <3>2, RingKept
    <3> QED
      BY <3>1, <3>2
  <2>3. Reports(n)' \subseteq Reports(n)
    BY <1>2, <2>2, ReportsMove
  <2> QED
    BY <2>1, <2>3, SlowStep
<1>3. n \notin blank /\ Slow(n)'
  BY <1>1, <1>2
<1>4. Bounded(n)'
  <2>1. Slow(n) /\ Bounded(n)
    BY <1>3 DEF Counters
  <2>2. CASE \E h \in handling : Ingest(h)
    BY <2>1, <2>2, BoundedIngest
  <2>3. CASE hist'[n] = hist[n]
    BY <2>1, <2>3 DEF Bounded
  <2>4. CASE DOMAIN hist'[n] = {}
    BY <2>4 DEF Bounded
  <2> QED
    BY <2>2, <2>3, <2>4, RingKept
<1> QED
  BY <1>3, <1>4

------------------------------------------------------------------------------
(* The curve                                                                *)

\* The hub's clock never goes back.
LEMMA ClockGrows ==
  ASSUME TypeOK, TypeOK', Timing, [Next]_vars
  PROVE  clock' \in {clock, clock + 1} /\ clock <= clock'
<1>1. clock' \in {clock, clock + 1}
  <2>1. CASE \E n \in Node : StartBeat(n)
    BY <2>1 DEF StartBeat, clockVars
  <2>2. CASE ~\E n \in Node : StartBeat(n)
    BY <2>2, QuietStep DEF Quiet
  <2> QED
    BY <2>1, <2>2
<1> QED
  BY <1>1 DEF TypeOK

\* A history has a newest bucket after a bucket is added.
LEMMA NewestAdded ==
  ASSUME NEW D, D \subseteq Nat, NEW x \in Nat,
         \E t \in D \cup {0} : \A u \in D \cup {0} : t >= u
  PROVE  \E t \in D \cup {x} \cup {0} : \A u \in D \cup {x} \cup {0} : t >= u
<1>1. PICK t \in D \cup {0} : \A u \in D \cup {0} : t >= u
  OBVIOUS
<1>2. t \in Nat
  BY <1>1
<1>3. CASE x <= t
  BY <1>1, <1>3
<1>4. CASE ~(x <= t)
  <2>1. \A u \in D \cup {x} \cup {0} : x >= u
    BY <1>1, <1>2, <1>4
  <2> QED
    BY <2>1
<1> QED
  BY <1>3, <1>4

\* A heartbeat that is ingested is late by less than the ring is long, with all
\* that clocks may be off: its bucket is in the future of no kept one, and takes
\* the slot of no kept one.
LEMMA BucketFits ==
  ASSUME TypeOK, Timing, NEW h \in handling, CurveOf(h.node), NEW n, NEW b, NEW B,
         n = h.node, b = h.beat, B = BucketOf(b.ts)
  PROVE  /\ B \in Nat /\ B % Step = 0 /\ 0 < B /\ Sec * B <= clock + Ahead
         /\ SlotOf(B) = SlotOf(b.ts) /\ SlotOf(B) \in 0 .. Slots - 1
         /\ \A t \in DOMAIN hist[n] : t # B /\ t > B - Ring => SlotOf(t) # SlotOf(B)
<1>1. /\ n \in Node /\ b \in Beat /\ clock \in Nat /\ wgTold[n] \in Nat /\ wgTold[n] <= clock
      /\ Fresh(n, b)
  BY DEF TypeOK, Timing
<1>2. b.ts \in Nat /\ b.at \in Nat
  BY <1>1 DEF Beat
<1>3. /\ Stamped(b.ts, b.at, b.off) /\ b.at <= clock /\ clock <= b.at + MaxDelay
  BY <1>1, <1>2 DEF Fresh
<1>4. PICK u : u = b.ts
  OBVIOUS
<1>5. /\ B \in Nat /\ B % Step = 0 /\ B <= u /\ u < B + Step
      /\ SlotOf(u) \in 0 .. Slots - 1 /\ SlotOf(B) = SlotOf(u)
  BY <1>2, <1>4, Buckets
<1>6. /\ u \in Nat /\ Sec * u \in Nat /\ Sec * (u + 1) = Sec * u + Sec
      /\ Sec * u <= clock + Ahead /\ b.at - Behind < Sec * (u + 1) /\ Step <= u
  <2>1. b.off \in Offset /\ Start <= b.at /\ u = (b.at + b.off) \div Sec /\ b.at \in Int
    BY <1>2, <1>3, <1>4 DEF Stamped
  <2>2. /\ u \in Nat /\ b.off \in Int /\ b.at + b.off \in Nat
        /\ b.at - Behind <= b.at + b.off /\ b.at + b.off <= b.at + Ahead
        /\ Sec * u \in Nat /\ Sec * (u + 1) = Sec * u + Sec
        /\ Sec * u <= b.at + b.off /\ b.at + b.off < Sec * (u + 1)
        /\ Step <= u
    BY <2>1, Seconds
  <2> QED
    BY <1>1, <1>2, <1>3, <2>2, Positive
<1>7. 0 < B /\ Sec * B <= clock + Ahead
  <2>1. 0 < B
    BY <1>5, <1>6, Positive
  <2>2. Sec * B <= Sec * u /\ Sec * B \in Nat
    BY <1>5, <1>6, Positive, Product
  <2> QED
    BY <1>1, <1>6, <2>1, <2>2, Positive
<1>8. ASSUME NEW t \in DOMAIN hist[n], t # B, t > B - Ring PROVE SlotOf(t) # SlotOf(B)
  <2>1. t \in Nat /\ t % Step = 0 /\ Sec * t <= clock + Ahead
    BY DEF CurveOf
  <2>2. PICK k : k = Step * (Slots - 1)
    OBVIOUS
  <2>3. k \in Nat /\ Ring = k + Step /\ Ring \in Nat /\ Ahead + Behind + MaxDelay <= Sec * k
    <3>1. Step * (Slots - 1) = Step * Slots - Step * 1 /\ Step * Slots \in Nat
      BY Positive, Product
    <3>2. k = Ring - Step /\ Ring \in Nat /\ k \in Nat
      <4>1. Slots - 1 \in Nat
        BY Positive
      <4>2. k \in Nat
        BY <2>2, <4>1, Positive
      <4> QED
        BY <2>2, <3>1, <4>2, Positive DEF Ring
    <3>3. Ahead + Behind + MaxDelay <= Sec * k
      BY <2>2, DelayAssumption
    <3> QED
      BY <3>2, <3>3, Positive
  <2>4. t < u + 1 + k
    <3>1. Sec * ((u + 1) + k) = Sec * (u + 1) + Sec * k /\ Sec * k \in Nat
      BY <1>6, <2>3, Positive, Product
    <3>2. Sec * t < Sec * ((u + 1) + k)
      <4>1. PICK p, q, r : p = Sec * t /\ q = Sec * (u + 1) /\ r = Sec * k
        OBVIOUS
      <4>2. p <= clock + Ahead /\ b.at - Behind < q /\ Ahead + Behind + MaxDelay <= r
        BY <1>6, <2>1, <2>3, <4>1
      <4>3. p \in Int /\ q \in Int /\ r \in Int
        BY <1>6, <2>1, <3>1, <4>1, Positive
      <4>4. p < q + r
        BY <1>1, <1>2, <1>3, <4>2, <4>3, Positive
      <4> QED
        BY <3>1, <4>1, <4>4
    <3>3. (u + 1) + k <= t => Sec * ((u + 1) + k) <= Sec * t
      BY <1>6, <2>1, <2>3, Positive, Product
    <3>4. Sec * ((u + 1) + k) \in Int /\ Sec * t \in Int
      BY <1>6, <2>1, <2>3, Positive
    <3>5. ~((u + 1) + k <= t)
      BY <3>2, <3>3, <3>4
    <3> QED
      BY <1>6, <2>1, <2>3, <3>5
  <2>5. t < B + Ring /\ B < t + Ring
    BY <1>5, <1>6, <1>8, <2>1, <2>3, <2>4, Positive
  <2>6. CASE t < B
    BY <1>5, <2>1, <2>5, <2>6, SlotsDiffer
  <2>7. CASE B < t
    BY <1>5, <2>1, <2>5, <2>7, SlotsDiffer
  <2> QED
    BY <1>5, <1>8, <2>1, <2>6, <2>7
<1> QED
  BY <1>4, <1>5, <1>7, <1>8

\* Ingest keeps the curve: the slot it takes was empty, or held the sample of
\* the same bucket or of one that is a whole ring older.
LEMMA CurveIngest ==
  ASSUME TypeOK, Histories, Timing, NEW h \in handling, Ingest(h), CurveOf(h.node)
  PROVE  CurveOf(h.node)'
<1>1. PICK n, b, r, s, k, B : /\ n = h.node /\ b = h.beat /\ r = RingOf(n) /\ s = SampleOf(n, b)
                              /\ k = SlotOf(b.ts) /\ B = BucketOf(b.ts)
  OBVIOUS
<1>2. /\ n \in Node /\ b \in Beat /\ b.ts \in Nat /\ b.sys \in Nat /\ r \in NodeRing
      /\ s \in Sample /\ s.ts = B /\ k \in 0 .. Slots - 1
  BY <1>1, IngestStep
<1>3. PICK new : new = RingWith(r, b, s)
  OBVIOUS
<1>4. PICK H : H = hist[n]
  OBVIOUS
<1>5. PICK now : now = [t \in DOMAIN H \cup {B} |-> IF t = B THEN s ELSE H[t]]
  OBVIOUS
<1>6. ring'[n] = new /\ hist'[n] = now /\ clock' = clock
  <2>1. ring'[n] = RingWith(r, b, s) /\ hist'[n] = HistWith(n, s) /\ clock' = clock
    BY <1>1, <1>2, Ingested
  <2>2. HistWith(n, s) = now
    BY <1>2, <1>4, <1>5 DEF HistWith
  <2> QED
    BY <1>3, <2>1, <2>2
<1>7. /\ B \in Nat /\ B % Step = 0 /\ 0 < B /\ Sec * B <= clock + Ahead /\ SlotOf(B) = k
      /\ \A t \in DOMAIN H : t # B /\ t > B - Ring => SlotOf(t) # k
  BY <1>1, <1>4, BucketFits
<1>8. /\ ring[n] = None => DOMAIN H = {}
      /\ \A t \in DOMAIN H : t \in Nat /\ t % Step = 0 /\ 0 < t /\ Sec * t <= clock + Ahead /\ H[t].ts = t
      /\ \E t \in DOMAIN H \cup {0} : \A u \in DOMAIN H \cup {0} : t >= u
      /\ ring[n] # None =>
           /\ \A i \in 0 .. Slots - 1 :
                ring[n].slots[i].ts # 0 =>
                  /\ ring[n].slots[i].ts \in DOMAIN H /\ H[ring[n].slots[i].ts] = ring[n].slots[i]
                  /\ SlotOf(ring[n].slots[i].ts) = i
           /\ \A t \in DOMAIN H :
                (\A u \in DOMAIN H : t > u - Ring) => ring[n].slots[SlotOf(t)] = H[t]
  BY <1>1, <1>4, Zenon DEF CurveOf
<1>9. /\ DOMAIN now = DOMAIN H \cup {B} /\ now[B] = s
      /\ \A t \in DOMAIN H : t # B => now[t] = H[t]
  BY <1>5
<1>10. /\ r.slots \in [0 .. Slots - 1 -> Sample]
       /\ new.slots[k] = s /\ \A i \in 0 .. Slots - 1 : i # k => new.slots[i] = r.slots[i]
       /\ new.last = b.ts
  <2>1. r.slots \in [0 .. Slots - 1 -> Sample]
    BY <1>2 DEF NodeRing
  <2>2. new.slots = [r.slots EXCEPT ![k] = s] /\ new.last = b.ts
    BY <1>1, <1>3 DEF RingWith
  <2> QED
    BY <1>2, <2>1, <2>2
<1>11. new # None
  <2>1. TypeOK'
    BY IngestTypes
  <2>2. new \in NodeRing \cup {None}
    BY <1>2, <1>6, <2>1 DEF TypeOK
  <2>3. ring' = [ring EXCEPT ![n] = RingWith(r, b, s)] /\ b \in Beat
    BY <1>1, IngestStep
  <2>4. b.at \in Nat /\ b.off \in Int /\ b.sys \in Nat
    BY <2>3 DEF Beat
  <2>5. [r.slots EXCEPT ![k] = s] \in [0 .. Slots - 1 -> Sample]
    BY <1>2, <1>10
  <2>6. new \in NodeRing
    BY <1>1, <1>2, <1>3, <2>4, <2>5 DEF RingWith, NodeRing
  <2> QED
    BY <2>6, NoneAssumption
<1>12. \A i \in 0 .. Slots - 1 : i # k /\ r.slots[i].ts # 0 =>
         /\ r.slots[i].ts \in DOMAIN H /\ H[r.slots[i].ts] = r.slots[i] /\ SlotOf(r.slots[i].ts) = i
         /\ r.slots[i].ts # B
  <2>1. CASE ring[n] = None
    <3>1. \A i \in 0 .. Slots - 1 : r.slots[i].ts = 0
      BY <1>1, <2>1 DEF RingOf, NewRing, NoSample
    <3> QED
      BY <3>1
  <2>2. CASE ring[n] # None
    <3>1. r = ring[n]
      BY <1>1, <2>2 DEF RingOf
    <3> QED
      BY <1>7, <1>8, <2>2, <3>1
  <2> QED
    BY <2>1, <2>2
<1>13. \A t \in DOMAIN now :
         t \in Nat /\ t % Step = 0 /\ 0 < t /\ Sec * t <= clock + Ahead /\ now[t].ts = t
  BY <1>2, <1>7, <1>8, <1>9
<1>14. \E t \in DOMAIN now \cup {0} : \A u \in DOMAIN now \cup {0} : t >= u
  BY <1>7, <1>8, <1>9, NewestAdded
<1>15. BucketOf(new.last) \in DOMAIN now /\ new.slots[SlotOf(new.last)] = now[BucketOf(new.last)]
  BY <1>1, <1>9, <1>10
<1>16. ASSUME NEW i \in 0 .. Slots - 1, new.slots[i].ts # 0
       PROVE  /\ new.slots[i].ts \in DOMAIN now /\ now[new.slots[i].ts] = new.slots[i]
              /\ SlotOf(new.slots[i].ts) = i
  <2>1. CASE i = k
    BY <1>2, <1>7, <1>9, <1>10, <2>1
  <2>2. CASE i # k
    <3>1. new.slots[i] = r.slots[i]
      BY <1>10, <2>2
    <3> QED
      BY <1>9, <1>12, <1>16, <2>2, <3>1
  <2> QED
    BY <2>1, <2>2
<1>17. ASSUME NEW t \in DOMAIN now, \A u \in DOMAIN now : t > u - Ring
       PROVE  new.slots[SlotOf(t)] = now[t]
  <2>1. CASE t = B
    BY <1>7, <1>9, <1>10, <2>1
  <2>2. CASE t # B
    <3>1. t \in DOMAIN H /\ t > B - Ring /\ t \in Nat /\ \A u \in DOMAIN H : t > u - Ring
      BY <1>9, <1>13, <1>17, <2>2
    <3>2. SlotOf(t) # k /\ SlotOf(t) \in 0 .. Slots - 1
      BY <1>7, <2>2, <3>1, Buckets
    <3>3. ring[n] # None /\ r = ring[n]
      BY <1>1, <1>8, <3>1 DEF RingOf
    <3>4. r.slots[SlotOf(t)] = H[t]
      BY <1>8, <3>1, <3>3
    <3> QED
      BY <1>9, <1>10, <2>2, <3>1, <3>2, <3>4
  <2> QED
    BY <2>1, <2>2
<1>18. CurveOf(n)'
  BY <1>6, <1>11, <1>13, <1>14, <1>15, <1>16, <1>17, Zenon DEF CurveOf, Latest
<1> QED
  BY <1>1, <1>18

\* Every step keeps the curve.
LEMMA CurveStep ==
  ASSUME TypeOK, TypeOK', Histories, Timing, Curve, [Next]_vars
  PROVE  Curve'
<1> SUFFICES ASSUME NEW n \in Node PROVE CurveOf(n)'
  BY DEF Curve
<1>0. CurveOf(n) /\ clock \in Nat /\ clock' \in {clock, clock + 1} /\ clock <= clock' /\ Ahead \in Nat
  BY ClockGrows, Positive DEF Curve, TypeOK
<1>1. CASE ring'[n] = ring[n] /\ hist'[n] = hist[n]
  <2>1. ASSUME NEW t \in DOMAIN hist'[n] PROVE Sec * t <= clock' + Ahead
    <3>1. t \in Nat /\ Sec * t <= clock + Ahead
      BY <1>0, <1>1 DEF CurveOf
    <3>2. Sec * t \in Nat
      BY <3>1, Positive
    <3> QED
      BY <1>0, <3>1, <3>2
  <2>2. Latest(n)' = Latest(n)
    BY <1>1 DEF Latest
  <2> QED
    BY <1>0, <1>1, <2>1, <2>2, Zenon DEF CurveOf
<1>2. CASE ring'[n] = None /\ DOMAIN hist'[n] = {}
  BY <1>2 DEF CurveOf
<1>3. ASSUME NEW h \in handling, Ingest(h) PROVE CurveOf(n)'
  <2>1. CASE n = h.node
    <3>1. CurveOf(h.node)'
      BY <1>0, <1>3, <2>1, CurveIngest
    <3> QED
      BY <2>1, <3>1
  <2>2. CASE n # h.node
    <3>1. ring'[n] = ring[n] /\ hist'[n] = hist[n]
      BY <1>3, <2>2, Ingested
    <3> QED
      BY <1>1, <3>1
  <2> QED
    BY <2>1, <2>2
<1> QED
  BY <1>1, <1>2, <1>3, RingKept

------------------------------------------------------------------------------
(* The link                                                                 *)

\* Only handleHeartbeat makes a runtime or changes it.
LEMMA RuntimeKept ==
  ASSUME TypeOK, [Next]_vars, ~\E n \in Node : HandleHeartbeat(n)
  PROVE  \/ rt' = rt /\ said' = said
         \/ rt' = None /\ \A m \in Node : said'[m] = None
<1> USE DEF clockVars, countVars, agentVars, hubVars, ghosts
<1>1. ASSUME NEW n \in Node, Connect(n) \/ StartBeat(n) \/ SendBeat(n) \/ Reboot(n) \/ Drop(n)
      PROVE  rt' = rt /\ said' = said
  BY <1>1 DEF Connect, StartBeat, SendBeat, Reboot, Drop
<1>2. ASSUME NEW n \in Node, DeleteNode(n)
      PROVE  \/ rt' = rt /\ said' = said
             \/ rt' = None /\ \A m \in Node : said'[m] = None
  <2>1. CASE n \in End
    BY <1>2, <2>1 DEF DeleteNode
  <2>2. CASE n \notin End
    BY <1>2, <2>2 DEF DeleteNode
  <2> QED
    BY <2>1, <2>2
<1>3. ASSUME NEW h \in handling, Ingest(h) PROVE rt' = rt /\ said' = said
  BY <1>3 DEF Ingest
<1>4. ASSUME Handshake \/ Tick \/ UNCHANGED vars PROVE rt' = rt /\ said' = said
  BY <1>4 DEF Handshake, Tick, vars
<1>5. ASSUME NEW m \in Machine, StepClock(m) PROVE rt' = rt /\ said' = said
  BY <1>5 DEF StepClock
<1>6. ASSUME HubRestart PROVE rt' = None /\ \A m \in Node : said'[m] = None
  BY <1>6 DEF HubRestart
<1> QED
  BY <1>1, <1>2, <1>3, <1>4, <1>5, <1>6 DEF Next

\* A counter that was v at time t and w at time x, and idles until y or is reset.
LEMMA Idle ==
  ASSUME NEW v \in Nat, NEW t \in Nat, NEW w \in Nat, NEW x \in Nat, NEW y \in Nat, NEW z,
         z \in {0, w}, t <= x, x <= y, w - v <= Speed * (x - t)
  PROVE  z - v <= Speed * (y - t)
<1>1. PICK s, u : s = x - t /\ u = y - t
  OBVIOUS
<1>2. s \in Nat /\ u \in Nat /\ s <= u
  BY <1>1
<1>3. PICK d : d = w - v
  OBVIOUS
<1>4. d \in Int /\ d <= Speed * s
  BY <1>1, <1>3
<1>5. d <= Speed * u /\ 0 <= Speed * u /\ Speed * u \in Int
  <2>1. /\ d <= Speed * s /\ s <= u => d <= Speed * u
        /\ 0 <= u => 0 <= Speed * u
        /\ Speed * u \in Int
    <3>1. s \in Int /\ u \in Int /\ d \in Int
      BY <1>2, <1>4
    <3> QED
      BY <3>1, Growth, Zenon
  <2>2. 0 <= u
    BY <1>2
  <2> QED
    BY <1>2, <1>4, <2>1, <2>2
<1>6. z - v <= Speed * u
  BY <1>3, <1>5
<1> QED
  BY <1>1, <1>6

\* A counter that was v at time t and w at time x, and is g when it is read at y.
LEMMA Onward ==
  ASSUME NEW v \in Nat, NEW t \in Nat, NEW w \in Nat, NEW x \in Nat, NEW g \in Nat, NEW y \in Nat,
         w - v <= Speed * (x - t), g - w <= Speed * (y - x)
  PROVE  g - v <= Speed * (y - t)
<1>1. PICK s, u, a, b : s = x - t /\ u = y - x /\ a = w - v /\ b = g - w
  OBVIOUS
<1>2. /\ s \in Int /\ u \in Int /\ a \in Int /\ b \in Int
      /\ s + u = y - t /\ a + b = g - v
  BY <1>1
<1>3. a <= Speed * s /\ b <= Speed * u
  BY <1>1
<1>4. a + b <= Speed * (s + u)
  BY <1>2, <1>3, Growth
<1> QED
  BY <1>2, <1>4

\* A counter that has been v goes on from there, or from zero.
LEMMA FromStep ==
  ASSUME TypeOK, TypeOK', Timing, [Next]_vars, NEW n \in Node, NEW v \in Nat, NEW t \in Nat,
         From(n, v, t)
  PROVE  From(n, v, t)'
<1>0. /\ wg[n] \in Nat /\ wgTold[n] \in Nat /\ wg'[n] \in Nat /\ wgTold'[n] \in Nat
      /\ clock \in Nat /\ wg \in [Node -> Nat] /\ wgTold \in [Node -> Nat]
      /\ wgTold[n] <= clock
  BY DEF TypeOK, Timing
<1>1. /\ t <= wgTold[n] /\ wg[n] - v <= Speed * (wgTold[n] - t)
      /\ \A i \in 1 .. Len(Out(n)) :
           Out(n)[i].wg # None => Out(n)[i].wg - v <= Speed * (Out(n)[i].at - t)
  BY DEF From
<1>2. CASE ~\E m \in Node : StartBeat(m)
  <2>1. Quiet
    BY <1>2, QuietStep
  <2>2. wgTold[n] <= wgTold'[n] /\ wg'[n] \in {0, wg[n]} /\ Moved(n)
    BY <2>1 DEF Quiet
  <2>3. wg'[n] - v <= Speed * (wgTold'[n] - t)
    BY <1>0, <1>1, <2>2, Idle
  <2>4. ASSUME NEW i \in 1 .. Len(Out(n)'), Out(n)'[i].wg # None
        PROVE  Out(n)'[i].wg - v <= Speed * (Out(n)'[i].at - t)
    <3>1. PICK j \in 1 .. Len(Out(n)) : Same(Out(n)'[i], Out(n)[j])
      BY <2>2 DEF Moved
    <3>2. Out(n)'[i].wg = Out(n)[j].wg /\ Out(n)'[i].at = Out(n)[j].at
      BY <3>1 DEF Same
    <3>3. PICK x, a : x = Out(n)'[i].wg /\ a = Out(n)'[i].at
      OBVIOUS
    <3>4. x - v <= Speed * (a - t)
      BY <1>1, <2>4, <3>2, <3>3
    <3> QED
      BY <3>3, <3>4
  <2>5. t <= wgTold'[n]
    BY <1>0, <1>1, <2>2
  <2> QED
    BY <2>3, <2>4, <2>5 DEF From
<1>3. ASSUME NEW m \in Node, StartBeat(m) PROVE From(n, v, t)'
  <2>1. PICK g \in Nat, b \in Beat : Started(m, g, b)
    BY <1>3, Starts
  <2>2. wire' = wire
    BY <1>3, Starts
  <2>3. /\ g - wg[m] <= Speed * (clock - wgTold[m])
        /\ wg' = [wg EXCEPT ![m] = g] /\ wgTold' = [wgTold EXCEPT ![m] = clock]
        /\ b.at = clock /\ (b.wg = g \/ b.wg = None)
    BY <2>1 DEF Started
  <2>4. CASE m # n
    <3>1. Out(n)' = Out(n)
      BY <1>3, <2>1, <2>2, <2>4, StartOut
    <3>2. wg'[n] = wg[n] /\ wgTold'[n] = wgTold[n]
      BY <1>0, <2>3, <2>4
    <3> QED
      BY <1>1, <3>1, <3>2 DEF From
  <2>5. CASE m = n
    <3>1. wg'[n] = g /\ wgTold'[n] = clock /\ g - wg[n] <= Speed * (clock - wgTold[n])
      BY <1>0, <2>3, <2>5
    <3>2. g - v <= Speed * (clock - t)
      BY <1>0, <1>1, <3>1, Onward
    <3>3. ASSUME NEW i \in 1 .. Len(Out(n)'), Out(n)'[i].wg # None
          PROVE  Out(n)'[i].wg - v <= Speed * (Out(n)'[i].at - t)
      <4>1. /\ Out(n)'[Len(Out(n)')] = b
            /\ \A k \in 1 .. Len(Out(n)) : Out(n)'[k] = Out(n)[k]
            /\ i \in 1 .. Len(Out(n)) \/ i = Len(Out(n)')
        BY <1>3, <2>1, <2>2, <2>5, StartOut
      <4>2. CASE i = Len(Out(n)')
        <5>1. Out(n)'[i].wg = g /\ Out(n)'[i].at = clock
          BY <2>3, <3>3, <4>1, <4>2
        <5> QED
          BY <3>2, <5>1
      <4>3. CASE i \in 1 .. Len(Out(n))
        <5>1. Out(n)'[i] = Out(n)[i]
          BY <4>1, <4>3
        <5> QED
          BY <1>1, <3>3, <4>3, <5>1
      <4> QED
        BY <4>1, <4>2, <4>3
    <3>4. t <= wgTold'[n]
      BY <1>0, <1>1, <3>1
    <3> QED
      BY <3>1, <3>2, <3>3, <3>4 DEF From
  <2> QED
    BY <2>4, <2>5
<1> QED
  BY <1>2, <1>3

\* Every step keeps the counters of a connection growing no faster than they can.
LEMMA GrowsStep ==
  ASSUME TypeOK, TypeOK', Timing, [Next]_vars, NEW n \in Node, Grows(n)
  PROVE  Grows(n)'
<1>0. /\ wg[n] \in Nat /\ wgTold[n] \in Nat /\ wg'[n] \in Nat /\ wgTold'[n] \in Nat
      /\ clock \in Nat /\ wg \in [Node -> Nat] /\ wgTold \in [Node -> Nat]
      /\ wgTold[n] <= clock /\ Len(Out(n)) \in Nat
  BY OutIs DEF TypeOK, Timing
<1>1. ASSUME NEW i \in 1 .. Len(Out(n)), Out(n)[i].wg # None
      PROVE  /\ Out(n)[i].wg \in Nat /\ Out(n)[i].at \in Nat /\ Out(n)[i].at <= wgTold[n]
             /\ wg[n] - Out(n)[i].wg <= Speed * (wgTold[n] - Out(n)[i].at)
  <2>1. PICK b : b = Out(n)[i]
    OBVIOUS
  <2>2. b.wg \in Nat /\ b.at \in Nat
    BY <1>1, <2>1, OnWay
  <2>3. b.at <= wgTold[n] /\ wg[n] - b.wg <= Speed * (wgTold[n] - b.at)
    BY <1>1, <2>1 DEF Timing, Fresh, Grows
  <2> QED
    BY <2>1, <2>2, <2>3
<1>2. CASE ~\E m \in Node : StartBeat(m)
  <2>1. Quiet
    BY <1>2, QuietStep
  <2>2. wgTold[n] <= wgTold'[n] /\ wg'[n] \in {0, wg[n]}
    BY <2>1 DEF Quiet
  <2>3. PICK d \in {0, 1} : \A i \in 1 .. Len(Out(n)') :
           i + d \in 1 .. Len(Out(n)) /\ Same(Out(n)'[i], Out(n)[i + d])
    BY <2>1 DEF Quiet, Moved
  <2>4. ASSUME NEW i \in 1 .. Len(Out(n)'), NEW j \in 1 .. Len(Out(n)'), i < j,
               Out(n)'[i].wg # None, Out(n)'[j].wg # None
        PROVE  Out(n)'[j].wg - Out(n)'[i].wg <= Speed * (Out(n)'[j].at - Out(n)'[i].at)
    <3>1. PICK k \in 1 .. Len(Out(n)), l \in 1 .. Len(Out(n)) : k = i + d /\ l = j + d
      BY <2>3
    <3>2. /\ Out(n)'[i].wg = Out(n)[k].wg /\ Out(n)'[i].at = Out(n)[k].at
          /\ Out(n)'[j].wg = Out(n)[l].wg /\ Out(n)'[j].at = Out(n)[l].at
      BY <2>3, <3>1 DEF Same
    <3>3. k < l
      BY <2>4, <3>1
    <3>4. Out(n)[l].wg - Out(n)[k].wg <= Speed * (Out(n)[l].at - Out(n)[k].at)
      BY <2>4, <3>2, <3>3 DEF Grows
    <3> QED
      BY <3>2, <3>4, Zenon
  <2>5. ASSUME NEW i \in 1 .. Len(Out(n)'), Out(n)'[i].wg # None
        PROVE  wg'[n] - Out(n)'[i].wg <= Speed * (wgTold'[n] - Out(n)'[i].at)
    <3>1. PICK j \in 1 .. Len(Out(n)) : j = i + d
      BY <2>3
    <3>2. PICK v, t : v = Out(n)[j].wg /\ t = Out(n)[j].at
      OBVIOUS
    <3>3. Out(n)'[i].wg = v /\ Out(n)'[i].at = t
      BY <2>3, <3>1, <3>2 DEF Same
    <3>4. v \in Nat /\ t \in Nat /\ t <= wgTold[n] /\ wg[n] - v <= Speed * (wgTold[n] - t)
      BY <1>1, <2>5, <3>2, <3>3
    <3>5. wg'[n] - v <= Speed * (wgTold'[n] - t)
      BY <1>0, <2>2, <3>4, Idle
    <3> QED
      BY <3>3, <3>5
  <2> QED
    BY <2>4, <2>5 DEF Grows
<1>3. ASSUME NEW m \in Node, StartBeat(m) PROVE Grows(n)'
  <2>1. PICK g \in Nat, b \in Beat : Started(m, g, b)
    BY <1>3, Starts
  <2>2. wire' = wire
    BY <1>3, Starts
  <2>3. /\ g - wg[m] <= Speed * (clock - wgTold[m])
        /\ wg' = [wg EXCEPT ![m] = g] /\ wgTold' = [wgTold EXCEPT ![m] = clock]
        /\ b.at = clock /\ (b.wg = g \/ b.wg = None)
    BY <2>1 DEF Started
  <2>4. CASE m # n
    <3>1. Out(n)' = Out(n)
      BY <1>3, <2>1, <2>2, <2>4, StartOut
    <3>2. wg'[n] = wg[n] /\ wgTold'[n] = wgTold[n]
      BY <1>0, <2>3, <2>4
    <3> QED
      BY <3>1, <3>2 DEF Grows
  <2>5. CASE m = n
    <3>1. wg'[n] = g /\ wgTold'[n] = clock /\ g - wg[n] <= Speed * (clock - wgTold[n])
      BY <1>0, <2>3, <2>5
    <3>2. PICK p, q : p = Out(n) /\ q = Out(n)'
      OBVIOUS
    <3>3. /\ Len(p) \in Nat /\ Len(q) = Len(p) + 1 /\ q[Len(q)] = b
          /\ \A i \in 1 .. Len(p) : q[i] = p[i]
          /\ \A i \in 1 .. Len(q) : i \in 1 .. Len(p) \/ i = Len(q)
      BY <1>3, <2>1, <2>2, <2>5, <3>2, StartOut
    <3>4. ASSUME NEW i \in 1 .. Len(p), p[i].wg # None
          PROVE  g - p[i].wg <= Speed * (clock - p[i].at)
      <4>1. PICK v, t : v = p[i].wg /\ t = p[i].at
        OBVIOUS
      <4>2. v \in Nat /\ t \in Nat /\ t <= wgTold[n] /\ wg[n] - v <= Speed * (wgTold[n] - t)
        BY <1>1, <3>2, <3>4, <4>1
      <4>3. g - v <= Speed * (clock - t)
        BY <1>0, <3>1, <4>2, Onward
      <4> QED
        BY <4>1, <4>3
    <3>5. ASSUME NEW i \in 1 .. Len(q), NEW j \in 1 .. Len(q), i < j,
                 q[i].wg # None, q[j].wg # None
          PROVE  q[j].wg - q[i].wg <= Speed * (q[j].at - q[i].at)
      <4>1. i \in 1 .. Len(p) /\ q[i] = p[i]
        BY <3>3, <3>5
      <4>2. CASE j \in 1 .. Len(p)
        BY <3>2, <3>3, <3>5, <4>1, <4>2 DEF Grows
      <4>3. CASE j = Len(q)
        <5>1. q[j].wg = g /\ q[j].at = clock
          BY <2>3, <3>3, <3>5, <4>3
        <5>2. g - q[i].wg <= Speed * (clock - q[i].at)
          BY <3>4, <3>5, <4>1
        <5> QED
          BY <5>1, <5>2, Zenon
      <4> QED
        BY <3>3, <4>2, <4>3
    <3>6. ASSUME NEW i \in 1 .. Len(q), q[i].wg # None
          PROVE  wg'[n] - q[i].wg <= Speed * (wgTold'[n] - q[i].at)
      <4>1. CASE i \in 1 .. Len(p)
        <5>1. g - q[i].wg <= Speed * (clock - q[i].at)
          BY <3>3, <3>4, <3>6, <4>1
        <5> QED
          BY <3>1, <5>1, Zenon
      <4>2. CASE i = Len(q)
        <5>1. q[i].wg = g /\ q[i].at = clock
          BY <2>3, <3>3, <3>6, <4>2
        <5>2. g - g = 0 /\ clock - clock = 0 /\ Speed * 0 = 0
          BY <1>0, Positive
        <5>3. g - g <= Speed * (clock - clock)
          BY <5>2
        <5> QED
          BY <3>1, <5>1, <5>3
      <4> QED
        BY <3>3, <4>1, <4>2
    <3> QED
      BY <3>2, <3>5, <3>6 DEF Grows
  <2> QED
    BY <2>4, <2>5
<1> QED
  BY <1>2, <1>3

\* The report that the link's next rate starts from stays what it is.
LEMMA HandledStep ==
  ASSUME TypeOK, TypeOK', Timing, [Next]_vars, NEW n \in Node, NEW v \in Nat, NEW at, NEW o,
         NEW t \in Nat, NEW c \in Nat, Handled(n, v, at, o, t, c)
  PROVE  Handled(n, v, at, o, t, c)'
<1>1. From(n, v, t)'
  BY FromStep DEF Handled
<1>2. clock <= clock' /\ clock \in Nat /\ clock' \in Nat
  <2>1. clock \in Nat /\ clock' \in Nat
    BY DEF TypeOK
  <2> QED
    BY <2>1, ClockGrows
<1>3. c <= t + MaxDelay /\ c <= clock' /\ Stamped(at, c, o)
  BY <1>2 DEF Handled
<1> QED
  BY <1>1, <1>3 DEF Handled, Stamped

\* Every step keeps the link's rate off by no more than the traffic of a second
\* and a delay.
LEMMA LinkStep ==
  ASSUME TypeOK, TypeOK', Timing, LinkInv, [Next]_vars
  PROVE  LinkInv'
<1>1. \A n \in Node : Grows(n)'
  BY GrowsStep DEF LinkInv
<1>2. ASSUME rt' = rt PROVE LinkInv'
  <2>1. CASE rt = None
    BY <1>1, <1>2, <2>1 DEF LinkInv
  <2>2. CASE rt # None
    <3>1. PICK m, v, at, o : m = rt.by /\ v = rt.prev /\ at = rt.at /\ o = rt.off
      OBVIOUS
    <3>2. v \in Nat /\ m \in Node
      BY <2>2, <3>1 DEF TypeOK, LinkRT, LinkInv
    <3>3. PICK t \in Nat, c \in Nat : Handled(m, v, at, o, t, c)
      BY <2>2, <3>1 DEF LinkInv
    <3>4. Handled(m, v, at, o, t, c)'
      BY <3>2, <3>3, HandledStep
    <3>5. \E t_1, c_1 \in Nat : Handled(rt.by, rt.prev, rt.at, rt.off, t_1, c_1)'
      BY <1>2, <3>1, <3>4 DEF Handled, From
    <3>6. /\ rt.steady => rt.bytes <= Speed * (Sec * (rt.secs + 1) + MaxDelay)
          /\ rt.by \in Node
      BY <2>2 DEF LinkInv
    <3> QED
      BY <1>1, <1>2, <3>5, <3>6 DEF LinkInv
  <2> QED
    BY <2>1, <2>2
<1>3. CASE rt' = None
  BY <1>1, <1>3 DEF LinkInv
<1>4. ASSUME NEW n \in Node, HandleHeartbeat(n) PROVE LinkInv'
  <2>1. PICK b : b = Head(wire[n])
    OBVIOUS
  <2>2. /\ b \in Beat /\ wire[n] # <<>> /\ 1 \in 1 .. Len(wire[n])
        /\ wire'[n] = Tail(wire[n]) /\ making'[n] = making[n]
        /\ UNCHANGED <<clock, off, wg, wgTold>>
        /\ \/ rt' = rt
           \/ b.wg # None /\ rt' = Updated(IF rt = None THEN NewRT ELSE rt, n, b)
    <3>1. wire \in [Node -> Seq(Beat)] /\ wire[n] # <<>>
      BY <1>4 DEF TypeOK, HandleHeartbeat
    <3> QED
      BY <1>4, <2>1, <3>1, Taken DEF clockVars, countVars
  <2>3. CASE rt' = rt
    BY <1>2, <2>3
  <2>4. CASE b.wg # None /\ rt' = Updated(IF rt = None THEN NewRT ELSE rt, n, b)
    <3>1. PICK r, new : r = (IF rt = None THEN NewRT ELSE rt) /\ new = rt'
      OBVIOUS
    <3>2. PICK u, o : u = Unix(Hub) /\ o = off[Hub]
      OBVIOUS
    <3>3. r \in LinkRT
      BY <3>1, RuntimeIs
    <3>4. /\ new \in LinkRT
          /\ new.by = n /\ new.prev = b.wg /\ new.at = u /\ new.off = o
          /\ \/ new.bytes = r.bytes /\ new.secs = r.secs /\ new.steady = r.steady
             \/ /\ Comparable(r, b) /\ new.bytes = b.wg - r.prev /\ new.secs = u - r.at
                /\ new.steady = (r.by = n /\ r.off = o)
      <4>1. new = Updated(r, n, b)
        BY <2>4, <3>1
      <4> QED
        BY <2>2, <2>4, <3>2, <3>3, <4>1, UpdatedIs
    <3>5. u \in Nat /\ o \in Offset /\ Stamped(u, clock, o)
      BY <3>2, UnixIs, Positive
    <3>6. /\ b.wg \in Nat /\ b.at \in Nat /\ r.at \in Nat /\ r.prev \in Nat /\ r.secs \in Nat
          /\ r.bytes \in Nat /\ clock \in Nat /\ wgTold[n] \in Nat /\ MaxDelay \in Nat
      BY <2>2, <2>4, <3>3, Positive DEF Beat, LinkRT, TypeOK
    <3>7. 1 \in 1 .. Len(Out(n)) /\ Out(n)[1] = b
      BY <2>1, <2>2, HeadFirst
    <3>8. b.at <= wgTold[n] /\ wgTold[n] <= clock /\ clock <= b.at + MaxDelay
      <4>1. Fresh(n, Out(n)[1])
        BY <3>7 DEF Timing
      <4> QED
        BY <3>7, <4>1 DEF Fresh, Timing
    <3>9. From(n, b.wg, b.at)'
      <4>1. wg[n] - b.wg <= Speed * (wgTold[n] - b.at)
        BY <2>4, <3>7 DEF LinkInv, Grows
      <4>2. ASSUME NEW i \in 1 .. Len(Out(n)'), Out(n)'[i].wg # None
            PROVE  Out(n)'[i].wg - b.wg <= Speed * (Out(n)'[i].at - b.at)
        <5>1. i + 1 \in 1 .. Len(Out(n)) /\ Out(n)'[i] = Out(n)[i + 1]
          BY <2>2, TailOut
        <5>2. PICK j \in 1 .. Len(Out(n)) : j = i + 1
          BY <5>1
        <5>3. Out(n)'[i] = Out(n)[j] /\ 1 < j
          <6>1. i \in Nat /\ i > 0
            <7>1. Len(Out(n)') \in Nat
              <8>1. wire'[n] \in Seq(Beat) /\ making'[n] \in Beat \cup {None}
                BY DEF TypeOK
              <8>2. Out(n)' \in Seq(Beat)
                BY <8>1 DEF Out
              <8> QED
                BY <8>2
            <7> QED
              BY <7>1
          <6> QED
            BY <5>1, <5>2, <6>1
        <5>4. Out(n)[j].wg - Out(n)[1].wg <= Speed * (Out(n)[j].at - Out(n)[1].at)
          BY <2>4, <3>7, <4>2, <5>3 DEF LinkInv, Grows
        <5> QED
          BY <3>7, <5>3, <5>4
      <4>3. b.at <= wgTold'[n] /\ wg'[n] - b.wg <= Speed * (wgTold'[n] - b.at)
        BY <2>2, <3>8, <4>1
      <4> QED
        BY <4>2, <4>3 DEF From
    <3>10. Handled(n, b.wg, u, o, b.at, clock)'
      <4>1. clock' = clock
        BY <2>2
      <4>2. \A x \in Nat : x = clock => Handled(n, b.wg, u, o, b.at, x)'
        <5> SUFFICES ASSUME NEW x \in Nat, x = clock PROVE Handled(n, b.wg, u, o, b.at, x)'
          OBVIOUS
        <5>1. x <= b.at + MaxDelay /\ x <= clock' /\ Stamped(u, x, o)
          BY <3>5, <3>6, <3>8, <4>1
        <5> QED
          BY <3>9, <5>1 DEF Handled, Stamped
      <4> QED
        BY <3>6, <4>1, <4>2
    <3>11. ASSUME new.steady PROVE new.bytes <= Speed * (Sec * (new.secs + 1) + MaxDelay)
      <4>1. CASE new.bytes = r.bytes /\ new.secs = r.secs /\ new.steady = r.steady
        <5>1. CASE rt = None
          <6>1. new.bytes = 0 /\ new.secs = 0
            BY <3>1, <4>1, <5>1 DEF NewRT
          <6>2. Sec * (0 + 1) + MaxDelay \in Nat
            BY Positive
          <6>3. 0 <= Speed * (Sec * (0 + 1) + MaxDelay)
            <7>1. PICK k : k = Sec * (0 + 1) + MaxDelay
              OBVIOUS
            <7>2. Speed * k \in Nat
              BY <6>2, <7>1, Positive
            <7> QED
              BY <7>1, <7>2
          <6> QED
            BY <6>1, <6>3
        <5>2. CASE rt # None
          BY <3>1, <3>11, <4>1, <5>2 DEF LinkInv
        <5> QED
          BY <5>1, <5>2
      <4>2. CASE /\ Comparable(r, b) /\ new.bytes = b.wg - r.prev /\ new.secs = u - r.at
                 /\ new.steady = (r.by = n /\ r.off = o)
        <5>1. rt # None /\ r = rt /\ r.by = n /\ r.off = o
          <6>1. NewRT.at = 0
            BY DEF NewRT
          <6>2. r.by = n /\ r.off = o
            BY <3>11, <4>2, Zenon
          <6>3. r.at > 0
            BY <4>2 DEF Comparable
          <6> QED
            BY <3>1, <6>1, <6>2, <6>3
        <5>2. PICK t \in Nat, c \in Nat : Handled(n, r.prev, r.at, o, t, c)
          BY <5>1 DEF LinkInv
        <5>3. b.wg - r.prev <= Speed * (b.at - t)
          BY <2>4, <3>7, <5>2 DEF Handled, From
        <5>4. c <= t + MaxDelay /\ Stamped(r.at, c, o) /\ r.at < u
          BY <3>2, <4>2, <5>2 DEF Handled, Comparable
        <5>5. PICK w : w = Sec * (u - r.at + 1)
          OBVIOUS
        <5>6. clock - c < w
          BY <3>5, <3>6, <5>4, <5>5, Apart
        <5>7. w \in Int
          <6>1. u - r.at + 1 \in Int
            BY <3>5, <3>6
          <6> QED
            BY <5>5, <6>1, Positive
        <5>8. PICK x, s, e : x = b.wg - r.prev /\ s = b.at - t /\ e = w + MaxDelay
          OBVIOUS
        <5>9. x \in Int /\ s \in Int /\ e \in Int
          BY <3>6, <5>7, <5>8
        <5>10. s <= e
          BY <3>6, <3>8, <5>4, <5>6, <5>7, <5>8
        <5>11. x <= Speed * e
          <6>1. x <= Speed * s
            BY <5>3, <5>8
          <6> QED
            BY <5>9, <5>10, <6>1, Growth
        <5>12. new.bytes = x /\ Sec * (new.secs + 1) + MaxDelay = e
          BY <4>2, <5>5, <5>8
        <5> QED
          BY <5>11, <5>12
      <4> QED
        BY <3>4, <4>1, <4>2
    <3>12. rt' = new /\ new # None
      BY <3>1, <3>4, NoneAssumption
    <3>13. \E t, c \in Nat : Handled(rt.by, rt.prev, rt.at, rt.off, t, c)'
      <4>1. PICK v, t : v = b.wg /\ t = b.at
        OBVIOUS
      <4>2. PICK c : c = clock
        OBVIOUS
      <4>3. Handled(n, v, u, o, t, c)' /\ t \in Nat /\ c \in Nat
        BY <2>2, <3>6, <3>10, <4>1, <4>2 DEF Handled, From
      <4>4. rt'.by = n /\ rt'.prev = v /\ rt'.at = u /\ rt'.off = o
        BY <3>4, <3>12, <4>1
      <4>5. Handled(rt.by, rt.prev, rt.at, rt.off, t, c)'
        BY <4>3, <4>4 DEF Handled, From
      <4> QED
        BY <4>3, <4>5
    <3> QED
      BY <1>1, <3>4, <3>11, <3>12, <3>13 DEF LinkInv
  <2> QED
    BY <2>2, <2>3, <2>4
<1> QED
  BY <1>2, <1>3, <1>4, RuntimeKept

\* Every step keeps the handshake that is shown a real and the newest one.
LEMMA ShakesStep ==
  ASSUME TypeOK, TypeOK', Timing, Shakes, [Next]_vars
  PROVE  Shakes'
<1>0. /\ said \in [Node -> Nat \cup {None}] /\ (rt # None => rt \in LinkRT /\ rt.hs \in Nat)
      /\ tunnel' \in {tunnel, clock}
  <2>1. PICK a \in Node : TRUE
    BY EndAssumption
  <2>2. tunnel' \in {tunnel, clock}
    BY <2>1, Gauges
  <2>3. said \in [Node -> Nat \cup {None}] /\ (rt # None => rt \in LinkRT)
    BY DEF TypeOK
  <2>4. \A r \in LinkRT : r.hs \in Nat
    BY DEF LinkRT
  <2> QED
    BY <2>2, <2>3, <2>4
<1>1. CASE rt' = rt /\ said' = said
  <2>1. ASSUME rt # None PROVE Shaken(rt.hs)'
    <3>1. PICK s : s = rt.hs
      OBVIOUS
    <3>2. Shaken(s)'
      BY <1>0, <2>1, <3>1, ShakenStep DEF Shakes
    <3> QED
      BY <1>1, <3>1, <3>2 DEF Shaken
  <2> QED
    BY <1>1, <2>1 DEF Shakes
<1>2. CASE rt' = None /\ \A m \in Node : said'[m] = None
  BY <1>2 DEF Shakes
<1>3. ASSUME NEW n \in Node, HandleHeartbeat(n) PROVE Shakes'
  <2>1. PICK b : b = Head(wire[n])
    OBVIOUS
  <2>2. /\ b \in Beat
        /\ \/ rt' = rt /\ said' = said
           \/ /\ b.wg # None
              /\ rt' = Updated(IF rt = None THEN NewRT ELSE rt, n, b)
              /\ said' = [said EXCEPT ![n] = b.hs]
    BY <1>3, <2>1, Taken
  <2>3. CASE /\ b.wg # None
             /\ rt' = Updated(IF rt = None THEN NewRT ELSE rt, n, b)
             /\ said' = [said EXCEPT ![n] = b.hs]
    <3>1. PICK r, new : r = (IF rt = None THEN NewRT ELSE rt) /\ new = rt'
      OBVIOUS
    <3>2. r \in LinkRT
      BY <3>1, RuntimeIs
    <3>3. new \in LinkRT /\ new.hs \in {r.hs, b.hs} /\ new.hs >= r.hs /\ new.hs >= b.hs
      <4>1. new = Updated(r, n, b)
        BY <2>3, <3>1
      <4> QED
        BY <2>2, <2>3, <3>2, <4>1, UpdatedIs
    <3>4. b.hs \in Nat /\ r.hs \in Nat
      BY <2>2, <3>2 DEF Beat, LinkRT
    <3>5. Shaken(r.hs)
      BY <3>1 DEF Shakes, NewRT, Shaken
    <3>6. Shaken(b.hs)
      <4>1. 1 \in 1 .. Len(wire[n]) /\ b = wire[n][1]
        BY <1>3, <2>1, Taken
      <4>2. 1 \in 1 .. Len(Out(n)) /\ Out(n)[1] = b
        BY <4>1, HeadFirst
      <4>3. Fresh(n, Out(n)[1])
        BY <4>2 DEF Timing
      <4> QED
        BY <4>2, <4>3 DEF Fresh
    <3>7. PICK s : s = new.hs
      OBVIOUS
    <3>8. s \in Nat /\ Shaken(s)
      BY <3>3, <3>4, <3>5, <3>6, <3>7
    <3>9. Shaken(s)'
      BY <1>0, <3>8, ShakenStep
    <3>10. new # None
      BY <3>3, NoneAssumption
    <3>11. ASSUME NEW m \in Node, said'[m] # None PROVE said'[m] <= new.hs
      <4>1. CASE m = n
        BY <1>0, <2>3, <3>3, <4>1
      <4>2. CASE m # n
        <5>1. said[m] = said'[m] /\ said[m] \in Nat /\ rt # None /\ said[m] <= rt.hs
          BY <1>0, <2>3, <3>11, <4>2 DEF Shakes
        <5>2. new.hs \in Nat /\ said[m] <= r.hs
          BY <3>1, <3>7, <3>8, <5>1
        <5> QED
          BY <3>3, <3>4, <5>1, <5>2
      <4> QED
        BY <4>1, <4>2
    <3>12. rt' # None => Shaken(rt.hs)'
      <4>1. rt'.hs = s
        BY <3>1, <3>7
      <4> QED
        BY <3>9, <4>1 DEF Shaken
    <3> QED
      BY <3>1, <3>10, <3>11, <3>12 DEF Shakes
  <2> QED
    BY <1>1, <2>2, <2>3
<1> QED
  BY <1>1, <1>2, <1>3, RuntimeKept

------------------------------------------------------------------------------
(* The theorems                                                             *)

\* The hub starts with nothing and the agents connected.
LEMMA InitOk ==
  ASSUME Init
  PROVE  Inv
<1>1. budget \in [Event -> Nat] /\ budget["connect"] + 1 \in Nat
  <2>1. budget \in [Event -> Nat]
    BY ScenariosAssumption DEF Init
  <2> QED
    BY <2>1 DEF Event
<1>2. /\ clock = Start /\ off = Skew /\ Start \in Nat /\ tunnel = None /\ handling = {} /\ rt = None
      /\ deleted = {} /\ dropped = {} /\ blank = {}
      /\ making = [n \in Node |-> None] /\ wire = [n \in Node |-> <<>>]
      /\ sys = [n \in Node |-> 0] /\ wg = [n \in Node |-> 0] /\ shook = [n \in Node |-> 0]
      /\ sysTold = [n \in Node |-> Start] /\ wgTold = [n \in Node |-> Start]
      /\ ring = [n \in Node |-> None]
      /\ hist = [n \in Node |-> <<>>] /\ said = [n \in Node |-> None]
      /\ conn = [n \in Node |-> budget["connect"] + 1]
  BY Positive DEF Init
<1>3. /\ \A n \in Node : /\ wire[n] = <<>> /\ Len(wire[n]) = 0 /\ making[n] = None
                         /\ ring[n] = None /\ DOMAIN hist[n] = {}
      /\ \A n \in Node : /\ sys[n] = 0 /\ sysTold[n] = Start /\ wgTold[n] = Start /\ said[n] = None
                         /\ shook[n] = 0
  BY <1>2
<1>4. TypeOK
  BY <1>1, <1>2, <1>3, ClockAssumption DEF TypeOK
<1>5. \A n \in Node : Out(n) = <<>> /\ 1 .. Len(Out(n)) = {}
  <2>1. ASSUME NEW n \in Node PROVE Out(n) = <<>>
    BY <1>3 DEF Out
  <2> QED
    BY <2>1
<1>6. Histories /\ Timing
  <2>1. Histories
    BY <1>2 DEF Histories
  <2>2. \A n \in Node : sysTold[n] <= clock /\ wgTold[n] <= clock /\ Shaken(shook[n])
    BY <1>2, <1>3 DEF Shaken
  <2>3. ASSUME NEW n \in Node
        PROVE  /\ \A i \in 1 .. Len(Out(n)) : Fresh(n, Out(n)[i])
               /\ \A i, j \in 1 .. Len(Out(n)) : i < j => Out(n)[i].at <= Out(n)[j].at
    <3>1. \A i \in 1 .. Len(Out(n)) : FALSE
      BY <1>5
    <3> QED
      BY <3>1, Zenon
  <2>4. Start <= clock /\ tunnel = None /\ \A h \in handling : FALSE
    BY <1>2
  <2> QED
    BY <1>3, <2>1, <2>2, <2>3, <2>4, Zenon DEF Timing
<1>7. Counters /\ Kept
  <2>1. \A n \in Node : Reports(n) = {}
    BY <1>2, <1>3 DEF Reports
  <2> QED
    BY <1>3, <2>1 DEF Counters, Slow, Bounded, Kept
<1>8. LinkInv /\ Shakes
  BY <1>2, <1>3, <1>5 DEF LinkInv, Grows, Shakes
<1>9. Curve
  <2>1. ASSUME NEW n \in Node PROVE CurveOf(n)
    <3>1. DOMAIN hist[n] = {} /\ ring[n] = None
      BY <1>3
    <3>2. \E t \in DOMAIN hist[n] \cup {0} : \A u \in DOMAIN hist[n] \cup {0} : t >= u
      <4>1. \A u \in DOMAIN hist[n] \cup {0} : u = 0
        BY <3>1
      <4>2. 0 >= 0
        OBVIOUS
      <4> QED
        BY <4>1, <4>2
    <3>3. \A t \in DOMAIN hist[n] : FALSE
      BY <3>1
    <3> QED
      BY <3>1, <3>2, <3>3, Zenon DEF CurveOf
  <2> QED
    BY <2>1 DEF Curve
<1> QED
  BY <1>4, <1>6, <1>7, <1>8, <1>9 DEF Inv

\* The invariant is inductive.
LEMMA InvOk ==
  Spec => []Inv
<1>1. Init => Inv
  BY InitOk
<1>2. Inv /\ [Next]_vars => Inv'
  <2> SUFFICES ASSUME Inv, [Next]_vars PROVE Inv'
    OBVIOUS
  <2>1. TypeOK /\ Histories /\ Timing /\ Counters /\ Kept /\ LinkInv /\ Shakes /\ Curve
    BY DEF Inv
  <2>2. TypeOK' /\ Histories'
    BY <2>1, TypeStep
  <2>3. Timing' /\ Counters' /\ Kept' /\ LinkInv' /\ Shakes' /\ Curve'
    BY <2>1, <2>2, TimingStep, CountersStep, KeptStep, LinkStep, ShakesStep, CurveStep
  <2> QED
    BY <2>2, <2>3 DEF Inv
<1> QED
  BY <1>1, <1>2, PTL DEF Spec

\* TypeOK of Telemetry holds for any nodes, clocks and ring: in particular no
\* rate in a ring or of a link is negative (Ingest, handleHeartbeat).
THEOREM TypeCorrect == Spec => []TypeOK
<1>1. Inv => TypeOK
  BY DEF Inv
<1> QED
  BY <1>1, InvOk, PTL

\* RateBounded holds: whichever two reports a ring compares, however late or out
\* of order they are ingested, a rate exceeds the machine's by no more than what
\* a rounded second and the time of collecting carry, unless the clock was set
\* between their stamps (Ingest, heartbeatLoop).
THEOREM RatesAreBounded == Spec => []RateBounded
<1>1. Inv => RateBounded
  BY DEF Inv, Counters, Bounded, RateBounded
<1> QED
  BY <1>1, InvOk, PTL

\* LinkRateBounded holds: the hub's own clock, which handleHeartbeat takes for
\* the agent's, makes a link's rate wrong by the traffic of a second and of one
\* delay at most.
THEOREM LinkRatesAreBounded == Spec => []LinkRateBounded
<1>1. Inv => LinkRateBounded
  BY DEF Inv, LinkInv, LinkRateBounded
<1> QED
  BY <1>1, InvOk, PTL

\* The greatest element of a set of numbers that has one.
LEMMA MaxIs ==
  ASSUME NEW S, \E t \in S : \A u \in S : t >= u
  PROVE  Max(S) \in S /\ \A u \in S : Max(S) >= u
BY DEF Max

\* RangeFaithful holds: the panel's curve is the history, although slots are
\* reused and heartbeats late, for any ring that is longer than a delay, a step
\* and what the clocks may differ by (Ingest, Range, Latest).
THEOREM CurveIsFaithful == Spec => []RangeFaithful
<1>1. Inv => RangeFaithful
  <2> SUFFICES ASSUME Inv, NEW n \in Node, ring[n] # None
               PROVE  LET newest == Max(DOMAIN hist[n] \cup {0}) IN
                      /\ Latest(n) = hist[n][BucketOf(ring[n].last)]
                      /\ \A secs \in 1 .. Ring :
                           /\ \A s \in RangeOf(n, secs) : s.ts \in DOMAIN hist[n] /\ hist[n][s.ts] = s
                           /\ \A t \in DOMAIN hist[n] \cap (Unix(Hub) - secs .. Unix(Hub)) :
                                t > newest - Ring => hist[n][t] \in RangeOf(n, secs)
    BY DEF RangeFaithful
  <2> DEFINE newest == Max(DOMAIN hist[n] \cup {0})
  <2>1. CurveOf(n)
    BY DEF Inv, Curve
  <2>2. newest \in DOMAIN hist[n] \cup {0} /\ \A u \in DOMAIN hist[n] \cup {0} : newest >= u
    BY <2>1, MaxIs DEF CurveOf
  <2>3. \A t \in DOMAIN hist[n] : t \in Nat /\ 0 < t /\ hist[n][t].ts = t
    BY <2>1 DEF CurveOf
  <2> HIDE DEF newest
  <2>4. Latest(n) = hist[n][BucketOf(ring[n].last)]
    BY <2>1 DEF CurveOf
  <2>5. ASSUME NEW secs \in 1 .. Ring, NEW s \in RangeOf(n, secs)
        PROVE  s.ts \in DOMAIN hist[n] /\ hist[n][s.ts] = s
    <3>1. PICK i \in 0 .. Slots - 1 : s = ring[n].slots[i] /\ s.ts # 0
      <4>1. s \in {ring[n].slots[i] : i \in 0 .. Slots - 1} /\ s.ts # 0
        BY DEF RangeOf, Span
      <4> QED
        BY <4>1
    <3> QED
      BY <2>1, <3>1 DEF CurveOf
  <2>6. ASSUME NEW secs \in 1 .. Ring, NEW t \in DOMAIN hist[n] \cap (Unix(Hub) - secs .. Unix(Hub)),
               t > newest - Ring
        PROVE  hist[n][t] \in RangeOf(n, secs)
    <3>1. newest \in Nat /\ Ring \in Nat /\ t \in Nat
      <4>1. Step * Slots \in Nat
        BY Positive
      <4> QED
        BY <2>2, <2>3, <4>1 DEF Ring
    <3>2. \A u \in DOMAIN hist[n] : t > u - Ring
      BY <2>2, <2>3, <2>6, <3>1
    <3>3. ring[n].slots[SlotOf(t)] = hist[n][t]
      BY <2>1, <3>2 DEF CurveOf
    <3>4. SlotOf(t) \in 0 .. Slots - 1
      BY <3>1, Buckets
    <3>5. hist[n][t].ts \in Span(secs)
      <4>1. hist[n][t].ts = t /\ t # 0
        BY <2>3, <3>1
      <4> QED
        BY <4>1 DEF Span
    <3> QED
      BY <3>3, <3>4, <3>5 DEF RangeOf
  <2> QED
    BY <2>4, <2>5, <2>6 DEF newest
<1> QED
  BY <1>1, InvOk, PTL

\* ActiveIsRecent holds: an active link had a handshake within the window and
\* what the clocks may differ by, and no end's newer report is lost (LinkStatus).
THEOREM ActiveLinksAreRecent == Spec => []ActiveIsRecent
<1>1. Inv => ActiveIsRecent
  <2> SUFFICES ASSUME Inv PROVE ActiveIsRecent
    OBVIOUS
  <2>1. PICK u, o : u = Unix(Hub) /\ o = off[Hub]
    OBVIOUS
  <2>2. /\ TypeOK /\ Timing /\ clock \in Nat /\ HSWindow \in Nat /\ Sec \in Nat
        /\ Ahead \in Nat /\ Behind \in Nat
        /\ tunnel \in Nat \cup {None} /\ said \in [Node -> Nat \cup {None}]
        /\ rt # None => rt.hs \in Nat
    <3>1. TypeOK /\ Timing
      BY DEF Inv
    <3> QED
      BY <3>1, Positive DEF TypeOK, LinkRT
  <2>3. /\ u \in Nat /\ HSWindow <= u
        /\ clock + o < Sec * (u + 1) /\ clock - Behind <= clock + o /\ o \in Int
    <3>1. o \in Offset /\ Start <= clock /\ u = (clock + o) \div Sec
      BY <2>1, <2>2, UnixIs, Positive DEF Stamped
    <3>2. clock \in Int
      BY <2>2
    <3> QED
      BY <3>1, <3>2, Seconds
  <2>4. ASSUME Active PROVE tunnel # None /\ clock - tunnel < Sec * HSWindow + Ahead + Behind
    <3>1. rt # None /\ u - rt.hs < HSWindow
      BY <2>1, <2>4 DEF Active
    <3>2. PICK hs : hs = rt.hs
      OBVIOUS
    <3>3. hs \in Nat /\ hs # 0 /\ u + 1 <= hs + HSWindow
      BY <2>2, <2>3, <3>1, <3>2
    <3>4. tunnel # None /\ Sec * hs <= tunnel + Ahead
      BY <3>1, <3>2, <3>3 DEF Inv, Shakes, Shaken
    <3>5. Sec * (u + 1) <= Sec * (hs + HSWindow) /\ Sec * (hs + HSWindow) = Sec * hs + Sec * HSWindow
      <4>1. u + 1 \in Nat /\ hs + HSWindow \in Nat /\ hs \in Int /\ HSWindow \in Int
        BY <2>2, <2>3, <3>3
      <4> QED
        BY <3>3, <4>1, Positive, Product
    <3>6. PICK x, y, z : x = Sec * (u + 1) /\ y = Sec * hs /\ z = Sec * HSWindow
      OBVIOUS
    <3>7. x \in Int /\ y \in Int /\ z \in Int
      <4>1. u + 1 \in Nat
        BY <2>3
      <4> QED
        BY <2>2, <3>3, <3>6, <4>1
    <3>8. clock + o < x /\ x <= y + z /\ y <= tunnel + Ahead
      BY <2>3, <3>4, <3>5, <3>6
    <3>9. tunnel \in Nat
      BY <2>2, <3>4
    <3>10. clock - tunnel < z + Ahead + Behind
      BY <2>2, <2>3, <3>7, <3>8, <3>9
    <3> QED
      BY <3>4, <3>6, <3>10
  <2>5. ASSUME NEW n \in End, said[n] # None, u - said[n] < HSWindow PROVE Active
    <3>1. n \in Node
      BY Positive
    <3>2. said[n] \in Nat /\ rt # None /\ said[n] <= rt.hs /\ rt.hs \in Nat
      BY <2>2, <2>5, <3>1 DEF Inv, Shakes
    <3> QED
      BY <2>1, <2>2, <2>3, <2>5, <3>2 DEF Active
  <2> QED
    BY <2>1, <2>4, <2>5 DEF ActiveIsRecent
<1> QED
  BY <1>1, InvOk, PTL
==============================================================================
