----------------------------- MODULE QueueLemmas -----------------------------
(* What a queue holds after its head was taken or an element was appended.  *)
(* Frames, replies, heartbeats and events are queues in the models, and     *)
(* their invariants speak of the elements and not of the positions.         *)
EXTENDS SequenceTheorems, TLAPS

\* The elements of a queue, whose type they have.
LEMMA RangeOfQueue ==
  ASSUME NEW S, NEW q \in Seq(S)
  PROVE  Range(q) = {q[i] : i \in 1 .. Len(q)} /\ Range(q) \subseteq S
BY RangeEquality, RangeOfSeq

\* An empty queue holds nothing.
LEMMA RangeOfEmpty == ASSUME NEW S PROVE <<>> \in Seq(S) /\ Range(<<>>) = {} /\ IsInjective(<<>>)
BY DEF Range, IsInjective

\* The head is held, and what is held afterwards was held before; a queue
\* without repetitions no longer holds its head.
LEMMA RangeOfTail ==
  ASSUME NEW S, NEW q \in Seq(S), q # <<>>
  PROVE  /\ Tail(q) \in Seq(S)
         /\ Head(q) \in Range(q)
         /\ Head(q) \in S
         /\ Range(Tail(q)) \subseteq Range(q)
         /\ Range(q) \subseteq Range(Tail(q)) \cup {Head(q)}
         /\ IsInjective(q) => IsInjective(Tail(q)) /\ Head(q) \notin Range(Tail(q))
<1>1. /\ Tail(q) \in Seq(S) /\ Head(q) \in S /\ Len(q) \in Nat \ {0}
      /\ Len(Tail(q)) = Len(q) - 1
      /\ \A i \in 1 .. Len(Tail(q)) : Tail(q)[i] = q[i + 1]
      /\ Head(q) = q[1]
  BY HeadTailProperties
<1>2. /\ Range(q) = {q[i] : i \in 1 .. Len(q)} /\ DOMAIN q = 1 .. Len(q)
      /\ Range(Tail(q)) = {Tail(q)[i] : i \in 1 .. Len(Tail(q))}
      /\ DOMAIN Tail(q) = 1 .. Len(Tail(q))
  <2>1. DOMAIN q = 1 .. Len(q) /\ DOMAIN Tail(q) = 1 .. Len(Tail(q))
    BY <1>1
  <2>2. Range(q) = {q[i] : i \in 1 .. Len(q)}
    BY RangeEquality
  <2>3. Range(Tail(q)) = {Tail(q)[i] : i \in 1 .. Len(Tail(q))}
    BY <1>1, RangeEquality
  <2> QED
    BY <2>1, <2>2, <2>3
<1>3. Head(q) \in Range(q) /\ Range(Tail(q)) \subseteq Range(q)
  BY <1>1, <1>2
<1>4. ASSUME NEW e \in Range(q), e # Head(q) PROVE e \in Range(Tail(q))
  <2>1. PICK i \in 1 .. Len(q) : e = q[i]
    BY <1>2
  <2>2. i - 1 \in 1 .. Len(Tail(q)) /\ Tail(q)[i - 1] = q[i]
    BY <2>1, <1>1, <1>4
  <2> QED
    BY <2>1, <2>2, <1>2
<1>5. ASSUME IsInjective(q) PROVE IsInjective(Tail(q)) /\ Head(q) \notin Range(Tail(q))
  <2>1. \A i, j \in 1 .. Len(q) : q[i] = q[j] => i = j
    BY <1>2, <1>5 DEF IsInjective
  <2>2. \A i \in 1 .. Len(Tail(q)) : i + 1 \in 1 .. Len(q) /\ i + 1 # 1
    BY <1>1
  <2>3. \A i \in 1 .. Len(Tail(q)) : Tail(q)[i] # q[1]
    BY <1>1, <2>1, <2>2
  <2>4. \A i, j \in 1 .. Len(Tail(q)) : Tail(q)[i] = Tail(q)[j] => i = j
    BY <1>1, <2>1, <2>2
  <2> QED
    BY <1>1, <1>2, <2>3, <2>4 DEF IsInjective
<1> QED
  BY <1>1, <1>3, <1>4, <1>5

\* An element is appended; a new one is no repetition.
LEMMA RangeOfAppend ==
  ASSUME NEW S, NEW q \in Seq(S), NEW e \in S
  PROVE  /\ Append(q, e) \in Seq(S)
         /\ Range(Append(q, e)) = Range(q) \cup {e}
         /\ IsInjective(q) /\ e \notin Range(q) => IsInjective(Append(q, e))
<1> DEFINE r == Append(q, e)
<1>1. /\ r \in Seq(S) /\ Len(q) \in Nat /\ Len(r) = Len(q) + 1
      /\ \A i \in 1 .. Len(q) : r[i] = q[i]
      /\ r[Len(q) + 1] = e
  BY AppendProperties
<1>2. /\ Range(q) = {q[i] : i \in 1 .. Len(q)} /\ DOMAIN q = 1 .. Len(q)
      /\ Range(r) = {r[i] : i \in 1 .. Len(r)} /\ DOMAIN r = 1 .. Len(r)
  <2> HIDE DEF r
  <2>1. DOMAIN q = 1 .. Len(q) /\ DOMAIN r = 1 .. Len(r)
    BY <1>1
  <2>2. Range(q) = {q[i] : i \in 1 .. Len(q)}
    BY RangeEquality
  <2>3. Range(r) = {r[i] : i \in 1 .. Len(r)}
    BY <1>1, RangeEquality
  <2> QED
    BY <2>1, <2>2, <2>3
<1> HIDE DEF r
<1>3. 1 .. Len(r) = 1 .. Len(q) \cup {Len(q) + 1}
  BY <1>1
<1>4. Range(r) = Range(q) \cup {e}
  BY <1>1, <1>2, <1>3
<1>5. ASSUME IsInjective(q), e \notin Range(q) PROVE IsInjective(r)
  <2>1. \A i, j \in 1 .. Len(q) : q[i] = q[j] => i = j
    BY <1>2, <1>5 DEF IsInjective
  <2>2. \A i \in 1 .. Len(q) : q[i] # e
    BY <1>2, <1>5
  <2> QED
    BY <1>1, <1>2, <1>3, <2>1, <2>2 DEF IsInjective
<1> QED
  BY <1>1, <1>4, <1>5 DEF r
==============================================================================
