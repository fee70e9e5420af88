------------------------- MODULE RemoteControlProofs -------------------------
(* Proofs about RemoteControl: a command runs once, a call gets the answer to *)
(* its own request, and RemoteControl implements RemoteCall.                 *)
EXTENDS RemoteControl, QueueLemmas, TLAPS

\* The types the argument needs.
Types ==
  /\ clock \in Nat
  /\ sealed \in [Text -> Sealed \cup {None}]
  /\ pc \in [Call -> {"idle", "send", "wait", "cleanup", "done"}]
  /\ node \in [Call -> Node \cup {None}]
  /\ body \in [Call -> Text \cup {None}]
  /\ toAgent \in [Node -> Seq(Call)]
  /\ seen \in [Node -> SUBSET Text]
  /\ opened \in [Node -> Call \cup {None}]
  /\ viewKey \in [Node -> Nat \cup {None, Torn}] /\ keys \in Nat
  /\ runs \in [Text -> Nat]

\* The agent remembers the command, or it is too old to be accepted again.
Spent(c) == c \in seen[sealed[c].node] \/ sealed[c].ts < clock - 2 * Window

\* A call that was posted keeps its body, and a frame belongs to such a call.
PostedInv ==
  /\ \A r \in Call : (pc[r] # "idle" /\ body[r] # None) => sealed[body[r]] # None
  /\ \A r \in Call : pc[r] \in {"send", "wait"} => node[r] \in Node
  /\ \A n \in Node : \A i \in 1..Len(toAgent[n]) : pc[toAgent[n][i]] # "idle"

\* A command that is open has not run, at its own agent; a command that has
\* run has run once. Either way it is spent.
RunInv ==
  /\ \A n \in Node : opened[n] # None => pc[opened[n]] # "idle" /\ body[opened[n]] \in Text
  /\ \A n \in Node : \A c \in Text : (opened[n] # None /\ body[opened[n]] = c) =>
       sealed[c] # None /\ sealed[c].node = n /\ runs[c] = 0 /\ Spent(c)
  /\ \A c \in Text : runs[c] # 0 => runs[c] = 1 /\ sealed[c] # None /\ Spent(c)

IInv == Types /\ PostedInv /\ RunInv

------------------------------------------------------------------------------
\* The commands are as before when only calls move on.
LEMMA RunKept ==
  ASSUME Types, RunInv, UNCHANGED <<clock, sealed, seen, opened, runs>>,
         \A r \in Call : pc[r] # "idle" => pc'[r] # "idle" /\ body'[r] = body[r]
  PROVE  RunInv'
<1>1. \A c \in Text : Spent(c)' <=> Spent(c)
  BY DEF Spent
<1>2. ASSUME NEW n \in Node, opened[n] # None
      PROVE  opened[n] \in Call /\ pc'[opened[n]] # "idle" /\ body'[opened[n]] = body[opened[n]]
  BY <1>2 DEF Types, RunInv
<1> QED
  BY <1>1, <1>2 DEF RunInv

\* The posted calls are as before when calls keep their node and their body.
LEMMA PostedKept ==
  ASSUME Types, PostedInv, UNCHANGED <<sealed, node, body, toAgent>>,
         \A r \in Call : pc'[r] # "idle" => pc[r] # "idle",
         \A r \in Call : pc[r] # "idle" => pc'[r] # "idle",
         \A r \in Call : pc'[r] \in {"send", "wait"} => pc[r] \in {"send", "wait"}
  PROVE  PostedInv'
  BY DEF Types, PostedInv

\* An agent that takes a frame or loses its connection leaves the rest.
LEMMA FramesKept ==
  ASSUME Types, PostedInv, UNCHANGED <<sealed, node, body, pc>>, NEW n \in Node,
         \/ toAgent[n] # <<>> /\ toAgent' = [toAgent EXCEPT ![n] = Tail(@)]
         \/ toAgent' = [toAgent EXCEPT ![n] = <<>>]
  PROVE  PostedInv' /\ toAgent' \in [Node -> Seq(Call)]
<1>1. toAgent' \in [Node -> Seq(Call)]
  <2>1. toAgent \in [Node -> Seq(Call)] /\ toAgent[n] \in Seq(Call) /\ <<>> \in Seq(Call)
    BY DEF Types
  <2>2. toAgent[n] # <<>> => Tail(toAgent[n]) \in Seq(Call)
    BY <2>1
  <2> QED
    BY <2>1, <2>2
<1>2. ASSUME NEW m \in Node, NEW i \in 1..Len(toAgent'[m]) PROVE pc[toAgent'[m][i]] # "idle"
  <2>1. CASE toAgent'[m] = toAgent[m]
    BY <2>1, <1>2 DEF PostedInv
  <2>2. CASE m = n /\ toAgent[n] # <<>> /\ toAgent'[m] = Tail(toAgent[n])
    <3>1. toAgent[n] \in Seq(Call)
      BY DEF Types
    <3>2. i + 1 \in 1..Len(toAgent[n]) /\ toAgent'[m][i] = toAgent[n][i + 1]
      BY <1>2, <2>2, <3>1
    <3> QED
      BY <3>2 DEF PostedInv
  <2>3. CASE toAgent'[m] = <<>>
    BY <2>3, <1>2
  <2> QED
    BY <2>1, <2>2, <2>3 DEF Types
<1> QED
  BY <1>1, <1>2 DEF PostedInv

------------------------------------------------------------------------------
\* Requests and what the hub does with them touch no command.
LEMMA HubSteps ==
  ASSUME IInv,
         \/ \E r \in Call, n \in Node : \E c \in Text \cup {None} : Request(r, n, c)
         \/ \E r \in Call : CallStep(r)
         \/ \E n \in Node : TakeWaiter(n) \/ RegisterAck(n) \/ DropSession(n)
         \/ \E f \in delivering : Deliver(f)
  PROVE  IInv'
<1> USE DEF hubVars, callVars, chanVars, agentVars, counters
<1>0. Types /\ PostedInv /\ RunInv
  BY DEF IInv
<1>1. ASSUME NEW r \in Call, NEW n \in Node, NEW c \in Text \cup {None}, Request(r, n, c)
      PROVE  IInv'
  <2>1. Types'
    BY <1>0, <1>1 DEF Request, Types
  <2>2. PostedInv'
    BY <1>0, <1>1, NoneAssumption DEF Request, Types, PostedInv
  <2>3. RunInv'
    BY <1>0, <1>1, RunKept DEF Request, Types
  <2> QED
    BY <2>1, <2>2, <2>3 DEF IInv
<1>2. ASSUME NEW r \in Call, SendRequest(r) PROVE IInv'
  <2>1. node[r] \in Node /\ pc[r] = "send"
    BY <1>0, <1>2 DEF SendRequest, PostedInv
  <2>2. Types'
    BY <1>0, <1>2, <2>1 DEF SendRequest, Types
  <2>3. ASSUME NEW m \in Node, NEW i \in 1..Len(toAgent'[m])
        PROVE  toAgent'[m][i] = r \/ (i \in 1..Len(toAgent[m]) /\ toAgent'[m][i] = toAgent[m][i])
    BY <1>0, <1>2, <2>1, <2>3 DEF SendRequest, Types
  <2>4. PostedInv'
    BY <1>0, <1>2, <2>1, <2>2, <2>3 DEF SendRequest, Types, PostedInv
  <2>5. RunInv'
    BY <1>0, <1>2, RunKept DEF SendRequest, Types
  <2> QED
    BY <2>2, <2>4, <2>5 DEF IInv
<1>3. ASSUME NEW r \in Call, Receive(r) \/ Timeout(r) \/ Cleanup(r) PROVE IInv'
  <2>1. Types'
    BY <1>0, <1>3 DEF Receive, Timeout, Cleanup, Types
  <2>2. PostedInv'
    BY <1>0, <1>3, PostedKept DEF Receive, Timeout, Cleanup, Types
  <2>3. RunInv'
    BY <1>0, <1>3, RunKept DEF Receive, Timeout, Cleanup, Types
  <2> QED
    BY <2>1, <2>2, <2>3 DEF IInv
<1>4. ASSUME \/ \E n \in Node : TakeWaiter(n) \/ RegisterAck(n) \/ DropSession(n)
             \/ \E f \in delivering : Deliver(f)
      PROVE  IInv'
  <2>1. UNCHANGED <<clock, sealed, pc, node, body, toAgent, seen, opened, viewKey, keys, runs>>
    BY <1>4 DEF TakeWaiter, RegisterAck, DropSession, Deliver
  <2>2. Types'
    BY <1>0, <2>1 DEF Types
  <2>3. PostedInv' /\ RunInv'
    BY <1>0, <2>1, PostedKept, RunKept
  <2> QED
    BY <2>2, <2>3 DEF IInv
<1> QED
  BY <1>1, <1>2, <1>3, <1>4 DEF CallStep

\* An agent that forgets a command forgets it when it is too old, and one that
\* accepts a command remembers it.
LEMMA AgentSteps == ASSUME IInv, NEW n \in Node, AgentStep(n) PROVE IInv'
<1> USE DEF hubVars, callVars, chanVars, agentVars, counters
<1>0. Types /\ PostedInv /\ RunInv
  BY DEF IInv
<1>1. CASE ConfGet(n)
  <2>1. PostedInv' /\ toAgent' \in [Node -> Seq(Call)]
    BY <1>0, <1>1, FramesKept DEF ConfGet, HasFrame
  <2>2. Types'
    BY <1>0, <1>1, <2>1 DEF ConfGet, Types
  <2>3. RunInv'
    BY <1>0, <1>1, RunKept DEF ConfGet
  <2> QED
    BY <2>1, <2>2, <2>3 DEF IInv
<1>2. CASE OpenSvcCmd(n)
  <2>1. PostedInv' /\ toAgent' \in [Node -> Seq(Call)]
    BY <1>0, <1>2, FramesKept DEF OpenSvcCmd, HasFrame
  <2>2. PICK r \in Call : r = Frame(n) /\ pc[r] # "idle" /\ opened[n] = None
    <3>1. toAgent[n] \in Seq(Call) /\ toAgent[n] # <<>>
      BY <1>0, <1>2 DEF OpenSvcCmd, HasFrame, Types
    <3>2. 1 \in 1..Len(toAgent[n]) /\ Frame(n) = toAgent[n][1]
      BY <3>1 DEF Frame
    <3> QED
      BY <3>1, <3>2, <1>0, <1>2 DEF OpenSvcCmd, HasFrame, PostedInv
  <2>3. PICK c \in Text : c = body[r] /\ sealed[c] # None /\ sealed[c] \in Sealed
    BY <1>0, <1>2, <2>2 DEF OpenSvcCmd, Types, PostedInv
  <2>4. \/ /\ Acceptable(n, c) /\ c \notin Remembered(n)
           /\ seen' = [seen EXCEPT ![n] = Remembered(n) \cup {c}]
           /\ opened' = [opened EXCEPT ![n] = r]
        \/ seen' = [seen EXCEPT ![n] = Remembered(n)] /\ opened' = opened
        \/ seen' = seen /\ opened' = opened
    BY <1>2, <2>2, <2>3 DEF OpenSvcCmd
  <2>5. UNCHANGED <<clock, sealed, pc, node, body, viewKey, keys, runs>>
    BY <1>2 DEF OpenSvcCmd
  <2>6. \A k : k \in Remembered(n) <=> k \in seen[n] /\ sealed[k].ts >= clock - 2 * Window
    BY DEF Remembered
  <2>7. Types'
    <3>1. Remembered(n) \subseteq Text /\ seen \in [Node -> SUBSET Text]
      BY <1>0, <2>6 DEF Types
    <3>2. seen' \in [Node -> SUBSET Text]
      BY <2>4, <3>1
    <3>3. opened' \in [Node -> Call \cup {None}]
      BY <1>0, <2>4 DEF Types
    <3> QED
      BY <1>0, <2>1, <2>5, <3>2, <3>3 DEF Types
  <2>8. ASSUME NEW k \in Text, sealed[k] # None, Spent(k) PROVE Spent(k)'
    <3>1. sealed[k].node \in Node /\ sealed[k].ts \in Int /\ clock \in Int
      BY <1>0, <2>8 DEF Sealed, Types
    <3>2. \A m \in Node : k \in seen[m] /\ k \notin seen'[m] =>
            ~(sealed[k].ts >= clock - 2 * Window)
      <4>1. seen \in [Node -> SUBSET Text]
        BY <1>0 DEF Types
      <4> QED
        BY <2>4, <2>6, <4>1
    <3> QED
      BY <2>5, <2>8, <3>1, <3>2, WindowAssumption DEF Spent
  <2>9. RunInv'
    <3>1. CASE /\ Acceptable(n, c) /\ c \notin Remembered(n)
               /\ seen' = [seen EXCEPT ![n] = Remembered(n) \cup {c}]
               /\ opened' = [opened EXCEPT ![n] = r]
      <4>1. sealed[c].node = n /\ sealed[c].ts >= clock - 2 * Window /\ c \notin seen[n]
        <5>1. sealed[c].node = n /\ sealed[c].ts >= clock - Window
          BY <1>0, <2>3, <3>1, WindowAssumption DEF Acceptable, Types, Sealed
        <5>2. sealed[c].ts \in Int /\ clock \in Int /\ Window \in Nat
          BY <1>0, <2>3, WindowAssumption DEF Types, Sealed
        <5>3. sealed[c].ts >= clock - 2 * Window
          BY <5>1, <5>2
        <5> QED
          BY <2>6, <3>1, <5>1, <5>3
      <4>2. runs[c] = 0
        <5>1. sealed[c].ts \in Int /\ clock \in Int /\ Window \in Nat
          BY <1>0, <2>3, WindowAssumption DEF Types, Sealed
        <5>2. ~(sealed[c].ts < clock - 2 * Window)
          BY <4>1, <5>1
        <5>3. ~Spent(c)
          BY <4>1, <5>2 DEF Spent
        <5> QED
          BY <1>0, <2>3, <5>3 DEF RunInv
      <4>3. c \in seen'[n]
        BY <1>0, <3>1 DEF Types
      <4>4. Spent(c)'
        BY <2>5, <4>1, <4>3 DEF Spent
      <4>5. opened'[n] = r /\ \A m \in Node : m # n => opened'[m] = opened[m]
        BY <1>0, <3>1 DEF Types
      <4> QED
        BY <1>0, <2>2, <2>3, <2>5, <2>8, <4>1, <4>2, <4>4, <4>5 DEF RunInv
    <3>2. CASE opened' = opened
      BY <1>0, <2>5, <2>8, <3>2 DEF RunInv
    <3> QED
      BY <2>4, <3>1, <3>2
  <2> QED
    BY <2>1, <2>7, <2>9 DEF IInv
<1>3. CASE UnknownAlias(n)
  <2>1. Types'
    BY <1>0, <1>3 DEF UnknownAlias, Types
  <2>2. PostedInv'
    BY <1>0, <1>3, PostedKept DEF UnknownAlias
  <2>3. \A c \in Text : Spent(c)' <=> Spent(c)
    BY <1>3 DEF UnknownAlias, Spent
  <2>4. \A m \in Node : opened'[m] # None => opened'[m] = opened[m]
    BY <1>0, <1>3 DEF UnknownAlias, Types
  <2>5. UNCHANGED <<sealed, pc, body, runs>>
    BY <1>3 DEF UnknownAlias
  <2>6. RunInv'
    BY <1>0, <2>3, <2>4, <2>5 DEF RunInv
  <2> QED
    BY <2>1, <2>2, <2>6 DEF IInv
<1>4. CASE \E res \in {"done", "failed"} : RunSvc(n, res)
  <2> DEFINE c == body[opened[n]]
  <2>1. c \in Text /\ opened[n] # None /\ sealed[c] # None /\ sealed[c].node = n /\ runs[c] = 0
          /\ Spent(c)
    BY <1>0, <1>4 DEF RunSvc, RunInv
  <2>2. /\ runs' = [runs EXCEPT ![c] = @ + 1] /\ opened' = [opened EXCEPT ![n] = None]
        /\ UNCHANGED <<clock, sealed, pc, node, body, toAgent, seen, viewKey, keys>>
    BY <1>4 DEF RunSvc
  <2>3. Types'
    BY <1>0, <2>1, <2>2 DEF Types
  <2>4. PostedInv'
    BY <1>0, <2>2, PostedKept
  <2>5. \A k \in Text : Spent(k)' <=> Spent(k)
    BY <2>2 DEF Spent
  <2>6. runs'[c] = 1 /\ \A k \in Text : k # c => runs'[k] = runs[k]
    BY <1>0, <2>1, <2>2 DEF Types
  <2>7. ASSUME NEW m \in Node, opened'[m] # None
        PROVE  m # n /\ opened'[m] = opened[m] /\ body[opened[m]] # c
    BY <1>0, <2>1, <2>2, <2>7 DEF Types, RunInv
  <2>8. RunInv'
    BY <1>0, <2>1, <2>2, <2>5, <2>6, <2>7 DEF RunInv
  <2> QED
    BY <2>3, <2>4, <2>8 DEF IInv
<1> QED
  BY <1>1, <1>2, <1>3, <1>4 DEF AgentStep

\* Connections, restarts and view passwords; a restarted process has run and
\* opened nothing.
LEMMA LocalSteps == ASSUME IInv, NEW n \in Node, LocalStep(n) PROVE IInv'
<1> USE DEF hubVars, callVars, chanVars, agentVars, counters
<1>0. Types /\ PostedInv /\ RunInv
  BY DEF IInv
<1>1. CASE SetViewPassword(n) \/ ViewPasswordSet(n) \/ ClearViewPassword(n) \/ Reconnect(n)
  <2>1. UNCHANGED <<clock, sealed, pc, node, body, toAgent, seen, opened, runs>>
    BY <1>1 DEF SetViewPassword, ViewPasswordSet, ClearViewPassword, Reconnect
  <2>2. viewKey' \in [Node -> Nat \cup {None, Torn}] /\ keys' \in Nat
    <3>1. viewKey \in [Node -> Nat \cup {None, Torn}] /\ keys \in Nat
      BY <1>0 DEF Types
    <3>2. CASE SetViewPassword(n)
      BY <3>1, <3>2 DEF SetViewPassword
    <3>3. CASE ViewPasswordSet(n) \/ ClearViewPassword(n)
      BY <3>1, <3>3 DEF ViewPasswordSet, ClearViewPassword
    <3>4. CASE Reconnect(n)
      BY <3>1, <3>4 DEF Reconnect
    <3> QED
      BY <1>1, <3>2, <3>3, <3>4
  <2>3. Types'
    BY <1>0, <2>1, <2>2 DEF Types
  <2>4. PostedInv' /\ RunInv'
    BY <1>0, <2>1, PostedKept, RunKept
  <2> QED
    BY <2>3, <2>4 DEF IInv
<1>2. CASE AgentRestart(n)
  <2>1. PostedInv' /\ toAgent' \in [Node -> Seq(Call)]
    BY <1>0, <1>2, FramesKept DEF AgentRestart
  <2>2. /\ seen' = [seen EXCEPT ![n] = {}] /\ opened' = [opened EXCEPT ![n] = None]
        /\ runs' = [c \in Text |-> IF sealed[c] # None /\ sealed[c].node = n THEN 0 ELSE runs[c]]
        /\ UNCHANGED <<clock, sealed, pc, node, body, viewKey, keys>>
    BY <1>2 DEF AgentRestart
  <2>3. Types'
    BY <1>0, <2>1, <2>2 DEF Types
  <2>4. ASSUME NEW c \in Text, sealed[c] # None, sealed[c].node # n
        PROVE  runs'[c] = runs[c] /\ (Spent(c) => Spent(c)')
    BY <1>0, <2>2, <2>4 DEF Spent, Types, Sealed
  <2>5. ASSUME NEW c \in Text, runs'[c] # 0
        PROVE  runs'[c] = 1 /\ sealed[c] # None /\ Spent(c)'
    BY <1>0, <2>2, <2>4, <2>5 DEF RunInv
  <2>6. ASSUME NEW m \in Node, opened'[m] # None PROVE m # n /\ opened'[m] = opened[m]
    BY <1>0, <2>2, <2>6 DEF Types
  <2>7. RunInv'
    BY <1>0, <2>2, <2>4, <2>5, <2>6 DEF RunInv
  <2> QED
    BY <2>1, <2>3, <2>7 DEF IInv
<1>3. CASE Break(n)
  <2>1. PostedInv' /\ toAgent' \in [Node -> Seq(Call)]
    BY <1>0, <1>3, FramesKept DEF Break
  <2>2. Types'
    BY <1>0, <1>3, <2>1 DEF Break, Types
  <2>3. RunInv'
    BY <1>0, <1>3, RunKept DEF Break
  <2> QED
    BY <2>1, <2>2, <2>3 DEF IInv
<1> QED
  BY <1>1, <1>2, <1>3 DEF LocalStep

\* A new command is sealed, or time passes.
LEMMA OtherSteps ==
  ASSUME IInv,
         \/ \E c \in Cmd, n \in Node : \E ts \in clock - Skew .. clock + Skew : Seal(c, n, ts)
         \/ Tick
         \/ UNCHANGED vars
  PROVE  IInv'
<1> USE DEF hubVars, callVars, chanVars, agentVars, counters
<1>0. Types /\ PostedInv /\ RunInv
  BY DEF IInv
<1>1. ASSUME NEW c \in Cmd, NEW n \in Node, NEW ts \in clock - Skew .. clock + Skew,
             Seal(c, n, ts)
      PROVE  IInv'
  <2>1. ts \in Int /\ viewKey[n] \in Nat
    BY <1>0, <1>1, SkewAssumption DEF Seal, Types
  <2>2. /\ sealed' \in [Text -> Sealed \cup {None}]
        /\ \A k \in Text : sealed[k] # None => sealed'[k] = sealed[k]
        /\ UNCHANGED <<clock, pc, node, body, toAgent, seen, opened, viewKey, keys, runs>>
    BY <1>0, <1>1, <2>1 DEF Seal, Types, Sealed
  <2>3. Types'
    BY <1>0, <2>2 DEF Types
  <2>4. PostedInv'
    BY <1>0, <2>2 DEF PostedInv, Types
  <2>5. \A k \in Text : sealed[k] # None /\ Spent(k) => sealed'[k] = sealed[k] /\ Spent(k)'
    BY <2>2 DEF Spent
  <2>6. RunInv'
    BY <1>0, <2>2, <2>5 DEF RunInv
  <2> QED
    BY <2>3, <2>4, <2>6 DEF IInv
<1>2. CASE Tick
  <2>1. /\ clock' = clock + 1
        /\ UNCHANGED <<sealed, pc, node, body, toAgent, seen, opened, viewKey, keys, runs>>
    BY <1>2 DEF Tick
  <2>2. Types'
    BY <1>0, <2>1 DEF Types
  <2>3. PostedInv'
    BY <1>0, <2>1, PostedKept
  <2>4. ASSUME NEW k \in Text, sealed[k] # None, Spent(k) PROVE Spent(k)'
    <3>1. sealed[k].ts \in Int /\ clock \in Nat
      BY <1>0, <2>4 DEF Types, Sealed
    <3> QED
      BY <2>1, <2>4, <3>1, WindowAssumption DEF Spent
  <2>5. RunInv'
    BY <1>0, <2>1, <2>4 DEF RunInv
  <2> QED
    BY <2>2, <2>3, <2>5 DEF IInv
<1>3. CASE UNCHANGED vars
  <2>1. UNCHANGED <<clock, sealed, pc, node, body, toAgent, seen, opened, viewKey, keys, runs>>
    BY <1>3 DEF vars
  <2>2. Types'
    BY <1>0, <2>1 DEF Types
  <2>3. PostedInv' /\ RunInv'
    BY <1>0, <2>1, PostedKept, RunKept
  <2> QED
    BY <2>2, <2>3 DEF IInv
<1> QED
  BY <1>1, <1>2, <1>3

\* RunOnce, for any calls, commands, texts of them, clock skew and window: however
\* often a text is posted, one agent process runs its command once for that text;
\* pruning never forgets a text that would still be accepted (openSvcCmd). Nothing
\* is assumed of the decoding, CmdOf: two texts of one command are two entries.
THEOREM CommandsRunOnce == Spec => []RunOnce
<1>1. Init => IInv
  BY NoneAssumption DEF Init, IInv, Types, PostedInv, RunInv
<1>2. IInv /\ [Next]_vars => IInv'
  BY HubSteps, AgentSteps, LocalSteps, OtherSteps DEF Next
<1>3. IInv => RunOnce
  <2> SUFFICES ASSUME IInv, NEW c \in Text PROVE runs[c] <= 1
    BY DEF RunOnce
  <2>1. runs[c] \in Nat /\ (runs[c] # 0 => runs[c] = 1)
    BY DEF IInv, Types, RunInv
  <2> QED
    BY <2>1
<1> QED
  BY <1>1, <1>2, <1>3, PTL DEF Spec

------------------------------------------------------------------------------
(* Where a call is. A call that was sent is in one place: a frame on its way *)
(* to the agent, the command the agent has open, an answer on its way back,  *)
(* or nowhere.                                                               *)

\* The answers that the agents have written: on the wire, between the lock and
\* the channel, in the channel.
OnWire  == UNION {Range(toHub[n]) : n \in Node}
Handed  == {f \in Reply : ch[f.call] = f.res}
Answers == delivering \cup OnWire \cup Handed

\* An answer tells the truth about the call.
Truth(f) ==
  /\ f.res \in {"done", "failed"} => f.call \in ranFor
  /\ f.res = "rejected" => body[f.call] # None /\ f.call \notin ranFor
  /\ f.res \in {"conf", "nokey", "unreadable"} => body[f.call] = None

\* The agent has not dealt with the call.
Untouched(r) == r \notin ranFor /\ \A f \in Answers : f.call # r

\* The call is not on its way to an agent or at one.
Away(r) == \A n \in Node : r \notin Range(toAgent[n]) /\ opened[n] # r

AnswersTrue == \A f \in Answers : Truth(f)

\* Where a call is, by the place its goroutine has reached.
StageInv ==
  \A r \in Call :
    /\ pc[r] \in {"idle", "send"} => Untouched(r) /\ Away(r)
    /\ pc[r] \in {"idle", "send", "wait"} => answer[r] = None
    /\ pc[r] \in {"send", "wait"} => node[r] \in Node
    /\ pc[r] \in {"idle", "done"} => r \notin confWait
    /\ answer[r] = "offline" => Away(r)
    /\ answer[r] \in Result => ch[r] = answer[r]
    /\ r \in ranFor => body[r] # None

\* A call that is at its agent is there once, and has not been dealt with.
FrameInv ==
  \A n \in Node :
    /\ IsInjective(toAgent[n])
    /\ \A r \in Range(toAgent[n]) : node[r] = n /\ Untouched(r) /\ opened[n] # r
    /\ opened[n] # None =>
         node[opened[n]] = n /\ body[opened[n]] # None /\ Untouched(opened[n])

CallInv == AnswersTrue /\ StageInv /\ FrameInv

------------------------------------------------------------------------------
(* Types                                                                   *)

\* What an agent writes on its connection is a reply.
LEMMA WriteType ==
  ASSUME TypeOK, NEW n \in Node, NEW r \in Call, NEW res \in Result, Write(n, r, res)
  PROVE  toHub' \in [Node -> Seq(Reply)]
<1>1. [call |-> r, res |-> res] \in Reply /\ toHub[n] \in Seq(Reply)
  BY DEF TypeOK, Reply
<1>2. Append(toHub[n], [call |-> r, res |-> res]) \in Seq(Reply)
  BY <1>1, AppendProperties
<1> QED
  BY <1>1, <1>2 DEF Write, TypeOK

\* Taking a frame.
LEMMA FrameType ==
  ASSUME TypeOK, NEW n \in Node, HasFrame(n)
  PROVE  /\ Frame(n) \in Call
         /\ [toAgent EXCEPT ![n] = Tail(@)] \in [Node -> Seq(Call)]
<1>1. toAgent[n] \in Seq(Call) /\ toAgent[n] # <<>>
  BY DEF TypeOK, HasFrame
<1>2. Tail(toAgent[n]) \in Seq(Call) /\ Frame(n) \in Call
  BY <1>1, HeadTailProperties DEF Frame
<1> QED
  BY <1>2 DEF TypeOK

\* The steps of requestReply keep the types.
LEMMA CallTypes ==
  ASSUME TypeOK,
         \/ \E r \in Call, n \in Node : \E c \in Text \cup {None} : Request(r, n, c)
         \/ \E r \in Call : CallStep(r)
  PROVE  TypeOK'
<1> USE DEF hubVars, callVars, chanVars, agentVars, counters
<1>1. ASSUME NEW r \in Call, NEW n \in Node, NEW c \in Text \cup {None}, Request(r, n, c)
      PROVE  TypeOK'
  <2>1. node' \in [Call -> Node \cup {None}] /\ body' \in [Call -> Text \cup {None}]
    BY <1>1 DEF Request, TypeOK
  <2>2. /\ pc' \in [Call -> {"idle", "send", "wait", "cleanup", "done"}]
        /\ answer' \in [Call -> Result \cup {"offline", "timeout", None}]
        /\ confWait' \subseteq Call /\ via' \in [Call -> Nat \cup {None}]
    <3>1. CASE sess[n] = None
      BY <1>1, <3>1 DEF Request, TypeOK
    <3>2. CASE sess[n] # None
      <4>1. sess[n] \in Nat
        BY <3>2 DEF TypeOK
      <4>2. via' = [via EXCEPT ![r] = sess[n]] /\ via \in [Call -> Nat \cup {None}]
        BY <1>1, <3>2 DEF Request, TypeOK
      <4>3. pc' = [pc EXCEPT ![r] = "send"] /\ confWait' = confWait \cup {r} /\ answer' = answer
        BY <1>1, <3>2 DEF Request
      <4>4. via' \in [Call -> Nat \cup {None}]
        BY <4>1, <4>2
      <4> QED
        BY <4>3, <4>4 DEF TypeOK
    <3> QED
      BY <3>1, <3>2
  <2> QED
    BY <1>1, <2>1, <2>2 DEF Request, TypeOK
<1>2. ASSUME NEW r \in Call, SendRequest(r) PROVE TypeOK'
  <2>1. toAgent' \in [Node -> Seq(Call)]
    <3>1. CASE node[r] \in Node
      <4>1. Append(toAgent[node[r]], r) \in Seq(Call)
        BY <3>1, AppendProperties DEF TypeOK
      <4> QED
        BY <1>2, <3>1, <4>1 DEF SendRequest, TypeOK
    <3>2. CASE node[r] \notin Node
      BY <1>2, <3>2 DEF SendRequest, TypeOK
    <3> QED
      BY <3>1, <3>2
  <2>2. pc' \in [Call -> {"idle", "send", "wait", "cleanup", "done"}]
    BY <1>2 DEF SendRequest, TypeOK
  <2> QED
    BY <1>2, <2>1, <2>2 DEF SendRequest, TypeOK
<1>3. ASSUME NEW r \in Call, Receive(r) \/ Timeout(r) PROVE TypeOK'
  <2>1. /\ pc' \in [Call -> {"idle", "send", "wait", "cleanup", "done"}]
        /\ answer' \in [Call -> Result \cup {"offline", "timeout", None}]
    BY <1>3 DEF Receive, Timeout, TypeOK
  <2> QED
    BY <1>3, <2>1 DEF Receive, Timeout, TypeOK
<1>4. ASSUME NEW r \in Call, Cleanup(r) PROVE TypeOK'
  BY <1>4 DEF Cleanup, WaitersAfter, TypeOK
<1> QED
  BY <1>1, <1>2, <1>3, <1>4 DEF CallStep

\* The hub's steps on registers, broken sessions and late replies keep the types.
LEMMA HubTypes ==
  ASSUME TypeOK,
         \/ \E n \in Node : TakeWaiter(n) \/ RegisterAck(n) \/ DropSession(n)
         \/ \E f \in delivering : Deliver(f)
  PROVE  TypeOK'
<1> USE DEF hubVars, callVars, chanVars, agentVars, counters
<1>1. ASSUME NEW n \in Node, TakeWaiter(n) PROVE TypeOK'
  <2>1. Head(toHub[n]) \in Reply /\ Tail(toHub[n]) \in Seq(Reply)
    BY <1>1, HeadTailProperties DEF TakeWaiter, TypeOK
  <2>2. toHub' \in [Node -> Seq(Reply)]
    BY <1>1, <2>1 DEF TakeWaiter, TypeOK
  <2>3. confWait' \subseteq Call /\ delivering' \subseteq Reply
    BY <1>1, <2>1 DEF TakeWaiter, WaiterOf, TypeOK, Reply
  <2> QED
    BY <1>1, <2>2, <2>3 DEF TakeWaiter, TypeOK
<1>2. ASSUME NEW n \in Node, RegisterAck(n) PROVE TypeOK'
  BY <1>2 DEF RegisterAck, TypeOK
<1>3. ASSUME NEW n \in Node, DropSession(n) PROVE TypeOK'
  <2>1. <<>> \in Seq(Reply)
    OBVIOUS
  <2>2. toHub' \in [Node -> Seq(Reply)] /\ sess' \in [Node -> Nat \cup {None}]
    BY <1>3, <2>1 DEF DropSession, TypeOK
  <2> QED
    BY <1>3, <2>2 DEF DropSession, TypeOK
<1>4. ASSUME NEW f \in delivering, Deliver(f) PROVE TypeOK'
  <2>1. f.res \in Result
    BY DEF TypeOK, Reply
  <2>2. ch' \in [Call -> Result \cup {None}] /\ delivering' \subseteq Reply
    BY <1>4, <2>1 DEF Deliver, TypeOK
  <2> QED
    BY <1>4, <2>2 DEF Deliver, TypeOK
<1> QED
  BY <1>1, <1>2, <1>3, <1>4

\* The agent's handlers keep the types.
LEMMA AgentTypes == ASSUME TypeOK, NEW n \in Node, AgentStep(n) PROVE TypeOK'
<1> USE DEF hubVars, callVars, chanVars, agentVars, counters
<1>1. CASE ConfGet(n)
  <2>1. ConfResult(n) \in Result
    BY DEF ConfResult, Result
  <2>2. toAgent' \in [Node -> Seq(Call)] /\ Frame(n) \in Call
    BY <1>1, FrameType DEF ConfGet
  <2>3. toHub' \in [Node -> Seq(Reply)]
    BY <1>1, <2>1, <2>2, WriteType DEF ConfGet
  <2> QED
    BY <1>1, <2>2, <2>3 DEF ConfGet, TypeOK
<1>2. CASE OpenSvcCmd(n)
  <2>1. toAgent' \in [Node -> Seq(Call)] /\ Frame(n) \in Call
    BY <1>2, FrameType DEF OpenSvcCmd
  <2>2. toHub' \in [Node -> Seq(Reply)]
    <3>1. "rejected" \in Result
      BY DEF Result
    <3>2. toHub' = toHub \/ Write(n, Frame(n), "rejected")
      BY <1>2 DEF OpenSvcCmd
    <3> QED
      BY <2>1, <3>1, <3>2, WriteType DEF TypeOK
  <2>3. body[Frame(n)] \in Text /\ Remembered(n) \subseteq Text
    BY <1>2, <2>1 DEF OpenSvcCmd, Remembered, TypeOK
  <2>4. seen' \in [Node -> SUBSET Text] /\ opened' \in [Node -> Call \cup {None}]
    <3>1. \/ seen' = seen
          \/ seen' = [seen EXCEPT ![n] = Remembered(n)]
          \/ seen' = [seen EXCEPT ![n] = Remembered(n) \cup {body[Frame(n)]}]
      BY <1>2 DEF OpenSvcCmd
    <3>2. opened' = opened \/ opened' = [opened EXCEPT ![n] = Frame(n)]
      BY <1>2 DEF OpenSvcCmd
    <3>3. {Remembered(n), Remembered(n) \cup {body[Frame(n)]}} \subseteq SUBSET Text
      BY <2>3
    <3>4. seen \in [Node -> SUBSET Text] /\ opened \in [Node -> Call \cup {None}]
      BY DEF TypeOK
    <3>5. seen' \in [Node -> SUBSET Text]
      BY <3>1, <3>3, <3>4
    <3> QED
      BY <2>1, <3>2, <3>4, <3>5
  <2> QED
    BY <1>2, <2>1, <2>2, <2>4 DEF OpenSvcCmd, TypeOK
<1>3. CASE UnknownAlias(n)
  <2>1. "rejected" \in Result /\ opened[n] \in Call
    BY <1>3 DEF UnknownAlias, TypeOK, Result
  <2>2. toHub' \in [Node -> Seq(Reply)]
    BY <1>3, <2>1, WriteType DEF UnknownAlias
  <2>3. opened' \in [Node -> Call \cup {None}]
    BY <1>3 DEF UnknownAlias, TypeOK
  <2> QED
    BY <1>3, <2>2, <2>3 DEF UnknownAlias, TypeOK
<1>4. ASSUME NEW res \in {"done", "failed"}, RunSvc(n, res) PROVE TypeOK'
  <2>1. res \in Result /\ opened[n] \in Call
    BY <1>4 DEF RunSvc, TypeOK, Result
  <2>2. toHub' \in [Node -> Seq(Reply)]
    BY <1>4, <2>1, WriteType DEF RunSvc
  <2>3. /\ opened' \in [Node -> Call \cup {None}] /\ ranFor' \subseteq Call
        /\ runs' \in [Text -> Nat]
    <3>1. opened' \in [Node -> Call \cup {None}] /\ ranFor' \subseteq Call
      BY <1>4, <2>1 DEF RunSvc, TypeOK
    <3>2. runs' = [runs EXCEPT ![body[opened[n]]] = runs[body[opened[n]]] + 1]
      BY <1>4 DEF RunSvc
    <3>3. CASE body[opened[n]] \in Text
      <4>1. runs[body[opened[n]]] + 1 \in Nat
        BY <3>3 DEF TypeOK
      <4> QED
        BY <3>1, <3>2, <4>1 DEF TypeOK
    <3>4. CASE body[opened[n]] \notin Text
      BY <3>1, <3>2, <3>4 DEF TypeOK
    <3> QED
      BY <3>3, <3>4
  <2> QED
    BY <1>4, <2>2, <2>3 DEF RunSvc, TypeOK
<1> QED
  BY <1>1, <1>2, <1>3, <1>4 DEF AgentStep

\* Steps of an agent without the hub keep the types.
LEMMA LocalTypes == ASSUME TypeOK, NEW n \in Node, LocalStep(n) PROVE TypeOK'
<1> USE DEF hubVars, callVars, chanVars, agentVars, counters
<1>0. <<>> \in Seq(Call) /\ <<>> \in Seq(Reply)
  OBVIOUS
<1>1. CASE SetViewPassword(n)
  BY <1>1 DEF SetViewPassword, TypeOK
<1>2. CASE ViewPasswordSet(n)
  BY <1>2 DEF ViewPasswordSet, TypeOK
<1>3. CASE ClearViewPassword(n)
  BY <1>3 DEF ClearViewPassword, TypeOK
<1>4. CASE AgentRestart(n)
  <2>1. /\ conn' \in [Node -> Nat \cup {None}] /\ ready' \in [Node -> BOOLEAN]
        /\ toAgent' \in [Node -> Seq(Call)]
    BY <1>0, <1>4 DEF AgentRestart, TypeOK
  <2>2. /\ seen' \in [Node -> SUBSET Text] /\ opened' \in [Node -> Call \cup {None}]
        /\ runs' \in [Text -> Nat] /\ restarts' \in Nat
    BY <1>4 DEF AgentRestart, TypeOK
  <2> QED
    BY <1>4, <2>1, <2>2 DEF AgentRestart, TypeOK
<1>5. CASE Reconnect(n)
  <2>1. /\ conn' \in [Node -> Nat \cup {None}] /\ ready' \in [Node -> BOOLEAN]
        /\ toHub' \in [Node -> Seq(Reply)]
    BY <1>0, <1>5 DEF Reconnect, TypeOK
  <2>2. conns' \in [Node -> Nat] /\ sess' \in [Node -> Nat \cup {None}]
    BY <1>5 DEF Reconnect, TypeOK
  <2> QED
    BY <1>5, <2>1, <2>2 DEF Reconnect, TypeOK
<1>6. CASE Break(n)
  <2>1. /\ conn' \in [Node -> Nat \cup {None}] /\ ready' \in [Node -> BOOLEAN]
        /\ toAgent' \in [Node -> Seq(Call)]
    BY <1>0, <1>6 DEF Break, TypeOK
  <2> QED
    BY <1>6, <2>1 DEF Break, TypeOK
<1> QED
  BY <1>1, <1>2, <1>3, <1>4, <1>5, <1>6 DEF LocalStep

\* Sealing a command and the clock keep the types.
LEMMA OtherTypes ==
  ASSUME TypeOK,
         \/ \E c \in Cmd, n \in Node : \E ts \in clock - Skew .. clock + Skew : Seal(c, n, ts)
         \/ Tick
         \/ UNCHANGED vars
  PROVE  TypeOK'
<1> USE DEF hubVars, callVars, chanVars, agentVars, counters
<1>1. ASSUME NEW c \in Cmd, NEW n \in Node, NEW ts \in clock - Skew .. clock + Skew,
             Seal(c, n, ts)
      PROVE  TypeOK'
  <2>1. [node |-> n, key |-> viewKey[n], ts |-> ts] \in Sealed
    BY <1>1, SkewAssumption DEF Seal, TypeOK, Sealed
  <2>2. sealed' \in [Text -> Sealed \cup {None}]
    BY <1>1, <2>1 DEF Seal, TypeOK
  <2> QED
    BY <1>1, <2>2 DEF Seal, TypeOK
<1>2. CASE Tick
  BY <1>2 DEF Tick, TypeOK
<1>3. CASE UNCHANGED vars
  BY <1>3 DEF vars, TypeOK
<1> QED
  BY <1>1, <1>2, <1>3

\* Every variable has its type, for any calls, commands and bounds.
THEOREM TypeCorrect == Spec => []TypeOK
<1>1. Init => TypeOK
  BY DEF Init, TypeOK
<1>2. TypeOK /\ [Next]_vars => TypeOK'
  BY CallTypes, HubTypes, AgentTypes, LocalTypes, OtherTypes DEF Next
<1> QED
  BY <1>1, <1>2, PTL DEF Spec

------------------------------------------------------------------------------
(* What happens to an answer                                               *)

\* The agent writes one more answer, or loses it (write on its connection).
LEMMA WriteAnswers ==
  ASSUME TypeOK, NEW n \in Node, NEW r \in Call, NEW res \in Result, Write(n, r, res),
         UNCHANGED <<delivering, ch>>
  PROVE  Answers' \subseteq Answers \cup {[call |-> r, res |-> res]}
<1> DEFINE a == [call |-> r, res |-> res]
<1>1. a \in Reply /\ toHub[n] \in Seq(Reply) /\ toHub \in [Node -> Seq(Reply)]
  BY DEF TypeOK, Reply
<1>2. toHub' = toHub \/ toHub' = [toHub EXCEPT ![n] = Append(toHub[n], a)]
  BY DEF Write
<1> HIDE DEF a
<1>3. Range(Append(toHub[n], a)) = Range(toHub[n]) \cup {a}
  BY <1>1, RangeOfAppend
<1>4. \A m \in Node : Range(toHub'[m]) \subseteq Range(toHub[m]) \cup {a}
  BY <1>1, <1>2, <1>3
<1> QED
  BY <1>4 DEF Answers, OnWire, Handed, a

\* Nothing new is answered, and the agents deal with no more calls than before.
LEMMA QuietKept ==
  ASSUME TypeOK, CallInv, UNCHANGED <<pc, node, body, answer, ranFor>>,
         Answers' \subseteq Answers, confWait' \subseteq confWait,
         \A r \in Call : ch[r] # None => ch'[r] = ch[r],
         \A n \in Node : opened'[n] \in {opened[n], None},
         \A n \in Node : Range(toAgent'[n]) \subseteq Range(toAgent[n]) /\ IsInjective(toAgent'[n])
  PROVE  CallInv'
<1>1. AnswersTrue'
  BY DEF CallInv, AnswersTrue, Truth
<1>2. \A r : Untouched(r) => Untouched(r)'
  BY DEF Untouched
<1>3. \A r \in Call : Away(r) => Away(r)'
  BY NoneAssumption DEF Away
<1>4. StageInv'
  <2> SUFFICES ASSUME NEW r \in Call
               PROVE  /\ pc[r] \in {"idle", "send"} => Untouched(r)' /\ Away(r)'
                      /\ pc[r] \in {"idle", "send", "wait"} => answer[r] = None
                      /\ pc[r] \in {"send", "wait"} => node[r] \in Node
                      /\ pc[r] \in {"idle", "done"} => r \notin confWait'
                      /\ answer[r] = "offline" => Away(r)'
                      /\ answer[r] \in Result => ch'[r] = answer[r]
                      /\ r \in ranFor => body[r] # None
    BY DEF StageInv
  <2>1. answer[r] \in Result => ch[r] = answer[r] /\ ch[r] # None
    BY OutcomeAssumption DEF CallInv, StageInv
  <2> QED
    BY <1>2, <1>3, <2>1 DEF CallInv, StageInv
<1>5. FrameInv'
  <2> SUFFICES ASSUME NEW n \in Node
               PROVE  /\ IsInjective(toAgent'[n])
                      /\ \A r \in Range(toAgent'[n]) :
                           node[r] = n /\ Untouched(r)' /\ opened'[n] # r
                      /\ \A s : opened'[n] = s /\ s # None =>
                           node[s] = n /\ body[s] # None /\ Untouched(s)'
    BY DEF FrameInv
  <2>1. toAgent[n] \in Seq(Call) /\ Range(toAgent[n]) \subseteq Call
    BY RangeOfQueue DEF TypeOK
  <2>2. ASSUME NEW r \in Range(toAgent'[n])
        PROVE  node[r] = n /\ Untouched(r)' /\ opened'[n] # r
    BY <1>2, <2>1, NoneAssumption DEF CallInv, FrameInv
  <2>3. ASSUME NEW s, opened'[n] = s, s # None
        PROVE  node[s] = n /\ body[s] # None /\ Untouched(s)'
    BY <1>2, <2>3 DEF CallInv, FrameInv
  <2> QED
    BY <2>2, <2>3
<1> QED
  BY <1>1, <1>4, <1>5 DEF CallInv

\* The agent deals with a call that it has or that is on its way to it, answers
\* it truthfully and has it no longer (dispatch).
LEMMA AnsweredKept ==
  ASSUME TypeOK, CallInv, NEW n \in Node, NEW r \in Call, NEW res \in Result,
         r \in Range(toAgent[n]) \/ opened[n] = r,
         Write(n, r, res), Truth([call |-> r, res |-> res])',
         UNCHANGED <<pc, node, body, answer, ch, confWait, delivering>>,
         ranFor' = ranFor \/ (ranFor' = ranFor \cup {r} /\ body[r] # None),
         \A m \in Node : opened'[m] \in {opened[m], None} /\ opened'[m] # r,
         \A m \in Node : /\ Range(toAgent'[m]) \subseteq Range(toAgent[m]) \ {r}
                         /\ IsInjective(toAgent'[m])
  PROVE  CallInv'
<1> DEFINE a == [call |-> r, res |-> res]
<1>1. Answers' \subseteq Answers \cup {a} /\ a.call = r
  BY WriteAnswers
<1>2. Untouched(r) /\ ~Away(r)
  BY NoneAssumption DEF CallInv, FrameInv, Away
<1>3. AnswersTrue'
  <2> SUFFICES ASSUME NEW f \in Answers', f # a PROVE Truth(f)'
    BY DEF AnswersTrue
  <2>1. f \in Answers /\ f.call # r
    BY <1>1, <1>2 DEF Untouched
  <2> QED
    BY <2>1 DEF CallInv, AnswersTrue, Truth
<1>4. \A s : s # r /\ Untouched(s) => Untouched(s)'
  BY <1>1 DEF Untouched
<1>5. \A s \in Call : Away(s) => Away(s)'
  BY NoneAssumption DEF Away
<1>6. StageInv'
  <2> SUFFICES ASSUME NEW s \in Call
               PROVE  /\ pc[s] \in {"idle", "send"} => Untouched(s)' /\ Away(s)'
                      /\ pc[s] \in {"idle", "send", "wait"} => answer[s] = None
                      /\ pc[s] \in {"send", "wait"} => node[s] \in Node
                      /\ pc[s] \in {"idle", "done"} => s \notin confWait
                      /\ answer[s] = "offline" => Away(s)'
                      /\ answer[s] \in Result => ch[s] = answer[s]
                      /\ s \in ranFor' => body[s] # None
    BY DEF StageInv
  <2>1. pc[s] \in {"idle", "send"} => s # r
    BY <1>2 DEF CallInv, StageInv
  <2> QED
    BY <1>4, <1>5, <2>1 DEF CallInv, StageInv
<1>7. FrameInv'
  <2> SUFFICES ASSUME NEW m \in Node
               PROVE  /\ IsInjective(toAgent'[m])
                      /\ \A s \in Range(toAgent'[m]) :
                           node[s] = m /\ Untouched(s)' /\ opened'[m] # s
                      /\ \A s : opened'[m] = s /\ s # None =>
                           node[s] = m /\ body[s] # None /\ Untouched(s)'
    BY DEF FrameInv
  <2>1. toAgent[m] \in Seq(Call) /\ Range(toAgent[m]) \subseteq Call
    BY RangeOfQueue DEF TypeOK
  <2>2. ASSUME NEW s \in Range(toAgent'[m])
        PROVE  node[s] = m /\ Untouched(s)' /\ opened'[m] # s
    BY <1>4, <2>1, NoneAssumption DEF CallInv, FrameInv
  <2>3. ASSUME NEW s, opened'[m] = s, s # None
        PROVE  node[s] = m /\ body[s] # None /\ Untouched(s)'
    BY <1>4, <2>3 DEF CallInv, FrameInv
  <2> QED
    BY <2>2, <2>3
<1> QED
  BY <1>3, <1>6, <1>7 DEF CallInv

------------------------------------------------------------------------------
(* The steps                                                               *)

\* The agents' queues as they are, or one of them without its head or empty.
LEMMA FramesShrink ==
  ASSUME TypeOK, FrameInv, NEW n \in Node,
         \/ toAgent' = toAgent
         \/ toAgent[n] # <<>> /\ toAgent' = [toAgent EXCEPT ![n] = Tail(@)]
         \/ toAgent' = [toAgent EXCEPT ![n] = <<>>]
  PROVE  /\ \A m \in Node : Range(toAgent'[m]) \subseteq Range(toAgent[m])
         /\ \A m \in Node : IsInjective(toAgent'[m])
         /\ toAgent[n] # <<>> /\ toAgent' = [toAgent EXCEPT ![n] = Tail(@)] =>
              Frame(n) \in Range(toAgent[n]) /\ Frame(n) \notin Range(toAgent'[n])
<1>1. toAgent \in [Node -> Seq(Call)] /\ toAgent[n] \in Seq(Call)
  BY DEF TypeOK
<1>2. \A m \in Node : IsInjective(toAgent[m])
  BY DEF FrameInv
<1>3. CASE toAgent' = toAgent
  <2>1. ~(toAgent[n] # <<>> /\ toAgent' = [toAgent EXCEPT ![n] = Tail(@)])
    <3>1. SUFFICES ASSUME toAgent[n] # <<>>, toAgent' = [toAgent EXCEPT ![n] = Tail(@)]
                   PROVE  FALSE
      OBVIOUS
    <3>2. Tail(toAgent[n]) = toAgent[n]
      <4>1. toAgent'[n] = Tail(toAgent[n])
        BY <1>1, <3>1
      <4> QED
        BY <1>3, <4>1
    <3>3. Len(Tail(toAgent[n])) = Len(toAgent[n]) - 1 /\ Len(toAgent[n]) \in Nat
      BY <1>1, <3>1, HeadTailProperties
    <3>4. Len(toAgent[n]) = Len(toAgent[n]) - 1
      BY <3>2, <3>3
    <3> QED
      BY <3>3, <3>4
  <2> QED
    BY <1>2, <1>3, <2>1
<1>4. CASE toAgent[n] # <<>> /\ toAgent' = [toAgent EXCEPT ![n] = Tail(@)]
  <2>1. /\ Range(Tail(toAgent[n])) \subseteq Range(toAgent[n]) /\ IsInjective(Tail(toAgent[n]))
        /\ Frame(n) \in Range(toAgent[n]) /\ Frame(n) \notin Range(Tail(toAgent[n]))
    BY <1>1, <1>2, <1>4, RangeOfTail DEF Frame
  <2>2. toAgent'[n] = Tail(toAgent[n]) /\ \A m \in Node : m # n => toAgent'[m] = toAgent[m]
    BY <1>1, <1>4
  <2> QED
    BY <1>2, <2>1, <2>2
<1>5. CASE toAgent[n] = <<>> /\ toAgent' = [toAgent EXCEPT ![n] = <<>>]
  BY <1>1, <1>2, <1>5
<1>6. CASE toAgent[n] # <<>> /\ toAgent' = [toAgent EXCEPT ![n] = <<>>]
  <2>1. Range(<<>>) = {} /\ IsInjective(<<>>)
    BY RangeOfEmpty
  <2>2. toAgent'[n] = <<>> /\ \A m \in Node : m # n => toAgent'[m] = toAgent[m]
    BY <1>1, <1>6
  <2>3. Tail(toAgent[n]) # <<>> \/ toAgent'[n] = Tail(toAgent[n])
    BY <2>2
  <2>4. Frame(n) \in Range(toAgent[n])
    BY <1>1, <1>6, RangeOfTail DEF Frame
  <2> QED
    BY <1>2, <2>1, <2>2, <2>4
<1> QED
  BY <1>3, <1>4, <1>5, <1>6

\* The hub takes a reply or hands it over (handleConfResult), a session ends,
\* time passes: no call is answered that was not answered before.
LEMMA QuietSteps ==
  ASSUME TypeOK, CallInv,
         \/ \E n \in Node : TakeWaiter(n) \/ RegisterAck(n) \/ DropSession(n)
         \/ \E n \in Node : LocalStep(n)
         \/ \E f \in delivering : Deliver(f)
         \/ \E c \in Cmd, n \in Node : \E ts \in clock - Skew .. clock + Skew : Seal(c, n, ts)
         \/ Tick
         \/ UNCHANGED vars
  PROVE  CallInv'
<1> USE DEF hubVars, callVars, chanVars, agentVars, counters
<1>0. FrameInv /\ toHub \in [Node -> Seq(Reply)] /\ opened \in [Node -> Call \cup {None}]
  BY DEF TypeOK, CallInv
<1>a. ASSUME UNCHANGED toAgent
      PROVE  \A n \in Node : Range(toAgent'[n]) \subseteq Range(toAgent[n])
                               /\ IsInjective(toAgent'[n])
  BY <1>0, <1>a DEF FrameInv
<1>b. ASSUME UNCHANGED <<toHub, delivering, ch>> PROVE Answers' \subseteq Answers
  BY <1>b DEF Answers, OnWire, Handed
<1>c. ASSUME NEW n \in Node, toHub' = [toHub EXCEPT ![n] = <<>>], UNCHANGED <<delivering, ch>>
      PROVE  Answers' \subseteq Answers
  <2>1. \A m \in Node : Range(toHub'[m]) \subseteq Range(toHub[m])
    BY <1>0, <1>c, RangeOfEmpty
  <2> QED
    BY <1>c, <2>1 DEF Answers, OnWire, Handed
<1>1. ASSUME NEW n \in Node, TakeWaiter(n) PROVE CallInv'
  <2> DEFINE f == Head(toHub[n])
  <2>1. toHub[n] \in Seq(Reply) /\ toHub[n] # <<>> /\ toHub' = [toHub EXCEPT ![n] = Tail(@)]
    BY <1>0, <1>1 DEF TakeWaiter
  <2>2. f \in Range(toHub[n]) /\ f \in Reply /\ Range(Tail(toHub[n])) \subseteq Range(toHub[n])
    BY <2>1, RangeOfTail
  <2>3. \A m \in Node : Range(toHub'[m]) \subseteq Range(toHub[m])
    BY <1>0, <2>1, <2>2
  <2>4. delivering' \subseteq delivering \cup {f} /\ confWait' \subseteq confWait
          /\ UNCHANGED <<ch, toAgent, opened, pc, node, body, answer, ranFor>>
    <3>1. f = [call |-> f.call, res |-> f.res]
      BY <2>2 DEF Reply
    <3> QED
      BY <1>1, <3>1 DEF TakeWaiter, WaiterOf
  <2>5. Answers' \subseteq Answers
    BY <2>2, <2>3, <2>4 DEF Answers, OnWire, Handed
  <2> QED
    BY <1>a, <2>4, <2>5, QuietKept
<1>2. ASSUME NEW n \in Node, RegisterAck(n) \/ DropSession(n) PROVE CallInv'
  <2>1. UNCHANGED <<confWait, delivering, ch, toAgent, opened, pc, node, body, answer, ranFor>>
          /\ (toHub' = toHub \/ toHub' = [toHub EXCEPT ![n] = <<>>])
    BY <1>2 DEF RegisterAck, DropSession
  <2>2. Answers' \subseteq Answers
    BY <1>b, <1>c, <2>1
  <2> QED
    BY <1>a, <2>1, <2>2, QuietKept
<1>3. ASSUME NEW n \in Node, LocalStep(n) PROVE CallInv'
  <2>1. UNCHANGED <<confWait, delivering, ch, pc, node, body, answer, ranFor>>
          /\ (toHub' = toHub \/ toHub' = [toHub EXCEPT ![n] = <<>>])
          /\ (toAgent' = toAgent \/ toAgent' = [toAgent EXCEPT ![n] = <<>>])
          /\ (opened' = opened \/ opened' = [opened EXCEPT ![n] = None])
    BY <1>3 DEF LocalStep, SetViewPassword, ViewPasswordSet, ClearViewPassword, AgentRestart,
                Reconnect, Break
  <2>2. Answers' \subseteq Answers
    BY <1>b, <1>c, <2>1
  <2>3. \A m \in Node : Range(toAgent'[m]) \subseteq Range(toAgent[m]) /\ IsInjective(toAgent'[m])
    BY <1>0, <2>1, FramesShrink
  <2>4. \A m \in Node : opened'[m] \in {opened[m], None}
    BY <1>0, <2>1
  <2> QED
    BY <2>1, <2>2, <2>3, <2>4, QuietKept
<1>4. ASSUME NEW f \in delivering, Deliver(f) PROVE CallInv'
  <2>1. /\ ch' = [ch EXCEPT ![f.call] = f.res] /\ delivering' \subseteq delivering
        /\ ch[f.call] = None
        /\ UNCHANGED <<confWait, toHub, toAgent, opened, pc, node, body, answer, ranFor>>
    BY <1>4 DEF Deliver
  <2>2. f \in Reply /\ f.call \in Call /\ ch \in [Call -> Result \cup {None}]
    BY DEF TypeOK, Reply
  <2>3. ASSUME NEW g \in Reply, ch'[g.call] = g.res PROVE g = f \/ ch[g.call] = g.res
    <3>1. CASE g.call = f.call
      <4>1. g.res = f.res
        BY <2>1, <2>2, <2>3, <3>1
      <4>2. g = [call |-> g.call, res |-> g.res] /\ f = [call |-> f.call, res |-> f.res]
        BY <2>2 DEF Reply
      <4> QED
        BY <3>1, <4>1, <4>2
    <3>2. CASE g.call # f.call
      BY <2>1, <2>2, <2>3, <3>2 DEF Reply
    <3> QED
      BY <3>1, <3>2
  <2>4. Answers' \subseteq Answers
    BY <2>1, <2>3 DEF Answers, OnWire, Handed
  <2>5. \A r \in Call : ch[r] # None => ch'[r] = ch[r]
    BY <2>1, <2>2
  <2> QED
    BY <1>a, <2>1, <2>4, <2>5, QuietKept
<1>5. ASSUME \/ \E c \in Cmd, n \in Node : \E ts \in clock - Skew .. clock + Skew : Seal(c, n, ts)
             \/ Tick
             \/ UNCHANGED vars
      PROVE  CallInv'
  <2>1. UNCHANGED <<confWait, delivering, ch, toHub, toAgent, opened, pc, node, body, answer,
                    ranFor>>
    BY <1>5 DEF Seal, Tick, vars
  <2> QED
    BY <1>a, <1>b, <2>1, QuietKept
<1> QED
  BY <1>1, <1>2, <1>3, <1>4, <1>5

\* The calls of the panel: posting, sending, the select and the cleanup of
\* requestReply.
LEMMA CallSteps ==
  ASSUME TypeOK, CallInv,
         \/ \E r \in Call, n \in Node : \E c \in Text \cup {None} : Request(r, n, c)
         \/ \E r \in Call : CallStep(r)
  PROVE  CallInv'
<1> USE DEF hubVars, callVars, chanVars, agentVars, counters
<1>0. AnswersTrue /\ StageInv /\ FrameInv
  BY DEF CallInv
<1>a. \A n \in Node : Range(toAgent[n]) \subseteq Call
  BY RangeOfQueue DEF TypeOK
<1>1. ASSUME NEW r \in Call, NEW n \in Node, NEW c \in Text \cup {None}, Request(r, n, c)
      PROVE  CallInv'
  <2>1. /\ pc[r] = "idle" /\ Untouched(r) /\ Away(r) /\ answer[r] = None /\ r \notin confWait
        /\ UNCHANGED <<delivering, toHub, ch, ranFor, toAgent, opened>>
    BY <1>0, <1>1 DEF Request, StageInv
  <2>2. /\ node' \in [Call -> Node \cup {None}] /\ node'[r] = n
        /\ body' \in [Call -> Text \cup {None}]
        /\ \A s \in Call : s # r => /\ UNCHANGED <<node[s], body[s], pc[s], answer[s]>>
                                    /\ s \in confWait' <=> s \in confWait
    BY <1>1 DEF Request, TypeOK
  <2>3. \/ pc'[r] = "done" /\ answer'[r] = "offline" /\ r \notin confWait'
        \/ pc'[r] = "send" /\ answer'[r] = None
    BY <1>1, <2>1 DEF Request, TypeOK
  <2>4. /\ Answers' = Answers
        /\ \A s : Untouched(s) <=> Untouched(s)'
        /\ \A s : Away(s) <=> Away(s)'
    BY <2>1 DEF Answers, OnWire, Handed, Untouched, Away
  <2>5. AnswersTrue'
    <3> SUFFICES ASSUME NEW f \in Answers PROVE Truth(f)'
      BY <2>4 DEF AnswersTrue
    <3>1. f.call # r /\ f \in Reply
      <4>1. \A m \in Node : Range(toHub[m]) \subseteq Reply
        BY RangeOfQueue DEF TypeOK
      <4> QED
        BY <2>1, <4>1 DEF Untouched, Answers, OnWire, Handed, TypeOK
    <3>2. body'[f.call] = body[f.call]
      BY <2>2, <3>1 DEF Reply
    <3> QED
      BY <1>0, <2>1, <3>2 DEF AnswersTrue, Truth
  <2>6. StageInv'
    <3> SUFFICES ASSUME NEW s \in Call
                 PROVE  /\ pc'[s] \in {"idle", "send"} => Untouched(s)' /\ Away(s)'
                        /\ pc'[s] \in {"idle", "send", "wait"} => answer'[s] = None
                        /\ pc'[s] \in {"send", "wait"} => node'[s] \in Node
                        /\ pc'[s] \in {"idle", "done"} => s \notin confWait'
                        /\ answer'[s] = "offline" => Away(s)'
                        /\ answer'[s] \in Result => ch'[s] = answer'[s]
                        /\ s \in ranFor' => body'[s] # None
      BY DEF StageInv
    <3>1. CASE s = r
      <4>1. answer'[r] \notin Result
        BY <2>3, OutcomeAssumption DEF Result
      <4>2. r \notin ranFor'
        BY <2>1 DEF Untouched
      <4> QED
        BY <2>1, <2>2, <2>3, <2>4, <3>1, <4>1, <4>2
    <3>2. CASE s # r
      BY <1>0, <2>1, <2>2, <2>4, <3>2 DEF StageInv
    <3> QED
      BY <3>1, <3>2
  <2>7. FrameInv'
    <3>1. ASSUME NEW m \in Node, NEW s \in Call, s \in Range(toAgent[m]) \/ opened[m] = s
          PROVE  s # r /\ UNCHANGED <<node[s], body[s]>>
      BY <2>1, <2>2, <3>1 DEF Away
    <3> QED
      BY <1>0, <1>a, <2>1, <2>4, <3>1 DEF FrameInv, TypeOK
  <2> QED
    BY <2>5, <2>6, <2>7 DEF CallInv
<1>2. ASSUME NEW r \in Call, SendRequest(r) PROVE CallInv'
  <2> DEFINE n == node[r]
  <2>1. /\ pc[r] = "send" /\ n \in Node /\ Untouched(r) /\ Away(r) /\ answer[r] = None
        /\ UNCHANGED <<delivering, toHub, ch, ranFor, opened, node, body, answer, confWait>>
        /\ pc' = [pc EXCEPT ![r] = "wait"]
    BY <1>0, <1>2 DEF SendRequest, StageInv
  <2>2. /\ Answers' = Answers
        /\ \A s : Untouched(s) <=> Untouched(s)'
    BY <2>1 DEF Answers, OnWire, Handed, Untouched
  <2>3. /\ \A m \in Node : Range(toAgent'[m]) \subseteq Range(toAgent[m]) \cup {r}
        /\ \A m \in Node : m # n => toAgent'[m] = toAgent[m]
        /\ \A m \in Node : IsInjective(toAgent'[m])
    <3>1. toAgent \in [Node -> Seq(Call)] /\ toAgent[n] \in Seq(Call)
            /\ \A m \in Node : IsInjective(toAgent[m])
      BY <1>0, <2>1 DEF TypeOK, FrameInv
    <3>2. r \notin Range(toAgent[n])
      BY <2>1 DEF Away
    <3>3. toAgent' = toAgent \/ toAgent' = [toAgent EXCEPT ![n] = Append(toAgent[n], r)]
      BY <1>2 DEF SendRequest
    <3> HIDE DEF n
    <3>4. /\ Range(Append(toAgent[n], r)) = Range(toAgent[n]) \cup {r}
          /\ IsInjective(Append(toAgent[n], r))
      BY <2>1, <3>1, <3>2, RangeOfAppend
    <3> QED
      BY <2>1, <3>1, <3>3, <3>4
  <2>4. AnswersTrue'
    BY <1>0, <2>1, <2>2 DEF AnswersTrue, Truth
  <2>5. \A s \in Call : s # r /\ Away(s) => Away(s)'
    BY <2>1, <2>3 DEF Away
  <2>6. StageInv'
    <3> SUFFICES ASSUME NEW s \in Call
                 PROVE  /\ pc'[s] \in {"idle", "send"} => Untouched(s)' /\ Away(s)'
                        /\ pc'[s] \in {"idle", "send", "wait"} => answer[s] = None
                        /\ pc'[s] \in {"send", "wait"} => node[s] \in Node
                        /\ pc'[s] \in {"idle", "done"} => s \notin confWait
                        /\ answer[s] = "offline" => Away(s)'
                        /\ answer[s] \in Result => ch[s] = answer[s]
                        /\ s \in ranFor => body[s] # None
      BY <2>1 DEF StageInv
    <3>1. pc'[s] = IF s = r THEN "wait" ELSE pc[s]
      BY <2>1 DEF TypeOK
    <3>2. answer[r] # "offline" /\ answer[r] \notin Result /\ r \notin ranFor
      BY <2>1, OutcomeAssumption DEF Untouched
    <3> QED
      BY <1>0, <2>1, <2>2, <2>5, <3>1, <3>2 DEF StageInv
  <2>7. FrameInv'
    <3>1. ASSUME NEW m \in Node, NEW s \in Range(toAgent'[m])
          PROVE  node[s] = m /\ Untouched(s)' /\ opened[m] # s
      <4>1. CASE s \in Range(toAgent[m])
        BY <1>0, <2>2, <4>1 DEF FrameInv
      <4>2. CASE s = r /\ s \notin Range(toAgent[m])
        BY <2>1, <2>2, <2>3, <3>1, <4>2 DEF Away
      <4> QED
        BY <2>3, <3>1, <4>1, <4>2
    <3> QED
      BY <1>0, <2>1, <2>2, <2>3, <3>1 DEF FrameInv
  <2> QED
    BY <2>4, <2>6, <2>7 DEF CallInv
<1>3. ASSUME NEW r \in Call, Receive(r) \/ Timeout(r) \/ Cleanup(r) PROVE CallInv'
  <2>1. UNCHANGED <<delivering, toHub, ch, ranFor, opened, toAgent, node, body>>
    BY <1>3 DEF Receive, Timeout, Cleanup
  <2>2. /\ Answers' = Answers
        /\ \A s : Untouched(s) <=> Untouched(s)'
        /\ \A s : Away(s) <=> Away(s)'
    BY <2>1 DEF Answers, OnWire, Handed, Untouched, Away
  <2>3. AnswersTrue' /\ FrameInv'
    BY <1>0, <2>1, <2>2 DEF AnswersTrue, Truth, FrameInv
  <2>4. \A s \in Call : s # r => /\ UNCHANGED <<pc[s], answer[s]>>
                                 /\ s \in confWait' => s \in confWait
    BY <1>3 DEF Receive, Timeout, Cleanup, WaitersAfter, TypeOK
  <2>5. /\ pc'[r] \in {"cleanup", "done"}
        /\ pc'[r] = "done" => r \notin confWait'
        /\ answer'[r] = "offline" => answer[r] = "offline"
        /\ answer'[r] \in Result => ch[r] = answer'[r]
    <3>1. CASE Receive(r)
      BY <3>1, OutcomeAssumption DEF Receive, TypeOK, Result
    <3>2. CASE Timeout(r)
      BY <3>2 DEF Timeout, TypeOK, Result
    <3>3. CASE Cleanup(r)
      BY <1>0, <3>3 DEF Cleanup, WaitersAfter, TypeOK, StageInv
    <3> QED
      BY <1>3, <3>1, <3>2, <3>3
  <2>6. StageInv'
    BY <1>0, <2>1, <2>2, <2>4, <2>5 DEF StageInv
  <2> QED
    BY <2>3, <2>6 DEF CallInv
<1> QED
  BY <1>1, <1>2, <1>3 DEF CallStep

\* An agent answers a call, or opens its command (dispatch, openSvcCmd,
\* handleSvcAction).
LEMMA AnswerSteps == ASSUME TypeOK, CallInv, NEW n \in Node, AgentStep(n) PROVE CallInv'
<1> USE DEF hubVars, callVars, chanVars, agentVars, counters
<1>0. /\ AnswersTrue /\ StageInv /\ FrameInv
      /\ opened \in [Node -> Call \cup {None}] /\ toAgent \in [Node -> Seq(Call)]
      /\ {"rejected", "done", "failed", "conf", "nokey", "unreadable"} \subseteq Result
  BY DEF CallInv, TypeOK, Result
<1>1. CASE ConfGet(n)
  <2>1. PICK r \in Call : /\ r = Frame(n) /\ r \in Range(toAgent[n])
                         /\ body[r] = None /\ opened[n] = None
    BY <1>0, <1>1, FrameType, FramesShrink DEF ConfGet, HasFrame
  <2>2. PICK res \in {"conf", "nokey", "unreadable"} : res = ConfResult(n)
    BY DEF ConfResult
  <2>3. Truth([call |-> r, res |-> res])'
    BY <1>1, <2>1, <2>2 DEF ConfGet, Truth
  <2>4. \A m \in Node : Range(toAgent'[m]) \subseteq Range(toAgent[m]) \ {r}
                          /\ IsInjective(toAgent'[m])
    <3>1. toAgent[n] # <<>> /\ toAgent' = [toAgent EXCEPT ![n] = Tail(@)]
      BY <1>1 DEF ConfGet, HasFrame
    <3>2. \A m \in Node : m # n => r \notin Range(toAgent[m])
      BY <1>0, <2>1 DEF FrameInv
    <3>3. \A m \in Node : m # n => toAgent'[m] = toAgent[m]
      BY <1>0, <3>1
    <3> QED
      BY <1>0, <2>1, <3>1, <3>2, <3>3, FramesShrink
  <2>5. \A m \in Node : opened'[m] = opened[m] /\ opened[m] # r
    BY <1>0, <1>1, <2>1 DEF ConfGet, FrameInv
  <2>6. /\ Write(n, r, res) /\ res \in Result
        /\ UNCHANGED <<pc, node, body, answer, ch, confWait, delivering, ranFor>>
    BY <1>0, <1>1, <2>1, <2>2 DEF ConfGet
  <2> QED
    BY <2>1, <2>3, <2>4, <2>5, <2>6, AnsweredKept
<1>2. CASE OpenSvcCmd(n)
  <2>1. PICK r \in Call : /\ r = Frame(n) /\ r \in Range(toAgent[n]) /\ body[r] # None
                         /\ opened[n] = None /\ Untouched(r) /\ node[r] = n
    <3>1. Frame(n) \in Call /\ Frame(n) \in Range(toAgent[n])
      BY <1>0, <1>2, FrameType, FramesShrink DEF OpenSvcCmd, HasFrame
    <3>2. Untouched(Frame(n)) /\ node[Frame(n)] = n
      BY <1>0, <3>1 DEF FrameInv
    <3> QED
      BY <1>2, <3>1, <3>2 DEF OpenSvcCmd, HasFrame
  <2>2. \A m \in Node : /\ Range(toAgent'[m]) \subseteq Range(toAgent[m]) \ {r}
                        /\ IsInjective(toAgent'[m])
    <3>1. toAgent[n] # <<>> /\ toAgent' = [toAgent EXCEPT ![n] = Tail(@)]
      BY <1>2 DEF OpenSvcCmd, HasFrame
    <3>2. \A m \in Node : m # n => r \notin Range(toAgent[m])
      BY <1>0, <2>1 DEF FrameInv
    <3>3. \A m \in Node : m # n => toAgent'[m] = toAgent[m]
      BY <1>0, <3>1
    <3> QED
      BY <1>0, <2>1, <3>1, <3>2, <3>3, FramesShrink
  <2>3. \A m \in Node : opened[m] # r
    BY <1>0, <2>1, NoneAssumption DEF FrameInv
  <2>4. UNCHANGED <<pc, node, body, answer, ch, confWait, delivering, ranFor>>
    BY <1>2 DEF OpenSvcCmd
  <2>5. CASE opened' = opened /\ Write(n, r, "rejected")
    <3>1. Truth([call |-> r, res |-> "rejected"])'
      <4>1. body'[r] # None /\ r \notin ranFor'
        BY <2>1, <2>4 DEF Untouched
      <4> QED
        BY <4>1 DEF Truth
    <3> QED
      BY <1>0, <2>1, <2>2, <2>3, <2>4, <2>5, <3>1, AnsweredKept
  <2>6. CASE opened' = [opened EXCEPT ![n] = r] /\ toHub' = toHub
    <3>1. /\ Answers' = Answers
          /\ \A s : Untouched(s) <=> Untouched(s)'
      BY <2>4, <2>6 DEF Answers, OnWire, Handed, Untouched
    <3>2. \A s \in Call : s # r /\ Away(s) => Away(s)'
      <4>1. \A m \in Node : opened'[m] \in {opened[m], r}
        BY <1>0, <2>6
      <4> QED
        BY <2>2, <4>1 DEF Away
    <3>3. AnswersTrue'
      BY <1>0, <2>4, <3>1 DEF AnswersTrue, Truth
    <3>4. StageInv'
      <4>1. pc[r] \notin {"idle", "send"} /\ answer[r] # "offline"
        BY <1>0, <2>1 DEF StageInv, Away
      <4> QED
        BY <1>0, <2>4, <3>1, <3>2, <4>1 DEF StageInv
    <3>5. FrameInv'
      <4>1. ASSUME NEW m \in Node, NEW s \in Range(toAgent'[m])
            PROVE  node[s] = m /\ Untouched(s)' /\ opened'[m] # s
        <5>1. s \in Range(toAgent[m]) /\ s # r
          BY <2>2, <4>1
        <5>2. opened'[m] \in {opened[m], r}
          BY <1>0, <2>6
        <5> QED
          BY <1>0, <3>1, <5>1, <5>2 DEF FrameInv
      <4>2. ASSUME NEW m \in Node, NEW s, opened'[m] = s, s # None
            PROVE  node[s] = m /\ body[s] # None /\ Untouched(s)'
        <5>1. CASE m = n
          <6>1. s = r
            BY <1>0, <2>6, <4>2, <5>1
          <6> QED
            BY <2>1, <3>1, <5>1, <6>1
        <5>2. CASE m # n
          <6>1. opened[m] = s
            BY <1>0, <2>6, <4>2, <5>2
          <6> QED
            BY <1>0, <3>1, <4>2, <6>1 DEF FrameInv
        <5> QED
          BY <5>1, <5>2
      <4> QED
        BY <2>2, <2>4, <4>1, <4>2 DEF FrameInv
    <3> QED
      BY <3>3, <3>4, <3>5 DEF CallInv
  <2> QED
    BY <1>2, <2>1, <2>5, <2>6 DEF OpenSvcCmd
<1>3. ASSUME opened[n] # None, opened' = [opened EXCEPT ![n] = None], UNCHANGED toAgent
      PROVE  \E r \in Call :
             /\ r = opened[n] /\ body[r] # None /\ Untouched(r)
             /\ \A m \in Node : opened'[m] \in {opened[m], None} /\ opened'[m] # r
             /\ \A m \in Node : /\ Range(toAgent'[m]) \subseteq Range(toAgent[m]) \ {r}
                                /\ IsInjective(toAgent'[m])
  <2>1. PICK r \in Call : r = opened[n] /\ body[r] # None /\ Untouched(r) /\ node[r] = n
    BY <1>0, <1>3 DEF FrameInv
  <2>2. \A m \in Node : r \notin Range(toAgent[m])
    BY <1>0, <2>1 DEF FrameInv
  <2>3. \A m \in Node : m # n => opened[m] # r
    BY <1>0, <1>3, <2>1 DEF FrameInv
  <2>4. \A m \in Node : opened'[m] = IF m = n THEN None ELSE opened[m]
    BY <1>0, <1>3
  <2> QED
    BY <1>0, <1>3, <2>1, <2>2, <2>3, <2>4 DEF FrameInv
<1>4. CASE UnknownAlias(n)
  <2>0. PICK r \in Call :
          /\ r = opened[n] /\ body[r] # None /\ Untouched(r)
          /\ \A m \in Node : opened'[m] \in {opened[m], None} /\ opened'[m] # r
          /\ \A m \in Node : /\ Range(toAgent'[m]) \subseteq Range(toAgent[m]) \ {r}
                             /\ IsInjective(toAgent'[m])
    BY <1>3, <1>4 DEF UnknownAlias
  <2>1. /\ opened' = [opened EXCEPT ![n] = None] /\ Write(n, r, "rejected")
        /\ UNCHANGED <<toAgent, pc, node, body, answer, ch, confWait, delivering, ranFor>>
    BY <1>4, <2>0 DEF UnknownAlias
  <2>2. Truth([call |-> r, res |-> "rejected"])'
    BY <2>0, <2>1 DEF Truth, Untouched
  <2> QED
    BY <1>0, <2>0, <2>1, <2>2, AnsweredKept
<1>5. ASSUME NEW res \in {"done", "failed"}, RunSvc(n, res) PROVE CallInv'
  <2>0. PICK r \in Call :
          /\ r = opened[n] /\ body[r] # None /\ Untouched(r)
          /\ \A m \in Node : opened'[m] \in {opened[m], None} /\ opened'[m] # r
          /\ \A m \in Node : /\ Range(toAgent'[m]) \subseteq Range(toAgent[m]) \ {r}
                             /\ IsInjective(toAgent'[m])
    BY <1>3, <1>5 DEF RunSvc
  <2>1. /\ opened' = [opened EXCEPT ![n] = None] /\ Write(n, r, res)
        /\ ranFor' = ranFor \cup {r} /\ res \in Result
        /\ UNCHANGED <<toAgent, pc, node, body, answer, ch, confWait, delivering>>
    BY <1>0, <1>5, <2>0 DEF RunSvc
  <2>2. Truth([call |-> r, res |-> res])'
    BY <2>1 DEF Truth
  <2> QED
    BY <1>0, <2>0, <2>1, <2>2, AnsweredKept
<1> QED
  BY <1>1, <1>2, <1>4, <1>5 DEF AgentStep

\* Every reachable state has the types and the stages of a call.
LEMMA CallInvariant == Spec => [](TypeOK /\ CallInv)
<1>1. Init => CallInv
  <2> SUFFICES ASSUME Init PROVE CallInv
    OBVIOUS
  <2>1. Answers = {}
    <3>1. Range(<<>>) = {}
      BY RangeOfEmpty
    <3> QED
      BY <3>1, OutcomeAssumption DEF Init, Answers, OnWire, Handed, Reply
  <2>2. \A n \in Node : toAgent[n] = <<>> /\ Range(toAgent[n]) = {} /\ IsInjective(toAgent[n])
    BY RangeOfEmpty DEF Init
  <2>3. \A r \in Call : Untouched(r) /\ Away(r)
    BY <2>1, <2>2, NoneAssumption DEF Init, Untouched, Away
  <2>4. StageInv
    BY <2>3, OutcomeAssumption DEF Init, StageInv
  <2> QED
    BY <2>1, <2>2, <2>4 DEF Init, CallInv, AnswersTrue, FrameInv
<1>2. TypeOK /\ CallInv /\ [Next]_vars => CallInv'
  BY QuietSteps, CallSteps, AnswerSteps DEF Next
<1> QED
  BY <1>1, <1>2, TypeCorrect, PTL DEF Spec

\* A call gets the answer to its own request and not that of another call, of
\* an earlier connection or of a command that was refused (requestReply,
\* handleConfResult, openSvcCmd).
THEOREM AnswersMatch == Spec => []AnswerMatches
<1>1. TypeOK /\ CallInv => AnswerMatches
  <2> SUFFICES ASSUME TypeOK, CallInv, NEW r \in Call, answer[r] \in Result
               PROVE  Truth([call |-> r, res |-> answer[r]])
    BY DEF AnswerMatches, Truth, Result
  <2>1. ch[r] = answer[r]
    BY DEF CallInv, StageInv
  <2>2. [call |-> r, res |-> answer[r]] \in Answers
    BY <2>1 DEF Answers, Handed, Reply
  <2> QED
    BY <2>2 DEF CallInv, AnswersTrue
<1> QED
  BY <1>1, CallInvariant, PTL

\* The deferred delete of requestReply: a call that has returned has no waiter.
THEOREM NoWaiterLeaks == Spec => []NoLeakedWaiter
<1>1. CallInv => NoLeakedWaiter
  BY DEF CallInv, StageInv, NoLeakedWaiter
<1> QED
  BY <1>1, CallInvariant, PTL

------------------------------------------------------------------------------
(* The refinement                                                          *)

\* The phase of a call, from the place its goroutine has reached.
Phase == [r \in Call |-> CASE pc[r] = "idle" -> "new"
                           [] pc[r] \in {"send", "wait"} -> "open"
                           [] OTHER -> "closed"]

\* A step of one goroutine that moves its call from one phase to another.
LEMMA PhaseStep ==
  ASSUME TypeOK, NEW r \in Call, NEW to, pc' = [pc EXCEPT ![r] = to]
  PROVE  /\ to \in {"send", "wait"} => Phase' = [Phase EXCEPT ![r] = "open"]
         /\ to \in {"cleanup", "done"} => Phase' = [Phase EXCEPT ![r] = "closed"]
         /\ pc[r] = "idle" => Phase[r] = "new"
         /\ pc[r] \in {"send", "wait"} => Phase[r] = "open"
         /\ pc[r] = "cleanup" => Phase[r] = "closed"
<1>1. \A s \in Call : pc'[s] = IF s = r THEN to ELSE pc[s]
  BY DEF TypeOK
<1> QED
  BY <1>1 DEF Phase

\* A panel request is posted to a node that is online or not (requestReply).
LEMMA RequestImplements ==
  ASSUME TypeOK, CallInv, NEW r \in Call, NEW n \in Node, NEW c \in Text \cup {None},
         Request(r, n, c)
  PROVE  Promise!Next
<1>1. pc[r] = "idle" /\ UNCHANGED ranFor
  BY DEF Request
<1>2. CASE sess[n] = None
  <2>1. pc' = [pc EXCEPT ![r] = "done"] /\ answer' = [answer EXCEPT ![r] = "offline"]
    BY <1>2 DEF Request
  <2>2. Promise!Decline(r)
    BY <1>1, <2>1, PhaseStep DEF Promise!Decline, Promise!Close, Phase
  <2> QED
    BY <2>2 DEF Promise!Next
<1>3. CASE sess[n] # None
  <2>1. pc' = [pc EXCEPT ![r] = "send"] /\ UNCHANGED answer
    BY <1>3 DEF Request
  <2>2. Promise!Invoke(r)
    BY <1>1, <2>1, PhaseStep DEF Promise!Invoke, Phase
  <2> QED
    BY <2>2 DEF Promise!Next
<1> QED
  BY <1>2, <1>3

\* The select of requestReply: the answer it takes is true of the call.
LEMMA ReturnImplements ==
  ASSUME TypeOK, CallInv, NEW r \in Call, Receive(r) \/ Timeout(r)
  PROVE  Promise!Next
<1>1. PICK o \in Result \cup {"timeout"} :
        /\ answer' = [answer EXCEPT ![r] = o] /\ pc' = [pc EXCEPT ![r] = "cleanup"]
        /\ pc[r] = "wait" /\ UNCHANGED ranFor /\ (o = ch[r] \/ o = "timeout")
  BY DEF Receive, Timeout, TypeOK
<1>2. ASSUME o # "timeout" PROVE Truth([call |-> r, res |-> o])
  <2>1. [call |-> r, res |-> o] \in Answers
    BY <1>1, <1>2 DEF Answers, Handed, Reply
  <2> QED
    BY <2>1 DEF CallInv, AnswersTrue
<1>3. body[r] = None => r \notin ranFor
  BY DEF CallInv, StageInv
<1>4. o \in Promise!Performed => r \in ranFor
  BY <1>2 DEF Promise!Performed, Truth
<1>5. o \in Promise!Refused => r \notin ranFor
  BY <1>1, <1>2, <1>3 DEF Promise!Refused, Truth, Result
<1>6. o \in Promise!Performed \cup Promise!Refused \cup {"timeout"}
  BY <1>1 DEF Promise!Performed, Promise!Refused, Result
<1>7. Promise!Return(r, o)
  BY <1>1, <1>4, <1>5, PhaseStep DEF Promise!Return, Promise!Close, Phase
<1> QED
  BY <1>6, <1>7 DEF Promise!Next

\* A command that is run has not been run for the call, and the call has not
\* been told anything but that it took too long (handleSvcAction).
LEMMA PerformImplements ==
  ASSUME TypeOK, CallInv, NEW n \in Node, NEW res \in {"done", "failed"}, RunSvc(n, res)
  PROVE  Promise!Next
<1>1. PICK r \in Call : r = opened[n]
  BY DEF RunSvc, TypeOK
<1>2. Untouched(r) /\ ~Away(r)
  BY <1>1 DEF RunSvc, CallInv, FrameInv, Away
<1>3. pc[r] # "idle" /\ answer[r] # "offline"
  BY <1>2 DEF CallInv, StageInv
<1>4. answer[r] \notin Result
  <2> SUFFICES ASSUME answer[r] \in Result PROVE FALSE
    OBVIOUS
  <2>1. [call |-> r, res |-> answer[r]] \in Answers
    BY DEF Answers, Handed, Reply, CallInv, StageInv
  <2> QED
    BY <1>2, <2>1 DEF Untouched
<1>5. answer[r] \in {None, "timeout"}
  BY <1>3, <1>4 DEF TypeOK
<1>6. UNCHANGED <<pc, answer>> /\ ranFor' = ranFor \cup {r} /\ r \notin ranFor
  BY <1>1, <1>2 DEF RunSvc, callVars, Untouched
<1>7. Phase[r] # "new" /\ UNCHANGED Phase
  BY <1>3, <1>6 DEF Phase, TypeOK
<1>8. Promise!Perform(r)
  BY <1>5, <1>6, <1>7 DEF Promise!Perform, Phase
<1> QED
  BY <1>8 DEF Promise!Next

\* All that goes on between hub and agent is no step of the call.
LEMMA StutterImplements ==
  ASSUME TypeOK,
         \/ UNCHANGED <<pc, answer, ranFor>>
         \/ \E r \in Call : SendRequest(r) \/ Cleanup(r)
  PROVE  UNCHANGED Promise!vars
<1>1. ASSUME NEW r \in Call, SendRequest(r) \/ Cleanup(r)
      PROVE  UNCHANGED <<answer, ranFor>> /\ UNCHANGED Phase
  <2>1. CASE SendRequest(r)
    <3>1. pc[r] = "send" /\ pc' = [pc EXCEPT ![r] = "wait"]
      BY <2>1 DEF SendRequest
    <3> QED
      BY <2>1, <3>1, PhaseStep DEF SendRequest, Phase
  <2>2. CASE Cleanup(r)
    <3>1. pc[r] = "cleanup" /\ pc' = [pc EXCEPT ![r] = "done"]
      BY <2>2 DEF Cleanup
    <3> QED
      BY <2>2, <3>1, PhaseStep DEF Cleanup, Phase
  <2> QED
    BY <1>1, <2>1, <2>2
<1> QED
  BY <1>1 DEF Promise!vars, Phase

\* RemoteControl implements RemoteCall: with any number of agents, calls and
\* commands, restarts and reconnects, a call has its effect at most once and its
\* one outcome is true of it (requestReply, handleConfResult, dispatch,
\* openSvcCmd, handleSvcAction).
THEOREM CallsImplementPromise == Spec => Implements
<1>1. Init => Promise!Init
  BY DEF Init, Promise!Init
<1>2. TypeOK /\ CallInv /\ [Next]_vars => [Promise!Next]_(Promise!vars)
  <2> SUFFICES ASSUME TypeOK, CallInv, [Next]_vars
               PROVE  Promise!Next \/ UNCHANGED Promise!vars
    OBVIOUS
  <2> USE DEF hubVars, callVars, chanVars, agentVars, counters
  <2>1. ASSUME NEW r \in Call, CallStep(r) PROVE Promise!Next \/ UNCHANGED Promise!vars
    BY <2>1, ReturnImplements, StutterImplements DEF CallStep
  <2>2. ASSUME NEW n \in Node, AgentStep(n) PROVE Promise!Next \/ UNCHANGED Promise!vars
    <3>1. CASE ConfGet(n) \/ OpenSvcCmd(n) \/ UnknownAlias(n)
      BY <3>1, StutterImplements DEF ConfGet, OpenSvcCmd, UnknownAlias
    <3> QED
      BY <2>2, <3>1, PerformImplements DEF AgentStep
  <2>3. ASSUME \/ \E n \in Node : TakeWaiter(n) \/ RegisterAck(n) \/ DropSession(n)
                                    \/ LocalStep(n)
               \/ \E c \in Cmd, n \in Node : \E ts \in clock - Skew .. clock + Skew : Seal(c, n, ts)
               \/ \E f \in delivering : Deliver(f)
               \/ Tick
               \/ UNCHANGED vars
        PROVE  UNCHANGED Promise!vars
    <3>1. UNCHANGED <<pc, answer, ranFor>>
      BY <2>3 DEF TakeWaiter, RegisterAck, DropSession, LocalStep, SetViewPassword,
                  ViewPasswordSet, ClearViewPassword, AgentRestart, Reconnect, Break, Seal,
                  Deliver, Tick, vars
    <3> QED
      BY <3>1, StutterImplements
  <2> QED
    BY <2>1, <2>2, <2>3, RequestImplements DEF Next
<1> QED
  BY <1>1, <1>2, CallInvariant, PTL DEF Spec, Implements, Promise!Spec
==============================================================================
