------------------------------ MODULE RemoteCall ------------------------------
(***************************************************************************)
(* What a request to an agent promises to the panel, whatever happens to   *)
(* connections, sessions and processes: a call has at most one effect, and *)
(* one outcome that is final and tells the truth about the effect as far   *)
(* as it tells anything. RemoteControl implements this specification.      *)
(***************************************************************************)
CONSTANTS Call, None

VARIABLES
  phase,   \* new, open, closed
  ran,     \* the calls that have had their effect
  outcome  \* what the call returned, or None

vars == <<phase, ran, outcome>>

Performed == {"done", "failed"}
Refused   == {"rejected", "offline", "conf", "nokey", "unreadable"}

Init ==
  /\ phase = [r \in Call |-> "new"]
  /\ ran = {}
  /\ outcome = [r \in Call |-> None]

Close(r, o) ==
  /\ outcome' = [outcome EXCEPT ![r] = o]
  /\ phase' = [phase EXCEPT ![r] = "closed"]
  /\ UNCHANGED ran

\* The node is online and the call is on its way.
Invoke(r) ==
  /\ phase[r] = "new" /\ phase' = [phase EXCEPT ![r] = "open"]
  /\ UNCHANGED <<ran, outcome>>

\* The node is offline.
Decline(r) == phase[r] = "new" /\ Close(r, "offline")

\* The effect, once, and never after the call was told that there is none;
\* a call that gave up may still have it.
Perform(r) ==
  /\ phase[r] # "new" /\ r \notin ran /\ outcome[r] \in {None, "timeout"}
  /\ ran' = ran \cup {r}
  /\ UNCHANGED <<outcome, phase>>

Return(r, o) ==
  /\ phase[r] = "open" /\ Close(r, o)
  /\ o \in Performed => r \in ran
  /\ o \in Refused => r \notin ran

Next == \E r \in Call :
  \/ Invoke(r) \/ Decline(r) \/ Perform(r)
  \/ \E o \in Performed \cup Refused \cup {"timeout"} : Return(r, o)

Spec == Init /\ [][Next]_vars
==============================================================================
