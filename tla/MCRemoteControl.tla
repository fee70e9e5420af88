--------------------------- MODULE MCRemoteControl ---------------------------
(* An instance of RemoteControl for TLC: a command with two texts, and one  *)
(* that is posted when the first is too old.                                *)
EXTENDS RemoteControl, TLC

CONSTANTS c1, c2, t1, t2, t3

Decoded == [t \in Text |-> IF t = t3 THEN c2 ELSE c1]

\* The calls differ in nothing but their name, and so do the texts of c1.
Sym == Permutations(Call) \cup Permutations({t1, t2})

\* Nothing but commands is asked, and nothing fails.
Quiet ==
  /\ restarts = 0
  /\ \A n \in Node : conns[n] = 1 /\ conn[n] = 1 /\ sess[n] = 1 /\ viewKey[n] = 1
  /\ \A r \in Call : answer[r] # "timeout" /\ (pc[r] # "idle" => body[r] # None)
  /\ \A q, r \in Call : {pc[q], pc[r]} \cap {"idle", "done"} = {} => q = r

\* Two calls, and one command that is just fresh enough.
Fresh ==
  /\ clock = 0 /\ sealed[t3] = None
  /\ sealed[t1] # None => sealed[t1].ts = clock - Window
  /\ \E r \in Call : pc[r] = "idle"

\* Either connections, processes and passwords come and go while one command is
\* fresh, or two commands are posted, one after the other, and grow old.
Slice == Fresh \/ Quiet
==============================================================================
