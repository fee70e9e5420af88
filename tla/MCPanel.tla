------------------------------- MODULE MCPanel -------------------------------
(* An instance of Panel for TLC: a page, a node and what happens to them.   *)
EXTENDS Panel

NoEvents == [e \in Event |-> 0]

\* The node's session is replaced and dropped, with heartbeats between.
Takeover == [NoEvents EXCEPT !["connect"] = 2, !["beat"] = 1, !["drop"] = 1, !["login"] = 1]

\* A node is enrolled, connects and is deleted.
Coming == [NoEvents EXCEPT !["enroll"] = 1, !["connect"] = 1, !["beat"] = 1, !["delete"] = 1,
                           !["login"] = 1]

\* The socket breaks, an answer gets lost.
Cut == [NoEvents EXCEPT !["connect"] = 1, !["beat"] = 1, !["drop"] = 1, !["break"] = 1,
                        !["fail"] = 1, !["login"] = 1]

\* The user logs out, or the session of the page ends, and the user is back.
Again == [NoEvents EXCEPT !["connect"] = 1, !["expire"] = 1, !["logout"] = 1, !["fail"] = 1,
                          !["login"] = 2]

\* The hub is restarted.
Restart == [NoEvents EXCEPT !["connect"] = 1, !["restart"] = 1, !["login"] = 2]

Runs == {Takeover, Coming, Cut, Again, Restart}
==============================================================================
