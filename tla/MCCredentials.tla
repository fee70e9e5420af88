---------------------------- MODULE MCCredentials ----------------------------
(* An instance of Credentials for TLC: one machine with two command lines.  *)
EXTENDS Credentials

CONSTANTS m1

TwoCommands == {<<m1, 1>>, <<m1, 2>>}

NoEvents == [e \in Event |-> 0]

\* Two enrollments, at once or one after a kick, with processes killed.
Enrolling == [NoEvents EXCEPT !["enroll"] = 2, !["delete"] = 1, !["kill"] = 1]

\* A machine enrolls while the hub's files age and the hub is killed.
Restarting == [NoEvents EXCEPT !["enroll"] = 1, !["age"] = 2, !["kill"] = 3]

\* Two commands change the registry at once while the identity is destroyed.
Editing == [NoEvents EXCEPT !["enroll"] = 1, !["edit"] = 2, !["delete"] = 1]

FileChanges == {Enrolling, Restarting, Editing}
==============================================================================
