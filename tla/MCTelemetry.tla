----------------------------- MODULE MCTelemetry -----------------------------
(* An instance of Telemetry for TLC: a link's two ends, one clock ahead.    *)
EXTENDS Telemetry

CONSTANTS n1, n2

FirstAhead == [m \in Machine |-> IF m = n1 THEN 1 ELSE 0]

NoEvents == [e \in Event |-> 0]

\* Both ends report a handshake.
Reporting == [NoEvents EXCEPT !["beat"] = 3, !["shake"] = 1]

\* One end reports on one connection.
Lasting == [NoEvents EXCEPT !["beat"] = 3]

\* A connection is replaced, a machine rebooted.
Replacing == [NoEvents EXCEPT !["beat"] = 3, !["connect"] = 1]
Rebooting == [NoEvents EXCEPT !["beat"] = 2, !["connect"] = 1, !["boot"] = 1]

\* A collector fails.
Failing == [NoEvents EXCEPT !["beat"] = 2, !["fail"] = 1]

\* A clock is set between reports, or between handshake and report.
Stepping == [NoEvents EXCEPT !["beat"] = 2, !["step"] = 1]
Shaken == [Stepping EXCEPT !["shake"] = 1]

\* A node is deleted, or the hub restarted, between heartbeats.
Removing == [NoEvents EXCEPT !["beat"] = 2, !["shake"] = 1, !["delete"] = 1]
Restarting == [NoEvents EXCEPT !["beat"] = 2, !["shake"] = 1, !["connect"] = 1, !["restart"] = 1]

Runs == {Reporting, Lasting, Replacing, Rebooting, Failing, Stepping, Shaken, Removing, Restarting}

\* Nothing from n2, no handshake to come, and either the machine's traffic or the link's:
\* the rates, past the ring's length. Time ends earlier where connections are replaced.
OneCounter ==
  /\ making[n2] = None /\ wgTold[n2] = Start /\ tunnel = None /\ budget["shake"] = 0
  /\ sys[n1] = 0 \/ wg[n1] = 0
  /\ clock < MaxTime \/ \A n \in Node : conn[n] = 1

\* The link of both ends: the traffic of one, then a handshake without it, past the
\* handshake's window.
BothEnds ==
  /\ clock <= Start + 3 /\ wg[n2] = 0 /\ \A n \in Node : sys[n] = 0
  /\ tunnel = None \/ wg[n1] = 0
  /\ tunnel # None \/ budget["shake"] > 0

Slice == OneCounter \/ BothEnds
==============================================================================
