---------------------------- MODULE MCMatchmaking ----------------------------
(* Instances of Matchmaking for TLC: two nodes, and for each run the events *)
(* the environment may cause.                                               *)
EXTENDS Matchmaking, TLC

CONSTANTS n1, n2

\* Connections at the hub: one per node, or a second one that can take over.
OneEach == {<<n1, 1>>, <<n2, 1>>}
TwoFirst == {<<n1, 1>>, <<n1, 2>>, <<n2, 1>>}

NodeSymmetry == Permutations(Node)

NoEvents == [e \in Event |-> IF e = "dial" THEN None ELSE 0]

\* A link, and an agent that comes back with another key while the hub still
\* works on its old connection; a pair that is linked again.
Takeover == {[NoEvents EXCEPT !["link"] = 1, !["restart"] = 1],
             [NoEvents EXCEPT !["dial"] = 2, !["link"] = 2, !["unlink"] = 1]}

\* A pair is linked, unlinked and linked again while agents connect.
Churn == [NoEvents EXCEPT !["dial"] = 4, !["link"] = 2, !["unlink"] = 1]

\* A link is designated as exit while a device refuses a peer and an end
\* that went offline is collected.
Exits == [NoEvents EXCEPT !["dial"] = 3, !["link"] = 1, !["exit"] = 1,
                          !["gc"] = 1, !["wgfail"] = 1]

\* A node is deleted while its links come up and an agent connects again, or
\* a connection breaks.
Removal == [NoEvents EXCEPT !["dial"] = 3, !["link"] = 1, !["delete"] = 1]
Broken == [NoEvents EXCEPT !["dial"] = 2, !["link"] = 1, !["delete"] = 1, !["break"] = 1]

\* A link is deleted, and one of its nodes.
Both == [NoEvents EXCEPT !["dial"] = 2, !["link"] = 1, !["unlink"] = 1, !["delete"] = 1]

LinkChanges == {Churn, Exits, Removal, Broken, Both}

\* A key is rotated and the hub is restarted; an end whose connection breaks is
\* collected before it is back.
Disturbances == {[NoEvents EXCEPT !["link"] = 1, !["rotate"] = 1, !["crash"] = 1],
                 [NoEvents EXCEPT !["link"] = 1, !["break"] = 1, !["gc"] = 1]}

\* A link and a hub restart; a link; a deleted node.
HubCrash == {[NoEvents EXCEPT !["link"] = 1, !["crash"] = 1]}
OneLink == {[NoEvents EXCEPT !["link"] = 1]}
OneDelete == {[NoEvents EXCEPT !["delete"] = 1]}
==============================================================================
