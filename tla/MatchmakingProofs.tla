-------------------------- MODULE MatchmakingProofs --------------------------
(* Proofs about Matchmaking. *)
EXTENDS Matchmaking, QueueLemmas, TLAPS

------------------------------------------------------------------------------
(* One live session per node                                               *)

\* The part of the type invariant that the argument rests on.
SessionTypes ==
  /\ hubSt \in [Sess -> {"none", "checked", "open", "closed"}]
  /\ sessions \in [Node -> Sess \cup {None}]

SessionInv == SessionTypes /\ OneLiveSession

\* What a step that neither adds nor removes a session may do to the
\* connections: close some, or admit a new one.
OnlyCloses ==
  /\ sessions' = sessions
  /\ hubSt' \in [Sess -> {"none", "checked", "open", "closed"}]
  /\ \A s \in Sess : \/ hubSt'[s] = hubSt[s]
                     \/ hubSt[s] = "open" /\ hubSt'[s] = "closed"
                     \/ hubSt[s] = "none" /\ hubSt'[s] = "checked"

\* A connection belongs to a node.
LEMMA OwnerIsNode == \A s \in Sess : Owner(s) \in Node
  BY SessAssumption DEF Owner

\* None is no connection.
LEMMA NoneIsNoSession == None \notin Sess
  BY NoneAssumption

\* Closing connections keeps the invariant.
LEMMA OnlyClosesKeeps == SessionInv /\ OnlyCloses => SessionInv'
  BY OwnerIsNode DEF SessionInv, SessionTypes, OnlyCloses, OneLiveSession

\* Sending frames only closes (a full queue).
LEMMA SendOnlyCloses ==
  ASSUME NEW fr, SessionInv, Send(fr), sessions' = sessions
  PROVE  OnlyCloses
  BY DEF SessionInv, SessionTypes, Send, OverflowClosed, OnlyCloses

\* A step that touches neither variable keeps the invariant.
LEMMA UntouchedKeeps == SessionInv /\ UNCHANGED <<hubSt, sessions>> => SessionInv'
  BY DEF SessionInv, SessionTypes, OneLiveSession

\* runSession closes the session it replaces.
LEMMA RunSessionKeeps ==
  ASSUME NEW s \in Sess, SessionInv, RunSession(s)
  PROVE  SessionInv'
<1> DEFINE n == Owner(s)
<1>1. n \in Node
  BY OwnerIsNode
<1>2. SessionTypes'
  BY <1>1 DEF SessionInv, SessionTypes, RunSession
<1>3. sessions'[n] = s /\ \A m \in Node \ {n} : sessions'[m] = sessions[m]
  BY <1>1 DEF SessionInv, SessionTypes, RunSession
<1>4. ASSUME NEW r \in Sess, hubSt'[r] = "open" PROVE sessions'[Owner(r)] = r
  <2>1. CASE r = s
    BY <2>1, <1>3
  <2>2. CASE r # s
    <3>1. hubSt[r] = "open" /\ r # sessions[n]
      BY <2>2, <1>4 DEF SessionInv, SessionTypes, RunSession
    <3>2. sessions[Owner(r)] = r
      BY <3>1 DEF SessionInv, OneLiveSession
    <3> QED
      BY <3>1, <3>2, <1>3, OwnerIsNode
  <2> QED
    BY <2>1, <2>2
<1>5. ASSUME NEW m \in Node, sessions'[m] # None
      PROVE  Owner(sessions'[m]) = m /\ hubSt'[sessions'[m]] \in {"open", "closed"}
  <2>1. CASE m = n
    BY <2>1, <1>3 DEF SessionInv, SessionTypes, RunSession
  <2>2. CASE m # n
    <3>1. sessions[m] # None /\ sessions'[m] = sessions[m]
      BY <2>2, <1>3, <1>5
    <3>2. sessions[m] \in Sess /\ Owner(sessions[m]) = m
            /\ hubSt[sessions[m]] \in {"open", "closed"}
      BY <3>1 DEF SessionInv, SessionTypes, OneLiveSession
    <3> QED
      BY <3>1, <3>2, <2>2 DEF SessionInv, SessionTypes, RunSession
  <2> QED
    BY <2>1, <2>2
<1> QED
  BY <1>2, <1>4, <1>5 DEF SessionInv, OneLiveSession

\* dropSession spares a newer session of the node.
LEMMA DropSessionKeeps ==
  ASSUME NEW s \in Sess, SessionInv, DropSession(s)
  PROVE  SessionInv'
<1> DEFINE n == Owner(s)
<1>1. n \in Node /\ sessions[n] \in Sess \cup {None}
  BY OwnerIsNode DEF SessionInv, SessionTypes
<1>2. SessionTypes'
  BY <1>1 DEF SessionInv, SessionTypes, DropSession, SessionsWithout
<1>3. \A m \in Node : sessions'[m] = IF sessions[m] = s THEN None ELSE sessions[m]
  <2> SUFFICES ASSUME NEW m \in Node
               PROVE  sessions'[m] = IF sessions[m] = s THEN None ELSE sessions[m]
    OBVIOUS
  <2>1. sessions[m] = s => m = n
    BY NoneIsNoSession DEF SessionInv, OneLiveSession
  <2> QED
    BY <1>1, <2>1, NoneIsNoSession DEF SessionInv, SessionTypes, DropSession, SessionsWithout
<1>4. \A r \in Sess : hubSt'[r] = IF r = s THEN "none" ELSE hubSt[r]
  BY DEF SessionInv, SessionTypes, DropSession
<1> QED
  BY <1>2, <1>3, <1>4, OwnerIsNode, NoneIsNoSession DEF SessionInv, SessionTypes, OneLiveSession

\* A hub restart forgets all sessions.
LEMMA HubRestartKeeps == SessionInv /\ HubRestart => SessionInv'
  BY DEF SessionInv, SessionTypes, OneLiveSession, HubRestart

\* Every step keeps the invariant.
LEMMA SessionInvStep == SessionInv /\ [Next]_vars => SessionInv'
<1> SUFFICES ASSUME SessionInv, [Next]_vars PROVE SessionInv'
  OBVIOUS
<1>1. ASSUME NEW s \in Sess, SessionStep(s) \/ CloseConn(s) PROVE SessionInv'
  <2>1. CASE RunSession(s)
    BY <2>1, RunSessionKeeps
  <2>2. CASE ReadRegister(s)
    BY <2>2, UntouchedKeeps DEF ReadRegister, hubVars
  <2>3. CASE HandleRegister(s)
    <3>1. Send(RegisterFrames(s)) /\ sessions' = sessions
      BY <2>3 DEF HandleRegister
    <3> QED
      BY <3>1, SendOnlyCloses, OnlyClosesKeeps
  <2>4. CASE SendRegisterAck(s)
    <3>1. sessions' = sessions
            /\ Send([r \in {s} |-> [type |-> "register_ack", peers |-> exp[s]]])
      BY <2>4 DEF SendRegisterAck, hubVars
    <3> QED
      BY <3>1, SendOnlyCloses, OnlyClosesKeeps
  <2>5. CASE HandleAck(s)
    BY <2>5, UntouchedKeeps DEF HandleAck
  <2>6. CASE DropSession(s)
    BY <2>6, DropSessionKeeps
  <2>7. CASE CloseConn(s)
    <3>1. OnlyCloses
      BY <2>7 DEF CloseConn, OnlyCloses, hubVars, SessionInv, SessionTypes
    <3> QED
      BY <3>1, OnlyClosesKeeps
  <2> QED
    BY <1>1, <2>1, <2>2, <2>3, <2>4, <2>5, <2>6, <2>7 DEF SessionStep
<1>2. ASSUME NEW t \in todo, RequestStep(t) PROVE SessionInv'
  <2>1. CASE StoreCreateLink(t)
    BY <2>1, UntouchedKeeps DEF StoreCreateLink, hubVars, chanVars
  <2>2. CASE PushLink(t)
    <3>1. sessions' = sessions /\ \E fr : Send(fr)
      BY <2>2 DEF PushLink
    <3> QED
      BY <3>1, SendOnlyCloses, OnlyClosesKeeps
  <2>3. CASE RemoveLink(t)
    <3>1. sessions' = sessions /\ \E fr : Send(fr)
      BY <2>3 DEF RemoveLink
    <3> QED
      BY <3>1, SendOnlyCloses, OnlyClosesKeeps
  <2>4. CASE DeleteNodeTx(t)
    BY <2>4, UntouchedKeeps DEF DeleteNodeTx, hubVars, chanVars
  <2>5. CASE DeleteNodeCascade(t)
    <3>1. sessions' = sessions /\ \E fr : Send(fr)
      BY <2>5 DEF DeleteNodeCascade
    <3> QED
      BY <3>1, SendOnlyCloses, OnlyClosesKeeps
  <2>6. CASE DeleteNodeKick(t)
    <3>1. sessions' = sessions /\ \E fr : Send(fr)
      BY <2>6 DEF DeleteNodeKick, hubVars
    <3> QED
      BY <3>1, SendOnlyCloses, OnlyClosesKeeps
  <2>7. CASE KickClose(t)
    <3>1. OnlyCloses
      BY <2>7 DEF KickClose, OnlyCloses, hubVars, SessionInv, SessionTypes
    <3> QED
      BY <3>1, OnlyClosesKeeps
  <2>8. CASE DeleteNodeForget(t)
    BY <2>8, UntouchedKeeps DEF DeleteNodeForget, chanVars
  <2> QED
    BY <1>2, <2>1, <2>2, <2>3, <2>4, <2>5, <2>6, <2>7, <2>8 DEF RequestStep
<1>3. ASSUME NEW n \in Node, AgentStep(n) \/ LoseConn(n) \/ RegisterFails(n) PROVE SessionInv'
  <2>1. ASSUME NEW s \in Sess, Connect(n, s) PROVE SessionInv'
    <3>1. OnlyCloses
      BY <2>1 DEF Connect, HandleConn, OnlyCloses, hubVars, SessionInv, SessionTypes
    <3> QED
      BY <3>1, OnlyClosesKeeps
  <2>2. CASE RegisterAck(n) \/ ApplyPeer(n) \/ ApplyRemove(n) \/ ApplyRotate(n) \/ ApplyKick(n)
               \/ LoseConn(n) \/ RegisterFails(n)
    <3>1. UNCHANGED <<hubSt, sessions>>
      BY <2>2 DEF RegisterAck, ApplyPeer, ApplyRemove, ApplyRotate, ApplyKick, LoseConn,
                  RegisterFails, hubVars
    <3> QED
      BY <3>1, UntouchedKeeps
  <2> QED
    BY <1>3, <2>1, <2>2 DEF AgentStep
<1>4. ASSUME AdminStep PROVE SessionInv'
  <2>1. ASSUME NEW e \in Ends, ApiCreateLink(e) PROVE SessionInv'
    BY <2>1, UntouchedKeeps DEF ApiCreateLink, hubVars, chanVars
  <2>2. ASSUME NEW l \in store, DeleteLink(l) PROVE SessionInv'
    BY <2>2, UntouchedKeeps DEF DeleteLink, hubVars, chanVars
  <2>3. ASSUME NEW l \in store, NEW e \in Node \cup {None}, SetLinkExit(l, e) PROVE SessionInv'
    BY <2>3, UntouchedKeeps DEF SetLinkExit, hubVars, chanVars
  <2>4. ASSUME NEW n \in Node, RotateWG(n) PROVE SessionInv'
    <3>1. sessions' = sessions /\ \E fr : Send(fr)
      BY <2>4 DEF RotateWG, hubVars
    <3> QED
      BY <3>1, SendOnlyCloses, OnlyClosesKeeps
  <2>5. ASSUME NEW n \in Node, DeleteNode(n) PROVE SessionInv'
    BY <2>5, UntouchedKeeps DEF DeleteNode, hubVars, chanVars
  <2> QED
    BY <1>4, <2>1, <2>2, <2>3, <2>4, <2>5 DEF AdminStep
<1>5. ASSUME Fault PROVE SessionInv'
  <2>1. CASE HubRestart
    BY <2>1, HubRestartKeeps
  <2>2. ASSUME NEW n \in Node, GcOfflinePeer(n) PROVE SessionInv'
    <3>1. sessions' = sessions /\ \E fr : Send(fr)
      BY <2>2 DEF GcOfflinePeer
    <3> QED
      BY <3>1, SendOnlyCloses, OnlyClosesKeeps
  <2>3. ASSUME NEW n \in Node, AgentRestart(n) \/ ApplyPeerFails(n) PROVE SessionInv'
    BY <2>3, UntouchedKeeps DEF AgentRestart, ApplyPeerFails, hubVars
  <2> QED
    BY <1>5, <2>1, <2>2, <2>3 DEF Fault
<1>6. CASE UNCHANGED vars
  BY <1>6, UntouchedKeeps DEF vars, hubVars, chanVars
<1> QED
  BY <1>1, <1>2, <1>3, <1>4, <1>5, <1>6 DEF Next

\* No node ever has two live control connections, for any number of nodes,
\* connections and queue capacity (runSession, dropSession, send).
THEOREM OneLiveSessionHolds == Spec => []OneLiveSession
<1>1. Init => SessionInv
  BY NoneIsNoSession DEF Init, SessionInv, SessionTypes, OneLiveSession
<1>2. SessionInv => OneLiveSession
  BY DEF SessionInv
<1> QED
  BY <1>1, <1>2, SessionInvStep, PTL DEF Spec
------------------------------------------------------------------------------
(* One link per pair of nodes                                              *)

OnePerPair(S) == \A x, y \in S : x.ends = y.ends => x = y

\* The table's UNIQUE constraint, for the rows and for the lists of them
\* that requests carry; a request that withdraws a node comes after the
\* transaction that revokes it.
LinksInv ==
  /\ OnePerPair(store)
  /\ \A t \in todo : t.op \in {"deleteTx", "cascade"} =>
       OnePerPair(t.links) /\ \A l \in t.links : t.node \in l.ends
  /\ \A t \in todo : t.op \in {"cascade", "kick", "forget"} => t.node \in revokedDB

\* A link has two ends, and Other finds the one that is not n.
LEMMA OtherIsEnd ==
  ASSUME NEW l \in Link, NEW n \in Node
  PROVE  Other(l, n) \in l.ends /\ Other(l, n) # n /\ Other(l, n) \in Node
<1>1. PICK a \in Node, b \in Node : l.ends = {a, b} /\ a # b
  <2>1. l.ends \in Ends
    BY DEF Link
  <2>2. PICK a \in Node, b \in Node : l.ends = {a, b}
    BY <2>1 DEF Ends
  <2>3. a # b
    BY <2>1, <2>2 DEF Ends
  <2> QED
    BY <2>2, <2>3
<1>2. \E m \in l.ends : m # n
  BY <1>1
<1> QED
  BY <1>1, <1>2 DEF Other

\* Seen from an end, the other end's other end is that end.
LEMMA OtherOfOther ==
  ASSUME NEW l \in Link, NEW n \in l.ends
  PROVE  n \in Node /\ Other(l, Other(l, n)) = n
<1>1. PICK a \in Node, b \in Node : l.ends = {a, b}
  BY DEF Link, Ends
<1>2. n \in Node
  BY <1>1
<1>3. Other(l, n) \in l.ends /\ Other(l, n) # n /\ Other(l, n) \in Node
  BY <1>2, OtherIsEnd
<1>4. Other(l, Other(l, n)) \in l.ends /\ Other(l, Other(l, n)) # Other(l, n)
  BY <1>3, OtherIsEnd
<1> QED
  BY <1>1, <1>2, <1>3, <1>4

\* A pair has two different ends, whichever end one starts from.
LEMMA PairOfEnds ==
  ASSUME NEW l \in Link, NEW n \in l.ends
  PROVE  l.ends = {n, Other(l, n)}
<1>1. PICK a \in Node, b \in Node : l.ends = {a, b}
  BY DEF Link, Ends
<1>2. Other(l, n) \in l.ends /\ Other(l, n) # n
  BY <1>1, OtherIsEnd
<1> QED
  BY <1>1, <1>2

------------------------------------------------------------------------------
(* Types                                                                   *)

DbTypes == /\ store \subseteq Link /\ minted \in Nat
           /\ revokedDB \subseteq Node /\ seen \subseteq Node
HubTypes == /\ sessions \in [Node -> Sess \cup {None}]
            /\ lastWG \in [Node -> Gen \cup {None}]
            /\ rt \subseteq Nat /\ acked \subseteq Nat \X Node /\ gcDone \subseteq Node
TodoTypes == todo \subseteq Todo
SessVarTypes == /\ registered \in [Sess -> BOOLEAN]
                /\ pc \in [Sess -> {"idle", "links", "ack"}]
                /\ reg \in [Sess -> Gen]
                /\ snap \in [Sess -> SUBSET Link]
                /\ exp \in [Sess -> SUBSET PeerSpec]
ChanTypes == /\ hubSt \in [Sess -> {"none", "checked", "open", "closed"}]
             /\ out \in [Sess -> Seq(ToAgent)]
             /\ inb \in [Sess -> Seq(ToHub)]
ConnTypes == /\ phase \in [Node -> {"down", "registering", "up", "gone"}]
             /\ conn \in [Node -> Sess \cup {None}]
WgTypes == /\ key \in [Node -> Gen]
           /\ dev \in [Node -> Device]
           /\ exits \in [Node -> SUBSET (Nat \X Node)]
           /\ upstream \in [Node -> Node \cup {None}]
GhostTypes == budget \in [Event -> Nat \cup {None}] /\ torn \subseteq SUBSET Node

Types == /\ DbTypes /\ HubTypes /\ TodoTypes /\ SessVarTypes /\ ChanTypes
         /\ ConnTypes /\ WgTypes /\ GhostTypes

\* The groups of variables make up the type invariant.
LEMMA TypesAreTypeOK == Types <=> TypeOK
  BY DEF Types, TypeOK, DbTypes, HubTypes, TodoTypes, SessVarTypes, ChanTypes, ConnTypes,
         WgTypes, GhostTypes

\* Groups that a step does not touch keep their types.
LEMMA DbStays == DbTypes /\ UNCHANGED dbVars => DbTypes'
  BY DEF DbTypes, dbVars
\* Groups that a step does not touch keep their types: the hub's fields.
LEMMA HubStays == HubTypes /\ UNCHANGED hubVars => HubTypes'
  BY DEF HubTypes, hubVars
\* Groups that a step does not touch keep their types: the connections' bookkeeping.
LEMMA SessVarsStay == SessVarTypes /\ UNCHANGED sessVars => SessVarTypes'
  BY DEF SessVarTypes, sessVars
\* Groups that a step does not touch keep their types: the channels.
LEMMA ChanStays == ChanTypes /\ UNCHANGED chanVars => ChanTypes'
  BY DEF ChanTypes, chanVars
\* Groups that a step does not touch keep their types: the agents' connections.
LEMMA ConnStays == ConnTypes /\ UNCHANGED <<phase, conn>> => ConnTypes'
  BY DEF ConnTypes
\* Groups that a step does not touch keep their types: the devices.
LEMMA WgStays == WgTypes /\ UNCHANGED wgVars => WgTypes'
  BY DEF WgTypes, wgVars
\* Groups that a step does not touch keep their types: everything of the agents.
LEMMA AgentStays == ConnTypes /\ WgTypes /\ UNCHANGED agentVars => ConnTypes' /\ WgTypes'
  BY DEF ConnTypes, WgTypes, agentVars, wgVars

\* An event takes from its budget, if it has one.
LEMMA SpendType ==
  ASSUME budget \in [Event -> Nat \cup {None}], NEW e \in Event, Spend(e)
  PROVE  budget' \in [Event -> Nat \cup {None}]
<1>1. budget[e] # None => budget[e] - 1 \in Nat
  BY DEF Spend
<1> QED
  BY <1>1 DEF Spend

\* The event names are events.
LEMMA EventNames ==
  {"dial", "break", "crash", "restart", "rotate", "link", "unlink", "exit",
   "delete", "gc", "wgfail"} \subseteq Event
  BY DEF Event
------------------------------------------------------------------------------
(* Frames                                                                  *)

\* peerSpecLocked builds a peer spec.
LEMMA SpecIsSpec ==
  ASSUME NEW l \in Link, NEW p \in Node, NEW gen \in Gen
  PROVE  SpecOf(l, p, gen) \in PeerSpec
<1> DEFINE e == (l.exit = p /\ p \in SocksNode)
           v == (p \notin revokedDB)
<1>1. e \in BOOLEAN /\ v \in BOOLEAN
  OBVIOUS
<1>2. SpecOf(l, p, gen) = [link |-> l.id, peer |-> p, gen |-> gen, exit |-> e, valid |-> v]
  BY Zenon DEF SpecOf
<1>3. l.id \in Nat
  BY DEF Link
<1> HIDE DEF e, v
<1> QED
  BY <1>1, <1>2, <1>3 DEF PeerSpec

\* The frames that carry a spec, a key or nothing.
LEMMA FramesAreFrames ==
  /\ \A sp \in PeerSpec : \A typ \in {"peer_add", "peer_update"} :
       [type |-> typ, spec |-> sp] \in ToAgent
  /\ \A i \in Nat : \A k \in Key : [type |-> "peer_remove", link |-> i, wg |-> k] \in ToAgent
  /\ \A S \in SUBSET PeerSpec : [type |-> "register_ack", peers |-> S] \in ToAgent
  /\ \A typ \in {"rotate_wg", "kick", "error"} : [type |-> typ] \in ToAgent
  BY DEF ToAgent

\* Frames per session.
FrameMap(fr) == \A s \in Sess : s \in DOMAIN fr => fr[s] \in ToAgent

\* Sending frames keeps the types of the channels.
LEMMA SendType ==
  ASSUME NEW fr, ChanTypes, FrameMap(fr), Send(fr)
  PROVE  /\ hubSt' \in [Sess -> {"none", "checked", "open", "closed"}]
         /\ out' \in [Sess -> Seq(ToAgent)]
  BY DEF ChanTypes, FrameMap, Send, Queued, OverflowClosed

\* pushPairLocked sends specs to the two ends.
LEMMA PairFramesOk ==
  ASSUME Types, OneLiveSession, NEW l \in Link, NEW typ \in {"peer_add", "peer_update"}
  PROVE  FrameMap(PairFrames(l, typ))
<1>1. CASE \A n \in l.ends : Ready(n)
  <2>1. PairFrames(l, typ) =
          [s \in {sessions[n] : n \in l.ends} |->
             LET p == Other(l, Owner(s)) IN [type |-> typ, spec |-> SpecOf(l, p, lastWG[p])]]
    BY <1>1 DEF PairFrames
  <2>2. ASSUME NEW n \in l.ends
        PROVE  [type |-> typ, spec |-> SpecOf(l, Other(l, Owner(sessions[n])),
                                              lastWG[Other(l, Owner(sessions[n]))])] \in ToAgent
    <3>1. n \in Node /\ sessions[n] # None
      BY <1>1, OtherOfOther DEF Ready
    <3>2. Owner(sessions[n]) = n
      BY <3>1 DEF OneLiveSession
    <3>3. PICK p \in l.ends : p = Other(l, n) /\ p \in Node
      BY <3>1, OtherIsEnd
    <3>4. lastWG[p] \in Gen
      BY <1>1, <3>3 DEF Ready, Types, HubTypes
    <3> QED
      BY <3>2, <3>3, <3>4, SpecIsSpec, FramesAreFrames
  <2> QED
    BY <2>1, <2>2 DEF FrameMap
<1>2. CASE ~ \A n \in l.ends : Ready(n)
  <2>1. PairFrames(l, typ) = <<>>
    BY <1>2 DEF PairFrames
  <2> QED
    BY <2>1, SessAssumption DEF FrameMap
<1> QED
  BY <1>1, <1>2

\* removeSideLocked names the other end's key, provided that no end is
\* withdrawn twice.
LEMMA RemoveFramesOk ==
  ASSUME Types, OneLiveSession, NEW E, E \subseteq Link \X Node,
         \A x, y \in E : x[2] = y[2] => x = y
  PROVE  FrameMap(RemoveFrames(E))
<1> DEFINE Out == {x \in E : sessions[x[2]] # None /\ lastWG[Other(x[1], x[2])] # None}
           Side(s) == CHOOSE e \in E : e[2] = Owner(s)
           Key1(s) == LET l == Side(s)[1]
                          p == Other(l, Owner(s))
                      IN  [type |-> "peer_remove", link |-> l.id, wg |-> <<p, lastWG[p]>>]
<1>1. RemoveFrames(E) = [s \in {sessions[e[2]] : e \in Out} |-> Key1(s)]
  BY DEF RemoveFrames
<1>2. ASSUME NEW e \in Out
      PROVE  Key1(sessions[e[2]]) \in ToAgent
  <2>1. e[2] \in Node /\ e[1] \in Link /\ sessions[e[2]] # None
    OBVIOUS
  <2>2. Owner(sessions[e[2]]) = e[2]
    BY <2>1 DEF OneLiveSession
  <2>3. Side(sessions[e[2]]) = e
    BY <2>2
  <2>4. PICK p \in Node : p = Other(e[1], e[2])
    BY <2>1, OtherIsEnd
  <2>5. lastWG[p] \in Gen
    BY <2>4 DEF Types, HubTypes
  <2>6. Key1(sessions[e[2]]) = [type |-> "peer_remove", link |-> e[1].id, wg |-> <<p, lastWG[p]>>]
    BY <2>2, <2>3, <2>4
  <2>7. e[1].id \in Nat /\ <<p, lastWG[p]>> \in Key
    BY <2>1, <2>5 DEF Link, Key
  <2> HIDE DEF Key1
  <2> QED
    BY <2>6, <2>7, FramesAreFrames
<1> HIDE DEF Key1, Out
<1> QED
  BY <1>1, <1>2 DEF FrameMap

\* handleRegister sends the new key to the other ends.
LEMMA RegisterFramesOk ==
  ASSUME Types, OneLiveSession, NEW s \in Sess
  PROVE  FrameMap(RegisterFrames(s))
<1> DEFINE n == Owner(s)
           Chosen(r) == CHOOSE x \in Expected(s) : Other(x, n) = Owner(r)
<1>1. RegisterFrames(s) =
        [r \in {sessions[Other(l, n)] : l \in Expected(s)} |->
           [type |-> "peer_update", spec |-> SpecOf(Chosen(r), n, reg[s])]]
  BY DEF RegisterFrames
<1>2. n \in Node /\ reg[s] \in Gen /\ Expected(s) \subseteq Link
  BY OwnerIsNode DEF Types, SessVarTypes, Expected
<1>3. ASSUME NEW l \in Expected(s)
      PROVE  Chosen(sessions[Other(l, n)]) \in Link
  <2>1. Other(l, n) \in Node /\ sessions[Other(l, n)] # None
    BY <1>2, OtherIsEnd DEF Expected, Ready
  <2>2. Owner(sessions[Other(l, n)]) = Other(l, n)
    BY <2>1 DEF OneLiveSession
  <2> QED
    BY <1>2, <2>2
<1> HIDE DEF Chosen, n
<1>4. \A l \in Expected(s) :
        [type |-> "peer_update", spec |-> SpecOf(Chosen(sessions[Other(l, n)]), n, reg[s])] \in ToAgent
  BY <1>2, <1>3, SpecIsSpec, FramesAreFrames
<1> QED
  BY <1>1, <1>4 DEF FrameMap
------------------------------------------------------------------------------
(* The hub's steps keep the types                                          *)

\* runSession.
LEMMA RunSessionTypes ==
  ASSUME Types, NEW s \in Sess, RunSession(s)
  PROVE  Types'
<1>1. HubTypes' /\ ChanTypes'
  BY OwnerIsNode DEF Types, RunSession, HubTypes, ChanTypes
<1>2. DbTypes' /\ SessVarTypes' /\ ConnTypes' /\ WgTypes'
  BY DbStays, SessVarsStay, AgentStays DEF Types, RunSession
<1>3. TodoTypes' /\ GhostTypes'
  BY DEF Types, RunSession, TodoTypes, GhostTypes
<1> QED
  BY <1>1, <1>2, <1>3 DEF Types

\* handleRegister before the lock.
LEMMA ReadRegisterTypes ==
  ASSUME Types, NEW s \in Sess, ReadRegister(s)
  PROVE  Types'
<1>1. inb[s] \in Seq(ToHub) /\ inb[s] # <<>>
  BY DEF Types, ChanTypes, ReadRegister
<1>2. Head(inb[s]) \in ToHub /\ Tail(inb[s]) \in Seq(ToHub)
  BY <1>1
<1>3. Head(inb[s]).gen \in Gen
  BY <1>2 DEF ToHub, ReadRegister
<1>4. ChanTypes'
  BY <1>2 DEF Types, ChanTypes, ReadRegister
<1>5. LinksOf(Owner(s)) \subseteq Link
  BY DEF Types, DbTypes, LinksOf
<1>6. SessVarTypes'
  BY <1>3, <1>5 DEF Types, SessVarTypes, ReadRegister
<1>7. DbTypes' /\ HubTypes' /\ ConnTypes' /\ WgTypes'
  BY DbStays, HubStays, AgentStays DEF Types, ReadRegister
<1>8. TodoTypes' /\ GhostTypes'
  BY DEF Types, ReadRegister, TodoTypes, GhostTypes
<1> QED
  BY <1>4, <1>6, <1>7, <1>8 DEF Types

\* handleRegister under the lock.
LEMMA HandleRegisterTypes ==
  ASSUME Types, OneLiveSession, NEW s \in Sess, HandleRegister(s)
  PROVE  Types'
<1> DEFINE n == Owner(s)
<1>1. n \in Node /\ reg[s] \in Gen /\ snap[s] \subseteq Link /\ Expected(s) \subseteq Link
  BY OwnerIsNode DEF Types, SessVarTypes, Expected
<1>2. ChanTypes'
  <2>1. Send(RegisterFrames(s)) /\ inb' = inb
    BY DEF HandleRegister
  <2> QED
    BY <2>1, RegisterFramesOk, SendType DEF Types, ChanTypes
<1>3. HubTypes'
  <2>1. lastWG' \in [Node -> Gen \cup {None}]
    BY <1>1 DEF Types, HubTypes, HandleRegister, RegisteredKey
  <2>2. rt' \subseteq Nat
    BY <1>1 DEF Types, HubTypes, HandleRegister, Link
  <2>3. acked' \subseteq Nat \X Node
    BY <1>1 DEF Types, HubTypes, HandleRegister, RegisterAcks, Link
  <2> QED
    BY <2>1, <2>2, <2>3 DEF Types, HubTypes, HandleRegister
<1>4. SessVarTypes'
  <2>1. ASSUME NEW l \in Expected(s)
        PROVE  SpecOf(l, Other(l, n), lastWG[Other(l, n)]) \in PeerSpec
    <3>1. PICK p \in Node : p = Other(l, n)
      BY <1>1, OtherIsEnd
    <3>2. lastWG[p] \in Gen
      BY <3>1 DEF Expected, Ready, Types, HubTypes
    <3> QED
      BY <1>1, <3>1, <3>2, SpecIsSpec
  <2>2. exp' \in [Sess -> SUBSET PeerSpec]
    BY <2>1 DEF Types, SessVarTypes, HandleRegister
  <2>3. /\ registered' = [registered EXCEPT ![s] = TRUE]
        /\ pc' = [pc EXCEPT ![s] = "ack"]
        /\ snap' = [snap EXCEPT ![s] = {}] /\ reg' = [reg EXCEPT ![s] = 0]
    BY DEF HandleRegister
  <2>4. registered' \in [Sess -> BOOLEAN] /\ snap' \in [Sess -> SUBSET Link]
    BY <2>3 DEF Types, SessVarTypes
  <2>5. pc' \in [Sess -> {"idle", "links", "ack"}] /\ reg' \in [Sess -> Gen]
    BY <2>3 DEF Types, SessVarTypes, Gen
  <2> QED
    BY <2>2, <2>4, <2>5 DEF SessVarTypes
<1>5. GhostTypes'
  <2>1. store \subseteq Link /\ Withdrawn \subseteq Link
    BY DEF Types, DbTypes, TodoTypes, Todo, Withdrawn
  <2>2. \A l \in Link : l.ends \subseteq Node
    BY DEF Link, Ends
  <2>3. TornByRegister(s) \subseteq SUBSET Node
    BY <1>1, <2>1, <2>2 DEF TornByRegister, LinksOf
  <2> QED
    BY <2>3 DEF Types, GhostTypes, HandleRegister
<1>6. DbTypes' /\ ConnTypes' /\ WgTypes'
  BY DbStays, AgentStays DEF Types, HandleRegister
<1>7. TodoTypes'
  BY DEF Types, HandleRegister, TodoTypes
<1> QED
  BY <1>2, <1>3, <1>4, <1>5, <1>6, <1>7 DEF Types

\* handleRegister after the lock.
LEMMA SendRegisterAckTypes ==
  ASSUME Types, NEW s \in Sess, SendRegisterAck(s)
  PROVE  Types'
<1>1. exp[s] \in SUBSET PeerSpec
  BY DEF Types, SessVarTypes
<1>2. ChanTypes'
  <2> DEFINE fr == [r \in {s} |-> [type |-> "register_ack", peers |-> exp[s]]]
  <2>1. FrameMap(fr)
    BY <1>1, FramesAreFrames DEF FrameMap
  <2>2. Send(fr) /\ inb' = inb
    BY DEF SendRegisterAck
  <2> QED
    BY <2>1, <2>2, SendType DEF Types, ChanTypes
<1>3. SessVarTypes' /\ DbTypes'
  BY OwnerIsNode DEF Types, SessVarTypes, DbTypes, SendRegisterAck
<1>4. HubTypes' /\ ConnTypes' /\ WgTypes'
  BY HubStays, AgentStays DEF Types, SendRegisterAck
<1>5. TodoTypes' /\ GhostTypes'
  BY DEF Types, SendRegisterAck, TodoTypes, GhostTypes
<1> QED
  BY <1>2, <1>3, <1>4, <1>5 DEF Types

\* handleAck.
LEMMA HandleAckTypes ==
  ASSUME Types, NEW s \in Sess, HandleAck(s)
  PROVE  Types'
<1>1. inb[s] \in Seq(ToHub) /\ inb[s] # <<>>
  BY DEF Types, ChanTypes, HandleAck
<1>2. Head(inb[s]) \in ToHub /\ Tail(inb[s]) \in Seq(ToHub)
  BY <1>1
<1>3. Head(inb[s]).link \in Nat
  BY <1>2 DEF ToHub, HandleAck
<1>4. ChanTypes'
  BY <1>2 DEF Types, ChanTypes, HandleAck
<1>5. HubTypes'
  BY <1>3, OwnerIsNode DEF Types, HubTypes, HandleAck
<1>6. DbTypes' /\ SessVarTypes' /\ ConnTypes' /\ WgTypes'
  BY DbStays, SessVarsStay, AgentStays DEF Types, HandleAck
<1>7. TodoTypes' /\ GhostTypes'
  BY DEF Types, HandleAck, TodoTypes, GhostTypes
<1> QED
  BY <1>4, <1>5, <1>6, <1>7 DEF Types

\* The end of a connection.
LEMMA CloseConnTypes ==
  ASSUME Types, NEW s \in Sess, CloseConn(s)
  PROVE  Types'
<1>1. ChanTypes'
  BY DEF Types, ChanTypes, CloseConn
<1>2. GhostTypes'
  BY SpendType, EventNames DEF Types, GhostTypes, CloseConn
<1>3. DbTypes' /\ HubTypes' /\ SessVarTypes' /\ ConnTypes' /\ WgTypes'
  BY DbStays, HubStays, SessVarsStay, AgentStays DEF Types, CloseConn
<1>4. TodoTypes'
  BY DEF Types, CloseConn, TodoTypes
<1> QED
  BY <1>1, <1>2, <1>3, <1>4 DEF Types
\* dropSession.
LEMMA DropSessionTypes ==
  ASSUME Types, NEW s \in Sess, DropSession(s)
  PROVE  Types'
<1>1. TodoTypes'
  <2>1. ASSUME NEW t \in todo
        PROVE  Detach(t, s) \in Todo
    <3>1. t \in Todo
      BY DEF Types, TodoTypes
    <3>2. CASE t.op \in {"kick", "close"} /\ t.sess = s
      <4>1. Detach(t, s) = [t EXCEPT !.sess = None]
        BY <3>2 DEF Detach
      <4> QED
        BY <3>1, <3>2, <4>1 DEF Todo
    <3>3. CASE ~(t.op \in {"kick", "close"} /\ t.sess = s)
      BY <3>1, <3>3 DEF Detach
    <3> QED
      BY <3>2, <3>3
  <2>2. todo' = {Detach(t, s) : t \in todo}
    BY DEF DropSession
  <2> QED
    BY <2>1, <2>2 DEF TodoTypes
<1>2. HubTypes'
  <2>1. sessions' = SessionsWithout(s)
          /\ UNCHANGED <<lastWG, rt, acked, gcDone>>
    BY DEF DropSession
  <2>2. sessions' \in [Node -> Sess \cup {None}]
    BY <2>1 DEF Types, HubTypes, SessionsWithout
  <2> QED
    BY <2>1, <2>2 DEF Types, HubTypes
<1>3. ChanTypes' /\ SessVarTypes' /\ DbTypes'
  <2>1. ChanTypes'
    BY DEF Types, ChanTypes, DropSession
  <2>2. SessVarTypes'
    BY DEF Types, SessVarTypes, DropSession
  <2>3. DbTypes'
    BY OwnerIsNode DEF Types, DbTypes, DropSession
  <2> QED
    BY <2>1, <2>2, <2>3
<1>4. ConnTypes' /\ WgTypes' /\ GhostTypes'
  BY AgentStays DEF Types, DropSession, GhostTypes
<1> QED
  BY <1>1, <1>2, <1>3, <1>4 DEF Types

\* The links of a node, seen from their other ends, are withdrawn once each.
LEMMA WithdrawnOnce ==
  ASSUME NEW S \in SUBSET Link, NEW n \in Node, OnePerPair(S), \A l \in S : n \in l.ends
  PROVE  /\ {<<l, Other(l, n)>> : l \in S} \subseteq Link \X Node
         /\ \A x, y \in {<<l, Other(l, n)>> : l \in S} : x[2] = y[2] => x = y
<1>1. \A l \in S : Other(l, n) \in Node /\ l.ends = {n, Other(l, n)}
  BY OtherIsEnd, PairOfEnds
<1>2. \A k, l \in S : Other(k, n) = Other(l, n) => k = l
  BY <1>1 DEF OnePerPair
<1> QED
  BY <1>1, <1>2

\* gcOfflinePeers.
LEMMA GcOfflinePeerTypes ==
  ASSUME Types, OneLiveSession, LinksInv, NEW n \in Node, GcOfflinePeer(n)
  PROVE  Types'
<1>1. LinksOf(n) \in SUBSET Link /\ OnePerPair(LinksOf(n)) /\ \A l \in LinksOf(n) : n \in l.ends
  BY DEF Types, DbTypes, LinksOf, LinksInv, OnePerPair
<1>2. FrameMap(RemoveFrames({<<l, Other(l, n)>> : l \in LinksOf(n)}))
  BY <1>1, WithdrawnOnce, RemoveFramesOk
<1>3. Send(RemoveFrames({<<l, Other(l, n)>> : l \in LinksOf(n)})) /\ inb' = inb
  BY DEF GcOfflinePeer
<1>4. ChanTypes'
  BY <1>2, <1>3, SendType DEF Types, ChanTypes
<1>5. HubTypes'
  BY DEF Types, HubTypes, GcOfflinePeer
<1>6. GhostTypes'
  BY SpendType, EventNames DEF Types, GhostTypes, GcOfflinePeer
<1>7. DbTypes' /\ SessVarTypes' /\ ConnTypes' /\ WgTypes'
  BY DbStays, SessVarsStay, AgentStays DEF Types, GcOfflinePeer
<1>8. TodoTypes'
  BY DEF Types, GcOfflinePeer, TodoTypes
<1> QED
  BY <1>4, <1>5, <1>6, <1>7, <1>8 DEF Types

\* A restart of the hub.
LEMMA HubRestartTypes ==
  ASSUME Types, HubRestart
  PROVE  Types'
<1>1. HubTypes' /\ TodoTypes'
  BY DEF HubTypes, TodoTypes, HubRestart
<1>2. SessVarTypes'
  BY DEF SessVarTypes, HubRestart, Gen
<1>3. ChanTypes'
  BY DEF Types, ChanTypes, HubRestart
<1>4. GhostTypes'
  BY SpendType, EventNames DEF Types, GhostTypes, HubRestart
<1>5. DbTypes' /\ ConnTypes' /\ WgTypes'
  BY DbStays, AgentStays DEF Types, HubRestart
<1> QED
  BY <1>1, <1>2, <1>3, <1>4, <1>5 DEF Types

------------------------------------------------------------------------------
(* Admin requests keep the types                                           *)

\* The next step of a request.
LEMMA ContinueType ==
  ASSUME TodoTypes, NEW t, NEW next, next \subseteq Todo, Continue(t, next)
  PROVE  TodoTypes'
  BY DEF TodoTypes, Continue

\* What the first steps of requests queue.
LEMMA RequestTypes ==
  /\ \A e \in Ends : [op |-> "createLink", ends |-> e] \in Todo
  /\ \A l \in Link : \A o \in {"pushLink", "pushExit", "removeLink"} : [op |-> o, link |-> l] \in Todo
  /\ \A n \in Node : \A S \in SUBSET Link : \A o \in {"deleteTx", "cascade"} :
       [op |-> o, node |-> n, links |-> S] \in Todo
  /\ \A n \in Node : \A s \in Sess \cup {None} : [op |-> "kick", node |-> n, sess |-> s] \in Todo
  /\ \A s \in Sess \cup {None} : [op |-> "close", sess |-> s] \in Todo
  /\ \A n \in Node : [op |-> "forget", node |-> n] \in Todo
  BY DEF Todo

\* What a queued request carries.
LEMMA RequestFields ==
  ASSUME TodoTypes, NEW t \in todo
  PROVE  /\ t.op = "createLink" => t.ends \in Ends
         /\ t.op \in {"pushLink", "pushExit", "removeLink"} => t.link \in Link
         /\ t.op \in {"deleteTx", "cascade"} => t.node \in Node /\ t.links \in SUBSET Link
         /\ t.op \in {"kick", "close"} => t.sess \in Sess \cup {None}
         /\ t.op \in {"kick", "forget"} => t.node \in Node
  BY DEF TodoTypes, Todo

\* The admin's requests up to their first step.
LEMMA FirstStepsTypes ==
  ASSUME Types,
         \/ \E e \in Ends : ApiCreateLink(e)
         \/ \E l \in store : DeleteLink(l) \/ \E e \in Node \cup {None} : SetLinkExit(l, e)
         \/ \E n \in Node : DeleteNode(n)
  PROVE  Types'
<1>1. store \subseteq Link
  BY DEF Types, DbTypes
<1>2. ASSUME NEW e \in Ends, ApiCreateLink(e) PROVE Types'
  <2>1. TodoTypes'
    BY <1>2, RequestTypes DEF Types, TodoTypes, ApiCreateLink
  <2>2. GhostTypes'
    BY <1>2, SpendType, EventNames DEF Types, GhostTypes, ApiCreateLink
  <2> QED
    BY <1>2, <2>1, <2>2, DbStays, HubStays, SessVarsStay, ChanStays, AgentStays
    DEF Types, ApiCreateLink
<1>3. ASSUME NEW l \in store, DeleteLink(l) PROVE Types'
  <2>1. TodoTypes'
    BY <1>1, <1>3, RequestTypes DEF Types, TodoTypes, DeleteLink
  <2>2. GhostTypes' /\ DbTypes'
    BY <1>3, SpendType, EventNames DEF Types, GhostTypes, DbTypes, DeleteLink
  <2> QED
    BY <1>3, <2>1, <2>2, HubStays, SessVarsStay, ChanStays, AgentStays DEF Types, DeleteLink
<1>4. ASSUME NEW l \in store, NEW e \in Node \cup {None}, SetLinkExit(l, e) PROVE Types'
  <2>1. PICK m : m = [l EXCEPT !.exit = e]
    OBVIOUS
  <2>2. m \in Link
    BY <1>1, <2>1 DEF Link
  <2>3. store' = (store \ {l}) \cup {m} /\ todo' = todo \cup {[op |-> "pushExit", link |-> m]}
    BY <1>4, <2>1 DEF SetLinkExit
  <2>4. TodoTypes'
    BY <2>2, <2>3, RequestTypes DEF Types, TodoTypes
  <2>5. GhostTypes' /\ DbTypes'
    BY <1>4, <2>2, <2>3, SpendType, EventNames DEF Types, GhostTypes, DbTypes, SetLinkExit
  <2> QED
    BY <1>4, <2>4, <2>5, HubStays, SessVarsStay, ChanStays, AgentStays DEF Types, SetLinkExit
<1>5. ASSUME NEW n \in Node, DeleteNode(n) PROVE Types'
  <2>1. LinksOf(n) \in SUBSET Link
    BY <1>1 DEF LinksOf
  <2>2. TodoTypes'
    BY <1>5, <2>1, RequestTypes DEF Types, TodoTypes, DeleteNode
  <2>3. GhostTypes'
    BY <1>5, SpendType, EventNames DEF Types, GhostTypes, DeleteNode
  <2> QED
    BY <1>5, <2>2, <2>3, DbStays, HubStays, SessVarsStay, ChanStays, AgentStays
    DEF Types, DeleteNode
<1> QED
  BY <1>2, <1>3, <1>4, <1>5
\* Store.CreateLink.
LEMMA StoreCreateLinkTypes ==
  ASSUME Types, NEW t \in todo, StoreCreateLink(t)
  PROVE  Types'
<1>1. PICK l : l = [id |-> minted + 1, ends |-> t.ends, exit |-> None]
  OBVIOUS
<1>2. l \in Link
  <2>1. t.ends \in Ends /\ minted + 1 \in Nat \ {0}
    BY RequestFields DEF Types, DbTypes, StoreCreateLink
  <2> QED
    BY <1>1, <2>1 DEF Link
<1>3. \/ store' = store /\ minted' = minted /\ Continue(t, {})
      \/ store' = store \cup {l} /\ minted' = minted + 1
           /\ Continue(t, {[op |-> "pushLink", link |-> l]})
  BY <1>1 DEF StoreCreateLink
<1>4. DbTypes'
  BY <1>2, <1>3 DEF Types, DbTypes, StoreCreateLink
<1>5. TodoTypes'
  BY <1>2, <1>3, RequestTypes, ContinueType DEF Types
<1>6. GhostTypes'
  BY DEF Types, GhostTypes, StoreCreateLink
<1>7. HubTypes' /\ SessVarTypes' /\ ChanTypes' /\ ConnTypes' /\ WgTypes'
  BY HubStays, SessVarsStay, ChanStays, AgentStays DEF Types, StoreCreateLink
<1> QED
  BY <1>4, <1>5, <1>6, <1>7 DEF Types

\* pushLink and SetLinkExit under the lock.
LEMMA PushLinkTypes ==
  ASSUME Types, OneLiveSession, NEW t \in todo, PushLink(t)
  PROVE  Types'
<1>1. t.link \in Link
  BY RequestFields DEF Types, PushLink
<1>2. t.link.id \in Nat /\ t.link.ends \subseteq Node
  BY <1>1 DEF Link, Ends
<1>3. ChanTypes'
  <2>1. PICK typ \in {"peer_add", "peer_update"} : Send(PairFrames(t.link, typ))
    BY DEF PushLink
  <2>2. FrameMap(PairFrames(t.link, typ))
    BY <1>1, PairFramesOk
  <2>3. inb' = inb
    BY DEF PushLink
  <2> QED
    BY <2>1, <2>2, <2>3, SendType DEF Types, ChanTypes
<1>4. HubTypes'
  BY <1>2 DEF Types, HubTypes, PairAcks, PushLink
<1>5. GhostTypes'
  BY <1>2 DEF Types, GhostTypes, TornByPush, PushLink
<1>6. TodoTypes'
  BY ContinueType DEF Types, PushLink
<1>7. DbTypes' /\ SessVarTypes' /\ ConnTypes' /\ WgTypes'
  BY DbStays, SessVarsStay, AgentStays DEF Types, PushLink
<1> QED
  BY <1>3, <1>4, <1>5, <1>6, <1>7 DEF Types

\* removeLinkFromPeers.
LEMMA RemoveLinkTypes ==
  ASSUME Types, OneLiveSession, NEW t \in todo, RemoveLink(t)
  PROVE  Types'
<1>1. t.link \in Link
  BY RequestFields DEF Types, RemoveLink
<1>2. t.link.ends \subseteq Node
  BY <1>1 DEF Link, Ends
<1>3. ChanTypes'
  <2>1. PICK E : E = {t.link} \X t.link.ends
    OBVIOUS
  <2>2. E \subseteq Link \X Node /\ \A x, y \in E : x[2] = y[2] => x = y
    BY <1>1, <1>2, <2>1
  <2>3. Send(RemoveFrames(E)) /\ inb' = inb
    BY <2>1 DEF RemoveLink
  <2> QED
    BY <2>2, <2>3, RemoveFramesOk, SendType DEF Types, ChanTypes
<1>4. HubTypes'
  BY DEF Types, HubTypes, ForgetLinks, RemoveLink
<1>5. GhostTypes'
  <2>1. \A y \in store : y.ends \subseteq Node
    BY DEF Types, DbTypes, Link, Ends
  <2>2. PICK S \in SUBSET store : torn' = torn \cup {x.ends : x \in S}
    BY DEF RemoveLink
  <2>3. {x.ends : x \in S} \subseteq SUBSET Node
    BY <2>1
  <2>4. budget' = budget
    BY DEF RemoveLink
  <2> QED
    BY <2>2, <2>3, <2>4 DEF Types, GhostTypes
<1>6. TodoTypes'
  BY ContinueType DEF Types, RemoveLink
<1>7. DbTypes' /\ SessVarTypes' /\ ConnTypes' /\ WgTypes'
  BY DbStays, SessVarsStay, AgentStays DEF Types, RemoveLink
<1> QED
  BY <1>3, <1>4, <1>5, <1>6, <1>7 DEF Types

\* Store.DeleteNode.
LEMMA DeleteNodeTxTypes ==
  ASSUME Types, NEW t \in todo, DeleteNodeTx(t)
  PROVE  Types'
<1>1. t.node \in Node /\ t.links \in SUBSET Link
  BY RequestFields DEF Types, DeleteNodeTx
<1>2. DbTypes'
  BY <1>1 DEF Types, DbTypes, DeleteNodeTx
<1>3. TodoTypes'
  BY <1>1, RequestTypes, ContinueType DEF Types, DeleteNodeTx
<1>4. GhostTypes'
  <2>1. \A y \in store : y.ends \subseteq Node
    BY DEF Types, DbTypes, Link, Ends
  <2> QED
    BY <2>1 DEF Types, GhostTypes, LinksOf, DeleteNodeTx
<1>5. HubTypes' /\ SessVarTypes' /\ ChanTypes' /\ ConnTypes' /\ WgTypes'
  BY HubStays, SessVarsStay, ChanStays, AgentStays DEF Types, DeleteNodeTx
<1> QED
  BY <1>2, <1>3, <1>4, <1>5 DEF Types

\* Hub.DeleteNode, first locked part.
LEMMA DeleteNodeCascadeTypes ==
  ASSUME Types, OneLiveSession, LinksInv, NEW t \in todo, DeleteNodeCascade(t)
  PROVE  Types'
<1>1. t.node \in Node /\ t.links \in SUBSET Link /\ OnePerPair(t.links)
        /\ \A l \in t.links : t.node \in l.ends
  BY RequestFields DEF Types, LinksInv, DeleteNodeCascade
<1>2. ChanTypes'
  <2>1. FrameMap(RemoveFrames({<<l, Other(l, t.node)>> : l \in t.links}))
    BY <1>1, WithdrawnOnce, RemoveFramesOk
  <2>2. Send(RemoveFrames({<<l, Other(l, t.node)>> : l \in t.links})) /\ inb' = inb
    BY DEF DeleteNodeCascade
  <2> QED
    BY <2>1, <2>2, SendType DEF Types, ChanTypes
<1>3. HubTypes'
  BY DEF Types, HubTypes, ForgetLinks, DeleteNodeCascade
<1>4. TodoTypes'
  <2>1. sessions[t.node] \in Sess \cup {None}
    BY <1>1 DEF Types, HubTypes
  <2> QED
    BY <1>1, <2>1, RequestTypes, ContinueType DEF Types, DeleteNodeCascade
<1>5. GhostTypes'
  BY DEF Types, GhostTypes, DeleteNodeCascade
<1>6. DbTypes' /\ SessVarTypes' /\ ConnTypes' /\ WgTypes'
  BY DbStays, SessVarsStay, AgentStays DEF Types, DeleteNodeCascade
<1> QED
  BY <1>2, <1>3, <1>4, <1>5, <1>6 DEF Types

\* The kick frame, the delayed close, and the second locked part.
LEMMA DeleteNodeEndTypes ==
  ASSUME Types, NEW t \in todo, DeleteNodeKick(t) \/ KickClose(t) \/ DeleteNodeForget(t)
  PROVE  Types'
<1>1. CASE DeleteNodeKick(t)
  <2> DEFINE to == {t.sess} \ {None}
             fr == [s \in to |-> [type |-> "kick"]]
             next == {[op |-> "forget", node |-> t.node]} \cup {[op |-> "close", sess |-> s] : s \in to}
  <2>1. t.node \in Node /\ to \subseteq Sess
    BY <1>1, RequestFields DEF Types, DeleteNodeKick
  <2>2. FrameMap(fr)
    BY FramesAreFrames DEF FrameMap
  <2>3. Send(fr) /\ inb' = inb /\ Continue(t, next)
    BY <1>1 DEF DeleteNodeKick
  <2>4. ChanTypes'
    BY <2>2, <2>3, SendType DEF Types, ChanTypes
  <2>5. next \subseteq Todo
    BY <2>1, RequestTypes
  <2>6. TodoTypes'
    BY <2>3, <2>5, ContinueType DEF Types
  <2>7. GhostTypes'
    BY <1>1 DEF Types, GhostTypes, DeleteNodeKick
  <2> QED
    BY <1>1, <2>4, <2>6, <2>7, DbStays, HubStays, SessVarsStay, AgentStays
    DEF Types, DeleteNodeKick
<1>2. CASE KickClose(t)
  <2>1. ChanTypes'
    BY <1>2 DEF Types, ChanTypes, KickClose
  <2>2. TodoTypes'
    BY <1>2, ContinueType DEF Types, KickClose
  <2>3. GhostTypes'
    BY <1>2 DEF Types, GhostTypes, KickClose
  <2> QED
    BY <1>2, <2>1, <2>2, <2>3, DbStays, HubStays, SessVarsStay, AgentStays DEF Types, KickClose
<1>3. CASE DeleteNodeForget(t)
  <2>1. HubTypes'
    BY <1>3 DEF Types, HubTypes, DeleteNodeForget
  <2>2. TodoTypes'
    BY <1>3, ContinueType DEF Types, DeleteNodeForget
  <2>3. GhostTypes'
    <3>1. Withdrawn \subseteq Link
      BY DEF Types, DbTypes, TodoTypes, Todo, Withdrawn
    <3>2. \A x \in Link : x.ends \subseteq Node
      BY DEF Link, Ends
    <3>3. PICK S : S = {x \in Withdrawn : t.node \in x.ends}
      OBVIOUS
    <3>4. torn' = torn \cup {x.ends : x \in S} /\ budget' = budget
      BY <1>3, <3>3 DEF DeleteNodeForget
    <3> QED
      BY <3>1, <3>2, <3>3, <3>4 DEF Types, GhostTypes
  <2> QED
    BY <1>3, <2>1, <2>2, <2>3, DbStays, ChanStays, SessVarsStay, AgentStays
    DEF Types, DeleteNodeForget
<1> QED
  BY <1>1, <1>2, <1>3

\* RotateWG.
LEMMA RotateWGTypes ==
  ASSUME Types, NEW n \in Node, RotateWG(n)
  PROVE  Types'
<1>1. ChanTypes'
  <2> DEFINE fr == [s \in {sessions[n]} |-> [type |-> "rotate_wg"]]
  <2>1. FrameMap(fr)
    BY FramesAreFrames DEF FrameMap
  <2>2. Send(fr) /\ inb' = inb
    BY DEF RotateWG
  <2> QED
    BY <2>1, <2>2, SendType DEF Types, ChanTypes
<1>2. GhostTypes'
  BY SpendType, EventNames DEF Types, GhostTypes, RotateWG
<1>3. TodoTypes'
  BY DEF Types, TodoTypes, RotateWG
<1> QED
  BY <1>1, <1>2, <1>3, DbStays, HubStays, SessVarsStay, AgentStays DEF Types, RotateWG
------------------------------------------------------------------------------
(* The agents' steps keep the types                                        *)

\* The kernel device's operations.
LEMMA DeviceTypes ==
  ASSUME NEW d \in Device, NEW sp \in PeerSpec, NEW k \in Key
  PROVE  /\ AddPeer(d, sp) \in Device
         /\ RemovePeer(d, k) \in Device
         /\ UpdatePeer(d, sp) \in Device
<1>1. \A e \in Device : AddPeer(e, sp) \in Device
  BY DEF AddPeer, Device, PeerSpec, Key
<1>2. \A e \in Device : \A j \in Key : RemovePeer(e, j) \in Device
  BY DEF RemovePeer, Device, Key
<1>3. d.keys[sp.peer] \in Gen \cup {None} /\ sp.peer \in Node
  BY DEF Device, PeerSpec
<1>4. UpdatePeer(d, sp) \in Device
  <2>1. PICK old \in Gen \cup {None} : old = d.keys[sp.peer]
    BY <1>3
  <2>2. CASE old \notin {None, sp.gen}
    <3>1. <<sp.peer, old>> \in Key
      BY <1>3, <2>1, <2>2 DEF Key
    <3>2. PICK e \in Device : e = RemovePeer(d, <<sp.peer, old>>)
      BY <1>2, <3>1
    <3>3. UpdatePeer(d, sp) = AddPeer(e, sp)
      BY <2>1, <2>2, <3>2 DEF UpdatePeer
    <3> QED
      BY <1>1, <3>2, <3>3
  <2>3. CASE old \in {None, sp.gen}
    BY <1>1, <2>1, <2>3 DEF UpdatePeer
  <2> QED
    BY <2>2, <2>3
<1> QED
  BY <1>1, <1>2, <1>4

\* An empty device and a reconciled one.
LEMMA ReconcileType ==
  /\ NoPeers \in Device
  /\ \A S \in SUBSET PeerSpec : Reconcile(S) \in Device
<1>1. NoPeers \in Device
  BY DEF NoPeers, Device
<1>2. ASSUME NEW S \in SUBSET PeerSpec PROVE Reconcile(S) \in Device
  <2>1. {<<sp.peer, sp.gen>> : sp \in S} \subseteq Key
    BY DEF PeerSpec, Key
  <2>2. ASSUME NEW p \in Node
        PROVE  (IF \E sp \in S : sp.peer = p THEN (CHOOSE sp \in S : sp.peer = p).gen
                ELSE None) \in Gen \cup {None}
    <3>1. CASE \E sp \in S : sp.peer = p
      <4>1. PICK c : c = CHOOSE sp \in S : sp.peer = p
        OBVIOUS
      <4>2. c \in PeerSpec
        BY <3>1, <4>1
      <4> QED
        BY <3>1, <4>1, <4>2 DEF PeerSpec
    <3>2. CASE ~ \E sp \in S : sp.peer = p
      BY <3>2
    <3> QED
      BY <3>1, <3>2
  <2> QED
    BY <2>1, <2>2 DEF Reconcile, Device
<1> QED
  BY <1>1, <1>2

\* The exit controller.
LEMMA SetExitsType ==
  ASSUME NEW n \in Node, NEW ex \in SUBSET (Nat \X Node), SetExits(n, ex),
         exits \in [Node -> SUBSET (Nat \X Node)], upstream \in [Node -> Node \cup {None}]
  PROVE  exits' \in [Node -> SUBSET (Nat \X Node)] /\ upstream' \in [Node -> Node \cup {None}]
<1>1. CASE n \in SocksNode
  <2>1. Upstreams(ex) \subseteq Node \cup {None}
    BY DEF Upstreams
  <2>2. exits' = [exits EXCEPT ![n] = ex]
    BY <1>1 DEF SetExits
  <2>3. PICK u \in Upstreams(ex) : upstream' = [upstream EXCEPT ![n] = u]
    BY <1>1 DEF SetExits
  <2> QED
    BY <2>1, <2>2, <2>3
<1>2. CASE n \notin SocksNode
  BY <1>2 DEF SetExits
<1> QED
  BY <1>1, <1>2

\* The frame in front of an agent.
LEMMA FrameType ==
  ASSUME Types, NEW n \in Node, HasFrame(n)
  PROVE  /\ conn[n] \in Sess /\ Frame(n) \in ToAgent /\ Tail(out[conn[n]]) \in Seq(ToAgent)
         /\ Frame(n).type = "register_ack" => Frame(n).peers \in SUBSET PeerSpec
         /\ Frame(n).type \in {"peer_add", "peer_update"} => Frame(n).spec \in PeerSpec
         /\ Frame(n).type = "peer_remove" => Frame(n).link \in Nat /\ Frame(n).wg \in Key
<1>1. conn[n] \in Sess
  BY DEF HasFrame, Types, ConnTypes
<1>2. PICK q \in Seq(ToAgent) : q = out[conn[n]] /\ q # <<>>
  BY <1>1 DEF HasFrame, Types, ChanTypes
<1>3. Head(q) \in ToAgent /\ Tail(q) \in Seq(ToAgent)
  BY <1>2
<1>4. PICK f \in ToAgent : f = Frame(n)
  BY <1>2, <1>3 DEF Frame
<1>5. /\ f.type = "register_ack" => f.peers \in SUBSET PeerSpec
      /\ f.type \in {"peer_add", "peer_update"} => f.spec \in PeerSpec
      /\ f.type = "peer_remove" => f.link \in Nat /\ f.wg \in Key
  BY DEF ToAgent
<1> QED
  BY <1>1, <1>2, <1>3, <1>4, <1>5

\* Leaving a connection.
LEMMA HangupTypes ==
  ASSUME Types, NEW n \in Node, NEW ph \in {"down", "gone"}, conn[n] \in Sess, Hangup(n, ph)
  PROVE  ConnTypes' /\ out' \in [Sess -> Seq(ToAgent)]
<1>1. ConnTypes'
  BY DEF Types, ConnTypes, Hangup
<1>2. out' \in [Sess -> Seq(ToAgent)]
  BY DEF Types, ChanTypes, Hangup
<1> QED
  BY <1>1, <1>2

\* Answering a frame.
LEMMA ConsumeTypes ==
  ASSUME Types, NEW n \in Node, HasFrame(n), NEW id \in Nat, NEW ok \in BOOLEAN,
         Consume(n, id, ok), hubSt' = hubSt
  PROVE  ConnTypes' /\ ChanTypes'
<1>1. PICK c \in Sess : c = conn[n] /\ Tail(out[c]) \in Seq(ToAgent)
  BY FrameType
<1>2. PICK a \in ToHub : a = [type |-> "ack", link |-> id, ok |-> ok]
  BY DEF ToHub
<1>3. out' = [out EXCEPT ![c] = Tail(@)]
  BY <1>1 DEF Consume
<1>4. inb' = [inb EXCEPT ![c] = IF hubSt[c] = "open" THEN Append(@, a) ELSE @]
  BY <1>1, <1>2 DEF Consume
<1>5. ChanTypes'
  BY <1>1, <1>2, <1>3, <1>4 DEF Types, ChanTypes
<1>6. ConnTypes'
  BY DEF Types, ConnTypes, Consume
<1> QED
  BY <1>5, <1>6
\* session: dial and register.
LEMMA ConnectTypes ==
  ASSUME Types, NEW n \in Node, NEW s \in Sess, Connect(n, s)
  PROVE  Types'
<1>1. ConnTypes'
  BY DEF Types, ConnTypes, Connect
<1>2. ChanTypes'
  <2>1. PICK r \in ToHub : r = [type |-> "register", gen |-> key[n]]
    BY DEF Types, WgTypes, ToHub
  <2>2. PICK e \in ToAgent : e = [type |-> "error"]
    BY FramesAreFrames
  <2>3. \/ out' = [out EXCEPT ![s] = <<e>>] /\ hubSt' = hubSt /\ inb' = inb
        \/ out' = out /\ hubSt' = [hubSt EXCEPT ![s] = "checked"] /\ inb' = [inb EXCEPT ![s] = <<r>>]
    BY <2>1, <2>2 DEF Connect, HandleConn
  <2>4. <<e>> \in Seq(ToAgent) /\ <<r>> \in Seq(ToHub)
    BY <2>1, <2>2
  <2>5. CASE out' = [out EXCEPT ![s] = <<e>>] /\ hubSt' = hubSt /\ inb' = inb
    BY <2>4, <2>5 DEF Types, ChanTypes
  <2>6. CASE out' = out /\ hubSt' = [hubSt EXCEPT ![s] = "checked"]
               /\ inb' = [inb EXCEPT ![s] = <<r>>]
    BY <2>4, <2>6 DEF Types, ChanTypes
  <2> QED
    BY <2>3, <2>5, <2>6
<1>3. GhostTypes'
  BY SpendType, EventNames DEF Types, GhostTypes, Connect
<1>4. TodoTypes'
  BY DEF Types, TodoTypes, Connect
<1> QED
  BY <1>1, <1>2, <1>3, <1>4, DbStays, HubStays, SessVarsStay, WgStays DEF Types, Connect

\* A connection that is lost.
LEMMA LoseConnTypes ==
  ASSUME Types, NEW n \in Node, LoseConn(n)
  PROVE  Types'
<1>1. conn[n] \in Sess
  BY DEF Types, ConnTypes, LoseConn
<1>2. Hangup(n, "down") /\ hubSt' = hubSt /\ inb' = inb
  BY DEF LoseConn
<1>3. ConnTypes' /\ ChanTypes'
  BY <1>1, <1>2, HangupTypes DEF Types, ChanTypes
<1>4. GhostTypes'
  BY SpendType, EventNames DEF Types, GhostTypes, LoseConn
<1>5. TodoTypes'
  BY DEF Types, TodoTypes, LoseConn
<1> QED
  BY <1>3, <1>4, <1>5, DbStays, HubStays, SessVarsStay, WgStays DEF Types, LoseConn

\* register, when it succeeds.
LEMMA RegisterAckTypes ==
  ASSUME Types, NEW n \in Node, RegisterAck(n)
  PROVE  Types'
<1>1. HasFrame(n) /\ Frame(n).type = "register_ack"
  BY DEF RegisterAck
<1>2. PICK S \in SUBSET PeerSpec : S = Frame(n).peers
  BY <1>1, FrameType
<1>3. conn[n] \in Sess /\ Tail(out[conn[n]]) \in Seq(ToAgent)
  BY <1>1, FrameType
<1>4. PICK ex : ex = {<<sp.link, sp.peer>> : sp \in {x \in S : x.exit}}
  OBVIOUS
<1>5. ex \in SUBSET (Nat \X Node)
  BY <1>4 DEF PeerSpec
<1>6. /\ phase' = [phase EXCEPT ![n] = "up"] /\ conn' = conn
      /\ out' = [out EXCEPT ![conn[n]] = Tail(@)] /\ hubSt' = hubSt /\ inb' = inb
      /\ dev' = [dev EXCEPT ![n] = Reconcile(S)] /\ key' = key
      /\ SetExits(n, ex)
  BY <1>2, <1>4 DEF RegisterAck
<1>7. ConnTypes'
  BY <1>6 DEF Types, ConnTypes
<1>8. ChanTypes'
  BY <1>3, <1>6 DEF Types, ChanTypes
<1>9. dev' \in [Node -> Device]
  BY <1>2, <1>6, ReconcileType DEF Types, WgTypes
<1>10. WgTypes'
  BY <1>5, <1>6, <1>9, SetExitsType DEF Types, WgTypes
<1>11. GhostTypes' /\ TodoTypes'
  BY DEF Types, GhostTypes, TodoTypes, RegisterAck
<1> QED
  BY <1>7, <1>8, <1>10, <1>11, DbStays, HubStays, SessVarsStay DEF Types, RegisterAck

\* register, when it fails.
LEMMA RegisterFailsTypes ==
  ASSUME Types, NEW n \in Node, RegisterFails(n)
  PROVE  Types'
<1>1. conn[n] \in Sess
  BY FrameType DEF RegisterFails
<1>2. Hangup(n, "down") /\ hubSt' = hubSt /\ inb' = inb
  BY DEF RegisterFails
<1>3. ConnTypes' /\ ChanTypes'
  BY <1>1, <1>2, HangupTypes DEF Types, ChanTypes
<1>4. GhostTypes'
  BY SpendType, EventNames DEF Types, GhostTypes, RegisterFails
<1>5. TodoTypes'
  BY DEF Types, TodoTypes, RegisterFails
<1> QED
  BY <1>3, <1>4, <1>5, DbStays, HubStays, SessVarsStay, WgStays DEF Types, RegisterFails

\* peer_add and peer_update.
LEMMA ApplyPeerTypes ==
  ASSUME Types, NEW n \in Node, ApplyPeer(n)
  PROVE  Types'
<1>1. HasFrame(n) /\ Frame(n).type \in {"peer_add", "peer_update"}
  BY DEF ApplyPeer
<1>2. PICK sp \in PeerSpec : sp = Frame(n).spec
  BY <1>1, FrameType
<1>3. sp.link \in Nat /\ sp.peer \in Node
  BY DEF PeerSpec
<1>4. PICK ex : ex = WithoutExit(n, sp.link) \cup IF sp.exit THEN {<<sp.link, sp.peer>>} ELSE {}
  OBVIOUS
<1>5. exits[n] \in SUBSET (Nat \X Node)
  BY DEF Types, WgTypes
<1>6. ex \in SUBSET (Nat \X Node)
  BY <1>3, <1>4, <1>5 DEF WithoutExit
<1>7. PICK d \in Device : d = dev[n]
  BY DEF Types, WgTypes
<1>8. SetExits(n, ex) /\ Consume(n, sp.link, TRUE) /\ hubSt' = hubSt /\ key' = key
  BY <1>2, <1>4 DEF ApplyPeer
<1>9. PICK new \in Device : dev' = [dev EXCEPT ![n] = new]
  <2>1. \E new \in {AddPeer(d, sp), UpdatePeer(d, sp)} : dev' = [dev EXCEPT ![n] = new]
    BY <1>2, <1>7 DEF ApplyPeer
  <2>2. AddPeer(d, sp) \in Device /\ UpdatePeer(d, sp) \in Device
    <3>1. <<sp.peer, 0>> \in Key
      BY <1>3 DEF Key, Gen
    <3> QED
      BY <3>1, DeviceTypes
  <2> QED
    BY <2>1, <2>2
<1>10. WgTypes'
  BY <1>6, <1>8, <1>9, SetExitsType DEF Types, WgTypes
<1>11. ConnTypes' /\ ChanTypes'
  BY <1>1, <1>3, <1>8, ConsumeTypes
<1>12. GhostTypes' /\ TodoTypes'
  BY DEF Types, GhostTypes, TodoTypes, ApplyPeer
<1> QED
  BY <1>10, <1>11, <1>12, DbStays, HubStays, SessVarsStay DEF Types, ApplyPeer
\* A peer that is refused.
LEMMA ApplyPeerFailsTypes ==
  ASSUME Types, NEW n \in Node, ApplyPeerFails(n)
  PROVE  Types'
<1>1. HasFrame(n) /\ Frame(n).type \in {"peer_add", "peer_update"}
  BY DEF ApplyPeerFails
<1>2. PICK sp \in PeerSpec : sp = Frame(n).spec
  BY <1>1, FrameType
<1>3. sp.link \in Nat /\ sp.peer \in Node
  BY DEF PeerSpec
<1>4. PICK d \in Device : d = dev[n]
  BY DEF Types, WgTypes
<1>5. PICK old \in Gen \cup {None} : old = d.keys[sp.peer]
  BY <1>3 DEF Device
<1>6. PICK dropped : dropped = IF Frame(n).type = "peer_update" /\ old \notin {None, sp.gen}
                                 THEN RemovePeer(d, <<sp.peer, old>>) ELSE d
  OBVIOUS
<1>7. dropped \in Device
  <2>1. CASE old = None
    BY <1>6, <2>1
  <2>2. CASE old # None
    <3>1. <<sp.peer, old>> \in Key
      BY <1>3, <2>2 DEF Key
    <3>2. RemovePeer(d, <<sp.peer, old>>) \in Device
      BY <3>1, DeviceTypes
    <3> QED
      BY <1>6, <3>2
  <2> QED
    BY <2>1, <2>2
<1>8. /\ dev' = [dev EXCEPT ![n] = dropped]
           \/ \E e \in {d, dropped} : dev' = [dev EXCEPT ![n] = e]
      /\ UNCHANGED budget \/ Spend("wgfail")
      /\ Consume(n, sp.link, FALSE) /\ torn' = torn \cup {{n, sp.peer}}
      /\ UNCHANGED <<hubSt, key, exits, upstream>>
  BY <1>2, <1>4, <1>5, <1>6 DEF ApplyPeerFails
<1>9. WgTypes'
  BY <1>7, <1>8 DEF Types, WgTypes
<1>10. ConnTypes' /\ ChanTypes'
  BY <1>1, <1>3, <1>8, ConsumeTypes
<1>11. GhostTypes'
  BY <1>3, <1>8, SpendType, EventNames DEF Types, GhostTypes
<1>12. TodoTypes'
  BY DEF Types, TodoTypes, ApplyPeerFails
<1> QED
  BY <1>9, <1>10, <1>11, <1>12, DbStays, HubStays, SessVarsStay DEF Types, ApplyPeerFails

\* peer_remove.
LEMMA ApplyRemoveTypes ==
  ASSUME Types, NEW n \in Node, ApplyRemove(n)
  PROVE  Types'
<1>1. HasFrame(n) /\ Frame(n).type = "peer_remove"
  BY DEF ApplyRemove
<1>2. PICK k \in Key : k = Frame(n).wg
  BY <1>1, FrameType
<1>3. k[1] \in Node
  BY DEF Key
<1>4. PICK d \in Device : d = dev[n]
  BY DEF Types, WgTypes
<1>5. PICK new : new = RemovePeer(d, k)
  OBVIOUS
<1>6. new \in Device
  <2>1. PICK p \in Node, g \in Gen : k = <<p, g>>
    BY DEF Key
  <2> QED
    BY <1>5 DEF RemovePeer, Device, Key
<1>7. \/ dev' = [dev EXCEPT ![n] = new] /\ Consume(n, NoLink, TRUE) /\ UNCHANGED <<budget, torn>>
      \/ dev' = dev /\ Consume(n, NoLink, FALSE) /\ Spend("wgfail") /\ torn' = torn \cup {{n, k[1]}}
  BY <1>2, <1>4, <1>5 DEF ApplyRemove
<1>8. dev' \in [Node -> Device] /\ GhostTypes'
  <2>1. dev' \in [Node -> Device]
    BY <1>6, <1>7 DEF Types, WgTypes
  <2>2. budget' \in [Event -> Nat \cup {None}]
    <3>1. Spend("wgfail") \/ budget' = budget
      BY <1>7
    <3> QED
      BY <3>1, SpendType, EventNames DEF Types, GhostTypes
  <2>3. torn' \subseteq torn \cup {{n, k[1]}}
    BY <1>7
  <2> QED
    BY <1>3, <2>1, <2>2, <2>3 DEF Types, GhostTypes
<1>9. exits' \in [Node -> SUBSET (Nat \X Node)] /\ upstream' \in [Node -> Node \cup {None}]
  <2>1. PICK ex : ex = WithoutExit(n, Frame(n).link)
    OBVIOUS
  <2>2. ex \in SUBSET (Nat \X Node)
    BY <2>1 DEF WithoutExit, Types, WgTypes
  <2>3. SetExits(n, ex) \/ UNCHANGED <<exits, upstream>>
    BY <2>1 DEF ApplyRemove
  <2> QED
    BY <2>2, <2>3, SetExitsType DEF Types, WgTypes
<1>10. key' = key /\ hubSt' = hubSt
  BY DEF ApplyRemove
<1>11. ConnTypes' /\ ChanTypes'
  <2>1. NoLink \in Nat
    BY DEF NoLink
  <2> QED
    BY <1>1, <1>7, <1>10, <2>1, ConsumeTypes
<1>12. WgTypes'
  BY <1>8, <1>9, <1>10 DEF Types, WgTypes
<1>13. TodoTypes'
  BY DEF Types, TodoTypes, ApplyRemove
<1> QED
  BY <1>8, <1>11, <1>12, <1>13, DbStays, HubStays, SessVarsStay DEF Types, ApplyRemove

\* rotate_wg, kick and a restart of the agent.
LEMMA ResetTypes ==
  ASSUME Types, NEW n \in Node, ApplyRotate(n) \/ ApplyKick(n) \/ AgentRestart(n)
  PROVE  Types'
<1>1. NoPeers \in Device
  BY ReconcileType
<1>2. WgTypes'
  <2>1. /\ key' = key \/ key' = [key EXCEPT ![n] = @ + 1]
        /\ dev' = [dev EXCEPT ![n] = NoPeers]
    BY DEF ApplyRotate, ApplyKick, AgentRestart
  <2>2. \/ UNCHANGED <<exits, upstream>>
        \/ exits' = [exits EXCEPT ![n] = {}] /\ upstream' = [upstream EXCEPT ![n] = None]
    BY DEF ApplyRotate, ApplyKick, AgentRestart
  <2>3. key' \in [Node -> Gen]
    BY <2>1 DEF Types, WgTypes, Gen
  <2>4. dev' \in [Node -> Device]
    BY <1>1, <2>1 DEF Types, WgTypes
  <2> QED
    BY <2>2, <2>3, <2>4 DEF Types, WgTypes
<1>3. ConnTypes' /\ ChanTypes'
  <2>1. CASE ApplyRotate(n)
    <3>1. conn[n] \in Sess /\ Hangup(n, "down") /\ hubSt' = hubSt /\ inb' = inb
      BY <2>1, FrameType DEF ApplyRotate
    <3> QED
      BY <3>1, HangupTypes DEF Types, ChanTypes
  <2>2. CASE ApplyKick(n)
    <3>1. conn[n] \in Sess /\ Hangup(n, "gone") /\ hubSt' = hubSt /\ inb' = inb
      BY <2>2, FrameType DEF ApplyKick
    <3> QED
      BY <3>1, HangupTypes DEF Types, ChanTypes
  <2>3. CASE AgentRestart(n)
    <3>1. ConnTypes'
      BY <2>3 DEF Types, ConnTypes, AgentRestart
    <3>2. ChanTypes'
      BY <2>3 DEF Types, ChanTypes, AgentRestart
    <3> QED
      BY <3>1, <3>2
  <2> QED
    BY <2>1, <2>2, <2>3
<1>4. GhostTypes'
  BY SpendType, EventNames DEF Types, GhostTypes, ApplyRotate, ApplyKick, AgentRestart
<1>5. TodoTypes'
  BY DEF Types, TodoTypes, ApplyRotate, ApplyKick, AgentRestart
<1> QED
  BY <1>2, <1>3, <1>4, <1>5, DbStays, HubStays, SessVarsStay
  DEF Types, ApplyRotate, ApplyKick, AgentRestart

------------------------------------------------------------------------------
(* The type invariant                                                      *)

\* Rows and requests change in a few steps only.
LEMMA LinksStay == LinksInv /\ UNCHANGED <<store, todo, revokedDB>> => LinksInv'
  BY DEF LinksInv

\* Queueing a request that names no node.
LEMMA PlainRequest ==
  ASSUME NEW t, t.op \in {"createLink", "pushLink", "pushExit", "removeLink"},
         LinksInv, todo' \subseteq todo \cup {t}, revokedDB' = revokedDB, OnePerPair(store)'
  PROVE  LinksInv'
  BY DEF LinksInv
\* Continuing a request without a new one.
LEMMA RequestEnds ==
  ASSUME NEW t, Continue(t, {}), LinksInv, OnePerPair(store)', revokedDB' = revokedDB
  PROVE  LinksInv'
  BY DEF LinksInv, Continue

\* The pairs stay unique, and requests carry what they need.
LEMMA LinksStep ==
  ASSUME Types, LinksInv, [Next]_vars
  PROVE  LinksInv'
<1>1. ASSUME NEW s \in Sess, SessionStep(s) \/ CloseConn(s) PROVE LinksInv'
  <2>1. CASE DropSession(s)
    <3>1. store' = store /\ revokedDB' = revokedDB /\ todo' = {Detach(t, s) : t \in todo}
      BY <2>1 DEF DropSession
    <3>2. ASSUME NEW t \in todo
          PROVE  /\ Detach(t, s).op = t.op
                 /\ t.op \in {"deleteTx", "cascade", "kick", "forget"} => Detach(t, s).node = t.node
                 /\ t.op \in {"deleteTx", "cascade"} => Detach(t, s).links = t.links
      <4>1. t \in Todo
        BY DEF Types, TodoTypes
      <4>2. CASE t.op \in {"kick", "close"} /\ t.sess = s
        BY <4>1, <4>2 DEF Detach, Todo
      <4>3. CASE ~(t.op \in {"kick", "close"} /\ t.sess = s)
        BY <4>3 DEF Detach
      <4> QED
        BY <4>2, <4>3
    <3> QED
      BY <3>1, <3>2 DEF LinksInv
  <2>2. CASE ~DropSession(s)
    <3>1. UNCHANGED <<store, todo, revokedDB>>
      BY <1>1, <2>2 DEF SessionStep, RunSession, ReadRegister, HandleRegister,
           SendRegisterAck, HandleAck, CloseConn, dbVars
    <3> QED
      BY <3>1, LinksStay
  <2> QED
    BY <2>1, <2>2
<1>2. ASSUME NEW t \in todo, RequestStep(t) PROVE LinksInv'
  <2>1. CASE StoreCreateLink(t)
    <3>1. PICK l : l = [id |-> minted + 1, ends |-> t.ends, exit |-> None]
      OBVIOUS
    <3>2. \/ store' = store /\ Continue(t, {})
          \/ /\ \A x \in store : x.ends # t.ends
             /\ store' = store \cup {l} /\ Continue(t, {[op |-> "pushLink", link |-> l]})
      BY <2>1, <3>1 DEF StoreCreateLink
    <3>3. OnePerPair(store)'
      BY <3>1, <3>2 DEF LinksInv, OnePerPair
    <3>4. revokedDB' = revokedDB
      BY <2>1 DEF StoreCreateLink
    <3> QED
      BY <3>2, <3>3, <3>4, RequestEnds, PlainRequest DEF Continue
  <2>2. CASE PushLink(t) \/ RemoveLink(t)
    <3>1. store' = store /\ revokedDB' = revokedDB /\ Continue(t, {})
      BY <2>2 DEF PushLink, RemoveLink, dbVars
    <3> QED
      BY <3>1, RequestEnds DEF LinksInv
  <2>3. CASE DeleteNodeTx(t)
    <3>1. PICK u : u = [op |-> "cascade", node |-> t.node, links |-> t.links]
      OBVIOUS
    <3>2. /\ t.op = "deleteTx" /\ store' \subseteq store
          /\ revokedDB' = revokedDB \cup {t.node} /\ todo' = (todo \ {t}) \cup {u}
      BY <2>3, <3>1 DEF DeleteNodeTx, Continue
    <3>3. OnePerPair(store)'
      BY <3>2 DEF LinksInv, OnePerPair
    <3>4. OnePerPair(t.links) /\ \A l \in t.links : t.node \in l.ends
      BY <3>2 DEF LinksInv
    <3>5. u.op = "cascade" /\ u.node = t.node /\ u.links = t.links
      BY <3>1
    <3> QED
      BY <3>2, <3>3, <3>4, <3>5 DEF LinksInv
  <2>4. CASE DeleteNodeCascade(t)
    <3>1. PICK u : u = [op |-> "kick", node |-> t.node, sess |-> sessions[t.node]]
      OBVIOUS
    <3>2. /\ t.op = "cascade" /\ store' = store
          /\ revokedDB' = revokedDB /\ todo' = (todo \ {t}) \cup {u}
      BY <2>4, <3>1 DEF DeleteNodeCascade, Continue, dbVars
    <3>3. u.op = "kick" /\ u.node = t.node
      BY <3>1
    <3> QED
      BY <3>2, <3>3 DEF LinksInv
  <2>5. CASE DeleteNodeKick(t)
    <3>1. PICK u : u = [op |-> "forget", node |-> t.node]
      OBVIOUS
    <3>2. PICK C : C = {[op |-> "close", sess |-> s] : s \in {t.sess} \ {None}}
      OBVIOUS
    <3>3. /\ t.op = "kick" /\ store' = store /\ revokedDB' = revokedDB
          /\ todo' = (todo \ {t}) \cup ({u} \cup C)
      BY <2>5, <3>1, <3>2 DEF DeleteNodeKick, Continue, dbVars
    <3>4. u.op = "forget" /\ u.node = t.node /\ \A c \in C : c.op = "close"
      BY <3>1, <3>2
    <3> QED
      BY <3>3, <3>4 DEF LinksInv
  <2>6. CASE KickClose(t) \/ DeleteNodeForget(t)
    <3>1. store' = store /\ revokedDB' = revokedDB /\ Continue(t, {})
      BY <2>6 DEF KickClose, DeleteNodeForget, dbVars
    <3> QED
      BY <3>1, RequestEnds DEF LinksInv
  <2> QED
    BY <1>2, <2>1, <2>2, <2>3, <2>4, <2>5, <2>6 DEF RequestStep
<1>3. ASSUME NEW n \in Node, AgentStep(n) \/ LoseConn(n) \/ RegisterFails(n) PROVE LinksInv'
  <2>1. UNCHANGED <<store, todo, revokedDB>>
    BY <1>3 DEF AgentStep, Connect, RegisterAck, ApplyPeer, ApplyRemove, ApplyRotate, ApplyKick,
                LoseConn, RegisterFails, dbVars
  <2> QED
    BY <2>1, LinksStay
<1>4. ASSUME AdminStep PROVE LinksInv'
  <2>1. ASSUME NEW e \in Ends, ApiCreateLink(e) PROVE LinksInv'
    <3>1. PICK t : t = [op |-> "createLink", ends |-> e]
      OBVIOUS
    <3>2. todo' = todo \cup {t} /\ store' = store /\ revokedDB' = revokedDB
      BY <2>1, <3>1 DEF ApiCreateLink, dbVars
    <3> QED
      BY <3>1, <3>2, PlainRequest DEF LinksInv
  <2>2. ASSUME NEW l \in store, DeleteLink(l) PROVE LinksInv'
    <3>1. PICK t : t = [op |-> "removeLink", link |-> l]
      OBVIOUS
    <3>2. todo' = todo \cup {t} /\ store' \subseteq store /\ revokedDB' = revokedDB
      BY <2>2, <3>1 DEF DeleteLink
    <3>3. OnePerPair(store)'
      BY <3>2 DEF LinksInv, OnePerPair
    <3> QED
      BY <3>1, <3>2, <3>3, PlainRequest
  <2>3. ASSUME NEW l \in store, NEW e \in Node \cup {None}, SetLinkExit(l, e) PROVE LinksInv'
    <3>1. PICK m : m = [l EXCEPT !.exit = e]
      OBVIOUS
    <3>2. PICK t : t = [op |-> "pushExit", link |-> m]
      OBVIOUS
    <3>3. todo' = todo \cup {t} /\ store' = (store \ {l}) \cup {m} /\ revokedDB' = revokedDB
      BY <2>3, <3>1, <3>2 DEF SetLinkExit
    <3>4. m.ends = l.ends
      BY <3>1 DEF Types, DbTypes, Link
    <3>5. OnePerPair(store)'
      BY <3>3, <3>4 DEF LinksInv, OnePerPair
    <3> QED
      BY <3>2, <3>3, <3>5, PlainRequest
  <2>4. ASSUME NEW n \in Node, RotateWG(n) PROVE LinksInv'
    BY <2>4, LinksStay DEF RotateWG, dbVars
  <2>5. ASSUME NEW n \in Node, DeleteNode(n) PROVE LinksInv'
    <3>1. PICK t : t = [op |-> "deleteTx", node |-> n, links |-> LinksOf(n)]
      OBVIOUS
    <3>2. todo' = todo \cup {t} /\ store' = store /\ revokedDB' = revokedDB
      BY <2>5, <3>1 DEF DeleteNode, dbVars
    <3>3. OnePerPair(LinksOf(n)) /\ \A l \in LinksOf(n) : n \in l.ends
      BY DEF LinksInv, OnePerPair, LinksOf
    <3>4. t.op = "deleteTx" /\ t.node = n /\ t.links = LinksOf(n)
      BY <3>1
    <3> QED
      BY <3>2, <3>3, <3>4 DEF LinksInv
  <2> QED
    BY <1>4, <2>1, <2>2, <2>3, <2>4, <2>5 DEF AdminStep
<1>5. ASSUME Fault PROVE LinksInv'
  <2>1. CASE HubRestart
    <3>1. store' = store /\ todo' = {}
      BY <2>1 DEF HubRestart, dbVars
    <3> QED
      BY <3>1 DEF LinksInv
  <2>2. ASSUME NEW n \in Node, AgentRestart(n) \/ GcOfflinePeer(n) \/ ApplyPeerFails(n)
        PROVE  LinksInv'
    BY <2>2, LinksStay DEF AgentRestart, GcOfflinePeer, ApplyPeerFails, dbVars
  <2> QED
    BY <1>5, <2>1, <2>2 DEF Fault
<1>6. CASE UNCHANGED vars
  BY <1>6, LinksStay DEF vars, dbVars
<1> QED
  BY <1>1, <1>2, <1>3, <1>4, <1>5, <1>6 DEF Next
\* Every step keeps the types.
LEMMA TypesStep ==
  ASSUME Types, OneLiveSession, LinksInv, [Next]_vars
  PROVE  Types'
<1>1. ASSUME NEW s \in Sess, SessionStep(s) \/ CloseConn(s) PROVE Types'
  BY <1>1, RunSessionTypes, ReadRegisterTypes, HandleRegisterTypes, SendRegisterAckTypes,
     HandleAckTypes, DropSessionTypes, CloseConnTypes DEF SessionStep
<1>2. ASSUME NEW t \in todo, RequestStep(t) PROVE Types'
  BY <1>2, StoreCreateLinkTypes, PushLinkTypes, RemoveLinkTypes, DeleteNodeTxTypes,
     DeleteNodeCascadeTypes, DeleteNodeEndTypes DEF RequestStep
<1>3. ASSUME NEW n \in Node, AgentStep(n) \/ LoseConn(n) \/ RegisterFails(n) PROVE Types'
  BY <1>3, ConnectTypes, RegisterAckTypes, ApplyPeerTypes, ApplyRemoveTypes, ResetTypes,
     LoseConnTypes, RegisterFailsTypes DEF AgentStep
<1>4. ASSUME AdminStep PROVE Types'
  BY <1>4, FirstStepsTypes, RotateWGTypes DEF AdminStep
<1>5. ASSUME Fault PROVE Types'
  BY <1>5, HubRestartTypes, ResetTypes, GcOfflinePeerTypes, ApplyPeerFailsTypes DEF Fault
<1>6. CASE UNCHANGED vars
  <2>1. UNCHANGED <<dbVars, hubVars, todo, sessVars, chanVars, agentVars, budget, torn>>
    BY <1>6 DEF vars
  <2> QED
    BY <2>1, DbStays, HubStays, SessVarsStay, ChanStays, AgentStays
    DEF Types, TodoTypes, GhostTypes
<1> QED
  BY <1>1, <1>2, <1>3, <1>4, <1>5, <1>6 DEF Next

\* What the type invariant rests on.
BaseInv == Types /\ OneLiveSession /\ LinksInv

\* It holds initially ...
LEMMA BaseInit == Init => BaseInv
<1> SUFFICES ASSUME Init PROVE BaseInv
  OBVIOUS
<1>1. budget \in [Event -> Nat \cup {None}]
  BY ScenariosAssumption DEF Init
<1>2. DbTypes /\ HubTypes /\ TodoTypes /\ ConnTypes
  BY DEF Init, DbTypes, HubTypes, TodoTypes, ConnTypes
<1>3. ChanTypes /\ SessVarTypes
  <2>1. ChanTypes
    BY DEF Init, ChanTypes
  <2>2. SessVarTypes
    BY DEF Init, SessVarTypes, Gen
  <2> QED
    BY <2>1, <2>2
<1>4. WgTypes
  BY ReconcileType DEF Init, WgTypes, Gen
<1>5. GhostTypes
  BY <1>1 DEF Init, GhostTypes
<1>6. OneLiveSession /\ LinksInv
  BY NoneIsNoSession DEF Init, OneLiveSession, LinksInv, OnePerPair
<1> QED
  BY <1>2, <1>3, <1>4, <1>5, <1>6 DEF BaseInv, Types

\* ... and every step keeps it.
LEMMA BaseStep == BaseInv /\ [Next]_vars => BaseInv'
<1> SUFFICES ASSUME BaseInv, [Next]_vars PROVE BaseInv'
  OBVIOUS
<1>1. SessionInv
  BY DEF BaseInv, Types, HubTypes, ChanTypes, SessionInv, SessionTypes
<1>2. OneLiveSession'
  BY <1>1, SessionInvStep DEF SessionInv
<1>3. LinksInv'
  BY LinksStep DEF BaseInv
<1>4. Types'
  BY TypesStep DEF BaseInv
<1> QED
  BY <1>2, <1>3, <1>4 DEF BaseInv

\* Every variable of the control plane keeps its type: whatever the order of
\* registers, pushes, deletions and restarts, no frame is built from a
\* missing key or for a missing end (peerSpecLocked, removeSideLocked), no
\* request outlives what it names, and a device holds well-formed peers.
THEOREM TypeCorrect == Spec => []TypeOK
<1>1. BaseInv => TypeOK
  BY TypesAreTypeOK DEF BaseInv
<1> QED
  BY <1>1, BaseInit, BaseStep, PTL DEF Spec
------------------------------------------------------------------------------
(* The key of a connected agent                                            *)

\* Register frames on their way to the hub, register_acks on theirs back.
Regs(s) == {f \in Range(inb[s]) : f.type = "register"}
Acks(s) == {f \in Range(out[s]) : f.type = "register_ack"}

\* A connection before runSession and after dropSession; what is queued for
\* an agent is on the connection it uses.
SlotOk(s) ==
  /\ hubSt[s] \in {"none", "checked"} => pc[s] = "idle" /\ ~registered[s]
  /\ hubSt[s] = "none" => inb[s] = <<>>
  /\ pc[s] = "ack" => registered[s]
  /\ conn[Owner(s)] # s => out[s] = <<>>

\* No register carries a key that its agent has not had yet ...
RegsOk(s) ==
  /\ reg[s] <= key[Owner(s)]
  /\ \A f \in Regs(s) : f.gen <= key[Owner(s)]

\* ... and on the connection in use it is the key in use; the hub answered
\* no register it has not handled, and knows the key it was told last,
\* unless an older connection brought back another one.
UsedOk(s) ==
  LET n == Owner(s) IN
  conn[n] = s =>
    /\ \A f \in Regs(s) : f.gen = key[n]
    /\ pc[s] = "links" => reg[s] = key[n]
    /\ hubSt[s] # "none" /\ (phase[n] = "up" \/ Acks(s) # {}) => registered[s]
    /\ n \notin revokedDB /\ registered[s] /\ {n} \notin torn => lastWG[n] = key[n]

\* An agent uses a connection of its own; the hub knows no key of the future.
NodeOk(n) ==
  /\ conn[n] # None => Owner(conn[n]) = n /\ phase[n] \in {"registering", "up"}
  /\ lastWG[n] # None => lastWG[n] <= key[n]

KeyInv == /\ \A s \in Sess : SlotOk(s) /\ RegsOk(s) /\ UsedOk(s)
          /\ \A n \in Node : NodeOk(n)

\* A step that concerns neither keys nor registers: connections may open or
\* close at the hub, frames other than register_ack are sent, frames are read.
Quiet ==
  /\ UNCHANGED <<pc, registered, reg, phase, conn, key, lastWG>>
  /\ revokedDB \subseteq revokedDB' /\ torn \subseteq torn'
  /\ \A s \in Sess :
       /\ hubSt'[s] # hubSt[s] => hubSt[s] \in {"checked", "open"} /\ hubSt'[s] \in {"open", "closed"}
       /\ Regs(s)' \subseteq Regs(s) /\ Acks(s)' \subseteq Acks(s)
       /\ hubSt[s] = "none" => inb'[s] = inb[s]
       /\ conn[Owner(s)] # s => out'[s] = out[s] \/ out'[s] = <<>>

\* Quiet steps leave the freshness of keys alone.
LEMMA QuietKeeps == ASSUME KeyInv, Quiet PROVE KeyInv'
<1>1. ASSUME NEW s \in Sess PROVE SlotOk(s)'
  BY <1>1 DEF KeyInv, SlotOk, Quiet
<1>2. ASSUME NEW s \in Sess PROVE RegsOk(s)'
  BY <1>2 DEF KeyInv, RegsOk, Quiet
<1>3. ASSUME NEW s \in Sess PROVE UsedOk(s)'
  BY <1>3 DEF KeyInv, UsedOk, Quiet
<1>4. ASSUME NEW n \in Node PROVE NodeOk(n)'
  BY <1>4 DEF KeyInv, NodeOk, Quiet
<1> QED
  BY <1>1, <1>2, <1>3, <1>4 DEF KeyInv

\* Sending leaves the connections nobody uses alone, and adds the frames.
LEMMA SendQueues ==
  ASSUME Types, NEW fr, FrameMap(fr), Send(fr), NEW s \in Sess
  PROVE  /\ hubSt'[s] # hubSt[s] => hubSt[s] = "open" /\ hubSt'[s] = "closed"
         /\ \/ out'[s] = out[s]
            \/ /\ s \in DOMAIN fr /\ conn[Owner(s)] = s /\ hubSt[s] = "open"
               /\ out'[s] = Append(out[s], fr[s]) /\ fr[s] \in ToAgent
         /\ Range(out'[s]) \subseteq Range(out[s]) \cup (IF s \in DOMAIN fr THEN {fr[s]} ELSE {})
<1>1. hubSt'[s] # hubSt[s] => hubSt[s] = "open" /\ hubSt'[s] = "closed"
  BY Zenon DEF Send, OverflowClosed
<1>2. \/ out'[s] = out[s]
      \/ /\ s \in DOMAIN fr /\ conn[Owner(s)] = s /\ hubSt[s] = "open"
         /\ out'[s] = Append(out[s], fr[s]) /\ fr[s] \in ToAgent
  BY DEF Send, Queued, FrameMap
<1>3. out[s] \in Seq(ToAgent)
  BY DEF Types, ChanTypes
<1>4. CASE out'[s] = Append(out[s], fr[s]) /\ fr[s] \in ToAgent /\ s \in DOMAIN fr
  <2>1. Range(Append(out[s], fr[s])) = Range(out[s]) \cup {fr[s]}
    BY <1>3, <1>4, RangeOfAppend
  <2> QED
    BY <1>1, <1>2, <1>4, <2>1
<1> QED
  BY <1>1, <1>2, <1>4

\* Frames other than register_ack.
Plain(fr) == \A s \in DOMAIN fr : fr[s].type # "register_ack"

\* A step that only sends such frames is quiet.
LEMMA SendIsQuiet ==
  ASSUME Types, NEW fr, FrameMap(fr), Plain(fr), Send(fr), inb' = inb,
         UNCHANGED <<pc, registered, reg, phase, conn, key, lastWG>>,
         revokedDB \subseteq revokedDB', torn \subseteq torn'
  PROVE  Quiet
<1>1. ASSUME NEW s \in Sess
      PROVE  /\ hubSt'[s] # hubSt[s] => hubSt[s] \in {"checked", "open"} /\ hubSt'[s] \in {"open", "closed"}
             /\ Regs(s)' \subseteq Regs(s) /\ Acks(s)' \subseteq Acks(s)
             /\ hubSt[s] = "none" => inb'[s] = inb[s]
             /\ conn[Owner(s)] # s => out'[s] = out[s] \/ out'[s] = <<>>
  <2>1. /\ hubSt'[s] # hubSt[s] => hubSt[s] = "open" /\ hubSt'[s] = "closed"
        /\ conn[Owner(s)] # s => out'[s] = out[s]
        /\ Range(out'[s]) \subseteq Range(out[s]) \cup (IF s \in DOMAIN fr THEN {fr[s]} ELSE {})
    BY SendQueues
  <2>2. Acks(s)' \subseteq Acks(s)
    BY <2>1 DEF Acks, Plain
  <2>3. Regs(s)' = Regs(s)
    BY DEF Regs
  <2> QED
    BY <2>1, <2>2, <2>3
<1> QED
  BY <1>1 DEF Quiet

\* What pushPairLocked, removeSideLocked and a register send is plain.
LEMMA PushesArePlain ==
  /\ \A l : \A typ \in {"peer_add", "peer_update"} : Plain(PairFrames(l, typ))
  /\ \A E : Plain(RemoveFrames(E))
  /\ \A s \in Sess : Plain(RegisterFrames(s))
<1>1. ASSUME NEW l, NEW typ \in {"peer_add", "peer_update"} PROVE Plain(PairFrames(l, typ))
  BY DEF PairFrames, Plain
<1>2. ASSUME NEW E PROVE Plain(RemoveFrames(E))
  BY DEF RemoveFrames, Plain
<1>3. ASSUME NEW s \in Sess PROVE Plain(RegisterFrames(s))
  BY DEF RegisterFrames, Plain
<1> QED
  BY <1>1, <1>2, <1>3
\* A step that touches none of it is quiet.
LEMMA IdleIsQuiet ==
  ASSUME UNCHANGED <<hubSt, out, inb, pc, registered, reg, phase, conn, key, lastWG>>,
         revokedDB \subseteq revokedDB', torn \subseteq torn'
  PROVE  Quiet
  BY DEF Quiet, Regs, Acks

\* The hub's quiet steps: connections open and close, acks are read.
LEMMA QuietSessionSteps ==
  ASSUME Types, NEW s \in Sess, RunSession(s) \/ HandleAck(s) \/ CloseConn(s)
  PROVE  Quiet
<1>1. CASE RunSession(s)
  <2>1. /\ UNCHANGED <<out, inb, pc, registered, reg, phase, conn, key, lastWG, revokedDB, torn>>
        /\ hubSt[s] = "checked"
        /\ hubSt' = [r \in Sess |-> IF r = s THEN "open"
                                    ELSE IF r = sessions[Owner(s)] /\ hubSt[r] = "open"
                                      THEN "closed" ELSE hubSt[r]]
    BY <1>1 DEF RunSession, dbVars, sessVars, agentVars, wgVars
  <2>2. \A r \in Sess : hubSt'[r] # hubSt[r] =>
          hubSt[r] \in {"checked", "open"} /\ hubSt'[r] \in {"open", "closed"}
    BY <2>1
  <2> QED
    BY <2>1, <2>2 DEF Quiet, Regs, Acks
<1>2. CASE CloseConn(s)
  <2>1. /\ UNCHANGED <<out, inb, pc, registered, reg, phase, conn, key, lastWG, revokedDB, torn>>
        /\ hubSt[s] = "open" /\ hubSt' = [hubSt EXCEPT ![s] = "closed"]
    BY <1>2 DEF CloseConn, dbVars, hubVars, sessVars, agentVars, wgVars
  <2>2. \A r \in Sess : hubSt'[r] # hubSt[r] =>
          hubSt[r] \in {"checked", "open"} /\ hubSt'[r] \in {"open", "closed"}
    BY <2>1
  <2> QED
    BY <2>1, <2>2 DEF Quiet, Regs, Acks
<1>3. CASE HandleAck(s)
  <2>1. /\ UNCHANGED <<hubSt, out, pc, registered, reg, phase, conn, key, lastWG, revokedDB, torn>>
        /\ hubSt[s] \in {"open", "closed"} /\ inb[s] # <<>> /\ inb' = [inb EXCEPT ![s] = Tail(@)]
    BY <1>3 DEF HandleAck, dbVars, sessVars, agentVars, wgVars
  <2>2. inb[s] \in Seq(ToHub)
    BY DEF Types, ChanTypes
  <2>3. Range(Tail(inb[s])) \subseteq Range(inb[s])
    BY <2>1, <2>2, RangeOfTail
  <2>4. \A r \in Sess : inb'[r] = IF r = s THEN Tail(inb[s]) ELSE inb[r]
    BY <2>1 DEF Types, ChanTypes
  <2>5. \A r \in Sess : Regs(r)' \subseteq Regs(r) /\ Acks(r)' = Acks(r)
    BY <2>1, <2>3, <2>4 DEF Regs, Acks
  <2>6. \A r \in Sess : hubSt[r] = "none" => inb'[r] = inb[r]
    BY <2>1, <2>4
  <2> QED
    BY <2>1, <2>5, <2>6 DEF Quiet
<1> QED
  BY <1>1, <1>2, <1>3

\* The quiet steps of admin requests and of the garbage collector.
LEMMA QuietRequestSteps ==
  ASSUME BaseInv,
         \/ \E t \in todo : \/ StoreCreateLink(t) \/ PushLink(t) \/ RemoveLink(t) \/ DeleteNodeTx(t)
                            \/ DeleteNodeCascade(t) \/ DeleteNodeKick(t) \/ KickClose(t)
         \/ AdminStep
         \/ \E n \in Node : GcOfflinePeer(n)
  PROVE  Quiet
<1> USE DEF BaseInv
<1>1. ASSUME NEW t \in todo, StoreCreateLink(t) \/ DeleteNodeTx(t) PROVE Quiet
  BY <1>1, IdleIsQuiet DEF StoreCreateLink, DeleteNodeTx, hubVars, sessVars, chanVars, agentVars, wgVars
<1>2. ASSUME NEW t \in todo, PushLink(t) PROVE Quiet
  <2>1. t.link \in Link
    BY <1>2, RequestFields DEF Types, PushLink
  <2>2. PICK typ \in {"peer_add", "peer_update"} : Send(PairFrames(t.link, typ))
    BY <1>2 DEF PushLink
  <2>3. FrameMap(PairFrames(t.link, typ)) /\ Plain(PairFrames(t.link, typ))
    BY <2>1, PairFramesOk, PushesArePlain
  <2> QED
    BY <1>2, <2>2, <2>3, SendIsQuiet DEF PushLink, dbVars, sessVars, agentVars, wgVars
<1>3. ASSUME NEW t \in todo, RemoveLink(t) PROVE Quiet
  <2>1. t.link \in Link
    BY <1>3, RequestFields DEF Types, RemoveLink
  <2>2. PICK E : E = {t.link} \X t.link.ends
    OBVIOUS
  <2>3. E \subseteq Link \X Node /\ \A x, y \in E : x[2] = y[2] => x = y
    BY <2>1, <2>2 DEF Link, Ends
  <2>4. FrameMap(RemoveFrames(E)) /\ Plain(RemoveFrames(E))
    BY <2>3, RemoveFramesOk, PushesArePlain
  <2>5. Send(RemoveFrames(E))
    BY <1>3, <2>2 DEF RemoveLink
  <2> QED
    BY <1>3, <2>4, <2>5, SendIsQuiet DEF RemoveLink, dbVars, sessVars, agentVars, wgVars
<1>4. ASSUME NEW t \in todo, DeleteNodeCascade(t) PROVE Quiet
  <2>1. t.node \in Node /\ t.links \in SUBSET Link /\ OnePerPair(t.links)
          /\ \A l \in t.links : t.node \in l.ends
    BY <1>4, RequestFields DEF Types, LinksInv, DeleteNodeCascade
  <2>2. PICK E : E = {<<l, Other(l, t.node)>> : l \in t.links}
    OBVIOUS
  <2>3. FrameMap(RemoveFrames(E)) /\ Plain(RemoveFrames(E))
    BY <2>1, <2>2, WithdrawnOnce, RemoveFramesOk, PushesArePlain
  <2>4. Send(RemoveFrames(E))
    BY <1>4, <2>2 DEF DeleteNodeCascade
  <2> QED
    BY <1>4, <2>3, <2>4, SendIsQuiet DEF DeleteNodeCascade, dbVars, sessVars, agentVars, wgVars
<1>5. ASSUME NEW t \in todo, DeleteNodeKick(t) PROVE Quiet
  <2>1. PICK fr : fr = [s \in {t.sess} \ {None} |-> [type |-> "kick"]]
    OBVIOUS
  <2>2. FrameMap(fr) /\ Plain(fr)
    BY <2>1, FramesAreFrames DEF FrameMap, Plain
  <2>3. Send(fr)
    BY <1>5, <2>1 DEF DeleteNodeKick
  <2> QED
    BY <1>5, <2>2, <2>3, SendIsQuiet DEF DeleteNodeKick, dbVars, hubVars, sessVars, agentVars, wgVars
<1>6. ASSUME NEW t \in todo, KickClose(t) PROVE Quiet
  <2>1. /\ UNCHANGED <<out, inb, pc, registered, reg, phase, conn, key, lastWG, revokedDB, torn>>
        /\ hubSt' = [s \in Sess |-> IF s = t.sess /\ hubSt[s] = "open" THEN "closed" ELSE hubSt[s]]
    BY <1>6 DEF KickClose, dbVars, hubVars, sessVars, agentVars, wgVars
  <2>2. \A r \in Sess : hubSt'[r] # hubSt[r] =>
          hubSt[r] \in {"checked", "open"} /\ hubSt'[r] \in {"open", "closed"}
    BY <2>1
  <2> QED
    BY <2>1, <2>2 DEF Quiet, Regs, Acks
<1>7. ASSUME NEW n \in Node, RotateWG(n) PROVE Quiet
  <2>1. PICK fr : fr = [s \in {sessions[n]} |-> [type |-> "rotate_wg"]]
    OBVIOUS
  <2>2. FrameMap(fr) /\ Plain(fr)
    BY <2>1, FramesAreFrames DEF FrameMap, Plain
  <2>3. Send(fr)
    BY <1>7, <2>1 DEF RotateWG
  <2> QED
    BY <1>7, <2>2, <2>3, SendIsQuiet DEF RotateWG, dbVars, hubVars, sessVars, agentVars, wgVars
<1>8. ASSUME AdminStep PROVE Quiet
  <2>1. CASE \E n \in Node : RotateWG(n)
    BY <1>7, <2>1
  <2>2. CASE ~ \E n \in Node : RotateWG(n)
    BY <1>8, <2>2, IdleIsQuiet DEF AdminStep, ApiCreateLink, DeleteLink, SetLinkExit, DeleteNode,
       dbVars, hubVars, sessVars, chanVars, agentVars, wgVars
  <2> QED
    BY <2>1, <2>2
<1>9. ASSUME NEW n \in Node, GcOfflinePeer(n) PROVE Quiet
  <2>1. PICK E : E = {<<l, Other(l, n)>> : l \in LinksOf(n)}
    OBVIOUS
  <2>2. LinksOf(n) \in SUBSET Link /\ OnePerPair(LinksOf(n)) /\ \A l \in LinksOf(n) : n \in l.ends
    BY DEF Types, DbTypes, LinksOf, LinksInv, OnePerPair
  <2>3. FrameMap(RemoveFrames(E)) /\ Plain(RemoveFrames(E))
    BY <2>1, <2>2, WithdrawnOnce, RemoveFramesOk, PushesArePlain
  <2>4. Send(RemoveFrames(E))
    BY <1>9, <2>1 DEF GcOfflinePeer
  <2> QED
    BY <1>9, <2>3, <2>4, SendIsQuiet DEF GcOfflinePeer, dbVars, sessVars, agentVars, wgVars
<1> QED
  BY <1>1, <1>2, <1>3, <1>4, <1>5, <1>6, <1>8, <1>9
\* Answering a frame is quiet.
LEMMA ConsumeIsQuiet ==
  ASSUME BaseInv, NEW n \in Node, HasFrame(n), NEW id \in Nat, NEW ok \in BOOLEAN,
         Consume(n, id, ok), UNCHANGED <<hubSt, pc, registered, reg, key, lastWG, revokedDB>>,
         KeyInv, torn \subseteq torn'
  PROVE  Quiet
<1>1. PICK c \in Sess : c = conn[n] /\ out[c] # <<>>
  BY FrameType DEF BaseInv, HasFrame
<1>2. PICK a \in ToHub : a = [type |-> "ack", link |-> id, ok |-> ok]
  BY DEF ToHub
<1>3. /\ out' = [out EXCEPT ![c] = Tail(@)] /\ phase' = phase /\ conn' = conn
      /\ inb' = [inb EXCEPT ![c] = IF hubSt[c] = "open" THEN Append(@, a) ELSE @]
  BY <1>1, <1>2 DEF Consume
<1>4. out \in [Sess -> Seq(ToAgent)] /\ inb \in [Sess -> Seq(ToHub)]
  BY DEF BaseInv, Types, ChanTypes
<1>5. Owner(c) = n
  BY <1>1, NoneIsNoSession DEF KeyInv, NodeOk
<1>6. ASSUME NEW s \in Sess
      PROVE  /\ Regs(s)' \subseteq Regs(s) /\ Acks(s)' \subseteq Acks(s)
             /\ hubSt[s] = "none" => inb'[s] = inb[s]
             /\ conn[Owner(s)] # s => out'[s] = out[s]
  <2>1. CASE s = c
    <3>1. out'[c] = Tail(out[c]) /\ Range(Tail(out[c])) \subseteq Range(out[c])
      BY <1>1, <1>3, <1>4, RangeOfTail
    <3>2. \/ inb'[c] = inb[c]
          \/ hubSt[c] = "open" /\ inb'[c] = Append(inb[c], a)
      BY <1>3, <1>4
    <3>3. Range(inb'[c]) \subseteq Range(inb[c]) \cup {a}
      <4>1. Range(Append(inb[c], a)) = Range(inb[c]) \cup {a}
        BY <1>4, RangeOfAppend
      <4> QED
        BY <3>2, <4>1
    <3>4. a.type # "register"
      BY <1>2
    <3> QED
      BY <1>1, <1>5, <2>1, <3>1, <3>2, <3>3, <3>4 DEF Regs, Acks
  <2>2. CASE s # c
    <3>1. out'[s] = out[s] /\ inb'[s] = inb[s]
      BY <1>3, <1>4, <2>2
    <3> QED
      BY <3>1 DEF Regs, Acks
  <2> QED
    BY <2>1, <2>2
<1> QED
  BY <1>3, <1>6 DEF Quiet

\* Peers are applied, refused or removed quietly.
LEMMA QuietAgentSteps ==
  ASSUME BaseInv, KeyInv, NEW n \in Node, ApplyPeer(n) \/ ApplyPeerFails(n) \/ ApplyRemove(n)
  PROVE  Quiet
<1>1. HasFrame(n) /\ UNCHANGED <<hubSt, pc, registered, reg, key, lastWG, revokedDB>>
        /\ torn \subseteq torn'
  BY DEF ApplyPeer, ApplyPeerFails, ApplyRemove, dbVars, hubVars, sessVars
<1>2. \E id \in Nat : \E ok \in BOOLEAN : Consume(n, id, ok)
  <2>1. CASE ApplyPeer(n) \/ ApplyPeerFails(n)
    <3>1. Frame(n).spec \in PeerSpec
      BY <1>1, <2>1, FrameType DEF BaseInv, ApplyPeer, ApplyPeerFails
    <3>2. Frame(n).spec.link \in Nat
      BY <3>1 DEF PeerSpec
    <3> QED
      BY <2>1, <3>2 DEF ApplyPeer, ApplyPeerFails
  <2>2. CASE ApplyRemove(n)
    BY <2>2 DEF ApplyRemove, NoLink
  <2> QED
    BY <2>1, <2>2
<1> QED
  BY <1>1, <1>2, ConsumeIsQuiet

\* A register that was read, and its answer.
LEMMA ReadRegisterKeys ==
  ASSUME BaseInv, KeyInv, NEW s \in Sess, ReadRegister(s)
  PROVE  KeyInv'
<1>1. PICK f : f = Head(inb[s])
  OBVIOUS
<1>2. /\ UNCHANGED <<hubSt, out, registered, phase, conn, key, lastWG, revokedDB, torn>>
      /\ hubSt[s] \in {"open", "closed"} /\ inb[s] # <<>> /\ f.type = "register"
      /\ inb' = [inb EXCEPT ![s] = Tail(@)]
      /\ pc' = [pc EXCEPT ![s] = "links"] /\ reg' = [reg EXCEPT ![s] = f.gen]
  BY <1>1 DEF ReadRegister, dbVars, hubVars, agentVars, wgVars
<1>3. inb \in [Sess -> Seq(ToHub)] /\ pc \in [Sess -> {"idle", "links", "ack"}] /\ reg \in [Sess -> Gen]
  BY DEF BaseInv, Types, ChanTypes, SessVarTypes
<1>4. f \in Regs(s) /\ Range(Tail(inb[s])) \subseteq Range(inb[s])
  BY <1>1, <1>2, <1>3, RangeOfTail DEF Regs
<1>5. \A r \in Sess : inb'[r] = IF r = s THEN Tail(inb[s]) ELSE inb[r]
  BY <1>2, <1>3
<1>6. \A r \in Sess : Regs(r)' \subseteq Regs(r) /\ Acks(r)' = Acks(r)
  BY <1>2, <1>4, <1>5 DEF Regs, Acks
<1>7. ASSUME NEW r \in Sess PROVE SlotOk(r)'
  BY <1>2, <1>3, <1>5 DEF KeyInv, SlotOk
<1>8. ASSUME NEW r \in Sess PROVE RegsOk(r)'
  BY <1>2, <1>3, <1>4, <1>6 DEF KeyInv, RegsOk
<1>9. ASSUME NEW r \in Sess PROVE UsedOk(r)'
  BY <1>2, <1>3, <1>4, <1>6 DEF KeyInv, UsedOk
<1>10. ASSUME NEW n \in Node PROVE NodeOk(n)'
  BY <1>2 DEF KeyInv, NodeOk
<1> QED
  BY <1>7, <1>8, <1>9, <1>10 DEF KeyInv

\* The key of a register_ack's receiver is the one it registered with.
LEMMA SendRegisterAckKeys ==
  ASSUME BaseInv, KeyInv, NEW s \in Sess, SendRegisterAck(s)
  PROVE  KeyInv'
<1>1. PICK fr : fr = [r \in {s} |-> [type |-> "register_ack", peers |-> exp[s]]]
  OBVIOUS
<1>2. FrameMap(fr) /\ DOMAIN fr = {s}
  BY <1>1, FramesAreFrames DEF FrameMap, BaseInv, Types, SessVarTypes
<1>3. /\ UNCHANGED <<inb, registered, reg, phase, conn, key, lastWG, revokedDB, torn>>
      /\ pc[s] = "ack" /\ pc' = [pc EXCEPT ![s] = "idle"] /\ Send(fr)
  BY <1>1 DEF SendRegisterAck, hubVars, agentVars, wgVars
<1>4. pc \in [Sess -> {"idle", "links", "ack"}]
  BY DEF BaseInv, Types, SessVarTypes
<1>5. \A r \in Sess : /\ hubSt'[r] # hubSt[r] => hubSt[r] = "open" /\ hubSt'[r] = "closed"
                      /\ conn[Owner(r)] # r => out'[r] = out[r]
                      /\ r # s => Acks(r)' \subseteq Acks(r)
                      /\ Regs(r)' = Regs(r)
  BY <1>2, <1>3, SendQueues DEF BaseInv, Acks, Regs
<1>6. registered[s]
  BY <1>3 DEF KeyInv, SlotOk
<1>7. ASSUME NEW r \in Sess PROVE SlotOk(r)'
  BY <1>3, <1>4, <1>5 DEF KeyInv, SlotOk
<1>8. ASSUME NEW r \in Sess PROVE RegsOk(r)'
  BY <1>3, <1>5 DEF KeyInv, RegsOk
<1>9. ASSUME NEW r \in Sess PROVE UsedOk(r)'
  BY <1>3, <1>4, <1>5, <1>6 DEF KeyInv, UsedOk
<1>10. ASSUME NEW n \in Node PROVE NodeOk(n)'
  BY <1>3 DEF KeyInv, NodeOk
<1> QED
  BY <1>7, <1>8, <1>9, <1>10 DEF KeyInv

\* handleRegister takes the key over; when an older connection brings back a
\* key that was replaced, the node is torn.
LEMMA HandleRegisterKeys ==
  ASSUME BaseInv, KeyInv, NEW s \in Sess, HandleRegister(s)
  PROVE  KeyInv'
<1> DEFINE n == Owner(s)
<1>1. n \in Node
  BY OwnerIsNode
<1>2. FrameMap(RegisterFrames(s)) /\ Plain(RegisterFrames(s))
  BY RegisterFramesOk, PushesArePlain DEF BaseInv
<1>3. /\ UNCHANGED <<inb, phase, conn, key, revokedDB>>
      /\ pc[s] = "links" /\ pc' = [pc EXCEPT ![s] = "ack"]
      /\ registered' = [registered EXCEPT ![s] = TRUE]
      /\ reg' = [reg EXCEPT ![s] = 0]
      /\ lastWG' = [lastWG EXCEPT ![n] = reg[s]]
      /\ torn' = torn \cup TornByRegister(s) /\ Send(RegisterFrames(s))
  BY DEF HandleRegister, RegisteredKey, dbVars, agentVars, wgVars
<1>4. /\ pc \in [Sess -> {"idle", "links", "ack"}] /\ reg \in [Sess -> Nat]
      /\ registered \in [Sess -> BOOLEAN]
      /\ lastWG \in [Node -> Nat \cup {None}] /\ key \in [Node -> Nat]
  BY DEF BaseInv, Types, SessVarTypes, HubTypes, WgTypes, Gen
<1>5. \A r \in Sess : /\ hubSt'[r] # hubSt[r] => hubSt[r] = "open" /\ hubSt'[r] = "closed"
                      /\ conn[Owner(r)] # r => out'[r] = out[r]
                      /\ Acks(r)' \subseteq Acks(r)
                      /\ Regs(r)' = Regs(r)
  <2>1. \A r \in Sess : /\ hubSt'[r] # hubSt[r] => hubSt[r] = "open" /\ hubSt'[r] = "closed"
                        /\ conn[Owner(r)] # r => out'[r] = out[r]
                        /\ Range(out'[r]) \subseteq Range(out[r])
                             \cup (IF r \in DOMAIN RegisterFrames(s) THEN {RegisterFrames(s)[r]} ELSE {})
    BY <1>2, <1>3, SendQueues DEF BaseInv
  <2> QED
    BY <1>2, <1>3, <2>1 DEF Acks, Regs, Plain
<1>6. hubSt[s] \notin {"none", "checked"} /\ reg[s] <= key[n]
  BY <1>3 DEF KeyInv, SlotOk, RegsOk
<1>7. ASSUME NEW r \in Sess PROVE SlotOk(r)'
  <2>1. SlotOk(r)
    BY DEF KeyInv
  <2>2. hubSt[s] \notin {"none", "checked"}
    BY <1>6
  <2> QED
    BY <1>3, <1>4, <1>5, <2>1, <2>2 DEF SlotOk
<1>8. ASSUME NEW r \in Sess PROVE RegsOk(r)'
  BY <1>1, <1>3, <1>4, <1>5, OwnerIsNode DEF KeyInv, RegsOk
<1>9. ASSUME NEW r \in Sess PROVE UsedOk(r)'
  <2>1. UsedOk(r) /\ UsedOk(s)
    BY DEF KeyInv
  <2>2. CASE r = s
    BY <1>1, <1>3, <1>4, <1>5, <2>1, <2>2 DEF UsedOk
  <2>3. CASE r # s /\ Owner(r) # n
    BY <1>3, <1>4, <1>5, <2>1, <2>3, OwnerIsNode DEF UsedOk
  <2>4. CASE r # s /\ Owner(r) = n /\ conn[n] = r
    <3>1. ASSUME n \notin revokedDB, registered[r], {n} \notin torn' PROVE lastWG'[n] = key[n]
      <4>1. lastWG[n] = key[n]
        BY <1>3, <2>1, <2>4, <3>1 DEF UsedOk
      <4>2. reg[s] <= key[n] /\ reg[s] \in Nat /\ key[n] \in Nat /\ lastWG'[n] = reg[s]
        BY <1>1, <1>3, <1>4, <1>6
      <4>3. CASE reg[s] < key[n]
        <5>1. lastWG[n] # None /\ lastWG[n] # reg[s] /\ reg[s] < lastWG[n]
          BY <1>1, <1>4, <4>1, <4>2, <4>3, NoneAssumption
        <5>2. {n} \in TornByRegister(s)
          BY <5>1 DEF TornByRegister
        <5> QED
          BY <1>3, <3>1, <5>2
      <4> QED
        BY <4>2, <4>3
    <3>2. /\ Regs(r)' = Regs(r) /\ pc'[r] = pc[r] /\ reg'[r] = reg[r] /\ registered'[r] = registered[r]
          /\ hubSt'[r] # "none" => hubSt[r] # "none"
      BY <1>3, <1>4, <1>5, <2>4
    <3> QED
      BY <1>3, <1>5, <2>1, <2>4, <3>1, <3>2 DEF UsedOk
  <2>5. CASE conn[Owner(r)] # r
    BY <1>3, <2>5 DEF UsedOk
  <2> QED
    BY <2>2, <2>3, <2>4, <2>5
<1>10. ASSUME NEW m \in Node PROVE NodeOk(m)'
  BY <1>1, <1>3, <1>4, <1>6 DEF KeyInv, NodeOk
<1> QED
  BY <1>7, <1>8, <1>9, <1>10 DEF KeyInv
\* dropSession and a hub restart leave connections that know nothing.
LEMMA DropSessionKeys ==
  ASSUME BaseInv, KeyInv, NEW s \in Sess, DropSession(s)
  PROVE  KeyInv'
<1>1. /\ UNCHANGED <<pc, reg, out, phase, conn, key, lastWG, revokedDB, torn>>
      /\ hubSt[s] = "closed" /\ pc[s] = "idle"
      /\ hubSt' = [hubSt EXCEPT ![s] = "none"] /\ registered' = [registered EXCEPT ![s] = FALSE]
      /\ inb' = [inb EXCEPT ![s] = <<>>]
  BY DEF DropSession, agentVars, wgVars
<1>2. /\ hubSt \in [Sess -> {"none", "checked", "open", "closed"}]
      /\ registered \in [Sess -> BOOLEAN] /\ inb \in [Sess -> Seq(ToHub)]
  BY DEF BaseInv, Types, ChanTypes, SessVarTypes
<1>3. Range(<<>>) = {}
  BY RangeOfEmpty
<1>4. \A r \in Sess : /\ r # s => hubSt'[r] = hubSt[r] /\ registered'[r] = registered[r] /\ inb'[r] = inb[r]
                      /\ r = s => hubSt'[r] = "none" /\ registered'[r] = FALSE /\ inb'[r] = <<>>
  BY <1>1, <1>2
<1>5. \A r \in Sess : Regs(r)' \subseteq Regs(r) /\ Acks(r)' = Acks(r)
  BY <1>1, <1>3, <1>4 DEF Regs, Acks
<1>6. ASSUME NEW r \in Sess PROVE SlotOk(r)'
  BY <1>1, <1>4 DEF KeyInv, SlotOk
<1>7. ASSUME NEW r \in Sess PROVE RegsOk(r)'
  BY <1>1, <1>5 DEF KeyInv, RegsOk
<1>8. ASSUME NEW r \in Sess PROVE UsedOk(r)'
  BY <1>1, <1>4, <1>5 DEF KeyInv, UsedOk
<1>9. ASSUME NEW n \in Node PROVE NodeOk(n)'
  BY <1>1 DEF KeyInv, NodeOk
<1> QED
  BY <1>6, <1>7, <1>8, <1>9 DEF KeyInv

\* A restart of the hub forgets the keys and closes the connections they came by.
LEMMA HubRestartKeys ==
  ASSUME BaseInv, KeyInv, HubRestart
  PROVE  KeyInv'
<1>1. /\ UNCHANGED <<out, phase, conn, key, revokedDB>>
      /\ \A n \in Node : lastWG'[n] = None
      /\ \A r \in Sess : hubSt'[r] = "none" /\ registered'[r] = FALSE /\ pc'[r] = "idle"
                           /\ reg'[r] = 0 /\ inb'[r] = <<>>
  BY DEF HubRestart, dbVars, agentVars, wgVars
<1>2. key \in [Node -> Nat]
  BY DEF BaseInv, Types, WgTypes, Gen
<1>3. \A r \in Sess : Regs(r)' = {}
  BY <1>1, RangeOfEmpty DEF Regs
<1>4. ASSUME NEW r \in Sess PROVE SlotOk(r)'
  BY <1>1 DEF KeyInv, SlotOk
<1>5. ASSUME NEW r \in Sess PROVE RegsOk(r)'
  BY <1>1, <1>2, <1>3, OwnerIsNode DEF RegsOk
<1>6. ASSUME NEW r \in Sess PROVE UsedOk(r)'
  BY <1>1, <1>3 DEF UsedOk
<1>7. ASSUME NEW n \in Node PROVE NodeOk(n)'
  BY <1>1 DEF KeyInv, NodeOk
<1> QED
  BY <1>4, <1>5, <1>6, <1>7 DEF KeyInv

\* DeleteNode forgets the key of a node that is revoked.
LEMMA DeleteNodeForgetKeys ==
  ASSUME BaseInv, KeyInv, NEW t \in todo, DeleteNodeForget(t)
  PROVE  KeyInv'
<1>1. /\ UNCHANGED <<hubSt, inb, out, pc, registered, reg, phase, conn, key, revokedDB>>
      /\ torn \subseteq torn'
      /\ t.op = "forget" /\ lastWG' = [lastWG EXCEPT ![t.node] = None]
  BY DEF DeleteNodeForget, dbVars, sessVars, chanVars, agentVars, wgVars
<1>2. t.node \in Node /\ t.node \in revokedDB
  BY <1>1, RequestFields DEF BaseInv, Types, LinksInv
<1>3. \A n \in Node : lastWG'[n] = IF n = t.node THEN None ELSE lastWG[n]
  BY <1>1, <1>2 DEF BaseInv, Types, HubTypes
<1>4. \A r \in Sess : Regs(r)' = Regs(r) /\ Acks(r)' = Acks(r)
  BY <1>1 DEF Regs, Acks
<1>5. ASSUME NEW r \in Sess PROVE SlotOk(r)' /\ RegsOk(r)'
  BY <1>1, <1>4 DEF KeyInv, SlotOk, RegsOk
<1>6. ASSUME NEW r \in Sess PROVE UsedOk(r)'
  BY <1>1, <1>2, <1>3, <1>4, OwnerIsNode DEF KeyInv, UsedOk
<1>7. ASSUME NEW n \in Node PROVE NodeOk(n)'
  BY <1>1, <1>3 DEF KeyInv, NodeOk
<1> QED
  BY <1>5, <1>6, <1>7 DEF KeyInv

\* A new connection carries one register, with the key in use.
LEMMA ConnectKeys ==
  ASSUME BaseInv, KeyInv, NEW n \in Node, NEW s \in Sess, Connect(n, s)
  PROVE  KeyInv'
<1>1. PICK r0 \in ToHub : r0 = [type |-> "register", gen |-> key[n]]
  BY DEF BaseInv, Types, WgTypes, ToHub
<1>2. PICK e0 \in ToAgent : e0 = [type |-> "error"]
  BY FramesAreFrames
<1>3. /\ UNCHANGED <<pc, registered, reg, key, lastWG, revokedDB, torn>>
      /\ phase[n] = "down" /\ Owner(s) = n /\ hubSt[s] = "none"
      /\ phase' = [phase EXCEPT ![n] = "registering"] /\ conn' = [conn EXCEPT ![n] = s]
  BY DEF Connect, dbVars, hubVars, sessVars, wgVars
<1>4. \/ out' = [out EXCEPT ![s] = <<e0>>] /\ hubSt' = hubSt /\ inb' = inb
      \/ out' = out /\ hubSt' = [hubSt EXCEPT ![s] = "checked"] /\ inb' = [inb EXCEPT ![s] = <<r0>>]
  BY <1>1, <1>2 DEF Connect, HandleConn
<1>5. /\ hubSt \in [Sess -> {"none", "checked", "open", "closed"}]
      /\ inb \in [Sess -> Seq(ToHub)] /\ out \in [Sess -> Seq(ToAgent)]
      /\ conn \in [Node -> Sess \cup {None}] /\ key \in [Node -> Nat]
      /\ phase \in [Node -> {"down", "registering", "up", "gone"}]
  BY DEF BaseInv, Types, ChanTypes, ConnTypes, WgTypes, Gen
<1>6. conn[n] = None /\ out[s] = <<>> /\ inb[s] = <<>> /\ pc[s] = "idle" /\ ~registered[s]
  BY <1>3, <1>5, NoneIsNoSession DEF KeyInv, SlotOk, NodeOk
<1>7. Range(<<r0>>) = {r0} /\ Range(<<e0>>) = {e0} /\ r0.type = "register" /\ r0.gen = key[n]
        /\ e0.type # "register_ack"
  BY <1>1, <1>2 DEF Range
<1>8. \A r \in Sess \ {s} : /\ hubSt'[r] = hubSt[r] /\ inb'[r] = inb[r] /\ out'[r] = out[r]
                            /\ Regs(r)' = Regs(r) /\ Acks(r)' = Acks(r)
  <2>1. \A r \in Sess \ {s} : hubSt'[r] = hubSt[r] /\ inb'[r] = inb[r] /\ out'[r] = out[r]
    BY <1>4, <1>5
  <2> QED
    BY <2>1 DEF Regs, Acks
<1>9. /\ Acks(s)' = {}
      /\ \A f \in Regs(s)' : f.gen = key[n]
      /\ hubSt'[s] \in {"none", "checked"} /\ (hubSt'[s] = "none" => inb'[s] = <<>>)
  <2>1. CASE out' = [out EXCEPT ![s] = <<e0>>] /\ hubSt' = hubSt /\ inb' = inb
    <3>1. out'[s] = <<e0>> /\ inb'[s] = <<>> /\ hubSt'[s] = "none"
      BY <1>3, <1>5, <1>6, <2>1
    <3> QED
      BY <1>7, <3>1, RangeOfEmpty DEF Acks, Regs
  <2>2. CASE out' = out /\ hubSt' = [hubSt EXCEPT ![s] = "checked"] /\ inb' = [inb EXCEPT ![s] = <<r0>>]
    <3>1. out'[s] = <<>> /\ inb'[s] = <<r0>> /\ hubSt'[s] = "checked"
      BY <1>5, <1>6, <2>2
    <3> QED
      BY <1>7, <3>1, RangeOfEmpty DEF Acks, Regs
  <2> QED
    BY <1>4, <2>1, <2>2
<1>10. \A m \in Node : /\ m # n => conn'[m] = conn[m] /\ phase'[m] = phase[m]
                       /\ m = n => conn'[m] = s /\ phase'[m] = "registering"
  BY <1>3, <1>5
<1>11. ASSUME NEW r \in Sess PROVE SlotOk(r)'
  <2>1. CASE r = s
    BY <1>3, <1>6, <1>9, <1>10, <2>1 DEF SlotOk
  <2>2. CASE r # s
    BY <1>3, <1>6, <1>8, <1>10, <2>2, OwnerIsNode, NoneIsNoSession DEF KeyInv, SlotOk
  <2> QED
    BY <2>1, <2>2
<1>12. ASSUME NEW r \in Sess PROVE RegsOk(r)'
  <2>1. CASE r = s
    BY <1>3, <1>5, <1>9, <2>1 DEF KeyInv, RegsOk
  <2>2. CASE r # s
    BY <1>3, <1>8, <2>2 DEF KeyInv, RegsOk
  <2> QED
    BY <2>1, <2>2
<1>13. ASSUME NEW r \in Sess PROVE UsedOk(r)'
  <2>1. CASE r = s
    BY <1>3, <1>6, <1>9, <1>10, <2>1 DEF UsedOk
  <2>2. CASE r # s /\ Owner(r) = n
    BY <1>10, <2>2 DEF UsedOk
  <2>3. CASE r # s /\ Owner(r) # n
    <3>1. UsedOk(r) /\ Owner(r) \in Node
      BY OwnerIsNode DEF KeyInv
    <3>2. conn'[Owner(r)] = conn[Owner(r)] /\ phase'[Owner(r)] = phase[Owner(r)]
      BY <1>10, <2>3, <3>1
    <3>3. hubSt'[r] = hubSt[r] /\ Regs(r)' = Regs(r) /\ Acks(r)' = Acks(r)
      BY <1>8, <2>3
    <3> QED
      BY <1>3, <3>1, <3>2, <3>3 DEF UsedOk
  <2> QED
    BY <2>1, <2>2, <2>3
<1>14. ASSUME NEW m \in Node PROVE NodeOk(m)'
  BY <1>3, <1>10 DEF KeyInv, NodeOk
<1> QED
  BY <1>11, <1>12, <1>13, <1>14 DEF KeyInv
\* An agent that leaves its connection, with the same key or a newer one.
LEMMA LeaveKeys ==
  ASSUME BaseInv, KeyInv, NEW n \in Node,
         UNCHANGED <<hubSt, inb, pc, registered, reg, lastWG, revokedDB, torn>>,
         NEW ph \in {"down", "gone"}, phase' = [phase EXCEPT ![n] = ph],
         conn' = [conn EXCEPT ![n] = None],
         \A s \in Sess : out'[s] = IF s = conn[n] THEN <<>> ELSE out[s],
         key' \in [Node -> Nat], key'[n] >= key[n], \A m \in Node \ {n} : key'[m] = key[m]
  PROVE  KeyInv'
<1>1. /\ conn \in [Node -> Sess \cup {None}] /\ key \in [Node -> Nat]
      /\ phase \in [Node -> {"down", "registering", "up", "gone"}]
      /\ reg \in [Sess -> Nat] /\ lastWG \in [Node -> Nat \cup {None}]
      /\ inb \in [Sess -> Seq(ToHub)]
  BY DEF BaseInv, Types, ConnTypes, WgTypes, SessVarTypes, HubTypes, ChanTypes, Gen
<1>2. \A m \in Node : /\ m # n => conn'[m] = conn[m] /\ phase'[m] = phase[m]
                      /\ m = n => conn'[m] = None /\ phase'[m] = ph
  BY <1>1
<1>3. \A r \in Sess : Regs(r)' = Regs(r) /\ (r # conn[n] => Acks(r)' = Acks(r))
  BY DEF Regs, Acks
<1>4. \A r \in Sess : \A f \in Regs(r) : f.gen \in Nat
  <2> SUFFICES ASSUME NEW r \in Sess, NEW f \in Regs(r) PROVE f.gen \in Nat
    OBVIOUS
  <2>1. Range(inb[r]) \subseteq ToHub
    BY <1>1, RangeOfQueue
  <2>2. f \in ToHub /\ f.type = "register"
    BY <2>1 DEF Regs
  <2> QED
    BY <2>2 DEF ToHub, Gen
<1>5. ASSUME NEW r \in Sess PROVE SlotOk(r)'
  <2>1. conn'[Owner(r)] # r => out'[r] = <<>>
    <3>1. CASE Owner(r) = n
      BY <1>2, <3>1, NoneIsNoSession DEF KeyInv, SlotOk
    <3>2. CASE Owner(r) # n
      BY <1>2, <3>2, OwnerIsNode DEF KeyInv, SlotOk
    <3> QED
      BY <3>1, <3>2
  <2> QED
    BY <2>1 DEF KeyInv, SlotOk
<1>6. ASSUME NEW r \in Sess PROVE RegsOk(r)'
  <2>1. RegsOk(r) /\ Owner(r) \in Node /\ reg[r] \in Nat
    BY <1>1, OwnerIsNode DEF KeyInv
  <2>2. PICK a, b \in Nat : a = key[Owner(r)] /\ b = key'[Owner(r)]
    BY <1>1, <2>1
  <2>3. a <= b
    BY <2>1, <2>2
  <2>4. reg[r] <= b
    BY <2>1, <2>2, <2>3 DEF RegsOk
  <2>5. ASSUME NEW f \in Regs(r) PROVE f.gen <= b
    <3>1. f.gen \in Nat /\ f.gen <= a
      BY <1>4, <2>1, <2>2 DEF RegsOk
    <3> QED
      BY <2>3, <3>1
  <2> QED
    BY <1>3, <2>2, <2>4, <2>5 DEF RegsOk
<1>7. ASSUME NEW r \in Sess PROVE UsedOk(r)'
  <2>1. CASE Owner(r) = n
    BY <1>2, <2>1, NoneIsNoSession DEF UsedOk
  <2>2. CASE Owner(r) # n
    <3>1. r # conn[n]
      BY <2>2, NoneIsNoSession DEF KeyInv, NodeOk
    <3>2. UsedOk(r) /\ Owner(r) \in Node
      BY OwnerIsNode DEF KeyInv
    <3>3. /\ conn'[Owner(r)] = conn[Owner(r)] /\ phase'[Owner(r)] = phase[Owner(r)]
          /\ key'[Owner(r)] = key[Owner(r)]
      BY <1>2, <2>2, <3>2
    <3>4. Regs(r)' = Regs(r) /\ Acks(r)' = Acks(r)
      BY <1>3, <3>1
    <3> QED
      BY <3>2, <3>3, <3>4 DEF UsedOk
  <2> QED
    BY <2>1, <2>2
<1>8. ASSUME NEW m \in Node PROVE NodeOk(m)'
  <2>1. NodeOk(m)
    BY DEF KeyInv
  <2>2. PICK a, b \in Nat : a = key[m] /\ b = key'[m] /\ a <= b
    BY <1>1
  <2>3. lastWG[m] # None => lastWG[m] \in Nat /\ lastWG[m] <= a
    BY <1>1, <2>1, <2>2 DEF NodeOk
  <2>4. lastWG[m] # None => lastWG[m] <= b
    BY <2>2, <2>3
  <2> QED
    BY <1>2, <2>1, <2>2, <2>4 DEF NodeOk
<1> QED
  BY <1>5, <1>6, <1>7, <1>8 DEF KeyInv

\* The steps with which an agent leaves.
LEMMA LeavingKeys ==
  ASSUME BaseInv, KeyInv, NEW n \in Node,
         LoseConn(n) \/ RegisterFails(n) \/ ApplyRotate(n) \/ ApplyKick(n) \/ AgentRestart(n)
  PROVE  KeyInv'
<1>1. /\ key \in [Node -> Nat] /\ conn[n] \in Sess \cup {None} /\ out \in [Sess -> Seq(ToAgent)]
  BY DEF BaseInv, Types, WgTypes, ConnTypes, ChanTypes, Gen
<1>2. UNCHANGED <<hubSt, inb, pc, registered, reg, lastWG, revokedDB, torn>>
  BY DEF LoseConn, RegisterFails, ApplyRotate, ApplyKick, AgentRestart, dbVars, hubVars, sessVars
<1>3. key' = key \/ key' = [key EXCEPT ![n] = @ + 1]
  BY DEF LoseConn, RegisterFails, ApplyRotate, ApplyKick, AgentRestart, wgVars
<1>4. key' \in [Node -> Nat] /\ key'[n] >= key[n] /\ \A m \in Node \ {n} : key'[m] = key[m]
  BY <1>1, <1>3
<1>5. \E ph \in {"down", "gone"} :
        /\ phase' = [phase EXCEPT ![n] = ph] /\ conn' = [conn EXCEPT ![n] = None]
        /\ \A s \in Sess : out'[s] = IF s = conn[n] THEN <<>> ELSE out[s]
  <2>1. CASE AgentRestart(n)
    BY <2>1 DEF AgentRestart
  <2>2. CASE ~AgentRestart(n)
    <3>1. \E ph \in {"down", "gone"} : Hangup(n, ph)
      BY <2>2 DEF LoseConn, RegisterFails, ApplyRotate, ApplyKick
    <3> QED
      BY <1>1, <3>1 DEF Hangup
  <2> QED
    BY <2>1, <2>2
<1> QED
  BY <1>2, <1>4, <1>5, LeaveKeys

\* A register_ack takes the agent up; the hub has handled its register.
LEMMA RegisterAckKeys ==
  ASSUME BaseInv, KeyInv, NEW n \in Node, RegisterAck(n)
  PROVE  KeyInv'
<1>1. HasFrame(n) /\ Frame(n).type = "register_ack"
  BY DEF RegisterAck
<1>2. PICK c \in Sess : c = conn[n] /\ out[c] # <<>> /\ Frame(n) = Head(out[c])
  BY <1>1, FrameType DEF BaseInv, HasFrame, Frame
<1>3. /\ UNCHANGED <<hubSt, inb, conn, key, pc, registered, reg, lastWG, revokedDB, torn>>
      /\ phase' = [phase EXCEPT ![n] = "up"] /\ out' = [out EXCEPT ![c] = Tail(@)]
  BY <1>2 DEF RegisterAck, dbVars, hubVars, sessVars
<1>4. out \in [Sess -> Seq(ToAgent)] /\ phase \in [Node -> {"down", "registering", "up", "gone"}]
  BY DEF BaseInv, Types, ChanTypes, ConnTypes
<1>5. Owner(c) = n
  BY <1>2, NoneIsNoSession DEF KeyInv, NodeOk
<1>6. Head(out[c]) \in Acks(c) /\ Range(Tail(out[c])) \subseteq Range(out[c])
  <2>1. Head(out[c]) \in Range(out[c]) /\ Range(Tail(out[c])) \subseteq Range(out[c])
    BY <1>2, <1>4, RangeOfTail
  <2> QED
    BY <1>1, <1>2, <2>1 DEF Acks
<1>7. hubSt[c] # "none" => registered[c]
  BY <1>2, <1>5, <1>6 DEF KeyInv, UsedOk
<1>8. \A r \in Sess : out'[r] = IF r = c THEN Tail(out[c]) ELSE out[r]
  BY <1>3, <1>4
<1>9. \A r \in Sess : Regs(r)' = Regs(r) /\ Acks(r)' \subseteq Acks(r)
  BY <1>3, <1>6, <1>8 DEF Regs, Acks
<1>10. ASSUME NEW r \in Sess PROVE SlotOk(r)'
  BY <1>2, <1>3, <1>5, <1>8 DEF KeyInv, SlotOk
<1>11. ASSUME NEW r \in Sess PROVE RegsOk(r)'
  BY <1>3, <1>9 DEF KeyInv, RegsOk
<1>12. ASSUME NEW r \in Sess PROVE UsedOk(r)'
  <2>1. CASE r = c
    BY <1>2, <1>3, <1>5, <1>7, <1>9, <2>1 DEF KeyInv, UsedOk
  <2>2. CASE r # c /\ Owner(r) = n
    BY <1>2, <1>3, <2>2 DEF UsedOk
  <2>3. CASE Owner(r) # n
    BY <1>3, <1>4, <1>9, <2>3, OwnerIsNode DEF KeyInv, UsedOk
  <2> QED
    BY <2>1, <2>2, <2>3
<1>13. ASSUME NEW m \in Node PROVE NodeOk(m)'
  BY <1>3, <1>4 DEF KeyInv, NodeOk
<1> QED
  BY <1>10, <1>11, <1>12, <1>13 DEF KeyInv
\* The invariant behind FreshKey.
FreshInv == BaseInv /\ KeyInv

\* Initially nothing is on its way.
LEMMA FreshInit == Init => FreshInv
<1> SUFFICES ASSUME Init PROVE FreshInv
  OBVIOUS
<1>1. BaseInv
  BY BaseInit
<1>2. /\ hubSt = [s \in Sess |-> "none"] /\ registered = [s \in Sess |-> FALSE]
      /\ pc = [s \in Sess |-> "idle"] /\ reg = [s \in Sess |-> 0]
      /\ out = [s \in Sess |-> <<>>] /\ inb = [s \in Sess |-> <<>>]
      /\ conn = [n \in Node |-> None] /\ key = [n \in Node |-> 0] /\ lastWG = [n \in Node |-> None]
  BY DEF Init
<1>3. \A s \in Sess : Regs(s) = {}
  BY <1>2, RangeOfEmpty DEF Regs
<1>4. ASSUME NEW s \in Sess PROVE SlotOk(s) /\ RegsOk(s) /\ UsedOk(s)
  <2>1. Owner(s) \in Node /\ conn[Owner(s)] # s
    BY <1>2, OwnerIsNode, NoneIsNoSession
  <2>2. SlotOk(s)
    BY <1>2 DEF SlotOk
  <2>3. RegsOk(s)
    BY <1>2, <1>3, <2>1 DEF RegsOk
  <2> QED
    BY <2>1, <2>2, <2>3 DEF UsedOk
<1>5. ASSUME NEW n \in Node PROVE NodeOk(n)
  BY <1>2 DEF NodeOk
<1> QED
  BY <1>1, <1>4, <1>5 DEF FreshInv, KeyInv

\* Every step keeps it.
LEMMA FreshStep == FreshInv /\ [Next]_vars => FreshInv'
<1> SUFFICES ASSUME BaseInv, KeyInv, [Next]_vars PROVE KeyInv'
  BY BaseStep DEF FreshInv
<1>1. ASSUME NEW s \in Sess, SessionStep(s) \/ CloseConn(s) PROVE KeyInv'
  <2>1. CASE RunSession(s) \/ HandleAck(s) \/ CloseConn(s)
    BY <2>1, QuietSessionSteps, QuietKeeps DEF BaseInv
  <2>2. CASE ReadRegister(s) \/ HandleRegister(s) \/ SendRegisterAck(s) \/ DropSession(s)
    BY <2>2, ReadRegisterKeys, HandleRegisterKeys, SendRegisterAckKeys, DropSessionKeys
  <2> QED
    BY <1>1, <2>1, <2>2 DEF SessionStep
<1>2. ASSUME NEW t \in todo, RequestStep(t) PROVE KeyInv'
  <2>1. CASE DeleteNodeForget(t)
    BY <2>1, DeleteNodeForgetKeys
  <2>2. CASE ~DeleteNodeForget(t)
    BY <1>2, <2>2, QuietRequestSteps, QuietKeeps DEF RequestStep
  <2> QED
    BY <2>1, <2>2
<1>3. ASSUME NEW n \in Node, AgentStep(n) \/ LoseConn(n) \/ RegisterFails(n) PROVE KeyInv'
  <2>1. ASSUME NEW s \in Sess, Connect(n, s) PROVE KeyInv'
    BY <2>1, ConnectKeys
  <2>2. CASE RegisterAck(n)
    BY <2>2, RegisterAckKeys
  <2>3. CASE ApplyPeer(n) \/ ApplyRemove(n)
    BY <2>3, QuietAgentSteps, QuietKeeps
  <2>4. CASE ApplyRotate(n) \/ ApplyKick(n) \/ LoseConn(n) \/ RegisterFails(n)
    BY <2>4, LeavingKeys
  <2> QED
    BY <1>3, <2>1, <2>2, <2>3, <2>4 DEF AgentStep
<1>4. CASE AdminStep
  BY <1>4, QuietRequestSteps, QuietKeeps
<1>5. CASE Fault
  <2>1. CASE HubRestart
    BY <2>1, HubRestartKeys
  <2>2. ASSUME NEW n \in Node, AgentRestart(n) PROVE KeyInv'
    BY <2>2, LeavingKeys
  <2>3. ASSUME NEW n \in Node, GcOfflinePeer(n) \/ ApplyPeerFails(n) PROVE KeyInv'
    BY <2>3, QuietRequestSteps, QuietAgentSteps, QuietKeeps
  <2> QED
    BY <1>5, <2>1, <2>2, <2>3 DEF Fault
<1>6. CASE UNCHANGED vars
  <2>1. UNCHANGED <<hubSt, out, inb, pc, registered, reg, phase, conn, key, lastWG, revokedDB, torn>>
    BY <1>6 DEF vars, dbVars, hubVars, sessVars, chanVars, agentVars, wgVars
  <2> QED
    BY <2>1, IdleIsQuiet, QuietKeeps
<1> QED
  BY <1>1, <1>2, <1>3, <1>4, <1>5, <1>6 DEF Next

\* The hub hands out the key a connected agent really uses, for any number
\* of nodes and connections: keys change without notice on rotate_wg and on
\* restarts, old connections linger, and only a register that an older
\* connection brings in late can undo a newer one (handleRegister).
THEOREM KeysAreFresh == Spec => []FreshKey
<1>1. FreshInv => FreshKey
  <2> SUFFICES ASSUME FreshInv, NEW n \in Node \ revokedDB, Current(n), {n} \notin torn
               PROVE  lastWG[n] = key[n]
    BY DEF FreshKey
  <2>1. PICK s \in Sess : s = conn[n] /\ hubSt[s] = "open" /\ phase[n] = "up"
    BY DEF Current, FreshInv, BaseInv, Types, ConnTypes
  <2>2. Owner(s) = n
    BY <2>1, NoneIsNoSession DEF FreshInv, KeyInv, NodeOk
  <2> QED
    BY <2>1, <2>2 DEF FreshInv, KeyInv, UsedOk
<1> QED
  BY <1>1, FreshInit, FreshStep, PTL DEF Spec
==============================================================================
