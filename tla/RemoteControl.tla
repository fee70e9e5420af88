---------------------------- MODULE RemoteControl ----------------------------
(***************************************************************************)
(* Panel requests that an agent answers: reading its tool configuration    *)
(* (conf_get) and switching its services with commands that the operator's *)
(* browser seals under the view password (svc_action).                     *)
(*                                                                         *)
(* The hub keeps a waiter per API call (requestReply, handleConfResult in  *)
(* internal/hub/hub.go); the agent opens a command and refuses stale and   *)
(* repeated ones (openSvcCmd in internal/agent/svccmd.go). Calls, the      *)
(* sessions' read loops, the agents and the command line of the machines   *)
(* they run on interleave.                                                 *)
(***************************************************************************)
EXTENDS Integers, Sequences

CONSTANTS
  Node,
  Call,        \* API calls, each one the id of a request frame
  Cmd,         \* commands, each one the bytes of a nonce
  Text,        \* commands as they are posted, each one the text of its nonce
  CmdOf,       \* text -> the command that the text decodes to
  Window,      \* svcCmdWindow
  Skew,        \* how far the browser's clock is off
  MaxTime,     \* bound on the clock
  MaxConns,    \* bound on the connections of a node
  MaxKeys,     \* bound on the view passwords set
  MaxRestarts, \* bound on agent restarts
  None

ASSUME WindowAssumption == Window \in Nat
ASSUME SkewAssumption == Skew \in Nat
ASSUME BoundsAssumption == {MaxTime, MaxConns, MaxKeys, MaxRestarts} \subseteq Nat
ASSUME CmdOfAssumption == CmdOf \in [Text -> Cmd]
ASSUME NoneAssumption == None \notin Int \cup Node \cup Call \cup Text

VARIABLES
  clock,      \* the agents' time
  sealed,     \* what a text decodes to: its node, the key of its seal, its time stamp
  \* struct Hub
  sess,       \* h.sessions: node -> number of its connection, or None
  confWait,   \* h.confWait: the calls that have a waiter
  delivering, \* replies between the unlock of handleConfResult and w.ch <-
  \* an API call (requestReply's locals)
  pc,
  node,       \* id
  body,       \* the text that is relayed, or None for conf_get
  via,        \* s: the connection found
  ch,         \* the buffered channel
  answer,     \* what the call returned
  \* the connection, by node
  conn,       \* the agent's connection, or None
  ready,      \* the hub has queued the register_ack
  toAgent, toHub,
  \* struct Agent and its files
  seen,       \* a.svcSeen: the texts of nonces, d.Nonce
  opened,     \* the call whose command is open and has not run yet
  viewKey,    \* view.key: a key, None (no file) or -1 (being written)
  \* bookkeeping of the model
  conns, keys, restarts,
  runs,       \* how often the present agent process ran a command, by text
  ranFor      \* the calls for which a command was run

hubVars   == <<sess, confWait, delivering>>
callVars  == <<pc, node, body, via, ch, answer>>
chanVars  == <<conn, ready, toAgent, toHub>>
agentVars == <<seen, opened, viewKey>>
counters  == <<conns, keys, restarts>>
vars == <<clock, sealed, hubVars, callVars, chanVars, agentVars, counters, runs, ranFor>>

Torn == -1
Sealed == [node : Node, key : Nat, ts : Int]
Result == {"conf", "nokey", "unreadable", "done", "failed", "rejected"}
Reply == [call : Call, res : Result]

ASSUME OutcomeAssumption == None \notin Result \cup {"offline", "timeout"}

Init ==
  /\ clock = 0
  /\ sealed = [t \in Text |-> None]
  /\ sess = [n \in Node |-> None]
  /\ confWait = {} /\ delivering = {}
  /\ pc = [r \in Call |-> "idle"]
  /\ node = [r \in Call |-> None]
  /\ body = [r \in Call |-> None]
  /\ via = [r \in Call |-> None]
  /\ ch = [r \in Call |-> None]
  /\ answer = [r \in Call |-> None]
  /\ conn = [n \in Node |-> None]
  /\ ready = [n \in Node |-> FALSE]
  /\ toAgent = [n \in Node |-> <<>>]
  /\ toHub = [n \in Node |-> <<>>]
  /\ seen = [n \in Node |-> {}]
  /\ opened = [n \in Node |-> None]
  /\ viewKey = [n \in Node |-> None]
  /\ conns = [n \in Node |-> 0] /\ keys = 0 /\ restarts = 0
  /\ runs = [t \in Text |-> 0]
  /\ ranFor = {}

------------------------------------------------------------------------------
(* The browser and the API calls at the hub                                *)

\* The browser seals a command with the key it has unlocked. Every text of its
\* nonce decodes to the same sealed bytes.
Seal(c, n, ts) ==
  /\ viewKey[n] \notin {None, Torn}
  /\ \A t \in Text : CmdOf[t] = c => sealed[t] = None
  /\ ts \in clock - Skew .. clock + Skew
  /\ sealed' = [t \in Text |-> IF CmdOf[t] = c
                              THEN [node |-> n, key |-> viewKey[n], ts |-> ts] ELSE sealed[t]]
  /\ UNCHANGED <<clock, hubVars, callVars, chanVars, agentVars, counters, runs, ranFor>>

\* requestReply up to its unlock, for conf_get (t = None) or for a command,
\* which may be one that was posted before.
Request(r, n, t) ==
  /\ pc[r] = "idle" /\ (t # None => sealed[t] # None)
  /\ node' = [node EXCEPT ![r] = n]
  /\ body' = [body EXCEPT ![r] = t]
  /\ IF sess[n] = None
       THEN /\ answer' = [answer EXCEPT ![r] = "offline"]
            /\ pc' = [pc EXCEPT ![r] = "done"]
            /\ UNCHANGED <<confWait, via>>
       ELSE /\ confWait' = confWait \cup {r}
            /\ via' = [via EXCEPT ![r] = sess[n]]
            /\ pc' = [pc EXCEPT ![r] = "send"]
            /\ UNCHANGED answer
  /\ UNCHANGED <<clock, sealed, sess, delivering, ch, chanVars, agentVars, counters, runs,
                 ranFor>>

\* s.send: nothing arrives through a connection that is gone.
SendRequest(r) ==
  LET n == node[r] IN
  /\ pc[r] = "send"
  /\ pc' = [pc EXCEPT ![r] = "wait"]
  /\ toAgent' = IF via[r] = conn[n] /\ via[r] = sess[n]
                  THEN [toAgent EXCEPT ![n] = Append(@, r)] ELSE toAgent
  /\ UNCHANGED <<clock, sealed, hubVars, node, body, via, ch, answer, conn, ready, toHub, agentVars,
                 counters, runs, ranFor>>

\* The select: an answer in the channel ...
Receive(r) ==
  /\ pc[r] = "wait" /\ ch[r] # None
  /\ answer' = [answer EXCEPT ![r] = ch[r]]
  /\ pc' = [pc EXCEPT ![r] = "cleanup"]
  /\ UNCHANGED <<clock, sealed, hubVars, node, body, via, ch, chanVars, agentVars, counters,
                 runs, ranFor>>

\* ... or the timer, also when both are ready.
Timeout(r) ==
  /\ pc[r] = "wait"
  /\ answer' = [answer EXCEPT ![r] = "timeout"]
  /\ pc' = [pc EXCEPT ![r] = "cleanup"]
  /\ UNCHANGED <<clock, sealed, hubVars, node, body, via, ch, chanVars, agentVars, counters,
                 runs, ranFor>>

\* Mutant: only an answered call removes its waiter.
WaitersAfterAnswered(r) == IF answer[r] = "timeout" THEN confWait ELSE confWait \ {r}

\* h.confWait after cleanup.
WaitersAfter(r) == confWait \ {r}

Cleanup(r) ==
  /\ pc[r] = "cleanup"
  /\ confWait' = WaitersAfter(r)
  /\ pc' = [pc EXCEPT ![r] = "done"]
  /\ UNCHANGED <<clock, sealed, sess, delivering, node, body, via, ch, answer, chanVars,
                 agentVars, counters, runs, ranFor>>

\* Mutant: replies are matched by the node alone.
WaiterOfNode(n, f) ==
  LET own == {r \in confWait : node[r] = n}
  IN  IF own = {} THEN {} ELSE {CHOOSE r \in own : TRUE}

\* The waiter that a reply on a session of n belongs to.
WaiterOf(n, f) == {r \in confWait : r = f.call /\ node[r] = n}

\* handleConfResult, under the lock: a reply nobody waits for is dropped.
TakeWaiter(n) ==
  LET f == Head(toHub[n]) IN
  /\ sess[n] # None /\ toHub[n] # <<>>
  /\ confWait' = confWait \ WaiterOf(n, f)
  /\ delivering' = delivering \cup {[call |-> r, res |-> f.res] : r \in WaiterOf(n, f)}
  /\ toHub' = [toHub EXCEPT ![n] = Tail(@)]
  /\ UNCHANGED <<clock, sealed, sess, callVars, conn, ready, toAgent, agentVars, counters,
                 runs, ranFor>>

\* w.ch <- env.Data, after the unlock.
Deliver(f) ==
  /\ f \in delivering /\ ch[f.call] = None
  /\ ch' = [ch EXCEPT ![f.call] = f.res]
  /\ delivering' = delivering \ {f}
  /\ UNCHANGED <<clock, sealed, sess, confWait, pc, node, body, via, answer, chanVars,
                 agentVars, counters, runs, ranFor>>

------------------------------------------------------------------------------
(* The agent                                                               *)

\* The agent writes the reply to call r on its connection, if the hub still
\* reads that one.
Write(n, r, res) ==
  toHub' = IF conn[n] # None /\ conn[n] = sess[n]
             THEN [toHub EXCEPT ![n] = Append(@, [call |-> r, res |-> res])] ELSE toHub

\* The next frame of an agent that is not busy with a command.
HasFrame(n) == conn[n] # None /\ ready[n] /\ opened[n] = None /\ toAgent[n] # <<>>
Frame(n) == Head(toAgent[n])

\* Mutant: without a key the contents are sent as they are.
ConfResultPlain(n) == IF viewKey[n] \in {None, Torn} THEN "plain" ELSE "conf"

\* sealToolConf: contents only under a key, and none when it cannot be read.
ConfResult(n) == CASE viewKey[n] = None -> "nokey"
                   [] viewKey[n] = Torn -> "unreadable"
                   [] OTHER -> "conf"

\* dispatch of conf_get.
ConfGet(n) ==
  /\ HasFrame(n) /\ body[Frame(n)] = None
  /\ Write(n, Frame(n), ConfResult(n))
  /\ toAgent' = [toAgent EXCEPT ![n] = Tail(@)]
  /\ UNCHANGED <<clock, sealed, hubVars, callVars, conn, ready, agentVars, counters, runs,
                 ranFor>>

\* The command is authentic and fresh.
Acceptable(n, t) ==
  /\ viewKey[n] = sealed[t].key /\ sealed[t].node = n
  /\ sealed[t].ts \in clock - Window .. clock + Window

\* Mutant: the cache forgets a command that is just fresh enough.
RememberedInWindow(n) == {t \in seen[n] : sealed[t].ts > clock - Window}

\* a.svcSeen without the entries that are too old to matter.
Remembered(n) == {t \in seen[n] : sealed[t].ts >= clock - 2 * Window}

\* dispatch of svc_action, openSvcCmd: seal and freshness, which are those of the
\* decoded bytes, then repetition, which is that of the text.
OpenSvcCmd(n) ==
  LET r == Frame(n)
      t == body[r]
  IN
  /\ HasFrame(n) /\ t # None
  /\ toAgent' = [toAgent EXCEPT ![n] = Tail(@)]
  /\ IF Acceptable(n, t) /\ t \notin Remembered(n)
       THEN /\ seen' = [seen EXCEPT ![n] = Remembered(n) \cup {t}]
            /\ opened' = [opened EXCEPT ![n] = r]
            /\ UNCHANGED toHub
       ELSE /\ seen' = IF Acceptable(n, t) THEN [seen EXCEPT ![n] = Remembered(n)] ELSE seen
            /\ Write(n, r, "rejected")
            /\ UNCHANGED opened
  /\ UNCHANGED <<clock, sealed, hubVars, callVars, conn, ready, viewKey, counters, runs,
                 ranFor>>

\* Mutant: the refusal does not end the handler.
UnknownAliasGoesOn(n) ==
  /\ opened[n] # None
  /\ Write(n, opened[n], "rejected")
  /\ UNCHANGED <<clock, sealed, hubVars, callVars, conn, ready, toAgent, agentVars, counters,
                 runs, ranFor>>

\* handleSvcAction with an open command: the alias is not registered or the
\* build cannot control services ...
UnknownAlias(n) ==
  /\ opened[n] # None
  /\ Write(n, opened[n], "rejected")
  /\ opened' = [opened EXCEPT ![n] = None]
  /\ UNCHANGED <<clock, sealed, hubVars, callVars, conn, ready, toAgent, seen, viewKey,
                 counters, runs, ranFor>>

\* ... or systemctl is run, and succeeds, fails or is killed.
RunSvc(n, res) ==
  LET t == body[opened[n]] IN
  /\ opened[n] # None
  /\ runs' = [runs EXCEPT ![t] = @ + 1]
  /\ ranFor' = ranFor \cup {opened[n]}
  /\ Write(n, opened[n], res)
  /\ opened' = [opened EXCEPT ![n] = None]
  /\ UNCHANGED <<clock, sealed, hubVars, callVars, conn, ready, toAgent, seen, viewKey,
                 counters>>

------------------------------------------------------------------------------
(* Connections, restarts, the command line and time                        *)

\* The agent connects and the hub enters the session, not registered yet;
\* frames on an older one are lost.
Reconnect(n) ==
  /\ conn[n] = None /\ opened[n] = None /\ conns[n] < MaxConns
  /\ conns' = [conns EXCEPT ![n] = @ + 1]
  /\ conn' = [conn EXCEPT ![n] = conns[n] + 1]
  /\ ready' = [ready EXCEPT ![n] = FALSE]
  /\ sess' = [sess EXCEPT ![n] = conns[n] + 1]
  /\ toHub' = [toHub EXCEPT ![n] = <<>>]
  /\ UNCHANGED <<clock, sealed, confWait, delivering, callVars, toAgent, agentVars, keys,
                 restarts, runs, ranFor>>

\* The hub answers the register. A request that was queued before the answer
\* is no register_ack to the agent, which can only hang up (Break).
RegisterAck(n) ==
  /\ conn[n] # None /\ conn[n] = sess[n] /\ ~ready[n] /\ toAgent[n] = <<>>
  /\ ready' = [ready EXCEPT ![n] = TRUE]
  /\ UNCHANGED <<clock, sealed, hubVars, callVars, conn, toAgent, toHub, agentVars, counters,
                 runs, ranFor>>

\* The agent's connection breaks; what the hub has received it may still read.
Break(n) ==
  /\ conn[n] # None
  /\ conn' = [conn EXCEPT ![n] = None]
  /\ ready' = [ready EXCEPT ![n] = FALSE]
  /\ toAgent' = [toAgent EXCEPT ![n] = <<>>]
  /\ UNCHANGED <<clock, sealed, hubVars, callVars, toHub, agentVars, counters, runs, ranFor>>

\* dropSession, on an error, a silent peer or a full queue, maybe before the
\* agent notices: waiters are left to their timers.
DropSession(n) ==
  /\ sess[n] # None
  /\ sess' = [sess EXCEPT ![n] = None]
  /\ toHub' = [toHub EXCEPT ![n] = <<>>]
  /\ UNCHANGED <<clock, sealed, confWait, delivering, callVars, conn, ready, toAgent, agentVars,
                 counters, runs, ranFor>>

\* The agent process is restarted; it remembers no command.
AgentRestart(n) ==
  /\ restarts < MaxRestarts /\ restarts' = restarts + 1
  /\ conn' = [conn EXCEPT ![n] = None]
  /\ ready' = [ready EXCEPT ![n] = FALSE]
  /\ toAgent' = [toAgent EXCEPT ![n] = <<>>]
  /\ seen' = [seen EXCEPT ![n] = {}]
  /\ opened' = [opened EXCEPT ![n] = None]
  /\ runs' = [t \in Text |-> IF sealed[t] # None /\ sealed[t].node = n THEN 0 ELSE runs[t]]
  /\ UNCHANGED <<clock, sealed, hubVars, callVars, toHub, viewKey, conns, keys, ranFor>>

\* set-view-pass: the file is truncated and then written.
SetViewPassword(n) ==
  /\ keys < MaxKeys
  /\ keys' = keys + 1
  /\ viewKey' = [viewKey EXCEPT ![n] = Torn]
  /\ UNCHANGED <<clock, sealed, hubVars, callVars, chanVars, seen, opened, conns, restarts,
                 runs, ranFor>>

ViewPasswordSet(n) ==
  /\ viewKey[n] = Torn
  /\ viewKey' = [viewKey EXCEPT ![n] = keys]
  /\ UNCHANGED <<clock, sealed, hubVars, callVars, chanVars, seen, opened, counters, runs,
                 ranFor>>

\* clear-view-pass.
ClearViewPassword(n) ==
  /\ viewKey[n] # None
  /\ viewKey' = [viewKey EXCEPT ![n] = None]
  /\ UNCHANGED <<clock, sealed, hubVars, callVars, chanVars, seen, opened, counters, runs,
                 ranFor>>

Tick ==
  /\ clock < MaxTime /\ clock' = clock + 1
  /\ UNCHANGED <<sealed, hubVars, callVars, chanVars, agentVars, counters, runs, ranFor>>

------------------------------------------------------------------------------
CallStep(r) == SendRequest(r) \/ Receive(r) \/ Timeout(r) \/ Cleanup(r)

AgentStep(n) == ConfGet(n) \/ OpenSvcCmd(n) \/ UnknownAlias(n)
                  \/ \E res \in {"done", "failed"} : RunSvc(n, res)

LocalStep(n) == SetViewPassword(n) \/ ViewPasswordSet(n) \/ ClearViewPassword(n)
                  \/ AgentRestart(n) \/ Reconnect(n) \/ Break(n)

Next ==
  \/ \E c \in Cmd, n \in Node : \E ts \in clock - Skew .. clock + Skew : Seal(c, n, ts)
  \/ \E r \in Call, n \in Node : \E t \in Text \cup {None} : Request(r, n, t)
  \/ \E r \in Call : CallStep(r)
  \/ \E n \in Node : TakeWaiter(n) \/ RegisterAck(n) \/ DropSession(n)
                        \/ AgentStep(n) \/ LocalStep(n)
  \/ \E f \in delivering : Deliver(f)
  \/ Tick

Spec == Init /\ [][Next]_vars

------------------------------------------------------------------------------
(* Properties                                                              *)

\* Every variable has its type.
TypeOK ==
  /\ clock \in Nat
  /\ sealed \in [Text -> Sealed \cup {None}]
  /\ sess \in [Node -> Nat \cup {None}]
  /\ confWait \subseteq Call /\ delivering \subseteq Reply
  /\ pc \in [Call -> {"idle", "send", "wait", "cleanup", "done"}]
  /\ node \in [Call -> Node \cup {None}]
  /\ body \in [Call -> Text \cup {None}]
  /\ via \in [Call -> Nat \cup {None}]
  /\ ch \in [Call -> Result \cup {None}]
  /\ answer \in [Call -> Result \cup {"offline", "timeout", None}]
  /\ conn \in [Node -> Nat \cup {None}]
  /\ ready \in [Node -> BOOLEAN]
  /\ toAgent \in [Node -> Seq(Call)]
  /\ toHub \in [Node -> Seq(Reply)]
  /\ seen \in [Node -> SUBSET Text]
  /\ opened \in [Node -> Call \cup {None}]
  /\ viewKey \in [Node -> Nat \cup {None, Torn}]
  /\ conns \in [Node -> Nat] /\ keys \in Nat /\ restarts \in Nat
  /\ runs \in [Text -> Nat]
  /\ ranFor \subseteq Call

\* What is posted in one text is run at most once by an agent process, however
\* often it is posted and although the cache is pruned (openSvcCmd). This is no
\* more than the code keeps: the cache compares texts, so that two texts of one
\* nonce are two commands to it, and a restart empties it.
RunOnce == \A t \in Text : runs[t] <= 1

\* A call returns the answer to its own request, whatever other calls, late
\* answers and reconnects there are: "done" only if the command was run for
\* this call, "rejected" only if it was not (requestReply, handleConfResult).
AnswerMatches ==
  \A r \in Call :
    /\ answer[r] \in {"done", "failed"} => r \in ranFor
    /\ answer[r] = "rejected" => body[r] # None /\ r \notin ranFor
    /\ answer[r] \in {"conf", "nokey", "unreadable"} => body[r] = None

\* A call that has returned leaves no waiter behind, whether its answer came,
\* came late or never came.
NoLeakedWaiter == \A r \in Call : pc[r] = "done" => r \notin confWait

\* The hub's waiters, the frames and the agent's bookkeeping implement the
\* call of RemoteCall: its effect happens at most once and never after the
\* call was told otherwise, and its outcome is final (requestReply, dispatch).
Promise == INSTANCE RemoteCall WITH
             phase   <- [r \in Call |-> CASE pc[r] = "idle" -> "new"
                                         [] pc[r] \in {"send", "wait"} -> "open"
                                         [] OTHER -> "closed"],
             ran     <- ranFor,
             outcome <- answer

Implements == Promise!Spec
==============================================================================
