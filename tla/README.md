# LightPN: TLA+ models, checks and proofs

LightPN connects machines by WireGuard. A *hub* keeps nodes and links in SQLite and talks to one
*agent* per machine over a TLS control connection. The hub never carries traffic: it tells the two
agents of a link each other's ephemeral WireGuard key and endpoint, and they configure their kernel
devices. This directory models the parts of the program where goroutines, agents, database calls
and restarts interleave. Paths below are relative to `src/`.

## 1. Inventory

| Component | State | Operations | Talks to |
|---|---|---|---|
| Hub control channel (`internal/hub/control.go`, `hub.go`) | `h.sessions`, `h.lastWG`, `h.links` (ack flags), `h.gcDone` under `h.mu`; per session a queue `out` of 64 frames | accept, runSession, register, ack, heartbeat, dropSession, pushLink, removeLinkFromPeers, gcOfflinePeers | agents by frames, store by calls, API handlers |
| SQLite store (`internal/hub/store.go`) | tables nodes, links, tokens, ip_cooldown, svc_names, admins | one statement or one transaction per call; one connection | hub, API |
| Enrollment (`handleEnroll`, `store.go`) | tokens, addresses, cooldowns, `h.enrollTries` | rate limit, ConsumeToken, AllocateIP, SignCSR, CreateNode | agents without a certificate |
| Admin API (`internal/hub/api.go`) | panel sessions, login attempts | link, node, token and service requests, login, events | hub, store, browser |
| Request and reply (`requestReply`, `handleConfResult`) | `h.confWait`, one buffered channel per call | request, reply, timeout | API, agents |
| Agent (`internal/agent/agent.go`) | the connection, the key, replay cache `svcSeen` | session with backoff, register, dispatch, heartbeat | hub, device |
| WireGuard device (`wg_linux.go`) | kernel peers, `nodeKeys`, `peerNodes` | Init, AddPeer, UpdatePeer, RemovePeer, Reconcile, Rotate | agent |
| Exit SOCKS (`socks.go`) | designated exits, upstream in use | SetLinkExit, ClearByLink, Reconcile | agent |
| Sealed commands (`svccmd.go`, `svcreg.go`, `viewkey.go`, `svcctl*.go`) | `view.key`, `services.json`, `svcSeen` | openSvcCmd, lookupSvc, systemctl, set- and clear-view-pass | browser (through the hub) |
| Metrics ring (`ring.go`), heartbeat | slots and previous counters per node; rate and handshake per link (`linkRT`) | Ingest, Range, Latest, Drop, handleHeartbeat | agents, panel |
| PKI and identity (`internal/pki`, `identity.go`, `enroll.go`) | CA, server certificate and identity files | create, load, sign, save, destroy | hub, enrollment, agent |
| Panel front end (`web/app.js`), event bus | `state`, the WebSocket, a channel of 64 events per subscriber | login, snapshots, connectWS, handleEvent, publish | API |
| Command lines (`cmd/`) | none of their own | serve, enroll, run, svc-add, svc-del | files of hub and agent |
| Configuration, wire framing, stubs | | | |

What is hard in this program, and what makes it right:

- *Interleaving.* `h.mu` protects maps, not operations. handleRegister, CreateLink, SetLinkExit,
  DeleteLink and DeleteNode are each a database call followed by one or more critical sections.
  A connection can be taken over while its goroutine is inside any of them. Right: one live
  session per node, the key handed out is the key in use, kernels match the links.
- *Failure.* Agents and the hub restart, connections break unnoticed, queues overflow, the kernel
  refuses a peer. The only repair is the next register. Right: tunnels come back, nothing of a
  deleted link or node remains.
- *Check and act over several database calls.* Tokens and addresses. Right: a token is one-time,
  addresses are distinct, the cooldown is kept, the rate limit is exact.
- *Late and repeated messages.* Replies that race a timeout, commands posted twice. Right: an
  answer goes to its own call, no waiter leaks, a text that is posted again does not run again.
- *Files without locks or renames.* Everything persistent except the database is written by
  `os.WriteFile`, one file after the other. Right: what a restart finds fits together.
- *Clocks and counters of others.* Samples carry the agent's time and counters that restart at
  zero. Right: the curve is the history, no rate exceeds what was carried by more than the rounding.
- *A page fed by events and snapshots.* State changes first and is published afterwards, events may
  be dropped, answers overtake each other. Right: the page ends with the hub's state, on one socket.

`PROJECT.json` lists the hazards at their lines and the properties aimed at each.

## 2. Modules

| Module | Models | Used by |
|---|---|---|
| `Matchmaking` | hub control channel, agents, device, exits, link and node requests | `MCMatchmaking`, `MatchmakingProofs`, `DeliveryProofs` |
| `Enrollment` | the hub's enrollment path, tokens, addresses, node deletion | `MCEnrollment`, `EnrollmentProofs` |
| `RemoteControl` | request/reply, tool configuration, sealed commands | `MCRemoteControl`, `RemoteControlProofs` |
| `RemoteCall` | what a call to an agent promises (abstract) | `RemoteControl`, by INSTANCE |
| `Credentials` | CA, server certificate, identity and registry files, the processes that write them | `MCCredentials`, `CredentialsProofs` |
| `Telemetry` | heartbeats, metrics ring, a link's rate and handshake | `MCTelemetry`, `TelemetryProofs` |
| `Panel` | event bus, WebSocket, snapshots, the page | `MCPanel`, `PanelProofs` |
| `QueueLemmas` | facts about the queues of the models (no state) | `RemoteControlProofs`, `MatchmakingProofs` |

`MC*` modules only add model values, budgets and symmetry sets. `*Proofs` modules hold theorems and
the inductive invariants. Definitions named as mutants in a comment are plausible slips of the
definition that follows them; they are not part of any specification.

### Matchmaking

A step is one critical section of `h.mu`, one database call, or the handling of one frame by an
agent, which is single-threaded. `sessions`, `lastWG`, `acked`, `gcDone` are the Hub's fields;
`hubSt`, `registered`, `pc`, `reg`, `snap`, `exp`, `out`, `inb` belong to a connection; `phase`,
`conn`, `key`, `dev`, `exits`, `upstream` to an agent. `Scenarios` is a set of budgets for the
events of the environment; a behaviour starts with one of them. Keys are generations: a restart or
`rotate_wg` makes the next one. `store`, `revokedDB`, `seen`, `minted` survive HubRestart, the Hub's
fields do not, and agents and devices survive it as well.

handleRegister is three actions, as in the code: ReadRegister (LinksOfNode, before the lock),
HandleRegister (under the lock: key, expected peers, updates to the others), SendRegisterAck (after
the unlock, so that a push may be queued first, and TouchNode with it). Admin requests that take
several steps leave the rest of their work in `todo`: createLink then pushLink; SetLinkExit then
pushExit; DeleteLink then removeLink; DeleteNode's link list, its transaction, the cascade, the
kick, the close, the clean-up of `lastWG`.

The agent takes a first frame that is no `register_ack` as a failed register. Reconcile installs
exactly the acknowledged peers and refuses the whole list when one address cannot be parsed, as the
overwritten address of a deleted node cannot. AddPeer leaves an older key of the same peer in
place; UpdatePeer removes it.

`torn` is a ghost variable: the pairs of nodes for which steps overlapped in a way that leaves
kernels and database apart until the next register. The code repairs such a pair with that register,
but the model takes a pair out of `torn` only at a hub restart: in between, the properties make no
claim about it, neither that it is wrong nor that it is repaired. Delivered, NoGhostPeer, ExitFollowsLink,
FreshKey, OneKeyPerPeer, StatusCatchesUp and CutsAreIntended hold for everything outside it. TLC
finds this on the instances below and section 4 proves it for any, so the list of windows is complete for
these properties:

| Window | Where |
|---|---|
| W1: the links a register read are out of date when it takes the lock | `control.go:344` |
| W2: an older connection of a restarted agent writes its older key last | `control.go:351` |
| W3: CreateLink or SetLinkExit pushes a row that has changed or gone | `hub.go:349-375` |
| W4: removeLinkFromPeers runs after the pair was linked again and pushed | `hub.go:292-298` |
| W5: an end takes a new key between a link's deletion and its withdrawal | `hub.go:300-314` |
| W6: the device refuses a push; the negative ack is only logged | `agent.go:260-281` |
| W7: DeleteNode's list of links misses one inserted before its transaction | `store.go:198` |
| W8: DeleteNode forgets the node's key before a concurrent DeleteLink withdraws it | `hub.go:415` |

W1 is also stated as a violation (`missed_link`), because a comment says register completes such
a link.

In W8 the removal of the other end's peer is never sent, because `removeSideLocked` has no key to
name. W8, and the form of W3 in which two stale pushes follow one another, came out of the attempt to
prove NoGhostPeer and OneKeyPerPeer.

OneKeyPerPeer speaks of agents that are connected and registered, and whose node is not deleted.
While an agent is on its way back it may well hold two keys of a peer: a hub restart forgets what was
withdrawn, and only the next register_ack replaces the list. A deleted node that waits for its kick
may be sent a second key by a createLink that the API let pass before the deletion.

### Enrollment

One action per database call of handleEnroll: SelectToken, BurnToken, ReadUsed, ExpireCooldown,
ReadCooldown, CreateNode; RejectCSR and BadFrame are the error paths. DeleteNode reads the row
in one step and releases the address in a transaction later. `Size` is the number of addresses in
the network. HubRestart aborts the enrollments under way and forgets the rate limit's list. The
ghosts `freed` (last release of an address, never expired) and `late` (addresses released since a
connection read the cooldown table) are only used by the cooldown properties; `began` only by
RateBound.

### RemoteControl

requestReply is Request (under the lock), SendRequest, Receive or Timeout (the select, which may choose
either when both are ready), Cleanup. handleConfResult is TakeWaiter (under the lock) and Deliver (after
the unlock). A session exists before it is registered; a request queued before the register_ack makes
the agent hang up. A command is posted as a Text, and CmdOf is the decoding: several texts may stand for
the same sealed bytes. OpenSvcCmd checks authenticity (the key of `view.key` at that moment) and the
freshness window of what a text decodes to (`sealed`), prunes the nonce cache, and rejects a text it
remembers: the code decodes the nonce before it opens the seal and looks up the string as it came
(`svccmd.go:42`, `87`). RunOnce therefore says what that cache keeps: what is posted in one text runs at
most once in one agent process. It does not say that a sealed command runs once whatever its text, nor
across a restart of the agent, which empties the cache; the "no replay" of `hub.go:486` and
`AGENT.md:409` is wider than that, and no property states it. A command that is open has not run yet:
the connection may break and the agent may restart in between. A command whose action is not one of the
three is never sealed by the panel and not modelled; systemctl succeeds or fails as it likes.

`RemoteCall` is the promise behind it: a call is new, open or closed; its effect happens at most
once, never after the call was told that there is none; its outcome is final and does not lie
about the effect. Only a call that timed out may still have one. `Promise` instantiates it with
`pc`, `ranFor` and `answer`, and `Implements` says that every step of RemoteControl is a step of
it or leaves it alone.

### Credentials

Every os.WriteFile is two steps, Truncate and Write, of a process with a list of writes to do;
`Torn` is a file that does not parse. Key pairs, CAs and node ids are numbers, a certificate is
the record of its key, its issuer and its period. The hub goes through LoadOrCreate (CreateCA or
LoadCA), IssueServer and ServeControl; a failure ends the process and systemd starts it again. A
serving hub never renews its own certificate. enroll generates a key, dials, and saves what it is
answered in the order of Save; the token is spent then, whether the answer arrives or not
(EnrollFails). Destroy removes the files in any order. `clash` is a ghost: machines on which two
enrollments, or an enrollment and a Destroy, overlapped or a Destroy was cut off; what they leave
can be a mixture of two identities, and IdentityFits and HubAccepts make no claim about it.

Two results that the properties state as exceptions: a hub killed between ca.crt and ca.key, or
between server.crt and server.key, does not start again by itself (LockedOut; for the
server pair until the certificate's last 30 days), since the certificate's existence decides and
its key is not compared; and two svc-add or svc-del at once can lose an entry or leave a file that
later commands refuse, but never an ambiguous registry.

### Telemetry

A heartbeat has the agent's time stamp, one counter of the machine and one of the link's peer
(rx and tx behave alike), and its view of the last handshake. Time is counted in ticks; `Unix(m)` is
what time.Now().Unix() shows on machine m: whole seconds of a clock that is `off[m]` ticks off, ahead or
behind, and that StepClock may set at any moment. send in heartbeatLoop is two steps, as there is time
between them: StartBeat reads the device's table and takes the stamp, SendBeat is collectSys, up to
`Collect` ticks later, and the write. Connect and Reboot reset the peer's counter and handshake, since
Reconcile configures the peer anew; Reboot resets the machine's counter as well.

handleHeartbeat is HandleHeartbeat (under the lock) and Ingest (after it); with a connection taken over,
the old goroutine may ingest after the new one. `hist` is the reference: per node and bucket the last
sample ingested. A rate is kept as the difference of two counters and that of two stamps, and compared by
multiplication. What the rate properties allow for, and what they exclude by name:

- Whole seconds: two stamps a second apart may be almost two seconds apart, so a rate may be the
  traffic of one second more (`secs + 1`), and of one collection more, as the counters are read
  after the stamp. In the link's rate the delay takes the place of the collection.
- A clock that is set between two stamps makes any rate of their difference: `steady` says of a rate
  that one clock made both stamps and was off by the same each time, and the bounds speak of those.
- A link's rate is made of whichever ends reported last. `steady` also says that it was the same end
  twice; when two ends take turns, as they normally do, their counters mix and no claim is made.
- A failed collector reports zero, which is taken for a reset, so that the next report's whole counter
  counts as traffic of one period (`blank`).

### Panel

The hub's handlers change their state and publish later (`due`), from several goroutines. The page's
handlers are atomic, as JavaScript's are; each `await` is a step. A call of refreshSnapshots is asked,
has its rows read, has the status of each row read, and is shown. `lost` says that an event or an answer
went missing and no snapshot read later has been shown; `swapped` that the snapshot shown was read
before one that was shown earlier; `doubled` that the user logged in over a socket, a reconnect or a
login still at work. A logout ends the page's session even if the request fails and the hub's session
stays. Outside `lost` and `swapped` the page catches up; inside them nothing repairs it until the next
event, and CatchesUp makes no claim, since the resync that a comment in publish expects of the WebSocket
layer (`hub.go:137`) is in neither end. After a `doubled` login, the onclose of the socket that
connectWS closes sees `authed` and asks for a reconnect, which closes the next socket: the page
reconnects every three seconds while it is open.

## 3. Runs

Fault and request budgets bound every run; each names the number of events of a kind, so that the
state space is finite and the events may come at any moment. `CHECK_DEADLOCK FALSE` throughout:
when the budget is spent and every frame handled, a quiet system is the intended end.

| Run | Checks | Shows |
|---|---|---|
| `takeover` | TypeOK, OneLiveSession, FreshKey, OneKeyPerPeer, CutsAreIntended | An agent restarts with a new key while the hub still works on its old connection; a pair is linked again. |
| `links` | Delivered, NoGhostPeer, ExitFollowsLink, StatusCatchesUp | Link, unlink and link again; an exit designated while a device refuses a peer and an offline end is collected; a node deleted while its link comes up or is deleted, agents reconnect or a connection breaks. |
| `converge` | FreshKey, Converges | Key rotation and hub restart at any moment, or a connection that breaks and an end that is collected: tunnels are up for good in the end. |
| `enroll` | TypeOK, OneNodePerToken, DistinctAddrs, RateBound, CooldownWaits | Three enrollments race for two tokens and one address, with deletions and a restart. |
| `remote` | TypeOK, RunOnce, AnswerMatches, NoLeakedWaiter, Implements | One command in two texts, reconnects, an agent restart, late answers; two commands and a cache that grows old; RemoteControl implements RemoteCall. |
| `credentials` | TypeOK, IdentityFits, HubAccepts, RegistryUnique, HubComesBack | Hub, agent and commands killed between any two writes, certificates that age, commands at once, a kick. |
| `telemetry` | TypeOK, RangeFaithful, RateBounded, LinkRateBounded, ActiveIsRecent | Two ends with different clocks that are set, whole seconds, late heartbeats, replaced connections, reboots, failing collectors, deletion, hub restart. |
| `panel` | TypeOK, OneSocket, CatchesUp, Reconnected | A page logs in and out, loses its socket, its session or an answer, while a node is enrolled, taken over, dropped and deleted. |
| `tunnel_cut` | violates TunnelSurvivesControlLoss | see findings |
| `missed_link` | violates PendingIsCompleted | see findings |
| `offline_delete` | violates DeletedAgentsLeave | see findings |
| `cooldown_race` | violates NoReuseBeforeCooldown | see findings |

Why the bounds are enough to be interesting. Two nodes are one link, and links interact only through the
state of their ends; a third node adds links but no new kind of step. One connection per node is reused
after it is closed; `takeover` has a second one, which is what a takeover needs. `OutCap = 3` is
reached, so a full queue closes a session in the runs. The enrollment network of size 4 has exactly one
host address, so that any two enrollments collide; times 0..2 with a window of 2 ticks and a cooldown of
1 reach both edges. Two events out of deletions (two at most) and a restart are enough for a node
deleted twice and for a restart between two uses of an address. In `converge` there is no deletion,
which with two nodes leaves no link to ask for, and no agent restart. In `remote` there are three calls
and the clock runs to 2 with a window and a skew of 1, so that commands are sealed in the past, present
and future of the agent and the first one's entry leaves the cache when a second is opened. The
constraint `Slice` keeps two parts of that space: connections, processes and passwords come and go with
two of the calls and one command, which is just fresh enough; or two commands are posted, one after the
other, on a quiet connection. `credentials` has one machine with two commands at once and up to three
kills, enough to cut off an attempt, its repetition and the hub in one behaviour. `telemetry` has a ring
of two slots of two seconds, seconds of two ticks, and a clock that starts well after the epoch and
passes the ring's length, so that slots are reused; clocks are off by one tick either way, which crosses
into the next second and bucket. Each of its nine scenarios is one disturbance with the reports around
it, and `Slice` keeps two parts: one end with one of its counters for the whole time (one tick less once
its connection is replaced), or both ends for three ticks, which is longer than the handshake's window
and longer than a delay, with the traffic of one end and then a handshake. `panel` has a channel of two
events, two snapshots on their way and three sockets: a takeover publishes three events, so the channel
overflows, and two snapshots can overtake each other.

Fairness is stated for `converge`, `offline_delete`, `credentials` and `panel`. In the first two,
goroutines and admin requests in progress go on, agents read and reconnect, a broken connection is
noticed (weak fairness). Strong fairness for sending a register_ack says that not every one of
infinitely many acks is overtaken by a push in the few instructions between the unlock and the send.
Admin requests, faults and the garbage collector's clock have no fairness. In `credentials` only the
hub's own steps are fair: its unit file has `Restart=always`. In `panel` the hub's goroutines publish,
and a session that the hub has closed (`Replaced`: by a newer connection or a deletion) is dropped; the
page's event loop runs, timers fire and requests are answered. Nobody has to log in, and no session of a
healthy agent has to end: a node may stay online for good.

## 4. Proofs

Every theorem holds for any number of nodes, connections, calls, commands and sources, any queue
capacity and any budgets of events: the bounds of section 3 are bounds of TLC's instances only.
`PROJECT.json` lists the theorems; a run checks the same property on a small instance.

### Assumptions

All are ASSUMEs of the component's module and evaluated by its runs. Most say of what kind a
parameter is (a cap is positive, a budget is a number) and that `None` and `Torn` are none of the
values they stand beside: NoneAssumption, RowAssumption (Enrollment), OutcomeAssumption
(RemoteControl: a result is neither missing, "offline" nor "timeout"), ContentAssumption and
NilAssumption (Credentials: a file that is missing or does not parse is no key, certificate or
state). Those that say something of the program:

- `SessAssumption`: a connection is of one node, its certificate's.
- `CmdOfAssumption`: a text decodes to one command. Nothing else is assumed of it: any number of texts
  may decode to the same one.
- `EndAssumption`: a link has two ends.
- `DelayAssumption` of Telemetry: counters are read within `Collect` of the stamp, a heartbeat is handled,
  or its connection is dead, within `MaxDelay`, and that delay and what the clocks may be off are together
  less than the ring without a step (the ring is a day long, a silent connection is closed after 45
  seconds).
- `ClockAssumption`: a clock is off by at most `Ahead` or `Behind` ticks, whenever it is set.
- `StartAssumption`: the first stamp of any clock is a step and a handshake window after the epoch, so that
  a stamp of zero can stand for "never", as it does in the ring and in `linkRT`.

### Control channel (`MatchmakingProofs`)

- `OneLiveSessionHolds`: OneLiveSession is inductive together with the types of `sessions` and `hubSt`
  (SessionInv). Nearly every action only closes connections or admits new ones (OnlyClosesKeeps);
  RunSession replaces and closes the predecessor in one critical section, DropSession removes an entry
  only if it is its own.
- `TypeCorrect`: the types say that every frame and every peer in a device has a key and an end, so
  they rest on more than types (BaseInv): on OneLiveSession, because an entry of `sessions` is
  where frames are built from, and on LinksInv, because a request in progress carries rows it read
  earlier. LinksInv keeps one row per pair in the table and in those lists, and has a node
  revoked before the request that withdraws it goes on.
- `KeysAreFresh`: FreshKey speaks of agents that are up; KeyInv follows the key from where it is
  made. On the connection in use, a register in the agent's queue, one read but not handled and one
  handled all carry the key in use (UsedOk), since a new key is made by an agent that is about to
  close the connection. On any other connection a register carries a key of the past (RegsOk), which
  is why writing it last is the one window (W2). SlotOk says what is left on a connection before
  runSession and after dropSession. Most actions are Quiet: they move neither keys nor registers.

### What reaches the kernels (`DeliveryProofs`)

- `Delivery`, `ExitsAreDesignated`: both properties speak of an end that has read everything, so the
  invariant (DealInv) says for every link and end what its queue will bring about. As long as the hub
  talks to the end about the link (Live: its session is registered, the other end is ready, nothing is
  torn or under way), the last frame that bears on the other end says what the database and `lastWG` say
  now, or there is none and the device and the exits are right already (Told), or the queue holds a
  frame that makes the agent hang up and register again (Doomed). With an empty queue only "right
  already" is left. A register_ack that is computed but not sent yet counts as the last frame of the
  queue; a push that overtakes it dooms the session, since the agent accepts nothing else first.
- PathsInv is what every step needs to keep that: a link's id names one pair wherever the row is carried
  (IdInv), a connection carries one register, which is answered once and not before the agent waits for
  it (OnceInv), and the hub knows a key of every registered node (KnownInv).
- One lemma per kind of step: those that touch neither queue nor device (DealStays), those that send
  (DealSent), those that hang up (LeavingDeal), and those by which the agent takes a frame (TakenDeal).
- `OneKeyHolds`, `NoGhosts`: the last frame does not tell whether an earlier one left a second key, so
  PlotInv follows the key that a device has of a peer through the whole queue, for every two nodes,
  linked or not. A Chain is one value per position, a key or none, with each frame turning its value
  into the next (Turns): a peer_update and a register_ack from any value, a peer_add only from none or
  from the key it brings. The chain starts with what the device holds (Starts) and leaves none or the
  key in `lastWG`, the latter only if the pair is linked or its withdrawal is still to be sent (Leaves).
  So a peer_remove names the key that is there, a push meets no other key, and an empty queue leaves no
  peer without a link. The pair of a step that breaks this is one of `torn`: the windows are all needed
  here, W5 and W8 only here.
- Frames are appended by PlotSent and taken by PlotTaken; the device's operations are shown to do what
  their frames say (AddHolds, UpdateHolds, RemoveHolds, ReconcileHolds).
- `CutsAreMeant`: two accounts of the queue, both for every frame in it and not for the last only.
  NameInv: a push or a withdrawal names a link id that was given out for the pair of the agent and the
  named peer; since ids are never given out twice, a withdrawal that is still queued cannot name the
  link that exists now unless it is that link's own. AgeInv: along a queue, behind what the device holds
  and before a register_ack that is still to be sent, the keys of a peer do not get older (Ordered,
  Follows), and none is newer than the key in `lastWG` (Old). It rests on Advance, that no step but a
  restart of the hub takes back a key that the hub knows; after a restart no connection has a hub side,
  which is why the property excludes `hubSt = "none"`. So a push that replaces the peer's key in use
  would have to bring an older one than the device has.
- `StatusIsReached`: FlagInv says of every link in the table that, while nothing about it is torn or
  still to be pushed (Calm) and both ends are registered, each end's flag is set, or a peer_add or
  peer_update of the link is in its queue (Asked), or an ack of it is on its way back (Replied). A push
  clears the flag and queues the frame in one critical section, the agent turns the frame into the ack,
  handleAck sets the flag. Nearly every step leaves all of this alone (Steady, Stays). handleRegister,
  by which both ends may become registered, sets the flag of its own end and queues a push for the other
  in the same critical section; a connection that is lost takes its frames along, and its end is not
  registered on the next one before it has answered anew. With both queues empty only the flag is left.
  GoneInv, that a removal in progress names no stored link, keeps a late removal from clearing the flags
  of the link that replaced it.

### Calls to agents (`RemoteControlProofs`)

- `CommandsRunOnce`: a text that is open or has run is *spent*: remembered by its agent, or its command
  is older than twice the window, and thereby too old to be accepted. The decoding is arbitrary, and what
  is proved is per text, as the cache is. Posted calls keep their
  body and frames belong to posted calls.
- `TypeCorrect`, `AnswersMatch`, `NoWaiterLeaks`: CallInv follows a call and its answer from stage to stage
  (StageInv: where the goroutine is; FrameInv: a request is at its agent once and not yet dealt with;
  AnswersTrue: a reply on its way, being delivered or in a channel tells what became of the
  call).
- `CallsImplementPromise`: `Spec => Promise!Spec`, step by step. The agent's steps are steps of
  the abstract effect, returning is the abstract outcome (ReturnImplements), all else stutters.
  CallInv is what excludes an answer that lies about the effect, and an effect after the answer.

### Enrollment (`EnrollmentProofs`)

- `TypeCorrect`, `TokenIsOneTime`, `AddressesAreDistinct`: from IInv = TypeOK /\ TokenInv /\ AddrInv.
  OneNodePerToken is not inductive: a token must be known to be spent from
  BurnToken on, and be held by one connection or recorded in one row, never both. AddrInv
  adds that revoked rows have no address and that a chosen address is a host address; that the insert
  checks uniqueness again is what makes stale readings harmless.
- `RateIsBounded`: from RateInv, which relates `tries` (pruned at each attempt) to
  the unpruned history `began`: what is missing from the list is older than the window.
- `CooldownIsKept`: from CoolInv. An address that is not cold is in the table with the time of its
  last release, because an expiry uses a time that is past (`at[c] <= clock`), and what a
  connection has chosen is cold or was released after its reading (`late`). InsertIsCreate says that
  only CreateNode gives a connection its row.

### Files (`CredentialsProofs`)

- `TypeCorrect`, `RegistriesAreUnique`: from FileInv. What a process has still to write is never
  arbitrary: a command has one registry with distinct entries or the tail of one Save (CmdOk), the
  hub has the CA it made or a server certificate of the CA on its disk (HubInv, CaFiles), and every
  file that parses was issued (Issued).
- `IdentitiesFit`, `HubAndAgentsAccept`: from SaveInv. While Save is at its j-th file there is no
  state.json that parses and the first j - 1 files are in place (Progress), so that writing
  state.json completes an identity. Outside `clash` at most one command saves. Handshake
  follows because FileInv knows only one CA.

### Telemetry (`TelemetryProofs`)

Inv is TypeOK and one part per question. Timing says of every heartbeat under way (`Out(n)` for those on
the wire and the one being collected) that its stamp is what the agent's clock showed (Stamped), that it is
no older than a delay, and that heartbeats are in order.

- `RatesAreBounded`: Counters says of any two reports that the ring may still compare, on the wire,
  being handled or kept, in whatever order, that the counter grew between the two *times* no faster than
  the machine can, with a collection to spare (Slow); Kept says that the ring's stamp is what a clock
  showed at the time of the report it kept. If the same clock made both stamps (`steady`), Seconds turns
  the difference of times into whole seconds: it is less than one second more than the stamps'. That is
  where the `secs + 1` of the property comes from.
- `LinkRatesAreBounded`: LinkInv follows the counter of the end that reported last: it was read at some
  time `t`, the hub noted its own clock at some time `c` at most a delay later (Handled), and what that
  end reports from now on has grown from there (From, Grows). Apart does the rounding.
- `CurveIsFaithful`: by Curve a slot holds the history of the bucket that falls into it unless a bucket
  of a ring's length later took it; DelayAssumption excludes that a sample is a whole ring late.
- `ActiveLinksAreRecent`: by Shakes a stamp is not newer than the last real handshake by more than a
  clock may be ahead, and the hub keeps the newest one reported.
- `TypeCorrect` says that no rate is negative.

### Panel (`PanelProofs`)

- `TypeCorrect`: the channel's bound, and snapshots and fetches well formed. `OneWay`: `~doubled =>
  One` is inductive, where One counts the ways to the events on sets (sockets at work, fetches
  that go on to connect).

### What is only model-checked

Liveness (Converges, CatchesUp, Reconnected, HubComesBack) is outside the prover's reach. The four
statements of section 5 are refuted by TLC. Every other property of a run is stated by a theorem.

## 5. Findings

- `tunnel_cut`: after a hub restart the first of two agents to return gets a register_ack without the
  other, which has not registered yet, and Reconcile removes the established peer. `AGENT.md:85`
  says a hub restart must not interrupt an established tunnel. It heals when the other end registers
  (`converge`).
- `missed_link`: a link stored after a register read its links and pushed before that register takes
  the lock is sent to nobody; `hub.go:236` says the register completes it.
- `offline_delete`: a node deleted while offline gets an error frame on return, not the kick that
  `AGENT.md:389` promises, and retries forever with its device and identity in place.
- `cooldown_race`: an address chosen by one enrollment, used by another and released by a deletion in
  between is inserted at once; `AGENT.md:300` promises 30 days.

## 6. Not modelled

Byte-level I/O (frame lengths, JSON, SOCKS5 relay), cryptography (a sealed command opens under the
key it was sealed with and no other, a signature is exact), endpoints and routes, panel rendering and
its list of links, configuration files, development stubs. The store is one connection whose
statements are atomic; its I/O errors are not modelled. Also left out:

- `rotate_cert` and UpdateCert: the hub has no code that sends the frame.
- The expiry of the CA's own certificate after 20 years (`pki.go:54`): Handshake looks at the period of
  the two ends' certificates only.
- A loss of power that undoes writes which os.WriteFile has finished.
- The status "stale" (a session without a heartbeat for a while), which changes with time alone and
  is published by nothing.
- The login's rate limit, which is the algorithm of the enrollment's (`RateBound`), renaming, service
  names, admins: single statements.
- Reading the machine's counters: a collector succeeds or reports zero.

## 7. State of the plan

Modelled and checked: all components with interleaving, failure or time in them (sections 2, 3).
Proved: every safety and action property of the runs (section 4). What would extend the project is what
section 6 lists; of these the heartbeat status "stale" and the panel's login limit are closest to
what is modelled. A code change in handleRegister, pushPairLocked or runSession concerns PathsInv, and
through it every theorem of `DeliveryProofs`: there one lemma per kind of step has to be looked at again.
