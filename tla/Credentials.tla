----------------------------- MODULE Credentials -----------------------------
(***************************************************************************)
(* The files that outlive the processes: the hub's CA and server           *)
(* certificate (internal/pki), the identity an agent saves when it enrolls *)
(* (internal/agent/identity.go, enroll.go) and its registry of services    *)
(* (svcreg.go), as the hub, the agents and their command lines             *)
(* (cmd/lightpn-hub, cmd/lightpn-agent) write, read and delete them.       *)
(*                                                                         *)
(* Every file is written by os.WriteFile, which truncates it and then      *)
(* writes it. A process can be killed between any two of these steps, and  *)
(* two commands can run at once; no file is locked.                        *)
(***************************************************************************)
EXTENDS Integers, Sequences

CONSTANTS
  Machine,     \* machines that run an agent, each with one identity directory
  Cmd,         \* <<m, i>>: machine m can run an i-th command at a time
  Hub,         \* the hub's process, and its data directory
  Alias, Unit, \* names of a service entry
  ServerLife, ClientLife, \* periods for which a certificate is valid
  Scenarios,   \* budgets: how often each kind of event may happen
  None,        \* no such file; nothing
  Torn         \* a file that cannot be parsed

Event == {"enroll", "edit", "kill", "delete", "age"}

ASSUME CmdAssumption == Cmd \subseteq Machine \X Nat
ASSUME HubAssumption == Hub \notin Machine \cup Cmd
ASSUME LifeAssumption == {ServerLife, ClientLife} \subseteq Nat \ {0}
ASSUME ScenariosAssumption == Scenarios \subseteq [Event -> Nat]
ASSUME NilAssumption == None # Torn

File == {"ca.crt", "ca.key", "server.crt", "server.key",
         "identity.key", "identity.crt", "state.json", "services.json"}

VARIABLES
  disk,    \* the files of the hub's and of every machine's directory
  dir,     \* machines whose identity directory exists
  \* processes: the hub and the commands
  pc,
  writes,  \* the writes a process has still to do, <<file, content>>
  half,    \* processes that have truncated the file they write
  newKey,  \* the key pair an enroll command has generated
  ca,      \* h.CA of the running hub
  \* hub.db
  nodes,   \* rows of table nodes: node id and the key its certificate is for
  gone,    \* ids of deleted nodes
  \* agents
  agent,   \* "stopped", "running", "connected" or "destroying"
  id,      \* a.ID: what LoadIdentity returned
  \* bookkeeping of the model
  keys,    \* key pairs and node ids made so far
  period,
  budget,  \* what is left of the scenario's budget
  clash    \* machines whose identity was changed by two at once, or half deleted

fileVars  == <<disk, dir, writes, half>>
hubVars   == <<ca, nodes, gone>>
agentVars == <<agent, id>>
vars == <<fileVars, pc, newKey, hubVars, agentVars, keys, period, budget, clash>>

Proc == Cmd \cup {Hub}
Place == Machine \cup {Hub}
At(p) == IF p = Hub THEN Hub ELSE p[1]

Entry == [alias : Alias, unit : Unit]
ServerCert == [key : Nat, issuer : Nat, from : Nat]
ClientCert == [key : Nat, issuer : Nat, from : Nat, node : Nat]
\* state.json names the node and pins the CA by its fingerprint.
State == [node : Nat, pin : Nat]

\* What a file that can be parsed holds.
Content(f) ==
  CASE f \in {"ca.crt", "ca.key", "server.key", "identity.key"} -> Nat
    [] f = "server.crt" -> ServerCert
    [] f = "identity.crt" -> ClientCert
    [] f = "state.json" -> State
    [] f = "services.json" -> SUBSET Entry

ASSUME ContentAssumption ==
  \A f \in File \ {"services.json"} : None \notin Content(f) /\ Torn \notin Content(f)

Spend(e) == budget[e] > 0 /\ budget' = [budget EXCEPT ![e] = @ - 1]

\* The file can be parsed.
Parses(p, f) == disk[p][f] \notin {None, Torn}

Init ==
  /\ disk = [p \in Place |-> [f \in File |-> None]]
  /\ dir = {} /\ half = {}
  /\ pc = [p \in Proc |-> IF p = Hub THEN "down" ELSE "idle"]
  /\ writes = [p \in Proc |-> <<>>]
  /\ newKey = [p \in Cmd |-> None]
  /\ ca = None /\ nodes = {} /\ gone = {}
  /\ agent = [m \in Machine |-> "stopped"]
  /\ id = [m \in Machine |-> None]
  /\ keys = 0 /\ period = 0
  /\ budget \in Scenarios
  /\ clash = {}

------------------------------------------------------------------------------
(* os.WriteFile                                                            *)

\* Another command of the machine is writing its identity, or the agent is
\* deleting it.
Overlap(c) == \/ \E d \in Cmd \ {c} : At(d) = At(c) /\ pc[d] = "save"
              \/ agent[At(c)] = "destroying"

\* Where a command ends up when its last write is done.
Rest(p) == IF p = Hub THEN pc[p] ELSE "idle"

\* The file is created or emptied. Without its directory the write fails and
\* the command gives up.
Truncate(p) ==
  LET f == writes[p][1][1] IN
  /\ writes[p] # <<>> /\ p \notin half
  /\ IF p = Hub \/ At(p) \in dir
       THEN /\ disk' = [disk EXCEPT ![At(p)][f] = Torn]
            /\ half' = half \cup {p}
            /\ UNCHANGED <<pc, writes>>
       ELSE /\ writes' = [writes EXCEPT ![p] = <<>>]
            /\ pc' = [pc EXCEPT ![p] = "idle"]
            /\ UNCHANGED <<disk, half>>
  /\ UNCHANGED <<dir, newKey, hubVars, agentVars, keys, period, budget, clash>>

\* Its content is written. What is written to a file that was deleted is
\* lost; over what another process has written, it may leave a mixture.
Write(p) ==
  LET f == writes[p][1][1]
      new == writes[p][1][2]
      old == disk[At(p)][f]
  IN
  /\ p \in half
  /\ \E c \in CASE old = None -> {None} [] old = Torn -> {new} [] OTHER -> {new, Torn} :
       disk' = [disk EXCEPT ![At(p)][f] = c]
  /\ half' = half \ {p}
  /\ writes' = [writes EXCEPT ![p] = Tail(@)]
  /\ pc' = IF Len(writes[p]) = 1 THEN [pc EXCEPT ![p] = Rest(p)] ELSE pc
  /\ UNCHANGED <<dir, newKey, hubVars, agentVars, keys, period, budget, clash>>

------------------------------------------------------------------------------
(* The hub (cmd/lightpn-hub/main.go, pki.go, ServeControl)                 *)

\* LoadOrCreate without a ca.crt: a new CA, its certificate written first.
CreateCA ==
  LET k == keys + 1 IN
  /\ pc[Hub] = "down" /\ disk[Hub]["ca.crt"] = None
  /\ keys' = k
  /\ ca' = [crt |-> k, key |-> k]
  /\ writes' = [writes EXCEPT ![Hub] = <<<<"ca.crt", k>>, <<"ca.key", k>>>>]
  /\ pc' = [pc EXCEPT ![Hub] = "pki"]
  /\ UNCHANGED <<disk, dir, half, newKey, nodes, gone, agentVars, period, budget, clash>>

\* LoadOrCreate with one: load. (When it fails the process exits.)
LoadCA ==
  /\ pc[Hub] = "down"
  /\ Parses(Hub, "ca.crt") /\ Parses(Hub, "ca.key")
  /\ ca' = [crt |-> disk[Hub]["ca.crt"], key |-> disk[Hub]["ca.key"]]
  /\ pc' = [pc EXCEPT ![Hub] = "pki"]
  /\ UNCHANGED <<fileVars, newKey, nodes, gone, agentVars, keys, period, budget, clash>>

\* Mutant: a server.crt that cannot be read is taken as it is.
ReusableUnread == disk[Hub]["server.crt"] # None
                    /\ (Parses(Hub, "server.crt") =>
                          period < disk[Hub]["server.crt"].from + ServerLife - 1)

\* server.crt can be read and is not in its last period.
Reusable == /\ Parses(Hub, "server.crt")
            /\ period < disk[Hub]["server.crt"].from + ServerLife - 1

\* IssueServer: the certificate is kept, without a look at its key, or it is
\* issued anew with another key.
IssueServer ==
  LET k == keys + 1 IN
  /\ pc[Hub] = "pki" /\ writes[Hub] = <<>>
  /\ pc' = [pc EXCEPT ![Hub] = "tls"]
  /\ IF Reusable
       THEN UNCHANGED <<keys, writes>>
       ELSE /\ ca.crt = ca.key
            /\ keys' = k
            /\ writes' = [writes EXCEPT ![Hub] =
                 << <<"server.crt", [key |-> k, issuer |-> ca.key, from |-> period]>>,
                    <<"server.key", k>> >>]
  /\ UNCHANGED <<disk, dir, half, newKey, hubVars, agentVars, period, budget, clash>>

\* Mutant: a pair that does not fit is served.
PairLoadsUnchecked == Parses(Hub, "server.crt")

\* tls.LoadX509KeyPair
PairLoads == /\ Parses(Hub, "server.crt") /\ Parses(Hub, "server.key")
             /\ disk[Hub]["server.crt"].key = disk[Hub]["server.key"]

\* ServeControl listens, or its error ends the process; systemd starts it
\* again.
ServeControl ==
  /\ pc[Hub] = "tls" /\ writes[Hub] = <<>>
  /\ pc' = [pc EXCEPT ![Hub] = IF PairLoads THEN "serving" ELSE "down"]
  /\ UNCHANGED <<fileVars, newKey, hubVars, agentVars, keys, period, budget, clash>>

\* Admin: a node is deleted. A connected agent is kicked; the frame may get
\* lost with its connection.
DeleteNode(n) ==
  /\ pc[Hub] = "serving" /\ Spend("delete")
  /\ gone' = gone \cup {n}
  /\ \E kicked \in SUBSET {m \in Machine : agent[m] = "connected" /\ id[m].node = n} :
       agent' = [m \in Machine |-> CASE m \in kicked -> "destroying"
                                     [] agent[m] = "connected" /\ id[m].node = n -> "running"
                                     [] OTHER -> agent[m]]
  /\ UNCHANGED <<fileVars, pc, newKey, ca, nodes, id, keys, period, clash>>

------------------------------------------------------------------------------
(* lightpn-agent enroll                                                    *)

\* enroll: refused when there is an identity; else a key pair and a dial.
EnrollStart(c) ==
  /\ pc[c] = "idle" /\ ~Parses(At(c), "state.json")
  /\ Spend("enroll")
  /\ pc' = [pc EXCEPT ![c] = "dial"]
  /\ newKey' = [newKey EXCEPT ![c] = keys + 1]
  /\ keys' = keys + 1
  /\ UNCHANGED <<fileVars, hubVars, agentVars, period, clash>>

\* handleEnroll signs the key for a new node and stores the node.
Row(c) == [node |-> keys + 1, key |-> newKey[c]]

\* Mutant: the state is written first.
SaveStateFirst(c) ==
  << <<"state.json", [node |-> keys + 1, pin |-> ca.crt]>>,
     <<"identity.key", newKey[c]>>,
     <<"identity.crt", [key |-> newKey[c], issuer |-> ca.key, from |-> period,
                        node |-> keys + 1]>>,
     <<"ca.crt", ca.crt>> >>

\* Save: the order in which the reply is written to the identity directory.
Save(c) ==
  << <<"identity.key", newKey[c]>>,
     <<"identity.crt", [key |-> newKey[c], issuer |-> ca.key, from |-> period,
                        node |-> keys + 1]>>,
     <<"ca.crt", ca.crt>>,
     <<"state.json", [node |-> keys + 1, pin |-> ca.crt]>> >>

\* The hub answers with an enroll_ack. All identity files are replaced: what
\* came before no longer matters, unless someone else is still at it.
EnrollAck(c) ==
  /\ pc[c] = "dial" /\ pc[Hub] = "serving" /\ ca.crt = ca.key
  /\ nodes' = nodes \cup {Row(c)}
  /\ keys' = keys + 1
  /\ writes' = [writes EXCEPT ![c] = Save(c)]
  /\ dir' = dir \cup {At(c)}
  /\ pc' = [pc EXCEPT ![c] = "save"]
  /\ clash' = IF Overlap(c) \/ Parses(At(c), "state.json")
                THEN clash \cup {At(c)} ELSE clash \ {At(c)}
  /\ UNCHANGED <<disk, half, newKey, ca, gone, agentVars, period, budget>>

\* No answer arrives: the hub refused or never heard of it, or has already
\* stored the node.
EnrollFails(c) ==
  /\ pc[c] = "dial"
  /\ \/ UNCHANGED <<nodes, keys>>
     \/ /\ pc[Hub] = "serving"
        /\ nodes' = nodes \cup {Row(c)}
        /\ keys' = keys + 1
  /\ pc' = [pc EXCEPT ![c] = "idle"]
  /\ UNCHANGED <<fileVars, newKey, ca, gone, agentVars, period, budget, clash>>

------------------------------------------------------------------------------
(* lightpn-agent svc-add and svc-del                                       *)

\* LoadSvcReg: no file is an empty registry, a malformed one is an error.
Registry(m) == IF Parses(m, "services.json") THEN disk[m]["services.json"] ELSE {}

\* A command has read the registry and will write `new` over it.
EditReg(c, new) ==
  /\ pc[c] = "idle" /\ disk[At(c)]["services.json"] # Torn
  /\ Spend("edit")
  /\ writes' = [writes EXCEPT ![c] = <<<<"services.json", new>>>>]
  /\ pc' = [pc EXCEPT ![c] = "edit"]
  /\ UNCHANGED <<disk, dir, half, newKey, hubVars, agentVars, keys, period, clash>>

\* Mutant: only the alias is compared.
FreeAlias(m, e) == \A x \in Registry(m) : x.alias # e.alias

\* AddSvc: neither the alias nor the unit is taken.
Free(m, e) == \A x \in Registry(m) : x.alias # e.alias /\ x.unit # e.unit

AddSvc(c, e) ==
  /\ Free(At(c), e)
  /\ EditReg(c, Registry(At(c)) \cup {e})

\* DelSvc: what is kept.
Kept(m, e) == {x \in Registry(m) : x.alias # e.alias}

DelSvc(c, e) ==
  /\ e \in Registry(At(c))
  /\ EditReg(c, Kept(At(c), e))

------------------------------------------------------------------------------
(* The agent's process (main.go run, Agent.Run, TLSConfig, Destroy)        *)

\* Mutant: LoadIdentity does not look at the error of json.Unmarshal.
RunAgentUnread(m) ==
  /\ agent[m] = "stopped" /\ disk[m]["state.json"] # None
  /\ agent' = [agent EXCEPT ![m] = "running"]
  /\ id' = [id EXCEPT ![m] = disk[m]["state.json"]]
  /\ UNCHANGED <<fileVars, pc, newKey, hubVars, keys, period, budget, clash>>

\* run: LoadIdentity, or exit.
RunAgent(m) ==
  /\ agent[m] = "stopped" /\ Parses(m, "state.json")
  /\ agent' = [agent EXCEPT ![m] = "running"]
  /\ id' = [id EXCEPT ![m] = disk[m]["state.json"]]
  /\ UNCHANGED <<fileVars, pc, newKey, hubVars, keys, period, budget, clash>>

\* TLSConfig: certificate and key are a pair, the CA is the pinned one.
TLSConfig(m, st) ==
  /\ Parses(m, "identity.crt") /\ Parses(m, "identity.key")
  /\ disk[m]["identity.crt"].key = disk[m]["identity.key"]
  /\ Parses(m, "ca.crt") /\ disk[m]["ca.crt"] = st.pin

Expired(cert, life) == period >= cert.from + life

\* Both ends verify the other's certificate (and hold its key), and
\* handleConn finds the node's row.
Handshake(m) ==
  LET crt == disk[m]["identity.crt"]
      srv == disk[Hub]["server.crt"]
  IN
  /\ srv.issuer = disk[m]["ca.crt"] /\ srv.key = disk[Hub]["server.key"]
  /\ ~Expired(srv, ServerLife)
  /\ crt.issuer = ca.crt /\ ~Expired(crt, ClientLife)
  /\ [node |-> crt.node, key |-> crt.key] \in nodes /\ crt.node \notin gone

Connect(m) ==
  /\ agent[m] = "running" /\ pc[Hub] = "serving"
  /\ TLSConfig(m, id[m]) /\ Handshake(m)
  /\ agent' = [agent EXCEPT ![m] = "connected"]
  /\ UNCHANGED <<fileVars, pc, newKey, hubVars, id, keys, period, budget, clash>>

\* Destroy after a kick: RemoveAll deletes one file after the other, in no
\* particular order, and then the directory.
Destroy(m) ==
  /\ agent[m] = "destroying"
  /\ \/ \E f \in File :
          /\ disk[m][f] # None
          /\ disk' = [disk EXCEPT ![m][f] = None]
          /\ UNCHANGED <<dir, agent>>
     \/ /\ \A f \in File : disk[m][f] = None
        /\ dir' = dir \ {m}
        /\ agent' = [agent EXCEPT ![m] = "stopped"]
        /\ UNCHANGED disk
  /\ UNCHANGED <<pc, writes, half, newKey, hubVars, id, keys, period, budget, clash>>

------------------------------------------------------------------------------
(* Time and faults                                                         *)

\* A process is killed; a file it was writing stays empty. (A loss of power,
\* which could also undo finished writes, is not modelled.)
Kill(p) ==
  /\ \/ p = Hub /\ pc[p] # "down"
     \/ p # Hub /\ pc[p] # "idle"
  /\ Spend("kill")
  /\ pc' = [pc EXCEPT ![p] = IF p = Hub THEN "down" ELSE "idle"]
  /\ writes' = [writes EXCEPT ![p] = <<>>]
  /\ half' = half \ {p}
  /\ agent' = [m \in Machine |-> IF p = Hub /\ agent[m] = "connected" THEN "running"
                                 ELSE agent[m]]
  /\ UNCHANGED <<disk, dir, newKey, hubVars, id, keys, period, clash>>

\* The agent is killed. What Destroy has left stays.
KillAgent(m) ==
  /\ agent[m] # "stopped"
  /\ Spend("kill")
  /\ agent' = [agent EXCEPT ![m] = "stopped"]
  /\ clash' = IF agent[m] = "destroying" THEN clash \cup {m} ELSE clash
  /\ UNCHANGED <<fileVars, pc, newKey, hubVars, id, keys, period>>

Age ==
  /\ Spend("age")
  /\ period' = period + 1
  /\ UNCHANGED <<fileVars, pc, newKey, hubVars, agentVars, keys, clash>>
------------------------------------------------------------------------------
HubStep == CreateCA \/ LoadCA \/ IssueServer \/ ServeControl \/ Truncate(Hub) \/ Write(Hub)

CmdStep(c) ==
  \/ EnrollStart(c) \/ EnrollAck(c) \/ EnrollFails(c)
  \/ \E e \in Entry : AddSvc(c, e) \/ DelSvc(c, e)
  \/ Truncate(c) \/ Write(c)

AgentStep(m) == RunAgent(m) \/ Connect(m) \/ Destroy(m) \/ KillAgent(m)

Next ==
  \/ HubStep
  \/ \E r \in nodes : DeleteNode(r.node)
  \/ \E c \in Cmd : CmdStep(c)
  \/ \E m \in Machine : AgentStep(m)
  \/ \E p \in Proc : Kill(p)
  \/ Age

\* systemd starts the hub again (Restart=always) and it keeps running.
Spec == Init /\ [][Next]_vars
FairSpec == Spec /\ WF_vars(HubStep)

------------------------------------------------------------------------------
(* Properties                                                              *)

\* Every variable has its type.
TypeOK ==
  /\ \A p \in Place : \A f \in File : disk[p][f] \in Content(f) \cup {None, Torn}
  /\ dir \subseteq Machine /\ half \subseteq Proc
  /\ pc \in [Proc -> {"down", "pki", "tls", "serving", "idle", "dial", "save", "edit"}]
  /\ \A p \in Proc : \A i \in DOMAIN writes[p] :
       writes[p][i][1] \in File /\ writes[p][i][2] \in Content(writes[p][i][1])
  /\ newKey \in [Cmd -> Nat \cup {None}]
  /\ ca \in [crt : Nat, key : Nat] \cup {None}
  /\ nodes \subseteq [node : Nat, key : Nat] /\ gone \subseteq Nat
  /\ agent \in [Machine -> {"stopped", "running", "connected", "destroying"}]
  /\ id \in [Machine -> State \cup {None}]
  /\ keys \in Nat /\ period \in Nat /\ budget \in [Event -> Nat]
  /\ clash \subseteq Machine

\* A machine that enroll refuses as "already enrolled" has an identity it can
\* use, wherever an enrollment was cut off and whichever was tried before:
\* certificate, key, CA and state belong together (Save, LoadIdentity).
IdentityFits ==
  \A m \in Machine \ clash :
    (Parses(m, "state.json") /\ agent[m] # "destroying") =>
       LET st == disk[m]["state.json"] IN
       /\ TLSConfig(m, st)
       /\ disk[m]["identity.crt"].node = st.node
       /\ disk[m]["identity.crt"].issuer = st.pin

\* Such a machine and a hub that serves verify each other, however often the
\* hub was restarted, cut off while it wrote its files or had its certificate
\* replaced: the CA that was pinned stays the one that signs (LoadOrCreate,
\* IssueServer, TLSConfig).
HubAccepts ==
  \A m \in Machine \ clash :
    ( /\ pc[Hub] = "serving" /\ Parses(m, "state.json") /\ agent[m] # "destroying"
      /\ disk[m]["state.json"].node \notin gone
      /\ ~Expired(disk[m]["identity.crt"], ClientLife)
      /\ ~Expired(disk[Hub]["server.crt"], ServerLife) ) => Handshake(m)

\* Two svc-add or svc-del at once can lose an entry or garble the file, but a
\* registry that can be read never gives two aliases to a unit or two units
\* to an alias (AddSvc, saveSvcReg).
RegistryUnique ==
  \A m \in Machine : Parses(m, "services.json") =>
    \A x, y \in disk[m]["services.json"] :
      x.alias = y.alias \/ x.unit = y.unit => x = y

\* A certificate was left without its key: no later start repairs it.
LockedOut ==
  \/ disk[Hub]["ca.crt"] # None /\ ~(Parses(Hub, "ca.crt") /\ Parses(Hub, "ca.key"))
  \/ /\ Parses(Hub, "server.crt")
     /\ period < disk[Hub]["server.crt"].from + ServerLife - 1
     /\ disk[Hub]["server.key"] # disk[Hub]["server.crt"].key

\* Killed wherever it may be, the hub serves again, unless it was cut off
\* between a certificate and its key (LoadOrCreate, IssueServer).
HubComesBack == []<>(pc[Hub] = "serving") \/ <>[]LockedOut
==============================================================================
