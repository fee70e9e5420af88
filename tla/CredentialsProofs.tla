-------------------------- MODULE CredentialsProofs --------------------------
(* Proofs about Credentials: what the files hold wherever a process was      *)
(* killed, and that an identity and a hub that serves belong together.       *)
EXTENDS Credentials, TLAPS

------------------------------------------------------------------------------
(* What a process has still to write                                         *)

\* The types, but for the lists of writes: these follow from what is in them.
Types ==
  /\ \A p \in Place : \A f \in File : disk[p][f] \in Content(f) \cup {None, Torn}
  /\ dir \subseteq Machine /\ half \subseteq Proc
  /\ pc \in [Proc -> {"down", "pki", "tls", "serving", "idle", "dial", "save", "edit"}]
  /\ newKey \in [Cmd -> Nat \cup {None}]
  /\ ca \in [crt : Nat, key : Nat] \cup {None}
  /\ nodes \subseteq [node : Nat, key : Nat] /\ gone \subseteq Nat
  /\ agent \in [Machine -> {"stopped", "running", "connected", "destroying"}]
  /\ id \in [Machine -> State \cup {None}]
  /\ keys \in Nat /\ period \in Nat /\ budget \in [Event -> Nat]
  /\ clash \subseteq Machine

\* Directories hold files by name, processes have lists of writes.
Tables ==
  /\ disk = [p \in Place |-> [f \in File |-> disk[p][f]]]
  /\ writes = [p \in Proc |-> writes[p]]

\* The CA the hub made at its first start.
Root == disk[Hub]["ca.crt"]
Rooted == Parses(Hub, "ca.crt") /\ disk[Hub]["ca.key"] = Root

\* The certificate of a row, signed by that CA.
Cert(r, t) == [key |-> r.key, issuer |-> Root, from |-> t, node |-> r.node]

\* What Save has still to write, from its first, second, third or last file.
StateWrite(r) == <<"state.json", [node |-> r.node, pin |-> Root]>>
CaWrite == <<"ca.crt", Root>>
CrtWrite(r, t) == <<"identity.crt", Cert(r, t)>>
KeyWrite(r) == <<"identity.key", r.key>>
SaveFrom(j, r, t) ==
  CASE j = 1 -> <<KeyWrite(r), CrtWrite(r, t), CaWrite, StateWrite(r)>>
    [] j = 2 -> <<CrtWrite(r, t), CaWrite, StateWrite(r)>>
    [] j = 3 -> <<CaWrite, StateWrite(r)>>
    [] OTHER -> <<StateWrite(r)>>

\* The entries of a registry have their aliases and their units to themselves.
Distinct(reg) == \A x, y \in reg : x.alias = y.alias \/ x.unit = y.unit => x = y

\* A command writes the registry, or a part of an identity that the hub knows.
CmdOk(c) ==
  /\ pc[c] \in {"idle", "dial", "edit", "save"}
  /\ pc[c] \in {"idle", "dial"} => writes[c] = <<>>
  /\ pc[c] = "dial" => newKey[c] \in Nat
  /\ pc[c] = "edit" => \E reg \in SUBSET Entry : /\ writes[c] = <<<<"services.json", reg>>>>
                                                 /\ Distinct(reg)
  /\ pc[c] = "save" => /\ Rooted
                       /\ \E r \in nodes, t \in 0 .. period, j \in 1 .. 4 :
                            writes[c] = SaveFrom(j, r, t)
  /\ c \in half => writes[c] # <<>>

CmdInv == \A c \in Cmd : CmdOk(c)

------------------------------------------------------------------------------
(* The hub's own files                                                      *)

\* A CA key is never there without its certificate, nor with another one.
CaFiles ==
  /\ disk[Hub]["ca.crt"] = None => disk[Hub]["ca.key"] = None
  /\ Parses(Hub, "ca.crt") /\ Parses(Hub, "ca.key") => Rooted
  /\ Parses(Hub, "server.crt") => Rooted /\ disk[Hub]["server.crt"].issuer = Root

\* The hub that runs has the CA in its hands that is on its disk, or is writing it.
HubInv ==
  /\ pc[Hub] \in {"down", "pki", "tls", "serving"}
  /\ Hub \in half => writes[Hub] # <<>>
  /\ pc[Hub] # "down" => ca \in [crt : Nat, key : Nat] /\ ca.crt = ca.key
  /\ pc[Hub] \in {"down", "serving"} => writes[Hub] = <<>>
  /\ pc[Hub] = "serving" => PairLoads
  /\ pc[Hub] \in {"tls", "serving"} \/ (pc[Hub] = "pki" /\ writes[Hub] = <<>>) =>
       Rooted /\ Root = ca.crt
  /\ pc[Hub] = "pki" =>
       \/ writes[Hub] = <<>>
       \/ /\ writes[Hub] = << <<"ca.crt", ca.crt>>, <<"ca.key", ca.key>> >>
          /\ disk[Hub]["ca.crt"] \in {None, Torn} /\ disk[Hub]["ca.key"] = None
          /\ Hub \in half => disk[Hub]["ca.crt"] = Torn
       \/ /\ writes[Hub] = << <<"ca.key", ca.key>> >>
          /\ disk[Hub]["ca.crt"] = ca.crt /\ disk[Hub]["ca.key"] \in {None, Torn}
          /\ Hub \in half => disk[Hub]["ca.key"] = Torn
  /\ pc[Hub] = "tls" =>
       \/ writes[Hub] = <<>>
       \/ \E k \in 1 .. keys, t \in 0 .. period :
            writes[Hub] = << <<"server.crt", [key |-> k, issuer |-> ca.key, from |-> t]>>,
                             <<"server.key", k>> >>
       \/ \E k \in 1 .. keys : writes[Hub] = << <<"server.key", k>> >>

------------------------------------------------------------------------------
(* The identities                                                           *)

\* What a file of a machine may hold: what the hub issued, and distinct entries.
Genuine(f, v) ==
  /\ f = "ca.crt" => Rooted /\ v = Root
  /\ f = "identity.crt" => Rooted /\ \E r \in nodes, t \in 0 .. period : v = Cert(r, t)
  /\ f = "services.json" => Distinct(v)

Issued ==
  \A m \in Machine : \A f \in File :
    /\ m \notin dir => disk[m][f] = None
    /\ Parses(m, f) => Genuine(f, disk[m][f])

Intact(m) == m \in dir /\ agent[m] # "destroying"

\* Save has got to its j-th file, and what it has written is there.
Progress(c, m) ==
  \E r \in nodes, t \in 0 .. period, j \in 1 .. 4 :
    /\ writes[c] = SaveFrom(j, r, t)
    /\ j > 1 => disk[m]["identity.key"] = r.key
    /\ j > 2 => disk[m]["identity.crt"] = Cert(r, t)
    /\ j > 3 => disk[m]["ca.crt"] = Root
    /\ c \in half => disk[m][writes[c][1][1]] = Torn

\* state.json, the certificate, its key and the CA belong together.
Fits(m) ==
  LET st == disk[m]["state.json"] IN
  /\ TLSConfig(m, st)
  /\ disk[m]["identity.crt"].node = st.node
  /\ disk[m]["identity.crt"].issuer = st.pin

\* At most one command saves, state.json comes last, and is then complete.
SaveAt(m) ==
  /\ \A c, d \in Cmd : At(c) = m /\ At(d) = m /\ pc[c] = "save" /\ pc[d] = "save" => c = d
  /\ \A c \in Cmd : At(c) = m /\ pc[c] = "save" =>
       ~Parses(m, "state.json") /\ (Intact(m) => Progress(c, m))
  /\ Parses(m, "state.json") /\ agent[m] # "destroying" => Fits(m)

SaveInv == \A m \in Machine \ clash : SaveAt(m)

FileInv == Types /\ Tables /\ CmdInv /\ CaFiles /\ HubInv /\ Issued

------------------------------------------------------------------------------
(* Files, places and lists of writes                                        *)

\* What is in the files, by name.
LEMMA ContentOf ==
  /\ Content("ca.crt") = Nat /\ Content("ca.key") = Nat /\ Content("server.key") = Nat
  /\ Content("identity.key") = Nat /\ Content("server.crt") = ServerCert
  /\ Content("identity.crt") = ClientCert /\ Content("state.json") = State
  /\ Content("services.json") = SUBSET Entry
BY DEF Content

\* A number, a certificate or a state is a file that can be parsed.
LEMMA ContentParses ==
  \A v \in Nat \cup ServerCert \cup ClientCert \cup State : v \notin {None, Torn}
<1>1. {"ca.crt", "server.crt", "identity.crt", "state.json"} \subseteq File \ {"services.json"}
  BY DEF File
<1> QED
  BY <1>1, ContentOf, ContentAssumption

\* A command works in the directory of its machine, the hub in its own.
LEMMA PlaceOf ==
  /\ Hub \in Place /\ Hub \in Proc /\ At(Hub) = Hub /\ Machine \subseteq Place
  /\ Hub \notin Machine
  /\ \A c \in Cmd : c \in Proc /\ c # Hub /\ At(c) \in Machine /\ At(c) \in Place /\ At(c) # Hub
BY CmdAssumption, HubAssumption DEF At, Place, Proc

\* One file changes.
LEMMA DiskStep ==
  ASSUME Tables, NEW q \in Place, NEW f \in File, NEW v, disk' = [disk EXCEPT ![q][f] = v]
  PROVE  /\ \A x \in Place, g \in File :
              disk'[x][g] = IF x = q /\ g = f THEN v ELSE disk[x][g]
         /\ disk' = [x \in Place |-> [g \in File |-> disk'[x][g]]]
BY DEF Tables

\* One list of writes changes.
LEMMA WritesStep ==
  ASSUME Tables, NEW p \in Proc, NEW w, writes' = [writes EXCEPT ![p] = w]
  PROVE  /\ \A x \in Proc : writes'[x] = IF x = p THEN w ELSE writes[x]
         /\ writes' = [x \in Proc |-> writes'[x]]
BY DEF Tables

\* The files of an identity are written one after the other (Save).
LEMMA SaveTail ==
  ASSUME NEW j \in 1 .. 4, NEW r, NEW t
  PROVE  /\ SaveFrom(j, r, t) # <<>>
         /\ Len(SaveFrom(j, r, t)) = 5 - j
         /\ SaveFrom(j, r, t)[1] = CASE j = 1 -> KeyWrite(r)
                                     [] j = 2 -> CrtWrite(r, t)
                                     [] j = 3 -> CaWrite
                                     [] OTHER -> StateWrite(r)
<1>1. j = 1 \/ j = 2 \/ j = 3 \/ j = 4
  OBVIOUS
<1> HIDE DEF KeyWrite, CrtWrite, CaWrite, StateWrite
<1>2. CASE j = 1
  BY <1>2 DEF SaveFrom
<1>3. CASE j = 2
  BY <1>3 DEF SaveFrom
<1>4. CASE j = 3
  BY <1>4 DEF SaveFrom
<1>5. CASE j = 4
  BY <1>5 DEF SaveFrom
<1> QED
  BY <1>1, <1>2, <1>3, <1>4, <1>5

\* What is left of them after a write is what Save writes from the next one on.
LEMMA SaveNext ==
  ASSUME NEW j \in 1 .. 4, NEW i \in 1 .. 4, i = j + 1, NEW r, NEW t
  PROVE  Tail(SaveFrom(j, r, t)) = SaveFrom(i, r, t)
<1>1. (j = 1 /\ i = 2) \/ (j = 2 /\ i = 3) \/ (j = 3 /\ i = 4)
  OBVIOUS
<1> HIDE DEF KeyWrite, CrtWrite, CaWrite, StateWrite
<1>2. CASE j = 1 /\ i = 2
  BY <1>2 DEF SaveFrom
<1>3. CASE j = 2 /\ i = 3
  BY <1>3 DEF SaveFrom
<1>4. CASE j = 3 /\ i = 4
  BY <1>4 DEF SaveFrom
<1> QED
  BY <1>1, <1>2, <1>3, <1>4

\* What a command is about to write is of the file's type and genuine.
LEMMA PendingOk ==
  ASSUME Types, NEW c \in Cmd, CmdOk(c), writes[c] # <<>>
  PROVE  /\ pc[c] \in {"edit", "save"}
         /\ writes[c][1][1] \in File
         /\ writes[c][1][2] \in Content(writes[c][1][1])
         /\ Genuine(writes[c][1][1], writes[c][1][2])
<1>1. pc[c] \in {"edit", "save"}
  BY DEF CmdOk
<1>2. CASE pc[c] = "edit"
  <2>1. PICK reg \in SUBSET Entry : writes[c] = <<<<"services.json", reg>>>> /\ Distinct(reg)
    BY <1>2 DEF CmdOk
  <2>2. writes[c][1][1] = "services.json" /\ writes[c][1][2] = reg
    BY <2>1
  <2> QED
    BY <1>1, <2>1, <2>2, ContentOf DEF Genuine, File
<1>3. CASE pc[c] = "save"
  <2>1. PICK r \in nodes, t \in 0 .. period, j \in 1 .. 4 : writes[c] = SaveFrom(j, r, t)
    BY <1>3 DEF CmdOk
  <2>2. Rooted /\ Root \in Nat /\ r.key \in Nat /\ r.node \in Nat /\ t \in Nat
    <3>1. Rooted /\ Parses(Hub, "ca.crt")
      BY <1>3 DEF CmdOk, Rooted
    <3>2. Root \in Nat
      BY <3>1, PlaceOf, ContentOf DEF Types, Root, Parses, File
    <3> QED
      BY <3>1, <3>2 DEF Types
  <2>3. /\ Cert(r, t) \in ClientCert /\ [node |-> r.node, pin |-> Root] \in State
        /\ Genuine("ca.crt", Root) /\ Genuine("identity.crt", Cert(r, t))
    BY <2>2 DEF Cert, ClientCert, State, Genuine
  <2>4. writes[c][1] \in {KeyWrite(r), CrtWrite(r, t), CaWrite, StateWrite(r)}
    BY <2>1, SaveTail
  <2>5. CASE writes[c][1] = KeyWrite(r)
    <3>1. writes[c][1][1] = "identity.key" /\ writes[c][1][2] = r.key
      BY <2>5 DEF KeyWrite
    <3> QED
      BY <1>1, <2>2, <3>1, ContentOf DEF Genuine, File
  <2>6. CASE writes[c][1] = CrtWrite(r, t)
    <3>1. writes[c][1][1] = "identity.crt" /\ writes[c][1][2] = Cert(r, t)
      BY <2>6 DEF CrtWrite
    <3> QED
      BY <1>1, <2>3, <3>1, ContentOf DEF File
  <2>7. CASE writes[c][1] = CaWrite
    <3>1. writes[c][1][1] = "ca.crt" /\ writes[c][1][2] = Root
      BY <2>7 DEF CaWrite
    <3> QED
      BY <1>1, <2>2, <2>3, <3>1, ContentOf DEF File
  <2>8. CASE writes[c][1] = StateWrite(r)
    <3>1. writes[c][1][1] = "state.json" /\ writes[c][1][2] = [node |-> r.node, pin |-> Root]
      BY <2>8 DEF StateWrite
    <3> QED
      BY <1>1, <2>3, <3>1, ContentOf DEF Genuine, File
  <2> QED
    BY <2>4, <2>5, <2>6, <2>7, <2>8
<1> QED
  BY <1>1, <1>2, <1>3

\* What the hub is about to write: its CA before there is one, or a server
\* certificate of its CA.
LEMMA HubPendingOk ==
  ASSUME Types, HubInv, writes[Hub] # <<>>
  PROVE  LET f == writes[Hub][1][1]
             v == writes[Hub][1][2]
         IN  /\ f \in {"ca.crt", "ca.key", "server.crt", "server.key"} /\ v \in Content(f)
             /\ f \in {"ca.crt", "ca.key"} => pc[Hub] = "pki" /\ ~Rooted /\ v = ca.crt
             /\ f \in {"server.crt", "server.key"} => pc[Hub] = "tls" /\ Rooted
             /\ f = "server.crt" => v.issuer = Root
<1> DEFINE f == writes[Hub][1][1]
           v == writes[Hub][1][2]
<1>1. pc[Hub] \in {"pki", "tls"} /\ ca.crt \in Nat /\ ca.key = ca.crt
  BY DEF HubInv
<1>2. CASE writes[Hub] = << <<"ca.crt", ca.crt>>, <<"ca.key", ca.key>> >> /\ pc[Hub] = "pki"
             /\ disk[Hub]["ca.crt"] \in {None, Torn}
  <2>1. f = "ca.crt" /\ v = ca.crt
    BY <1>2
  <2>2. ~Rooted
    BY <1>2 DEF Rooted, Parses
  <2> QED
    BY <1>1, <1>2, <2>1, <2>2, ContentOf
<1>3. CASE writes[Hub] = << <<"ca.key", ca.key>> >> /\ pc[Hub] = "pki"
             /\ disk[Hub]["ca.crt"] = ca.crt /\ disk[Hub]["ca.key"] \in {None, Torn}
  <2>1. f = "ca.key" /\ v = ca.key
    BY <1>3
  <2>2. ~Rooted
    BY <1>1, <1>3, ContentParses DEF Rooted, Root
  <2> QED
    BY <1>1, <1>3, <2>1, <2>2, ContentOf
<1>4. ASSUME NEW k \in 1 .. keys, NEW t \in 0 .. period, pc[Hub] = "tls",
             writes[Hub] = << <<"server.crt", [key |-> k, issuer |-> ca.key, from |-> t]>>,
                              <<"server.key", k>> >>
      PROVE  f = "server.crt" /\ v \in ServerCert /\ v.issuer = Root /\ Rooted
  <2>1. f = "server.crt" /\ v = [key |-> k, issuer |-> ca.key, from |-> t]
    BY <1>4
  <2>2. Rooted /\ Root = ca.crt /\ k \in Nat /\ t \in Nat
    BY <1>4 DEF HubInv, Types
  <2> QED
    BY <1>1, <2>1, <2>2 DEF ServerCert
<1>5. ASSUME NEW k \in 1 .. keys, pc[Hub] = "tls", writes[Hub] = << <<"server.key", k>> >>
      PROVE  f = "server.key" /\ v \in Nat /\ Rooted
  BY <1>5 DEF HubInv, Types
<1>6. CASE pc[Hub] = "pki"
  BY <1>2, <1>3, <1>6 DEF HubInv
<1>7. CASE pc[Hub] = "tls"
  <2>1. \/ f = "server.crt" /\ v \in ServerCert /\ v.issuer = Root /\ Rooted
        \/ f = "server.key" /\ v \in Nat /\ Rooted
    BY <1>4, <1>5, <1>7 DEF HubInv
  <2> HIDE DEF f, v
  <2>2. f \in {"ca.crt", "ca.key", "server.crt", "server.key"} /\ v \in Content(f)
          /\ f \notin {"ca.crt", "ca.key"} /\ Rooted /\ (f = "server.crt" => v.issuer = Root)
    BY <2>1, ContentOf
  <2> QED
    BY <1>7, <2>2 DEF f, v
<1> QED
  BY <1>1, <1>6, <1>7

\* The first half of os.WriteFile.
LEMMA TruncateStep ==
  ASSUME Tables, NEW p \in Proc, Truncate(p), writes[p][1][1] \in File
  PROVE  /\ writes[p] # <<>> /\ p \notin half
         /\ Tables'
         /\ \/ /\ p # Hub /\ At(p) \notin dir
               /\ UNCHANGED <<disk, half>>
               /\ \A x \in Proc : writes'[x] = IF x = p THEN <<>> ELSE writes[x]
               /\ pc' = [pc EXCEPT ![p] = "idle"]
            \/ /\ p = Hub \/ At(p) \in dir
               /\ \A x \in Place, g \in File :
                    disk'[x][g] = IF x = At(p) /\ g = writes[p][1][1] THEN Torn ELSE disk[x][g]
               /\ half' = half \cup {p}
               /\ UNCHANGED <<pc, writes>>
<1> DEFINE f == writes[p][1][1]
<1>1. At(p) \in Place /\ f \in File
  BY PlaceOf DEF Proc
<1>2. CASE p = Hub \/ At(p) \in dir
  <2>1. disk' = [disk EXCEPT ![At(p)][f] = Torn] /\ half' = half \cup {p} /\ UNCHANGED <<pc, writes>>
    BY <1>2 DEF Truncate
  <2>2. /\ \A x \in Place, g \in File :
             disk'[x][g] = IF x = At(p) /\ g = f THEN Torn ELSE disk[x][g]
        /\ disk' = [x \in Place |-> [g \in File |-> disk'[x][g]]]
    BY <1>1, <2>1, DiskStep
  <2>3. Tables'
    BY <2>1, <2>2 DEF Tables
  <2> QED
    BY <1>2, <2>1, <2>2, <2>3 DEF Truncate
<1>3. CASE ~(p = Hub \/ At(p) \in dir)
  <2>1. /\ writes' = [writes EXCEPT ![p] = <<>>] /\ pc' = [pc EXCEPT ![p] = "idle"]
        /\ UNCHANGED <<disk, half>>
    BY <1>3 DEF Truncate
  <2>2. /\ \A x \in Proc : writes'[x] = IF x = p THEN <<>> ELSE writes[x]
        /\ writes' = [x \in Proc |-> writes'[x]]
    BY <2>1, WritesStep
  <2>3. Tables'
    BY <2>1, <2>2 DEF Tables
  <2> QED
    BY <1>3, <2>1, <2>2, <2>3 DEF Truncate
<1> QED
  BY <1>2, <1>3

\* The second half.
LEMMA WriteStep ==
  ASSUME Tables, NEW p \in Proc, Write(p), writes[p][1][1] \in File
  PROVE  LET f == writes[p][1][1]
             new == writes[p][1][2]
             old == disk[At(p)][f]
         IN
         /\ p \in half /\ half' = half \ {p}
         /\ Tables'
         /\ \E v : /\ v \in {None, Torn, new}
                   /\ old = None => v = None
                   /\ old = Torn => v = new
                   /\ old \notin {None, Torn} => v \in {new, Torn}
                   /\ \A x \in Place, g \in File :
                        disk'[x][g] = IF x = At(p) /\ g = f THEN v ELSE disk[x][g]
         /\ \A x \in Proc : writes'[x] = IF x = p THEN Tail(writes[p]) ELSE writes[x]
         /\ pc' = IF Len(writes[p]) = 1 THEN [pc EXCEPT ![p] = Rest(p)] ELSE pc
<1> DEFINE f == writes[p][1][1]
           new == writes[p][1][2]
           old == disk[At(p)][f]
<1>1. At(p) \in Place /\ f \in File
  BY PlaceOf DEF Proc
<1>2. PICK v : /\ v \in CASE old = None -> {None} [] old = Torn -> {new} [] OTHER -> {new, Torn}
               /\ disk' = [disk EXCEPT ![At(p)][f] = v]
  BY DEF Write
<1> HIDE DEF f, new, old
<1>3. /\ v \in {None, Torn, new} /\ (old = None => v = None)
      /\ (old = Torn => v = new) /\ (old \notin {None, Torn} => v \in {new, Torn})
  BY <1>2, NilAssumption
<1>4. /\ \A x \in Place, g \in File : disk'[x][g] = IF x = At(p) /\ g = f THEN v ELSE disk[x][g]
      /\ disk' = [x \in Place |-> [g \in File |-> disk'[x][g]]]
  BY <1>1, <1>2, DiskStep
<1>5. /\ \A x \in Proc : writes'[x] = IF x = p THEN Tail(writes[p]) ELSE writes[x]
      /\ writes' = [x \in Proc |-> writes'[x]]
  <2>1. writes' = [writes EXCEPT ![p] = Tail(writes[p])]
    BY DEF Write
  <2> QED
    BY <2>1, WritesStep
<1>6. Tables'
  BY <1>4, <1>5 DEF Tables
<1>7. /\ p \in half /\ half' = half \ {p}
      /\ pc' = IF Len(writes[p]) = 1 THEN [pc EXCEPT ![p] = Rest(p)] ELSE pc
  BY DEF Write
<1>8. \E w : /\ w \in {None, Torn, new}
             /\ old = None => w = None
             /\ old = Torn => w = new
             /\ old \notin {None, Torn} => w \in {new, Torn}
             /\ \A x \in Place, g \in File :
                  disk'[x][g] = IF x = At(p) /\ g = f THEN w ELSE disk[x][g]
  <2> WITNESS v
  <2> QED
    BY <1>3, <1>4
<1> QED
  BY <1>5, <1>6, <1>7, <1>8 DEF f, new, old

------------------------------------------------------------------------------
(* What is kept                                                             *)

\* The CA stays once it is complete, rows stay, time does not go back.
Grows ==
  /\ Rooted => Rooted' /\ Root' = Root
  /\ nodes \subseteq nodes'
  /\ 0 .. period \subseteq 0 .. period'

\* What is genuine stays so, and what is to be saved stays the same.
LEMMA GrowsKeeps ==
  ASSUME Grows
  PROVE  /\ \A f, v : Genuine(f, v) => Genuine(f, v)'
         /\ Rooted => \A r, t : Cert(r, t)' = Cert(r, t)
         /\ Rooted => \A j, r, t : SaveFrom(j, r, t)' = SaveFrom(j, r, t)
<1>1. Rooted => \A r, t : Cert(r, t)' = Cert(r, t)
  BY DEF Grows, Cert
<1>2. ASSUME NEW f, NEW v, Genuine(f, v) PROVE Genuine(f, v)'
  BY <1>1, <1>2 DEF Grows, Genuine
<1>3. Rooted => \A j, r, t : SaveFrom(j, r, t)' = SaveFrom(j, r, t)
  BY <1>1 DEF Grows, SaveFrom, StateWrite, CaWrite, CrtWrite, KeyWrite
<1> QED
  BY <1>1, <1>2, <1>3

\* A command that does nothing.
LEMMA CmdKept ==
  ASSUME Grows, NEW c \in Cmd, CmdOk(c), pc'[c] = pc[c], writes'[c] = writes[c],
         newKey'[c] = newKey[c], c \in half' => c \in half \/ writes[c] # <<>>
  PROVE  CmdOk(c)'
<1>1. ASSUME pc[c] = "save"
      PROVE  Rooted' /\ \E r \in nodes', t \in 0 .. period', j \in 1 .. 4 :
                          writes[c] = SaveFrom(j, r, t)'
  <2>1. PICK r \in nodes, t \in 0 .. period, j \in 1 .. 4 : writes[c] = SaveFrom(j, r, t)
    BY <1>1 DEF CmdOk
  <2>2. Rooted /\ Rooted' /\ r \in nodes' /\ t \in 0 .. period'
    BY <1>1 DEF CmdOk, Grows
  <2>3. writes[c] = SaveFrom(j, r, t)'
    BY <2>1, <2>2, GrowsKeeps
  <2> QED
    BY <2>2, <2>3
<1> QED
  BY <1>1 DEF CmdOk

\* The hub does nothing and nothing happens to its files.
LEMMA HubKept ==
  ASSUME HubInv, UNCHANGED ca, pc'[Hub] = pc[Hub], writes'[Hub] = writes[Hub],
         Hub \in half' => Hub \in half, \A f \in File : disk'[Hub][f] = disk[Hub][f],
         1 .. keys \subseteq 1 .. keys', 0 .. period \subseteq 0 .. period'
  PROVE  HubInv'
<1>1. {"ca.crt", "ca.key", "server.crt", "server.key"} \subseteq File
  BY DEF File
<1>2. UNCHANGED <<Root, Rooted, PairLoads, disk[Hub]["ca.crt"], disk[Hub]["ca.key"]>>
  BY <1>1 DEF Root, Rooted, PairLoads, Parses
<1> QED
  BY <1>2 DEF HubInv

\* The hub's files are as they were.
LEMMA CaKept ==
  ASSUME CaFiles, \A f \in File : disk'[Hub][f] = disk[Hub][f]
  PROVE  CaFiles' /\ (nodes \subseteq nodes' /\ 0 .. period \subseteq 0 .. period' => Grows)
<1>1. {"ca.crt", "ca.key", "server.crt", "server.key"} \subseteq File
  BY DEF File
<1>2. /\ Root' = Root /\ (Rooted' <=> Rooted) /\ disk'[Hub]["ca.crt"] = disk[Hub]["ca.crt"]
      /\ disk'[Hub]["ca.key"] = disk[Hub]["ca.key"]
      /\ disk'[Hub]["server.crt"] = disk[Hub]["server.crt"]
  BY <1>1 DEF Root, Rooted, Parses
<1> QED
  BY <1>2 DEF CaFiles, Grows, Parses

\* The machines' files are as they were.
LEMMA IssuedKept ==
  ASSUME Grows, Issued, dir \subseteq dir',
         \A m \in Machine, f \in File : disk'[m][f] = disk[m][f]
  PROVE  Issued'
BY GrowsKeeps DEF Issued, Parses

------------------------------------------------------------------------------
(* The steps and the files                                                  *)

\* LoadOrCreate, IssueServer and ServeControl decide what the hub will write.
LEMMA HubStart ==
  ASSUME FileInv, CreateCA \/ LoadCA \/ IssueServer \/ ServeControl
  PROVE  FileInv' /\ Grows
<1> USE DEF fileVars, hubVars, agentVars
<1>0. Types /\ Tables /\ CmdInv /\ CaFiles /\ HubInv /\ Issued /\ Hub \in Proc /\ Hub \in Place
        /\ \A c \in Cmd : c \in Proc /\ c # Hub
  BY PlaceOf DEF FileInv
<1>1. UNCHANGED <<disk, dir, half, newKey, nodes, gone, agentVars, period, budget, clash>>
        /\ keys' \in {keys, keys + 1}
  BY DEF CreateCA, LoadCA, IssueServer, ServeControl
<1>2. /\ \A p \in Proc : p # Hub => pc'[p] = pc[p]
      /\ pc' \in [Proc -> {"down", "pki", "tls", "serving", "idle", "dial", "save", "edit"}]
  <2>1. \E x \in {"down", "pki", "tls", "serving"} : pc' = [pc EXCEPT ![Hub] = x]
    BY DEF CreateCA, LoadCA, IssueServer, ServeControl
  <2> QED
    BY <1>0, <2>1 DEF Types
<1>3. Tables' /\ \A p \in Proc : p # Hub => writes'[p] = writes[p]
  <2>1. writes' = writes \/ \E w : writes' = [writes EXCEPT ![Hub] = w]
    BY DEF CreateCA, LoadCA, IssueServer, ServeControl
  <2>2. CASE writes' = writes
    BY <1>0, <1>1, <2>2 DEF Tables
  <2>3. ASSUME NEW w, writes' = [writes EXCEPT ![Hub] = w]
        PROVE  Tables' /\ \A p \in Proc : p # Hub => writes'[p] = writes[p]
    BY <1>0, <1>1, <2>3, WritesStep DEF Tables
  <2> QED
    BY <2>1, <2>2, <2>3
<1>4. CaFiles' /\ Grows
  BY <1>0, <1>1, CaKept
<1>5. Issued' /\ CmdInv'
  BY <1>0, <1>1, <1>2, <1>3, <1>4, IssuedKept, CmdKept DEF CmdInv
<1>6. ca' \in [crt : Nat, key : Nat] \cup {None} /\ HubInv'
  <2>0. {"ca.crt", "ca.key", "server.crt", "server.key"} \subseteq File
    BY DEF File
  <2>1. CASE CreateCA
    <3>1. /\ pc'[Hub] = "pki" /\ ca' = [crt |-> keys + 1, key |-> keys + 1]
          /\ writes'[Hub] = << <<"ca.crt", keys + 1>>, <<"ca.key", keys + 1>> >>
          /\ pc[Hub] = "down" /\ disk'[Hub]["ca.crt"] = None /\ disk'[Hub]["ca.key"] = None
      BY <1>0, <1>1, <2>1 DEF CreateCA, Types, Tables, CaFiles
    <3>2. ca' \in [crt : Nat, key : Nat] /\ ca'.crt = keys + 1 /\ ca'.key = keys + 1
      BY <1>0, <3>1 DEF Types
    <3>3. Hub \notin half'
      BY <1>0, <1>1, <3>1 DEF HubInv
    <3> QED
      BY <3>1, <3>2, <3>3 DEF HubInv
  <2>2. CASE LoadCA
    <3>1. /\ pc'[Hub] = "pki" /\ writes'[Hub] = <<>> /\ Hub \notin half'
          /\ ca' = [crt |-> disk[Hub]["ca.crt"], key |-> disk[Hub]["ca.key"]]
      BY <1>0, <1>1, <2>2 DEF LoadCA, Types, HubInv
    <3>2. Rooted /\ disk[Hub]["ca.crt"] \in Nat /\ disk[Hub]["ca.key"] \in Nat
      BY <1>0, <2>0, <2>2, ContentOf DEF LoadCA, CaFiles, Types, Parses
    <3>3. /\ ca' \in [crt : Nat, key : Nat] /\ ca'.crt = disk[Hub]["ca.crt"]
          /\ ca'.key = disk[Hub]["ca.key"]
      BY <3>1, <3>2
    <3>4. Rooted' /\ Root' = ca'.crt /\ ca'.crt = ca'.key
      BY <1>1, <3>2, <3>3 DEF Rooted, Root, Parses
    <3> QED
      BY <3>1, <3>3, <3>4 DEF HubInv
  <2>3. CASE IssueServer
    <3>1. /\ pc'[Hub] = "tls" /\ ca' = ca /\ Hub \notin half'
          /\ pc[Hub] = "pki" /\ writes[Hub] = <<>>
      BY <1>0, <1>1, <2>3 DEF IssueServer, Types, HubInv
    <3>2. Rooted' /\ Root' = ca'.crt /\ ca' \in [crt : Nat, key : Nat] /\ ca'.crt = ca'.key
      BY <1>0, <1>1, <3>1 DEF HubInv, Rooted, Root, Parses
    <3>3. \/ writes'[Hub] = <<>>
          \/ \E k \in 1 .. keys', t \in 0 .. period' :
               writes'[Hub] = << <<"server.crt", [key |-> k, issuer |-> ca'.key, from |-> t]>>,
                                 <<"server.key", k>> >>
      <4>1. CASE Reusable
        BY <2>3, <3>1, <4>1 DEF IssueServer
      <4>2. CASE ~Reusable
        <5>1. /\ keys' = keys + 1
              /\ writes'[Hub] =
                   << <<"server.crt", [key |-> keys + 1, issuer |-> ca.key, from |-> period]>>,
                      <<"server.key", keys + 1>> >>
          BY <1>0, <2>3, <4>2 DEF IssueServer, Tables
        <5>2. keys + 1 \in 1 .. keys' /\ period \in 0 .. period'
          BY <1>0, <1>1, <5>1 DEF Types
        <5> QED
          BY <3>1, <5>1, <5>2
      <4> QED
        BY <4>1, <4>2
    <3> QED
      BY <1>0, <3>1, <3>2, <3>3 DEF HubInv, Types
  <2>4. CASE ServeControl
    <3>1. /\ ca' = ca /\ Hub \notin half' /\ writes'[Hub] = <<>> /\ pc[Hub] = "tls"
          /\ pc'[Hub] = IF PairLoads THEN "serving" ELSE "down"
      BY <1>0, <1>1, <2>4 DEF ServeControl, Types, HubInv
    <3>2. Rooted' /\ Root' = ca'.crt /\ ca' \in [crt : Nat, key : Nat] /\ ca'.crt = ca'.key
            /\ (PairLoads => PairLoads')
      BY <1>0, <1>1, <3>1 DEF HubInv, Rooted, Root, Parses, PairLoads
    <3> QED
      BY <1>0, <3>1, <3>2 DEF HubInv, Types
  <2> QED
    BY <2>1, <2>2, <2>3, <2>4
<1>7. Types'
  BY <1>0, <1>1, <1>2, <1>6 DEF Types
<1> QED
  BY <1>3, <1>4, <1>5, <1>6, <1>7 DEF FileInv

\* What AddSvc and DelSvc are about to save has no alias and no unit twice.
LEMMA EditsAreDistinct ==
  ASSUME FileInv, NEW c \in Cmd, NEW e \in Entry
  PROVE  /\ Registry(At(c)) \in SUBSET Entry
         /\ Free(At(c), e) => Distinct(Registry(At(c)) \cup {e})
         /\ Kept(At(c), e) \in SUBSET Entry /\ Distinct(Kept(At(c), e))
<1> DEFINE m == At(c)
<1>1. m \in Machine /\ m \in Place /\ "services.json" \in File
  BY PlaceOf DEF File
<1>2. Registry(m) \in SUBSET Entry /\ Distinct(Registry(m))
  <2>1. CASE Parses(m, "services.json")
    <3>1. Genuine("services.json", disk[m]["services.json"])
      BY <1>1, <2>1 DEF FileInv, Issued
    <3>2. disk[m]["services.json"] \in SUBSET Entry
      BY <1>1, <2>1, ContentOf DEF FileInv, Types, Parses
    <3> QED
      BY <2>1, <3>1, <3>2 DEF Registry, Genuine
  <2>2. CASE ~Parses(m, "services.json")
    BY <2>2 DEF Registry, Distinct
  <2> QED
    BY <2>1, <2>2
<1> HIDE DEF m
<1>3. Free(m, e) => Distinct(Registry(m) \cup {e})
  BY <1>2 DEF Free, Distinct
<1>4. Kept(m, e) \in SUBSET Entry /\ Distinct(Kept(m, e))
  BY <1>2 DEF Kept, Distinct
<1> QED
  BY <1>2, <1>3, <1>4 DEF m

\* A command starts to enroll, is answered or not, or edits the registry.
LEMMA CmdStart ==
  ASSUME FileInv, NEW c \in Cmd,
         \/ EnrollStart(c) \/ EnrollAck(c) \/ EnrollFails(c)
         \/ \E e \in Entry : AddSvc(c, e) \/ DelSvc(c, e)
  PROVE  FileInv' /\ Grows
<1> USE DEF fileVars, hubVars, agentVars
<1>0. Types /\ Tables /\ CmdInv /\ CaFiles /\ HubInv /\ Issued /\ c \in Proc /\ c # Hub
        /\ Hub \in Proc /\ Hub \notin Machine /\ \A d \in Cmd : d \in Proc
  BY PlaceOf DEF FileInv
<1>1. /\ UNCHANGED <<disk, half, ca, gone, agentVars, period>>
      /\ \E x \in {"idle", "dial", "save", "edit"} : pc' = [pc EXCEPT ![c] = x]
      /\ writes' = writes \/ \E w : writes' = [writes EXCEPT ![c] = w]
      /\ pc[c] \in {"idle", "dial"}
  BY DEF EnrollStart, EnrollAck, EnrollFails, AddSvc, DelSvc, EditReg
<1>2. /\ Tables'
      /\ \A p \in Proc : p # c => pc'[p] = pc[p] /\ writes'[p] = writes[p]
      /\ pc' \in [Proc -> {"down", "pki", "tls", "serving", "idle", "dial", "save", "edit"}]
  <2>1. CASE writes' = writes
    BY <1>0, <1>1, <2>1 DEF Tables, Types
  <2>2. ASSUME NEW w, writes' = [writes EXCEPT ![c] = w]
        PROVE  Tables' /\ \A p \in Proc : p # c => writes'[p] = writes[p]
    BY <1>0, <1>1, <2>2, WritesStep DEF Tables
  <2>3. /\ \A p \in Proc : p # c => pc'[p] = pc[p]
        /\ pc' \in [Proc -> {"down", "pki", "tls", "serving", "idle", "dial", "save", "edit"}]
    BY <1>0, <1>1 DEF Types
  <2> QED
    BY <1>1, <2>1, <2>2, <2>3
<1>3. /\ keys' \in Nat /\ keys <= keys' /\ nodes \subseteq nodes' /\ dir \subseteq dir'
      /\ nodes' \subseteq [node : Nat, key : Nat] /\ dir' \subseteq Machine /\ clash' \subseteq Machine
      /\ \A d \in Cmd : d # c => newKey'[d] = newKey[d]
      /\ newKey' \in [Cmd -> Nat \cup {None}] /\ budget' \in [Event -> Nat]
  <2>1. keys \in Nat /\ keys + 1 \in Nat /\ newKey \in [Cmd -> Nat \cup {None}]
          /\ budget \in [Event -> Nat] /\ At(c) \in Machine /\ dir \subseteq Machine
          /\ clash \subseteq Machine /\ nodes \subseteq [node : Nat, key : Nat]
    BY <1>0, PlaceOf DEF Types
  <2>2. CASE EnrollStart(c)
    <3>1. /\ newKey' = [newKey EXCEPT ![c] = keys + 1] /\ keys' = keys + 1
          /\ budget' = [budget EXCEPT !["enroll"] = @ - 1] /\ budget["enroll"] > 0
          /\ UNCHANGED <<nodes, dir, clash>>
      BY <2>2 DEF EnrollStart, Spend
    <3>2. budget' \in [Event -> Nat]
      BY <2>1, <3>1 DEF Event
    <3> QED
      BY <2>1, <3>1, <3>2
  <2>3. CASE EnrollAck(c) \/ EnrollFails(c)
    <3>1. Row(c) \in [node : Nat, key : Nat]
      BY <1>0, <2>1, <2>3 DEF EnrollAck, EnrollFails, CmdInv, CmdOk, Row
    <3>2. /\ nodes' = nodes \/ nodes' = nodes \cup {Row(c)}
          /\ keys' \in {keys, keys + 1} /\ dir' \in {dir, dir \cup {At(c)}}
          /\ clash' \in {clash, clash \cup {At(c)}, clash \ {At(c)}}
          /\ UNCHANGED <<newKey, budget>>
      BY <2>3 DEF EnrollAck, EnrollFails
    <3> QED
      BY <2>1, <3>1, <3>2
  <2>4. CASE \E e \in Entry : AddSvc(c, e) \/ DelSvc(c, e)
    <3>1. /\ budget' = [budget EXCEPT !["edit"] = @ - 1] /\ budget["edit"] > 0
          /\ UNCHANGED <<nodes, dir, clash, newKey, keys>>
      BY <2>4 DEF AddSvc, DelSvc, EditReg, Spend
    <3>2. budget' \in [Event -> Nat]
      BY <2>1, <3>1 DEF Event
    <3> QED
      BY <2>1, <3>1, <3>2
  <2> QED
    BY <2>2, <2>3, <2>4
<1>4. Types'
  BY <1>0, <1>1, <1>2, <1>3 DEF Types
<1>5. CaFiles' /\ Grows
  BY <1>0, <1>1, <1>3, CaKept
<1>6. Issued'
  BY <1>0, <1>1, <1>3, <1>5, IssuedKept
<1>7. HubInv'
  <2>1. 1 .. keys \subseteq 1 .. keys'
    BY <1>0, <1>3 DEF Types
  <2> QED
    BY <1>0, <1>1, <1>2, <2>1, HubKept
<1>8. CmdOk(c)'
  <2>0. c \notin half' /\ writes[c] = <<>>
    BY <1>0, <1>1 DEF CmdInv, CmdOk
  <2>1. CASE EnrollStart(c)
    <3>1. pc'[c] = "dial" /\ newKey'[c] \in Nat /\ writes'[c] = <<>>
      BY <1>0, <2>0, <2>1 DEF EnrollStart, Types
    <3> QED
      BY <2>0, <3>1 DEF CmdOk
  <2>2. CASE EnrollAck(c)
    <3> DEFINE r == Row(c)
    <3>1. /\ pc'[c] = "save" /\ writes'[c] = Save(c) /\ r \in nodes' /\ pc[Hub] = "serving"
      BY <1>0, <2>2 DEF EnrollAck, Types, Tables
    <3>2. Rooted /\ Root = ca.crt /\ Rooted' /\ Root' = Root /\ ca.key = ca.crt
      BY <1>0, <1>5, <2>2, <3>1 DEF EnrollAck, HubInv, Grows
    <3>3. period \in 0 .. period'
      BY <1>0, <1>1 DEF Types
    <3>4. Save(c) = SaveFrom(1, r, period)
      <4>1. r.node = keys + 1 /\ r.key = newKey[c]
        BY DEF Row
      <4> QED
        BY <3>2, <4>1 DEF Save, SaveFrom, KeyWrite, CrtWrite, CaWrite, StateWrite, Cert
    <3>5. PICK s \in nodes', t \in 0 .. period' : s = r /\ t = period
      BY <3>1, <3>3
    <3>6. writes'[c] = SaveFrom(1, s, t)'
      BY <3>1, <3>2, <3>4, <3>5, <1>5, GrowsKeeps
    <3>7. \E x \in nodes', y \in 0 .. period', j \in 1 .. 4 : writes'[c] = SaveFrom(j, x, y)'
      BY <3>6
    <3>8. writes'[c] # <<>>
      BY <3>1 DEF Save
    <3> QED
      BY <2>0, <3>1, <3>2, <3>7, <3>8 DEF CmdOk
  <2>3. CASE EnrollFails(c)
    <3>1. pc'[c] = "idle" /\ writes'[c] = <<>>
      BY <1>0, <2>0, <2>3 DEF EnrollFails, Types
    <3> QED
      BY <2>0, <3>1 DEF CmdOk
  <2>4. ASSUME NEW e \in Entry, AddSvc(c, e) \/ DelSvc(c, e) PROVE CmdOk(c)'
    <3>1. PICK reg \in SUBSET Entry : EditReg(c, reg) /\ Distinct(reg)
      <4>1. CASE AddSvc(c, e)
        <5>1. Registry(At(c)) \cup {e} \in SUBSET Entry /\ Distinct(Registry(At(c)) \cup {e})
          BY <4>1, EditsAreDistinct DEF AddSvc
        <5> QED
          BY <4>1, <5>1 DEF AddSvc
      <4>2. CASE DelSvc(c, e)
        BY <4>2, EditsAreDistinct DEF DelSvc
      <4> QED
        BY <2>4, <4>1, <4>2
    <3>2. pc'[c] = "edit" /\ writes'[c] = <<<<"services.json", reg>>>>
      BY <1>0, <3>1 DEF EditReg, Types, Tables
    <3> QED
      BY <2>0, <3>1, <3>2 DEF CmdOk
  <2> QED
    BY <2>1, <2>2, <2>3, <2>4
<1>9. CmdInv'
  <2>1. ASSUME NEW d \in Cmd, d # c PROVE CmdOk(d)'
    BY <1>0, <1>1, <1>2, <1>3, <1>5, <2>1, CmdKept DEF CmdInv
  <2> QED
    BY <1>8, <2>1 DEF CmdInv
<1> QED
  BY <1>2, <1>4, <1>5, <1>6, <1>7, <1>9 DEF FileInv

\* A command truncates or writes a file of its machine.
LEMMA CmdWrites ==
  ASSUME FileInv, NEW c \in Cmd, Truncate(c) \/ Write(c)
  PROVE  FileInv' /\ Grows
<1> USE DEF fileVars, hubVars, agentVars
<1> DEFINE m == At(c)
           f == writes[c][1][1]
           new == writes[c][1][2]
<1>0. /\ Types /\ Tables /\ CmdInv /\ CaFiles /\ HubInv /\ Issued /\ CmdOk(c)
      /\ c \in Proc /\ c # Hub /\ m \in Machine /\ m \in Place /\ Hub \in Proc /\ Hub \in Place
      /\ Hub \notin Machine /\ Machine \subseteq Place /\ \A d \in Cmd : d \in Proc
  BY PlaceOf DEF FileInv, CmdInv
<1>1. /\ writes[c] # <<>> /\ pc[c] \in {"edit", "save"} /\ f \in File /\ new \in Content(f)
      /\ Genuine(f, new)
  <2>1. writes[c] # <<>>
    BY <1>0 DEF Truncate, Write, CmdOk
  <2> QED
    BY <1>0, <2>1, PendingOk
<1> HIDE DEF m, f, new
<1>2. UNCHANGED <<dir, newKey, ca, nodes, gone, agent, id, keys, period, budget, clash>>
  BY DEF Truncate, Write
<1>3. /\ Tables' /\ half' \subseteq half \cup {c}
      /\ \A x \in Place, g \in File :
           \/ disk'[x][g] = disk[x][g]
           \/ x = m /\ g = f /\ m \in dir /\ disk'[x][g] \in {Torn, new}
      /\ \A d \in Proc : d # c => writes'[d] = writes[d]
      /\ \A d \in Proc : d # c => pc'[d] = pc[d]
      /\ pc' \in [Proc -> {"down", "pki", "tls", "serving", "idle", "dial", "save", "edit"}]
      /\ CmdOk(c)' \/ pc'[c] = pc[c]
      /\ pc'[c] = pc[c] => writes'[c] \in {writes[c], Tail(writes[c])}
      /\ pc'[c] = pc[c] /\ writes'[c] # writes[c] => c \notin half' /\ Len(writes[c]) # 1
  <2>1. CASE Truncate(c)
    <3>1. /\ c \notin half /\ Tables'
          /\ \/ /\ UNCHANGED <<disk, half>>
                /\ \A x \in Proc : writes'[x] = IF x = c THEN <<>> ELSE writes[x]
                /\ pc' = [pc EXCEPT ![c] = "idle"]
             \/ /\ m \in dir
                /\ \A x \in Place, g \in File :
                     disk'[x][g] = IF x = m /\ g = f THEN Torn ELSE disk[x][g]
                /\ half' = half \cup {c}
                /\ UNCHANGED <<pc, writes>>
      BY <1>0, <1>1, <2>1, TruncateStep DEF f, m
    <3>2. CASE /\ UNCHANGED <<disk, half>>
               /\ \A x \in Proc : writes'[x] = IF x = c THEN <<>> ELSE writes[x]
               /\ pc' = [pc EXCEPT ![c] = "idle"]
      <4>1. pc'[c] = "idle" /\ writes'[c] = <<>> /\ c \notin half'
        BY <1>0, <3>1, <3>2 DEF Types
      <4>2. CmdOk(c)'
        BY <4>1 DEF CmdOk
      <4> QED
        BY <1>0, <1>1, <3>1, <3>2, <4>1, <4>2 DEF Types
    <3>3. CASE /\ m \in dir
               /\ \A x \in Place, g \in File :
                    disk'[x][g] = IF x = m /\ g = f THEN Torn ELSE disk[x][g]
               /\ half' = half \cup {c}
               /\ UNCHANGED <<pc, writes>>
      BY <1>0, <3>1, <3>3 DEF Types
    <3> QED
      BY <3>1, <3>2, <3>3
  <2>2. CASE Write(c)
    <3>1. /\ half' = half \ {c} /\ Tables'
          /\ \A x \in Proc : writes'[x] = IF x = c THEN Tail(writes[c]) ELSE writes[x]
          /\ pc' = IF Len(writes[c]) = 1 THEN [pc EXCEPT ![c] = Rest(c)] ELSE pc
      BY <1>0, <1>1, <2>2, WriteStep DEF f
    <3>2. \E v : /\ v \in {None, Torn, new}
                 /\ disk[m][f] = None => v = None
                 /\ disk[m][f] = Torn => v = new
                 /\ disk[m][f] \notin {None, Torn} => v \in {new, Torn}
                 /\ \A x \in Place, g \in File :
                      disk'[x][g] = IF x = m /\ g = f THEN v ELSE disk[x][g]
      BY <1>0, <1>1, <2>2, WriteStep DEF f, m, new
    <3>3. disk[m][f] = None \/ m \in dir
      BY <1>0, <1>1 DEF Issued
    <3>4. \A x \in Place, g \in File :
             \/ disk'[x][g] = disk[x][g]
             \/ x = m /\ g = f /\ m \in dir /\ disk'[x][g] \in {Torn, new}
      BY <3>2, <3>3
    <3>5. Rest(c) = "idle"
      BY <1>0 DEF Rest
    <3>6. CASE Len(writes[c]) = 1
      <4>1. writes'[c] = <<>>
        <5>1. CASE pc[c] = "edit"
          <6>1. PICK reg \in SUBSET Entry : writes[c] = <<<<"services.json", reg>>>>
            BY <1>0, <5>1 DEF CmdOk
          <6>2. Tail(<<<<"services.json", reg>>>>) = <<>>
            OBVIOUS
          <6> QED
            BY <1>0, <3>1, <6>1, <6>2
        <5>2. CASE pc[c] = "save"
          <6>1. PICK r \in nodes, t \in 0 .. period, j \in 1 .. 4 : writes[c] = SaveFrom(j, r, t)
            BY <1>0, <5>2 DEF CmdOk
          <6>2. j = 4 /\ writes[c] = << StateWrite(r) >>
            <7>1. Len(SaveFrom(j, r, t)) = 5 - j
              BY SaveTail
            <7>2. 5 - j = 1
              BY <3>6, <6>1, <7>1
            <7>3. j = 4
              BY <7>2
            <7> QED
              BY <6>1, <7>3 DEF SaveFrom
          <6> QED
            BY <1>0, <3>1, <6>2
        <5> QED
          BY <1>1, <5>1, <5>2
      <4>2. pc'[c] = "idle" /\ c \notin half'
        BY <1>0, <3>1, <3>5, <3>6 DEF Types
      <4>3. CmdOk(c)'
        BY <4>1, <4>2 DEF CmdOk
      <4> QED
        <5>1. /\ \A d \in Proc : d # c => pc'[d] = pc[d]
              /\ pc' \in [Proc -> {"down", "pki", "tls", "serving", "idle", "dial", "save", "edit"}]
          BY <1>0, <3>1, <3>5, <3>6 DEF Types
        <5>2. pc'[c] # pc[c]
          BY <1>1, <4>2
        <5> QED
          BY <3>1, <3>4, <4>3, <5>1, <5>2
    <3>7. CASE Len(writes[c]) # 1
      BY <1>0, <3>1, <3>4, <3>7 DEF Types
    <3> QED
      BY <3>6, <3>7
  <2> QED
    BY <2>1, <2>2
<1>4. \A g \in File : disk'[Hub][g] = disk[Hub][g]
  BY <1>0, <1>3
<1>5. CaFiles' /\ Grows
  BY <1>0, <1>2, <1>4, CaKept
<1>6. Types'
  <2>1. \A x \in Place, g \in File : disk'[x][g] \in Content(g) \cup {None, Torn}
    BY <1>0, <1>1, <1>3 DEF Types
  <2> QED
    BY <1>0, <1>2, <1>3, <2>1 DEF Types
<1>7. HubInv'
  <2>1. Hub \in half' => Hub \in half
    BY <1>0, <1>3
  <2> QED
    BY <1>0, <1>2, <1>3, <1>4, <2>1, HubKept
<1>8. Issued'
  <2>1. ASSUME NEW x \in Machine, NEW g \in File, NEW v, v = disk'[x][g]
        PROVE  /\ x \notin dir' => v = None
               /\ v \notin {None, Torn} => Genuine(g, v)'
    <3>1. CASE disk'[x][g] = disk[x][g]
      <4>1. v \notin {None, Torn} => Genuine(g, v)
        BY <1>0, <2>1, <3>1 DEF Issued, Parses
      <4> QED
        BY <1>0, <1>2, <1>5, <2>1, <3>1, <4>1, GrowsKeeps DEF Issued
    <3>2. CASE x = m /\ g = f /\ m \in dir /\ disk'[x][g] \in {Torn, new}
      <4>1. v \notin {None, Torn} => Genuine(g, v)
        BY <1>1, <2>1, <3>2
      <4> QED
        BY <1>2, <1>5, <3>2, <4>1, GrowsKeeps
    <3> QED
      BY <1>0, <1>3, <3>1, <3>2
  <2> QED
    BY <2>1 DEF Issued, Parses
<1>9. CmdOk(c)'
  <2>1. CASE pc'[c] = pc[c] /\ writes'[c] = writes[c]
    BY <1>0, <1>1, <1>2, <1>5, <2>1, CmdKept
  <2>2. CASE pc'[c] = pc[c] /\ writes'[c] # writes[c]
    <3>1. writes'[c] = Tail(writes[c]) /\ c \notin half' /\ Len(writes[c]) # 1
      BY <1>3, <2>2
    <3>2. pc[c] = "save"
      <4>1. ASSUME NEW reg, writes[c] = <<<<"services.json", reg>>>>
            PROVE  Len(writes[c]) = 1
        BY <4>1
      <4> QED
        BY <1>0, <1>1, <3>1, <4>1 DEF CmdOk
    <3>3. PICK r \in nodes, t \in 0 .. period, j \in 1 .. 4 : writes[c] = SaveFrom(j, r, t)
      BY <1>0, <3>2 DEF CmdOk
    <3>4. PICK i \in 1 .. 4 : i = j + 1
      <4>1. Len(SaveFrom(j, r, t)) = 5 - j
        BY SaveTail
      <4>2. j # 4
        BY <3>1, <3>3, <4>1
      <4> QED
        BY <4>2
    <3>5. writes'[c] = SaveFrom(i, r, t)
      <4>1. Tail(SaveFrom(j, r, t)) = SaveFrom(i, r, t)
        BY <3>4, SaveNext
      <4> QED
        BY <3>1, <3>3, <4>1
    <3>6. writes'[c] = SaveFrom(i, r, t)'
      BY <1>0, <1>5, <3>2, <3>5, GrowsKeeps DEF CmdOk
    <3>7. Rooted' /\ r \in nodes' /\ t \in 0 .. period'
      BY <1>0, <1>5, <3>2 DEF CmdOk, Grows
    <3>8. \E s \in nodes', u \in 0 .. period', k \in 1 .. 4 : writes'[c] = SaveFrom(k, s, u)'
      BY <3>6, <3>7
    <3> QED
      BY <2>2, <3>1, <3>2, <3>7, <3>8 DEF CmdOk
  <2> QED
    BY <1>3, <2>1, <2>2
<1>10. CmdInv'
  <2>1. ASSUME NEW d \in Cmd, d # c PROVE CmdOk(d)'
    BY <1>0, <1>2, <1>3, <1>5, <2>1, CmdKept DEF CmdInv
  <2> QED
    BY <1>9, <2>1 DEF CmdInv
<1> QED
  BY <1>3, <1>5, <1>6, <1>7, <1>8, <1>10 DEF FileInv

\* The hub truncates or writes a file of its own.
LEMMA HubWrites ==
  ASSUME FileInv, Truncate(Hub) \/ Write(Hub)
  PROVE  FileInv' /\ Grows
<1> USE DEF fileVars, hubVars, agentVars
<1> DEFINE f == writes[Hub][1][1]
           new == writes[Hub][1][2]
<1>0. /\ Types /\ Tables /\ CmdInv /\ CaFiles /\ HubInv /\ Issued
      /\ Hub \in Proc /\ Hub \in Place /\ Hub \notin Machine /\ Machine \subseteq Place
      /\ At(Hub) = Hub /\ \A d \in Cmd : d \in Proc /\ d # Hub
      /\ {"ca.crt", "ca.key", "server.crt", "server.key"} \subseteq File
  BY PlaceOf DEF FileInv, File
<1>1. /\ writes[Hub] # <<>> /\ f \in File /\ new \in Content(f)
      /\ f \in {"ca.crt", "ca.key", "server.crt", "server.key"}
      /\ f \in {"ca.crt", "ca.key"} => pc[Hub] = "pki" /\ ~Rooted /\ new = ca.crt
      /\ f \in {"server.crt", "server.key"} => pc[Hub] = "tls" /\ Rooted
      /\ f = "server.crt" => new.issuer = Root
  <2>1. writes[Hub] # <<>>
    BY <1>0 DEF Truncate, Write, HubInv
  <2> QED
    BY <1>0, <2>1, HubPendingOk
<1> HIDE DEF f, new
<1>2. UNCHANGED <<dir, newKey, ca, nodes, gone, agent, id, keys, period, budget, clash>>
  BY DEF Truncate, Write
<1>3. /\ Tables' /\ pc' = pc
      /\ \A d \in Proc : d # Hub => writes'[d] = writes[d]
      /\ \A x \in Place, g \in File : x # Hub \/ g # f => disk'[x][g] = disk[x][g]
      /\ \/ disk'[Hub][f] = Torn /\ half' = half \cup {Hub} /\ writes'[Hub] = writes[Hub]
         \/ /\ half' = half \ {Hub} /\ writes'[Hub] = Tail(writes[Hub])
            /\ disk'[Hub][f] \in {None, Torn, new} /\ Hub \in half
            /\ disk[Hub][f] = Torn => disk'[Hub][f] = new
  <2>1. CASE Truncate(Hub)
    <3>1. /\ Tables' /\ UNCHANGED <<pc, writes>>
          /\ \A x \in Place, g \in File :
               disk'[x][g] = IF x = Hub /\ g = f THEN Torn ELSE disk[x][g]
          /\ half' = half \cup {Hub}
      BY <1>0, <1>1, <2>1, TruncateStep DEF f
    <3> QED
      BY <1>0, <1>1, <3>1
  <2>2. CASE Write(Hub)
    <3>1. /\ half' = half \ {Hub} /\ Hub \in half /\ Tables'
          /\ \A x \in Proc : writes'[x] = IF x = Hub THEN Tail(writes[Hub]) ELSE writes[x]
          /\ pc' = IF Len(writes[Hub]) = 1 THEN [pc EXCEPT ![Hub] = Rest(Hub)] ELSE pc
      BY <1>0, <1>1, <2>2, WriteStep DEF f
    <3>2. \E v : /\ v \in {None, Torn, new}
                 /\ disk[Hub][f] = Torn => v = new
                 /\ \A x \in Place, g \in File :
                      disk'[x][g] = IF x = Hub /\ g = f THEN v ELSE disk[x][g]
      <4>1. \E v : /\ v \in {None, Torn, new}
                   /\ disk[At(Hub)][f] = None => v = None
                   /\ disk[At(Hub)][f] = Torn => v = new
                   /\ disk[At(Hub)][f] \notin {None, Torn} => v \in {new, Torn}
                   /\ \A x \in Place, g \in File :
                        disk'[x][g] = IF x = At(Hub) /\ g = f THEN v ELSE disk[x][g]
        BY <1>0, <1>1, <2>2, WriteStep DEF f, new
      <4> QED
        BY <1>0, <4>1
    <3>3. pc' = pc
      BY <1>0, <3>1 DEF Types, Rest
    <3> QED
      BY <1>0, <1>1, <3>1, <3>2, <3>3
  <2> QED
    BY <2>1, <2>2
<1>4. /\ \A m \in Machine, g \in File : disk'[m][g] = disk[m][g]
      /\ disk'[Hub][f] \in {None, Torn, new}
  BY <1>0, <1>1, <1>3
<1>5. Types'
  <2>1. \A x \in Place, g \in File : disk'[x][g] \in Content(g) \cup {None, Torn}
    BY <1>0, <1>1, <1>3, <1>4 DEF Types
  <2> QED
    BY <1>0, <1>2, <1>3, <2>1 DEF Types
<1>6. Grows
  <2>1. CASE f \in {"ca.crt", "ca.key"}
    BY <1>1, <1>2, <2>1 DEF Grows
  <2>2. CASE f \notin {"ca.crt", "ca.key"}
    BY <1>0, <1>2, <1>3, <2>2 DEF Grows, Rooted, Root, Parses
  <2> QED
    BY <2>1, <2>2
<1>7. CmdInv' /\ Issued'
  <2>1. ASSUME NEW c \in Cmd PROVE CmdOk(c)'
    BY <1>0, <1>2, <1>3, <1>6, CmdKept DEF CmdInv
  <2>2. Issued'
    BY <1>2, <1>0, <1>4, <1>6, IssuedKept
  <2> QED
    BY <2>1, <2>2 DEF CmdInv
<1>8. ASSUME pc[Hub] = "pki" PROVE CaFiles' /\ HubInv'
  <2>0. /\ ca \in [crt : Nat, key : Nat] /\ ca.crt = ca.key /\ ca.crt \in Nat
        /\ disk'[Hub]["server.crt"] = disk[Hub]["server.crt"] /\ f \in {"ca.crt", "ca.key"}
        /\ ca.crt \notin {None, Torn} /\ ~Parses(Hub, "server.crt")'
    <3>1. f \in {"ca.crt", "ca.key"} /\ ~Rooted
      BY <1>1, <1>8
    <3>2. disk'[Hub]["server.crt"] = disk[Hub]["server.crt"]
      BY <1>0, <1>3, <3>1
    <3> QED
      BY <1>0, <1>8, <3>1, <3>2, ContentParses DEF HubInv, CaFiles, Parses
  <2>1. CASE /\ writes[Hub] = << <<"ca.crt", ca.crt>>, <<"ca.key", ca.key>> >>
             /\ disk[Hub]["ca.crt"] \in {None, Torn} /\ disk[Hub]["ca.key"] = None
             /\ Hub \in half => disk[Hub]["ca.crt"] = Torn
    <3>1. f = "ca.crt" /\ new = ca.crt /\ disk'[Hub]["ca.key"] = None
      BY <1>0, <1>3, <2>1 DEF f, new
    <3>2. CASE disk'[Hub][f] = Torn /\ half' = half \cup {Hub} /\ writes'[Hub] = writes[Hub]
      <4>1. HubInv'
        BY <1>2, <1>3, <1>8, <2>0, <2>1, <3>1, <3>2 DEF HubInv
      <4>2. CaFiles'
        BY <2>0, <3>1, <3>2 DEF CaFiles, Parses
      <4> QED
        BY <4>1, <4>2
    <3>3. CASE /\ half' = half \ {Hub} /\ writes'[Hub] = Tail(writes[Hub])
               /\ Hub \in half /\ disk[Hub][f] = Torn => disk'[Hub][f] = new
      <4>1. writes'[Hub] = << <<"ca.key", ca.key>> >>
        BY <2>1, <3>3
      <4>2. disk'[Hub]["ca.crt"] = ca.crt /\ Hub \notin half'
        BY <1>3, <2>1, <3>1, <3>3
      <4>3. HubInv'
        BY <1>2, <1>3, <1>8, <2>0, <3>1, <4>1, <4>2 DEF HubInv
      <4>4. CaFiles'
        BY <2>0, <3>1, <4>2 DEF CaFiles, Parses
      <4> QED
        BY <4>3, <4>4
    <3> QED
      BY <1>3, <3>2, <3>3
  <2>2. CASE /\ writes[Hub] = << <<"ca.key", ca.key>> >>
             /\ disk[Hub]["ca.crt"] = ca.crt /\ disk[Hub]["ca.key"] \in {None, Torn}
             /\ Hub \in half => disk[Hub]["ca.key"] = Torn
    <3>1. f = "ca.key" /\ new = ca.key /\ disk'[Hub]["ca.crt"] = ca.crt
      BY <1>0, <1>3, <2>2 DEF f, new
    <3>2. CASE disk'[Hub][f] = Torn /\ half' = half \cup {Hub} /\ writes'[Hub] = writes[Hub]
      <4>1. HubInv'
        BY <1>2, <1>3, <1>8, <2>0, <2>2, <3>1, <3>2 DEF HubInv
      <4>2. CaFiles'
        BY <2>0, <3>1, <3>2 DEF CaFiles, Parses
      <4> QED
        BY <4>1, <4>2
    <3>3. CASE /\ half' = half \ {Hub} /\ writes'[Hub] = Tail(writes[Hub])
               /\ Hub \in half /\ disk[Hub][f] = Torn => disk'[Hub][f] = new
      <4>1. writes'[Hub] = <<>>
        BY <2>2, <3>3
      <4>2. disk'[Hub]["ca.key"] = ca.crt /\ Hub \notin half'
        BY <1>3, <2>0, <2>2, <3>1, <3>3
      <4>3. Rooted' /\ Root' = ca.crt
        BY <2>0, <3>1, <4>2 DEF Rooted, Root, Parses
      <4>4. HubInv'
        BY <1>2, <1>3, <1>8, <2>0, <4>1, <4>2, <4>3 DEF HubInv
      <4>5. CaFiles'
        BY <2>0, <3>1, <4>2, <4>3 DEF CaFiles, Parses
      <4> QED
        BY <4>4, <4>5
    <3> QED
      BY <1>3, <3>2, <3>3
  <2> QED
    BY <1>0, <1>1, <1>8, <2>1, <2>2 DEF HubInv
<1>9. ASSUME pc[Hub] = "tls" PROVE CaFiles' /\ HubInv'
  <2>0. /\ f \in {"server.crt", "server.key"} /\ Rooted' /\ Root' = Root /\ Root = ca.crt
        /\ disk'[Hub]["ca.crt"] = disk[Hub]["ca.crt"] /\ disk'[Hub]["ca.key"] = disk[Hub]["ca.key"]
        /\ ca \in [crt : Nat, key : Nat] /\ ca.crt = ca.key
    <3>1. f \in {"server.crt", "server.key"} /\ Rooted
      BY <1>1, <1>9
    <3> QED
      BY <1>0, <1>3, <1>6, <1>9, <3>1 DEF Grows, HubInv
  <2>1. CaFiles'
    <3>1. Parses(Hub, "server.crt")' => disk'[Hub]["server.crt"].issuer = Root
      BY <1>0, <1>1, <1>3, <1>4 DEF CaFiles, Parses
    <3> QED
      BY <1>0, <2>0, <3>1 DEF CaFiles, Rooted, Root, Parses
  <2>2. \/ writes'[Hub] = <<>>
        \/ \E k \in 1 .. keys', t \in 0 .. period' :
             writes'[Hub] = << <<"server.crt", [key |-> k, issuer |-> ca'.key, from |-> t]>>,
                               <<"server.key", k>> >>
        \/ \E k \in 1 .. keys' : writes'[Hub] = << <<"server.key", k>> >>
    <3>1. CASE writes'[Hub] = writes[Hub]
      BY <1>0, <1>2, <1>9, <3>1 DEF HubInv
    <3>2. CASE writes'[Hub] = Tail(writes[Hub])
      <4>1. ASSUME NEW k \in 1 .. keys, NEW x, writes[Hub] = << x, <<"server.key", k>> >>
            PROVE  writes'[Hub] = << <<"server.key", k>> >>
        BY <3>2, <4>1
      <4>2. ASSUME NEW k \in 1 .. keys, writes[Hub] = << <<"server.key", k>> >>
            PROVE  writes'[Hub] = <<>>
        BY <3>2, <4>2
      <4> QED
        BY <1>0, <1>1, <1>2, <1>9, <4>1, <4>2 DEF HubInv
    <3> QED
      BY <1>3, <3>1, <3>2
  <2>3. Hub \in half' => writes'[Hub] # <<>>
    BY <1>1, <1>3
  <2>4. HubInv'
    BY <1>2, <1>3, <1>9, <2>0, <2>2, <2>3 DEF HubInv
  <2> QED
    BY <2>1, <2>4
<1>10. CaFiles' /\ HubInv'
  BY <1>0, <1>1, <1>8, <1>9 DEF HubInv
<1> QED
  BY <1>3, <1>5, <1>6, <1>7, <1>10 DEF FileInv

\* Budgets are spent.
LEMMA SpendOk ==
  ASSUME Types, NEW e \in Event, Spend(e)
  PROVE  budget' \in [Event -> Nat]
<1>1. budget \in [Event -> Nat] /\ budget[e] - 1 \in Nat
  BY DEF Types, Spend
<1> QED
  BY <1>1 DEF Spend

\* A node is deleted, an agent starts, connects or is killed, or time passes:
\* no file is written.
LEMMA NoWrites ==
  ASSUME FileInv,
         \/ \E r \in nodes : DeleteNode(r.node)
         \/ \E m \in Machine : RunAgent(m) \/ Connect(m) \/ KillAgent(m)
         \/ Age
         \/ UNCHANGED vars
  PROVE  FileInv' /\ Grows
<1> USE DEF fileVars, hubVars, agentVars
<1> DEFINE TypesKept ==
      /\ period' \in Nat /\ 0 .. period \subseteq 0 .. period' /\ gone' \subseteq Nat
      /\ budget' \in [Event -> Nat] /\ clash' \subseteq Machine
      /\ agent' \in [Machine -> {"stopped", "running", "connected", "destroying"}]
      /\ id' \in [Machine -> State \cup {None}]
<1>0. /\ Types /\ Tables /\ CmdInv /\ CaFiles /\ HubInv /\ Issued
      /\ Hub \in Proc /\ Machine \subseteq Place /\ \A d \in Cmd : d \in Proc
  BY PlaceOf DEF FileInv
<1>1. UNCHANGED <<disk, dir, writes, half, pc, newKey, ca, nodes, keys>>
  BY DEF DeleteNode, RunAgent, Connect, KillAgent, Age, vars
<1>2. TypesKept
  <2>1. ASSUME NEW r \in nodes, DeleteNode(r.node) PROVE TypesKept
    <3>1. r.node \in Nat
      BY <1>0 DEF Types
    <3>2. /\ UNCHANGED <<period, id, clash>> /\ gone' = gone \cup {r.node} /\ Spend("delete")
          /\ agent' \in [Machine -> {"stopped", "running", "connected", "destroying"}]
      BY <1>0, <2>1 DEF DeleteNode, Types
    <3> QED
      BY <1>0, <3>1, <3>2, SpendOk DEF Types, Event
  <2>2. ASSUME NEW m \in Machine, RunAgent(m) PROVE TypesKept
    <3>1. /\ UNCHANGED <<period, gone, budget, clash>> /\ agent' = [agent EXCEPT ![m] = "running"]
          /\ id' = [id EXCEPT ![m] = disk[m]["state.json"]]
          /\ disk[m]["state.json"] \notin {None, Torn}
      BY <2>2 DEF RunAgent, Parses
    <3>2. disk[m]["state.json"] \in State
      BY <1>0, <3>1, ContentOf DEF Types, File
    <3> QED
      BY <1>0, <3>1, <3>2 DEF Types
  <2>3. ASSUME NEW m \in Machine, Connect(m) PROVE TypesKept
    <3>1. UNCHANGED <<period, gone, budget, clash, id>> /\ agent' = [agent EXCEPT ![m] = "connected"]
      BY <2>3 DEF Connect
    <3> QED
      BY <1>0, <3>1 DEF Types
  <2>4. ASSUME NEW m \in Machine, KillAgent(m) PROVE TypesKept
    <3>1. /\ UNCHANGED <<period, gone, id>> /\ agent' = [agent EXCEPT ![m] = "stopped"]
          /\ Spend("kill") /\ clash' \in {clash, clash \cup {m}}
      BY <2>4 DEF KillAgent
    <3> QED
      BY <1>0, <3>1, SpendOk DEF Types, Event
  <2>5. CASE Age
    <3>1. UNCHANGED <<gone, id, clash, agent>> /\ period' = period + 1 /\ Spend("age")
      BY <2>5 DEF Age
    <3> QED
      BY <1>0, <3>1, SpendOk DEF Types, Event
  <2>6. CASE UNCHANGED vars
    BY <1>0, <2>6 DEF Types, vars
  <2> QED
    BY <2>1, <2>2, <2>3, <2>4, <2>5, <2>6
<1>3. Types'
  BY <1>0, <1>1, <1>2 DEF Types
<1>4. CaFiles' /\ Grows
  BY <1>0, <1>1, <1>2, CaKept
<1>5. Issued'
  BY <1>0, <1>1, <1>4, IssuedKept
<1>6. HubInv'
  BY <1>0, <1>1, <1>2, HubKept
<1>7. CmdInv'
  BY <1>0, <1>1, <1>4, CmdKept DEF CmdInv
<1>8. Tables'
  BY <1>0, <1>1 DEF Tables
<1> QED
  BY <1>3, <1>4, <1>5, <1>6, <1>7, <1>8 DEF FileInv

\* An agent that was kicked deletes a file of its identity, or the directory
\* once it is empty.
LEMMA DestroyStep ==
  ASSUME FileInv, NEW m \in Machine, Destroy(m)
  PROVE  FileInv' /\ Grows
<1> USE DEF fileVars, hubVars, agentVars
<1> DEFINE Removes ==
      /\ \A x \in Place, g \in File :
           disk'[x][g] = disk[x][g] \/ (x = m /\ disk'[x][g] = None)
      /\ \A x \in Machine : x \notin dir' => x \notin dir \/ \A g \in File : disk'[x][g] = None
      /\ dir' \subseteq Machine /\ Tables'
      /\ agent' \in [Machine -> {"stopped", "running", "connected", "destroying"}]
<1>0. /\ Types /\ Tables /\ CmdInv /\ CaFiles /\ HubInv /\ Issued
      /\ Hub \in Proc /\ Hub \in Place /\ Hub \notin Machine /\ Machine \subseteq Place
      /\ \A d \in Cmd : d \in Proc
  BY PlaceOf DEF FileInv
<1>1. UNCHANGED <<pc, writes, half, newKey, ca, nodes, gone, id, keys, period, budget, clash>>
  BY DEF Destroy
<1>2. Removes
  <2>1. ASSUME NEW f \in File, disk' = [disk EXCEPT ![m][f] = None], UNCHANGED <<dir, agent>>
        PROVE  Removes
    <3>1. /\ \A x \in Place, g \in File :
               disk'[x][g] = IF x = m /\ g = f THEN None ELSE disk[x][g]
          /\ disk' = [x \in Place |-> [g \in File |-> disk'[x][g]]]
      BY <1>0, <2>1, DiskStep
    <3>2. Tables'
      BY <1>0, <1>1, <3>1 DEF Tables
    <3> QED
      BY <1>0, <2>1, <3>1, <3>2 DEF Types
  <2>2. CASE /\ \A f \in File : disk[m][f] = None
             /\ dir' = dir \ {m}
             /\ agent' = [agent EXCEPT ![m] = "stopped"]
             /\ UNCHANGED disk
    <3>1. Tables'
      BY <1>0, <1>1, <2>2 DEF Tables
    <3> QED
      BY <1>0, <2>2, <3>1 DEF Types
  <2> QED
    BY <2>1, <2>2 DEF Destroy
<1>3. \A g \in File : disk'[Hub][g] = disk[Hub][g]
  BY <1>0, <1>2
<1>4. Types'
  <2>1. \A x \in Place, g \in File : disk'[x][g] \in Content(g) \cup {None, Torn}
    BY <1>0, <1>2 DEF Types
  <2> QED
    BY <1>0, <1>1, <1>2, <2>1 DEF Types
<1>5. CaFiles' /\ Grows
  BY <1>0, <1>1, <1>3, CaKept
<1>6. HubInv' /\ CmdInv'
  BY <1>0, <1>1, <1>3, <1>5, HubKept, CmdKept DEF CmdInv
<1>7. Issued'
  <2>1. ASSUME NEW x \in Machine, NEW g \in File, NEW v, v = disk'[x][g]
        PROVE  /\ x \notin dir' => v = None
               /\ v \notin {None, Torn} => Genuine(g, v)'
    BY <1>0, <1>2, <1>5, <2>1, GrowsKeeps DEF Issued, Parses
  <2> QED
    BY <2>1 DEF Issued, Parses
<1> QED
  BY <1>2, <1>4, <1>5, <1>6, <1>7 DEF FileInv

\* A process is killed: its files stay as they are.
LEMMA KillStep ==
  ASSUME FileInv, NEW p \in Proc, Kill(p)
  PROVE  FileInv' /\ Grows
<1> USE DEF fileVars, hubVars, agentVars
<1>0. /\ Types /\ Tables /\ CmdInv /\ CaFiles /\ HubInv /\ Issued
      /\ Hub \in Proc /\ Hub \in Place /\ Machine \subseteq Place
      /\ \A d \in Cmd : d \in Proc /\ d # Hub
  BY PlaceOf DEF FileInv
<1>1. /\ UNCHANGED <<disk, dir, newKey, ca, nodes, gone, id, keys, period, clash>>
      /\ half' = half \ {p} /\ Spend("kill")
      /\ pc' = [pc EXCEPT ![p] = IF p = Hub THEN "down" ELSE "idle"]
      /\ writes' = [writes EXCEPT ![p] = <<>>]
      /\ agent' \in [Machine -> {"stopped", "running", "connected", "destroying"}]
  BY <1>0 DEF Kill, Types
<1>2. /\ \A x \in Proc : writes'[x] = IF x = p THEN <<>> ELSE writes[x]
      /\ writes' = [x \in Proc |-> writes'[x]]
  BY <1>0, <1>1, WritesStep
<1>3. /\ \A x \in Proc : pc'[x] = IF x = p THEN IF p = Hub THEN "down" ELSE "idle" ELSE pc[x]
      /\ pc' \in [Proc -> {"down", "pki", "tls", "serving", "idle", "dial", "save", "edit"}]
  BY <1>0, <1>1 DEF Types
<1>4. Tables' /\ Types'
  <2>1. budget' \in [Event -> Nat]
    BY <1>0, <1>1, SpendOk DEF Event
  <2> QED
    BY <1>0, <1>1, <1>2, <1>3, <2>1 DEF Tables, Types
<1>5. CaFiles' /\ Grows
  BY <1>0, <1>1, CaKept
<1>6. Issued'
  BY <1>0, <1>1, <1>5, IssuedKept
<1>7. HubInv'
  <2>1. CASE p = Hub
    <3>1. pc'[Hub] = "down" /\ writes'[Hub] = <<>> /\ Hub \notin half'
      BY <1>0, <1>1, <1>2, <1>3, <2>1
    <3> QED
      BY <3>1 DEF HubInv
  <2>2. CASE p # Hub
    BY <1>0, <1>1, <1>2, <1>3, <2>2, HubKept
  <2> QED
    BY <2>1, <2>2
<1>8. CmdInv'
  <2>1. ASSUME NEW c \in Cmd PROVE CmdOk(c)'
    <3>1. CASE c = p
      <4>1. pc'[c] = "idle" /\ writes'[c] = <<>> /\ c \notin half'
        BY <1>0, <1>1, <1>2, <1>3, <3>1
      <4> QED
        BY <4>1 DEF CmdOk
    <3>2. CASE c # p
      BY <1>0, <1>1, <1>2, <1>3, <1>5, <3>2, CmdKept DEF CmdInv
    <3> QED
      BY <3>1, <3>2
  <2> QED
    BY <2>1 DEF CmdInv
<1> QED
  BY <1>4, <1>5, <1>6, <1>7, <1>8 DEF FileInv

\* Every step keeps what is known of the files.
LEMMA FileStep ==
  ASSUME FileInv, [Next]_vars
  PROVE  FileInv' /\ Grows
<1>1. Cmd \subseteq Proc /\ Hub \in Proc
  BY PlaceOf
<1>2. CASE HubStep
  BY <1>2, HubStart, HubWrites DEF HubStep
<1>3. CASE \E c \in Cmd : CmdStep(c)
  BY <1>3, CmdStart, CmdWrites DEF CmdStep
<1>4. CASE \E m \in Machine : AgentStep(m)
  BY <1>4, DestroyStep, NoWrites DEF AgentStep
<1>5. CASE \E p \in Proc : Kill(p)
  BY <1>5, KillStep
<1>6. CASE Age \/ (\E r \in nodes : DeleteNode(r.node)) \/ UNCHANGED vars
  BY <1>6, NoWrites
<1> QED
  BY <1>2, <1>3, <1>4, <1>5, <1>6 DEF Next

\* At first there is no file at all.
LEMMA FileInit == Init => FileInv
<1> SUFFICES ASSUME Init PROVE FileInv
  OBVIOUS
<1>1. /\ \A p \in Place, f \in File : disk[p][f] = None
      /\ \A p \in Proc : writes[p] = <<>>
      /\ Tables
  BY DEF Init, Tables
<1>2. /\ Hub \in Proc /\ Hub \in Place /\ Machine \subseteq Place /\ \A d \in Cmd : d \in Proc /\ d # Hub
      /\ {"ca.crt", "ca.key", "server.crt", "server.key"} \subseteq File
  BY PlaceOf DEF File
<1>3. Types
  BY <1>1, ScenariosAssumption DEF Init, Types
<1>4. CmdInv
  BY <1>1, <1>2 DEF Init, CmdInv, CmdOk
<1>5. HubInv /\ CaFiles /\ Issued
  BY <1>1, <1>2 DEF Init, HubInv, CaFiles, Issued, Parses
<1> QED
  BY <1>1, <1>3, <1>4, <1>5 DEF FileInv

------------------------------------------------------------------------------
(* Types and registries                                                     *)

\* A list of writes has its type: files, and what these may hold.
Writable(w) == \A i \in DOMAIN w : w[i][1] \in File /\ w[i][2] \in Content(w[i][1])

\* One, two or four files to write.
LEMMA WritableLists ==
  ASSUME NEW a, NEW b, NEW c, NEW d,
         \A x \in {a, b, c, d} : x[1] \in File /\ x[2] \in Content(x[1])
  PROVE  /\ Writable(<<>>) /\ Writable(<<a>>) /\ Writable(<<a, b>>)
         /\ Writable(<<a, b, c>>) /\ Writable(<<a, b, c, d>>)
BY DEF Writable

\* Whatever a process has to write has the type of its file.
LEMMA WritesTyped ==
  ASSUME FileInv, NEW p \in Proc
  PROVE  Writable(writes[p])
<1>0. Types /\ CmdInv /\ HubInv /\ (p = Hub \/ p \in Cmd)
  BY DEF FileInv, Proc
<1>1. Writable(<<>>)
  BY DEF Writable
<1>2. ASSUME NEW a, a[1] \in File, a[2] \in Content(a[1]) PROVE Writable(<<a>>)
  BY <1>2, WritableLists
<1>3. ASSUME NEW a, a[1] \in File, a[2] \in Content(a[1]),
             NEW b, b[1] \in File, b[2] \in Content(b[1]) PROVE Writable(<<a, b>>)
  BY <1>3, WritableLists
<1>4. CASE p = Hub
  <2>0. pc[Hub] # "down" => ca.crt \in Nat /\ ca.key \in Nat
    BY <1>0 DEF HubInv
  <2>1. CASE pc[Hub] = "pki"
    <3> DEFINE a == <<"ca.crt", ca.crt>>
               b == <<"ca.key", ca.key>>
    <3>1. a[1] \in File /\ b[1] \in File /\ a[2] \in Content(a[1]) /\ b[2] \in Content(b[1])
      BY <2>0, <2>1, ContentOf DEF File
    <3>2. writes[Hub] \in {<<>>, <<a, b>>, <<b>>}
      BY <1>0, <2>1 DEF HubInv
    <3> HIDE DEF a, b
    <3> QED
      BY <1>1, <1>2, <1>3, <1>4, <3>1, <3>2
  <2>2. CASE pc[Hub] = "tls"
    <3>1. ASSUME NEW k \in 1 .. keys, NEW t \in 0 .. period
          PROVE  /\ Writable(<< <<"server.key", k>> >>)
                 /\ Writable(<< <<"server.crt", [key |-> k, issuer |-> ca.key, from |-> t]>>,
                                <<"server.key", k>> >>)
      <4> DEFINE a == <<"server.crt", [key |-> k, issuer |-> ca.key, from |-> t]>>
                 b == <<"server.key", k>>
      <4>1. k \in Nat /\ t \in Nat
        BY <1>0 DEF Types
      <4>2. a[1] \in File /\ b[1] \in File /\ a[2] \in Content(a[1]) /\ b[2] \in Content(b[1])
        BY <2>0, <2>2, <4>1, ContentOf DEF File, ServerCert
      <4> HIDE DEF a, b
      <4>3. Writable(<<b>>) /\ Writable(<<a, b>>)
        BY <1>2, <1>3, <4>2
      <4> QED
        BY <4>3 DEF a, b
    <3>2. ASSUME NEW k \in 1 .. keys PROVE Writable(<< <<"server.key", k>> >>)
      <4>1. 0 \in 0 .. period
        BY <1>0 DEF Types
      <4> QED
        BY <3>1, <4>1
    <3> QED
      BY <1>0, <1>1, <1>4, <2>2, <3>1, <3>2 DEF HubInv
  <2> QED
    BY <1>0, <1>1, <1>4, <2>1, <2>2 DEF HubInv
<1>5. CASE p \in Cmd
  <2>1. CASE pc[p] \in {"idle", "dial"}
    BY <1>0, <1>1, <1>5, <2>1 DEF CmdInv, CmdOk
  <2>2. CASE pc[p] = "edit"
    <3>1. PICK reg \in SUBSET Entry : writes[p] = << <<"services.json", reg>> >>
      BY <1>0, <1>5, <2>2 DEF CmdInv, CmdOk
    <3> DEFINE a == <<"services.json", reg>>
    <3>2. a[1] \in File /\ a[2] \in Content(a[1])
      BY ContentOf DEF File
    <3> HIDE DEF a
    <3>3. Writable(<<a>>)
      BY <1>2, <3>2
    <3> QED
      BY <3>1, <3>3 DEF a
  <2>3. CASE pc[p] = "save"
    <3>1. PICK r \in nodes, t \in 0 .. period, j \in 1 .. 4 : writes[p] = SaveFrom(j, r, t)
      BY <1>0, <1>5, <2>3 DEF CmdInv, CmdOk
    <3>2. Root \in Nat /\ r.key \in Nat /\ r.node \in Nat /\ t \in Nat
      <4>1. Parses(Hub, "ca.crt")
        BY <1>0, <1>5, <2>3 DEF CmdInv, CmdOk, Rooted
      <4>2. Root \in Nat
        BY <1>0, <4>1, PlaceOf, ContentOf DEF Types, Root, Parses, File
      <4> QED
        BY <1>0, <4>2 DEF Types
    <3> DEFINE a == KeyWrite(r)
               b == CrtWrite(r, t)
               c == CaWrite
               d == StateWrite(r)
    <3>3. \A x \in {a, b, c, d} : x[1] \in File /\ x[2] \in Content(x[1])
      <4>1. Cert(r, t) \in ClientCert /\ [node |-> r.node, pin |-> Root] \in State
        BY <3>2 DEF Cert, ClientCert, State
      <4>2. a[1] = "identity.key" /\ a[2] = r.key /\ b[1] = "identity.crt" /\ b[2] = Cert(r, t)
        BY DEF KeyWrite, CrtWrite
      <4>3. c[1] = "ca.crt" /\ c[2] = Root /\ d[1] = "state.json"
              /\ d[2] = [node |-> r.node, pin |-> Root]
        BY DEF CaWrite, StateWrite
      <4> HIDE DEF a, b, c, d
      <4> QED
        BY <3>2, <4>1, <4>2, <4>3, ContentOf DEF File
    <3>4. writes[p] \in {<<a, b, c, d>>, <<b, c, d>>, <<c, d>>, <<d>>}
      BY <3>1 DEF SaveFrom
    <3> HIDE DEF a, b, c, d
    <3>5. Writable(<<a, b, c, d>>) /\ Writable(<<b, c, d>>) /\ Writable(<<c, d>>) /\ Writable(<<d>>)
      <4>1. Writable(<<a, b, c, d>>)
        BY <3>3, WritableLists
      <4>2. Writable(<<b, c, d>>) /\ Writable(<<c, d>>) /\ Writable(<<d>>)
        BY <3>3, WritableLists
      <4> QED
        BY <4>1, <4>2
    <3> QED
      BY <3>4, <3>5
  <2> QED
    BY <1>0, <1>5, <2>1, <2>2, <2>3 DEF CmdInv, CmdOk
<1> QED
  BY <1>0, <1>4, <1>5

\* What is known of the files holds in every state the code can reach.
LEMMA FilesAlways == Spec => []FileInv
<1>1. FileInv /\ [Next]_vars => FileInv'
  BY FileStep
<1> QED
  BY <1>1, FileInit, PTL DEF Spec

\* Every file that can be read holds what its name says, a process has only
\* such files to write, and every other variable has its type: os.WriteFile cut
\* off, repeated or interleaved never leaves a file of another kind.
THEOREM TypeCorrect == Spec => []TypeOK
<1>1. FileInv => TypeOK
  BY WritesTyped DEF FileInv, Types, TypeOK, Writable
<1> QED
  BY <1>1, FilesAlways, PTL

\* However many svc-add and svc-del run at once and wherever they are killed, a
\* registry that can be read has each alias and each unit once (AddSvc, DelSvc,
\* saveSvcReg).
THEOREM RegistriesAreUnique == Spec => []RegistryUnique
<1>1. FileInv => RegistryUnique
  <2> SUFFICES ASSUME FileInv, NEW m \in Machine, Parses(m, "services.json")
               PROVE  Distinct(disk[m]["services.json"])
    BY DEF RegistryUnique, Distinct
  <2>1. "services.json" \in File
    BY DEF File
  <2> QED
    BY <2>1 DEF FileInv, Issued, Genuine
<1> QED
  BY <1>1, FilesAlways, PTL

------------------------------------------------------------------------------
(* The identities                                                           *)

IdentityFile == {"identity.key", "identity.crt", "ca.crt", "state.json"}

\* Nothing happens to the identity of a machine, and no command starts to save one.
Untouched(m) ==
  /\ \A f \in IdentityFile : disk'[m][f] = disk[m][f]
  /\ m \in dir' => m \in dir
  /\ agent[m] = "destroying" => agent'[m] = "destroying"
  /\ \A c \in Cmd : At(c) = m /\ pc'[c] = "save" =>
       /\ pc[c] = "save" /\ writes'[c] = writes[c]
       /\ c \in half' => c \in half

\* The file that is written next is one of the identity.
LEMMA NextFile ==
  ASSUME NEW j \in 1 .. 4, NEW r, NEW t
  PROVE  LET w == SaveFrom(j, r, t)[1] IN
         /\ j = 1 => w[1] = "identity.key" /\ w[2] = r.key
         /\ j = 2 => w[1] = "identity.crt" /\ w[2] = Cert(r, t)
         /\ j = 3 => w[1] = "ca.crt" /\ w[2] = Root
         /\ j = 4 => w[1] = "state.json" /\ w[2] = [node |-> r.node, pin |-> Root]
         /\ w[1] \in IdentityFile
<1>1. j = 1 \/ j = 2 \/ j = 3 \/ j = 4
  OBVIOUS
<1> HIDE DEF Cert, Root
<1>2. CASE j = 1
  BY <1>2 DEF SaveFrom, KeyWrite, IdentityFile
<1>3. CASE j = 2
  BY <1>3 DEF SaveFrom, CrtWrite, IdentityFile
<1>4. CASE j = 3
  BY <1>4 DEF SaveFrom, CaWrite, IdentityFile
<1>5. CASE j = 4
  BY <1>5 DEF SaveFrom, StateWrite, IdentityFile
<1> QED
  BY <1>1, <1>2, <1>3, <1>4, <1>5

\* Where nothing happens, a command has got as far as it had, and an identity
\* that was complete still is.
LEMMA SaveKept ==
  ASSUME FileInv, Grows, NEW m \in Machine, SaveAt(m), Untouched(m)
  PROVE  SaveAt(m)'
<1>1. /\ UNCHANGED <<disk[m]["identity.key"], disk[m]["identity.crt"], disk[m]["ca.crt"],
                     disk[m]["state.json"]>>
      /\ Parses(m, "state.json")' <=> Parses(m, "state.json")
  BY DEF Untouched, IdentityFile, Parses
<1>2. Intact(m)' => Intact(m)
  BY DEF Intact, Untouched
<1>3. ASSUME NEW c \in Cmd, At(c) = m, pc'[c] = "save", Progress(c, m) PROVE Progress(c, m)'
  <2>1. pc[c] = "save" /\ writes'[c] = writes[c] /\ (c \in half' => c \in half) /\ Rooted
    BY <1>3 DEF Untouched, FileInv, CmdInv, CmdOk
  <2>2. PICK r \in nodes, t \in 0 .. period, j \in 1 .. 4 :
          /\ writes[c] = SaveFrom(j, r, t)
          /\ j > 1 => disk[m]["identity.key"] = r.key
          /\ j > 2 => disk[m]["identity.crt"] = Cert(r, t)
          /\ j > 3 => disk[m]["ca.crt"] = Root
          /\ c \in half => disk[m][writes[c][1][1]] = Torn
    BY <1>3 DEF Progress
  <2>3. r \in nodes' /\ t \in 0 .. period' /\ Root' = Root /\ Cert(r, t)' = Cert(r, t)
          /\ writes'[c] = SaveFrom(j, r, t)'
    BY <2>1, <2>2, GrowsKeeps DEF Grows
  <2>4. writes[c][1][1] \in IdentityFile
    <3>1. SaveFrom(j, r, t)[1][1] \in IdentityFile
      BY NextFile
    <3> QED
      BY <2>2, <3>1
  <2>5. c \in half' => disk'[m][writes'[c][1][1]] = Torn
    BY <2>1, <2>2, <2>4 DEF Untouched
  <2> QED
    BY <1>1, <2>2, <2>3, <2>5 DEF Progress
<1>4. Fits(m) => Fits(m)'
  BY <1>1 DEF Fits, TLSConfig, Parses
<1> QED
  BY <1>1, <1>2, <1>3, <1>4 DEF SaveAt, Untouched

\* The hub, other machines and commands that do not save leave an identity alone.
LEMMA OthersLeaveAlone ==
  ASSUME FileInv, NEW m \in Machine, m \notin clash',
         \/ HubStep \/ Age \/ UNCHANGED vars
         \/ \E r \in nodes : DeleteNode(r.node)
         \/ \E p \in Proc : Kill(p)
         \/ \E x \in Machine : RunAgent(x) \/ Connect(x) \/ KillAgent(x) \/ (x # m /\ Destroy(x))
         \/ \E c \in Cmd : \/ EnrollStart(c) \/ EnrollFails(c) \/ (At(c) # m /\ EnrollAck(c))
                           \/ \E e \in Entry : AddSvc(c, e) \/ DelSvc(c, e)
                           \/ (At(c) # m \/ pc[c] # "save") /\ (Truncate(c) \/ Write(c))
  PROVE  Untouched(m)
<1> USE DEF fileVars, hubVars, agentVars
<1>0. /\ Types /\ Tables /\ CmdInv /\ HubInv /\ Hub \in Proc /\ Hub \in Place /\ m # Hub
      /\ m \in Place /\ At(Hub) = Hub /\ Machine \subseteq Place
      /\ \A c \in Cmd : c \in Proc /\ c # Hub /\ At(c) \in Place /\ At(c) \in Machine
      /\ IdentityFile \subseteq File
  BY PlaceOf DEF FileInv, File, IdentityFile
<1>1. CASE CreateCA \/ LoadCA \/ IssueServer \/ ServeControl
  <2>1. /\ UNCHANGED <<disk, dir, half, agent>>
        /\ \E x \in {"pki", "tls", "serving", "down"} : pc' = [pc EXCEPT ![Hub] = x]
        /\ writes' = writes \/ \E w : writes' = [writes EXCEPT ![Hub] = w]
    BY <1>1 DEF CreateCA, LoadCA, IssueServer, ServeControl
  <2>2. \A c \in Cmd : pc'[c] = pc[c] /\ writes'[c] = writes[c]
    BY <1>0, <2>1 DEF Types, Tables
  <2> QED
    BY <2>1, <2>2 DEF Untouched
<1>2. ASSUME NEW p \in Proc, Truncate(p) \/ Write(p), p = Hub \/ At(p) # m \/ pc[p] # "save"
      PROVE  Untouched(m)
  <2> DEFINE f == writes[p][1][1]
  <2>1. f \in File /\ (At(p) # m \/ f = "services.json")
    <3>1. writes[p] # <<>>
      BY <1>0, <1>2 DEF Truncate, Write, Proc, HubInv, CmdInv, CmdOk
    <3>2. CASE p = Hub
      BY <1>0, <3>1, <3>2, HubPendingOk DEF File
    <3>3. CASE p # Hub
      <4>1. p \in Cmd /\ CmdOk(p)
        BY <1>0, <3>3 DEF Proc, CmdInv
      <4>2. f \in File /\ pc[p] \in {"edit", "save"}
        BY <1>0, <3>1, <4>1, PendingOk
      <4>3. ASSUME NEW reg, writes[p] = << <<"services.json", reg>> >> PROVE f = "services.json"
        BY <4>3
      <4> HIDE DEF f
      <4> QED
        BY <1>2, <3>3, <4>1, <4>2, <4>3 DEF CmdOk
    <3> QED
      BY <3>2, <3>3
  <2> HIDE DEF f
  <2>2. "services.json" \notin IdentityFile
    BY DEF IdentityFile
  <2>3. CASE Truncate(p)
    <3>1. \/ /\ UNCHANGED <<disk, half>>
             /\ \A x \in Proc : writes'[x] = IF x = p THEN <<>> ELSE writes[x]
             /\ pc' = [pc EXCEPT ![p] = "idle"]
          \/ /\ \A x \in Place, g \in File :
                  disk'[x][g] = IF x = At(p) /\ g = f THEN Torn ELSE disk[x][g]
             /\ half' = half \cup {p}
             /\ UNCHANGED <<pc, writes>>
      BY <1>0, <2>1, <2>3, TruncateStep DEF f
    <3>2. \A g \in IdentityFile : disk'[m][g] = disk[m][g]
      BY <1>0, <2>1, <2>2, <3>1
    <3>3. \A c \in Cmd : At(c) = m /\ pc'[c] = "save" =>
            pc[c] = "save" /\ writes'[c] = writes[c] /\ (c \in half' => c \in half)
      BY <1>0, <1>2, <3>1 DEF Types
    <3>4. UNCHANGED <<dir, agent>>
      BY <2>3 DEF Truncate
    <3> QED
      BY <3>2, <3>3, <3>4 DEF Untouched
  <2>4. CASE Write(p)
    <3>1. /\ half' = half \ {p}
          /\ \A x \in Proc : writes'[x] = IF x = p THEN Tail(writes[p]) ELSE writes[x]
          /\ pc' = IF Len(writes[p]) = 1 THEN [pc EXCEPT ![p] = Rest(p)] ELSE pc
          /\ \A x \in Place, g \in File : x # At(p) \/ g # f => disk'[x][g] = disk[x][g]
      BY <1>0, <2>1, <2>4, WriteStep DEF f
    <3>2. \A g \in IdentityFile : disk'[m][g] = disk[m][g]
      BY <1>0, <2>1, <2>2, <3>1
    <3>3. \A c \in Cmd : At(c) = m /\ pc'[c] = "save" =>
            pc[c] = "save" /\ writes'[c] = writes[c] /\ (c \in half' => c \in half)
      BY <1>0, <1>2, <3>1 DEF Types, Rest
    <3>4. UNCHANGED <<dir, agent>>
      BY <2>4 DEF Write
    <3> QED
      BY <3>2, <3>3, <3>4 DEF Untouched
  <2> QED
    BY <1>2, <2>3, <2>4
<1>3. ASSUME NEW r \in nodes, DeleteNode(r.node) PROVE Untouched(m)
  <2>1. UNCHANGED <<disk, dir, half, pc, writes>>
    BY <1>3 DEF DeleteNode
  <2>2. agent[m] = "destroying" => agent'[m] = "destroying"
    BY <1>3 DEF DeleteNode
  <2> QED
    BY <2>1, <2>2 DEF Untouched
<1>4. ASSUME NEW p \in Proc, Kill(p) PROVE Untouched(m)
  <2>1. /\ UNCHANGED <<disk, dir>> /\ half' \subseteq half
        /\ agent[m] = "destroying" => agent'[m] = "destroying"
        /\ writes' = [writes EXCEPT ![p] = <<>>]
        /\ pc' = [pc EXCEPT ![p] = IF p = Hub THEN "down" ELSE "idle"]
    BY <1>4 DEF Kill
  <2>2. \A c \in Cmd : pc'[c] = "save" => pc[c] = "save" /\ writes'[c] = writes[c]
    BY <1>0, <2>1 DEF Types, Tables
  <2> QED
    BY <2>1, <2>2 DEF Untouched
<1>5. ASSUME NEW x \in Machine, RunAgent(x) \/ Connect(x) \/ KillAgent(x) PROVE Untouched(m)
  <2>1. UNCHANGED <<disk, dir, half, pc, writes>>
    BY <1>5 DEF RunAgent, Connect, KillAgent
  <2>2. agent[m] = "destroying" => agent'[m] = "destroying"
    BY <1>0, <1>5 DEF RunAgent, Connect, KillAgent, Types
  <2> QED
    BY <2>1, <2>2 DEF Untouched
<1>6. ASSUME NEW x \in Machine, x # m, Destroy(x) PROVE Untouched(m)
  <2>1. UNCHANGED <<half, pc, writes>> /\ (m \in dir' => m \in dir)
    BY <1>6 DEF Destroy
  <2>2. agent[m] = "destroying" => agent'[m] = "destroying"
    BY <1>0, <1>6 DEF Destroy, Types
  <2>3. \A g \in IdentityFile : disk'[m][g] = disk[m][g]
    <3>1. ASSUME NEW f \in File, disk' = [disk EXCEPT ![x][f] = None]
          PROVE  \A g \in File : disk'[m][g] = disk[m][g]
      BY <1>0, <1>6, <3>1, DiskStep
    <3> QED
      BY <1>0, <1>6, <3>1 DEF Destroy
  <2> QED
    BY <2>1, <2>2, <2>3 DEF Untouched
<1>7. ASSUME NEW c \in Cmd,
             \/ EnrollStart(c) \/ EnrollFails(c) \/ (At(c) # m /\ EnrollAck(c))
             \/ \E e \in Entry : AddSvc(c, e) \/ DelSvc(c, e)
      PROVE  Untouched(m)
  <2>1. /\ UNCHANGED <<disk, half, agent>> /\ (m \in dir' => m \in dir)
        /\ \E x \in {"idle", "dial", "save", "edit"} :
             pc' = [pc EXCEPT ![c] = x] /\ (x = "save" => At(c) # m)
        /\ writes' = writes \/ \E w : writes' = [writes EXCEPT ![c] = w]
    BY <1>7 DEF EnrollStart, EnrollAck, EnrollFails, AddSvc, DelSvc, EditReg
  <2>2. \A d \in Cmd : d # c => pc'[d] = pc[d] /\ writes'[d] = writes[d]
    BY <1>0, <2>1 DEF Types, Tables
  <2>3. At(c) = m => pc'[c] # "save"
    BY <1>0, <2>1 DEF Types
  <2> QED
    BY <2>1, <2>2, <2>3 DEF Untouched
<1>8. CASE Age \/ UNCHANGED vars
  BY <1>8 DEF Age, vars, Untouched
<1> QED
  BY <1>0, <1>1, <1>2, <1>3, <1>4, <1>5, <1>6, <1>7, <1>8 DEF HubStep

\* A command starts to save an identity on a machine that has none, and where
\* nobody else is at work on it.
LEMMA AckStarts ==
  ASSUME FileInv, Grows, NEW c \in Cmd, EnrollAck(c), At(c) \notin clash'
  PROVE  SaveAt(At(c))'
<1> USE DEF fileVars, hubVars, agentVars
<1> DEFINE m == At(c)
           r == Row(c)
<1>0. /\ Types /\ Tables /\ CmdInv /\ CmdOk(c) /\ HubInv /\ c \in Proc /\ Hub \in Proc /\ m \in Machine
      /\ \A d \in Cmd : d \in Proc
  BY PlaceOf DEF FileInv, CmdInv
<1>1. /\ UNCHANGED <<disk, half, agent>> /\ ~Overlap(c) /\ ~Parses(m, "state.json")
      /\ \A d \in Cmd : pc'[d] = "save" => d = c \/ pc[d] = "save"
  BY <1>0 DEF EnrollAck, Types
<1>2. \A d \in Cmd : At(d) = m /\ pc'[d] = "save" => d = c
  BY <1>1 DEF Overlap
<1>3. ~Parses(m, "state.json")'
  BY <1>1 DEF Parses
<1>4. Progress(c, m)'
  <2>1. /\ writes'[c] = Save(c) /\ r \in nodes' /\ pc[Hub] = "serving" /\ c \notin half'
    BY <1>0 DEF EnrollAck, Types, Tables, CmdOk
  <2>2. Rooted /\ Root = ca.crt /\ Root' = Root /\ ca.key = ca.crt /\ period \in 0 .. period'
    BY <1>0, <2>1 DEF EnrollAck, HubInv, Grows, Types
  <2>3. Save(c) = SaveFrom(1, r, period)
    <3>1. r.node = keys + 1 /\ r.key = newKey[c]
      BY DEF Row
    <3> QED
      BY <2>2, <3>1 DEF Save, SaveFrom, KeyWrite, CrtWrite, CaWrite, StateWrite, Cert
  <2>4. PICK s \in nodes', t \in 0 .. period' : s = r /\ t = period
    BY <2>1, <2>2
  <2>5. PICK j \in 1 .. 4 : j = 1
    OBVIOUS
  <2>6. writes'[c] = SaveFrom(j, s, t)'
    BY <2>1, <2>2, <2>3, <2>4, <2>5, GrowsKeeps
  <2> QED
    BY <2>1, <2>5, <2>6 DEF Progress
<1> QED
  BY <1>2, <1>3, <1>4 DEF SaveAt

\* A command saves another file of an identity. state.json comes last, when the
\* certificate, its key and the CA are there.
LEMMA SaveGoesOn ==
  ASSUME FileInv, Grows, NEW c \in Cmd, pc[c] = "save", SaveAt(At(c)), Truncate(c) \/ Write(c)
  PROVE  SaveAt(At(c))'
<1> USE DEF fileVars, hubVars, agentVars
<1> DEFINE f == writes[c][1][1]
           new == writes[c][1][2]
<1>a. PICK m \in Machine : m = At(c)
  BY PlaceOf
<1>0. /\ Types /\ Tables /\ CmdInv /\ CmdOk(c) /\ Issued /\ c \in Proc /\ c # Hub /\ m \in Place
      /\ Rooted /\ Rooted' /\ Root' = Root /\ \A d \in Cmd : d \in Proc
  BY <1>a, PlaceOf DEF FileInv, CmdInv, CmdOk, Grows
<1>1. PICK r \in nodes, t \in 0 .. period, j \in 1 .. 4 :
        /\ writes[c] = SaveFrom(j, r, t)
        /\ Intact(m) =>
             /\ j > 1 => disk[m]["identity.key"] = r.key
             /\ j > 2 => disk[m]["identity.crt"] = Cert(r, t)
             /\ j > 3 => disk[m]["ca.crt"] = Root
             /\ c \in half => disk[m][f] = Torn
  <2>1. CASE Intact(m)
    BY <1>a, <2>1 DEF SaveAt, Progress
  <2>2. CASE ~Intact(m)
    BY <1>0, <2>2 DEF CmdOk
  <2> QED
    BY <2>1, <2>2
<1>2. /\ j = 1 => f = "identity.key" /\ new = r.key
      /\ j = 2 => f = "identity.crt" /\ new = Cert(r, t)
      /\ j = 3 => f = "ca.crt" /\ new = Root
      /\ j = 4 => f = "state.json" /\ new = [node |-> r.node, pin |-> Root]
      /\ f \in IdentityFile
  <2>1. LET w == SaveFrom(j, r, t)[1] IN
         /\ j = 1 => w[1] = "identity.key" /\ w[2] = r.key
         /\ j = 2 => w[1] = "identity.crt" /\ w[2] = Cert(r, t)
         /\ j = 3 => w[1] = "ca.crt" /\ w[2] = Root
         /\ j = 4 => w[1] = "state.json" /\ w[2] = [node |-> r.node, pin |-> Root]
         /\ w[1] \in IdentityFile
    BY NextFile
  <2> QED
    BY <1>1, <2>1
<1>3. /\ IdentityFile \subseteq File /\ UNCHANGED <<dir, agent, nodes, period>>
      /\ {"identity.key", "identity.crt", "ca.crt", "state.json"} \subseteq IdentityFile
      /\ ~Parses(m, "state.json")
      /\ \A d \in Cmd : At(d) = m /\ pc[d] = "save" => d = c
      /\ Cert(r, t)' = Cert(r, t) /\ SaveFrom(j, r, t)' = SaveFrom(j, r, t)
  BY <1>0, <1>a, GrowsKeeps DEF IdentityFile, File, Truncate, Write, SaveAt
<1>4. writes[c][1][1] \in File
  BY <1>2, <1>3
<1> HIDE DEF f, new
<1>5. CASE Truncate(c)
  <2>1. \/ /\ UNCHANGED <<disk, half>>
           /\ \A x \in Proc : writes'[x] = IF x = c THEN <<>> ELSE writes[x]
           /\ pc' = [pc EXCEPT ![c] = "idle"]
        \/ /\ \A x \in Place, g \in File :
                disk'[x][g] = IF x = m /\ g = f THEN Torn ELSE disk[x][g]
           /\ half' = half \cup {c}
           /\ UNCHANGED <<pc, writes>>
    BY <1>0, <1>a, <1>4, <1>5, TruncateStep DEF f
  <2>2. CASE /\ UNCHANGED <<disk, half>>
             /\ \A x \in Proc : writes'[x] = IF x = c THEN <<>> ELSE writes[x]
             /\ pc' = [pc EXCEPT ![c] = "idle"]
    <3>1. \A d \in Cmd : At(d) = m => pc'[d] # "save"
      BY <1>0, <1>3, <2>2 DEF Types
    <3>2. ~Parses(m, "state.json")'
      BY <1>3, <2>2 DEF Parses
    <3> QED
      BY <1>a, <3>1, <3>2 DEF SaveAt
  <2>3. CASE /\ \A x \in Place, g \in File :
                  disk'[x][g] = IF x = m /\ g = f THEN Torn ELSE disk[x][g]
             /\ half' = half \cup {c}
             /\ UNCHANGED <<pc, writes>>
    <3>1. \A g \in IdentityFile : disk'[m][g] = IF g = f THEN Torn ELSE disk[m][g]
      BY <1>0, <1>3, <2>3
    <3>2. ~Parses(m, "state.json")'
      BY <1>3, <3>1 DEF Parses
    <3>3. Intact(m)' => Progress(c, m)'
      <4> SUFFICES ASSUME Intact(m)' PROVE Progress(c, m)'
        OBVIOUS
      <4>1. Intact(m)
        BY <1>3 DEF Intact
      <4>2. /\ j > 1 => disk'[m]["identity.key"] = r.key
            /\ j > 2 => disk'[m]["identity.crt"] = Cert(r, t)'
            /\ j > 3 => disk'[m]["ca.crt"] = Root'
        BY <1>0, <1>1, <1>2, <1>3, <3>1, <4>1
      <4>3. disk'[m][writes'[c][1][1]] = Torn
        BY <1>2, <2>3, <3>1 DEF f
      <4>4. writes'[c] = SaveFrom(j, r, t)' /\ r \in nodes' /\ t \in 0 .. period'
        BY <1>1, <1>3, <2>3
      <4> QED
        BY <4>2, <4>3, <4>4 DEF Progress
    <3> QED
      BY <1>3, <1>a, <2>3, <3>2, <3>3 DEF SaveAt
  <2> QED
    BY <2>1, <2>2, <2>3
<1>6. CASE Write(c)
  <2>1. /\ half' = half \ {c} /\ c \in half
        /\ \A x \in Proc : writes'[x] = IF x = c THEN Tail(writes[c]) ELSE writes[x]
        /\ pc' = IF Len(writes[c]) = 1 THEN [pc EXCEPT ![c] = Rest(c)] ELSE pc
        /\ Rest(c) = "idle"
    BY <1>0, <1>4, <1>6, WriteStep DEF f, Rest
  <2>2. PICK v : /\ v \in {None, Torn, new}
                 /\ disk[At(c)][f] = None => v = None
                 /\ disk[At(c)][f] = Torn => v = new
                 /\ disk[At(c)][f] \notin {None, Torn} => v \in {new, Torn}
                 /\ \A x \in Place, g \in File :
                      disk'[x][g] = IF x = At(c) /\ g = f THEN v ELSE disk[x][g]
    BY <1>0, <1>4, <1>6, WriteStep DEF f, new
  <2>3. /\ \A g \in IdentityFile : g # f => disk'[m][g] = disk[m][g]
        /\ disk[m][f] = Torn => disk'[m][f] = new
        /\ disk[m][f] = None => disk'[m][f] = None
    <3>1. \A g \in File : disk'[m][g] = IF g = f THEN v ELSE disk[m][g]
      BY <1>0, <1>a, <2>2
    <3>2. (disk[m][f] = None => v = None) /\ (disk[m][f] = Torn => v = new)
      BY <1>a, <2>2
    <3>3. f \in File /\ IdentityFile \subseteq File
      BY <1>2, <1>3
    <3> QED
      BY <3>1, <3>2, <3>3
  <2>4. \A d \in Cmd : At(d) = m /\ pc'[d] = "save" => d = c
    BY <1>0, <1>3, <2>1 DEF Types
  <2>5. Len(writes[c]) = 5 - j
    <3>1. Len(SaveFrom(j, r, t)) = 5 - j
      BY SaveTail
    <3> QED
      BY <1>1, <3>1
  <2>6. CASE j = 4
    <3>1. pc'[c] # "save"
      BY <1>0, <2>1, <2>5, <2>6 DEF Types
    <3>2. Parses(m, "state.json")' /\ agent'[m] # "destroying" => Fits(m)'
      <4> SUFFICES ASSUME Parses(m, "state.json")', agent'[m] # "destroying" PROVE Fits(m)'
        OBVIOUS
      <4>1. Intact(m)
        <5>1. CASE m \notin dir
          <6>1. disk[m][f] = None
            BY <1>3, <1>4, <5>1, <1>0 DEF Issued, f
          <6> QED
            BY <1>2, <2>3, <2>6, <6>1 DEF Parses
        <5> QED
          BY <5>1, <1>3 DEF Intact
      <4>2. /\ disk'[m]["state.json"] = [node |-> r.node, pin |-> Root]
            /\ disk'[m]["identity.key"] = r.key /\ disk'[m]["identity.crt"] = Cert(r, t)
            /\ disk'[m]["ca.crt"] = Root
        BY <1>1, <1>2, <1>3, <2>1, <2>3, <2>6, <4>1
      <4>3. r.key \in Nat /\ Root \in Nat /\ Cert(r, t) \in ClientCert
        <5>1. Root \in Nat
          BY <1>0, PlaceOf, ContentOf DEF Types, Rooted, Root, Parses, File
        <5>2. r.key \in Nat /\ r.node \in Nat /\ t \in Nat
          BY <1>0 DEF Types
        <5> QED
          BY <5>1, <5>2 DEF Cert, ClientCert
      <4>4. /\ r.key \notin {None, Torn} /\ Root \notin {None, Torn}
            /\ Cert(r, t) \notin {None, Torn}
        BY <4>3, ContentParses
      <4>5. /\ Cert(r, t).key = r.key /\ Cert(r, t).node = r.node /\ Cert(r, t).issuer = Root
        BY DEF Cert
      <4> HIDE DEF Cert
      <4> QED
        BY <4>2, <4>4, <4>5 DEF Fits, TLSConfig, Parses
    <3> QED
      BY <1>a, <2>4, <3>1, <3>2 DEF SaveAt
  <2>7. CASE j # 4
    <3>1. PICK i \in 1 .. 4 : i = j + 1
      BY <2>7
    <3>2. writes'[c] = SaveFrom(i, r, t) /\ pc' = pc /\ c \notin half'
      <4>1. Len(writes[c]) # 1
        BY <2>5, <2>7
      <4>2. Tail(SaveFrom(j, r, t)) = SaveFrom(i, r, t)
        BY <3>1, SaveNext
      <4> QED
        BY <1>0, <1>1, <2>1, <4>1, <4>2
    <3>3. ~Parses(m, "state.json")'
      BY <1>2, <1>3, <2>3, <2>7 DEF Parses
    <3>4. Intact(m)' => Progress(c, m)'
      <4> SUFFICES ASSUME Intact(m)' PROVE Progress(c, m)'
        OBVIOUS
      <4>1. Intact(m)
        BY <1>3 DEF Intact
      <4>2. disk'[m][f] = new
        BY <1>1, <2>1, <2>3, <4>1
      <4>3. /\ i > 1 => disk'[m]["identity.key"] = r.key
            /\ i > 2 => disk'[m]["identity.crt"] = Cert(r, t)
            /\ i > 3 => disk'[m]["ca.crt"] = Root
        <5>1. CASE j = 1
          BY <1>2, <3>1, <4>2, <5>1
        <5>2. CASE j = 2
          BY <1>1, <1>2, <1>3, <2>3, <3>1, <4>1, <4>2, <5>2
        <5>3. CASE j = 3
          BY <1>1, <1>2, <1>3, <2>3, <3>1, <4>1, <4>2, <5>3
        <5> QED
          BY <2>7, <5>1, <5>2, <5>3
      <4>4. writes'[c] = SaveFrom(i, r, t)' /\ r \in nodes' /\ t \in 0 .. period'
        BY <1>0, <1>3, <3>2, GrowsKeeps
      <4> QED
        BY <1>0, <1>3, <3>2, <4>3, <4>4 DEF Progress
    <3> QED
      BY <1>3, <1>a, <2>4, <3>2, <3>3, <3>4 DEF SaveAt
  <2> QED
    BY <2>6, <2>7
<1> QED
  BY <1>5, <1>6

\* An identity that is being deleted is not used, and none is left at the end.
LEMMA DestroyKeeps ==
  ASSUME FileInv, NEW m \in Machine, SaveAt(m), Destroy(m)
  PROVE  SaveAt(m)'
<1>0. Types /\ Tables /\ m \in Place /\ "state.json" \in File
  BY PlaceOf DEF FileInv, File
<1>1. UNCHANGED pc /\ agent[m] = "destroying"
  BY DEF Destroy
<1>2. /\ ~Parses(m, "state.json") => ~Parses(m, "state.json")'
      /\ agent'[m] = "destroying" \/ (m \notin dir' /\ ~Parses(m, "state.json")')
  <2>1. ASSUME NEW f \in File, disk' = [disk EXCEPT ![m][f] = None], UNCHANGED <<dir, agent>>
        PROVE  ~Parses(m, "state.json") => ~Parses(m, "state.json")'
    BY <1>0, <2>1, DiskStep DEF Parses
  <2> QED
    BY <1>0, <1>1, <2>1 DEF Destroy, Types, Parses
<1>3. ~Intact(m)'
  BY <1>2 DEF Intact
<1> QED
  BY <1>1, <1>2, <1>3 DEF SaveAt

\* Every step of every process.
LEMMA SaveStep ==
  ASSUME FileInv, SaveInv, [Next]_vars
  PROVE  SaveInv'
<1> SUFFICES ASSUME NEW m \in Machine, m \notin clash' PROVE SaveAt(m)'
  BY DEF SaveInv
<1>0. Grows /\ clash \subseteq Machine
  BY FileStep DEF FileInv, Types
<1>1. CASE \E c \in Cmd : EnrollAck(c) /\ At(c) = m
  BY <1>0, <1>1, AckStarts
<1>2. CASE ~\E c \in Cmd : EnrollAck(c) /\ At(c) = m
  <2>1. m \notin clash
    BY <1>2 DEF vars, Next, HubStep, CmdStep, AgentStep, CreateCA, LoadCA, IssueServer, ServeControl,
       Truncate, Write, DeleteNode, EnrollStart, EnrollAck, EnrollFails, AddSvc, DelSvc, EditReg,
       RunAgent, Connect, Destroy, KillAgent, Kill, Age
  <2>2. SaveAt(m)
    BY <2>1 DEF SaveInv
  <2>3. CASE Destroy(m)
    BY <2>2, <2>3, DestroyKeeps
  <2>4. CASE \E c \in Cmd : At(c) = m /\ pc[c] = "save" /\ (Truncate(c) \/ Write(c))
    BY <1>0, <2>2, <2>4, SaveGoesOn
  <2>5. CASE /\ ~Destroy(m)
             /\ ~\E c \in Cmd : At(c) = m /\ pc[c] = "save" /\ (Truncate(c) \/ Write(c))
    <3>1. Untouched(m)
      BY <1>2, <2>5, OthersLeaveAlone DEF Next, CmdStep, AgentStep
    <3> QED
      BY <1>0, <2>2, <3>1, SaveKept
  <2> QED
    BY <2>3, <2>4, <2>5
<1> QED
  BY <1>1, <1>2

\* An identity that is kept was saved by one command, or is complete.
LEMMA SavesAlways == Spec => [](FileInv /\ SaveInv)
<1>1. Init => FileInv /\ SaveInv
  <2> SUFFICES ASSUME Init PROVE SaveInv
    BY FileInit
  <2>1. /\ \A m \in Machine : ~Parses(m, "state.json")
        /\ \A c \in Cmd : pc[c] = "idle"
    BY PlaceOf DEF Init, Parses, File
  <2> QED
    BY <2>1 DEF SaveInv, SaveAt
<1>2. FileInv /\ SaveInv /\ [Next]_vars => (FileInv /\ SaveInv)'
  BY FileStep, SaveStep
<1> QED
  BY <1>1, <1>2, PTL DEF Spec

\* A machine that enroll refuses as "already enrolled" has an identity it can
\* use, wherever its enrollment was killed and whatever was tried before: Save
\* writes state.json last, and LoadIdentity reads only that.
THEOREM IdentitiesFit == Spec => []IdentityFits
<1>1. SaveInv => IdentityFits
  BY DEF SaveInv, SaveAt, IdentityFits, Fits
<1> QED
  BY <1>1, SavesAlways, PTL

\* Such a machine and a hub that serves verify each other, however often the hub
\* was killed while it wrote its CA or its certificate, or issued another one:
\* there is one CA, and every certificate anywhere is of a row of the hub's and
\* signed by that CA (LoadOrCreate, IssueServer, handleEnroll, Save, TLSConfig).
THEOREM HubAndAgentsAccept == Spec => []HubAccepts
<1>1. FileInv /\ SaveInv => HubAccepts
  <2> SUFFICES ASSUME FileInv, SaveInv, NEW m \in Machine \ clash,
                      pc[Hub] = "serving", Parses(m, "state.json"), agent[m] # "destroying",
                      disk[m]["state.json"].node \notin gone,
                      ~Expired(disk[m]["identity.crt"], ClientLife),
                      ~Expired(disk[Hub]["server.crt"], ServerLife)
               PROVE  Handshake(m)
    BY DEF HubAccepts
  <2>1. Fits(m) /\ Parses(m, "identity.crt") /\ Parses(m, "ca.crt")
    BY DEF SaveInv, SaveAt, Fits, TLSConfig
  <2>2. disk[m]["ca.crt"] = Root /\ \E r \in nodes, t \in 0 .. period : disk[m]["identity.crt"] = Cert(r, t)
    <3>1. {"ca.crt", "identity.crt"} \subseteq File
      BY DEF File
    <3> QED
      BY <2>1, <3>1 DEF FileInv, Issued, Genuine
  <2>3. PICK r \in nodes, t \in 0 .. period : disk[m]["identity.crt"] = Cert(r, t)
    BY <2>2
  <2>4. /\ disk[m]["identity.crt"].node = r.node /\ disk[m]["identity.crt"].key = r.key
        /\ disk[m]["identity.crt"].issuer = Root
    BY <2>3 DEF Cert
  <2>5. r = [node |-> r.node, key |-> r.key]
    BY DEF FileInv, Types
  <2>6. Root = ca.crt /\ PairLoads /\ disk[Hub]["server.crt"].issuer = Root
    BY DEF FileInv, HubInv, CaFiles, PairLoads
  <2>7. r.node \notin gone
    BY <2>1, <2>4 DEF Fits
  <2> QED
    BY <2>2, <2>4, <2>5, <2>6, <2>7 DEF Handshake, PairLoads
<1> QED
  BY <1>1, SavesAlways, PTL
==============================================================================
