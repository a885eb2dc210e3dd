---------------------------- MODULE ToolsProofs ----------------------------
(***************************************************************************)
(* Theorems about the two commands that undo what they did: Setup, for any *)
(* list of clients, and SkillSync, for any list of locations.  And, from   *)
(* these and from the proofs about the other tools, about all of them.     *)
(***************************************************************************)
EXTENDS MCTools, DirectoryProofs, ContextProofs

USE SetupAssumption, SkillSyncAssumption

-----------------------------------------------------------------------------
(* Setup: what the manifests say.                                          *)

WireActs(s) == {i \in DOMAIN s : s[i].act = "WIRE_CLIENT"}
WiredBy(s) == {s[i].client : i \in WireActs(s)}
BackedUp(s, from) == \A i \in WireActs(s) : s[i].was = from[s[i].client]
Distinct(s) == \A i, j \in WireActs(s) : s[i].client = s[j].client => i = j
Creates(s) == \E i \in DOMAIN s : s[i].act = "CREATE_DB"

\* A config is what it was, but for what the proxy setup wrote.
Own(f, from) == f = from \/ f = [from EXCEPT !.file = "present", !.proxy = "yes"]

\* While a setup runs, what it has not wired is as it was and what it has wired
\* is backed up; from then on the manifest on record covers every other change,
\* and as a revert goes, what it has left to undo does.
RestoreInv ==
  /\ setup.last = "reverted" => SetupAt("idle") /\ initManifest = <<>>
  /\ SetupAt("undo") => setup.todo \in Seq(Act)
  /\ before.known = "yes" /\ SetupAt("do") =>
       /\ BackedUp(setup.taken, before.config)
       /\ \A c \in AllClients \ WiredBy(setup.taken) : config[c] = before.config[c]
       /\ WiredBy(setup.taken) \cap WiredBy(setup.todo) = {}
       /\ Distinct(setup.todo)
  /\ before.known = "yes" /\ ~SetupAt("do") =>
       /\ BackedUp(initManifest, before.config)
       /\ \A c \in AllClients \ WiredBy(initManifest) : Own(config[c], before.config[c])
  /\ before.known = "yes" /\ SetupAt("undo") =>
       /\ BackedUp(setup.todo, before.config)
       /\ \A c \in AllClients \ WiredBy(setup.todo) : Own(config[c], before.config[c])

\* A manifest that says the database was made is of a setup that found none.
MemoryInv ==
  /\ local.db = "none" => local.memories = "no"
  /\ SetupAt("do") /\ (Creates(setup.todo) \/ Creates(setup.taken)) => before.memories = "no"
  /\ ~SetupAt("do") /\ Creates(initManifest) => before.memories # "yes"
  /\ SetupAt("undo") /\ Creates(setup.todo) => before.memories # "yes"

SetupInv == SetupTypeOK /\ RestoreInv /\ MemoryInv

-----------------------------------------------------------------------------
(* SkillSync.                                                               *)

\* A location where an apply was, or would be, of no use.
Reached(l) == (\E k \in {l} \cup Scans[l] : Holds(k)) \/ Read(l) \in {"nameless", "half"}

Syncing == {"canon", "copy", "link", "fill", "save"}

\* What a step has to do with: the text to copy, and the folder it is copied to.
StepInv ==
  /\ sync.pc \in {"canon", "copy"} => sync.win \in Texts
  /\ SyncAt("copy") => store = "half"
  /\ SyncAt("fill") =>
       /\ sync.todo # <<>> /\ store # "none"
       /\ place[Head(sync.todo)] = Folder("half")

\* Unless a mishap has kept it from there, every link, and the canonical copy, is
\* in the manifest or in the one being drawn up, until a revert has removed it.
LinkInv ==
  /\ sync.last = "reverted" => SyncAt("idle")
  /\ \A l \in Locations : place[l].kind = "link" /\ l \notin mishap.links =>
       /\ sync.pc \in {"idle", "unlink"} => manifest.linked[l] # "no"
       /\ sync.pc \in Syncing => sync.draft.linked[l] # "no"
       /\ SyncAt("unlink") => l \in ToSet(sync.todo)
       /\ ~SyncAt("empty") /\ ~SyncAt("forget") /\ sync.last # "reverted"
  /\ store # "none" /\ mishap.store = "no" =>
       /\ sync.pc \in {"idle", "unlink", "empty"} => manifest # NoManifest
       /\ sync.pc \in Syncing => SyncAt("copy") \/ sync.draft # NoManifest
       /\ ~SyncAt("forget") /\ sync.last # "reverted"

\* As an apply goes without errors, every location it has left behind, or never
\* had to visit, finds the skill, or has a folder there that it cannot read.
ReachInv ==
  /\ sync.last = "applied" => SyncAt("idle")
  /\ sync.pc \in {"link", "fill"} /\ sync.errors = "no" => store # "none"
  /\ sync.pc \in {"canon", "copy", "link", "fill"} /\ sync.errors = "no" =>
       \A l \in Locations : l \in ToSet(sync.todo) \/ Reached(l)
  /\ (SyncAt("save") /\ sync.errors = "no") \/ sync.last = "applied" =>
       ((\E l \in Locations : Holds(l)) => \A l \in Locations : Reached(l))

SkillOK == SkillTypeOK /\ StepInv

-----------------------------------------------------------------------------
(* Plans and manifests.                                                     *)

Planned == Act \cup [act : {"WIRE_CLIENT"}, client : AllClients]
Creating == {"CREATE_DIR root", "CREATE_DIR spool", "CREATE_DB", "REPAIR_DB", "CREATE_FILE"}

LEMMA ActFacts ==
  ASSUME NEW a \in Planned
  PROVE  /\ a.act # "WIRE_CLIENT" => a \in Act
         /\ a.act = "WIRE_CLIENT" => a.client \in AllClients
         /\ a \in Act /\ a.act = "WIRE_CLIENT" => a.client \in AllClients /\ a.was \in Config
BY DEF Planned, Act

LEMMA WireAct ==
  ASSUME NEW c \in AllClients, NEW was \in Config
  PROVE  [act |-> "WIRE_CLIENT", client |-> c, was |-> was] \in Act
BY DEF Act

LEMMA OnlyActs ==
  ASSUME NEW p, NEW act, NEW S, p => act \in S
  PROVE  Only(p, act) \in Seq([act : S])
<1>1. CASE p
  BY <1>1 DEF Only
<1>2. CASE ~p
  BY <1>2 DEF Only
<1> QED BY <1>1, <1>2

(* The clients of a list. *)
LEMMA ClientsListed ==
  /\ Clients \in Seq(AllClients)
  /\ \A i, j \in 1..Len(Clients) : Clients[i] = Clients[j] => i = j
<1>1. \A i, j \in DOMAIN Clients : Clients[i] = Clients[j] => i = j
  BY DEF IsInjective
<1> QED BY <1>1

\* The sequence of the actions for some clients.
ToWire(wire) == [i \in DOMAIN wire |-> [act |-> "WIRE_CLIENT", client |-> wire[i]]]

LEMMA ToWireActs ==
  ASSUME NEW C \in SUBSET AllClients
  PROVE  LET w == ToWire(Select(Clients, C)) IN
         /\ w \in Seq(Planned)
         /\ \A i \in 1..Len(w) : w[i].act = "WIRE_CLIENT"
         /\ \A i, j \in 1..Len(w) : w[i].client = w[j].client => i = j
<1> DEFINE r == Select(Clients, C)
           w == ToWire(r)
<1>0. Clients \in Seq(AllClients)
  BY ClientsListed
<1>1. PICK e : Places(e, r, Clients, C)
  BY <1>0, SelectPlaces
<1>2. r \in Seq(AllClients)
  <2>1. r \in Seq(AllClients \cap C)
    BY <1>0, SelectPlaces
  <2> HIDE DEF r
  <2> QED BY <2>1
<1> HIDE DEF r
<1>3. Len(r) \in Nat /\ DOMAIN r = 1..Len(r) /\ \A i \in 1..Len(r) : r[i] \in AllClients
  BY <1>2
<1>4. \A i \in 1..Len(r) : [act |-> "WIRE_CLIENT", client |-> r[i]] \in Planned
  BY <1>3 DEF Planned
<1>5. w \in Seq(Planned) /\ Len(w) = Len(r)
  BY <1>3, <1>4 DEF ToWire
<1>6. \A i, j \in 1..Len(r) : r[i] = r[j] => i = j
  <2> SUFFICES ASSUME NEW i \in 1..Len(r), NEW j \in 1..Len(r), r[i] = r[j], i < j PROVE FALSE
    BY <1>3
  <2>1. e[i] < e[j] /\ e[i] \in 1..Len(Clients) /\ e[j] \in 1..Len(Clients)
    BY <1>1 DEF Places
  <2>2. Clients[e[i]] = Clients[e[j]]
    BY <1>1 DEF Places
  <2> QED BY <2>1, <2>2, ClientsListed
<1>7. \A i \in 1..Len(r) : w[i].act = "WIRE_CLIENT" /\ w[i].client = r[i]
  BY <1>3, <1>5 DEF ToWire
<1>8. \A i, j \in 1..Len(w) : w[i].client = w[j].client => i = j
  <2> HIDE DEF w
  <2> QED BY <1>5, <1>6, <1>7
<1>9. \A i \in 1..Len(w) : w[i].act = "WIRE_CLIENT"
  <2> HIDE DEF w
  <2> QED BY <1>5, <1>7
<1> QED BY <1>5, <1>8, <1>9 DEF r

(* A plan's wirings are of different clients, and only where there is no    *)
(* database is one to be made.                                              *)
LEMMA PlanActs ==
  ASSUME NEW targets \in SUBSET AllClients
  PROVE  /\ Plan(targets) \in Seq(Planned)
         /\ Distinct(Plan(targets))
         /\ local.db # "none" => ~Creates(Plan(targets))
<1> DEFINE S == IF local.db = "none" THEN Creating ELSE Creating \ {"CREATE_DB"}
           T == [act : S]
           a1 == Only(local.root = "no", "CREATE_DIR root")
           a2 == Only(local.spool = "no", "CREATE_DIR spool")
           a3 == Only(local.db = "none", "CREATE_DB")
           a4 == Only(local.db = "legacy", "REPAIR_DB")
           a5 == <<[act |-> "CREATE_FILE"]>>
           w == ToWire(Select(Clients, {c \in targets : ~Configured(c)}))
           p == a1 \o a2 \o a3 \o a4 \o a5
<1>1. a1 \in Seq(T) /\ a2 \in Seq(T) /\ a3 \in Seq(T) /\ a4 \in Seq(T)
  BY OnlyActs DEF Creating
<1>2. a5 \in Seq(T)
  BY DEF Creating
<1>3. p \in Seq(T)
  <2> HIDE DEF a1, a2, a3, a4, a5, T
  <2>1. a1 \o a2 \in Seq(T) /\ (a1 \o a2) \o a3 \in Seq(T)
    BY <1>1
  <2>2. ((a1 \o a2) \o a3) \o a4 \in Seq(T)
    BY <1>1, <2>1
  <2> QED BY <2>2, <1>2
<1>4. /\ w \in Seq(Planned)
      /\ \A i \in 1..Len(w) : w[i].act = "WIRE_CLIENT"
      /\ \A i, j \in 1..Len(w) : w[i].client = w[j].client => i = j
  <2>1. {c \in targets : ~Configured(c)} \in SUBSET AllClients
    OBVIOUS
  <2> QED BY <2>1, ToWireActs
<1>5. Plan(targets) = p \o w
  BY DEF Plan, ToWire
<1>6. \A a \in T : a \in Planned /\ a.act # "WIRE_CLIENT" /\ (local.db # "none" => a.act # "CREATE_DB")
  BY DEF Planned, Act, Creating
<1> HIDE DEF p, w, T
<1>7. p \in Seq(Planned)
  BY <1>3, <1>6
<1>8. /\ Plan(targets) \in Seq(Planned)
      /\ \A i \in DOMAIN Plan(targets) :
           \/ i \in 1..Len(p) /\ Plan(targets)[i] = p[i] /\ p[i] \in T
           \/ i - Len(p) \in 1..Len(w) /\ Plan(targets)[i] = w[i - Len(p)]
  BY <1>3, <1>4, <1>5, <1>7
<1>9. \A i \in WireActs(Plan(targets)) :
        i \in Int /\ i - Len(p) \in 1..Len(w) /\ Plan(targets)[i] = w[i - Len(p)]
  BY <1>8, <1>6 DEF WireActs
<1>10. Distinct(Plan(targets))
  <2> SUFFICES ASSUME NEW i \in WireActs(Plan(targets)), NEW j \in WireActs(Plan(targets)),
                      Plan(targets)[i].client = Plan(targets)[j].client
               PROVE  i = j
    BY DEF Distinct
  <2>1. w[i - Len(p)].client = w[j - Len(p)].client
    BY <1>9
  <2>2. i - Len(p) = j - Len(p)
    BY <2>1, <1>9, <1>4
  <2>3. Len(p) \in Nat
    BY <1>3
  <2> QED BY <2>2, <2>3, <1>9
<1>11. ASSUME local.db # "none" PROVE ~Creates(Plan(targets))
  <2>1. \A i \in DOMAIN Plan(targets) : Plan(targets)[i].act # "CREATE_DB"
    BY <1>8, <1>4, <1>6, <1>11
  <2> QED BY <2>1 DEF Creates
<1> QED BY <1>8, <1>10, <1>11

(* What the first action of a list leaves of it. *)
LEMMA TailActs ==
  ASSUME NEW s \in Seq(Planned), s # <<>>
  PROVE  /\ Head(s) \in Planned /\ Tail(s) \in Seq(Planned)
         /\ WiredBy(Tail(s)) \subseteq WiredBy(s)
         /\ \A c \in WiredBy(s) : c \in WiredBy(Tail(s)) \/ (Head(s).act = "WIRE_CLIENT" /\ c = Head(s).client)
         /\ Head(s).act = "WIRE_CLIENT" => Head(s).client \in WiredBy(s)
         /\ Distinct(s) => Distinct(Tail(s))
         /\ Distinct(s) /\ Head(s).act = "WIRE_CLIENT" => Head(s).client \notin WiredBy(Tail(s))
         /\ \A from : BackedUp(s, from) => BackedUp(Tail(s), from)
         /\ \A from : BackedUp(s, from) /\ Head(s).act = "WIRE_CLIENT" => Head(s).was = from[Head(s).client]
         /\ Creates(Tail(s)) => Creates(s)
         /\ Head(s).act = "CREATE_DB" => Creates(s)
<1> DEFINE t == Tail(s)
<1>1. /\ Len(s) \in Nat \ {0} /\ DOMAIN s = 1..Len(s) /\ 1 \in DOMAIN s
      /\ Head(s) = s[1] /\ Head(s) \in Planned
      /\ t \in Seq(Planned) /\ Len(t) = Len(s) - 1 /\ DOMAIN t = 1..(Len(s) - 1)
      /\ \A i \in 1..(Len(s) - 1) : t[i] = s[i + 1]
  OBVIOUS
<1> HIDE DEF t
<1>2. \A i \in WireActs(t) : i + 1 \in WireActs(s) /\ i + 1 # 1 /\ t[i] = s[i + 1]
  BY <1>1 DEF WireActs
<1>3. \A i \in WireActs(s) : i # 1 => i - 1 \in WireActs(t) /\ t[i - 1] = s[i]
  BY <1>1 DEF WireActs
<1>4. Head(s).act = "WIRE_CLIENT" <=> 1 \in WireActs(s)
  BY <1>1 DEF WireActs
<1>5. WiredBy(t) \subseteq WiredBy(s)
  BY <1>2 DEF WiredBy
<1>6. \A c \in WiredBy(s) : c \in WiredBy(t) \/ (Head(s).act = "WIRE_CLIENT" /\ c = Head(s).client)
  <2> SUFFICES ASSUME NEW i \in WireActs(s)
               PROVE  s[i].client \in WiredBy(t) \/ (Head(s).act = "WIRE_CLIENT" /\ s[i].client = Head(s).client)
    BY DEF WiredBy
  <2>1. CASE i = 1
    BY <2>1, <1>1, <1>4
  <2>2. CASE i # 1
    <3>1. s[i].client = t[i - 1].client /\ i - 1 \in WireActs(t)
      BY <2>2, <1>3
    <3> QED BY <3>1 DEF WiredBy
  <2> QED BY <2>1, <2>2
<1>7. Head(s).act = "WIRE_CLIENT" => Head(s).client \in WiredBy(s)
  BY <1>1, <1>4 DEF WiredBy
<1>8. Distinct(s) => Distinct(t)
  <2> SUFFICES ASSUME Distinct(s), NEW i \in WireActs(t), NEW j \in WireActs(t), t[i].client = t[j].client
               PROVE  i = j
    BY DEF Distinct
  <2>1. i + 1 = j + 1
    BY <1>2 DEF Distinct
  <2>2. i \in Int /\ j \in Int
    BY <1>1 DEF WireActs
  <2> QED BY <2>1, <2>2
<1>9. Distinct(s) /\ Head(s).act = "WIRE_CLIENT" => Head(s).client \notin WiredBy(t)
  <2> SUFFICES ASSUME Distinct(s), Head(s).act = "WIRE_CLIENT", NEW i \in WireActs(t), t[i].client = Head(s).client
               PROVE  FALSE
    BY DEF WiredBy
  <2>1. i + 1 \in WireActs(s) /\ 1 \in WireActs(s) /\ i + 1 # 1 /\ s[i + 1].client = s[1].client
    BY <1>1, <1>2, <1>4
  <2> QED BY <2>1 DEF Distinct
<1>10. \A from : BackedUp(s, from) => BackedUp(t, from)
  BY <1>2 DEF BackedUp
<1>11. \A from : BackedUp(s, from) /\ Head(s).act = "WIRE_CLIENT" => Head(s).was = from[Head(s).client]
  BY <1>1, <1>4 DEF BackedUp
<1>12. Creates(t) => Creates(s)
  <2> SUFFICES ASSUME NEW i \in DOMAIN t, t[i].act = "CREATE_DB" PROVE Creates(s)
    BY DEF Creates
  <2>1. i + 1 \in DOMAIN s /\ s[i + 1].act = "CREATE_DB"
    BY <1>1
  <2> QED BY <2>1 DEF Creates
<1>13. Head(s).act = "CREATE_DB" => Creates(s)
  BY <1>1 DEF Creates
<1> QED BY <1>1, <1>5, <1>6, <1>7, <1>8, <1>9, <1>10, <1>11, <1>12, <1>13 DEF t

(* A list of actions taken, with one more. *)
LEMMA AppendActs ==
  ASSUME NEW s \in Seq(Act), NEW a \in Act
  PROVE  /\ Append(s, a) \in Seq(Act)
         /\ a.act = "WIRE_CLIENT" => WiredBy(Append(s, a)) = WiredBy(s) \cup {a.client}
         /\ a.act # "WIRE_CLIENT" => WiredBy(Append(s, a)) = WiredBy(s)
         /\ \A from : BackedUp(s, from) /\ (a.act = "WIRE_CLIENT" => a.was = from[a.client])
                        => BackedUp(Append(s, a), from)
         /\ Creates(Append(s, a)) => Creates(s) \/ a.act = "CREATE_DB"
<1> DEFINE t == Append(s, a)
           N == Len(s)
<1>1. /\ N \in Nat /\ DOMAIN s = 1..N /\ t \in Seq(Act) /\ DOMAIN t = 1..(N + 1)
      /\ t[N + 1] = a /\ \A i \in 1..N : t[i] = s[i]
  OBVIOUS
<1> HIDE DEF t, N
<1>2. \A i \in DOMAIN t : i = N + 1 \/ i \in 1..N
  BY <1>1
<1>3. \A i \in 1..N : i \in DOMAIN t
  BY <1>1
<1>4. N + 1 \in DOMAIN t
  BY <1>1
<1>5. a.act = "WIRE_CLIENT" => WireActs(t) = WireActs(s) \cup {N + 1}
  BY <1>1, <1>2, <1>3, <1>4 DEF WireActs
<1>6. a.act # "WIRE_CLIENT" => WireActs(t) = WireActs(s)
  BY <1>1, <1>2, <1>3, <1>4 DEF WireActs
<1>7. \A i \in WireActs(s) : t[i] = s[i]
  BY <1>1 DEF WireActs
<1>8. a.act = "WIRE_CLIENT" => WiredBy(t) = WiredBy(s) \cup {a.client}
  <2> SUFFICES ASSUME a.act = "WIRE_CLIENT" PROVE WiredBy(t) = WiredBy(s) \cup {a.client}
    OBVIOUS
  <2>1. \A c \in WiredBy(t) : c \in WiredBy(s) \/ c = a.client
    BY <1>1, <1>5, <1>7 DEF WiredBy
  <2>2. WiredBy(s) \subseteq WiredBy(t)
    BY <1>5, <1>7 DEF WiredBy
  <2>3. a.client \in WiredBy(t)
    <3>1. N + 1 \in WireActs(t) /\ t[N + 1].client = a.client
      BY <1>1, <1>5
    <3> QED BY <3>1 DEF WiredBy
  <2> QED BY <2>1, <2>2, <2>3
<1>9. a.act # "WIRE_CLIENT" => WiredBy(t) = WiredBy(s)
  BY <1>6, <1>7 DEF WiredBy
<1>10. \A from : BackedUp(s, from) /\ (a.act = "WIRE_CLIENT" => a.was = from[a.client]) => BackedUp(t, from)
  BY <1>1, <1>5, <1>6, <1>7 DEF BackedUp
<1>11. Creates(t) => Creates(s) \/ a.act = "CREATE_DB"
  BY <1>1, <1>2 DEF Creates
<1> QED BY <1>1, <1>8, <1>9, <1>10, <1>11 DEF t

LEMMA ReverseActs ==
  ASSUME NEW s \in Seq(Act)
  PROVE  /\ Reverse(s) \in Seq(Act)
         /\ WiredBy(Reverse(s)) = WiredBy(s)
         /\ \A from : BackedUp(s, from) => BackedUp(Reverse(s), from)
         /\ Creates(Reverse(s)) => Creates(s)
<1> DEFINE t == Reverse(s)
           N == Len(s)
<1>1. /\ N \in Nat /\ DOMAIN s = 1..N /\ t \in Seq(Act) /\ DOMAIN t = 1..N
      /\ \A i \in 1..N : t[i] = s[N - i + 1]
  BY DEF Reverse
<1> HIDE DEF t, N
<1>2. \A i \in 1..N : N - i + 1 \in 1..N /\ N - (N - i + 1) + 1 = i
  BY <1>1
<1>3. \A i \in 1..N : t[N - i + 1] = s[i]
  BY <1>1, <1>2
<1>4. \A i \in WireActs(t) : N - i + 1 \in WireActs(s) /\ t[i] = s[N - i + 1]
  BY <1>1, <1>2 DEF WireActs
<1>5. \A i \in WireActs(s) : N - i + 1 \in WireActs(t) /\ t[N - i + 1] = s[i]
  BY <1>1, <1>2, <1>3 DEF WireActs
<1>6. WiredBy(t) = WiredBy(s)
  BY <1>4, <1>5 DEF WiredBy
<1>7. \A from : BackedUp(s, from) => BackedUp(t, from)
  BY <1>4 DEF BackedUp
<1>8. Creates(t) => Creates(s)
  BY <1>1, <1>2 DEF Creates
<1> QED BY <1>1, <1>6, <1>7, <1>8 DEF t

-----------------------------------------------------------------------------
(* Setup: the invariant.                                                    *)

(* The conjuncts of the invariant, one by one. *)
LEMMA SetupTypes ==
  ASSUME SetupTypeOK
  PROVE  /\ config \in [AllClients -> Config] /\ local \in Local
         /\ initManifest \in Seq(Act) /\ setup \in Setting /\ before \in Before
         /\ setup.todo \in Seq(Planned) /\ setup.taken \in Seq(Act)
         /\ before.config \in [AllClients -> Config]
         /\ Act \subseteq Planned
BY DEF SetupTypeOK, Setting, Before, Planned

LEMMA SettingType ==
  ASSUME NEW pc \in SetupPCs, NEW todo \in Seq(Planned), NEW taken \in Seq(Act),
         NEW last \in {"none", "set up", "reverted", "failed"}, NEW s, 
         s = [pc |-> pc, todo |-> todo, taken |-> taken, last |-> last]
  PROVE  s \in Setting
BY DEF Setting, Planned

LEMMA EmptyActs ==
  /\ <<>> \in Seq(Act) /\ <<>> \in Seq(Planned)
  /\ WiredBy(<<>>) = {} /\ ~Creates(<<>>) /\ \A from : BackedUp(<<>>, from)
BY DEF WiredBy, WireActs, Creates, BackedUp

LEMMA SetupInitInv == SetupInit => SetupInv
<1> SUFFICES ASSUME SetupInit PROVE SetupInv
  OBVIOUS
<1>1. SetupTypeOK
  <2>1. config \in [AllClients -> Config]
    <3>1. {Absent, [Absent EXCEPT !.file = "present", !.mine = 1],
           [Absent EXCEPT !.file = "broken", !.mine = 1]} \subseteq Config
      <4>0. 0 \in 0..MaxEdits /\ 1 \in 0..MaxEdits
        OBVIOUS
      <4>1. Absent \in Config
        BY <4>0 DEF Config, Absent
      <4>2. \A f \in {"present", "broken"} : [Absent EXCEPT !.file = f, !.mine = 1] \in Config
        BY <4>0 DEF Config, Absent
      <4> QED BY <4>1, <4>2
    <3> QED BY <3>1 DEF SetupInit
  <2>2. setup \in Setting
    BY EmptyActs, SettingType DEF SetupInit, NoSetting, SetupPCs
  <2>3. before \in Before
    BY DEF SetupInit, Unknown, Before, Config, Absent
  <2>4. local \in Local /\ helper \subseteq AllClients /\ initManifest \in Seq(Act)
    BY EmptyActs DEF SetupInit, Local
  <2> QED BY <2>1, <2>2, <2>3, <2>4 DEF SetupTypeOK
<1>2. RestoreInv
  BY DEF SetupInit, RestoreInv, NoSetting, Unknown, SetupAt
<1>3. MemoryInv
  BY EmptyActs DEF SetupInit, MemoryInv, NoSetting, Unknown, SetupAt
<1> QED BY <1>1, <1>2, <1>3 DEF SetupInv

LEMMA BeginSetupInv ==
  ASSUME SetupInv, BeginSetup
  PROVE  SetupInv'
<1>0. SetupTypeOK
  BY DEF SetupInv
<1>1. PICK targets \in SUBSET AllClients :
        setup' = [pc |-> "do", todo |-> Plan(targets), taken |-> <<>>, last |-> "none"]
  BY DEF BeginSetup, NoSetting
<1>2. /\ before' = [known |-> "yes", config |-> config, memories |-> local.memories]
      /\ UNCHANGED <<config, helper, local, initManifest>>
  BY DEF BeginSetup
<1>3. SetupTypeOK'
  <2>1. setup' \in Setting
    BY <1>1, PlanActs, EmptyActs, SettingType DEF SetupPCs
  <2>2. before' \in Before
    BY <1>0, <1>2, SetupTypes DEF Before, Local
  <2> QED BY <2>1, <2>2, <1>0, <1>2 DEF SetupTypeOK
<1>4. RestoreInv'
  BY <1>1, <1>2, PlanActs, EmptyActs DEF RestoreInv, SetupAt
<1>5. MemoryInv'
  <2>1. local.db = "none" => local.memories = "no"
    BY DEF SetupInv, MemoryInv
  <2>2. Creates(setup'.todo) => local.db = "none"
    BY <1>1, PlanActs
  <2> QED BY <2>1, <2>2, <1>1, <1>2, EmptyActs DEF MemoryInv, SetupAt
<1> QED BY <1>3, <1>4, <1>5 DEF SetupInv

LEMMA MakeLocalInv ==
  ASSUME SetupInv, MakeLocal
  PROVE  SetupInv'
<1>0. SetupTypeOK
  BY DEF SetupInv
<1> DEFINE a == Head(setup.todo)
<1>1. /\ SetupAt("do") /\ setup.todo # <<>> /\ a.act \in Creating
      /\ setup' = [setup EXCEPT !.todo = Tail(@), !.taken = Append(@, a)]
      /\ UNCHANGED <<config, helper, initManifest, before>>
  BY DEF MakeLocal, Doing, Creating, Took
<1>2. a \in Act /\ a.act # "WIRE_CLIENT" /\ Tail(setup.todo) \in Seq(Planned)
  BY <1>0, <1>1, SetupTypes, TailActs, ActFacts DEF Creating
<1>3. setup' = [pc |-> "do", todo |-> Tail(setup.todo), taken |-> Append(setup.taken, a),
                last |-> setup.last]
  BY <1>0, <1>1, SetupTypes DEF Setting, SetupAt
<1>4. local' \in Local /\ (local'.db = "none" => local.db = "none") /\ local'.memories = local.memories
  BY <1>0, SetupTypes DEF MakeLocal, Local
<1>5. SetupTypeOK'
  <2>1. setup.last \in {"none", "set up", "reverted", "failed"}
    BY <1>0, SetupTypes DEF Setting
  <2>2. setup' \in Setting
    BY <1>0, <1>2, <1>3, <2>1, SetupTypes, AppendActs, SettingType DEF SetupPCs
  <2> QED BY <2>2, <1>0, <1>1, <1>4 DEF SetupTypeOK
<1>6. RestoreInv'
  BY <1>0, <1>1, <1>2, <1>3, SetupTypes, TailActs, AppendActs DEF SetupInv, RestoreInv, SetupAt
<1>7. MemoryInv'
  BY <1>0, <1>1, <1>2, <1>3, <1>4, SetupTypes, TailActs, AppendActs DEF SetupInv, MemoryInv, SetupAt
<1> QED BY <1>5, <1>6, <1>7 DEF SetupInv

LEMMA WireInv ==
  ASSUME SetupInv, Wire
  PROVE  SetupInv'
<1>0. SetupTypeOK
  BY DEF SetupInv
<1> DEFINE c == Head(setup.todo).client
           a == [act |-> "WIRE_CLIENT", client |-> c, was |-> config[c]]
<1>1. /\ SetupAt("do") /\ setup.todo # <<>> /\ Head(setup.todo).act = "WIRE_CLIENT"
      /\ config' = [config EXCEPT ![c] = Wired(@)]
      /\ helper' = helper \cup ({c} \cap Helpers)
      /\ setup' = [setup EXCEPT !.todo = Tail(@), !.taken = Append(@, a)]
      /\ UNCHANGED <<local, initManifest, before>>
  BY DEF Wire, Doing
<1>2. c \in AllClients /\ Tail(setup.todo) \in Seq(Planned)
  BY <1>0, <1>1, SetupTypes, TailActs, ActFacts
<1>3. a \in Act /\ a.act = "WIRE_CLIENT" /\ a.client = c /\ a.was = config[c]
  BY <1>0, <1>2, SetupTypes, WireAct
<1> HIDE DEF c, a
<1>4. setup' = [pc |-> "do", todo |-> Tail(setup.todo), taken |-> Append(setup.taken, a),
                last |-> setup.last]
  BY <1>0, <1>1, SetupTypes DEF Setting, SetupAt
<1>5. SetupTypeOK'
  <2>1. setup.last \in {"none", "set up", "reverted", "failed"}
    BY <1>0, SetupTypes DEF Setting
  <2>2. setup' \in Setting
    BY <1>0, <1>2, <1>3, <1>4, <2>1, SetupTypes, AppendActs, SettingType DEF SetupPCs
  <2>3. config' \in [AllClients -> Config]
    <3>1. \A f \in Config : Wired(f) \in Config
      BY DEF Wired, Config
    <3> QED BY <3>1, <1>0, <1>1, <1>2, SetupTypes
  <2> QED BY <2>2, <2>3, <1>0, <1>1 DEF SetupTypeOK
<1>6. RestoreInv'
  <2> DEFINE On == /\ BackedUp(setup'.taken, before.config)
                   /\ \A d \in AllClients \ WiredBy(setup'.taken) : config'[d] = before.config[d]
                   /\ WiredBy(setup'.taken) \cap WiredBy(setup'.todo) = {}
                   /\ Distinct(setup'.todo)
  <2> SUFFICES ASSUME before.known = "yes" PROVE On
    <3>1. before' = before /\ setup'.pc = "do" /\ setup'.last # "reverted"
      BY <1>1, <1>4 DEF SetupInv, RestoreInv, SetupAt
    <3> QED BY <3>1 DEF RestoreInv, SetupAt
  <2>1. /\ BackedUp(setup.taken, before.config)
        /\ \A d \in AllClients \ WiredBy(setup.taken) : config[d] = before.config[d]
        /\ WiredBy(setup.taken) \cap WiredBy(setup.todo) = {}
        /\ Distinct(setup.todo)
    BY <1>1 DEF SetupInv, RestoreInv, SetupAt
  <2>2. /\ WiredBy(Tail(setup.todo)) \subseteq WiredBy(setup.todo)
        /\ c \in WiredBy(setup.todo) /\ c \notin WiredBy(Tail(setup.todo))
        /\ Distinct(Tail(setup.todo))
    BY <1>0, <1>1, <2>1, SetupTypes, TailActs DEF c
  <2>3. config[c] = before.config[c]
    BY <2>1, <2>2, <1>2
  <2>4. /\ WiredBy(Append(setup.taken, a)) = WiredBy(setup.taken) \cup {c}
        /\ BackedUp(Append(setup.taken, a), before.config)
    BY <1>0, <1>3, <2>1, <2>3, SetupTypes, AppendActs
  <2>5. \A d \in AllClients : d # c => config'[d] = config[d]
    BY <1>0, <1>1, SetupTypes
  <2> QED BY <1>4, <2>1, <2>2, <2>4, <2>5
<1>7. MemoryInv'
  BY <1>0, <1>1, <1>3, <1>4, SetupTypes, TailActs, AppendActs DEF SetupInv, MemoryInv, SetupAt
<1> QED BY <1>5, <1>6, <1>7 DEF SetupInv

(* What is wired before the manifest is written is not undone, nor compared. *)
LEMMA SetupFailsInv ==
  ASSUME SetupInv, SetupFails \/ (SetupDies /\ SetupAt("do"))
  PROVE  SetupInv'
<1>0. SetupTypeOK
  BY DEF SetupInv
<1>1. /\ setup' = [pc |-> "idle", todo |-> <<>>, taken |-> <<>>, last |-> "failed"]
      /\ before' = Unknown
      /\ UNCHANGED <<helper, local, initManifest>>
  BY DEF SetupFails, SetupDies, Stop, NoSetting
<1>2. config' \in [AllClients -> Config]
  <2>1. CASE UNCHANGED config
    BY <2>1, <1>0, SetupTypes
  <2>2. CASE ~UNCHANGED config
    <3>1. \A f \in Config : Wired(f) \in Config
      BY DEF Wired, Config
    <3>2. setup.todo # <<>> /\ Head(setup.todo).act = "WIRE_CLIENT"
      BY <2>2 DEF SetupFails, SetupDies, Doing
    <3>3. Head(setup.todo).client \in AllClients
      BY <1>0, <3>2, SetupTypes, TailActs, ActFacts
    <3>4. config' = [config EXCEPT ![Head(setup.todo).client] = Wired(@)]
      BY <2>2 DEF SetupFails, SetupDies
    <3> QED BY <3>1, <3>3, <3>4, <1>0, SetupTypes
  <2> QED BY <2>1, <2>2
<1>3. SetupTypeOK'
  <2>1. setup' \in Setting
    BY <1>1, EmptyActs, SettingType DEF SetupPCs
  <2>2. before' \in Before
    <3>1. Absent \in Config
      BY DEF Absent, Config
    <3> QED BY <1>1, <3>1 DEF Before, Unknown
  <2> QED BY <2>1, <2>2, <1>0, <1>1, <1>2 DEF SetupTypeOK
<1>4. RestoreInv'
  BY <1>1 DEF RestoreInv, SetupAt, Unknown
<1>5. MemoryInv'
  BY <1>1 DEF SetupInv, MemoryInv, SetupAt, Unknown
<1> QED BY <1>3, <1>4, <1>5 DEF SetupInv

LEMMA RecordInv ==
  ASSUME SetupInv, Record
  PROVE  SetupInv'
<1>0. SetupTypeOK
  BY DEF SetupInv
<1>1. /\ SetupAt("do") /\ setup.todo = <<>> /\ initManifest' = setup.taken
      /\ UNCHANGED <<config, helper, local, before>>
  BY DEF Record
<1>2. setup' = [pc |-> "ping", todo |-> <<>>, taken |-> <<>>, last |-> setup.last]
  BY <1>0, <1>1, SetupTypes DEF Record, Setting
<1>3. SetupTypeOK'
  <2>1. setup.last \in {"none", "set up", "reverted", "failed"}
    BY <1>0, SetupTypes DEF Setting
  <2>2. setup' \in Setting
    BY <1>2, <2>1, EmptyActs, SettingType DEF SetupPCs
  <2> QED BY <2>2, <1>0, <1>1, SetupTypes DEF SetupTypeOK
<1>4. RestoreInv'
  BY <1>1, <1>2 DEF SetupInv, RestoreInv, SetupAt, Own
<1>5. MemoryInv'
  BY <1>1, <1>2 DEF SetupInv, MemoryInv, SetupAt
<1> QED BY <1>3, <1>4, <1>5 DEF SetupInv

LEMMA OwnStays ==
  ASSUME NEW b \in Config, NEW f, NEW g, Own(f, b),
         g = f \/ g = [f EXCEPT !.file = "present", !.proxy = "yes"]
  PROVE  Own(g, b)
<1> DEFINE x == [b EXCEPT !.file = "present", !.proxy = "yes"]
<1>1. [x EXCEPT !.file = "present", !.proxy = "yes"] = x
  BY DEF Config
<1>2. CASE f = b
  BY <1>2 DEF Own
<1>3. CASE f = x
  <2> HIDE DEF x
  <2>1. g = x
    BY <1>1, <1>3
  <2> QED BY <2>1 DEF Own, x
<1> QED BY <1>2, <1>3 DEF Own

(* Between a setup's record and its end, and between commands, a config may *)
(* only get what the proxy setup writes.                                    *)
LEMMA GoesOn ==
  ASSUME SetupInv, ~SetupAt("do"),
         setup' \in Setting, setup'.pc \notin {"do", "undo"}, setup' = setup \/ setup'.last # "reverted",
         config' \in [AllClients -> Config],
         \A c \in AllClients : \/ config'[c] = config[c]
                               \/ config'[c] = [config[c] EXCEPT !.file = "present", !.proxy = "yes"],
         local' \in Local, local'.db = "none" => local'.memories = "no",
         helper' = helper, initManifest' = initManifest, before' = before
  PROVE  SetupInv'
<1>0. SetupTypeOK
  BY DEF SetupInv
<1>1. SetupTypeOK'
  BY <1>0 DEF SetupTypeOK
<1>2. \A c \in AllClients : Own(config[c], before.config[c]) => Own(config'[c], before.config[c])
  <2>1. \A c \in AllClients : before.config[c] \in Config
    BY <1>0, SetupTypes
  <2> QED BY <2>1, OwnStays
<1>3. RestoreInv'
  <2>1. setup'.last = "reverted" => setup'.pc = "idle" /\ initManifest' = <<>>
    BY DEF SetupInv, RestoreInv, SetupAt
  <2>2. before.known = "yes" => /\ BackedUp(initManifest, before.config)
                                /\ \A c \in AllClients \ WiredBy(initManifest) : Own(config[c], before.config[c])
    BY DEF SetupInv, RestoreInv
  <2> QED BY <1>2, <2>1, <2>2 DEF RestoreInv, SetupAt
<1>4. MemoryInv'
  BY DEF SetupInv, MemoryInv, SetupAt
<1> QED BY <1>1, <1>3, <1>4 DEF SetupInv

LEMMA ProxySetupInv ==
  ASSUME SetupInv, Ping \/ NoProxy \/ ProxySetup \/ ProxyFails
  PROVE  SetupInv'
<1>0. SetupTypeOK
  BY DEF SetupInv
<1>1. ~SetupAt("do") /\ (SetupAt("ping") \/ SetupAt("proxy"))
  BY DEF Ping, NoProxy, ProxySetup, ProxyFails, SetupAt
<1>2. \A f \in Config : [f EXCEPT !.file = "present", !.proxy = "yes"] \in Config
  BY DEF Config
<1>3. /\ config' \in [AllClients -> Config]
      /\ \A c \in AllClients : \/ config'[c] = config[c]
                                \/ config'[c] = [config[c] EXCEPT !.file = "present", !.proxy = "yes"]
  <2>1. \A c \in AllClients : config[c] \in Config
    BY <1>0, SetupTypes
  <2>2. CASE Ping \/ NoProxy
    BY <2>2, <1>0, SetupTypes DEF Ping, NoProxy
  <2>3. CASE ProxySetup
    <3>1. PICK wire \in {{}, Proxied} :
            config' = [c \in AllClients |->
                         IF c \in wire THEN [config[c] EXCEPT !.file = "present", !.proxy = "yes"]
                         ELSE config[c]]
      BY <2>3 DEF ProxySetup
    <3> QED BY <3>1, <2>1, <1>2
  <2>4. CASE ProxyFails
    <3>1. PICK i \in DOMAIN Clients :
            config' = [c \in AllClients |->
                         IF c \in Proxied /\ \E j \in 1..(i - 1) : Clients[j] = c
                         THEN [config[c] EXCEPT !.file = "present", !.proxy = "yes"] ELSE config[c]]
      BY <2>4 DEF ProxyFails
    <3> QED BY <3>1, <2>1, <1>2
  <2> QED BY <2>2, <2>3, <2>4
<1>4. /\ local' \in Local /\ local'.db = local.db /\ local'.memories = local.memories
      /\ helper' = helper /\ initManifest' = initManifest /\ before' = before
  BY <1>0, SetupTypes DEF Ping, NoProxy, ProxySetup, ProxyFails, Local
<1>5. local'.db = "none" => local'.memories = "no"
  BY <1>4 DEF SetupInv, MemoryInv
<1>6. setup' \in Setting /\ setup'.pc \notin {"do", "undo"} /\ setup'.last # "reverted"
  <2>1. CASE Stop("set up") \/ Stop("failed")
    <3>1. PICK last \in {"set up", "failed"} :
            setup' = [pc |-> "idle", todo |-> <<>>, taken |-> <<>>, last |-> last]
      BY <2>1 DEF Stop, NoSetting
    <3> QED BY <3>1, EmptyActs, SettingType DEF SetupPCs
  <2>2. CASE SetupAt("ping") /\ setup' = [setup EXCEPT !.pc = "proxy"]
    <3>1. setup.last # "reverted"
      BY <2>2 DEF SetupInv, RestoreInv, SetupAt
    <3> QED BY <2>2, <3>1, <1>0, SetupTypes DEF Setting, SetupPCs
  <2> QED BY <2>1, <2>2 DEF Ping, NoProxy, ProxySetup, ProxyFails
<1> QED BY <1>1, <1>3, <1>4, <1>5, <1>6, GoesOn

LEMMA StoppedInv ==
  ASSUME SetupInv, RevertFails \/ (SetupDies /\ ~SetupAt("do")) \/ Remember
  PROVE  SetupInv'
<1>0. SetupTypeOK
  BY DEF SetupInv
<1>1. /\ ~SetupAt("do") /\ config' = config /\ helper' = helper
      /\ initManifest' = initManifest /\ before' = before
  BY DEF RevertFails, SetupDies, Remember, SetupAt
<1>2. local' \in Local /\ (local'.db = "none" => local'.memories = "no")
  <2>1. CASE Remember
    BY <2>1, <1>0, SetupTypes DEF Remember, Local
  <2>2. CASE ~Remember
    BY <2>2, <1>0, SetupTypes DEF RevertFails, SetupDies, SetupInv, MemoryInv
  <2> QED BY <2>1, <2>2
<1>3. setup' \in Setting /\ setup'.pc \notin {"do", "undo"} /\ (setup' = setup \/ setup'.last # "reverted")
  <2>1. CASE Remember
    BY <2>1, <1>0, SetupTypes DEF Remember, SetupAt
  <2>2. CASE ~Remember
    <3>1. setup' = [pc |-> "idle", todo |-> <<>>, taken |-> <<>>, last |-> "failed"]
      BY <2>2 DEF RevertFails, SetupDies, Stop, NoSetting
    <3> QED BY <3>1, EmptyActs, SettingType DEF SetupPCs
  <2> QED BY <2>1, <2>2
<1>4. config' \in [AllClients -> Config] /\ \A c \in AllClients : config'[c] = config[c]
  BY <1>0, <1>1, SetupTypes
<1> QED BY <1>1, <1>2, <1>3, <1>4, GoesOn

LEMMA EditInv ==
  ASSUME SetupInv, Edit
  PROVE  SetupInv'
<1>0. SetupTypeOK
  BY DEF SetupInv
<1>1. /\ SetupAt("idle") /\ setup' = [setup EXCEPT !.last = "none"]
      /\ before' = [Unknown EXCEPT !.memories = before.memories]
      /\ UNCHANGED <<helper, local, initManifest>>
  BY DEF Edit
<1>2. config' \in [AllClients -> Config]
  <2>1. PICK c \in AllClients :
          /\ config[c].mine < MaxEdits
          /\ config' = [config EXCEPT ![c].file = "present", ![c].mine = @ + 1]
    BY DEF Edit
  <2> DEFINE f == [config[c] EXCEPT !.file = "present", !.mine = @ + 1]
  <2>2. config[c] \in Config /\ config[c].mine \in 0..MaxEdits
    BY <1>0, SetupTypes DEF Config
  <2>3. config[c].mine + 1 \in 0..MaxEdits
    BY <2>1, <2>2
  <2>4. f \in Config
    BY <2>2, <2>3 DEF Config
  <2>5. config' = [config EXCEPT ![c] = f]
    BY <2>1, <2>2, <1>0, SetupTypes DEF Config
  <2> HIDE DEF f
  <2> QED BY <2>4, <2>5, <1>0, SetupTypes
<1>3. SetupTypeOK'
  <2>1. setup' \in Setting
    BY <1>0, <1>1, SetupTypes DEF Setting
  <2>2. before' \in Before
    <3>1. Absent \in Config
      BY DEF Absent, Config
    <3>2. before.memories \in {"no", "yes", "unknown"}
      BY <1>0, SetupTypes DEF Before
    <3> QED BY <1>1, <3>1, <3>2 DEF Before, Unknown
  <2> QED BY <2>1, <2>2, <1>0, <1>1, <1>2 DEF SetupTypeOK
<1>4. setup'.pc = "idle" /\ setup'.last = "none" /\ before'.known = "no" /\ before'.memories = before.memories
  BY <1>0, <1>1, SetupTypes DEF Setting, SetupAt, Unknown
<1>5. RestoreInv'
  BY <1>4 DEF RestoreInv, SetupAt
<1>6. MemoryInv'
  BY <1>1, <1>4 DEF SetupInv, MemoryInv, SetupAt
<1> QED BY <1>3, <1>5, <1>6 DEF SetupInv

LEMMA BeginRevertInv ==
  ASSUME SetupInv, BeginRevert
  PROVE  SetupInv'
<1>0. SetupTypeOK
  BY DEF SetupInv
<1> DEFINE r == Reverse(initManifest)
<1>1. /\ SetupAt("idle") /\ UNCHANGED <<config, helper, local, initManifest, before>>
      /\ setup' = [pc |-> "undo", todo |-> r, taken |-> <<>>, last |-> "none"]
  BY DEF BeginRevert, NoSetting
<1>2. /\ r \in Seq(Act) /\ r \in Seq(Planned)
      /\ WiredBy(r) = WiredBy(initManifest)
      /\ \A from : BackedUp(initManifest, from) => BackedUp(r, from)
      /\ Creates(r) => Creates(initManifest)
  BY <1>0, SetupTypes, ReverseActs DEF Planned
<1> HIDE DEF r
<1>3. SetupTypeOK'
  <2>1. setup' \in Setting
    BY <1>1, <1>2, EmptyActs, SettingType DEF SetupPCs
  <2> QED BY <2>1, <1>0, <1>1 DEF SetupTypeOK
<1>4. RestoreInv'
  BY <1>1, <1>2 DEF SetupInv, RestoreInv, SetupAt
<1>5. MemoryInv'
  BY <1>1, <1>2 DEF SetupInv, MemoryInv, SetupAt
<1> QED BY <1>3, <1>4, <1>5 DEF SetupInv

(* One action less to undo. *)
LEMMA UndoneInv ==
  ASSUME SetupInv, SetupAt("undo"), setup.todo # <<>>, Undone,
         helper' = helper, initManifest' = initManifest, before' = before
  PROVE  /\ setup' \in Setting /\ setup'.pc = "undo" /\ setup'.last # "reverted"
         /\ Head(setup.todo) \in Act
         /\ setup'.todo = Tail(setup.todo) /\ setup'.todo \in Seq(Act)
         /\ setup.todo \in Seq(Planned)
<1>1. SetupTypeOK
  BY DEF SetupInv
<1>2. setup.todo \in Seq(Act) /\ setup.last # "reverted"
  BY DEF SetupInv, RestoreInv, SetupAt
<1>3. Head(setup.todo) \in Act /\ Tail(setup.todo) \in Seq(Act) /\ Tail(setup.todo) \in Seq(Planned)
  BY <1>1, <1>2, SetupTypes, TailActs
<1>4. setup' = [pc |-> "undo", todo |-> Tail(setup.todo), taken |-> setup.taken, last |-> setup.last]
  BY <1>1, SetupTypes DEF Undone, Setting, SetupAt
<1>5. setup' \in Setting
  <2>1. setup.last \in {"none", "set up", "reverted", "failed"}
    BY <1>1, SetupTypes DEF Setting
  <2> QED BY <2>1, <1>1, <1>3, <1>4, SetupTypes, SettingType DEF SetupPCs
<1> QED BY <1>1, <1>2, <1>3, <1>4, <1>5, SetupTypes

LEMMA UnwireInv ==
  ASSUME SetupInv, Unwire
  PROVE  SetupInv'
<1>0. SetupTypeOK
  BY DEF SetupInv
<1> DEFINE a == Head(setup.todo)
<1>1. /\ SetupAt("undo") /\ setup.todo # <<>> /\ a.act = "WIRE_CLIENT" /\ Undone
      /\ config' = [config EXCEPT ![a.client] = a.was]
      /\ UNCHANGED <<helper, local, initManifest, before>>
  BY DEF Unwire, Undoing
<1>2. /\ setup' \in Setting /\ setup'.pc = "undo" /\ setup'.last # "reverted" /\ a \in Act
      /\ setup'.todo = Tail(setup.todo) /\ setup'.todo \in Seq(Act)
      /\ setup.todo \in Seq(Planned)
  BY <1>1, UndoneInv
<1>3. a.client \in AllClients /\ a.was \in Config
  BY <1>0, <1>1, <1>2, ActFacts, SetupTypes
<1>4. SetupTypeOK'
  <2>1. config' \in [AllClients -> Config]
    BY <1>0, <1>1, <1>3, SetupTypes
  <2> QED BY <2>1, <1>0, <1>1, <1>2 DEF SetupTypeOK
<1>5. RestoreInv'
  <2> DEFINE Goal == /\ BackedUp(initManifest, before.config)
                     /\ \A c \in AllClients \ WiredBy(initManifest) : Own(config'[c], before.config[c])
                     /\ BackedUp(setup'.todo, before.config)
                     /\ \A c \in AllClients \ WiredBy(setup'.todo) : Own(config'[c], before.config[c])
  <2> SUFFICES ASSUME before.known = "yes" PROVE Goal
    BY <1>1, <1>2 DEF RestoreInv, SetupAt
  <2>1. /\ BackedUp(initManifest, before.config)
        /\ \A c \in AllClients \ WiredBy(initManifest) : Own(config[c], before.config[c])
        /\ BackedUp(setup.todo, before.config)
        /\ \A c \in AllClients \ WiredBy(setup.todo) : Own(config[c], before.config[c])
    BY <1>1 DEF SetupInv, RestoreInv, SetupAt
  <2>2. /\ BackedUp(setup'.todo, before.config) /\ a.was = before.config[a.client]
        /\ \A c \in WiredBy(setup.todo) : c \in WiredBy(setup'.todo) \/ c = a.client
    BY <1>1, <1>2, <2>1, TailActs
  <2> HIDE DEF a
  <2>3. /\ config'[a.client] = before.config[a.client]
        /\ \A c \in AllClients : c # a.client => config'[c] = config[c]
    BY <1>0, <1>1, <1>3, <2>2, SetupTypes
  <2>4. \A c \in AllClients \ WiredBy(initManifest) : Own(config'[c], before.config[c])
    BY <2>1, <2>3 DEF Own
  <2>5. \A c \in AllClients \ WiredBy(setup'.todo) : Own(config'[c], before.config[c])
    BY <2>1, <2>2, <2>3 DEF Own
  <2> QED BY <2>1, <2>2, <2>4, <2>5
<1>6. MemoryInv'
  <2>1. Creates(setup'.todo) => Creates(setup.todo)
    BY <1>1, <1>2, TailActs
  <2> QED BY <2>1, <1>1, <1>2 DEF SetupInv, MemoryInv, SetupAt
<1> QED BY <1>4, <1>5, <1>6 DEF SetupInv

LEMMA UnmakeLocalInv ==
  ASSUME SetupInv, UnmakeLocal
  PROVE  SetupInv'
<1>0. SetupTypeOK
  BY DEF SetupInv
<1> DEFINE a == Head(setup.todo)
<1>1. /\ SetupAt("undo") /\ setup.todo # <<>> /\ a.act # "WIRE_CLIENT" /\ Undone
      /\ UNCHANGED <<config, helper, initManifest, before>>
  BY DEF UnmakeLocal, Undoing
<1>2. /\ setup' \in Setting /\ setup'.pc = "undo" /\ setup'.last # "reverted"
      /\ setup'.todo = Tail(setup.todo) /\ setup'.todo \in Seq(Act)
      /\ setup.todo \in Seq(Planned)
  BY <1>1, UndoneInv
<1>3. local' \in Local /\ (local'.db = "none" => local'.memories = "no")
  <2>1. local \in Local /\ (local.db = "none" => local.memories = "no")
    BY <1>0, SetupTypes DEF SetupInv, MemoryInv
  <2> QED BY <2>1 DEF UnmakeLocal, Local
<1>4. SetupTypeOK'
  BY <1>0, <1>1, <1>2, <1>3 DEF SetupTypeOK
<1>5. RestoreInv'
  <2>1. before.known = "yes" =>
          /\ BackedUp(setup'.todo, before.config)
          /\ \A c \in AllClients \ WiredBy(setup'.todo) : Own(config[c], before.config[c])
    <3>1. before.known = "yes" =>
            /\ BackedUp(setup.todo, before.config)
            /\ \A c \in AllClients \ WiredBy(setup.todo) : Own(config[c], before.config[c])
      BY <1>1 DEF SetupInv, RestoreInv
    <3>2. /\ \A from : BackedUp(setup.todo, from) => BackedUp(setup'.todo, from)
          /\ \A c \in WiredBy(setup.todo) : c \in WiredBy(setup'.todo)
      BY <1>1, <1>2, TailActs
    <3> QED BY <3>1, <3>2
  <2>2. before.known = "yes" =>
          /\ BackedUp(initManifest, before.config)
          /\ \A c \in AllClients \ WiredBy(initManifest) : Own(config[c], before.config[c])
    BY <1>1 DEF SetupInv, RestoreInv, SetupAt
  <2> QED BY <2>1, <2>2, <1>1, <1>2 DEF RestoreInv, SetupAt
<1>6. MemoryInv'
  <2>1. Creates(setup'.todo) => Creates(setup.todo)
    BY <1>1, <1>2, TailActs
  <2> QED BY <2>1, <1>1, <1>2, <1>3 DEF SetupInv, MemoryInv, SetupAt
<1> QED BY <1>4, <1>5, <1>6 DEF SetupInv

LEMMA ForgetSetupInv ==
  ASSUME SetupInv, ForgetSetup
  PROVE  SetupInv'
<1>0. SetupTypeOK
  BY DEF SetupInv
<1>1. /\ SetupAt("undo") /\ setup.todo = <<>> /\ initManifest' = <<>>
      /\ setup' = [pc |-> "idle", todo |-> <<>>, taken |-> <<>>, last |-> "reverted"]
      /\ UNCHANGED <<config, helper, local, before>>
  BY DEF ForgetSetup, Stop, NoSetting
<1>2. SetupTypeOK'
  <2>1. setup' \in Setting
    BY <1>1, EmptyActs, SettingType DEF SetupPCs
  <2> QED BY <2>1, <1>0, <1>1, EmptyActs DEF SetupTypeOK
<1>3. RestoreInv'
  BY <1>1, EmptyActs DEF SetupInv, RestoreInv, SetupAt
<1>4. MemoryInv'
  BY <1>1, EmptyActs DEF SetupInv, MemoryInv, SetupAt
<1> QED BY <1>2, <1>3, <1>4 DEF SetupInv

LEMMA SetupStepInv ==
  ASSUME SetupInv, [SetupNext]_setupVars
  PROVE  SetupInv'
<1>1. CASE UNCHANGED setupVars
  BY <1>1 DEF setupVars, SetupInv, SetupTypeOK, RestoreInv, MemoryInv, SetupAt
<1>2. CASE SetupDies
  BY <1>2, SetupFailsInv, StoppedInv
<1>3. CASE SetupNext /\ ~SetupDies
  BY <1>3, BeginSetupInv, MakeLocalInv, WireInv, SetupFailsInv, RecordInv, ProxySetupInv,
     BeginRevertInv, UnwireInv, UnmakeLocalInv, StoppedInv, ForgetSetupInv, EditInv DEF SetupNext
<1> QED BY <1>1, <1>2, <1>3

LEMMA SetupIsInv == SetupSpec => []SetupInv
<1>1. SetupInit => SetupInv
  BY SetupInitInv
<1>2. SetupInv /\ [SetupNext]_setupVars => SetupInv'
  BY SetupStepInv
<1> QED BY <1>1, <1>2, PTL DEF SetupSpec

\* Setup's variables keep their types, for any list of clients.
THEOREM SetupTyped == SetupSpec => []SetupTypeOK
<1>1. SetupInv => SetupTypeOK
  BY DEF SetupInv
<1> QED BY <1>1, SetupIsInv, PTL

\* A revert that completes has restored every config, whatever failed, died or
\* was set up before: the manifest on record covers what is not as it was.
THEOREM RevertRestores == SetupSpec => []RevertRestoresConfigs
<1>1. SetupInv => RevertRestoresConfigs
  BY EmptyActs DEF SetupInv, RestoreInv, RevertRestoresConfigs, SetupAt, Own
<1> QED BY <1>1, SetupIsInv, PTL

\* The only step that takes memories away undoes the making of the database, and
\* a setup that was to make one had found no memories.
THEOREM MemoriesSurviveRevert == SetupSpec => OldMemoriesSurvive
<1>1. ASSUME SetupInv, [SetupNext]_setupVars
      PROVE  local.memories = "yes" /\ local'.memories = "no" => before.memories # "yes"
  <2> SUFFICES ASSUME local.memories = "yes", local'.memories = "no" PROVE before.memories # "yes"
    OBVIOUS
  <2>0. local \in Local /\ setup.todo \in Seq(Planned)
    BY <1>1, SetupTypes DEF SetupInv
  <2>1. UnmakeLocal
    <3>1. CASE MakeLocal
      BY <2>0, <3>1 DEF MakeLocal, Local
    <3>2. CASE ProxySetup \/ Remember
      BY <2>0, <3>2 DEF ProxySetup, Remember, Local
    <3> QED BY <1>1, <3>1, <3>2 DEF SetupNext, setupVars, BeginSetup, Wire, SetupFails, Record, Ping,
          NoProxy, ProxyFails, BeginRevert, Unwire, RevertFails, ForgetSetup, SetupDies, Edit
  <2>2. Undoing("CREATE_DB")
    BY <2>0, <2>1 DEF UnmakeLocal, Local
  <2>3. Creates(setup.todo) /\ SetupAt("undo")
    BY <2>0, <2>2, TailActs DEF Undoing
  <2> QED BY <1>1, <2>3 DEF SetupInv, MemoryInv
<1> QED BY <1>1, SetupIsInv, PTL DEF SetupSpec, OldMemoriesSurvive

-----------------------------------------------------------------------------
(* SkillSync: types.                                                        *)

LEMMA RowsListed ==
  /\ Rows \in Seq(Locations) /\ Len(Rows) \in Nat /\ DOMAIN Rows = 1..Len(Rows)
  /\ \A l \in Locations : \E i \in 1..Len(Rows) : Rows[i] = l
  /\ \A i, j \in 1..Len(Rows) : Rows[i] = Rows[j] => i = j
<1>1. Len(Rows) \in Nat /\ DOMAIN Rows = 1..Len(Rows)
  OBVIOUS
<1>2. \A i, j \in DOMAIN Rows : Rows[i] = Rows[j] => i = j
  BY DEF IsInjective
<1> QED BY <1>1, <1>2 DEF Locations, ToSet

LEMMA ChosenRows ==
  ASSUME NEW C \in SUBSET Locations
  PROVE  Select(Rows, C) \in Seq(Locations) /\ ToSet(Select(Rows, C)) = C
<1> DEFINE r == Select(Rows, C)
<1>1. /\ r \in Seq(Locations) /\ \A j \in 1..Len(r) : r[j] \in C
      /\ \A i \in 1..Len(Rows) : Rows[i] \in C => \E j \in 1..Len(r) : r[j] = Rows[i]
  BY RowsListed, SelectMembers
<1> HIDE DEF r
<1>2. ToSet(r) \subseteq C
  BY <1>1 DEF ToSet
<1>3. ASSUME NEW l \in C PROVE l \in ToSet(r)
  <2>1. PICK i \in 1..Len(Rows) : Rows[i] = l
    BY RowsListed
  <2>2. PICK j \in 1..Len(r) : r[j] = l
    BY <1>1, <2>1
  <2> QED BY <1>1, <2>2 DEF ToSet
<1> QED BY <1>1, <1>2, <1>3 DEF r

LEMMA TailLocations ==
  ASSUME NEW s \in Seq(Locations), s # <<>>
  PROVE  /\ Head(s) \in Locations /\ Tail(s) \in Seq(Locations)
         /\ \A l \in ToSet(s) : l = Head(s) \/ l \in ToSet(Tail(s))
<1> DEFINE t == Tail(s)
<1>1. /\ Len(s) \in Nat \ {0} /\ DOMAIN s = 1..Len(s) /\ Head(s) = s[1] /\ Head(s) \in Locations
      /\ t \in Seq(Locations) /\ DOMAIN t = 1..(Len(s) - 1)
      /\ \A i \in 1..(Len(s) - 1) : t[i] = s[i + 1]
  OBVIOUS
<1> HIDE DEF t
<1>2. ASSUME NEW i \in 1..Len(s) PROVE s[i] = Head(s) \/ s[i] \in ToSet(t)
  <2>1. i # 1 => i - 1 \in DOMAIN t /\ t[i - 1] = s[i]
    BY <1>1
  <2> QED BY <1>1, <2>1 DEF ToSet
<1> QED BY <1>1, <1>2 DEF t, ToSet

LEMMA SkillTypes ==
  ASSUME SkillTypeOK
  PROVE  /\ place \in [Locations -> Place] /\ store \in Texts \cup {"none", "half"}
         /\ manifest \in Manifest /\ sync \in Sync /\ symlinks \in {"yes", "no"}
         /\ sync.todo \in Seq(Locations) /\ sync.draft \in Manifest
         /\ NoManifest \in Manifest /\ NoSync \in Sync
         /\ mishap = [links |-> mishap.links, store |-> mishap.store]
         /\ mishap.links \in SUBSET Locations /\ mishap.store \in {"no", "yes"}
BY DEF SkillTypeOK, Sync, NoSync, NoManifest, Manifest, SyncPCs, Mishap

LEMMA PlaceFacts ==
  ASSUME SkillTypeOK, NEW l \in Locations
  PROVE  /\ place[l].kind \in {"dir", "link", "none"}
         /\ place[l].kind = "dir" => place[l].text \in Text \cup {"half"} /\ place[l] = Folder(place[l].text)
         /\ place[l].kind = "link" => place[l] = Link
         /\ place[l].kind = "none" => place[l] = Nothing
<1>1. place[l] \in Place
  BY SkillTypes
<1> QED BY <1>1 DEF Place, Link, Nothing, Folder

LEMMA Places3 ==
  /\ Nothing \in Place /\ Nothing.kind = "none" /\ Link \in Place /\ Link.kind = "link"
  /\ \A text \in Text \cup {"half"} :
       Folder(text) \in Place /\ Folder(text).kind = "dir" /\ Folder(text).text = text
BY DEF Nothing, Link, Folder, Place

(* One location's entry in a manifest. *)
LEMMA LinkedAt ==
  ASSUME NEW d \in Manifest, NEW l \in Locations, NEW m \in {"symlink", "copy"}
  PROVE  LET e == [d EXCEPT !.linked[l] = m] IN
         /\ e \in Manifest /\ e # NoManifest /\ e.linked[l] = m
         /\ \A k \in Locations : k # l => e.linked[k] = d.linked[k]
<1> DEFINE L == [d.linked EXCEPT ![l] = m]
           e == [d EXCEPT !.linked[l] = m]
<1>1. d.linked \in [Locations -> {"no", "symlink", "copy"}] /\ d.sha \in Texts \cup {"none"}
      /\ d = [sha |-> d.sha, linked |-> d.linked]
  BY DEF Manifest
<1>2. e = [sha |-> d.sha, linked |-> L]
  BY <1>1
<1>3. /\ L \in [Locations -> {"no", "symlink", "copy"}] /\ L[l] = m
      /\ \A k \in Locations : k # l => L[k] = d.linked[k]
  BY <1>1
<1> HIDE DEF L
<1>4. e.linked = L /\ e \in Manifest
  BY <1>1, <1>2, <1>3 DEF Manifest
<1>5. NoManifest.linked[l] = "no"
  BY DEF NoManifest
<1> HIDE DEF e
<1>6. e # NoManifest
  BY <1>3, <1>4, <1>5
<1> QED BY <1>3, <1>4, <1>6 DEF e

LEMMA LinkedSame ==
  ASSUME NEW d \in Manifest, NEW l \in Locations
  PROVE  [d EXCEPT !.linked[l] = d.linked[l]] = d
<1>1. d.linked \in [Locations -> {"no", "symlink", "copy"}]
      /\ d = [sha |-> d.sha, linked |-> d.linked]
  BY DEF Manifest
<1>2. [d.linked EXCEPT ![l] = d.linked[l]] = d.linked
  BY <1>1
<1>3. [d EXCEPT !.linked[l] = d.linked[l]] = [sha |-> d.sha, linked |-> [d.linked EXCEPT ![l] = d.linked[l]]]
  BY <1>1
<1> QED BY <1>1, <1>2, <1>3

(* What wins is what someone has, and there is a winner if someone has one. *)
LEMMA WinnerFacts ==
  ASSUME SkillTypeOK, NEW prefer \in Locations
  PROVE  /\ Winner(prefer) \in Texts \cup {"none"}
         /\ Winner(prefer) = "none" => ~\E l \in Locations : Holds(l)
<1> DEFINE C == {l \in Locations : Holds(l) /\ ~\E i \in DOMAIN Rows :
                   /\ Holds(Rows[i]) /\ Read(Rows[i]) = Read(l)
                   /\ \E j \in DOMAIN Rows : Rows[j] = l /\ i < j}
<1>1. /\ Occurrences = Select(Rows, C) /\ C \in SUBSET Locations
      /\ \A l \in C : Holds(l)
  BY DEF Occurrences
<1>2. (\E l \in Locations : Holds(l)) => C # {}
  <2> SUFFICES ASSUME NEW l \in Locations, Holds(l) PROVE C # {}
    OBVIOUS
  <2> DEFINE I == {i \in 1..Len(Rows) : Holds(Rows[i])}
  <2>1. I # {} /\ I \in SUBSET Nat
    <3>1. PICK i \in 1..Len(Rows) : Rows[i] = l
      BY RowsListed
    <3>2. i \in I
      BY <3>1
    <3>3. 1..Len(Rows) \subseteq Nat
      BY RowsListed
    <3> QED BY <3>2, <3>3
  <2>2. PICK x \in I : \A y \in I : x <= y
    BY <2>1, Least
  <2>3. Rows[x] \in Locations /\ Holds(Rows[x]) /\ x \in 1..Len(Rows)
    BY RowsListed
  <2>4. ASSUME NEW i \in DOMAIN Rows, NEW j \in DOMAIN Rows, Holds(Rows[i]), Rows[j] = Rows[x], i < j
        PROVE  FALSE
    <3>1. i \in 1..Len(Rows) /\ j \in 1..Len(Rows)
      BY <2>4, RowsListed
    <3>2. j = x
      BY <2>3, <2>4, <3>1, RowsListed
    <3>3. i \in I
      BY <2>4, <3>1
    <3>4. x <= i
      BY <2>2, <3>3
    <3> HIDE DEF I
    <3>5. x \in Int /\ i \in Int
      BY <2>3, <3>1
    <3> QED BY <3>2, <3>4, <3>5, <2>4
  <2>5. Rows[x] \in C
    BY <2>3, <2>4
  <2> QED BY <2>5
<1> HIDE DEF C
<1>3. Occurrences \in Seq(Locations) /\ ToSet(Occurrences) = C
  BY <1>1, ChosenRows
<1>4. Occurrences # <<>> => Head(Occurrences) \in C
  BY <1>3 DEF ToSet
<1>5. C # {} => Occurrences # <<>>
  BY <1>3 DEF ToSet
<1>6. Occurrences # <<>> => Winner(prefer) \in Texts
  BY <1>1, <1>3, <1>4 DEF Winner, Holds
<1> QED BY <1>2, <1>5, <1>6 DEF Winner

LEMMA SyncType ==
  ASSUME NEW s, NEW pc \in SyncPCs, NEW win \in Texts \cup {"none"}, NEW todo \in Seq(Locations),
         NEW errors \in {"no", "yes"}, NEW draft \in Manifest,
         NEW last \in {"none", "applied", "reverted"},
         s = [pc |-> pc, win |-> win, todo |-> todo, errors |-> errors, draft |-> draft,
              last |-> last]
  PROVE  s \in Sync
BY DEF Sync

LEMMA SkillInitType == SkillInit => SkillOK
<1> SUFFICES ASSUME SkillInit PROVE SkillOK
  OBVIOUS
<1>1. NoManifest \in Manifest
  BY DEF NoManifest, Manifest
<1>2. NoSync \in Sync /\ NoMishap \in Mishap
  BY <1>1 DEF NoSync, SyncPCs, Sync, NoMishap, Mishap
<1>3. place \in [Locations -> Place]
  BY DEF SkillInit, Place, Nothing
<1>4. SkillTypeOK
  BY <1>1, <1>2, <1>3 DEF SkillInit, SkillTypeOK
<1> QED BY <1>4 DEF SkillInit, SkillOK, StepInv, SyncAt, NoSync

(* The plan of an apply. *)
LEMMA ApplyPlans ==
  ASSUME SkillTypeOK, Apply
  PROVE  /\ sync' \in Sync /\ sync'.draft = manifest /\ sync'.last = "none"
         /\ \/ /\ sync'.pc = "save" /\ ~\E l \in Locations : Holds(l)
            \/ /\ sync'.pc = "canon" /\ sync'.win \in Texts
               /\ \A l \in Locations : ~Sees(l) => l \in ToSet(sync'.todo)
<1>1. PICK prefer \in Locations :
        sync' = [sync EXCEPT !.pc = IF Winner(prefer) = "none" THEN "save" ELSE "canon",
                   !.win = Winner(prefer), !.last = "none", !.draft = manifest,
                   !.todo = IF Winner(prefer) = "none" THEN <<>> ELSE Links]
  BY DEF Apply
<1> DEFINE win == Winner(prefer)
           todo == IF win = "none" THEN <<>> ELSE Links
           pc == IF win = "none" THEN "save" ELSE "canon"
<1>2. win \in Texts \cup {"none"} /\ (win = "none" => ~\E l \in Locations : Holds(l))
  BY WinnerFacts
<1>3. Links \in Seq(Locations) /\ ToSet(Links) = {l \in Locations : ~Sees(l)}
  <2>1. {l \in Locations : ~Sees(l)} \in SUBSET Locations
    OBVIOUS
  <2> QED BY <2>1, ChosenRows DEF Links
<1>4. todo \in Seq(Locations) /\ pc \in SyncPCs
  BY <1>3 DEF SyncPCs
<1>5. sync' = [pc |-> pc, win |-> win, todo |-> todo, errors |-> sync.errors, draft |-> manifest,
               last |-> "none"]
  BY <1>1, SkillTypes DEF Sync
<1> HIDE DEF win
<1>6. sync' \in Sync
  <2>1. sync.errors \in {"no", "yes"}
    BY SkillTypes DEF Sync
  <2> HIDE DEF todo, pc
  <2> QED BY <1>2, <1>4, <1>5, <2>1, SkillTypes, SyncType
<1> QED BY <1>2, <1>3, <1>5, <1>6

(* What happens at one location. *)
LEMMA PutLinkDoes ==
  ASSUME SkillTypeOK, PutLink
  PROVE  LET l == Head(sync.todo) IN
         /\ l \in Locations /\ sync' \in Sync /\ sync'.last = sync.last
         /\ place' \in [Locations -> Place]
         /\ \A k \in Locations : k # l => /\ place'[k] = place[k]
                                         /\ sync'.draft.linked[k] = sync.draft.linked[k]
         /\ \/ /\ place[l].kind = "none" /\ store # "none" /\ place'[l] = Folder("half")
               /\ sync'.pc = "fill" /\ sync'.todo = sync.todo /\ sync'.draft = sync.draft
               /\ sync'.errors = sync.errors
            \/ /\ sync'.pc = "link" /\ sync'.todo = Tail(sync.todo)
               /\ \/ /\ place[l].kind # "none" /\ place' = place /\ sync'.draft = sync.draft
                     /\ sync'.errors = sync.errors
                  \/ /\ place[l].kind = "none" /\ place'[l] = Link /\ sync'.draft # NoManifest
                     /\ sync'.draft.linked[l] = "symlink" /\ sync'.errors = sync.errors
                  \/ sync'.errors = "yes" /\ place' = place /\ sync'.draft = sync.draft
<1> DEFINE l == Head(sync.todo)
           free == place[l].kind = "none"
           linked == free /\ symlinks = "yes"
           copied == free /\ symlinks = "no" /\ store # "none"
           draft == IF linked THEN [sync.draft EXCEPT !.linked[l] = "symlink"] ELSE sync.draft
           errors == IF free /\ ~linked THEN "yes" ELSE sync.errors
<1>1. /\ SyncAt("link") /\ sync.todo # <<>>
      /\ place' = [place EXCEPT ![l] = IF linked THEN Link ELSE IF copied THEN Folder("half") ELSE @]
      /\ sync' = IF copied THEN [sync EXCEPT !.pc = "fill"]
                 ELSE [sync EXCEPT !.todo = Tail(@), !.errors = errors,
                         !.draft.linked[l] = IF linked THEN "symlink" ELSE @]
  BY DEF PutLink
<1>2. l \in Locations /\ Tail(sync.todo) \in Seq(Locations)
  BY <1>1, SkillTypes, TailLocations
<1> HIDE DEF l
<1>3. draft \in Manifest /\ (linked => draft # NoManifest /\ draft.linked[l] = "symlink")
      /\ (~linked => draft = sync.draft)
      /\ \A k \in Locations : k # l => draft.linked[k] = sync.draft.linked[k]
  <2>1. CASE linked
    <3> DEFINE d == sync.draft
               e == [d EXCEPT !.linked[l] = "symlink"]
    <3>0. d \in Manifest
      BY SkillTypes
    <3> HIDE DEF d
    <3>1. e \in Manifest /\ e # NoManifest /\ e.linked[l] = "symlink"
          /\ \A k \in Locations : k # l => e.linked[k] = d.linked[k]
      BY <1>2, <3>0, LinkedAt
    <3> USE DEF d
    <3>2. draft = e
      BY <2>1
    <3> HIDE DEF e, draft
    <3> QED BY <2>1, <3>1, <3>2
  <2>2. CASE ~linked
    BY <2>2, SkillTypes
  <2> QED BY <2>1, <2>2
<1>4. /\ place' \in [Locations -> Place] /\ \A k \in Locations : k # l => place'[k] = place[k]
      /\ linked => place'[l] = Link
      /\ copied => place'[l] = Folder("half")
      /\ ~linked /\ ~copied => place' = place
  <2>1. place \in [Locations -> Place] /\ (copied => ~linked)
    BY SkillTypes
  <2> HIDE DEF linked, copied
  <2> QED BY <1>1, <1>2, <2>1, Places3
<1>5. CASE copied
  <2>1. /\ sync' \in Sync /\ sync'.last = sync.last /\ sync'.pc = "fill" /\ sync'.todo = sync.todo
        /\ sync'.draft = sync.draft /\ sync'.errors = sync.errors
    BY <1>1, <1>5, SkillTypes DEF Sync, SyncPCs
  <2> QED BY <1>2, <1>4, <1>5, <2>1 DEF l
<1>6. CASE ~copied
  <2>1. sync' = [sync EXCEPT !.todo = Tail(sync.todo), !.errors = errors, !.draft = draft]
    <3>1. sync' = [sync EXCEPT !.todo = Tail(sync.todo), !.errors = errors,
                     !.draft = [sync.draft EXCEPT !.linked[l] =
                                  IF linked THEN "symlink" ELSE sync.draft.linked[l]]]
      BY <1>1, <1>6, SkillTypes DEF Sync
    <3>2. [sync.draft EXCEPT !.linked[l] = sync.draft.linked[l]] = sync.draft
      BY <1>2, SkillTypes, LinkedSame
    <3>3. CASE linked
      BY <3>1, <3>3
    <3>4. CASE ~linked
      BY <3>1, <3>2, <3>4
    <3> QED BY <3>3, <3>4
  <2>2. sync' = [pc |-> "link", win |-> sync.win, todo |-> Tail(sync.todo), errors |-> errors,
                 draft |-> draft, last |-> sync.last]
    BY <1>1, <2>1, SkillTypes DEF Sync, SyncAt
  <2>3. /\ sync.win \in Texts \cup {"none"} /\ errors \in {"no", "yes"}
        /\ sync.last \in {"none", "applied", "reverted"}
    BY SkillTypes DEF Sync
  <2>4. /\ free /\ ~linked => errors = "yes"
        /\ ~free \/ linked => errors = sync.errors
    OBVIOUS
  <2> HIDE DEF draft, errors
  <2>5. sync' \in Sync
    BY <1>2, <1>3, <2>2, <2>3, SyncType DEF SyncPCs
  <2>6. /\ sync'.pc = "link" /\ sync'.todo = Tail(sync.todo) /\ sync'.last = sync.last
        /\ sync'.draft = draft /\ sync'.errors = errors
    BY <2>2
  <2>7. CASE linked
    BY <1>2, <1>3, <1>4, <2>4, <2>5, <2>6, <2>7 DEF l
  <2>8. CASE ~free
    BY <1>2, <1>3, <1>4, <1>6, <2>4, <2>5, <2>6, <2>8 DEF l
  <2>9. CASE free /\ ~linked
    BY <1>2, <1>3, <1>4, <1>6, <2>4, <2>5, <2>6, <2>9 DEF l
  <2> QED BY <2>7, <2>8, <2>9
<1> QED BY <1>5, <1>6

(* A copy into a location ends, well or not. *)
LEMMA FillDoes ==
  ASSUME SkillOK, SyncAt("fill"), PutCopy \/ PutFails
  PROVE  LET l == Head(sync.todo) IN
         /\ l \in Locations /\ sync' \in Sync /\ sync'.last = sync.last
         /\ sync'.pc = "link" /\ sync'.todo = Tail(sync.todo)
         /\ place' \in [Locations -> Place]
         /\ place[l] = Folder("half") /\ \E text \in Texts \cup {"half"} : place'[l] = Folder(text)
         /\ \A k \in Locations : k # l => /\ place'[k] = place[k]
                                         /\ sync'.draft.linked[k] = sync.draft.linked[k]
         /\ sync'.draft.linked[l] = "no" => sync.draft.linked[l] = "no"
         /\ sync.draft # NoManifest => sync'.draft # NoManifest
         /\ UNCHANGED <<store, manifest, symlinks, mishap>>
         /\ sync'.errors = sync.errors \/ sync'.errors = "yes"
<1> DEFINE l == Head(sync.todo)
<1>1. /\ sync.todo # <<>> /\ place[l] = Folder("half") /\ store \in Texts \cup {"half"} /\ SkillTypeOK
  BY SkillTypes DEF SkillOK, StepInv
<1>2. l \in Locations /\ Tail(sync.todo) \in Seq(Locations)
  BY <1>1, SkillTypes, TailLocations
<1>3. PICK text \in Texts \cup {"half"} : place' = [place EXCEPT ![l].text = text]
  BY <1>1 DEF PutCopy, PutFails, SyncAt
<1> HIDE DEF l
<1>4. [place[l] EXCEPT !.text = text] = Folder(text)
  BY <1>1 DEF Folder
<1>5. place' = [place EXCEPT ![l] = Folder(text)]
  BY <1>3, <1>4
<1>6. /\ place' \in [Locations -> Place] /\ place'[l] = Folder(text)
      /\ \A k \in Locations : k # l => place'[k] = place[k]
  <2>1. Folder(text) \in Place /\ place \in [Locations -> Place]
    BY <1>1, SkillTypes, Places3 DEF Text
  <2> QED BY <1>2, <1>5, <2>1
<1>7. CASE PutCopy
  <2> DEFINE d == sync.draft
             e == [d EXCEPT !.linked[l] = "copy"]
  <2>0. d \in Manifest
    BY <1>1, SkillTypes
  <2> HIDE DEF d
  <2>1. e \in Manifest /\ e # NoManifest /\ e.linked[l] = "copy"
        /\ \A k \in Locations : k # l => e.linked[k] = d.linked[k]
    BY <1>2, <2>0, LinkedAt
  <2> USE DEF d
  <2>2. sync' = [sync EXCEPT !.pc = "link", !.todo = Tail(sync.todo), !.draft = e]
    BY <1>1, <1>7, SkillTypes DEF PutCopy, Sync, l
  <2> HIDE DEF e
  <2>3. /\ sync' \in Sync /\ sync'.pc = "link" /\ sync'.todo = Tail(sync.todo) /\ sync'.draft = e
        /\ sync'.errors = sync.errors /\ sync'.last = sync.last
    BY <1>1, <1>2, <2>1, <2>2, SkillTypes DEF Sync, SyncPCs
  <2>4. UNCHANGED <<store, manifest, symlinks, mishap>>
    BY <1>7 DEF PutCopy
  <2> QED BY <1>1, <1>2, <1>6, <2>1, <2>3, <2>4 DEF l
<1>8. CASE PutFails
  <2>1. sync' = [sync EXCEPT !.pc = "link", !.todo = Tail(sync.todo), !.errors = "yes"]
        /\ UNCHANGED <<store, manifest, symlinks, mishap>>
    BY <1>1, <1>8, SkillTypes DEF PutFails, Sync
  <2>2. /\ sync' \in Sync /\ sync'.pc = "link" /\ sync'.todo = Tail(sync.todo)
        /\ sync'.draft = sync.draft /\ sync'.errors = "yes" /\ sync'.last = sync.last
    BY <1>1, <1>2, <2>1, SkillTypes DEF Sync, SyncPCs
  <2> QED BY <1>1, <1>2, <1>6, <2>1, <2>2 DEF l
<1> QED BY <1>7, <1>8

-----------------------------------------------------------------------------
(* SkillSync: each action keeps the types and both invariants.              *)

\* What a location scans, it scans wholly: with what that scans.
Transitive == \A l \in Locations : \A k \in Scans[l] : Scans[k] \subseteq Scans[l]

(* No location loses a skill as an apply fills empty ones, and half copies. *)
LEMMA ReachGrows ==
  ASSUME SkillTypeOK,
         \/ store' = store \/ store = "none"
         \/ store = "half" /\ store' \in Texts \cup {"half"},
         \A k \in Locations : \/ place'[k] = place[k] \/ place[k].kind = "none"
                              \/ /\ place[k] = Folder("half")
                                 /\ \E text \in Texts \cup {"half"} : place'[k] = Folder(text)
  PROVE  /\ \A k \in Locations : Holds(k) => Holds(k)'
         /\ \A k \in Locations : Reached(k) => Reached(k)'
<1>1. ASSUME NEW k \in Locations
      PROVE  \/ Read(k)' = Read(k) \/ Read(k) = "none"
             \/ Read(k) = "half" /\ Read(k)' \in Texts \cup {"half"}
  <2>1. CASE place[k].kind = "none"
    BY <2>1 DEF Read
  <2>2. CASE place'[k] = place[k] /\ place[k].kind = "dir"
    BY <2>2 DEF Read
  <2>3. CASE place'[k] = place[k] /\ place[k].kind = "link"
    <3>1. Read(k) = store /\ Read(k)' = store'
      BY <2>3 DEF Read
    <3> QED BY <3>1
  <2>4. CASE /\ place[k] = Folder("half")
             /\ \E text \in Texts \cup {"half"} : place'[k] = Folder(text)
    <3>1. PICK text \in Texts \cup {"half"} : place'[k] = Folder(text)
      BY <2>4
    <3>2. Read(k) = "half" /\ Read(k)' = text
      BY <2>4, <3>1 DEF Read, Folder
    <3> QED BY <3>2
  <2> QED BY <2>1, <2>2, <2>3, <2>4, PlaceFacts
<1>2. \A k \in Locations : Holds(k) => Holds(k)'
  BY <1>1 DEF Holds
<1>3. \A l \in Locations : \A k \in {l} \cup Scans[l] : k \in Locations
  OBVIOUS
<1>4. ASSUME NEW l \in Locations, Reached(l) PROVE Reached(l)'
  <2>1. CASE \E k \in {l} \cup Scans[l] : Holds(k)
    BY <1>2, <1>3, <2>1 DEF Reached
  <2>2. CASE Read(l) \in {"nameless", "half"}
    <3>1. Read(l)' \in {"nameless", "half"} \/ Read(l)' \in Texts
      BY <1>1, <2>2
    <3>2. Read(l)' \in Texts => Holds(l)'
      BY DEF Holds
    <3> QED BY <3>1, <3>2 DEF Reached
  <2> QED BY <1>4, <2>1, <2>2 DEF Reached
<1> QED BY <1>2, <1>4

(* What does not touch the skill, nor the manifest. *)
LEMMA ReachSame ==
  ASSUME store' = store, place' = place
  PROVE  /\ \A k : Holds(k)' = Holds(k)
         /\ \A k : Reached(k)' = Reached(k)
BY DEF Holds, Read, Reached

Keeps == /\ SkillOK'
         /\ LinkInv => LinkInv'
         /\ Transitive /\ ReachInv => ReachInv'

(* The canonical copy, made or not, before the locations' turn. *)
LEMMA CanonDoes ==
  ASSUME SkillOK, Canon \/ CanonCopy \/ CanonFails
  PROVE  /\ sync.pc \in {"canon", "copy"} /\ sync.win \in Texts
         /\ sync' \in Sync /\ sync'.todo = sync.todo /\ sync'.last = sync.last
         /\ sync'.draft.linked = sync.draft.linked
         /\ UNCHANGED <<place, manifest, symlinks>> /\ mishap'.links = mishap.links
         /\ mishap' \in Mishap
         /\ \/ /\ sync'.pc = "copy" /\ store = "none" /\ store' = "half" /\ sync'.win = sync.win
               /\ sync'.errors = sync.errors /\ UNCHANGED mishap
            \/ /\ sync'.pc = "link" /\ sync'.draft # NoManifest /\ sync'.errors = sync.errors
               /\ store' # "none" /\ UNCHANGED mishap
               /\ store' = store \/ (store = "half" /\ store' \in Texts)
            \/ /\ sync'.pc = "link" /\ sync'.errors = "yes" /\ store' \in {store, sync.win}
               /\ store' = "none" \/ mishap'.store = "yes"
<1> DEFINE draft == [sha |-> sync.win, linked |-> sync.draft.linked]
<1>0. /\ SkillTypeOK /\ sync \in Sync /\ sync.win \in Texts \cup {"none"}
      /\ sync.pc \in {"canon", "copy"} /\ sync.win \in Texts
  <2>1. sync.pc \in {"canon", "copy"}
    BY DEF Canon, CanonCopy, CanonFails, SyncAt
  <2> QED BY <2>1, SkillTypes DEF Sync, SkillOK, StepInv
<1>1. sync.draft.linked \in [Locations -> {"no", "symlink", "copy"}]
      /\ sync.draft = [sha |-> sync.draft.sha, linked |-> sync.draft.linked]
  BY <1>0, SkillTypes DEF Manifest
<1>2. draft \in Manifest /\ draft # NoManifest /\ draft.linked = sync.draft.linked
  <2>1. draft.sha # NoManifest.sha
    BY <1>0 DEF NoManifest
  <2> QED BY <1>0, <1>1, <2>1 DEF Manifest
<1>3. mishap \in Mishap /\ mishap = [links |-> mishap.links, store |-> mishap.store]
  BY <1>0, SkillTypes DEF SkillTypeOK
<1>4. ASSUME sync' = [sync EXCEPT !.pc = "link", !.win = "none", !.draft.sha = sync.win]
      PROVE  /\ sync' \in Sync /\ sync'.todo = sync.todo /\ sync'.last = sync.last
             /\ sync'.draft.linked = sync.draft.linked /\ sync'.draft # NoManifest
             /\ sync'.pc = "link" /\ sync'.errors = sync.errors
  <2>1. [sync.draft EXCEPT !.sha = sync.win] = draft
    BY <1>1
  <2>2. sync' = [sync EXCEPT !.pc = "link", !.win = "none", !.draft = [sync.draft EXCEPT !.sha = sync.win]]
    BY <1>0, <1>4 DEF Sync
  <2>3. sync' = [sync EXCEPT !.pc = "link", !.win = "none", !.draft = draft]
    BY <2>1, <2>2
  <2> HIDE DEF draft
  <2> QED BY <1>0, <1>2, <2>3 DEF Sync, SyncPCs
<1>5. CASE Canon /\ store = "none"
  <2>1. /\ store' = "half" /\ sync' = [sync EXCEPT !.pc = "copy"]
        /\ UNCHANGED <<place, manifest, symlinks, mishap>>
    BY <1>5 DEF Canon
  <2>2. /\ sync' \in Sync /\ sync'.todo = sync.todo /\ sync'.last = sync.last
        /\ sync'.draft = sync.draft /\ sync'.pc = "copy" /\ sync'.win = sync.win
        /\ sync'.errors = sync.errors
    BY <1>0, <2>1 DEF Sync, SyncPCs
  <2> QED BY <1>0, <1>3, <1>5, <2>1, <2>2
<1>6. CASE Canon /\ store # "none"
  <2>1. /\ sync' = [sync EXCEPT !.pc = "link", !.win = "none", !.draft.sha = sync.win]
        /\ UNCHANGED <<place, store, manifest, symlinks, mishap>>
    BY <1>6 DEF Canon
  <2> QED BY <1>0, <1>3, <1>4, <1>6, <2>1
<1>7. CASE CanonCopy
  <2>1. /\ sync' = [sync EXCEPT !.pc = "link", !.win = "none", !.draft.sha = sync.win]
        /\ store' = sync.win /\ SyncAt("copy") /\ UNCHANGED <<place, manifest, symlinks, mishap>>
    BY <1>7 DEF CanonCopy
  <2>2. store = "half" /\ store' \in Texts /\ store' # "none"
    BY <1>0, <2>1 DEF SkillOK, StepInv
  <2> QED BY <1>0, <1>3, <1>4, <2>1, <2>2
<1>8. CASE CanonFails
  <2>1. sync' = [sync EXCEPT !.pc = "link", !.win = "none", !.errors = "yes"]
        /\ UNCHANGED <<place, manifest, symlinks>>
    BY <1>8 DEF CanonFails
  <2>2. /\ sync' \in Sync /\ sync'.todo = sync.todo /\ sync'.last = sync.last
        /\ sync'.draft = sync.draft /\ sync'.pc = "link" /\ sync'.errors = "yes"
    BY <1>0, <2>1 DEF Sync, SyncPCs
  <2>3. \/ store = "none" /\ UNCHANGED <<store, mishap>>
        \/ store' \in {store, sync.win} /\ mishap' = [mishap EXCEPT !.store = "yes"]
    BY <1>8 DEF CanonFails
  <2>4. /\ mishap' \in Mishap /\ mishap'.links = mishap.links
        /\ store' \in {store, sync.win} /\ (store' = "none" \/ mishap'.store = "yes")
    BY <1>3, <2>3 DEF Mishap
  <2> QED BY <1>0, <2>1, <2>2, <2>4
<1> QED BY <1>5, <1>6, <1>7, <1>8

LEMMA CanonKeeps ==
  ASSUME SkillOK, Canon \/ CanonCopy \/ CanonFails
  PROVE  Keeps
<1>1. /\ sync.pc \in {"canon", "copy"} /\ sync.win \in Texts
      /\ sync' \in Sync /\ sync'.todo = sync.todo /\ sync'.last = sync.last
      /\ sync'.draft.linked = sync.draft.linked
      /\ UNCHANGED <<place, manifest, symlinks>> /\ mishap'.links = mishap.links
      /\ mishap' \in Mishap
  BY CanonDoes
<1>2. \/ /\ sync'.pc = "copy" /\ store = "none" /\ store' = "half" /\ sync'.win = sync.win
         /\ sync'.errors = sync.errors /\ UNCHANGED mishap
      \/ /\ sync'.pc = "link" /\ sync'.draft # NoManifest /\ sync'.errors = sync.errors
         /\ store' # "none" /\ UNCHANGED mishap
         /\ store' = store \/ (store = "half" /\ store' \in Texts)
      \/ /\ sync'.pc = "link" /\ sync'.errors = "yes" /\ store' \in {store, sync.win}
         /\ store' = "none" \/ mishap'.store = "yes"
  BY CanonDoes
<1>3. SkillTypeOK /\ store' \in Texts \cup {"none", "half"} /\ sync'.pc \in {"copy", "link"}
  BY <1>1, <1>2, SkillTypes DEF SkillOK
<1>4. SkillOK'
  <2>1. SkillTypeOK'
    BY <1>1, <1>3, SkillTypes DEF SkillTypeOK
  <2>2. StepInv'
    BY <1>1, <1>2, <1>3 DEF StepInv, SyncAt
  <2> QED BY <2>1, <2>2 DEF SkillOK
<1>5. ASSUME LinkInv PROVE LinkInv'
  <2>1. sync'.last # "reverted"
    BY <1>1, <1>5 DEF LinkInv, SyncAt
  <2>2. \A l \in Locations : place'[l].kind = "link" /\ l \notin mishap'.links => sync'.draft.linked[l] # "no"
    BY <1>1, <1>5 DEF LinkInv, Syncing
  <2>3. store' # "none" /\ mishap'.store = "no" => sync'.pc = "copy" \/ sync'.draft # NoManifest
    BY <1>2
  <2> QED BY <1>3, <2>1, <2>2, <2>3 DEF LinkInv, SyncAt
<1>6. ASSUME ReachInv PROVE ReachInv'
  <2>1. sync'.last # "applied"
    BY <1>1, <1>6 DEF ReachInv, SyncAt
  <2>2. ASSUME sync'.errors = "no"
        PROVE  /\ sync.errors = "no" /\ (sync'.pc = "link" => store' # "none")
               /\ store' = store \/ store = "none" \/ (store = "half" /\ store' \in Texts \cup {"half"})
    BY <1>2, <2>2
  <2>3. sync'.errors = "no" => \A l \in Locations : l \in ToSet(sync'.todo) \/ Reached(l)'
    <3> SUFFICES ASSUME sync'.errors = "no"
                 PROVE  \A l \in Locations : l \in ToSet(sync'.todo) \/ Reached(l)'
      OBVIOUS
    <3>1. \A k \in Locations : Reached(k) => Reached(k)'
      <4>1. store' = store \/ store = "none" \/ (store = "half" /\ store' \in Texts \cup {"half"})
        BY <2>2
      <4>2. \A k \in Locations : place'[k] = place[k]
        BY <1>1
      <4> QED BY <1>3, <4>1, <4>2, ReachGrows
    <3>2. \A l \in Locations : l \in ToSet(sync.todo) \/ Reached(l)
      BY <1>1, <1>6, <2>2 DEF ReachInv
    <3> QED BY <1>1, <3>1, <3>2
  <2> QED BY <1>3, <2>1, <2>2, <2>3 DEF ReachInv, SyncAt
<1> QED BY <1>4, <1>5, <1>6 DEF Keeps

LEMMA PutKeeps ==
  ASSUME SkillOK, PutLink
  PROVE  Keeps
<1>0. SkillTypeOK
  BY DEF SkillOK
<1>1. PICK l \in Locations : l = Head(sync.todo)
  BY <1>0, PutLinkDoes
<1>2. /\ SyncAt("link") /\ sync.todo # <<>> /\ UNCHANGED <<store, manifest, symlinks, mishap>>
  BY DEF PutLink
<1>3. /\ sync' \in Sync /\ sync'.last = sync.last /\ place' \in [Locations -> Place]
      /\ \A k \in Locations : k # l => /\ place'[k] = place[k]
                                      /\ sync'.draft.linked[k] = sync.draft.linked[k]
      /\ \/ /\ place[l].kind = "none" /\ store # "none" /\ place'[l] = Folder("half")
            /\ sync'.pc = "fill" /\ sync'.todo = sync.todo /\ sync'.draft = sync.draft
            /\ sync'.errors = sync.errors
         \/ /\ sync'.pc = "link" /\ sync'.todo = Tail(sync.todo)
            /\ \/ /\ place[l].kind # "none" /\ place' = place /\ sync'.draft = sync.draft
                  /\ sync'.errors = sync.errors
               \/ /\ place[l].kind = "none" /\ place'[l] = Link /\ sync'.draft # NoManifest
                  /\ sync'.draft.linked[l] = "symlink" /\ sync'.errors = sync.errors
               \/ sync'.errors = "yes" /\ place' = place /\ sync'.draft = sync.draft
  BY <1>0, <1>1, PutLinkDoes
<1>4. sync'.pc \in {"link", "fill"}
  BY <1>3
<1>5. SkillOK'
  <2>1. SkillTypeOK'
    BY <1>0, <1>2, <1>3, SkillTypes DEF SkillTypeOK
  <2>2. StepInv'
    BY <1>1, <1>2, <1>3 DEF StepInv, SyncAt
  <2> QED BY <2>1, <2>2 DEF SkillOK
<1>6. ASSUME LinkInv PROVE LinkInv'
  <2>1. ASSUME NEW k \in Locations, place'[k].kind = "link", k \notin mishap'.links
        PROVE  sync'.draft.linked[k] # "no"
    <3>1. place[k].kind = "link" => sync.draft.linked[k] # "no"
      BY <1>2, <1>6, <2>1 DEF LinkInv, SyncAt, Syncing
    <3>2. CASE k # l
      BY <1>3, <2>1, <3>1, <3>2
    <3>3. CASE k = l
      BY <1>3, <2>1, <3>1, <3>3 DEF Folder
    <3> QED BY <3>2, <3>3
  <2>2. sync'.last # "reverted"
    BY <1>2, <1>3, <1>6 DEF LinkInv, SyncAt
  <2>3. store' # "none" /\ mishap'.store = "no" => sync'.draft # NoManifest
    <3>1. store # "none" /\ mishap.store = "no" => sync.draft # NoManifest
      BY <1>2, <1>6 DEF LinkInv, SyncAt, Syncing
    <3> QED BY <1>2, <1>3, <3>1
  <2> QED BY <1>4, <2>1, <2>2, <2>3 DEF LinkInv, SyncAt
<1>7. ASSUME ReachInv PROVE ReachInv'
  <2>1. sync'.last # "applied"
    BY <1>2, <1>3, <1>7 DEF ReachInv, SyncAt
  <2>2. \A k \in Locations : Reached(k) => Reached(k)'
    <3>1. \A k \in Locations : place'[k] = place[k] \/ place[k].kind = "none"
      BY <1>3
    <3>2. store' = store
      BY <1>2
    <3> QED BY <1>0, <3>1, <3>2, ReachGrows
  <2>3. ASSUME sync'.errors = "no"
        PROVE  store' # "none" /\ \A k \in Locations : k \in ToSet(sync'.todo) \/ Reached(k)'
    <3>1. sync.errors = "no"
      BY <1>3, <2>3
    <3>2. store # "none" /\ \A k \in Locations : k \in ToSet(sync.todo) \/ Reached(k)
      BY <1>2, <1>7, <3>1 DEF ReachInv, SyncAt
    <3>3. CASE sync'.todo = sync.todo
      BY <1>2, <2>2, <3>2, <3>3
    <3>4. CASE sync'.todo # sync.todo
      <4>1. /\ sync'.todo = Tail(sync.todo)
            /\ \/ place[l].kind # "none" /\ place' = place
               \/ place[l].kind = "none" /\ place'[l] = Link
        BY <1>3, <2>3, <3>4
      <4>2. Read(l)' \in Text \cup {"half"}
        <5>1. CASE place[l].kind = "dir"
          <6>1. Read(l)' = place[l].text
            BY <4>1, <5>1 DEF Read
          <6> QED BY <1>0, <5>1, <6>1, PlaceFacts
        <5>2. CASE place'[l].kind = "link"
          <6>1. Read(l)' = store'
            BY <5>2 DEF Read
          <6> QED BY <1>0, <1>2, <3>2, <6>1, SkillTypes DEF Text
        <5> QED BY <1>0, <4>1, <5>1, <5>2, PlaceFacts, Places3
      <4>3. Reached(l)'
        BY <4>2 DEF Reached, Holds, Text
      <4>4. \A k \in ToSet(sync.todo) : k = l \/ k \in ToSet(Tail(sync.todo))
        BY <1>0, <1>1, <1>2, SkillTypes, TailLocations
      <4>5. ASSUME NEW k \in Locations PROVE k \in ToSet(sync'.todo) \/ Reached(k)'
        BY <2>2, <3>2, <4>1, <4>3, <4>4
      <4> QED BY <1>2, <3>2, <4>5
    <3> QED BY <3>3, <3>4
  <2> QED BY <1>4, <2>1, <2>3 DEF ReachInv, SyncAt
<1> QED BY <1>5, <1>6, <1>7 DEF Keeps

LEMMA FillKeeps ==
  ASSUME SkillOK, SyncAt("fill"), PutCopy \/ PutFails
  PROVE  Keeps
<1>0. SkillTypeOK /\ sync.todo # <<>> /\ sync.pc = "fill"
  BY DEF SkillOK, StepInv, SyncAt
<1>1. PICK l \in Locations : l = Head(sync.todo)
  BY FillDoes
<1>2. /\ sync' \in Sync /\ sync'.last = sync.last
      /\ sync'.pc = "link" /\ sync'.todo = Tail(sync.todo)
      /\ place' \in [Locations -> Place]
      /\ place[l] = Folder("half") /\ \E text \in Texts \cup {"half"} : place'[l] = Folder(text)
      /\ \A k \in Locations : k # l => /\ place'[k] = place[k]
                                      /\ sync'.draft.linked[k] = sync.draft.linked[k]
      /\ sync'.draft.linked[l] = "no" => sync.draft.linked[l] = "no"
      /\ sync.draft # NoManifest => sync'.draft # NoManifest
      /\ UNCHANGED <<store, manifest, symlinks, mishap>>
      /\ sync'.errors = sync.errors \/ sync'.errors = "yes"
  BY <1>1, FillDoes
<1>3. SkillOK'
  <2>1. SkillTypeOK'
    BY <1>0, <1>2, SkillTypes DEF SkillTypeOK
  <2>2. StepInv'
    BY <1>2 DEF StepInv, SyncAt
  <2> QED BY <2>1, <2>2 DEF SkillOK
<1>4. PICK text \in Texts \cup {"half"} : place'[l] = Folder(text)
  BY <1>2
<1>5. ASSUME LinkInv PROVE LinkInv'
  <2>1. place'[l].kind # "link"
    BY <1>4 DEF Folder
  <2>2. \A k \in Locations : place'[k].kind = "link" /\ k \notin mishap'.links => sync'.draft.linked[k] # "no"
    BY <1>0, <1>2, <1>5, <2>1 DEF LinkInv, Syncing
  <2>3. store' # "none" /\ mishap'.store = "no" => sync'.draft # NoManifest
    BY <1>0, <1>2, <1>5 DEF LinkInv, Syncing, SyncAt
  <2>4. sync'.last # "reverted"
    BY <1>0, <1>2, <1>5 DEF LinkInv, SyncAt
  <2> QED BY <1>2, <2>2, <2>3, <2>4 DEF LinkInv, SyncAt
<1>6. ASSUME ReachInv PROVE ReachInv'
  <2>1. sync'.last # "applied"
    BY <1>0, <1>2, <1>6 DEF ReachInv, SyncAt
  <2>2. \A k \in Locations : Reached(k) => Reached(k)'
    <3>1. \A k \in Locations : \/ place'[k] = place[k]
                               \/ /\ place[k] = Folder("half")
                                  /\ \E t \in Texts \cup {"half"} : place'[k] = Folder(t)
      BY <1>2
    <3>2. store' = store
      BY <1>2
    <3> QED BY <1>0, <3>1, <3>2, ReachGrows
  <2>3. Reached(l)'
    <3>1. Read(l)' = text
      BY <1>4 DEF Read, Folder
    <3> QED BY <3>1 DEF Reached, Holds
  <2>4. ASSUME sync'.errors = "no"
        PROVE  store' # "none" /\ \A k \in Locations : k \in ToSet(sync'.todo) \/ Reached(k)'
    <3>1. sync.errors = "no"
      BY <1>2, <2>4
    <3>2. store # "none" /\ \A k \in Locations : k \in ToSet(sync.todo) \/ Reached(k)
      BY <1>0, <1>6, <3>1 DEF ReachInv
    <3>3. \A k \in ToSet(sync.todo) : k = l \/ k \in ToSet(Tail(sync.todo))
      BY <1>0, <1>1, SkillTypes, TailLocations
    <3>4. ASSUME NEW k \in Locations PROVE k \in ToSet(sync'.todo) \/ Reached(k)'
      BY <1>2, <2>2, <2>3, <3>2, <3>3
    <3> QED BY <1>2, <3>2, <3>4
  <2> QED BY <1>2, <2>1, <2>4 DEF ReachInv, SyncAt
<1> QED BY <1>3, <1>5, <1>6 DEF Keeps

(* With whole scans, the closure of a location is what it scans itself. *)
LEMMA ClosureIsScans ==
  ASSUME Transitive, NEW l \in Locations
  PROVE  Closure[l] \subseteq {l} \cup Scans[l]
<1> DEFINE N == Len(Rows)
           V == SUBSET ({l} \cup Scans[l])
           F == [n \in 1..N |-> [A \in V |-> A \cup UNION {Scans[k] : k \in A}]]
           G(f) == [n \in 0..N |-> IF n = 0 THEN {l} ELSE f[n - 1] \cup UNION {Scans[k] : k \in f[n - 1]}]
<1>1. N \in Nat /\ {l} \in V
  BY RowsListed
<1>2. F \in [1..N -> [V -> V]]
  <2>1. \A A \in V : A \cup UNION {Scans[k] : k \in A} \in V
    BY DEF Transitive
  <2> HIDE DEF V, N
  <2> QED BY <2>1
<1>3. PICK f \in [0..N -> V] : Solves(f, N, {l}, F)
  <2> HIDE DEF V, F, N
  <2> QED BY <1>1, <1>2, Recursion
<1>4. f = G(f)
  <2> HIDE DEF V, N
  <2>1. \A n \in 0..N : n # 0 => n \in 1..N /\ n - 1 \in 0..N
    BY <1>1
  <2> QED BY <2>1, <1>3 DEF Solves
<1> DEFINE g == CHOOSE h : h = G(h)
<1>5. g = G(g)
  <2> HIDE DEF G
  <2> QED BY <1>4
<1>6. Closure[l] = g[N]
  BY DEF Closure
<1> HIDE DEF g
<1>7. \A n \in 0..N : g[n] \in V
  <2> DEFINE P == {n \in 0..N : g[n] \in V}
  <2>1. 0 \in P
    <3> HIDE DEF N, V
    <3>1. g[0] = {l}
      BY <1>1, <1>5
    <3>2. g[0] \in V
      BY <3>1, <1>1
    <3>3. 0 \in 0..N
      BY <1>1
    <3> QED BY <3>2, <3>3
  <2>2. ASSUME NEW n \in 1..N, n - 1 \in P PROVE n \in P
    <3>1. g[n] = g[n - 1] \cup UNION {Scans[k] : k \in g[n - 1]}
      <4> HIDE DEF N, V
      <4>1. n \in 0..N /\ n # 0
        BY <1>1
      <4> QED BY <4>1, <1>5
    <3>2. g[n] \in V
      BY <2>2, <3>1 DEF Transitive
    <3> HIDE DEF V
    <3> QED BY <3>2, <1>1
  <2> HIDE DEF P
  <2>3. 0..N \subseteq P
    BY <2>1, <2>2, <1>1, BoundedInduction
  <2> QED BY <2>3 DEF P
<1> QED BY <1>1, <1>6, <1>7

LEMMA ApplyKeeps ==
  ASSUME SkillOK, Apply
  PROVE  Keeps
<1>0. SkillTypeOK
  BY DEF SkillOK
<1>1. SyncAt("idle") /\ UNCHANGED <<place, store, manifest, symlinks, mishap>>
  BY DEF Apply
<1>2. /\ sync' \in Sync /\ sync'.draft = manifest /\ sync'.last = "none"
      /\ \/ /\ sync'.pc = "save" /\ ~\E l \in Locations : Holds(l)
         \/ /\ sync'.pc = "canon" /\ sync'.win \in Texts
            /\ \A l \in Locations : ~Sees(l) => l \in ToSet(sync'.todo)
  BY <1>0, ApplyPlans
<1>3. SkillOK'
  <2>1. SkillTypeOK'
    BY <1>0, <1>1, <1>2, SkillTypes DEF SkillTypeOK
  <2>2. StepInv'
    BY <1>2 DEF StepInv, SyncAt
  <2> QED BY <2>1, <2>2 DEF SkillOK
<1>4. ASSUME LinkInv PROVE LinkInv'
  <2>1. sync'.pc \in {"save", "canon"}
    BY <1>2
  <2> QED BY <1>1, <1>2, <1>4, <2>1 DEF LinkInv, SyncAt
<1>5. ASSUME Transitive, ReachInv PROVE ReachInv'
  <2>1. \A l \in Locations : Sees(l) => Reached(l)
    BY <1>5, ClosureIsScans DEF Sees, Reached
  <2>2. /\ \A k : Holds(k)' = Holds(k)
        /\ \A k : Reached(k)' = Reached(k)
    BY <1>1, ReachSame
  <2>3. CASE sync'.pc = "save" /\ ~\E l \in Locations : Holds(l)
    BY <1>2, <2>2, <2>3 DEF ReachInv, SyncAt
  <2>4. CASE /\ sync'.pc = "canon" /\ sync'.win \in Texts
             /\ \A l \in Locations : ~Sees(l) => l \in ToSet(sync'.todo)
    <3>1. \A l \in Locations : l \in ToSet(sync'.todo) \/ Reached(l)'
      BY <2>1, <2>2, <2>4
    <3> QED BY <1>2, <2>4, <3>1 DEF ReachInv, SyncAt
  <2> QED BY <1>2, <2>3, <2>4
<1> QED BY <1>3, <1>4, <1>5 DEF Keeps

(* The rest of an apply. *)
LEMMA PutFailsKeeps ==
  ASSUME SkillOK, SyncAt("link"), PutFails \/ PutDone
  PROVE  Keeps
<1>0. SkillTypeOK /\ sync.pc = "link"
  BY DEF SkillOK, SyncAt
<1>1. /\ UNCHANGED <<place, store, manifest, symlinks, mishap>>
      /\ sync'.draft = sync.draft /\ sync'.last = sync.last
      /\ \/ sync'.pc = "link" /\ sync'.errors = "yes"
         \/ sync'.pc = "save" /\ sync'.errors = sync.errors /\ sync.todo = <<>>
  BY <1>0, SkillTypes DEF PutFails, PutDone, Sync, SyncAt
<1>2. sync' \in Sync
  <2>1. CASE PutFails
    <3>1. Tail(sync.todo) \in Seq(Locations)
      BY <1>0, <2>1, SkillTypes, TailLocations DEF PutFails
    <3> QED BY <1>0, <2>1, <3>1, SkillTypes DEF PutFails, Sync, SyncPCs
  <2>2. CASE PutDone
    BY <1>0, <2>2, SkillTypes DEF PutDone, Sync, SyncPCs
  <2> QED BY <2>1, <2>2
<1>3. SkillOK'
  <2>1. SkillTypeOK'
    BY <1>0, <1>1, <1>2, SkillTypes DEF SkillTypeOK
  <2>2. StepInv'
    BY <1>1 DEF StepInv, SyncAt
  <2> QED BY <2>1, <2>2 DEF SkillOK
<1>4. ASSUME LinkInv PROVE LinkInv'
  <2>1. sync'.pc \in {"link", "save"}
    BY <1>1
  <2> QED BY <1>0, <1>1, <1>4, <2>1 DEF LinkInv, SyncAt, Syncing
<1>5. ASSUME ReachInv PROVE ReachInv'
  <2>1. /\ \A k : Holds(k)' = Holds(k)
        /\ \A k : Reached(k)' = Reached(k)
    BY <1>1, ReachSame
  <2>2. sync'.last # "applied"
    BY <1>0, <1>1, <1>5 DEF ReachInv, SyncAt
  <2>3. CASE sync'.pc = "link" /\ sync'.errors = "yes"
    BY <2>2, <2>3 DEF ReachInv, SyncAt
  <2>4. CASE sync'.pc = "save" /\ sync'.errors = sync.errors /\ sync.todo = <<>>
    <3>1. ToSet(sync.todo) = {}
      BY <2>4 DEF ToSet
    <3>2. sync.errors = "no" => \A l \in Locations : Reached(l)
      BY <1>0, <1>5, <3>1 DEF ReachInv
    <3> QED BY <2>1, <2>2, <2>4, <3>2 DEF ReachInv, SyncAt
  <2> QED BY <1>1, <2>3, <2>4
<1> QED BY <1>3, <1>4, <1>5 DEF Keeps

LEMMA SaveKeeps ==
  ASSUME SkillOK, Save
  PROVE  Keeps
<1>0. SkillTypeOK
  BY DEF SkillOK
<1>1. /\ SyncAt("save") /\ UNCHANGED <<place, store, symlinks>> /\ manifest' = sync.draft
      /\ mishap' = [mishap EXCEPT !.store = IF sync.draft = NoManifest THEN @ ELSE "no"]
      /\ sync' = [NoSync EXCEPT !.last = IF sync.errors = "yes" THEN "none" ELSE "applied"]
  BY DEF Save, End
<1>2. /\ sync' \in Sync /\ sync'.pc = "idle" /\ sync'.last \in {"none", "applied"}
      /\ sync'.last = "applied" => sync.errors = "no"
  BY <1>0, <1>1, SkillTypes DEF Sync, NoSync
<1>3. /\ mishap' \in Mishap /\ mishap'.links = mishap.links
      /\ sync.draft = NoManifest => mishap'.store = mishap.store
  BY <1>0, <1>1, SkillTypes DEF Mishap
<1>4. SkillOK'
  <2>1. SkillTypeOK'
    BY <1>0, <1>1, <1>2, <1>3, SkillTypes DEF SkillTypeOK
  <2>2. StepInv'
    BY <1>2 DEF StepInv, SyncAt
  <2> QED BY <2>1, <2>2 DEF SkillOK
<1>5. ASSUME LinkInv PROVE LinkInv'
  <2>1. \A l \in Locations : place'[l].kind = "link" /\ l \notin mishap'.links => manifest'.linked[l] # "no"
    BY <1>1, <1>3, <1>5 DEF LinkInv, SyncAt, Syncing
  <2>2. store' # "none" /\ mishap'.store = "no" => manifest' # NoManifest
    BY <1>1, <1>3, <1>5 DEF LinkInv, SyncAt, Syncing
  <2> QED BY <1>2, <2>1, <2>2 DEF LinkInv, SyncAt, Syncing
<1>6. ASSUME ReachInv PROVE ReachInv'
  BY <1>1, <1>2, <1>6, ReachSame DEF ReachInv, SyncAt
<1> QED BY <1>4, <1>5, <1>6 DEF Keeps

(* A revert. *)
LEMMA RevertKeeps ==
  ASSUME SkillOK, Revert
  PROVE  Keeps
<1>0. SkillTypeOK
  BY DEF SkillOK
<1> DEFINE todo == Select(Rows, {l \in Locations : manifest.linked[l] # "no"})
<1>1. /\ SyncAt("idle") /\ UNCHANGED <<place, store, manifest, symlinks, mishap>>
      /\ sync' = [sync EXCEPT !.pc = "unlink", !.last = "none", !.todo = todo]
  BY DEF Revert
<1>2. todo \in Seq(Locations) /\ ToSet(todo) = {l \in Locations : manifest.linked[l] # "no"}
  <2>1. {l \in Locations : manifest.linked[l] # "no"} \in SUBSET Locations
    OBVIOUS
  <2> QED BY <2>1, ChosenRows
<1> HIDE DEF todo
<1>3. sync' \in Sync /\ sync'.pc = "unlink" /\ sync'.last = "none" /\ sync'.todo = todo
  BY <1>0, <1>1, <1>2, SkillTypes DEF Sync, SyncPCs
<1>4. SkillOK'
  <2>1. SkillTypeOK'
    BY <1>0, <1>1, <1>3, SkillTypes DEF SkillTypeOK
  <2>2. StepInv'
    BY <1>3 DEF StepInv, SyncAt
  <2> QED BY <2>1, <2>2 DEF SkillOK
<1>5. ASSUME LinkInv PROVE LinkInv'
  BY <1>1, <1>2, <1>3, <1>5 DEF LinkInv, SyncAt, Syncing
<1>6. ReachInv'
  BY <1>3 DEF ReachInv, SyncAt
<1> QED BY <1>4, <1>5, <1>6 DEF Keeps

(* One entry less to undo: what is still a link there is on record as stuck. *)
LEMMA UnlinkKeeps ==
  ASSUME SkillOK, Unlink \/ UnlinkFails, sync.todo # <<>>
  PROVE  Keeps
<1>0. SkillTypeOK
  BY DEF SkillOK
<1> DEFINE l == Head(sync.todo)
<1>1. SyncAt("unlink") /\ UNCHANGED <<store, manifest, symlinks>> /\ sync' = [sync EXCEPT !.todo = Tail(@)]
  BY DEF Unlink, UnlinkFails
<1>2. /\ l \in Locations /\ Tail(sync.todo) \in Seq(Locations)
      /\ \A k \in ToSet(sync.todo) : k = l \/ k \in ToSet(Tail(sync.todo))
  BY <1>0, SkillTypes, TailLocations
<1>3. \/ place' = [place EXCEPT ![l] = Nothing] /\ mishap' = [mishap EXCEPT !.links = @ \ {l}]
      \/ place[l].kind # "link" /\ UNCHANGED <<place, mishap>>
      \/ UNCHANGED place /\ mishap' = [mishap EXCEPT !.links = @ \cup {l}]
      \/ place' = [place EXCEPT ![l] = Folder("half")] /\ UNCHANGED mishap
  <2>1. CASE Unlink
    <3>1. place[l].kind = "link" => Ours(l)
      BY DEF Ours
    <3> QED BY <2>1, <3>1 DEF Unlink
  <2>2. CASE UnlinkFails
    <3>1. \/ UNCHANGED place /\ mishap' = [mishap EXCEPT !.links = @ \cup {l}]
          \/ /\ place[l].kind = "dir" /\ UNCHANGED mishap
             /\ place' \in {place, [place EXCEPT ![l] = Folder("half")]}
      BY <2>2 DEF UnlinkFails
    <3> QED BY <3>1
  <2> QED BY <2>1, <2>2
<1> HIDE DEF l
<1>4. /\ sync' \in Sync /\ sync'.pc = "unlink" /\ sync'.last = sync.last
      /\ sync'.todo = Tail(sync.todo)
  BY <1>0, <1>1, <1>2, SkillTypes DEF Sync, SyncAt
<1>5. /\ place' \in [Locations -> Place]
      /\ mishap' \in Mishap /\ mishap'.store = mishap.store
      /\ \A k \in Locations : place'[k].kind = "link" /\ k \notin mishap'.links =>
           place[k].kind = "link" /\ k # l /\ k \notin mishap.links
  <2>1. Folder("half") \in Place /\ Folder("half").kind = "dir"
    BY Places3
  <2>2. CASE place' = [place EXCEPT ![l] = Nothing] /\ mishap' = [mishap EXCEPT !.links = @ \ {l}]
    <3>1. /\ place' \in [Locations -> Place] /\ place'[l].kind = "none"
          /\ \A k \in Locations : k # l => place'[k] = place[k]
      BY <1>0, <1>2, <2>2, SkillTypes, Places3
    <3>2. mishap' = [links |-> mishap.links \ {l}, store |-> mishap.store]
      BY <1>0, <2>2, SkillTypes
    <3> QED BY <1>0, <3>1, <3>2, SkillTypes DEF Mishap
  <2>3. CASE place[l].kind # "link" /\ UNCHANGED <<place, mishap>>
    BY <1>0, <2>3, SkillTypes DEF SkillTypeOK
  <2>4. CASE UNCHANGED place /\ mishap' = [mishap EXCEPT !.links = @ \cup {l}]
    <3>1. mishap' = [links |-> mishap.links \cup {l}, store |-> mishap.store]
      BY <1>0, <2>4, SkillTypes
    <3> QED BY <1>0, <1>2, <2>4, <3>1, SkillTypes DEF Mishap
  <2>5. CASE place' = [place EXCEPT ![l] = Folder("half")] /\ UNCHANGED mishap
    <3>1. /\ place' \in [Locations -> Place] /\ place'[l].kind = "dir"
          /\ \A k \in Locations : k # l => place'[k] = place[k]
      BY <1>0, <1>2, <2>1, <2>5, SkillTypes
    <3> QED BY <1>0, <2>5, <3>1 DEF SkillTypeOK
  <2> QED BY <1>3, <2>2, <2>3, <2>4, <2>5
<1>6. SkillOK'
  <2>1. SkillTypeOK'
    BY <1>0, <1>1, <1>4, <1>5, SkillTypes DEF SkillTypeOK
  <2>2. StepInv'
    BY <1>4 DEF StepInv, SyncAt
  <2> QED BY <2>1, <2>2 DEF SkillOK
<1>7. ASSUME LinkInv PROVE LinkInv'
  <2>1. \A k \in Locations : place'[k].kind = "link" /\ k \notin mishap'.links =>
          k \in ToSet(sync'.todo) /\ manifest'.linked[k] # "no" /\ sync'.last # "reverted"
    BY <1>1, <1>2, <1>4, <1>5, <1>7 DEF LinkInv, SyncAt
  <2>2. store' # "none" /\ mishap'.store = "no" => manifest' # NoManifest /\ sync'.last # "reverted"
    BY <1>1, <1>4, <1>5, <1>7 DEF LinkInv, SyncAt
  <2>3. sync'.last # "reverted"
    BY <1>1, <1>4, <1>7 DEF LinkInv, SyncAt
  <2> QED BY <1>4, <2>1, <2>2, <2>3 DEF LinkInv, SyncAt, Syncing
<1>8. ASSUME ReachInv PROVE ReachInv'
  BY <1>1, <1>4, <1>8 DEF ReachInv, SyncAt
<1> QED BY <1>6, <1>7, <1>8 DEF Keeps

(* All entries are undone, then the canonical copy. *)
LEMMA EmptyKeeps ==
  ASSUME SkillOK, (Unlink /\ sync.todo = <<>>) \/ Empty \/ EmptyFails
  PROVE  Keeps
<1>0. SkillTypeOK
  BY DEF SkillOK
<1>1. /\ UNCHANGED <<place, manifest, symlinks>> /\ mishap'.links = mishap.links /\ mishap' \in Mishap
      /\ \/ /\ SyncAt("unlink") /\ sync.todo = <<>> /\ sync' = [sync EXCEPT !.pc = "empty"]
            /\ UNCHANGED <<store, mishap>>
         \/ /\ SyncAt("empty") /\ sync' = [sync EXCEPT !.pc = "forget"]
            /\ store' \in Texts \cup {"none", "half"}
            /\ \/ manifest = NoManifest /\ UNCHANGED <<store, mishap>>
               \/ store' = "none"
               \/ mishap'.store = "yes"
  <2>1. mishap \in Mishap /\ mishap = [links |-> mishap.links, store |-> mishap.store]
    BY <1>0, SkillTypes DEF SkillTypeOK
  <2>2. \A s \in {"no", "yes"} :
          LET m == [mishap EXCEPT !.store = s] IN m.links = mishap.links /\ m.store = s /\ m \in Mishap
    BY <2>1 DEF Mishap
  <2>3. CASE Unlink /\ sync.todo = <<>>
    BY <2>1, <2>3 DEF Unlink
  <2>4. CASE Empty
    BY <1>0, <2>1, <2>2, <2>4, SkillTypes DEF Empty
  <2>5. CASE EmptyFails
    BY <1>0, <2>2, <2>5, SkillTypes DEF EmptyFails
  <2> QED BY <2>3, <2>4, <2>5
<1>2. /\ sync' \in Sync /\ sync'.last = sync.last /\ store' \in Texts \cup {"none", "half"}
      /\ \/ SyncAt("unlink") /\ sync'.pc = "empty"
         \/ SyncAt("empty") /\ sync'.pc = "forget"
  BY <1>0, <1>1, SkillTypes DEF Sync, SyncPCs
<1>3. SkillOK'
  <2>1. SkillTypeOK'
    BY <1>0, <1>1, <1>2, SkillTypes DEF SkillTypeOK
  <2>2. StepInv'
    BY <1>2 DEF StepInv, SyncAt
  <2> QED BY <2>1, <2>2 DEF SkillOK
<1>4. ASSUME LinkInv PROVE LinkInv'
  <2>1. sync'.last # "reverted"
    BY <1>2, <1>4 DEF LinkInv, SyncAt
  <2>2. \A l \in Locations : place'[l].kind = "link" => l \in mishap'.links
    <3>1. sync.todo = <<>> => ToSet(sync.todo) = {}
      BY DEF ToSet
    <3> QED BY <1>1, <1>4, <3>1 DEF LinkInv, SyncAt
  <2>3. store' # "none" /\ mishap'.store = "no" => sync'.pc = "empty" /\ manifest' # NoManifest
    BY <1>1, <1>2, <1>4 DEF LinkInv, SyncAt
  <2> QED BY <1>2, <2>1, <2>2, <2>3 DEF LinkInv, SyncAt, Syncing
<1>5. ASSUME ReachInv PROVE ReachInv'
  BY <1>2, <1>5 DEF ReachInv, SyncAt
<1> QED BY <1>3, <1>4, <1>5 DEF Keeps

LEMMA ForgetKeeps ==
  ASSUME SkillOK, Forget
  PROVE  Keeps
<1>0. SkillTypeOK
  BY DEF SkillOK
<1>1. /\ SyncAt("forget") /\ UNCHANGED <<place, store, symlinks, mishap>>
      /\ manifest' \in {NoManifest, manifest}
      /\ sync' = [NoSync EXCEPT !.last = IF sync.errors = "yes" THEN "none" ELSE "reverted"]
  BY DEF Forget, End
<1>2. sync' \in Sync /\ sync'.pc = "idle" /\ sync'.last \in {"none", "reverted"}
  BY <1>0, <1>1, SkillTypes DEF Sync, NoSync
<1>3. SkillOK'
  <2>1. SkillTypeOK'
    BY <1>0, <1>1, <1>2, SkillTypes DEF SkillTypeOK
  <2>2. StepInv'
    BY <1>2 DEF StepInv, SyncAt
  <2> QED BY <2>1, <2>2 DEF SkillOK
<1>4. ASSUME LinkInv PROVE LinkInv'
  <2>1. \A l \in Locations : place'[l].kind = "link" => l \in mishap'.links
    BY <1>1, <1>4 DEF LinkInv
  <2>2. store' # "none" => mishap'.store # "no"
    BY <1>1, <1>4 DEF LinkInv
  <2> QED BY <1>2, <2>1, <2>2 DEF LinkInv, SyncAt
<1>5. ReachInv'
  BY <1>2 DEF ReachInv, SyncAt
<1> QED BY <1>3, <1>4, <1>5 DEF Keeps

LEMMA DiesKeeps ==
  ASSUME SkillOK, Dies
  PROVE  Keeps
<1>0. SkillTypeOK
  BY DEF SkillOK
<1>1. ~SyncAt("idle") /\ UNCHANGED <<place, store, manifest, symlinks>> /\ sync' = NoSync
  BY DEF Dies
<1>2. sync' \in Sync /\ sync'.pc = "idle" /\ sync'.last = "none"
  BY <1>0, <1>1, SkillTypes DEF NoSync
<1>3. /\ mishap' \in Mishap
      /\ sync.pc \notin Syncing => mishap' = mishap
      /\ sync.pc \in Syncing =>
           /\ \A l \in Locations : place[l].kind = "link" /\ l \notin mishap'.links => manifest.linked[l] # "no"
           /\ store # "none" /\ mishap'.store = "no" => manifest # NoManifest
  <2>1. CASE sync.pc \in Syncing
    <3> DEFINE L == mishap.links \cup {l \in Locations : place[l].kind = "link" /\ manifest.linked[l] = "no"}
               s == IF store # "none" /\ manifest = NoManifest THEN "yes" ELSE mishap.store
    <3>1. mishap' = [links |-> L, store |-> s]
      BY <2>1 DEF Dies, Syncing
    <3>2. L \in SUBSET Locations /\ s \in {"no", "yes"}
      BY <1>0, SkillTypes
    <3>3. mishap' \in Mishap /\ mishap'.links = L /\ mishap'.store = s
      <4> HIDE DEF L, s
      <4> QED BY <3>1, <3>2 DEF Mishap
    <3> QED BY <2>1, <3>3
  <2>2. CASE sync.pc \notin Syncing
    BY <1>0, <2>2 DEF Dies, Syncing, SkillTypeOK
  <2> QED BY <2>1, <2>2
<1>4. SkillOK'
  <2>1. SkillTypeOK'
    BY <1>0, <1>1, <1>2, <1>3, SkillTypes DEF SkillTypeOK
  <2>2. StepInv'
    BY <1>2 DEF StepInv, SyncAt
  <2> QED BY <2>1, <2>2 DEF SkillOK
<1>5. ASSUME LinkInv PROVE LinkInv'
  <2>1. sync.pc \in Syncing \/ sync.pc \in {"unlink", "empty", "forget"}
    BY <1>0, <1>1, SkillTypes DEF Sync, SyncPCs, SyncAt, Syncing
  <2>2. \A l \in Locations : place'[l].kind = "link" /\ l \notin mishap'.links => manifest'.linked[l] # "no"
    BY <1>1, <1>3, <1>5, <2>1 DEF LinkInv, SyncAt
  <2>3. store' # "none" /\ mishap'.store = "no" => manifest' # NoManifest
    BY <1>1, <1>3, <1>5, <2>1 DEF LinkInv, SyncAt
  <2> QED BY <1>2, <2>2, <2>3 DEF LinkInv, SyncAt, Syncing
<1>6. ReachInv'
  BY <1>2 DEF ReachInv, SyncAt
<1> QED BY <1>4, <1>5, <1>6 DEF Keeps

(* The user, between commands. *)
LEMMA UserKeeps ==
  ASSUME SkillOK, Write \/ Delete
  PROVE  Keeps
<1>0. SkillTypeOK
  BY DEF SkillOK
<1>1. SyncAt("idle") /\ UNCHANGED <<manifest, symlinks>> /\ sync' = NoSync
  BY DEF Write, Delete
<1>2. sync' \in Sync /\ sync'.pc = "idle" /\ sync'.last = "none"
  BY <1>0, <1>1, SkillTypes DEF NoSync
<1>3. /\ store' \in Texts \cup {"none", "half"} /\ place' \in [Locations -> Place]
      /\ mishap' \in Mishap /\ mishap'.store = mishap.store
      /\ store' # "none" => store # "none"
      /\ \A k \in Locations : place'[k].kind = "link" /\ k \notin mishap'.links =>
           place[k].kind = "link" /\ k \notin mishap.links
  <2>1. \/ \E text \in Texts : store # "none" /\ store' = text /\ place' = place /\ mishap' = mishap
        \/ \E l \in Locations, p \in Place :
             /\ place' = [place EXCEPT ![l] = p] /\ p.kind # "link"
             /\ mishap' = [mishap EXCEPT !.links = @ \ {l}] /\ store' = store
    <3>1. CASE Write
      <4>1. PICK l \in Locations, text \in Text :
              IF place[l].kind = "link" /\ store # "none"
              THEN text \in Texts /\ store' = text /\ UNCHANGED <<place, mishap>>
              ELSE /\ place' = [place EXCEPT ![l] = Folder(text)]
                   /\ mishap' = [mishap EXCEPT !.links = @ \ {l}] /\ UNCHANGED store
        BY <3>1 DEF Write
      <4>2. Folder(text) \in Place /\ Folder(text).kind # "link"
        BY Places3
      <4> QED BY <4>1, <4>2
    <3>2. CASE Delete
      BY <3>2, Places3 DEF Delete
    <3> QED BY <3>1, <3>2
  <2>2. CASE \E text \in Texts : store # "none" /\ store' = text /\ place' = place /\ mishap' = mishap
    BY <1>0, <2>2, SkillTypes DEF SkillTypeOK
  <2>3. CASE \E l \in Locations, p \in Place :
               /\ place' = [place EXCEPT ![l] = p] /\ p.kind # "link"
               /\ mishap' = [mishap EXCEPT !.links = @ \ {l}] /\ store' = store
    <3>1. PICK l \in Locations, p \in Place :
            /\ place' = [place EXCEPT ![l] = p] /\ p.kind # "link"
            /\ mishap' = [mishap EXCEPT !.links = @ \ {l}] /\ store' = store
      BY <2>3
    <3>2. /\ place' \in [Locations -> Place] /\ place'[l].kind # "link"
          /\ \A k \in Locations : k # l => place'[k] = place[k]
      BY <1>0, <3>1, SkillTypes
    <3>3. mishap' = [links |-> mishap.links \ {l}, store |-> mishap.store]
      BY <1>0, <3>1, SkillTypes
    <3> QED BY <1>0, <3>1, <3>2, <3>3, SkillTypes DEF Mishap
  <2> QED BY <2>1, <2>2, <2>3
<1>4. SkillOK'
  <2>1. SkillTypeOK'
    BY <1>0, <1>1, <1>2, <1>3, SkillTypes DEF SkillTypeOK
  <2>2. StepInv'
    BY <1>2 DEF StepInv, SyncAt
  <2> QED BY <2>1, <2>2 DEF SkillOK
<1>5. ASSUME LinkInv PROVE LinkInv'
  <2>1. \A l \in Locations : place'[l].kind = "link" /\ l \notin mishap'.links => manifest'.linked[l] # "no"
    BY <1>1, <1>3, <1>5 DEF LinkInv, SyncAt
  <2>2. store' # "none" /\ mishap'.store = "no" => manifest' # NoManifest
    BY <1>1, <1>3, <1>5 DEF LinkInv, SyncAt
  <2> QED BY <1>2, <2>1, <2>2 DEF LinkInv, SyncAt, Syncing
<1>6. ReachInv'
  BY <1>2 DEF ReachInv, SyncAt
<1> QED BY <1>4, <1>5, <1>6 DEF Keeps

LEMMA SkillStepKeeps ==
  ASSUME SkillOK, [SkillNext]_skillVars
  PROVE  Keeps
<1>1. CASE UNCHANGED skillVars
  BY <1>1, ReachSame
     DEF skillVars, Keeps, SkillOK, SkillTypeOK, StepInv, LinkInv, ReachInv, SyncAt
<1>2. CASE SkillNext
  <2>1. CASE PutFails
    <3>1. SyncAt("link") \/ SyncAt("fill")
      BY <2>1 DEF PutFails
    <3> QED BY <2>1, <3>1, PutFailsKeeps, FillKeeps
  <2>2. CASE PutDone \/ PutCopy
    <3>1. (PutDone => SyncAt("link")) /\ (PutCopy => SyncAt("fill"))
      BY DEF PutDone, PutCopy
    <3> QED BY <2>2, <3>1, PutFailsKeeps, FillKeeps
  <2>3. CASE Unlink \/ UnlinkFails
    <3>1. UnlinkFails => sync.todo # <<>>
      BY DEF UnlinkFails
    <3> QED BY <2>3, <3>1, UnlinkKeeps, EmptyKeeps
  <2> QED BY <1>2, <2>1, <2>2, <2>3, ApplyKeeps, CanonKeeps, PutKeeps, SaveKeeps, RevertKeeps,
             EmptyKeeps, ForgetKeeps, DiesKeeps, UserKeeps DEF SkillNext
<1> QED BY <1>1, <1>2

\* The variables of skill sync keep their types, for any list of locations.
THEOREM SkillTyped == SkillSpec => []SkillTypeOK
<1>1. SkillInit => SkillOK
  BY SkillInitType
<1>2. SkillOK /\ [SkillNext]_skillVars => SkillOK'
  BY SkillStepKeeps DEF Keeps
<1>3. SkillOK => SkillTypeOK
  BY DEF SkillOK
<1> QED BY <1>1, <1>2, <1>3, PTL DEF SkillSpec

\* A revert leaves no link behind, and no canonical copy, whatever applies,
\* failures, deaths and edits came before, but those it failed to remove itself
\* and those which an earlier command that failed or died kept from the manifest.
THEOREM RevertUnlinks == SkillSpec => []NoLinkLeft
<1>1. SkillInit => SkillOK /\ LinkInv
  BY SkillInitType DEF SkillInit, LinkInv, SyncAt, NoSync, Nothing, Syncing
<1>2. SkillOK /\ LinkInv /\ [SkillNext]_skillVars => (SkillOK /\ LinkInv)'
  BY SkillStepKeeps DEF Keeps
<1>3. SkillOK /\ LinkInv => NoLinkLeft
  <2> SUFFICES ASSUME SkillOK, LinkInv, sync.last = "reverted"
               PROVE  /\ \A l \in Locations : place[l] = Link => l \in mishap.links
                      /\ store # "none" => mishap.store = "yes"
    BY DEF NoLinkLeft
  <2>1. mishap.store \in {"no", "yes"}
    BY SkillTypes DEF SkillOK
  <2> QED BY <2>1, Places3 DEF LinkInv
<1> QED BY <1>1, <1>2, <1>3, PTL DEF SkillSpec

\* An apply without errors reaches every location, provided that what a location
\* scans it scans wholly, as the default rows do: else a location can see a skill
\* through two scans that its client does not follow.  Copies cut short, then or
\* earlier, are among the states it starts from.
THEOREM ApplyReaches ==
  ASSUME Transitive
  PROVE  SkillSpec => []SyncReachesAll
<1>1. SkillInit => SkillOK /\ ReachInv
  BY SkillInitType DEF SkillInit, ReachInv, SyncAt, NoSync
<1>2. SkillOK /\ ReachInv /\ [SkillNext]_skillVars => (SkillOK /\ ReachInv)'
  BY SkillStepKeeps DEF Keeps
<1>3. ReachInv => SyncReachesAll
  BY DEF ReachInv, SyncReachesAll, Reached
<1> QED BY <1>1, <1>2, <1>3, PTL DEF SkillSpec

-----------------------------------------------------------------------------
(***************************************************************************)
(* The tools together.                                                     *)
(***************************************************************************)

LEMMA PartsBegin ==
  ToolsInit => /\ SpoolInit /\ SpoolReadInit /\ RecoveryInit /\ SkillInit /\ SetupInit
               /\ CompactorInit /\ CompressorInit /\ ContinuityInit
BY DEF ToolsInit

\* A step of one tool is a step, or none, of each.
LEMMA PartsStep ==
  ASSUME [ToolsNext]_<<part, spoolVars, spoolReadVars, recoveryVars, skillVars, setupVars,
                       compactorVars, compressorVars, continuityVars>>
  PROVE  /\ [SpoolNext]_spoolVars /\ [SpoolReadNext]_spoolReadVars
         /\ [RecoveryNext]_recoveryVars /\ [SkillNext]_skillVars /\ [SetupNext]_setupVars
         /\ [CompactorNext]_compactorVars /\ [Grow]_compressorVars
         /\ [ContinuityNext]_continuityVars
BY DEF ToolsNext

\* What the run of all tools explores is, seen by each tool, a behaviour of that
\* tool: a theorem about one of them, here, in DirectoryProofs or in ContextProofs,
\* holds of that run too.
THEOREM ToolsAreTheirParts ==
  ToolsSpec => /\ SpoolSpec /\ SpoolReadSpec /\ RecoverySpec /\ SkillSpec /\ SetupSpec
               /\ CompactorSpec /\ CompressorSpec /\ ContinuitySpec
BY PartsBegin, PartsStep, PTL DEF ToolsSpec, SpoolSpec, SpoolReadSpec, RecoverySpec, SkillSpec,
   SetupSpec, CompactorSpec, CompressorSpec, ContinuitySpec

\* Every variable of every tool has its type in every reachable state.
THEOREM ToolsTyped == ToolsSpec => []ToolsTypeOK
<1>1. /\ SpoolTypeOK /\ SpoolReadTypeOK /\ RecoveryTypeOK /\ SkillTypeOK /\ SetupTypeOK
      /\ CompactorTypeOK /\ CompressorTypeOK /\ ContinuityTypeOK
      => ToolsTypeOK
  BY DEF ToolsTypeOK
<1> QED BY <1>1, ToolsAreTheirParts, SpoolTyped, SpoolReadTyped, RecoveryTyped, SkillTyped,
           SetupTyped, CompactorTyped, CompressorTyped, ContinuityTyped, PTL
=============================================================================
