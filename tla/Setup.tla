------------------------------- MODULE Setup -------------------------------
(***************************************************************************)
(* genesis setup and genesis setup --revert (cli/init_cmd.py), with the     *)
(* wiring of AI clients (cli/client_registry.py) and the proxy setup that   *)
(* may follow (cli/proxy_setup.py).  One command runs at a time; the user   *)
(* edits configs, and the daemon stores memories, between commands.  A      *)
(* command can die between any two of its steps.                            *)
(*                                                                          *)
(* Of a config file the module keeps which version of the user's own text   *)
(* it holds, and whether GENESIS is wired into it, as memory server and as  *)
(* proxy.                                                                   *)
(***************************************************************************)
EXTENDS Integers, SequencesExt, Selection

CONSTANTS
  Clients,   \* the sequence of detected clients, in the registry's order
  Helpers,   \* those whose wiring also writes a file of hooks or plugins
  Blind,     \* those whose check for being configured never succeeds
  Proxied,   \* those that can be wired to the proxy
  MaxEdits   \* bound on the user's versions of a config

AllClients == ToSet(Clients)
ASSUME SetupAssumption ==
  /\ Clients \in Seq(AllClients) /\ IsInjective(Clients) /\ MaxEdits \in Nat \ {0}
  /\ Helpers \subseteq AllClients /\ Blind \subseteq AllClients /\ Proxied \subseteq AllClients

VARIABLES
  config,    \* the config file of each client
  helper,    \* clients whose hooks or plugins are installed
  local,     \* what is there under ~/.genesis
  initManifest,  \* the actions of the latest init_manifest, none if there is none
  setup,     \* the running command
  before     \* what the setup that is on record, or running, began from

setupVars == <<config, helper, local, initManifest, setup, before>>

\* `mine` is the user's version, 0 when the user has no file; "broken" is a
\* file of the user's that does not parse.
Config == [file : {"absent", "present", "broken"}, mine : 0..MaxEdits,
           memory : {"no", "yes"}, proxy : {"no", "yes"}]
Absent == [file |-> "absent", mine |-> 0, memory |-> "no", proxy |-> "no"]

Local == [root : {"no", "yes"}, spool : {"no", "yes"}, snippet : {"no", "yes"},
          db : {"none", "legacy", "ready"}, memories : {"no", "yes"},
          upstream : {"no", "yes"}]

\* An action of a plan or a manifest.  `was` is the backup of a config.
Act == [act : {"CREATE_DIR root", "CREATE_DIR spool", "CREATE_DB", "REPAIR_DB", "CREATE_FILE"}]
       \cup [act : {"WIRE_CLIENT"}, client : AllClients, was : Config]

SetupPCs == {"idle", "do", "record", "ping", "proxy", "undo", "forget"}
Setting == [pc : SetupPCs, todo : Seq(Act \cup [act : {"WIRE_CLIENT"}, client : AllClients]),
            taken : Seq(Act),
            last : {"none", "set up", "reverted", "failed"}]
NoSetting == [pc |-> "idle", todo |-> <<>>, taken |-> <<>>, last |-> "none"]

Before == [known : {"no", "yes"}, config : [AllClients -> Config],
           memories : {"no", "yes", "unknown"}]
Unknown == [known |-> "no", config |-> [c \in AllClients |-> Absent], memories |-> "unknown"]

SetupTypeOK ==
  /\ config \in [AllClients -> Config] /\ helper \subseteq AllClients /\ local \in Local
  /\ initManifest \in Seq(Act)
  /\ setup \in Setting /\ before \in Before

SetupInit ==
  /\ config \in [AllClients -> {Absent, [Absent EXCEPT !.file = "present", !.mine = 1],
                                [Absent EXCEPT !.file = "broken", !.mine = 1]}]
  /\ helper = {} /\ initManifest = <<>> /\ setup = NoSetting
  /\ before = Unknown
  /\ local \in {[root |-> "no", spool |-> "no", snippet |-> "no", db |-> "none",
                 memories |-> "no", upstream |-> "no"],
                [root |-> "yes", spool |-> "no", snippet |-> "no", db |-> "legacy",
                 memories |-> "yes", upstream |-> "no"]}

SetupAt(pc) == setup.pc = pc
Stop(how) == setup' = [NoSetting EXCEPT !.last = how]

-----------------------------------------------------------------------------
(* generate_plan and run_init.                                              *)

\* discover_all: a client is configured when its file says so, and the checks
\* of some also ask for their hooks.
Configured(c) ==
  /\ config[c].file = "present" /\ config[c].memory = "yes" /\ c \notin Blind
  /\ c \in Helpers => c \in helper

Only(p, act) == IF p THEN <<[act |-> act]>> ELSE <<>>
\* Mutant: an old database is made anew.
Plan_Recreate(targets) ==
  Only(local.root = "no", "CREATE_DIR root")
  \o Only(local.spool = "no", "CREATE_DIR spool")
  \o Only(local.db # "ready", "CREATE_DB")
  \o <<[act |-> "CREATE_FILE"]>>
  \o LET wire == Select(Clients, {c \in targets : ~Configured(c)})
     IN [i \in DOMAIN wire |-> [act |-> "WIRE_CLIENT", client |-> wire[i]]]
Plan(targets) ==
  Only(local.root = "no", "CREATE_DIR root")
  \o Only(local.spool = "no", "CREATE_DIR spool")
  \o Only(local.db = "none", "CREATE_DB") \o Only(local.db = "legacy", "REPAIR_DB")
  \o <<[act |-> "CREATE_FILE"]>>
  \o LET wire == Select(Clients, {c \in targets : ~Configured(c)})
     IN [i \in DOMAIN wire |-> [act |-> "WIRE_CLIENT", client |-> wire[i]]]

\* --client, --skip-clients; a preview or a refused prompt changes nothing.
BeginSetup ==
  /\ SetupAt("idle")
  /\ \E targets \in {{}, AllClients} \cup {{c} : c \in AllClients} :
       setup' = [NoSetting EXCEPT !.pc = "do", !.todo = Plan(targets)]
  /\ before' = [known |-> "yes", config |-> config, memories |-> local.memories]
  /\ UNCHANGED <<config, helper, local, initManifest>>

Doing(act) == SetupAt("do") /\ setup.todo # <<>> /\ Head(setup.todo).act = act
Took(act) == setup' = [setup EXCEPT !.todo = Tail(@), !.taken = Append(@, act)]

MakeLocal ==
  /\ \/ Doing("CREATE_DIR root") /\ local' = [local EXCEPT !.root = "yes"]
     \/ Doing("CREATE_DIR spool") /\ local' = [local EXCEPT !.spool = "yes"]
     \/ Doing("CREATE_FILE") /\ local' = [local EXCEPT !.snippet = "yes"]
     \/ (Doing("CREATE_DB") \/ Doing("REPAIR_DB")) /\ local' = [local EXCEPT !.db = "ready"]
  /\ Took(Head(setup.todo))
  /\ UNCHANGED <<config, helper, initManifest, before>>

\* wire_client: the config is backed up and merged with the patch, and the
\* hooks or plugins are written.
Wired(f) == [f EXCEPT !.file = "present", !.memory = "yes"]
\* Mutant: the backup is made of the merged config.
Wire_LateBackup ==
  /\ Doing("WIRE_CLIENT")
  /\ LET c == Head(setup.todo).client IN
       /\ config[c].file # "broken"
       /\ config' = [config EXCEPT ![c] = Wired(@)]
       /\ helper' = helper \cup ({c} \cap Helpers)
       /\ setup' = [setup EXCEPT !.todo = Tail(@),
                      !.taken = Append(@, [act |-> "WIRE_CLIENT", client |-> c,
                                           was |-> Wired(config[c])])]
  /\ UNCHANGED <<local, initManifest, before>>
Wire ==
  /\ Doing("WIRE_CLIENT")
  /\ LET c == Head(setup.todo).client IN
       /\ config[c].file # "broken"
       /\ config' = [config EXCEPT ![c] = Wired(@)]
       /\ helper' = helper \cup ({c} \cap Helpers)
       /\ setup' = [setup EXCEPT !.todo = Tail(@),
                      !.taken = Append(@, [act |-> "WIRE_CLIENT", client |-> c,
                                           was |-> config[c]])]
  /\ UNCHANGED <<local, initManifest, before>>

\* Any error, such as a config that does not parse, ends the setup.  One in a
\* helper file comes after the config was written.
SetupFails ==
  /\ SetupAt("do") /\ setup.todo # <<>>
  /\ Stop("failed")
  /\ \/ UNCHANGED config
     \/ /\ Doing("WIRE_CLIENT")
        /\ LET c == Head(setup.todo).client IN
             /\ c \in Helpers /\ config[c].file # "broken"
             /\ config' = [config EXCEPT ![c] = Wired(@)]
  /\ before' = Unknown
  /\ UNCHANGED <<helper, local, initManifest>>

\* create_backup_manifest, once all is done: it becomes the latest.
Record ==
  /\ SetupAt("do") /\ setup.todo = <<>>
  /\ initManifest' = setup.taken
  /\ setup' = [setup EXCEPT !.pc = "ping", !.taken = <<>>]
  /\ UNCHANGED <<config, helper, local, before>>

\* The handshake remembers, recalls and forgets an engram; then the proxy
\* setup runs, if it is asked for and its answers are accepted.
Ping ==
  /\ SetupAt("ping")
  /\ \/ local.db = "ready" /\ setup' = [setup EXCEPT !.pc = "proxy"]
     \/ Stop("failed")
  /\ UNCHANGED <<config, helper, local, initManifest, before>>

NoProxy ==
  /\ SetupAt("proxy") /\ Stop("set up")
  /\ UNCHANGED <<config, helper, local, initManifest, before>>

ProxySetup ==
  /\ SetupAt("proxy")
  /\ \A c \in Proxied : config[c].file # "broken"
  /\ \E wire \in {{}, Proxied} :
       config' = [c \in AllClients |->
                    IF c \in wire THEN [config[c] EXCEPT !.file = "present", !.proxy = "yes"]
                    ELSE config[c]]
  /\ local' = [local EXCEPT !.upstream = "yes"]
  /\ Stop("set up")
  /\ UNCHANGED <<helper, initManifest, before>>

\* The clients before one whose config does not parse are wired, and nothing
\* is saved.
ProxyFails ==
  /\ SetupAt("proxy")
  /\ \E i \in DOMAIN Clients :
       /\ Clients[i] \in Proxied /\ config[Clients[i]].file = "broken"
       /\ \A j \in 1..(i - 1) : Clients[j] \in Proxied => config[Clients[j]].file # "broken"
       /\ config' = [c \in AllClients |->
                       IF c \in Proxied /\ \E j \in 1..(i - 1) : Clients[j] = c
                       THEN [config[c] EXCEPT !.file = "present", !.proxy = "yes"] ELSE config[c]]
  /\ Stop("failed")
  /\ UNCHANGED <<helper, local, initManifest, before>>

-----------------------------------------------------------------------------
(* revert_init.                                                             *)

BeginRevert ==
  /\ SetupAt("idle") /\ initManifest # <<>>
  /\ setup' = [NoSetting EXCEPT !.pc = "undo", !.todo = Reverse(initManifest)]
  /\ UNCHANGED <<config, helper, local, initManifest, before>>

Undoing(act) == SetupAt("undo") /\ setup.todo # <<>> /\ Head(setup.todo).act = act
Undone == setup' = [setup EXCEPT !.todo = Tail(@)]

\* A config setup made is removed, any other gets its backup back.
Unwire ==
  /\ Undoing("WIRE_CLIENT")
  /\ config' = [config EXCEPT ![Head(setup.todo).client] = Head(setup.todo).was]
  /\ Undone
  /\ UNCHANGED <<helper, local, initManifest, before>>

\* The snippet and the database go.  A repaired database stays; so does a
\* folder with something in it, and the backups are in the root.
UnmakeLocal ==
  /\ \/ Undoing("CREATE_FILE") /\ local' = [local EXCEPT !.snippet = "no"]
     \/ Undoing("CREATE_DB") /\ local' = [local EXCEPT !.db = "none", !.memories = "no"]
     \/ Undoing("CREATE_DIR spool") /\ local' \in {local, [local EXCEPT !.spool = "no"]}
     \/ (Undoing("REPAIR_DB") \/ Undoing("CREATE_DIR root")) /\ UNCHANGED local
  /\ Undone
  /\ UNCHANGED <<config, helper, initManifest, before>>

RevertFails ==
  /\ SetupAt("undo") /\ setup.todo # <<>> /\ Stop("failed")
  /\ UNCHANGED <<config, helper, local, initManifest, before>>

\* The pointer to the latest manifest goes; an earlier one is not found again.
ForgetSetup ==
  /\ SetupAt("undo") /\ setup.todo = <<>>
  /\ initManifest' = <<>>
  /\ Stop("reverted")
  /\ UNCHANGED <<config, helper, local, before>>

SetupDies ==
  /\ ~SetupAt("idle") /\ Stop("failed")
  /\ before' = IF SetupAt("do") THEN Unknown ELSE before
  /\ UNCHANGED <<config, helper, local, initManifest>>

-----------------------------------------------------------------------------
(* The user and the daemon.                                                 *)

Edit ==
  /\ SetupAt("idle")
  /\ \E c \in AllClients :
       /\ config[c].mine < MaxEdits
       /\ config' = [config EXCEPT ![c].file = "present", ![c].mine = @ + 1]
  /\ setup' = [setup EXCEPT !.last = "none"] /\ before' = [Unknown EXCEPT !.memories = before.memories]
  /\ UNCHANGED <<helper, local, initManifest>>

Remember ==
  /\ SetupAt("idle") /\ local.db = "ready" /\ local.memories = "no"
  /\ local' = [local EXCEPT !.memories = "yes"]
  /\ UNCHANGED <<config, helper, initManifest, setup, before>>

SetupNext ==
  \/ BeginSetup \/ MakeLocal \/ Wire \/ SetupFails \/ Record \/ Ping
  \/ NoProxy \/ ProxySetup \/ ProxyFails
  \/ BeginRevert \/ Unwire \/ UnmakeLocal \/ RevertFails \/ ForgetSetup \/ SetupDies
  \/ Edit \/ Remember

SetupSpec == SetupInit /\ [][SetupNext]_setupVars

-----------------------------------------------------------------------------
(* Correctness.                                                             *)

\* A revert that completes gives every client the config it had before the
\* setup it undoes, unless the user edited one since; all it leaves is what the
\* proxy setup wrote into configs that setup had not planned to wire.
RevertRestoresConfigs ==
  setup.last = "reverted" /\ before.known = "yes" =>
    \A c \in AllClients :
      \/ config[c] = before.config[c]
      \/ config[c] = [before.config[c] EXCEPT !.file = "present", !.proxy = "yes"]

\* A revert deletes no memory that was there before the setup it undoes.
OldMemoriesSurvive ==
  [][local.memories = "yes" /\ local'.memories = "no" => before.memories # "yes"]_setupVars
=============================================================================
