---------------------------- MODULE NodeService -----------------------------
(***************************************************************************)
(* The start, the life and the end of a process: run in                    *)
(* node/src/command.rs with its subcommands, and the service builders of   *)
(* node/src/service.rs.                                                    *)
(*                                                                         *)
(* Starting is a list of steps taken in order; each `?` in it is a step    *)
(* that may fail, and a failure drops the task manager with all it has     *)
(* spawned so far.  Tasks run as soon as they are spawned, so any of them  *)
(* may end while the rest is still being built.  The runner, the task      *)
(* manager and the libraries' own tasks are external.                      *)
(***************************************************************************)
EXTENDS Sequences, Naturals

VARIABLES
  config,   \* the command line, and what the builders read of the Configuration
  phase,    \* "building", "running", "failed" or "stopped"
  pc,       \* the next step of the start
  tasks,    \* names of the tasks that run
  ended,    \* names of the tasks that came to an end by themselves
  signal,   \* an essential task told the task manager that it ended
  network   \* network_starter.start_network() was called

serviceVars == <<config, phase, pc, tasks, ended, signal, network>>

\* Subcommands that only need the configuration: sync_run.
SyncCommands == {"build-spec", "purge-chain", "benchmark"}

\* Subcommands that work on the database of a node: async_run.
AsyncCommands == {"check-block", "export-blocks", "export-state", "import-blocks", "revert"}

Configs ==
  [command : {"run", "key"} \cup SyncCommands \cup AsyncCommands,
   benchmarks : BOOLEAN,          \* built with feature runtime-benchmarks
   role : {"Full", "Authority", "Light"},
   keystore_remote : BOOLEAN,     \* keystore_remote.is_some()
   telemetry_endpoints : BOOLEAN, \* there are some
   offchain_worker : BOOLEAN,     \* offchain_worker.enabled
   disable_grandpa : BOOLEAN]

-----------------------------------------------------------------------------
(* Builders *)

\* A step: taken if wanted; it may fail "never", "maybe" or "always"; it spawns
\* a task, or none.
Step(wanted, fails, task) == [wanted |-> wanted, fails |-> fails, task |-> task]

NoTask == "no task"
StartNetwork == "start_network"

\* Tasks spawned with spawn_essential_handle: the ones that new_partial (and new_light in
\* the same way) hands it to, and the ones of new_full.
EssentialOfPartial == {"txpool", "import-queue"}
EssentialOfFull == {"aura", "grandpa-voter"}

EssentialTasks == EssentialOfPartial \cup EssentialOfFull

\* new_partial.
NewPartial(c) ==
  << Step(c.keystore_remote, "always", NoTask),
     Step(c.telemetry_endpoints, "maybe", NoTask),    \* TelemetryWorker::new
     Step(TRUE, "maybe", NoTask),                     \* new_full_parts
     Step(c.telemetry_endpoints, "never", "telemetry"),
     Step(TRUE, "never", "txpool"),                   \* BasicPool::new_full
     Step(TRUE, "maybe", NoTask),                     \* grandpa block_import
     Step(TRUE, "maybe", NoTask),                     \* slot_duration
     Step(TRUE, "maybe", "import-queue") >>

\* Fault: the network is opened as soon as it is built.
NetworkStepsEarly(c) ==
  << Step(TRUE, "maybe", "network"), Step(TRUE, "never", StartNetwork) >>

\* build_network; the network itself is opened at the end.
NetworkSteps(c) == << Step(TRUE, "maybe", "network") >>

\* new_full.
NewFull(c) ==
  NewPartial(c)
  \o << Step(c.keystore_remote, "always", NoTask) >>  \* remote_keystore
  \o NetworkSteps(c)
  \o << Step(c.offchain_worker, "never", "offchain"),
        Step(TRUE, "maybe", "rpc"),                   \* spawn_tasks
        Step(c.role = "Authority", "maybe", NoTask),  \* slot_duration
        Step(c.role = "Authority", "maybe", "aura"),  \* start_aura
        Step(~c.disable_grandpa, "maybe", "grandpa-voter"),
        Step(TRUE, "never", StartNetwork) >>

\* new_light, which does not look at keystore_remote.
NewLight(c) ==
  << Step(c.telemetry_endpoints, "maybe", NoTask),    \* TelemetryWorker::new
     Step(TRUE, "maybe", NoTask),                     \* new_light_parts
     Step(c.telemetry_endpoints, "never", "telemetry"),
     Step(TRUE, "never", "txpool"),                   \* BasicPool::new_light
     Step(TRUE, "maybe", NoTask),                     \* grandpa block_import
     Step(TRUE, "maybe", NoTask),                     \* slot_duration
     Step(TRUE, "maybe", "import-queue"),
     Step(TRUE, "maybe", "network"),                  \* build_network
     Step(c.offchain_worker, "never", "offchain"),
     Step(~c.disable_grandpa, "maybe", "grandpa-observer"),
     Step(TRUE, "maybe", "rpc"),                      \* spawn_tasks
     Step(TRUE, "never", StartNetwork) >>

\* create_runner: load_spec and the rest of the configuration.
CreateRunner == << Step(TRUE, "maybe", NoTask) >>

\* Fault: a command on the database of an authority starts all of the node.
AsyncBuilderFull(c) == NewFull(c)

\* Commands on the database take what they need from new_partial.
AsyncBuilder(c) == NewPartial(c)

\* What run does before a command, or the node, is under way.
Builder(c) ==
  CASE c.command = "key"          -> << >>
    [] c.command = "benchmark"    -> << Step(~c.benchmarks, "always", NoTask) >> \o CreateRunner
    [] c.command \in AsyncCommands -> CreateRunner \o AsyncBuilder(c)
    [] c.command = "run"          -> CreateRunner \o IF c.role = "Light" THEN NewLight(c)
                                                     ELSE NewFull(c)
    [] OTHER                      -> CreateRunner

-----------------------------------------------------------------------------
(* Actions *)

SInit ==
  /\ config \in Configs
  /\ phase = "building"
  /\ pc = 1
  /\ tasks = {}
  /\ ended = {}
  /\ signal = FALSE
  /\ network = FALSE

\* The builder takes its next step.
Build ==
  /\ phase = "building"
  /\ pc <= Len(Builder(config))
  /\ LET s == Builder(config)[pc]
     IN  /\ s.wanted => s.fails # "always"
         /\ tasks' = IF s.wanted /\ s.task \notin {NoTask, StartNetwork}
                     THEN tasks \cup {s.task} ELSE tasks
         /\ network' = (network \/ s.task = StartNetwork)
  /\ pc' = pc + 1
  /\ UNCHANGED <<config, phase, ended, signal>>

\* The builder returns an error, and run ends with it.
BuildFails ==
  /\ phase = "building"
  /\ pc <= Len(Builder(config))
  /\ Builder(config)[pc].wanted
  /\ Builder(config)[pc].fails # "never"
  /\ phase' = "failed"
  /\ tasks' = {}
  /\ UNCHANGED <<config, pc, ended, signal, network>>

\* The node is built and the runner waits for its end, or the command starts.
Built ==
  /\ phase = "building"
  /\ pc > Len(Builder(config))
  /\ phase' = "running"
  /\ UNCHANGED <<config, pc, tasks, ended, signal, network>>

\* Fault: the end of an essential task is noticed only while the node runs.
TaskEndsUnnoticed(t) ==
  /\ t \in tasks
  /\ tasks' = tasks \ {t}
  /\ ended' = ended \cup {t}
  /\ signal' = (signal \/ (phase = "running" /\ t \in EssentialTasks))
  /\ UNCHANGED <<config, phase, pc, network>>

\* A task returns or panics.
TaskEnds(t) ==
  /\ t \in tasks
  /\ tasks' = tasks \ {t}
  /\ ended' = ended \cup {t}
  /\ signal' = (signal \/ t \in EssentialTasks)
  /\ UNCHANGED <<config, phase, pc, network>>

\* run_node_until_exit: the task manager's future resolves on the signal, and all
\* tasks are stopped.  A command does not wait for that future.
TakenDown ==
  /\ phase = "running"
  /\ config.command = "run"
  /\ signal
  /\ phase' = "stopped"
  /\ tasks' = {}
  /\ UNCHANGED <<config, pc, ended, signal, network>>

\* A command is done, well or with an error, and its tasks are stopped.
CommandEnds ==
  /\ phase = "running"
  /\ config.command # "run"
  /\ phase' \in {"stopped", "failed"}
  /\ tasks' = {}
  /\ UNCHANGED <<config, pc, ended, signal, network>>

\* The operator interrupts the process.
Interrupted ==
  /\ phase = "running"
  /\ phase' = "stopped"
  /\ tasks' = {}
  /\ UNCHANGED <<config, pc, ended, signal, network>>

SNext ==
  \/ Build
  \/ BuildFails
  \/ Built
  \/ \E t \in tasks : TaskEnds(t)
  \/ TakenDown
  \/ CommandEnds
  \/ Interrupted

\* The main thread builds the node, then waits on the task manager.
SSpec ==
  /\ SInit /\ [][SNext]_serviceVars
  /\ WF_serviceVars(Build \/ BuildFails \/ Built)
  /\ WF_serviceVars(TakenDown)

-----------------------------------------------------------------------------
(* Properties *)

\* The tasks a node of this configuration consists of.
Expected(c) ==
  {"txpool", "import-queue", "network", "rpc"}
  \cup {t \in {"telemetry"} : c.telemetry_endpoints}
  \cup {t \in {"offchain"} : c.offchain_worker}
  \cup {t \in {"aura"} : c.role = "Authority"}
  \cup {t \in {"grandpa-voter"} : c.role # "Light" /\ ~c.disable_grandpa}
  \cup {t \in {"grandpa-observer"} : c.role = "Light" /\ ~c.disable_grandpa}

\* Nobody hears of a node that is not complete: the network is opened for no
\* command but run, when all tasks of the node have been spawned and nothing of
\* the start can fail any more.
NetworkOpensLast ==
  network => /\ config.command = "run"
             /\ phase # "failed"
             /\ phase # "stopped" => tasks \cup ended = Expected(config)

\* Blocks are made only by the run of an authority, and not before there is a
\* pool to take extrinsics from, a queue to import the block, and a network to
\* announce it: maintenance of an authority's database never authors.
AuthoringNeedsNode ==
  "aura" \in tasks =>
    /\ config.command = "run"
    /\ config.role = "Authority"
    /\ {"txpool", "import-queue", "network", "rpc"} \subseteq tasks \cup ended

\* "if it fails we take down the service with it" (service.rs:253, 294): when an
\* essential task ends, even before the node is built, the node comes down.
EssentialTasksAreEssential ==
  config.command = "run" /\ ended \cap EssentialTasks # {} ~> phase \in {"failed", "stopped"}

=============================================================================
