# Verification of VPNResearchLab

TLA+ models of the laboratory that the programs of this repository build, model-checked
with TLC, and theorems about them proved with TLAPS. Paths below are relative
to `src/`.

1. [The system](#1-the-system)
2. [The modules and how they correspond to the code](#2-the-modules-and-how-they-correspond-to-the-code)
3. [The runs](#3-the-runs)
4. [Fairness](#4-fairness)
5. [The proofs](#5-the-proofs)
6. [What the work found](#6-what-the-work-found)
7. [What is not modelled](#7-what-is-not-modelled)
8. [The plan](#8-the-plan)

## 1. The system

VPNResearchLab drives the Linux network stack with `ip`, `sysctl`, `wg` and
`iptables` commands to build a small network of namespaces, deploys a WireGuard
tunnel in it, starts servers, generates traffic, captures packets and writes
reports. There is no daemon and no lock: each program is a sequential Python
process, and what the programs share is the kernel, the configuration files, a
directory in `/tmp` and the report files. The one place with threads is packet
capture, where Scapy's sniffer calls back into the pipeline the main thread stops.

### Components

| component | state it keeps | operations | correct when |
|---|---|---|---|
| Namespace manager (`lab/topology/namespace_manager.py`) | none; the kernel's namespaces | create, delete, execute, loopback, forwarding, cleanup: each a check (`ip netns list`), then a command | a command never acts on the wrong namespace; cleanup ends with the names gone |
| Topology builder (`topology_builder.py`, `network_builder.py`, `routing_manager.py`) | `_created_veths` | `build()`: namespaces, veth pairs, addresses, routes, in four phases; `teardown()` | a build that returns leaves the configured network; a teardown removes it |
| Laboratory programs (`lab/run_lab.py`, `destroy_lab.py`) | none | load, teardown, build, validate; load, teardown | each ends; races with another program do no lasting harm |
| Laboratory configuration (`lab/config.py`, `configs/topology.yaml`) | the loaded records | `load`, `validate` | what is accepted is consistent; whether it can be built depends on the file alone |
| VPN configuration (`lab/vpn/config.py`, `configs/vpn/wireguard.yaml`) | the loaded records | `load`, `validate` | whether a tunnel can be deployed depends on the two files alone |
| VPN deployment (`lab/vpn/vpn_manager.py`, `wireguard_manager.py`, `key_manager.py`) | keys, WireGuard interfaces, NAT rules, a key file per node | `deploy()` | both ends hold each other's public key; failures leave nothing a redeployment would mix in |
| Experiment runtime (`experiments/experiment_runtime.py`, `cleanup.py`, `run_baseline_*.py`) | registered resources, metrics, status | `run()`: initialise, set up, deploy, start, wait, verify, execute, collect, report; then cleanup in `finally` | whatever happens, what was registered is released; results come from this run's environment; reports and summary say what the run found |
| Service orchestrator (`lab/start_servers.py`) | `processes` | `start_all`, `stop_all` | every server started is stopped, before its namespace goes |
| Evaluation harness (`framework/evaluation/`) | registry, manifest, report | pre-flight checks; register, compare, build report, which no program reaches | the pre-flight examines the environment the experiment uses |
| Capture pipeline (`framework/observation/capture.py`) | sniffer thread, counters | start, callback, stop | counts are final after stop; no packet vanishes |
| Observation storage (`storage.py`, `extractor.py`, `models.py`, `types.py`) | open files, uncommitted rows | write, close, write_all, close_all | every backend gets every packet, and is closed |
| Validators and verification suite (`lab/vpn/validator.py`, `lab/validation/`) | verdict records | parse command output, collect metrics; generate reports, which no program reaches | a sound environment passes, an unsound one does not; a verification returns its results (none does, section 6) |
| Demo and verification programs (`lab/run_traffic_demo.py`, `run_vpn_demo.py`, `run_verification.py`) | their servers | deploy, start, check, stop | an undisturbed demo passes; no server outlives its program |
| Traffic servers, generator, validator (`framework/traffic/`) | sockets | serve, request, verdict | a failed transaction is reported as failed |
| Start-up scripts, documents | none | sequential calls | not modelled |

### How they interact

    run_lab, destroy_lab ─┐                                   ┌─ framework/observation
         topology.yaml    ▼                                   ▼   (sniffer thread)
       TopologyBuilder ─ NamespaceManager ─► the kernel ◄─ experiments/ ─► servers (processes)
                                              ▲    ▲          │              ▲
       LaboratoryValidator (reads) ───────────┘    │          ├─ ResourceCleanupManager (finally)
       VPNManager ─ key/WireGuard managers ────────┤          └─ EvaluationValidator (pre-flight)
         wireguard.yaml   └─► /tmp/vpn_research/   │                         │
       run_vpn_demo, run_traffic_demo, run_verification ─────────────────────┘

- Every manager method runs commands and reads their exit codes; almost every
  one asks `ip netns list` first. Between the two subprocesses anything can
  happen.
- `BaseExperiment.run` composes the components in one process and relies on a
  `finally` clause for releasing them. Runs follow one another on one host; what
  a killed run leaves is where the next one starts.
- The two configuration files are read by different programs and validated
  separately, although a tunnel can only be deployed if they fit together. A
  teardown reads the file as it is then, not as it was at the build.
- `CapturePipeline` is the only object two threads touch.

### Hard behaviours

Programs interleaved command by command; checks that are stale when the command
runs; builds and deployments that stop half-way and have no rollback; interrupts
in the body, in the cleanup and between `Popen` and `append`; SIGKILL anywhere;
configuration edited between runs; an exception that is swallowed after the payload was delivered; a file with a private key
and ports that programs share by name; a report emptied before it is filled; a sniffer thread that is stopped
before it says it is running; backends closed under the writer. `PROJECT.json`
lists each at its line under `hazards`, with the properties that watch it.

## 2. The modules and how they correspond to the code

| module | role |
|---|---|
| `HostNet` | the kernel's part: namespaces, veth pairs, addresses, flags, routes, as precondition and result of each `ip`/`sysctl` command |
| `Laboratory` | abstract: a set of namespaces that is ready or not, all that programs sharing a laboratory rely on |
| `Topology` | `build()`, `teardown()` by any number of processes over one `HostNet`; implements `Laboratory` |
| `Configuration` | `LabConfiguration`, `run_lab.py`, `destroy_lab.py` on a `topology.yaml` that is edited |
| `VpnConfiguration` | `VPNConfiguration` and `run_vpn_demo.py` on a `wireguard.yaml` that is edited, composed with `Configuration` |
| `VpnDeployment` | `deploy()` by any number of processes over namespaces others replace |
| `Experiment` | both experiments' `run()`, the cleanup, the orchestrator, the pre-flight, the report, reruns; implements `Laboratory` |
| `Capture` | main thread and sniffer thread over the two storage backends |
| `Validation` | `LaboratoryValidator.validate` beside programs that change the kernel, over `HostNet` |
| `Programs` | the two demos and the verification beside each other on a laboratory that comes and goes |
| `MC…` | the instances TLC checks |
| `TopologyProofs`, `TeardownProofs`, `ConfigurationProofs` (both configuration modules), `VpnDeploymentProofs`, `ExperimentProofs`, `CaptureProofs`, `ValidationProofs`, `ProgramsProofs` | theorems and proofs |

`Topology`, `Configuration` and `Validation` are composed with `HostNet`, which they
extend, and `VpnConfiguration` with `Configuration`, whose steps are its `LabStep`.
`Experiment` and `Programs` use coarser forms of what has a module of its own:
in `Experiment` namespaces still come and go one by one, because a run can be cut
off between them, while wiring, deployment and stopping the capture are one step each.

Definitions named `…Short`, `…Late`, `…Forgets` and the like, each under a
comment that begins with "Defect", are plausible mistakes in the definition that
follows. No specification uses them; putting one in the place of its original
shows that a property depends on that piece of code.

### HostNet and Topology

`net` is what the kernel knows. A command has a precondition (`CanRouteAdd`,
...) and a result; one whose precondition is false exits non-zero and changes
nothing. `Plan` is the sequence of manager calls of `build()`, computed from the
configuration in the code's loop order: per namespace create, loopback,
forwarding (`topology_builder.py:41-45`); the links (47-53); per interface
address and up (55-60); the routes (62-67). A process is at element `pc` of
its plan and at command `sub` of that element: `check` is `namespace_exists`,
`act` the command (`CreateCheck`/`CreateAct`, `ExecCheck`/`Execute`,
`DeleteCheck`/`DeleteAct`), `move1` and `move2` the two moves after `ip link
add` (`VethAdd`, `VethMove1`, `VethMove2`). `cache` is `_created_veths`, kept
from call to call as the code keeps it. `_run_cmd`'s exceptions are kept apart
because `cleanup()` swallows one of them only; the exit code of a failing
command is 1 or another. `seen` is history: which kinds of namespace changes
happened since a process's call began.

`Lab == INSTANCE Laboratory WITH present <- …, ready <- Conforms` maps the kernel to
the abstract laboratory: ready means that everything configured is in place.

Simplifications: deleting a namespace is immediate (the kernel keeps one that a
process still uses; `Experiment` has the consequence for servers), the routes
the kernel adds for connected subnets are left out here (`VpnDeployment` and
`Configuration` have them), `ip netns list` is atomic.

### Configuration and VpnConfiguration

`Verdict` and `VpnVerdict` are the two `validate()` methods: all checks in program
order, each the name of the exception it raises; the first one decides. `Commands`
and `DeployCommands` are what `build()` and `deploy()` run for a file that
is not known beforehand; `Ran` and `DeployRan` run them up to the first one the
kernel refuses. `Edit` and `EditVpn` change, add or remove one entry; `Renamed`
gives a namespace another name wherever it is mentioned. One program runs at a time and the host does not
fail by itself, so that what becomes of a build depends on files and kernel
alone; `Kill` cuts a program off after any command.

An address stands for its subnet. `Bad` is a string the parser refuses, `Single` an
address without prefix, `Ragged` a target with host bits set, which `strict=False` lets pass
and `ip route add` refuses. A WireGuard key is named after the deployment and the
namespace, because `keys` is a dictionary by namespace (`vpn_manager.py:42-46`): nodes of
one namespace share it.

### VpnDeployment

Each label of `at[p]` is a command of `deploy()`: key generation for all nodes,
which does not ask for the namespace; then per node `ip link add` (exclusive),
`write_text`, `chmod`, `wg setconf`, `exists`, `unlink`, address, MTU, up; then
per node routes and the role's boundary (forwarding and NAT, or the two
`rp_filter`s). `asked` is the `namespace_exists` of `execute`; `failing` an
exception waiting for the `finally` of `generate_and_apply_config`. A key is
named after the deployer and node that generated it, so "whose key is in this
interface" can be asked. `conf` is the shared directory. `tainted` and `lone` are
history and tell which deployers the promises are made to.

Simplifications: the deletion and creation of a namespace stand for
`teardown()` and for all of `build()` of that namespace; one node per namespace,
as in `configs/vpn/wireguard.yaml` (`VpnConfiguration` has others); the source of the masquerade rule, computed from
the first three octets, is not followed.

### Experiment

`pc` names the statements of `run()` in order (`Body`), then those of
`execute_cleanup` (`Cleanup`). `owned` is what has been registered and when:
the topology before it is built, the orchestrator before it starts anything,
the pipeline after its backends were opened. `Spawn` and `Track` are `Popen` and
`append`. `Terminate` and `Await` are SIGTERM and the two seconds that end in
SIGKILL. `pending` is the exception on its way through the `finally`: `Exception`
is swallowed by `run()`, `SystemExit` and `KeyboardInterrupt` go on. `json` is the
report of the connectivity experiment, which has a fixed path and outlives runs:
`GenerateReport` empties the file, `DumpReport` fills it. The validation experiment never
comes to its own: its `collect_results()` always raises (`Collect`; section 6), so that
registration, both report files and the check of the artifacts (`run_baseline_validation.py:129-160`)
are not modelled. `PreFlight` and `Verify` may refuse a sound environment, because the check for a
handshake refuses a time with the digit 0; `seen` then has `misread`.
`StepFails`, `Interrupt`, `Kill`, `ServiceDies` are the disturbances; `seen` remembers which
this run had. `NextRun` starts the next experiment on the host as it is.

Two constants say what the code depends on outside itself. `UpLeadsFlags`:
`ip link show` prints `UP` before the first comma, as the mock of
`tests/test_vpn_deployment.py:72` does. `RoutesFree`: the VPN routes can be
added. Neither is true of iproute2 and the shipped configuration (section 6);
the recovery run assumes both, or no run would get past deployment.

### Capture

Main thread: `start`, then `stop` up to twice (the traffic's end and the
experiment's cleanup), each `CheckRunning`, `Halt`, `Join`, and per backend a
close; SQLite's is a commit and a close. Sniffer thread: begin, open, then per
packet extract, count, write to each backend; SQLite's write is INSERT and commit.
Records of the JSONL backend wait in Python's buffer (`pending`) until a flush; `Kill` loses them.
AsyncSniffer is a library: `running` is set by the thread, `stop()` raises
unless sniffing, and what `running` says after a failed open depends on the
version, so it is either. `types` says whether the two members the code uses and
the tests assume exist; the run starts from both variants.

### Validation

`at` is the check `validate()` is at, `asked` again the `namespace_exists` of
`execute`. What a command shows is read from `net` at that step, while
`RivalDeletes` and `RivalBuilds` go on changing it. A ping is answered in a whole
laboratory and may or may not be in another. `start` is the kernel when
`validate()` was called; `seen` what others did since.

### Programs

Each of two programs picks a kind: `traffic` (servers, a ping, transactions), `vpn`
(deploy, servers, `VPNValidator.validate`), `verify` (`VerificationSuite.run_all`, which its
last step, `Collect`, always ends with an exception; section 6). `Sequence` is a kind's checks in order and `Outcomes` how each can end:
true, false, or with the exception that nobody on the way catches. `Spawn`,
`Append_`, `Stop`, `Await` are the orchestrator's; `Bind` is a server binding its
port, which a stream server cannot if another has it and a datagram server can; in a laboratory
that is not whole the server's namespace may be there or not. A deployment that is interrupted
or killed may leave a tunnel in part (`DeployCutShort`).
`Change` destroys or builds the laboratory under the programs (`stray`
remembers whose servers stayed in a deleted namespace). `fits` says whether
command output and VPN configuration are what the code expects, as `UpLeadsFlags` and
`RoutesFree` do in `Experiment`; both values are initial states. `calm` is history: whether anything was in a
program's way.

## 3. The runs

| run | instance | distinct states |
|---|---|---|
| `topology_shipped` | all of `topology.yaml`: 5 namespaces, 8 ends, 6 routes; teardown, build, teardown; every set of leftover namespaces; 1 fault; a kill anywhere | 1,053 |
| `topology_shared` | two `run_lab`, one `destroy_lab`; 2 namespaces, 1 link, 1 route | 225,703 |
| `topology_race` | three `destroy_lab`, 3 namespaces | 6,132 |
| `configuration` | 3 runs of `run_lab`, `destroy_lab`, `run_vpn_demo` in any order; 2 edits or kills; 3 namespaces, 2 links, 2 tunnel ends | 1,325,348 |
| `experiment_recovery` | connectivity, validation, connectivity; 2 namespaces, 2 servers, 3 disturbances | 389,894 |
| `experiment_preflight` | one validation experiment on a clean host | violated |
| `experiment_summary` | a connectivity experiment that is killed and a validation experiment | violated |
| `vpn_shared` | 2 deployers, 2 nodes, 2 deletions, 1 fault, kills | 865,222 |
| `vpn_shipped` | 1 deployer, the shipped routes | violated |
| `capture_session` | JSONL then SQLite, types as shipped and complete, 2 packets, 2 faults, interrupts or kills | 20,494 |
| `validation_rivals` | 2 namespaces, 9 foreign commands, 1 fault | 348,012 |
| `programs` | 2 programs, 2 servers each, 1 change of the laboratory, 1 interrupt, kill or dying server | 3,998,191 |

What they show:

- **topology_shipped.** `BuildSucceeds`: with no command failing for a reason of
  the host's own, the order of the phases gives each command what it needs, so
  build-after-teardown cannot fail from any set of leftover namespaces.
  `Terminates`: every started process ends. `TypeOK`. The configuration is
  complete; one fault is enough because the first fault ends the process.
- **topology_shared.** `BuildConforms`: a build that returns leaves all the
  configured forwarding, links, addresses and routes, although two builds and a teardown
  interleave, for a build during which no namespace was deleted: a builder that
  finds an element already there fails, it does not return over a half-made one.
  `TeardownClears`: a teardown during which nothing was created has removed every
  name. `HostLinkOwned`: a link end is on the root stack only while a process is between add and
  second move or ended there. `CachedPairsExist`: a pair in `_created_veths` exists
  as long as nobody deleted a namespace. `ImplementsLaboratory`: together
  the three are the abstract laboratory; no half-built one is ever ready.
  Two namespaces with a link and a route between them have every kind of
  element, and two builders and a destroyer every pair of racing programs.
- **topology_race.** Each racing teardown may fail at a namespace another
  deleted between check and command, but `RacingTeardownsClear`: they cannot all
  be cut short; `EventuallyCleared`: once all were started the
  laboratory goes for good. Three of each: one program can be overtaken twice.
- **configuration.** `AcceptedIsConsistent`: what `validate()` lets pass has unique
  names, existing peers and capture points. `BuildDependsOnFile`: after the teardown a
  build succeeds exactly for the files that can be built (`Buildable`, stated
  without the commands) on a root stack clear of their names, whatever earlier files, failed builds and
  killed programs left. `OnlyTheFile`: the laboratory built is the file's and holds nothing
  else. `DeployDependsOnFiles`: in namespaces without a tunnel `deploy()` succeeds
  exactly if the two files fit together (`Deployable`). `TunnelIsOfFile`: after a
  `deploy()` that returned each node holds the key of every interface its peers' namespaces were
  given, also for the accepted files with several nodes in one namespace. Three
  runs and two edits or kills are build, failed or edited deploy, redeploy, or
  the same with a rebuild under another name; edits nobody reads any more are left out.
- **experiment_recovery.** `CleanupReleases`: whatever failed, was interrupted
  or died, a run that ended through its `finally` released what it had registered.
  `StoppedBeforeDeleted`: servers before their namespace. `ExperimentEnvironment`:
  from verification to report everything used was set up by this run.
  `ReportsAreTrue`: a whole report on disk says SUCCESS exactly if the run that wrote it
  delivered its payload, and is one of the experiment whose path it has; a run cut off within the writing leaves
  a torn one, a run cut off before it leaves an earlier run's. `OnlyInterruptLosesServer`: a cleaned-up run
  leaves no server but the one whose `Popen` Ctrl-C cut off from its `append`.
  `UndisturbedRunSucceeds`: a run nothing disturbs delivers its payload and removes its laboratory
  whatever state an earlier one was killed in, and a connectivity run reports success, unless a link was stranded,
  the pre-flight refused or a handshake was misread.
  `ImplementsLaboratory`, `RunEnds`, `ServersDisappear`, `TypeOK`. Three runs are enough for a
  run that starts from what a run left that itself started from leftovers, and
  three disturbances for one in each or three in one.
- **vpn_shared.** `DeployedConsistently`: a deploy that returns has both nodes
  configured with its own keys, each holding the other's matching public key.
  `ConfigFileOwned`: the key file exists only between write and
  unlink of somebody, or was left by a kill or fault there. `LoneDeploySucceeds`
  for routes that collide with nothing. `NatOnce`: no number of failed and repeated deploys
  repeats the rule. `DeployedConsistently` and `NatOnce` leave out deployers that
  outlive a rebuild of the laboratory (`tainted`): such a deployer can leave a
  mixture, and a rule that a later clean deploy repeats. Two deletions replace both
  namespaces, or one of them twice.
- **capture_session.** `NoSilentLoss`: each packet handed to the callback is in
  all backends, or was counted as an error, or is the one in the callback, also when `stop()`
  closes the backends under the writer; only a JSONL file can lose records, to a kill or
  a close that raised. `DispatchedToAll`, `StopReleasesSinks`, `StopEnds`, and `StoppedIsFinal`: after
  a stop that returned nothing changes, unless that call came before the thread
  set `running` (then the sniffer stays for the rest of the program). Two packets:
  one is in the callback while `stop()` runs and one comes after. With the types as shipped
  every packet ends as an error.
- **validation_rivals.** `PassMeansWhole`: a pass is no snapshot, but when others
  only deleted meanwhile the laboratory was whole at the start, and when they only added it is
  whole at the end. With both, no claim can be made. `WholePasses`: a whole
  laboratory left alone passes, if `ip` prints as the parser expects. Nine
  foreign commands are a deletion and a complete reconstruction with one piece wrong.
- **programs.** `UndisturbedDemoPasses`: a demo alone on a whole laboratory, whose servers
  listen when it asks, passes; what takes its calm away is what can fail it.
  `NoServerLeft`: an ended program leaves no server of its own, with the exception of
  `OnlyInterruptLosesServer`. Two programs are every pair of kinds that can meet; an
  HTTP and a datagram server are the two kinds of port. The two programs are
  interchangeable (`Interchangeable`), which is sound because the run checks invariants only and
  none names a program.

`experiment_preflight`, `experiment_summary` and `vpn_shipped` find the violations of section 6.

`CHECK_DEADLOCK FALSE` is set in every configuration because every program ends;
that none hangs is `Terminates`, `RunEnds` and `StopEnds`. Bounds in guards:
`MaxFaults`, `MaxRebuilds`, `MaxChanges`, `MaxPackets`, `MaxRuns`.

## 4. Fairness

- `Topology`: weak fairness of each process's `Step`. The operating system
  schedules every process; nobody is forced to start a program, and no
  `CommandFails` or `Kill` has to happen.
- `Experiment`: weak fairness of the program's `Step`, and of a server's end after
  SIGKILL, which the kernel carries out. SIGTERM need not have any effect.
- `Capture`: weak fairness of both threads, which Python schedules. Packets need
  not come and the interface need not end.
- `Configuration`, `VpnConfiguration`, `VpnDeployment`, `Validation`, `Programs`: safety only.

## 5. The proofs

Every theorem is for all values of the constants that satisfy the module's named
assumption: `ConfigAssumption` and `ProcAssumption` (what
`LabConfiguration.validate` accepts; a script of calls per process),
`FileAssumption` and `VpnFileAssumption` (the first files are files, no namespace is called
as the root stack is), `ExperimentAssumption`, `VpnAssumption`, `CaptureAssumption`,
`ValidationAssumption`, `ProgramsAssumption`. These say what kind of value a constant is and that a marker
(`None`) is not the name of anything. What a theorem needs beyond that is a
hypothesis in its statement, with an instance among the runs that satisfies it.

| theorem | says | argument |
|---|---|---|
| `TypeCorrect` | `TypeOK` of `Topology` | one lemma per group of actions; `PlanType` bounds the indices in `Plan` |
| `BuildEstablishesConfig` | `BuildConforms`, if every interface name has one home (`OneHome`) | `BuildInv` |
| `TeardownRemovesNamespaces` | `TeardownClears` | `ClearInv` |
| `RacersClearTogether` | `RacingTeardownsClear`, if programs only tear down | `RaceInv` |
| `HostLinksHaveOwners` | `HostLinkOwned` | `OwnedInv` |
| `LoneBuildSucceeds` | `BuildSucceeds`, if one program runs (`Alone`), every `build()` follows a `teardown()` (`ClearsFirst`), and the configuration neither makes a link twice (`LinksFit`) nor a route that collides (`RoutesFit`) | `LoneInv` |
| `LaboratoryImplemented` | `Topology` implements `Laboratory` (`ImplementsLaboratory`), if there is a namespace | `RefInv` |
| `CacheIsSound` | `CachedPairsExist`, given `OneHome` | from `BuildInv` |
| `ExperimentTypes`, `CleanupIsComplete`, `ResultsAreOfThisRun`, `ReportsStayTrue`, `NoOtherServerIsLost`, `ServersStopFirst` | `TypeOK`, `CleanupReleases`, `ExperimentEnvironment`, `ReportsAreTrue`, `OnlyInterruptLosesServer`, `StoppedBeforeDeleted` | `ExpInv` |
| `UndisturbedSucceeds` | `UndisturbedRunSucceeds`, given `UpLeadsFlags`, `RoutesFree` and a server | `Achieved` on top of `ExpInv` |
| `RunsShareLaboratory` | `Experiment` implements `Laboratory` | one lemma per kind of step |
| `CaptureTypes`, `NothingLostSilently`, `StopReleases`, `StopIsFinal` | `TypeOK`, `NoSilentLoss`, `StopReleasesSinks`, `StoppedIsFinal` | `Inv` of `CaptureProofs` |
| `EveryBackendHasIt` | `DispatchedToAll` | `Dispatched` on top of `Inv` |
| `DeploymentTypes`, `EveryDeployIsWhole` | `TypeOK`, `DeployedConsistently` | `VpnInv` |
| `KeyFileHasOwner` | `ConfigFileOwned` | itself inductive |
| `OneMasqueradeRule` | `NatOnce` | `NatByHolder` on top of `VpnInv` |
| `AloneItSucceeds` | `LoneDeploySucceeds`, if the routes of the file are free (`RoutesFree`) | `LoneInv` on top of `VpnInv` |
| `ValidationTypes`, `PassIsMeaningful` | `TypeOK`, `PassMeansWhole` | `ReadInv` |
| `WholeIsRecognised` | `WholePasses`, if the validator can recognise what the configuration asks for (`Recognisable`) | `CalmInv` |
| `FilesAlways` | what is edited stays a file, and programs work with what passed `validate()` | itself inductive (`FilesInv`) |
| `AcceptedFilesAreConsistent` | `AcceptedIsConsistent` | `FilesInv` and `FineIsConsistent` |
| `BuiltIsOnlyTheFile` | `OnlyTheFile` | `NetInv` |
| `DeployedTunnelIsOfFile` | `TunnelIsOfFile` | `TunnelInv` |
| `ProgramTypes`, `EveryServerIsStopped`, `UndisturbedItPasses` | `TypeOK`, `NoServerLeft`, `UndisturbedDemoPasses` | `Tracking`, then `Untroubled` on top of it |

- **BuildInv.** `BuildConforms` speaks of a finished build; the invariant says
  that every element *before* `pc` has its effect (`Applied`). It is kept
  because, unless a namespace is deleted, the steps of any program let the
  network grow (`Grows`): what is whole stays. Links are the exception, since a
  half-moved pair changes; `LinkInProgress` says where each end of a pair in
  progress can be and `CacheReal` that `_created_veths` names only pairs that exist. `OneHome`
  is needed because `validate()` does not demand that two interface
  definitions agree on where an end lives: with names that have two homes another
  builder can move an end elsewhere.
- **ClearInv.** `Removed`: names before `pc` are gone. Only `ip netns add`
  brings one back, and every process notes it.
- **RaceInv.** There is always a `Leader`, a process that has not failed
  and is nowhere behind. A process fails only where the namespace vanished after
  its check, and then somebody is ahead of it (`Overtaken`), so the leader never is the one to fail.
- **OwnedInv.** An end on the root stack is one some builder between `ip link add` and its
  second move answers for (`Answers`): a move takes every end of its name off the root stack, and
  `ip link add` refuses a name that is there. So it holds for any configuration and any number of builders.
- **LoneInv of TeardownProofs** says exactly what the kernel contains at each step of a lone
  `build()`: the effect of the elements before `pc` and half a link (`SoFar`); before that, while `teardown()`
  runs, no name before `pc` and nothing else at all (`Cleared`). Then each command's precondition holds
  because of `LinksFit` and `RoutesFit`, which say what `validate()` leaves unchecked: every
  interface is an end of one link, every route has its device and gateway and is unique.
- **RefInv.** A step lets the network grow, and then a ready laboratory stays ready; or
  deletes a namespace, and then it is ready no longer; or creates one, which cannot make it
  ready because a new namespace's loopback is down (`LoopbackInside`). Initial states map to initial states.
- **ExpInv** says label by label how far the run has got: how many servers are
  tracked (`Counting`), what of the laboratory is there (`BuiltSoFar`), the state of
  the servers, the capture, the report, and what the cleanup has released
  (`ReleasedSoFar`). `CleanupReleases` is its last label. Its report part follows the file
  from the moment it is emptied, so a report that is whole was written to the end; that only a connectivity
  run comes to the report is part of it, because `Collect` ends every other.
- **Inv of CaptureProofs.** `Kept` counts per backend: every delivered packet is stored,
  an error, or outstanding at the place of the loop the thread is at. `Inserted` covers the step between
  INSERT and commit, `NothingHeld` and `ClosedUpTo` the closing loop, `Halted` a thread that was waited for.
- **VpnInv.** `SoFar`: an untainted deployer past the first `create` owns the
  interfaces and keys of all earlier nodes, because creation is exclusive and only
  the owner reaches `setconf`. `Contagious`: while a deployer that outlived a rebuild runs,
  every running or finished one is tainted.
- **NatByHolder.** While no namespace is deleted under a deployer an interface stays its
  creator's, so the one deployer that comes to the second loop owns them all, and it comes by each node once (`PastNat`).
- **LoneInv of VpnDeploymentProofs.** What is before a lone deployer is not there yet: no interface
  (`CreateAhead`), no address (`AddressAhead`), no route but its own and the laboratory's (`RoutesKnown`).
- **Dispatched.** While nothing fails the backends' counts differ only by the place
  in the dispatch loop (`Awaited`), and a database holds back at most the row of the present packet.
- **ReadInv.** `SoFar(k, a)`: everything checked before position `a` is in place
  in `k`. It holds of the kernel at the start while others only delete (then
  `Below(net, start)`: what is read now was there then) and of the present one while others only
  add (what was read stays). **CalmInv**, for the converse, needs no such history: undisturbed, the validator
  reads the kernel it was called on, and asks for an address only where one is configured.
- **FilesInv.** An accepted file is `Fine`: each check of `validate()`, read as a statement
  about the file. The list of checks is a concatenation of concatenations, as are the commands of
  `build()` and `deploy()`; `Flattened` says once where the elements of the parts are in the whole, by
  induction along the parts (`SetInduction`, from the library's operator-free facts on well-founded
  relations).
- **NetInv.** A link's ends are on the root stack or in a namespace that exists
  (`Anchored`), so that after the teardown none is in the file's namespaces; then every
  command moves there only what the file declares, and nothing already moved away
  (`BuiltIsFile`, by induction along the commands). Kills keep `Anchored`, nothing else is needed of them.
- **TunnelInv.** Each interface is created immediately before it is configured, and creating one
  that is there fails; so no later node undoes an earlier one's (`DeployedIsOfFile`), and key
  generation has found every namespace. The files may change afterwards, what was deployed does not.
- **Tracking** (`Programs`): a server is tracked, is being appended, or was started by a program an interruption or a
  kill ended in between; the stopping loop leaves none alive behind it. **Untroubled** says what a demo that
  started calm has kept: its servers, its tunnel, no failed check.

`TypeOK` of `VpnDeployment` and `Validation` is proved and no longer among the runs' invariants.

Only model-checked: all liveness (`Terminates`, `EventuallyCleared`, `RunEnds`,
`ServersDisappear`, `StopEnds`), which is out of the prover's reach under
fairness; and `BuildDependsOnFile` and `DeployDependsOnFiles`, which say of every file, whether its
whole sequence of commands goes through.

## 6. What the work found

With a run that shows it:

- The validation experiment's pre-flight examines a laboratory that
  `setup_lab()` builds only later; on a clean host it always ends there
  (`experiment_preflight`).
- `InterfaceStats` is a dataclass with `slots=True` (`lab/validation/metrics_collector.py:20`), so it has no
  `__dict__`, which two places take. `run_baseline_validation.py:127` is one: every validation experiment that
  has delivered its payload raises there, `run()` swallows it, no report is written, and the summary prints
  "Artifact Generation ....... SUCCESS" and the exit code is 0 (`experiment_summary`).
  `lab/validation/verification_runner.py:140` is the other: no `run_all()` returns, and `run_verification.py` always ends
  with exit code 1 and without a report, which is plain from the line and the step `Collect` of `Programs`. The tests replace the collector by a
  `SimpleNamespace`, which has a `__dict__`.
- The routes in `configs/vpn/wireguard.yaml` collide with the connected route of
  `wg0` and with the default route of `topology.yaml`: `deploy()` always raises
  (`vpn_shipped`; `Deployable` of `VpnConfiguration` says what would have to change).

Met while modelling, plain in the source, without a run:

- `namespace_manager.py:121-126` names `os`, which is not imported: exit code 1
  raises `NameError` instead of the documented exceptions. Everything that catches
  `CommandExecutionError` misses exit code 1: an unanswered ping or a missing link ends
  `LaboratoryValidator`, the traffic demo and the verification.
- `lab/vpn/validator.py:57` wants `UP` before the first comma of `ip link show`;
  iproute2 prints other flags first. `lab/validation/validator.py:56` parses the same way.
- `PacketType.UNKNOWN` and `PacketMetadata.to_dict` do not exist
  (`extractor.py:92`, `storage.py:45`), so the callback counts every packet as an error.
- JSONL records wait in a buffer until `close()`, although the class calls itself
  "Highly resilient to crashes" (`storage.py:29`).
- `lab/config.py:5` "Ensures consistency of IPs, subnets, interfaces, and routes before
  execution", but accepts files nobody can build (`Buildable` lists what they lack), such as the one in
  `tests/test_config.py:20-35`. `lab/vpn/config.py` checks neither MTU, keepalive, gateways
  nor devices, accepts several nodes per namespace, and accepts the protocol `openvpn`,
  which is then deployed as WireGuard.
- `teardown()` "Erases the entire configuration footprint" (`topology_builder.py:73`), except what a
  kill left on the root stack, which makes every later build of that link fail; the comment at
  `experiment_runtime.py:86` promises a pristine start. Namespaces under names the file no longer has stay too.
- `framework/utils/platform.py`, which `run_lab.py`, `destroy_lab.py` and both demos import, is
  missing. The guard `is_admin() != 0` of the first two refuses exactly those it should let pass, the
  demo defines `main` twice so that its guard never runs, and `run_verification.py:25` calls an
  `is_admin` nobody defines.
- `run_verification.py` needs an HTTP server that no program leaves running (`NoServerLeft`), only a demo beside it.
- The check for a handshake tests for the digit 0 in the output and so rejects any timestamp with one
  (`lab/vpn/validator.py:78-79`, `verification_runner.py:82`).
- The verification's throughput one-liner is a `SyntaxError`, which is reported as 0.0.
- A default route without gateway is accepted by the configuration and never found
  by `LaboratoryValidator`, which looks for "default via"; `VerificationSuite`
  looks for "default dev wg0", so no configuration satisfies both.
- `print_final_summary` prints six PASS lines for any run.
- Behind the collection that always raises, and so without effect today: the configuration files are hashed when the
  report is written, not "before execution" (`framework/evaluation/experiment_registry.py:29`), and every report
  file is emptied before it is filled (`open("w")`, `write_text`).
- A server whose `Popen` was interrupted before `append` is never stopped.
- `TrafficGenerator._execute` returns failures for one exception only; the
  exit code 1 of a Python client comes out as `NameError` and ends the experiment.
- A second `build()` on one builder skips the links of the first
  (`_created_veths` outlives `teardown()`); no program does this.

## 7. What is not modelled

- Which packets the kernel delivers, the WireGuard handshake, timing other than
  "the timeout passed first or not".
- Field contents: packet records, `flow_id`, byte counts, report texts, the numbers of
  `MetricsCollector`. The dataclasses of `observation/models.py` that nothing uses.
- `save_keypair`, `load_keypair`, `validate_keypair`, which no program calls.
- The comparator and the experiment specification: pure functions whose results no program
  branches on.
- The inside of the traffic servers and clients, seen as processes, ports and outcomes.
- What comes after the two collections that always raise: `ExperimentRegistry`, `ReportBuilder`, `ArtifactValidator` and
  `ReportGenerator`. No program reaches them; once the `__dict__` is mended, their steps belong between
  `Collect` and the cleanup of `Experiment`, and after `Collect` of `Programs`.
- The root checks of the programs: the file they come from is missing.
- Bootstrap, logging, the capture demo (its calls are those `Capture` has), empty modules such as
  `artifact_manifest.py`, documents.

## 8. The plan

Done, in this order: `HostNet` and `Topology` with their proofs, because every program goes
through the builder; `Experiment`, which composes the parts and has the recovery
behaviour; `VpnDeployment`; `Capture`; `Validation`; then the abstract `Laboratory` with both
refinements proved, `CaptureProofs`, the report in `Experiment`, `Configuration`,
`Programs` and `VpnConfiguration`.

Then the rest of the safety invariants were proved, in `ProgramsProofs` and
`ConfigurationProofs` and beside the earlier ones.

Next, proofs only: `BuildDependsOnFile` and `DeployDependsOnFiles`. Both directions need the
exact state of the kernel after each command, as `LoneInv` of `TeardownProofs` has it, for a file
that is not a constant; `BuiltIsFile` and `DeployedIsOfFile` show how the induction goes.
