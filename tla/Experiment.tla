----------------------------- MODULE Experiment -----------------------------
(***************************************************************************)
(* experiments/: BaseExperiment.run with the two experiments of the        *)
(* repository (BaselineConnectivityExperiment, "connectivity", and         *)
(* BaselineValidationExperiment, "validation"), ResourceCleanupManager,    *)
(* ServiceOrchestrator and the pre-flight of EvaluationValidator.          *)
(*                                                                         *)
(* Runs follow one another on one host.  A run may fail at a command, be   *)
(* interrupted (KeyboardInterrupt) or be killed at any step; what it       *)
(* leaves on the host is what the next run starts from.  Topology.tla      *)
(* models the commands of teardown() and build() one by one; here          *)
(* namespaces come and go one by one and the wiring is one step.           *)
(***************************************************************************)
EXTENDS Integers, Sequences

CONSTANTS
  Namespaces,  \* the laboratory's namespaces, in configuration order
  AppServer,   \* the one the services run in
  Services,    \* number of servers start_all spawns
  Kinds,       \* Kinds[r]: the experiment run r executes
  UpLeadsFlags,  \* `ip link show` prints UP before its first comma, as the
                 \* mock of tests/test_vpn_deployment.py:72 does and
                 \* iproute2 ("<POINTOPOINT,NOARP,UP,...>") does not
  RoutesFree,    \* the routes of the VPN configuration do not collide with
                 \* those of the kernel and of topology.yaml; they do in
                 \* configs/vpn/wireguard.yaml (see VpnDeployment)
  MaxFaults    \* bound: failures, interrupts, kills and service deaths in all

NsNames == {Namespaces[k] : k \in 1..Len(Namespaces)}
MaxRuns == Len(Kinds)

ExperimentAssumption ==
  /\ Namespaces \in Seq(STRING)
  /\ \A j, k \in 1..Len(Namespaces) : Namespaces[j] = Namespaces[k] => j = k
  /\ AppServer \in NsNames
  /\ Services \in Nat
  /\ Kinds \in Seq({"connectivity", "validation"})
  /\ Kinds # <<>>
  /\ UpLeadsFlags \in BOOLEAN /\ RoutesFree \in BOOLEAN
  /\ MaxFaults \in Nat

ASSUME ExperimentAssumption

VARIABLES
  \* the host, which outlives a run
  lab,       \* names of the existing namespaces
  wired,     \* the links, addresses and routes of build() are all in place
  tunnel,    \* what VPNManager.deploy sets up is in place
  stranded,  \* a veth pair is left with both ends on the root stack
  procs,     \* procs[r][k]: the k-th server that run r spawned
  json,      \* json[kind]: the JSON report of an experiment, under one path for
             \* all its runs: [by: the run, status]
  \* the experiment program of the current run
  run, pc, i,
  pending,   \* the exception on its way out of run(), or "none"
  owned,     \* what is registered with the ResourceCleanupManager
  tracked,   \* Len(ServiceOrchestrator.processes)
  sniffer, sinks,  \* CapturePipeline and its storage backends
  success,   \* the HTTP transaction delivered its payload
  status,    \* ExperimentMetrics.status
  exit,      \* how the program ended
  \* the environment
  delivered, \* history: the runs whose transaction delivered its payload
  seen,      \* history: what disturbed the current run
  faults

host == <<lab, wired, tunnel, stranded, procs>>
resources == <<owned, tracked>>
capture == <<sniffer, sinks>>
outcome == <<success, status, delivered>>
data == <<json, resources, capture, outcome, exit>>
env == <<seen, faults>>
vars == <<host, run, pc, i, pending, data, env>>

Kind == Kinds[run]

\* Labels of run(), in order; the deletion and creation loops and the loop of
\* start_all use i.
Body ==
  {"load", "register_topology", "vpn_manager", "register_orchestrator",
   "preflight", "clear", "create", "wire", "deploy", "spawn", "append", "wait",
   "verify", "sinks", "register_capture", "sniff", "traffic", "stop_capture",
   "collect", "report", "dump"}
Cleanup == {"stop_pipeline", "stop_services", "await_service", "release"}
Running == Body \union Cleanup \union {"end"}

\* A process is "none" before Popen, "up", "stray" once its namespace was
\* deleted under it, "terminating" after SIGTERM, "killed" after SIGKILL.
Alive == {"up", "stray", "terminating"}

\* Port 8000 belongs to the first server.
Listening(k) == \E r \in 1..run : procs[r][k] = "up"

HttpAnswers == wired /\ tunnel /\ Listening(1)

NoReport == [by |-> 0, status |-> "none"]

\* Every check of VPNValidator.validate passes, but for the digits of the
\* handshake's time: see Verify.
EnvironmentValid == lab = NsNames /\ HttpAnswers /\ UpLeadsFlags

-----------------------------------------------------------------------------
Init ==
  /\ lab = {} /\ wired = FALSE /\ tunnel = FALSE /\ stranded = FALSE
  /\ procs = [r \in 1..MaxRuns |-> [k \in 1..Services |-> "none"]]
  /\ run = 1 /\ pc = "load" /\ i = 1 /\ pending = "none"
  /\ owned = {} /\ tracked = 0
  /\ json = [k \in {"connectivity", "validation"} |-> NoReport]
  /\ sniffer = "none" /\ sinks = "none" /\ success = FALSE
  /\ status = "UNKNOWN" /\ exit = "none"
  /\ delivered = {} /\ seen = {} /\ faults = 0

Goto(l) == pc' = l /\ i' = 1 /\ UNCHANGED <<run, pending>>
Loop == i' = i + 1 /\ UNCHANGED <<run, pc, pending>>

\* run(): an exception leaves the body for the finally clause.
Raise(e) ==
  /\ pending' = e
  /\ pc' = "stop_pipeline"
  /\ i' = 1
  /\ UNCHANGED run

-----------------------------------------------------------------------------
\* BaseExperiment.initialize

\* Steps without an effect the model follows: reading the configuration,
\* building the VPNManager, the two seconds of wait_until_ready.
Proceed ==
  /\ \/ pc = "load" /\ Goto("register_topology")
     \/ pc = "vpn_manager" /\ Goto("register_orchestrator")
     \/ pc = "wait" /\ Goto("verify")
  /\ UNCHANGED <<host, data, env>>

Register(l, resource, after) ==
  /\ pc = l
  /\ owned' = owned \union {resource}
  /\ Goto(after)
  /\ UNCHANGED <<host, json, tracked, capture, outcome, exit, env>>

RegisterTopology == Register("register_topology", "topology", "vpn_manager")

RegisterOrchestrator ==
  Register("register_orchestrator", "orchestrator",
           IF Kind = "validation" THEN "preflight" ELSE "clear")

\* _test_handshake wants no "0" in what `wg show` prints, and the time of a
\* handshake has one as likely as not.  A run refused for that is misread.
Misread == seen' = seen \union {"misread"}

\* EvaluationValidator.run_pre_flight_checks: every failure is a SystemExit.
PreFlight ==
  /\ pc = "preflight"
  /\ LET ready == EnvironmentValid /\ \A k \in 1..Services : Listening(k)
     IN \/ ready /\ Goto("clear") /\ UNCHANGED seen
        \/ ~ready /\ Raise("SystemExit") /\ UNCHANGED seen
        \/ EnvironmentValid /\ Raise("SystemExit") /\ Misread
  /\ UNCHANGED <<host, data, faults>>

-----------------------------------------------------------------------------
\* setup_lab

\* One namespace of NamespaceManager.cleanup.  The links that touch it and
\* the tunnel go with it; a process inside it lives on, out of reach.
DeleteNamespace(n) ==
  /\ lab' = lab \ {n}
  /\ wired' = (wired /\ n \notin lab)
  /\ tunnel' = (tunnel /\ n \notin lab)
  /\ procs' = IF n # AppServer THEN procs
              ELSE [r \in 1..MaxRuns |-> [k \in 1..Services |->
                      IF procs[r][k] = "up" THEN "stray" ELSE procs[r][k]]]
  /\ UNCHANGED stranded

\* Defect: the teardown before the build leaves the last namespace.
ClearShort ==
  /\ pc = "clear"
  /\ IF i < Len(Namespaces)
     THEN DeleteNamespace(Namespaces[i]) /\ Loop
     ELSE Goto("create") /\ UNCHANGED host
  /\ UNCHANGED <<data, env>>

Clear ==
  /\ pc = "clear"
  /\ IF i <= Len(Namespaces)
     THEN DeleteNamespace(Namespaces[i]) /\ Loop
     ELSE Goto("create") /\ UNCHANGED host
  /\ UNCHANGED <<data, env>>

\* Defect: the creation loop misses the last namespace.
CreateShort ==
  /\ pc = "create"
  /\ IF i >= Len(Namespaces)
     THEN Goto("wire") /\ UNCHANGED lab
     ELSE IF Namespaces[i] \in lab
          THEN Raise("Exception") /\ UNCHANGED lab
          ELSE lab' = lab \union {Namespaces[i]} /\ Loop
  /\ UNCHANGED <<wired, tunnel, stranded, procs, data, env>>

Create ==
  /\ pc = "create"
  /\ IF i > Len(Namespaces)
     THEN Goto("wire") /\ UNCHANGED lab
     ELSE IF Namespaces[i] \in lab
          THEN Raise("Exception") /\ UNCHANGED lab
          ELSE lab' = lab \union {Namespaces[i]} /\ Loop
  /\ UNCHANGED <<wired, tunnel, stranded, procs, data, env>>

\* Phases 2 to 4 of build(); `ip link add` fails on a name that is taken.
Wire ==
  /\ pc = "wire"
  /\ wired' = ~stranded
  /\ IF stranded THEN Raise("Exception") ELSE Goto("deploy")
  /\ UNCHANGED <<lab, tunnel, stranded, procs, data, env>>

\* VPNManager.deploy; VpnDeployment.tla models its commands.
DeployVpn ==
  /\ pc = "deploy"
  /\ IF RoutesFree
     THEN tunnel' = TRUE /\ Goto("spawn")
     ELSE Raise("Exception") /\ UNCHANGED tunnel
  /\ UNCHANGED <<lab, wired, stranded, procs, data, env>>

\* ServiceOrchestrator.start_all: Popen ...
SpawnUpTo(n) ==
  /\ pc = "spawn"
  /\ IF i <= n
     THEN /\ procs' = [procs EXCEPT ![run][i] = "up"]
          /\ pc' = "append"
          /\ UNCHANGED <<run, i, pending>>
     ELSE Goto("wait") /\ UNCHANGED procs
  /\ UNCHANGED <<lab, wired, tunnel, stranded, data, env>>

\* Defects: one server too many, one too few.
SpawnOneMore == SpawnUpTo(Services + 1)
SpawnOneLess == SpawnUpTo(Services - 1)

\* The four servers of start_all.
Spawn == SpawnUpTo(Services)

\* ... then self.processes.append.
Track ==
  /\ pc = "append"
  /\ tracked' = tracked + 1
  /\ pc' = "spawn" /\ i' = i + 1
  /\ UNCHANGED <<host, run, pending, json, owned, capture, outcome, exit, env>>

Verify ==
  /\ pc = "verify"
  /\ \/ /\ EnvironmentValid
        /\ Goto(IF Kind = "validation" THEN "sinks" ELSE "traffic")
        /\ UNCHANGED seen
     \/ ~EnvironmentValid /\ Raise("Exception") /\ UNCHANGED seen
     \/ EnvironmentValid /\ Raise("Exception") /\ Misread
  /\ UNCHANGED <<host, data, faults>>

-----------------------------------------------------------------------------
\* execute_experiment, collect_results, generate_report

OpenSinks ==
  /\ pc = "sinks"
  /\ sinks' = "open"
  /\ Goto("register_capture")
  /\ UNCHANGED <<host, json, resources, sniffer, outcome, exit, env>>

RegisterCapture == Register("register_capture", "pipeline", "sniff")

StartSniffer ==
  /\ pc = "sniff"
  /\ sniffer' = "running"
  /\ Goto("traffic")
  /\ UNCHANGED <<host, json, resources, sinks, outcome, exit, env>>

\* Defect: whatever came back counts.
OutcomeOptimistic(delivers) == "SUCCESS"

\* TrafficGenerator._execute returns (False, ...) for a CommandExecutionError
\* only; the exit code 1 of a Python client that fails comes out of _run_cmd
\* as a NameError.
Outcome(delivers) == IF delivers THEN "SUCCESS" ELSE "FAILED"

Traffic ==
  /\ pc = "traffic"
  /\ \/ /\ ~HttpAnswers
        /\ Raise("Exception")
        /\ UNCHANGED outcome
     \/ /\ success' = HttpAnswers
        /\ delivered' = IF HttpAnswers THEN delivered \union {run} ELSE delivered
        /\ IF Kind = "validation"
           THEN Goto("stop_capture") /\ UNCHANGED status
           ELSE Goto("collect") /\ status' = Outcome(HttpAnswers)
  /\ UNCHANGED <<host, json, resources, capture, exit, env>>

\* CapturePipeline.stop
StopPipeline ==
  /\ sniffer' = IF sniffer = "running" THEN "stopped" ELSE sniffer
  /\ sinks' = "closed"

StopCapture ==
  /\ pc = "stop_capture"
  /\ StopPipeline
  /\ status' = Outcome(success)
  /\ Goto("collect")
  /\ UNCHANGED <<host, json, resources, success, delivered, exit, env>>

\* The validation experiment takes the __dict__ of an InterfaceStats, a
\* dataclass with slots and so without one: an AttributeError, whatever was
\* measured, and no report.
Collect ==
  /\ pc = "collect"
  /\ IF Kind = "validation" THEN Raise("Exception") ELSE Goto("report")
  /\ UNCHANGED <<host, data, env>>

\* open(..., "w") empties what an earlier run left, ...
GenerateReport ==
  /\ pc = "report"
  /\ json' = [json EXCEPT ![Kind] = [by |-> run, status |-> "torn"]]
  /\ Goto("dump")
  /\ UNCHANGED <<host, resources, capture, outcome, exit, env>>

\* ... json.dump fills it.
DumpReport ==
  /\ pc = "dump"
  /\ json' = [json EXCEPT ![Kind].status = status]
  /\ Goto("stop_pipeline")
  /\ UNCHANGED <<host, resources, capture, outcome, exit, env>>

-----------------------------------------------------------------------------
\* The finally clause: ResourceCleanupManager.execute_cleanup

\* Defect: the laboratory is released before the services.
CleanupPipelineThenLab ==
  /\ pc = "stop_pipeline"
  /\ IF "pipeline" \in owned THEN StopPipeline ELSE UNCHANGED <<sniffer, sinks>>
  /\ Goto("release")
  /\ UNCHANGED <<host, json, resources, outcome, exit, env>>

\* Closing a second time raises in SQLiteStorage.close; it is swallowed.
CleanupPipeline ==
  /\ pc = "stop_pipeline"
  /\ IF "pipeline" \in owned THEN StopPipeline ELSE UNCHANGED <<sniffer, sinks>>
  /\ Goto("stop_services")
  /\ UNCHANGED <<host, json, resources, outcome, exit, env>>

\* Defect: the last server is not stopped.
TerminateShort ==
  /\ pc = "stop_services"
  /\ IF i < tracked
     THEN /\ procs' = [procs EXCEPT ![run][i] =
                         IF @ \in Alive THEN "terminating" ELSE @]
          /\ pc' = "await_service"
          /\ UNCHANGED <<run, i, pending>>
     ELSE Goto("release") /\ UNCHANGED procs
  /\ UNCHANGED <<lab, wired, tunnel, stranded, data, env>>

\* ServiceOrchestrator.stop_all: terminate, wait two seconds, kill.  A
\* registered orchestrator that started nothing has an empty list.
Terminate ==
  /\ pc = "stop_services"
  /\ IF i <= tracked
     THEN /\ procs' = [procs EXCEPT ![run][i] =
                         IF @ \in Alive THEN "terminating" ELSE @]
          /\ pc' = "await_service"
          /\ UNCHANGED <<run, i, pending>>
     ELSE Goto("release") /\ UNCHANGED procs
  /\ UNCHANGED <<lab, wired, tunnel, stranded, data, env>>

\* Defect: wait() has no timeout.
AwaitForever ==
  /\ pc = "await_service"
  /\ procs[run][i] = "gone"
  /\ pc' = "stop_services" /\ i' = i + 1
  /\ UNCHANGED <<host, run, pending, data, env>>

\* Defect: a server that outlasts the timeout is not killed.
AwaitGivesUp ==
  /\ pc = "await_service"
  /\ pc' = "stop_services" /\ i' = i + 1
  /\ UNCHANGED <<host, run, pending, data, env>>

Await ==
  /\ pc = "await_service"
  /\ procs' = [procs EXCEPT ![run][i] = IF @ = "gone" THEN @ ELSE "killed"]
  /\ pc' = "stop_services" /\ i' = i + 1
  /\ UNCHANGED <<lab, wired, tunnel, stranded, run, pending, data, env>>

Release ==
  /\ pc = "release"
  /\ IF "topology" \in owned /\ i <= Len(Namespaces)
     THEN DeleteNamespace(Namespaces[i]) /\ Loop
     ELSE Goto("end") /\ UNCHANGED host
  /\ UNCHANGED <<data, env>>

\* main(): run() swallowed an Exception and returns; SystemExit goes on.
End ==
  /\ pc = "end"
  /\ exit' = CASE pending \in {"none", "Exception"} -> "ok"
               [] pending = "SystemExit" -> "error"
               [] pending = "KeyboardInterrupt" -> "interrupted"
  /\ Goto("ended")
  /\ UNCHANGED <<host, json, resources, capture, outcome, env>>

\* Somebody runs the next experiment on this host.
NextRun ==
  /\ pc = "ended"
  /\ run < MaxRuns
  /\ run' = run + 1
  /\ pc' = "load" /\ i' = 1 /\ pending' = "none"
  /\ owned' = {} /\ tracked' = 0
  /\ sniffer' = "none" /\ sinks' = "none" /\ success' = FALSE
  /\ status' = "UNKNOWN" /\ exit' = "none"
  /\ seen' = {}
  /\ UNCHANGED <<host, json, delivered, faults>>

-----------------------------------------------------------------------------
Disturb(event) ==
  /\ faults < MaxFaults
  /\ faults' = faults + 1
  /\ seen' = seen \union {event}

\* Stopping build() between an `ip link add` and its first move strands the
\* pair; anywhere else it does not.
WiringCutShort ==
  IF pc = "wire" THEN stranded' \in {stranded, TRUE} ELSE UNCHANGED stranded

Fallible == Body \ {"register_topology", "register_orchestrator", "append",
                    "wait", "register_capture"}

\* A step fails for a reason the model does not follow.  execute_cleanup goes
\* on with the next resource; the failed one is not tried again.
StepFails ==
  /\ \/ /\ pc \in Fallible
        /\ Disturb("failure")
        /\ Raise(IF pc = "preflight" THEN "SystemExit" ELSE "Exception")
        /\ WiringCutShort
     \/ /\ pc = "stop_pipeline" /\ "pipeline" \in owned
        /\ Disturb("stop_failed")
        /\ Goto("stop_services")
        /\ UNCHANGED stranded
     \/ /\ pc = "release" /\ "topology" \in owned /\ i <= Len(Namespaces)
        /\ Disturb("release_failed")
        /\ Goto("end")
        /\ UNCHANGED stranded
  /\ UNCHANGED <<lab, wired, tunnel, procs, data>>

\* Ctrl-C.  In the body it goes through the finally clause; inside
\* execute_cleanup nothing catches it and the rest is skipped.
Interrupt ==
  /\ \/ /\ pc \in Body
        /\ Disturb("interrupt")
        /\ Raise("KeyboardInterrupt")
        /\ WiringCutShort
        /\ UNCHANGED exit
     \/ /\ pc \in Cleanup
        /\ Disturb("cut")
        /\ pending' = "KeyboardInterrupt"
        /\ pc' = "ended" /\ exit' = "interrupted"
        /\ UNCHANGED <<run, i, stranded>>
  /\ UNCHANGED <<lab, wired, tunnel, procs, json, resources, capture, outcome>>

\* SIGKILL, or the machine's power switch for this process: no finally clause.
Kill ==
  /\ pc \in Running
  /\ Disturb("killed")
  /\ pc' = "ended" /\ exit' = "killed"
  /\ WiringCutShort
  /\ UNCHANGED <<lab, wired, tunnel, procs, run, i, pending, json, resources,
                 capture, outcome>>

\* A server ends by itself, which counts as a disturbance, ...
ServiceDies(r, k) ==
  /\ procs[r][k] \in {"up", "stray"}
  /\ Disturb("service")
  /\ procs' = [procs EXCEPT ![r][k] = "gone"]
  /\ UNCHANGED <<lab, wired, tunnel, stranded, run, pc, i, pending, data>>

\* ... or because it was told to.
ServiceExits(r, k) ==
  /\ procs[r][k] \in {"terminating", "killed"}
  /\ procs' = [procs EXCEPT ![r][k] = "gone"]
  /\ UNCHANGED <<lab, wired, tunnel, stranded, run, pc, i, pending, data, env>>

BodyStep ==
  \/ Proceed \/ RegisterTopology \/ RegisterOrchestrator \/ PreFlight
  \/ Clear \/ Create \/ Wire \/ DeployVpn \/ Spawn \/ Track \/ Verify
  \/ OpenSinks \/ RegisterCapture \/ StartSniffer \/ Traffic \/ StopCapture
  \/ Collect \/ GenerateReport \/ DumpReport

CleanupStep == CleanupPipeline \/ Terminate \/ Await \/ Release \/ End

Step == BodyStep \/ CleanupStep

Environment ==
  \/ NextRun \/ StepFails \/ Interrupt \/ Kill
  \/ \E r \in 1..MaxRuns, k \in 1..Services :
        ServiceDies(r, k) \/ ServiceExits(r, k)

Next == Step \/ Environment

Spec == Init /\ [][Next]_vars

\* The program runs while it can.  Nothing forces a disturbance, or a server
\* to react to SIGTERM; the kernel does carry out a SIGKILL.
FairSpec ==
  /\ Spec
  /\ WF_vars(Step)
  /\ \A r \in 1..MaxRuns, k \in 1..Services :
        WF_vars(procs[r][k] = "killed" /\ ServiceExits(r, k))

-----------------------------------------------------------------------------
Reports ==
  [by : 0..MaxRuns, status : {"none", "torn", "UNKNOWN", "SUCCESS", "FAILED"}]

TypeOK ==
  /\ lab \subseteq NsNames
  /\ wired \in BOOLEAN /\ tunnel \in BOOLEAN /\ stranded \in BOOLEAN
  /\ procs \in [1..MaxRuns -> [1..Services ->
                  {"none", "up", "stray", "terminating", "killed", "gone"}]]
  /\ run \in 1..MaxRuns
  /\ pc \in Running \union {"ended"}
  /\ i \in 1..(Len(Namespaces) + Services + 1)
  /\ pending \in {"none", "Exception", "SystemExit", "KeyboardInterrupt"}
  /\ owned \subseteq {"topology", "orchestrator", "pipeline"}
  /\ tracked \in 0..Services
  /\ sniffer \in {"none", "running", "stopped"}
  /\ sinks \in {"none", "open", "closed"}
  /\ success \in BOOLEAN
  /\ status \in {"UNKNOWN", "SUCCESS", "FAILED"}
  /\ json \in [{"connectivity", "validation"} -> Reports]
  /\ delivered \subseteq 1..MaxRuns
  /\ exit \in {"none", "ok", "error", "interrupted", "killed"}
  /\ seen \subseteq {"failure", "stop_failed", "release_failed", "interrupt",
                     "cut", "killed", "service", "misread"}
  /\ faults \in 0..MaxFaults

\* The program ended through its finally clause, all of it.
CleanedUp == pc = "ended" /\ exit # "killed" /\ "cut" \notin seen

\* Wherever the run broke off, what it had registered is released when it
\* ends: every server in `processes` is dead or dying, a registered pipeline
\* is closed, and a registered laboratory is gone unless a delete failed.
CleanupReleases ==
  CleanedUp =>
    /\ \A k \in 1..tracked : procs[run][k] \in {"killed", "gone"}
    /\ "pipeline" \in owned /\ "stop_failed" \notin seen
         => sinks = "closed" /\ sniffer # "running"
    /\ "topology" \in owned /\ "release_failed" \notin seen => lab = {}

\* execute_cleanup deletes the servers' namespace only after each of them was
\* stopped; a live process would keep the deleted namespace in the kernel.
StoppedBeforeDeleted ==
  [][ pc = "release" /\ AppServer \in lab /\ AppServer \notin lab'
        => \A k \in 1..tracked : procs[run][k] \in {"killed", "gone"} ]_vars

\* Traffic is generated, and results are collected and reported, only in the
\* laboratory and over the tunnel this run set up, with all its servers
\* started: nothing an earlier run left is mistaken for them.
ExperimentEnvironment ==
  pc \in {"verify", "sinks", "register_capture", "sniff", "traffic",
          "stop_capture", "collect", "report", "dump"} =>
    /\ lab = NsNames /\ wired /\ tunnel
    /\ tracked = Services
    /\ \A k \in 1..Services : procs[run][k] \in {"up", "gone"}

\* A run that nothing disturbs, and whose handshake is not misread, delivers
\* its payload and leaves no laboratory, whatever state an earlier run was
\* killed in; a connectivity run also reports success (a validation run breaks
\* off before its report).  A stranded veth pair and a refused pre-flight are
\* the exceptions.
UndisturbedRunSucceeds ==
  pc = "ended" /\ seen = {} /\ ~stranded /\ pending # "SystemExit"
    => /\ run \in delivered
       /\ Kind = "connectivity" => json[Kind] = [by |-> run, status |-> "SUCCESS"]
       /\ lab = {}

\* A report has a fixed path and outlives the runs, which may be cut off while
\* they write it.  One that is whole says SUCCESS exactly if the run that wrote
\* it delivered its payload in its own laboratory, whatever earlier and later
\* runs of either experiment did, and that run is of the report's experiment.
Whole(r) == r.status \notin {"none", "torn"}

ReportsAreTrue ==
  \A k \in {"connectivity", "validation"} :
    /\ Whole(json[k]) => (json[k].status = "SUCCESS" <=> json[k].by \in delivered)
    /\ json[k].status # "none" => Kinds[json[k].by] = k

\* generate_report "Generates structured evaluation artifacts and validates
\* their existence." (run_baseline_validation.py:130), and main's summary prints
\* the status as "Artifact Generation ......." (line 173): a validation that
\* ends by itself and prints SUCCESS has written its report.
SummaryIsTrue ==
  pc = "ended" /\ exit = "ok" /\ Kind = "validation" /\ status = "SUCCESS"
    => json[Kind].by = run

\* A server outlives a cleanup that went through only if Ctrl-C fell between
\* its Popen and the append, and then it is that one server: whatever else
\* fails, dies or is interrupted, start_all and stop_all lose none.
OnlyInterruptLosesServer ==
  CleanedUp =>
    \A k \in 1..Services :
      procs[run][k] \in Alive => k = tracked + 1 /\ "interrupt" \in seen

\* Seen from outside, runs that set the laboratory up and take it down share
\* one laboratory (Laboratory.tla), ready once it is wired.
Lab == INSTANCE Laboratory WITH Names <- NsNames, present <- lab, ready <- wired

\* However runs are cut off, the laboratory is wired in one step, when all its
\* namespaces exist, and stays so until one of them is deleted.
ImplementsLaboratory == Lab!Spec

\* Every run ends, however many steps fail.
RunEnds == \A r \in 1..MaxRuns : run = r /\ pc # "ended" ~> run = r /\ pc = "ended"

\* A server that was sent SIGKILL or released by a finished cleanup does not
\* stay: after the last run has cleaned up its servers disappear.
ServersDisappear ==
  CleanedUp /\ run = MaxRuns
    ~> \A k \in 1..tracked : procs[run][k] = "gone"

\* The baseline validation "executes the first complete end-to-end research
\* workflow" (run_baseline_validation.py:5): undisturbed, it gets its payload
\* through.
UndisturbedValidationCompletes ==
  pc = "ended" /\ seen = {} /\ Kind = "validation" => run \in delivered
=============================================================================
