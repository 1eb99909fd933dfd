-------------------------- MODULE ExperimentProofs --------------------------
(***************************************************************************)
(* Proofs about Experiment, for any laboratory, number of servers, runs    *)
(* and disturbances: type correctness, what the cleanup releases, whose    *)
(* environment results come from, and when a run succeeds.                 *)
(*                                                                         *)
(* The inductive invariant says, label by label, how far run() has got.    *)
(***************************************************************************)
EXTENDS Experiment, TLAPS

N == Len(Namespaces)
Dead == {"killed", "gone"}
ProcStates == {"none", "up", "stray", "terminating", "killed", "gone"}

\* Labels before, from and after given points of run().
Early == {"load", "register_topology", "vpn_manager", "register_orchestrator",
          "preflight", "clear", "create", "wire", "deploy"}
Late == {"wait", "verify", "sinks", "register_capture", "sniff", "traffic",
         "stop_capture", "collect", "report", "dump"}
Both == {"connectivity", "validation"}
Capturing == {"sinks", "register_capture", "sniff", "stop_capture"}

\* Where the loops are, and how many servers the orchestrator knows of.
Counting ==
  /\ pc \in Early => tracked = 0
  /\ pc = "spawn" => tracked = i - 1 /\ i <= Services + 1
  /\ pc = "append" => tracked = i - 1 /\ i <= Services
  /\ pc \in Late => tracked = Services
  /\ pc = "stop_services" => i <= tracked + 1
  /\ pc = "await_service" => i <= tracked

\* What the setup has put in place, at each label.
BuiltSoFar ==
  /\ pc = "clear" => i <= N + 1 /\ \A k \in 1..(i - 1) : Namespaces[k] \notin lab
  /\ pc = "create" => /\ i <= N + 1
                      /\ \A k \in 1..(i - 1) : Namespaces[k] \in lab
                      /\ \A k \in i..N : Namespaces[k] \notin lab
  /\ pc \in Late \union {"wire", "deploy", "spawn", "append"} => lab = NsNames
  /\ pc \in Late \union {"deploy", "spawn", "append"} => wired
  /\ pc \in Late \union {"spawn", "append"} => tunnel

\* A server of this run is up, or it died, which counts as a disturbance.
Serving(k) ==
  procs[run][k] = "up" \/ (procs[run][k] = "gone" /\ "service" \in seen)

ServersSoFar ==
  /\ pc = "spawn" => \A k \in 1..(i - 1) : Serving(k)
  /\ pc = "append" => \A k \in 1..i : Serving(k)
  /\ pc \in Late => \A k \in 1..Services : Serving(k)

\* What the reports on disk say, while their run is on its way to them.
Torn == [by |-> run, status |-> "torn"]
AtReports == {"collect", "report", "dump"}
BeforeResult == Body \ (AtReports \union {"stop_capture"})

ReportsSoFar ==
  /\ pc \in Capturing => Kind = "validation"
  /\ pc \in {"report", "dump"} => Kind = "connectivity"
  /\ pc \in BeforeResult => run \notin delivered
  /\ pc = "stop_capture" => (success <=> run \in delivered)
  /\ pc \in AtReports => /\ status \in {"SUCCESS", "FAILED"}
                         /\ status = "SUCCESS" <=> run \in delivered
  /\ pc \in Body \ {"dump"} => \A k \in Both : json[k].by # run
  /\ pc = "dump" => json[Kind].by = run
  /\ \A k \in Both : json[k].by <= run
  /\ delivered \subseteq 1..run

TrueReport(r) == Whole(r) => (r.status = "SUCCESS" <=> r.by \in delivered)

ReportsKept ==
  /\ \A k \in Both : TrueReport(json[k])
  /\ \A k \in Both : json[k].status # "none" => json[k].by > 0 /\ Kinds[json[k].by] = k

\* The servers the orchestrator does not know of: none, but for one whose
\* append is still to come, or never came.
Untracked(k) ==
  \/ procs[run][k] = "none"
  \/ k = tracked + 1 /\ (pc = "append" \/ "interrupt" \in seen \/ "killed" \in seen)

UntrackedSoFar ==
  /\ \A k \in 1..Services : k > tracked => Untracked(k)
  /\ \A r \in 1..MaxRuns : r > run => \A k \in 1..Services : procs[r][k] = "none"
  /\ "killed" \in seen => pc = "ended" /\ exit = "killed"

\* The finally clause is past the pipeline, the servers, the laboratory.
PastPipeline ==
  pc \in {"stop_services", "await_service", "release", "end"} \/ CleanedUp
PastServers == pc \in {"release", "end"} \/ CleanedUp
PastLab == pc = "end" \/ CleanedUp

ReleasedSoFar ==
  /\ pc \in {"stop_services", "await_service"}
       => \A k \in 1..(i - 1) : k <= tracked => procs[run][k] \in Dead
  /\ PastServers => \A k \in 1..tracked : procs[run][k] \in Dead
  /\ PastPipeline /\ "pipeline" \in owned /\ "stop_failed" \notin seen
       => sinks = "closed" /\ sniffer # "running"
  /\ pc = "release" => /\ i <= N + 1
                       /\ \A k \in 1..(i - 1) : Namespaces[k] \notin lab
  /\ PastLab /\ "topology" \in owned /\ "release_failed" \notin seen => lab = {}

ExpInv ==
  /\ TypeOK /\ Counting /\ BuiltSoFar /\ ServersSoFar /\ ReportsSoFar
  /\ ReportsKept /\ UntrackedSoFar /\ ReleasedSoFar

\* What an undisturbed run has achieved.
Undisturbed == seen = {} /\ ~stranded /\ pending # "SystemExit"

Achieved ==
  /\ pc \in Body => pending = "none"
  /\ exit = "killed" => "killed" \in seen
  /\ pc \in Body \ {"load", "register_topology"} => "topology" \in owned
  /\ seen = {} /\ pc \notin Body => "topology" \in owned
  /\ seen = {} /\ pc = "stop_capture" => success
  /\ seen = {} /\ pc \in AtReports => status = "SUCCESS"
  /\ Undisturbed /\ pc \notin Body =>
       /\ run \in delivered
       /\ Kind = "connectivity" => json[Kind] = [by |-> run, status |-> "SUCCESS"]

-----------------------------------------------------------------------------
LEMMA Sizes ==
  /\ N \in Nat /\ Services \in Nat /\ MaxFaults \in Nat
  /\ MaxRuns \in Nat /\ 1 \in 1..MaxRuns
  /\ \A r \in 1..MaxRuns : Kinds[r] \in {"connectivity", "validation"}
  /\ \A k \in 1..N : Namespaces[k] \in NsNames
BY ExperimentAssumption DEF ExperimentAssumption, N, MaxRuns, NsNames

\* Deleting a namespace keeps the host's parts in their types.
LEMMA DeletionTypes ==
  ASSUME TypeOK, NEW n, DeleteNamespace(n)
  PROVE  /\ lab' \subseteq lab /\ n \notin lab'
         /\ wired' \in BOOLEAN /\ tunnel' \in BOOLEAN /\ stranded' \in BOOLEAN
         /\ procs' \in [1..MaxRuns -> [1..Services -> ProcStates]]
<1>0. procs \in [1..MaxRuns -> [1..Services -> ProcStates]]
  BY DEF TypeOK, ProcStates
<1>1. \A r \in 1..MaxRuns, k \in 1..Services : procs[r][k] \in ProcStates
  BY <1>0
<1>2. procs' \in [1..MaxRuns -> [1..Services -> ProcStates]]
  <2>1. CASE n # AppServer
    BY <2>1 DEF TypeOK, ProcStates, DeleteNamespace
  <2>2. CASE n = AppServer
    BY <2>2, <1>1 DEF DeleteNamespace, ProcStates
  <2> QED BY <2>1, <2>2
<1> QED BY <1>2 DEF TypeOK, DeleteNamespace

\* So does giving one server another state.
LEMMA ServerTypes ==
  ASSUME TypeOK, NEW r \in 1..MaxRuns, NEW k \in 1..Services,
         NEW s \in ProcStates
  PROVE  [procs EXCEPT ![r][k] = s]
           \in [1..MaxRuns -> [1..Services -> ProcStates]]
BY DEF TypeOK, ProcStates

LEMMA WiringTypes ==
  ASSUME TypeOK, WiringCutShort
  PROVE  stranded' \in BOOLEAN
<1>1. stranded \in BOOLEAN
  BY DEF TypeOK
<1> QED BY <1>1, Zenon DEF WiringCutShort

LEMMA DisturbTypes ==
  ASSUME TypeOK, Disturb("failure") \/ Disturb("stop_failed")
                   \/ Disturb("release_failed") \/ Disturb("interrupt")
                   \/ Disturb("cut")
  PROVE  /\ seen' \subseteq {"failure", "stop_failed", "release_failed",
                             "interrupt", "cut", "killed", "service", "misread"}
         /\ faults' \in 0..MaxFaults
<1>1. \A e \in {"failure", "stop_failed", "release_failed", "interrupt", "cut"} :
        Disturb(e) => /\ seen' \subseteq {"failure", "stop_failed", "release_failed",
                                          "interrupt", "cut", "killed", "service", "misread"}
                      /\ faults' \in 0..MaxFaults
  BY Sizes DEF TypeOK, Disturb
<1> QED BY <1>1

LEMMA ProcessTypes ==
  ASSUME TypeOK, Counting, Spawn \/ Terminate \/ Await
  PROVE  procs' \in [1..MaxRuns -> [1..Services -> ProcStates]]
<1>1. /\ Services \in Nat /\ tracked \in 0..Services
      /\ run \in 1..MaxRuns /\ i \in Nat \ {0}
      /\ procs \in [1..MaxRuns -> [1..Services -> ProcStates]]
  BY Sizes DEF TypeOK, ProcStates, N
<1>2. CASE Spawn
  <2>1. CASE i <= Services
    <3>1. procs' = [procs EXCEPT ![run][i] = "up"]
      BY <1>2, <2>1 DEF Spawn, SpawnUpTo
    <3> QED BY <1>1, <2>1, <3>1, ServerTypes DEF ProcStates
  <2>2. CASE ~(i <= Services)
    BY <1>1, <1>2, <2>2 DEF Spawn, SpawnUpTo
  <2> QED BY <2>1, <2>2
<1>3. CASE Terminate
  <2>1. CASE i <= tracked
    <3> DEFINE s == IF procs[run][i] \in Alive THEN "terminating" ELSE procs[run][i]
    <3>1. i \in 1..Services
      BY <1>1, <2>1
    <3>2. s \in ProcStates
      BY <1>1, <3>1 DEF ProcStates
    <3>3. procs' = [procs EXCEPT ![run][i] = s]
      BY <1>3, <2>1 DEF Terminate
    <3> HIDE DEF s
    <3> QED BY <1>1, <3>1, <3>2, <3>3, ServerTypes
  <2>2. CASE ~(i <= tracked)
    BY <1>1, <1>3, <2>2 DEF Terminate
  <2> QED BY <2>1, <2>2
<1>4. CASE Await
  <2> DEFINE s == IF procs[run][i] = "gone" THEN procs[run][i] ELSE "killed"
  <2>1. i \in 1..Services
    BY <1>1, <1>4 DEF Await, Counting
  <2>2. s \in ProcStates
    BY <1>1, <2>1 DEF ProcStates
  <2>3. procs' = [procs EXCEPT ![run][i] = s]
    BY <1>4 DEF Await
  <2> HIDE DEF s
  <2> QED BY <1>1, <2>1, <2>2, <2>3, ServerTypes
<1> QED BY <1>2, <1>3, <1>4

\* The two steps that ask VPNValidator: a run is refused, for the environment
\* or for a misread handshake, or it goes on.
LEMMA CheckedMoves ==
  ASSUME PreFlight \/ Verify
  PROVE  /\ UNCHANGED <<host, data, faults, run>> /\ i' = 1
         /\ pc \in {"preflight", "verify"}
         /\ seen' = seen \/ seen' = seen \union {"misread"}
         /\ \/ pc' = "stop_pipeline" /\ pending' \in {"SystemExit", "Exception"}
            \/ /\ pending' = pending
               /\ \/ pc = "preflight" /\ pc' = "clear"
                  \/ pc = "verify" /\ pc' = "sinks" /\ Kind = "validation"
                  \/ pc = "verify" /\ pc' = "traffic"
<1> USE DEF Goto, Raise, Misread
<1>1. CASE PreFlight
  BY <1>1 DEF PreFlight
<1>2. CASE Verify
  BY <1>2 DEF Verify
<1> QED BY <1>1, <1>2

LEMMA TypeInit == Init => TypeOK
<1> SUFFICES ASSUME Init PROVE TypeOK
  OBVIOUS
<1>1. procs \in [1..MaxRuns -> [1..Services ->
                  {"none", "up", "stray", "terminating", "killed", "gone"}]]
  BY DEF Init
<1>2. owned \subseteq {"topology", "orchestrator", "pipeline"}
      /\ seen \subseteq {"failure", "stop_failed", "release_failed", "interrupt",
                          "cut", "killed", "service", "misread"}
  BY DEF Init
<1>3. /\ run \in 1..MaxRuns /\ i \in 1..(Len(Namespaces) + Services + 1)
      /\ tracked \in 0..Services /\ faults \in 0..MaxFaults
  BY Sizes DEF Init, N
<1>4. /\ lab \subseteq NsNames /\ wired \in BOOLEAN /\ tunnel \in BOOLEAN
      /\ stranded \in BOOLEAN /\ success \in BOOLEAN
  BY DEF Init
<1>5. /\ pc \in Running \union {"ended"}
      /\ pending \in {"none", "Exception", "SystemExit", "KeyboardInterrupt"}
      /\ sniffer \in {"none", "running", "stopped"}
      /\ sinks \in {"none", "open", "closed"}
      /\ status \in {"UNKNOWN", "SUCCESS", "FAILED"}
      /\ exit \in {"none", "ok", "error", "interrupted", "killed"}
  BY DEF Init, Running, Body
<1>6. /\ json \in [{"connectivity", "validation"} -> Reports]
      /\ delivered \subseteq 1..MaxRuns
  <2>1. NoReport \in Reports
    BY Sizes DEF NoReport, Reports
  <2> QED BY <2>1 DEF Init
<1> QED BY <1>1, <1>2, <1>3, <1>4, <1>5, <1>6 DEF TypeOK

LEMMA TypeStep ==
  ASSUME TypeOK, Counting, BuiltSoFar, ReportsSoFar, ReleasedSoFar, Next
  PROVE  TypeOK'
<1> USE Sizes DEF TypeOK, Goto, Loop, Raise, host, data, resources,
              capture, outcome, env, Running, Body,
              Cleanup, N, Kind
<1>1. CASE Proceed
  BY <1>1 DEF Proceed
<1>2. CASE RegisterTopology
  BY <1>2 DEF RegisterTopology, Register
<1>3. CASE RegisterOrchestrator
  BY <1>3 DEF RegisterOrchestrator, Register
<1>4. CASE PreFlight \/ Verify
  <2>1. seen' \subseteq {"failure", "stop_failed", "release_failed",
                         "interrupt", "cut", "killed", "service", "misread"}
    BY <1>4, CheckedMoves
  <2>2. /\ UNCHANGED <<host, data, faults, run>> /\ i' = 1
        /\ pc' \in {"stop_pipeline", "clear", "sinks", "traffic"}
        /\ pending' \in {pending, "SystemExit", "Exception"}
    BY <1>4, CheckedMoves
  <2> QED BY <2>1, <2>2
<1>5. CASE Clear
  <2>1. CASE i <= N /\ DeleteNamespace(Namespaces[i]) /\ Loop
    <3>1. /\ lab' \subseteq NsNames /\ wired' \in BOOLEAN /\ tunnel' \in BOOLEAN
          /\ stranded' \in BOOLEAN
          /\ procs' \in [1..MaxRuns -> [1..Services -> ProcStates]]
      BY <2>1, DeletionTypes
    <3>2. /\ UNCHANGED <<run, pc, pending, data, env>> /\ i' = i + 1
      BY <1>5, <2>1 DEF Clear
    <3> QED BY <2>1, <3>1, <3>2 DEF ProcStates
  <2>2. CASE Goto("create") /\ UNCHANGED host
    BY <1>5, <2>2 DEF Clear
  <2> QED BY <1>5, <2>1, <2>2 DEF Clear, BuiltSoFar
<1>6. CASE Create
  BY <1>6 DEF Create, BuiltSoFar
<1>7. CASE Wire
  BY <1>7 DEF Wire
<1>8. CASE DeployVpn
  <2>1. CASE RoutesFree
    BY <1>8, <2>1 DEF DeployVpn
  <2>2. CASE ~RoutesFree
    BY <1>8, <2>2 DEF DeployVpn
  <2> QED BY <2>1, <2>2
<1>9. CASE Spawn
  <2>1. CASE i <= Services
    BY <1>9, <2>1, ProcessTypes DEF Spawn, SpawnUpTo, ProcStates
  <2>2. CASE ~(i <= Services)
    BY <1>9, <2>2 DEF Spawn, SpawnUpTo
  <2> QED BY <2>1, <2>2
<1>10. CASE Track
  BY <1>10 DEF Track, Counting
<1>12. CASE OpenSinks
  BY <1>12 DEF OpenSinks
<1>13. CASE RegisterCapture
  BY <1>13 DEF RegisterCapture, Register
<1>14. CASE StartSniffer
  BY <1>14 DEF StartSniffer
<1>15. CASE Traffic
  <2>1. HttpAnswers \in BOOLEAN
    BY DEF HttpAnswers, Listening
  <2>2. /\ run' = run /\ i' = 1
        /\ UNCHANGED <<host, json, resources, capture, exit, env>>
        /\ pc' \in {"stop_pipeline", "stop_capture", "collect"}
        /\ pending' \in {pending, "Exception"}
    BY <1>15 DEF Traffic
  <2>3. success' \in BOOLEAN
    <3>1. success' = success \/ success' = HttpAnswers
      BY <1>15, Zenon DEF Traffic
    <3> QED BY <2>1, <3>1
  <2>4. delivered' \subseteq 1..MaxRuns /\ status' \in {"UNKNOWN", "SUCCESS", "FAILED"}
    BY <1>15 DEF Traffic, Outcome
  <2> QED BY <2>2, <2>3, <2>4
<1>16. CASE StopCapture
  BY <1>16 DEF StopCapture, StopPipeline, Outcome
<1>17. CASE GenerateReport
  <2>1. Torn \in Reports
    BY DEF Torn, Reports
  <2> QED BY <1>17, <2>1 DEF GenerateReport, Torn
<1>32. CASE DumpReport
  <2>1. Kind \in {"connectivity", "validation"} /\ status \in {"UNKNOWN", "SUCCESS", "FAILED"}
    BY <1>32 DEF DumpReport, ReportsSoFar
  <2>2. [json[Kind] EXCEPT !.status = status] \in Reports
    BY <2>1 DEF Reports
  <2>3. json' = [json EXCEPT ![Kind] = [json[Kind] EXCEPT !.status = status]]
    BY <1>32, <2>1 DEF DumpReport
  <2>4. json' \in [{"connectivity", "validation"} -> Reports]
    BY <2>2, <2>3
  <2> QED BY <1>32, <2>4 DEF DumpReport
<1>33. CASE Collect
  BY <1>33 DEF Collect
<1>18. CASE CleanupPipeline
  BY <1>18 DEF CleanupPipeline, StopPipeline
<1>19. CASE Terminate
  <2>1. CASE i <= tracked
    BY <1>19, <2>1, ProcessTypes DEF Terminate, ProcStates
  <2>2. CASE ~(i <= tracked)
    BY <1>19, <2>2 DEF Terminate
  <2> QED BY <2>1, <2>2
<1>20. CASE Await
  BY <1>20, ProcessTypes DEF Await, Counting, ProcStates
<1>21. CASE Release
  <2>1. CASE i <= N /\ DeleteNamespace(Namespaces[i]) /\ Loop
    BY <1>21, <2>1, DeletionTypes DEF Release, ProcStates
  <2>2. CASE Goto("end") /\ UNCHANGED host
    BY <1>21, <2>2 DEF Release
  <2> QED BY <1>21, <2>1, <2>2 DEF Release, ReleasedSoFar
<1>22. CASE End
  BY <1>22 DEF End
<1>23. CASE NextRun
  <2>1. owned' \subseteq {"topology", "orchestrator", "pipeline"}
        /\ seen' \subseteq {"failure", "stop_failed", "release_failed",
                             "interrupt", "cut", "killed", "service", "misread"}
    BY <1>23 DEF NextRun
  <2>2. /\ run' \in 1..MaxRuns /\ i' \in 1..(Len(Namespaces) + Services + 1)
        /\ tracked' \in 0..Services /\ faults' \in 0..MaxFaults
    BY <1>23 DEF NextRun
  <2>3. lab' = lab /\ wired' = wired /\ tunnel' = tunnel /\ stranded' = stranded
        /\ procs' = procs /\ success' = FALSE /\ UNCHANGED <<json, delivered>>
    BY <1>23 DEF NextRun
  <2>4. pc' = "load" /\ pending' = "none" /\ sniffer' = "none" /\ sinks' = "none"
        /\ status' = "UNKNOWN" /\ exit' = "none"
    BY <1>23 DEF NextRun
  <2> QED BY <2>1, <2>2, <2>3, <2>4
<1>24. CASE StepFails
  <2>1. stranded' \in BOOLEAN
    BY <1>24, WiringTypes DEF StepFails
  <2>2. /\ seen' \subseteq {"failure", "stop_failed", "release_failed",
                             "interrupt", "cut", "killed", "service", "misread"}
        /\ faults' \in 0..MaxFaults
    BY <1>24, DisturbTypes DEF StepFails
  <2>3. /\ run' = run /\ i' = 1 /\ pc' \in Running
        /\ pending' \in {pending, "SystemExit", "Exception"}
        /\ UNCHANGED <<lab, wired, tunnel, procs, data>>
    BY <1>24 DEF StepFails
  <2> QED BY <2>1, <2>2, <2>3
<1>25. CASE Interrupt
  <2>1. stranded' \in BOOLEAN
    BY <1>25, WiringTypes DEF Interrupt
  <2>2. /\ seen' \subseteq {"failure", "stop_failed", "release_failed",
                             "interrupt", "cut", "killed", "service", "misread"}
        /\ faults' \in 0..MaxFaults
    BY <1>25, DisturbTypes DEF Interrupt
  <2>3. /\ run' = run /\ i' \in {1, i} /\ pc' \in Running \union {"ended"}
        /\ pending' = "KeyboardInterrupt" /\ exit' \in {exit, "interrupted"}
        /\ UNCHANGED <<lab, wired, tunnel, procs, json, resources, capture, outcome>>
    BY <1>25 DEF Interrupt
  <2> QED BY <2>1, <2>2, <2>3
<1>26. CASE Kill
  <2>1. stranded' \in BOOLEAN
    BY <1>26, WiringTypes DEF Kill
  <2>2. /\ seen' \subseteq {"failure", "stop_failed", "release_failed",
                             "interrupt", "cut", "killed", "service", "misread"}
        /\ faults' \in 0..MaxFaults
    BY <1>26 DEF Kill, Disturb
  <2> QED BY <1>26, <2>1, <2>2 DEF Kill
<1>27. ASSUME NEW r \in 1..MaxRuns, NEW k \in 1..Services, ServiceDies(r, k)
     PROVE  TypeOK'
  BY <1>27, ServerTypes DEF ServiceDies, Disturb, ProcStates
<1>28. ASSUME NEW r \in 1..MaxRuns, NEW k \in 1..Services, ServiceExits(r, k)
     PROVE  TypeOK'
  BY <1>28, ServerTypes DEF ServiceExits, ProcStates
<1> QED
  BY <1>1, <1>2, <1>3, <1>4, <1>5, <1>6, <1>7, <1>8, <1>9, <1>10, <1>12, <1>13, <1>14, <1>15, <1>16, <1>17, <1>18, <1>19, <1>20, <1>21, <1>22, <1>23, <1>24, <1>25, <1>26, <1>27, <1>28,
      <1>32, <1>33
  DEF Next, Step, BodyStep, CleanupStep, Environment

\* The loop counters and the list of servers move together.
LEMMA CountingStep ==
  ASSUME TypeOK, Counting, Next
  PROVE  Counting'
<1> USE Sizes DEF TypeOK, Counting, Goto, Loop, Raise, host, data, resources,
              capture, outcome, env, Running, Body, Cleanup,
              Early, Late, N
<1>1. CASE Proceed
  BY <1>1 DEF Proceed
<1>2. CASE RegisterTopology
  BY <1>2 DEF RegisterTopology, Register
<1>3. CASE RegisterOrchestrator
  BY <1>3 DEF RegisterOrchestrator, Register
<1>4. CASE PreFlight \/ Verify
  BY <1>4, CheckedMoves
<1>5. CASE Clear
  BY <1>5 DEF Clear, DeleteNamespace
<1>6. CASE Create
  BY <1>6 DEF Create
<1>7. CASE Wire
  BY <1>7 DEF Wire
<1>8. CASE DeployVpn
  BY <1>8 DEF DeployVpn
<1>9. CASE Spawn
  <2>1. CASE i <= Services
    <3>1. pc' = "append" /\ i' = i /\ tracked' = tracked
      BY <1>9, <2>1 DEF Spawn, SpawnUpTo
    <3> QED BY <1>9, <2>1, <3>1 DEF Spawn, SpawnUpTo
  <2>2. CASE ~(i <= Services)
    <3>1. pc' = "wait" /\ tracked' = tracked /\ tracked = Services
      BY <1>9, <2>2 DEF Spawn, SpawnUpTo
    <3> QED BY <3>1
  <2> QED BY <2>1, <2>2
<1>10. CASE Track
  BY <1>10 DEF Track
<1>12. CASE OpenSinks
  BY <1>12 DEF OpenSinks
<1>13. CASE RegisterCapture
  BY <1>13 DEF RegisterCapture, Register
<1>14. CASE StartSniffer
  BY <1>14 DEF StartSniffer
<1>15. CASE Traffic
  BY <1>15 DEF Traffic
<1>16. CASE StopCapture
  BY <1>16 DEF StopCapture, StopPipeline
<1>17. CASE GenerateReport
  BY <1>17 DEF GenerateReport
<1>32. CASE DumpReport
  BY <1>32 DEF DumpReport
<1>33. CASE Collect
  BY <1>33 DEF Collect
<1>18. CASE CleanupPipeline
  BY <1>18 DEF CleanupPipeline, StopPipeline
<1>19. CASE Terminate
  BY <1>19 DEF Terminate, Alive
<1>20. CASE Await
  BY <1>20 DEF Await
<1>21. CASE Release
  BY <1>21 DEF Release, DeleteNamespace
<1>22. CASE End
  BY <1>22 DEF End
<1>23. CASE NextRun
  BY <1>23 DEF NextRun
<1>24. CASE StepFails
  BY <1>24 DEF StepFails, Disturb, Fallible
<1>25. CASE Interrupt
  BY <1>25 DEF Interrupt, Disturb
<1>26. CASE Kill
  BY <1>26 DEF Kill, Disturb
<1>27. ASSUME NEW r \in 1..MaxRuns, NEW k \in 1..Services, ServiceDies(r, k)
     PROVE  Counting'
  BY <1>27 DEF ServiceDies, Disturb
<1>28. ASSUME NEW r \in 1..MaxRuns, NEW k \in 1..Services, ServiceExits(r, k)
     PROVE  Counting'
  BY <1>28 DEF ServiceExits
<1> QED
  BY <1>1, <1>2, <1>3, <1>4, <1>5, <1>6, <1>7, <1>8, <1>9, <1>10,
      <1>12, <1>13, <1>14, <1>15, <1>16, <1>17, <1>18, <1>19, <1>20, <1>21,
      <1>22, <1>23, <1>24, <1>25, <1>26, <1>27, <1>28,
      <1>32, <1>33
  DEF Next, Step, BodyStep, CleanupStep, Environment

\* On the way to the reports.
LEMMA ReportsStep ==
  ASSUME TypeOK, ReportsSoFar, Next
  PROVE  ReportsSoFar'
<1> USE Sizes DEF TypeOK, Goto, Loop, Raise, host, data, resources,
              capture, outcome, env, Running, Body, Cleanup, Kind, ReportsSoFar,
              Capturing, AtReports, BeforeResult, Outcome, Both, Reports
<1>1. CASE Proceed
  BY <1>1 DEF Proceed
<1>2. CASE RegisterTopology
  BY <1>2 DEF RegisterTopology, Register
<1>3. CASE RegisterOrchestrator
  BY <1>3 DEF RegisterOrchestrator, Register
<1>4. CASE PreFlight \/ Verify
  BY <1>4, CheckedMoves
<1>5. CASE Clear
  BY <1>5 DEF Clear, DeleteNamespace
<1>6. CASE Create
  BY <1>6 DEF Create
<1>7. CASE Wire
  BY <1>7 DEF Wire
<1>8. CASE DeployVpn
  BY <1>8 DEF DeployVpn
<1>9. CASE Spawn
  BY <1>9 DEF Spawn, SpawnUpTo
<1>10. CASE Track
  BY <1>10 DEF Track
<1>12. CASE OpenSinks
  BY <1>12 DEF OpenSinks
<1>13. CASE RegisterCapture
  BY <1>13 DEF RegisterCapture, Register
<1>14. CASE StartSniffer
  BY <1>14 DEF StartSniffer
<1>15. CASE Traffic
  <2>1. /\ pc = "traffic" /\ run' = run
        /\ json' = json
    BY <1>15 DEF Traffic
  <2>2. CASE pc' = "stop_pipeline"
    <3>1. UNCHANGED <<success, status, delivered>>
      BY <1>15, <2>2 DEF Traffic
    <3> QED BY <2>1, <2>2, <3>1
  <2>3. CASE pc' # "stop_pipeline"
    <3>1. /\ success' <=> HttpAnswers
          /\ delivered' = IF HttpAnswers THEN delivered \union {run} ELSE delivered
      BY <1>15, <2>3 DEF Traffic
    <3>2. delivered' \subseteq 1..run /\ (success' <=> run \in delivered')
      BY <2>1, <3>1
    <3>3. \/ Kind = "validation" /\ pc' = "stop_capture" /\ status' = status
          \/ /\ pc' = "collect"
             /\ status' = IF HttpAnswers THEN "SUCCESS" ELSE "FAILED"
      BY <1>15, <2>3 DEF Traffic
    <3>4. pc' = "collect" =>
            status' \in {"SUCCESS", "FAILED"} /\ (status' = "SUCCESS" <=> success')
      BY <3>1, <3>3
    <3> QED BY <2>1, <3>2, <3>3, <3>4
  <2> QED BY <2>2, <2>3
<1>16. CASE StopCapture
  BY <1>16 DEF StopCapture, StopPipeline
<1>17. CASE GenerateReport
  <2>1. /\ pc = "report" /\ pc' = "dump" /\ run' = run
        /\ UNCHANGED <<success, status, delivered>>
        /\ json' = [json EXCEPT ![Kind] = Torn]
    BY <1>17 DEF GenerateReport, Torn
  <2>2. Kind \in Both /\ Torn.by = run
    BY DEF Torn
  <2>3. json'[Kind].by = run /\ \A k \in Both : json'[k].by <= run
    BY <2>1, <2>2
  <2> QED BY <2>1, <2>3
<1>32. CASE DumpReport
  BY <1>32 DEF DumpReport
<1>33. CASE Collect
  BY <1>33 DEF Collect
<1>18. CASE CleanupPipeline
  BY <1>18 DEF CleanupPipeline, StopPipeline
<1>19. CASE Terminate
  BY <1>19 DEF Terminate, Alive
<1>20. CASE Await
  BY <1>20 DEF Await
<1>21. CASE Release
  BY <1>21 DEF Release, DeleteNamespace
<1>22. CASE End
  BY <1>22 DEF End
<1>23. CASE NextRun
  BY <1>23 DEF NextRun
<1>24. CASE StepFails
  BY <1>24 DEF StepFails, Disturb, Fallible
<1>25. CASE Interrupt
  BY <1>25 DEF Interrupt, Disturb
<1>26. CASE Kill
  BY <1>26 DEF Kill, Disturb
<1>27. ASSUME NEW r \in 1..MaxRuns, NEW k \in 1..Services, ServiceDies(r, k)
     PROVE  ReportsSoFar'
  BY <1>27 DEF ServiceDies, Disturb
<1>28. ASSUME NEW r \in 1..MaxRuns, NEW k \in 1..Services, ServiceExits(r, k)
     PROVE  ReportsSoFar'
  BY <1>28 DEF ServiceExits
<1> QED
  BY <1>1, <1>2, <1>3, <1>4, <1>5, <1>6, <1>7, <1>8, <1>9, <1>10,
      <1>12, <1>13, <1>14, <1>15, <1>16, <1>17, <1>18, <1>19, <1>20, <1>21,
      <1>22, <1>23, <1>24, <1>25, <1>26, <1>27, <1>28,
      <1>32, <1>33
  DEF Next, Step, BodyStep, CleanupStep, Environment

\* A report, once on disk, stays true.
LEMMA KeptStep ==
  ASSUME TypeOK, ReportsSoFar, ReportsKept, Next
  PROVE  ReportsKept'
<1> USE Sizes DEF TypeOK, Goto, Loop, Raise, host, data, resources,
              capture, outcome, env, Running, Body, Cleanup, Kind, ReportsKept,
              TrueReport, Whole, Both
<1>1. CASE Proceed
  BY <1>1 DEF Proceed
<1>2. CASE RegisterTopology
  BY <1>2 DEF RegisterTopology, Register
<1>3. CASE RegisterOrchestrator
  BY <1>3 DEF RegisterOrchestrator, Register
<1>4. CASE PreFlight \/ Verify
  BY <1>4, CheckedMoves
<1>5. CASE Clear
  BY <1>5 DEF Clear, DeleteNamespace
<1>6. CASE Create
  BY <1>6 DEF Create
<1>7. CASE Wire
  BY <1>7 DEF Wire
<1>8. CASE DeployVpn
  BY <1>8 DEF DeployVpn
<1>9. CASE Spawn
  BY <1>9 DEF Spawn, SpawnUpTo
<1>10. CASE Track
  BY <1>10 DEF Track
<1>12. CASE OpenSinks
  BY <1>12 DEF OpenSinks
<1>13. CASE RegisterCapture
  BY <1>13 DEF RegisterCapture, Register
<1>14. CASE StartSniffer
  BY <1>14 DEF StartSniffer
<1>15. CASE Traffic
  <2>1. pc = "traffic" /\ json' = json
    BY <1>15 DEF Traffic
  <2>2. \A k \in Both : json[k].by # run
    BY <2>1 DEF ReportsSoFar
  <2>3. delivered' \subseteq delivered \union {run} /\ delivered \subseteq delivered'
    BY <1>15 DEF Traffic
  <2> QED BY <2>1, <2>2, <2>3
<1>16. CASE StopCapture
  BY <1>16 DEF StopCapture, StopPipeline
<1>17. CASE GenerateReport
  <2>1. /\ delivered' = delivered
        /\ json' = [json EXCEPT ![Kind] = Torn]
    BY <1>17 DEF GenerateReport, Torn
  <2>2. Kind \in Both /\ Torn.by = run /\ Torn.status = "torn" /\ run > 0
    BY DEF Torn
  <2>3. \A k \in Both : json'[k] = IF k = Kind THEN Torn ELSE json[k]
    BY <2>1, <2>2
  <2> QED BY <2>1, <2>2, <2>3
<1>32. CASE DumpReport
  <2>1. /\ delivered' = delivered /\ pc = "dump"
        /\ json' = [json EXCEPT ![Kind].status = status]
    BY <1>32 DEF DumpReport
  <2>2. Kind \in Both /\ run > 0
    BY <2>1
  <2>3. /\ json[Kind].by = run
        /\ status = "SUCCESS" <=> run \in delivered
    BY <2>1 DEF ReportsSoFar, AtReports
  <2>4. /\ json'[Kind].by = run /\ json'[Kind].status = status
        /\ \A k \in Both : k # Kind => json'[k] = json[k]
    BY <2>1, <2>2, <2>3 DEF Reports
  <2>5. \A k \in Both : TrueReport(json[k])'
    BY <2>1, <2>3, <2>4
  <2>6. \A k \in Both : json'[k].status # "none" => json'[k].by > 0 /\ Kinds[json'[k].by] = k
    BY <2>2, <2>4
  <2> QED BY <2>1, <2>5, <2>6
<1>33. CASE Collect
  BY <1>33 DEF Collect
<1>18. CASE CleanupPipeline
  BY <1>18 DEF CleanupPipeline, StopPipeline
<1>19. CASE Terminate
  BY <1>19 DEF Terminate, Alive
<1>20. CASE Await
  BY <1>20 DEF Await
<1>21. CASE Release
  BY <1>21 DEF Release, DeleteNamespace
<1>22. CASE End
  BY <1>22 DEF End
<1>23. CASE NextRun
  BY <1>23 DEF NextRun
<1>24. CASE StepFails
  BY <1>24 DEF StepFails, Disturb, Fallible
<1>25. CASE Interrupt
  BY <1>25 DEF Interrupt, Disturb
<1>26. CASE Kill
  BY <1>26 DEF Kill, Disturb
<1>27. ASSUME NEW r \in 1..MaxRuns, NEW k \in 1..Services, ServiceDies(r, k)
     PROVE  ReportsKept'
  BY <1>27 DEF ServiceDies, Disturb
<1>28. ASSUME NEW r \in 1..MaxRuns, NEW k \in 1..Services, ServiceExits(r, k)
     PROVE  ReportsKept'
  BY <1>28 DEF ServiceExits
<1> QED
  BY <1>1, <1>2, <1>3, <1>4, <1>5, <1>6, <1>7, <1>8, <1>9, <1>10,
      <1>12, <1>13, <1>14, <1>15, <1>16, <1>17, <1>18, <1>19, <1>20, <1>21,
      <1>22, <1>23, <1>24, <1>25, <1>26, <1>27, <1>28,
      <1>32, <1>33
  DEF Next, Step, BodyStep, CleanupStep, Environment

\* Only between a Popen and its append is a server unknown.
LEMMA UntrackedStep ==
  ASSUME TypeOK, Counting, UntrackedSoFar, Next
  PROVE  UntrackedSoFar'
<1> USE Sizes DEF TypeOK, Goto, Loop, Raise, host, data, resources,
              capture, outcome, env, Running, Body, Cleanup, Kind, UntrackedSoFar,
              Untracked, Counting
<1>1. CASE Proceed
  BY <1>1 DEF Proceed
<1>2. CASE RegisterTopology
  BY <1>2 DEF RegisterTopology, Register
<1>3. CASE RegisterOrchestrator
  BY <1>3 DEF RegisterOrchestrator, Register
<1>4. CASE PreFlight \/ Verify
  BY <1>4, CheckedMoves
<1>5. CASE Clear
  <2>1. /\ pc = "clear" /\ pc' \in {"clear", "create"}
        /\ UNCHANGED <<run, data, env>>
    BY <1>5 DEF Clear
  <2>2. \A r \in 1..MaxRuns, k \in 1..Services :
          procs[r][k] = "none" => procs'[r][k] = "none"
    BY <1>5 DEF Clear, DeleteNamespace
  <2> QED BY <2>1, <2>2
<1>6. CASE Create
  BY <1>6 DEF Create
<1>7. CASE Wire
  BY <1>7 DEF Wire
<1>8. CASE DeployVpn
  BY <1>8 DEF DeployVpn
<1>9. CASE Spawn
  BY <1>9 DEF Spawn, SpawnUpTo
<1>10. CASE Track
  BY <1>10 DEF Track
<1>12. CASE OpenSinks
  BY <1>12 DEF OpenSinks
<1>13. CASE RegisterCapture
  BY <1>13 DEF RegisterCapture, Register
<1>14. CASE StartSniffer
  BY <1>14 DEF StartSniffer
<1>15. CASE Traffic
  BY <1>15 DEF Traffic
<1>16. CASE StopCapture
  BY <1>16 DEF StopCapture, StopPipeline
<1>17. CASE GenerateReport
  BY <1>17 DEF GenerateReport
<1>32. CASE DumpReport
  BY <1>32 DEF DumpReport
<1>33. CASE Collect
  BY <1>33 DEF Collect
<1>18. CASE CleanupPipeline
  BY <1>18 DEF CleanupPipeline, StopPipeline
<1>19. CASE Terminate
  BY <1>19 DEF Terminate, Alive
<1>20. CASE Await
  BY <1>20 DEF Await
<1>21. CASE Release
  <2>1. /\ pc = "release" /\ pc' \in {"release", "end"}
        /\ UNCHANGED <<run, data, env>>
    BY <1>21 DEF Release
  <2>2. \A r \in 1..MaxRuns, k \in 1..Services :
          procs[r][k] = "none" => procs'[r][k] = "none"
    BY <1>21 DEF Release, DeleteNamespace
  <2> QED BY <2>1, <2>2
<1>22. CASE End
  BY <1>22 DEF End
<1>23. CASE NextRun
  BY <1>23 DEF NextRun
<1>24. CASE StepFails
  BY <1>24 DEF StepFails, Disturb, Fallible
<1>25. CASE Interrupt
  <2>1. /\ pc \in Body \union Cleanup /\ pc' \in {"stop_pipeline", "ended"}
        /\ UNCHANGED <<procs, run, tracked>>
        /\ seen \subseteq seen' /\ ("killed" \in seen' => "killed" \in seen)
        /\ pc = "append" => "interrupt" \in seen'
    BY <1>25 DEF Interrupt, Disturb
  <2> QED BY <2>1
<1>26. CASE Kill
  BY <1>26 DEF Kill, Disturb
<1>27. ASSUME NEW r \in 1..MaxRuns, NEW k \in 1..Services, ServiceDies(r, k)
     PROVE  UntrackedSoFar'
  BY <1>27 DEF ServiceDies, Disturb
<1>28. ASSUME NEW r \in 1..MaxRuns, NEW k \in 1..Services, ServiceExits(r, k)
     PROVE  UntrackedSoFar'
  BY <1>28 DEF ServiceExits
<1> QED
  BY <1>1, <1>2, <1>3, <1>4, <1>5, <1>6, <1>7, <1>8, <1>9, <1>10,
      <1>12, <1>13, <1>14, <1>15, <1>16, <1>17, <1>18, <1>19, <1>20, <1>21,
      <1>22, <1>23, <1>24, <1>25, <1>26, <1>27, <1>28,
      <1>32, <1>33
  DEF Next, Step, BodyStep, CleanupStep, Environment

\* Namespace by namespace the old laboratory goes and the new one comes.
LEMMA BuiltStep ==
  ASSUME TypeOK, BuiltSoFar, Next
  PROVE  BuiltSoFar'
<1> USE Sizes DEF TypeOK, BuiltSoFar, Goto, Loop, Raise, host, data, resources,
              capture, outcome, env, Running, Body, Cleanup,
              Late, N, NsNames
<1>1. CASE Proceed
  BY <1>1 DEF Proceed
<1>2. CASE RegisterTopology
  BY <1>2 DEF RegisterTopology, Register
<1>3. CASE RegisterOrchestrator
  BY <1>3 DEF RegisterOrchestrator, Register
<1>4. CASE PreFlight \/ Verify
  BY <1>4, CheckedMoves
<1>5. CASE Clear
  <2>1. CASE i > N
    <3>1. pc' = "create" /\ i' = 1 /\ lab' = lab /\ i = N + 1 /\ pc = "clear"
      BY <1>5, <2>1 DEF Clear
    <3>2. \A k \in 1..N : Namespaces[k] \notin lab
      BY <3>1
    <3> QED BY <3>1, <3>2
  <2>2. CASE i <= N
    <3>1. /\ pc = "clear" /\ pc' = "clear" /\ i' = i + 1
          /\ lab' = lab \ {Namespaces[i]}
      BY <1>5, <2>2 DEF Clear, DeleteNamespace
    <3>2. \A k \in 1..(i' - 1) : Namespaces[k] \notin lab'
      BY <3>1
    <3> QED BY <2>2, <3>1, <3>2
  <2> QED BY <2>1, <2>2
<1>6. CASE Create
  <2>1. CASE i > N
    <3>1. pc' = "wire" /\ lab' = lab /\ i = N + 1
      BY <1>6, <2>1 DEF Create
    <3> QED BY <1>6, <3>1 DEF Create
  <2>2. CASE i <= N /\ Namespaces[i] \in lab
    BY <1>6, <2>2 DEF Create
  <2>3. CASE i <= N /\ Namespaces[i] \notin lab
    <3>1. pc = "create" /\ pc' = "create" /\ i' = i + 1
          /\ lab' = lab \union {Namespaces[i]}
      BY <1>6, <2>3 DEF Create
    <3>2. \A k \in i'..N : Namespaces[k] # Namespaces[i]
      BY <2>3, <3>1, ExperimentAssumption DEF ExperimentAssumption
    <3>3. i' <= N + 1 /\ \A k \in 1..(i' - 1) : Namespaces[k] \in lab'
      BY <2>3, <3>1
    <3>4. \A k \in i'..N : Namespaces[k] \notin lab'
      BY <2>3, <3>1, <3>2
    <3> QED BY <3>1, <3>3, <3>4
  <2> QED BY <2>1, <2>2, <2>3
<1>7. CASE Wire
  BY <1>7 DEF Wire
<1>8. CASE DeployVpn
  BY <1>8 DEF DeployVpn
<1>9. CASE Spawn
  BY <1>9 DEF Spawn, SpawnUpTo
<1>10. CASE Track
  BY <1>10 DEF Track
<1>12. CASE OpenSinks
  BY <1>12 DEF OpenSinks
<1>13. CASE RegisterCapture
  BY <1>13 DEF RegisterCapture, Register
<1>14. CASE StartSniffer
  BY <1>14 DEF StartSniffer
<1>15. CASE Traffic
  BY <1>15 DEF Traffic
<1>16. CASE StopCapture
  BY <1>16 DEF StopCapture, StopPipeline
<1>17. CASE GenerateReport
  BY <1>17 DEF GenerateReport
<1>32. CASE DumpReport
  BY <1>32 DEF DumpReport
<1>33. CASE Collect
  BY <1>33 DEF Collect
<1>18. CASE CleanupPipeline
  BY <1>18 DEF CleanupPipeline, StopPipeline
<1>19. CASE Terminate
  BY <1>19 DEF Terminate, Alive
<1>20. CASE Await
  BY <1>20 DEF Await
<1>21. CASE Release
  BY <1>21 DEF Release, DeleteNamespace
<1>22. CASE End
  BY <1>22 DEF End
<1>23. CASE NextRun
  BY <1>23 DEF NextRun
<1>24. CASE StepFails
  BY <1>24 DEF StepFails, Disturb, Fallible
<1>25. CASE Interrupt
  BY <1>25 DEF Interrupt, Disturb
<1>26. CASE Kill
  BY <1>26 DEF Kill, Disturb
<1>27. ASSUME NEW r \in 1..MaxRuns, NEW k \in 1..Services, ServiceDies(r, k)
     PROVE  BuiltSoFar'
  BY <1>27 DEF ServiceDies, Disturb
<1>28. ASSUME NEW r \in 1..MaxRuns, NEW k \in 1..Services, ServiceExits(r, k)
     PROVE  BuiltSoFar'
  BY <1>28 DEF ServiceExits
<1> QED
  BY <1>1, <1>2, <1>3, <1>4, <1>5, <1>6, <1>7, <1>8, <1>9, <1>10,
      <1>12, <1>13, <1>14, <1>15, <1>16, <1>17, <1>18, <1>19, <1>20, <1>21,
      <1>22, <1>23, <1>24, <1>25, <1>26, <1>27, <1>28,
      <1>32, <1>33
  DEF Next, Step, BodyStep, CleanupStep, Environment

\* The servers of this run are up, or died by themselves.
LEMMA ServersStep ==
  ASSUME TypeOK, Counting, ServersSoFar, Next
  PROVE  ServersSoFar'
<1> USE Sizes DEF TypeOK, Counting, ServersSoFar, Serving, Goto, Loop, Raise, host, data, resources,
              capture, outcome, env,
              Running, Body, Cleanup, Early, Late
<1>1. CASE Proceed
  BY <1>1 DEF Proceed
<1>2. CASE RegisterTopology
  BY <1>2 DEF RegisterTopology, Register
<1>3. CASE RegisterOrchestrator
  BY <1>3 DEF RegisterOrchestrator, Register
<1>4. CASE PreFlight \/ Verify
  BY <1>4, CheckedMoves
<1>5. CASE Clear
  BY <1>5 DEF Clear, DeleteNamespace
<1>6. CASE Create
  BY <1>6 DEF Create
<1>7. CASE Wire
  BY <1>7 DEF Wire
<1>8. CASE DeployVpn
  BY <1>8 DEF DeployVpn
<1>9. CASE Spawn
  BY <1>9 DEF Spawn, SpawnUpTo
<1>10. CASE Track
  BY <1>10 DEF Track
<1>12. CASE OpenSinks
  BY <1>12 DEF OpenSinks
<1>13. CASE RegisterCapture
  BY <1>13 DEF RegisterCapture, Register
<1>14. CASE StartSniffer
  BY <1>14 DEF StartSniffer
<1>15. CASE Traffic
  BY <1>15 DEF Traffic
<1>16. CASE StopCapture
  BY <1>16 DEF StopCapture, StopPipeline
<1>17. CASE GenerateReport
  BY <1>17 DEF GenerateReport
<1>32. CASE DumpReport
  BY <1>32 DEF DumpReport
<1>33. CASE Collect
  BY <1>33 DEF Collect
<1>18. CASE CleanupPipeline
  BY <1>18 DEF CleanupPipeline, StopPipeline
<1>19. CASE Terminate
  BY <1>19 DEF Terminate, Alive
<1>20. CASE Await
  BY <1>20 DEF Await
<1>21. CASE Release
  BY <1>21 DEF Release
<1>22. CASE End
  BY <1>22 DEF End
<1>23. CASE NextRun
  BY <1>23 DEF NextRun
<1>24. CASE StepFails
  BY <1>24 DEF StepFails, Disturb, Fallible
<1>25. CASE Interrupt
  BY <1>25 DEF Interrupt, Disturb
<1>26. CASE Kill
  BY <1>26 DEF Kill, Disturb
<1>27. ASSUME NEW r \in 1..MaxRuns, NEW k \in 1..Services, ServiceDies(r, k)
     PROVE  ServersSoFar'
  BY <1>27 DEF ServiceDies, Disturb
<1>28. ASSUME NEW r \in 1..MaxRuns, NEW k \in 1..Services, ServiceExits(r, k)
     PROVE  ServersSoFar'
  BY <1>28 DEF ServiceExits
<1> QED
  BY <1>1, <1>2, <1>3, <1>4, <1>5, <1>6, <1>7, <1>8, <1>9, <1>10,
      <1>12, <1>13, <1>14, <1>15, <1>16, <1>17, <1>18, <1>19, <1>20, <1>21,
      <1>22, <1>23, <1>24, <1>25, <1>26, <1>27, <1>28,
      <1>32, <1>33
  DEF Next, Step, BodyStep, CleanupStep, Environment

LEMMA DeletionSpares ==
  ASSUME TypeOK, NEW n, DeleteNamespace(n)
  PROVE  \A r \in 1..MaxRuns, k \in 1..Services :
           procs[r][k] \in Dead => procs'[r][k] = procs[r][k]
BY DEF TypeOK, DeleteNamespace, Dead

\* The finally clause, resource by resource.
LEMMA ReleasedStep ==
  ASSUME TypeOK, Counting, ReleasedSoFar, Next
  PROVE  ReleasedSoFar'
<1> USE Sizes DEF TypeOK, Counting, ReleasedSoFar, PastPipeline, PastServers, PastLab, CleanedUp,
              Goto, Loop, Raise, host, data, resources,
              capture, outcome, env, Running, Body, Cleanup, N, NsNames,
              Dead
<1>1. CASE Proceed
  BY <1>1 DEF Proceed
<1>2. CASE RegisterTopology
  BY <1>2 DEF RegisterTopology, Register
<1>3. CASE RegisterOrchestrator
  BY <1>3 DEF RegisterOrchestrator, Register
<1>4. CASE PreFlight \/ Verify
  BY <1>4, CheckedMoves
<1>5. CASE Clear
  BY <1>5 DEF Clear, DeleteNamespace
<1>6. CASE Create
  BY <1>6 DEF Create
<1>7. CASE Wire
  BY <1>7 DEF Wire
<1>8. CASE DeployVpn
  BY <1>8 DEF DeployVpn
<1>9. CASE Spawn
  BY <1>9 DEF Spawn, SpawnUpTo
<1>10. CASE Track
  BY <1>10 DEF Track
<1>12. CASE OpenSinks
  BY <1>12 DEF OpenSinks
<1>13. CASE RegisterCapture
  BY <1>13 DEF RegisterCapture, Register
<1>14. CASE StartSniffer
  BY <1>14 DEF StartSniffer
<1>15. CASE Traffic
  BY <1>15 DEF Traffic
<1>16. CASE StopCapture
  BY <1>16 DEF StopCapture, StopPipeline
<1>17. CASE GenerateReport
  BY <1>17 DEF GenerateReport
<1>32. CASE DumpReport
  BY <1>32 DEF DumpReport
<1>33. CASE Collect
  BY <1>33 DEF Collect
<1>18. CASE CleanupPipeline
  BY <1>18 DEF CleanupPipeline, StopPipeline
<1>19. CASE Terminate
  <2>1. CASE i <= tracked
    <3>1. /\ pc = "stop_services" /\ pc' = "await_service"
          /\ UNCHANGED <<lab, run, i, data, env>>
          /\ procs' = [procs EXCEPT ![run][i] =
                         IF @ \in Alive THEN "terminating" ELSE @]
      BY <1>19, <2>1 DEF Terminate
    <3>2. \A k \in 1..(i - 1) : k <= tracked => procs'[run][k] \in Dead
      BY <2>1, <3>1
    <3> QED BY <3>1, <3>2
  <2>2. CASE ~(i <= tracked)
    <3>1. /\ pc = "stop_services" /\ pc' = "release" /\ i' = 1
          /\ UNCHANGED <<host, run, data, env>>
      BY <1>19, <2>2 DEF Terminate
    <3> QED BY <2>2, <3>1
  <2> QED BY <2>1, <2>2
<1>20. CASE Await
  BY <1>20 DEF Await
<1>21. CASE Release
  <2>1. CASE "topology" \in owned /\ i <= N
    <3>1. /\ pc = "release" /\ pc' = "release" /\ i' = i + 1
          /\ DeleteNamespace(Namespaces[i])
          /\ UNCHANGED <<run, data, env>>
      BY <1>21, <2>1 DEF Release
    <3>2. \A k \in 1..tracked' : procs'[run'][k] \in Dead
      <4>1. \A k \in 1..tracked : k \in 1..Services /\ procs[run][k] \in Dead
        BY <3>1
      <4> QED BY <3>1, <4>1, DeletionSpares
    <3>3. i' <= N + 1 /\ \A k \in 1..(i' - 1) : Namespaces[k] \notin lab'
      BY <2>1, <3>1, DeletionTypes
    <3> QED BY <3>1, <3>2, <3>3
  <2>2. CASE ~("topology" \in owned /\ i <= N)
    <3>1. pc = "release" /\ pc' = "end" /\ UNCHANGED <<run, host, data, env>>
      BY <1>21, <2>2 DEF Release
    <3>2. "topology" \in owned => lab = {}
      BY <2>2, <3>1
    <3> QED BY <3>1, <3>2
  <2> QED BY <2>1, <2>2
<1>22. CASE End
  BY <1>22 DEF End
<1>23. CASE NextRun
  BY <1>23 DEF NextRun
<1>24. CASE StepFails
  BY <1>24 DEF StepFails, Disturb, Fallible
<1>25. CASE Interrupt
  BY <1>25 DEF Interrupt, Disturb
<1>26. CASE Kill
  BY <1>26 DEF Kill, Disturb
<1>27. ASSUME NEW r \in 1..MaxRuns, NEW k \in 1..Services, ServiceDies(r, k)
     PROVE  ReleasedSoFar'
  BY <1>27 DEF ServiceDies, Disturb
<1>28. ASSUME NEW r \in 1..MaxRuns, NEW k \in 1..Services, ServiceExits(r, k)
     PROVE  ReleasedSoFar'
  BY <1>28 DEF ServiceExits
<1> QED
  BY <1>1, <1>2, <1>3, <1>4, <1>5, <1>6, <1>7, <1>8, <1>9, <1>10,
      <1>12, <1>13, <1>14, <1>15, <1>16, <1>17, <1>18, <1>19, <1>20, <1>21,
      <1>22, <1>23, <1>24, <1>25, <1>26, <1>27, <1>28,
      <1>32, <1>33
  DEF Next, Step, BodyStep, CleanupStep, Environment

LEMMA ExpInvInit == Init => ExpInv
<1> SUFFICES ASSUME Init PROVE ExpInv
  OBVIOUS
<1>1. Counting /\ BuiltSoFar /\ ServersSoFar
  BY DEF Init, Counting, BuiltSoFar, ServersSoFar, Early, Late
<1>2. ReportsSoFar /\ ReportsKept
  BY Sizes DEF Init, ReportsSoFar, ReportsKept, TrueReport, Whole, NoReport, Both,
               Capturing, AtReports, BeforeResult, Body
<1>4. UntrackedSoFar
  BY Sizes DEF Init, UntrackedSoFar, Untracked
<1>3. ReleasedSoFar
  BY DEF Init, ReleasedSoFar, PastPipeline, PastServers, PastLab, CleanedUp
<1> QED BY <1>1, <1>2, <1>3, <1>4, TypeInit DEF ExpInv

LEMMA ExpInvStep == ExpInv /\ [Next]_vars => ExpInv'
<1> SUFFICES ASSUME ExpInv, [Next]_vars PROVE ExpInv'
  OBVIOUS
<1>1. CASE Next
  BY <1>1, TypeStep, CountingStep, BuiltStep, ServersStep, ReportsStep, KeptStep,
     UntrackedStep, ReleasedStep
  DEF ExpInv
<1>2. CASE UNCHANGED vars
  <2>1. TypeOK' /\ Counting' /\ UntrackedSoFar'
    BY <1>2 DEF ExpInv, TypeOK, Counting, UntrackedSoFar, Untracked, vars, host, data, resources,
              capture, outcome, env
  <2>2. BuiltSoFar' /\ ServersSoFar'
    BY <1>2 DEF ExpInv, BuiltSoFar, ServersSoFar, Serving, vars, host, data, resources,
              capture, outcome, env
  <2>3. ReportsSoFar' /\ ReportsKept'
    BY <1>2 DEF ExpInv, ReportsSoFar, ReportsKept, TrueReport, Kind, vars, host, data, resources,
              capture, outcome, env
  <2>4. ReleasedSoFar'
    BY <1>2 DEF ExpInv, ReleasedSoFar, PastPipeline, PastServers, PastLab,
                CleanedUp, vars, host, data, resources,
              capture, outcome, env
  <2> QED BY <2>1, <2>2, <2>3, <2>4 DEF ExpInv
<1> QED BY <1>1, <1>2

\* run(), label by label: how far the setup, the servers, the capture and the
\* cleanup have got is true of every reachable state.
THEOREM ExpInvAlways == Spec => []ExpInv
BY ExpInvInit, ExpInvStep, PTL DEF Spec

\* Type correctness of the experiment programs, in every laboratory.
THEOREM ExperimentTypes == Spec => []TypeOK
<1>1. ExpInv => TypeOK
  BY DEF ExpInv
<1> QED BY <1>1, ExpInvAlways, PTL

\* ResourceCleanupManager.execute_cleanup and stop_all: a run that ended in
\* its finally clause has released what it had registered, whichever command
\* of its body failed or was interrupted.
THEOREM CleanupIsComplete == Spec => []CleanupReleases
<1>1. ExpInv => CleanupReleases
  BY DEF ExpInv, ReleasedSoFar, CleanupReleases, PastPipeline, PastServers,
         PastLab, Dead
<1> QED BY <1>1, ExpInvAlways, PTL

\* BaseExperiment.run: from verify_environment to generate_report the
\* laboratory, the tunnel and the servers are those this run set up, although
\* runs before it may have been killed anywhere.
THEOREM ResultsAreOfThisRun == Spec => []ExperimentEnvironment
<1>1. ExpInv => ExperimentEnvironment
  BY DEF ExpInv, BuiltSoFar, Counting, ServersSoFar, Serving, Late,
         ExperimentEnvironment
<1> QED BY <1>1, ExpInvAlways, PTL

\* generate_report: a whole report under its fixed path says what is true of
\* the run that wrote it, after any sequence of runs of both experiments, cut
\* off wherever they may be.
THEOREM ReportsStayTrue == Spec => []ReportsAreTrue
<1>1. ExpInv => ReportsAreTrue
  BY DEF ExpInv, ReportsKept, TrueReport, Both, ReportsAreTrue
<1> QED BY <1>1, ExpInvAlways, PTL

\* start_all and stop_all: after a cleanup that went through at most the
\* server whose append an interrupt prevented is alive.
THEOREM NoOtherServerIsLost == Spec => []OnlyInterruptLosesServer
<1>1. ExpInv => OnlyInterruptLosesServer
  <2> SUFFICES ASSUME ExpInv, CleanedUp, NEW k \in 1..Services, procs[run][k] \in Alive
               PROVE  k = tracked + 1 /\ "interrupt" \in seen
    BY DEF OnlyInterruptLosesServer
  <2>1. k \notin 1..tracked
    BY DEF ExpInv, ReleasedSoFar, PastServers, Dead, Alive
  <2>2. Untracked(k) /\ "killed" \notin seen /\ pc # "append"
    BY <2>1, Sizes DEF ExpInv, UntrackedSoFar, CleanedUp, TypeOK
  <2> QED BY <2>2 DEF Untracked, Alive
<1> QED BY <1>1, ExpInvAlways, PTL

\* execute_cleanup: the servers are stopped before their namespace is deleted.
THEOREM ServersStopFirst == Spec => StoppedBeforeDeleted
<1>1. ExpInv =>
        [ pc = "release" /\ AppServer \in lab /\ AppServer \notin lab'
            => \A k \in 1..tracked : procs[run][k] \in {"killed", "gone"} ]_vars
  BY DEF ExpInv, ReleasedSoFar, PastServers, Dead
<1> QED BY <1>1, ExpInvAlways, PTL DEF StoppedBeforeDeleted

LEMMA SoundEnvironment ==
  ASSUME ExpInv, UpLeadsFlags, Services > 0, seen = {}, pc \in {"verify", "traffic"}
  PROVE  HttpAnswers /\ EnvironmentValid
<1>1. lab = NsNames /\ wired /\ tunnel
  BY DEF ExpInv, BuiltSoFar, Late
<1>2. run \in 1..run /\ 1 \in 1..Services
  BY Sizes DEF ExpInv, TypeOK
<1>3. procs[run][1] = "up"
  BY <1>2 DEF ExpInv, ServersSoFar, Serving, Late
<1> QED BY <1>1, <1>2, <1>3 DEF HttpAnswers, EnvironmentValid, Listening

\* A run fails only where something disturbed it, or the environment did.
LEMMA AchievedStep ==
  ASSUME ExpInv, Achieved, UpLeadsFlags, RoutesFree, Services > 0, Next
  PROVE  Achieved'
<1> USE Sizes DEF Achieved, AtReports, Kind, Undisturbed, Goto, Loop, Raise, host, data, resources,
              capture, outcome, env, Running, Body,
              Cleanup
<1>1. CASE Proceed
  BY <1>1 DEF Proceed
<1>2. CASE RegisterTopology
  BY <1>2 DEF RegisterTopology, Register
<1>3. CASE RegisterOrchestrator
  BY <1>3 DEF RegisterOrchestrator, Register
<1>4. CASE PreFlight
  <2>1. \/ pc' = "clear" /\ pending' = pending
        \/ pc' = "stop_pipeline" /\ pending' = "SystemExit"
    BY <1>4 DEF PreFlight
  <2>2. /\ pc = "preflight" /\ seen \subseteq seen'
        /\ UNCHANGED <<run, json, delivered, owned, success, status, exit, stranded>>
    BY <1>4 DEF PreFlight, Misread
  <2> QED BY <2>1, <2>2
<1>5. CASE Clear
  BY <1>5 DEF Clear, DeleteNamespace
<1>6. CASE Create
  <2>1. i > N \/ Namespaces[i] \notin lab
    BY <1>6 DEF Create, ExpInv, BuiltSoFar, TypeOK, N
  <2> QED BY <1>6, <2>1 DEF Create, N
<1>7. CASE Wire
  BY <1>7 DEF Wire
<1>8. CASE DeployVpn
  BY <1>8 DEF DeployVpn
<1>9. CASE Spawn
  BY <1>9 DEF Spawn, SpawnUpTo
<1>10. CASE Track
  BY <1>10 DEF Track
<1>11. CASE Verify
  <2>1. seen = {} => EnvironmentValid
    BY <1>11, SoundEnvironment DEF Verify
  <2>2. \/ pc' \in {"sinks", "traffic"} /\ pending' = pending
        \/ pc' = "stop_pipeline" /\ (~EnvironmentValid \/ seen' # {})
    BY <1>11 DEF Verify, Misread
  <2>3. /\ pc = "verify" /\ seen \subseteq seen'
        /\ UNCHANGED <<run, json, delivered, owned, success, status, exit, stranded>>
    BY <1>11 DEF Verify, Misread
  <2> QED BY <2>1, <2>2, <2>3
<1>12. CASE OpenSinks
  BY <1>12 DEF OpenSinks
<1>13. CASE RegisterCapture
  BY <1>13 DEF RegisterCapture, Register
<1>14. CASE StartSniffer
  BY <1>14 DEF StartSniffer
<1>15. CASE Traffic
  <2>1. pc = "traffic" /\ owned' = owned /\ seen' = seen /\ exit' = exit
        /\ stranded' = stranded
    BY <1>15 DEF Traffic
  <2>2. seen = {} => HttpAnswers
    BY <2>1, SoundEnvironment
  <2>3. CASE ~HttpAnswers
    <3>1. seen # {}
      BY <2>2, <2>3
    <3>2. pc' \in Body => pending' = "none"
      BY <1>15 DEF Traffic
    <3> QED BY <2>1, <3>1, <3>2
  <2>4. CASE HttpAnswers
    <3>1. success' = TRUE /\ pending' = pending
      BY <1>15, <2>4 DEF Traffic
    <3>2. \/ pc' = "stop_capture"
          \/ pc' = "collect" /\ status' = "SUCCESS"
      BY <1>15, <2>4 DEF Traffic, Outcome
    <3> QED BY <2>1, <3>1, <3>2
  <2> QED BY <2>3, <2>4
<1>16. CASE StopCapture
  <2>1. seen = {} => status' = "SUCCESS"
    BY <1>16 DEF StopCapture, Outcome
  <2>2. pc = "stop_capture" /\ pc' = "collect" /\ pending' = pending
        /\ owned' = owned /\ exit' = exit /\ seen' = seen
    BY <1>16 DEF StopCapture
  <2> QED BY <2>1, <2>2
<1>17. CASE GenerateReport
  BY <1>17 DEF GenerateReport
<1>32. CASE DumpReport
  <2>1. /\ pc = "dump" /\ pc' = "stop_pipeline" /\ run' = run
        /\ json' = [json EXCEPT ![Kind].status = status]
        /\ UNCHANGED <<owned, status, delivered, pending, exit, seen, stranded>>
    BY <1>32 DEF DumpReport
  <2>2. /\ json[Kind].by = run /\ Kind \in Both
        /\ status = "SUCCESS" <=> run \in delivered
    BY <2>1 DEF ExpInv, ReportsSoFar, TypeOK, Both
  <2>3. json'[Kind] = [by |-> run, status |-> status]
    BY <2>1, <2>2 DEF ExpInv, TypeOK, Reports, Both
  <2> QED BY <2>1, <2>2, <2>3
<1>33. CASE Collect
  <2>1. pc = "collect" /\ (status = "SUCCESS" <=> run \in delivered)
    BY <1>33 DEF Collect, ExpInv, ReportsSoFar
  <2>2. /\ UNCHANGED <<run, json, delivered, owned, status, exit, seen, stranded>>
        /\ \/ /\ Kind = "validation" /\ pc' = "stop_pipeline"
              /\ pending' = "Exception"
           \/ pc' = "report" /\ pending' = pending
    BY <1>33 DEF Collect
  <2> QED BY <2>1, <2>2
<1>18. CASE CleanupPipeline
  BY <1>18 DEF CleanupPipeline, StopPipeline
<1>19. CASE Terminate
  BY <1>19 DEF Terminate, Alive
<1>20. CASE Await
  BY <1>20 DEF Await
<1>21. CASE Release
  BY <1>21 DEF Release, DeleteNamespace
<1>22. CASE End
  <2>1. exit' \in {"ok", "error", "interrupted"}
    BY <1>22 DEF End, ExpInv, TypeOK
  <2>2. pc = "end" /\ pc' = "ended" /\ pending' = pending /\ owned' = owned
        /\ seen' = seen /\ stranded' = stranded /\ run' = run
        /\ json' = json /\ delivered' = delivered
    BY <1>22 DEF End
  <2> QED BY <2>1, <2>2
<1>23. CASE NextRun
  BY <1>23 DEF NextRun
<1>24. CASE StepFails
  BY <1>24 DEF StepFails, Disturb, Fallible
<1>25. CASE Interrupt
  BY <1>25 DEF Interrupt, Disturb
<1>26. CASE Kill
  BY <1>26 DEF Kill, Disturb
<1>27. ASSUME NEW r \in 1..MaxRuns, NEW k \in 1..Services, ServiceDies(r, k)
     PROVE  Achieved'
  BY <1>27 DEF ServiceDies, Disturb
<1>28. ASSUME NEW r \in 1..MaxRuns, NEW k \in 1..Services, ServiceExits(r, k)
     PROVE  Achieved'
  BY <1>28 DEF ServiceExits
<1> QED
  BY <1>1, <1>2, <1>3, <1>4, <1>5, <1>6, <1>7, <1>8, <1>9, <1>10, <1>11,
      <1>12, <1>13, <1>14, <1>15, <1>16, <1>17, <1>18, <1>19, <1>20, <1>21,
      <1>22, <1>23, <1>24, <1>25, <1>26, <1>27, <1>28,
      <1>32, <1>33
  DEF Next, Step, BodyStep, CleanupStep, Environment


\* run(): a run that nothing disturbs and whose handshake is not misread
\* delivers its payload and clears the laboratory, in whatever state the runs
\* before it left the host, and a connectivity run reports success; unless a
\* stranded veth pair is in the way or the pre-flight refuses.
THEOREM UndisturbedSucceeds ==
  UpLeadsFlags /\ RoutesFree /\ Services > 0 => (Spec => []UndisturbedRunSucceeds)
<1> SUFFICES ASSUME UpLeadsFlags, RoutesFree, Services > 0
             PROVE  Spec => []UndisturbedRunSucceeds
  OBVIOUS
<1>1. Init => Achieved
  BY DEF Init, Achieved, AtReports, Undisturbed, Body
<1>2. ExpInv /\ Achieved /\ [Next]_vars => Achieved'
  <2>1. CASE UNCHANGED vars
    BY <2>1 DEF Achieved, Kind, Undisturbed, vars, host, data, resources,
              capture, outcome, env
  <2> QED BY <2>1, AchievedStep
<1>3. ExpInv /\ Achieved => UndisturbedRunSucceeds
  BY DEF ExpInv, ReleasedSoFar, PastLab, CleanedUp, Achieved, Undisturbed,
         UndisturbedRunSucceeds, Body
<1> QED BY <1>1, <1>2, <1>3, ExpInvAlways, PTL DEF Spec

-----------------------------------------------------------------------------
\* Experiment implements Laboratory.

\* The laboratory is wired only while it is whole, and not while it is built.
WiredSoFar ==
  /\ wired => lab = NsNames
  /\ pc \in {"create", "wire"} => ~wired

\* One round of a deletion loop is a Remove, or nothing.
LEMMA DeletionRefines ==
  ASSUME TypeOK, WiredSoFar, NEW n \in NsNames, DeleteNamespace(n)
  PROVE  /\ Lab!Remove(n) \/ UNCHANGED Lab!vars
         /\ wired' => lab' = NsNames
<1>1. lab' = lab \ {n} /\ (wired' <=> wired /\ n \notin lab)
  BY DEF DeleteNamespace
<1>2. CASE n \in lab
  <2>1. wired' = FALSE
    <3>1. ~wired'
      BY <1>1, <1>2
    <3>2. wired' \in BOOLEAN
      BY DeletionTypes
    <3> QED BY <3>1, <3>2
  <2> QED BY <1>1, <1>2, <2>1 DEF Lab!Remove
<1>3. CASE n \notin lab
  <2>1. lab' = lab
    BY <1>1, <1>3
  <2>2. wired' = wired
    <3>1. wired \in BOOLEAN /\ wired' \in BOOLEAN
      BY DeletionTypes DEF TypeOK
    <3> QED BY <1>1, <1>3, <3>1
  <2> QED BY <2>1, <2>2 DEF Lab!vars, WiredSoFar
<1> QED BY <1>2, <1>3

\* The deletion loops delete, the creation loop adds, the wiring completes.
LEMMA LaboratoryStep ==
  ASSUME ExpInv, WiredSoFar, Next
  PROVE  WiredSoFar' /\ (Lab!Next \/ UNCHANGED Lab!vars)
<1>0. TypeOK /\ lab \subseteq NsNames /\ NsNames # {}
  BY ExperimentAssumption DEF ExpInv, TypeOK, ExperimentAssumption
<1>1. CASE Clear \/ Release
  <2>1. CASE UNCHANGED lab /\ UNCHANGED wired
    <3>1. pc' \in {"create", "wire"} => ~wired
      <4>1. CASE pc' = "create"
        <5>1. pc = "clear"
          BY <1>1, <4>1 DEF Clear, Release, Goto, Loop
        <5>4. ~(i <= N)
          BY <1>1, <4>1, <5>1 DEF Clear, Release, Goto, Loop, N
        <5>2. i = N + 1 /\ \A k \in 1..N : Namespaces[k] \notin lab
          BY <1>0, <5>1, <5>4, Sizes DEF ExpInv, BuiltSoFar, TypeOK
        <5>3. lab = {}
          BY <1>0, <5>2 DEF NsNames, N
        <5> QED BY <1>0, <5>3 DEF WiredSoFar
      <4>2. pc' # "wire"
        BY <1>1 DEF Clear, Release, Goto, Loop
      <4> QED BY <4>1, <4>2
    <3> QED BY <2>1, <3>1 DEF WiredSoFar, Lab!vars
  <2>2. CASE ~(UNCHANGED lab /\ UNCHANGED wired)
    <3>1. PICK n \in NsNames : DeleteNamespace(n) /\ pc' \in {"clear", "release"}
      <4>1. i <= N /\ DeleteNamespace(Namespaces[i]) /\ pc' \in {"clear", "release"}
        BY <1>1, <2>2 DEF Clear, Release, Loop, host, N
      <4>2. Namespaces[i] \in NsNames
        BY <1>0, <4>1, Sizes DEF TypeOK, N
      <4> QED BY <4>1, <4>2
    <3>2. (Lab!Remove(n) \/ UNCHANGED Lab!vars) /\ (wired' => lab' = NsNames)
      BY <1>0, <3>1, DeletionRefines
    <3> QED BY <3>1, <3>2 DEF WiredSoFar, Lab!Next
  <2> QED BY <2>1, <2>2
<1>2. CASE Create
  <2>1. ~wired /\ wired' = wired /\ pc = "create"
    BY <1>2 DEF Create, WiredSoFar
  <2>2. \/ UNCHANGED lab
        \/ i <= N /\ Namespaces[i] \notin lab /\ lab' = lab \union {Namespaces[i]}
    <3>1. i \in Nat /\ N \in Nat
      BY <1>0, Sizes DEF TypeOK, N
    <3>2. CASE i > N
      BY <1>2, <3>1, <3>2 DEF Create, N
    <3>3. CASE i <= N /\ Namespaces[i] \in lab
      BY <1>2, <3>1, <3>3 DEF Create, N
    <3>4. CASE i <= N /\ Namespaces[i] \notin lab
      BY <1>2, <3>1, <3>4 DEF Create, N
    <3> QED BY <3>1, <3>2, <3>3, <3>4
  <2>3. i <= N => Namespaces[i] \in NsNames
    BY <1>0, Sizes DEF TypeOK, N
  <2>4. UNCHANGED lab \/ \E n \in NsNames : Lab!Add(n)
    BY <2>1, <2>2, <2>3 DEF Lab!Add
  <2> QED BY <2>1, <2>4 DEF WiredSoFar, Lab!Next, Lab!vars
<1>3. CASE Wire
  <2>1. lab = NsNames /\ lab' = lab /\ ~wired /\ pc' \notin {"create", "wire"}
        /\ wired' = ~stranded
    BY <1>3 DEF Wire, WiredSoFar, ExpInv, BuiltSoFar, Raise, Goto
  <2>2. CASE stranded
    <3>1. wired = FALSE
      BY <1>0, <2>1 DEF TypeOK
    <3>2. wired' = FALSE
      BY <2>1, <2>2
    <3> QED BY <2>1, <3>1, <3>2 DEF WiredSoFar, Lab!vars
  <2>3. CASE ~stranded
    <3>1. wired' = TRUE
      BY <2>1, <2>3
    <3> QED BY <2>1, <3>1 DEF WiredSoFar, Lab!Next, Lab!Complete
  <2> QED BY <2>2, <2>3
<1>4. CASE ~(Clear \/ Release \/ Create \/ Wire)
  <2>1. UNCHANGED <<lab, wired>> /\ (pc' \in {"create", "wire"} => pc' = pc)
    <3> USE DEF Goto, Raise, Loop, host
    <3>1. ASSUME BodyStep PROVE  UNCHANGED <<lab, wired>> /\ (pc' \in {"create", "wire"} => pc' = pc)
      BY <1>4, <3>1 DEF BodyStep, Proceed, RegisterTopology, RegisterOrchestrator,
         Register, PreFlight, DeployVpn, Spawn, SpawnUpTo, Track, Verify, OpenSinks,
         RegisterCapture, StartSniffer, Traffic, StopCapture, GenerateReport,
         DumpReport, Collect
    <3>2. ASSUME CleanupStep PROVE  UNCHANGED <<lab, wired>> /\ (pc' \in {"create", "wire"} => pc' = pc)
      BY <1>4, <3>2 DEF CleanupStep, CleanupPipeline, Terminate, Await, End
    <3>3. ASSUME Environment PROVE  UNCHANGED <<lab, wired>> /\ (pc' \in {"create", "wire"} => pc' = pc)
      BY <3>3 DEF Environment, NextRun, StepFails, Interrupt, Kill,
         ServiceDies, ServiceExits
    <3> QED BY <3>1, <3>2, <3>3 DEF Next, Step
  <2> QED BY <2>1 DEF WiredSoFar, Lab!vars
<1> QED BY <1>1, <1>2, <1>3, <1>4

\* BaseExperiment.run with prepare_topology and execute_cleanup: any sequence
\* of runs, cut off anywhere, is a behaviour of Laboratory.
THEOREM RunsShareLaboratory == Spec => ImplementsLaboratory
<1>1. Init => WiredSoFar /\ Lab!Init
  BY DEF Init, WiredSoFar, Lab!Init
<1>2. ExpInv /\ WiredSoFar /\ [Next]_vars => WiredSoFar' /\ [Lab!Next]_(Lab!vars)
  <2>1. CASE UNCHANGED vars
    BY <2>1 DEF WiredSoFar, vars, host, Lab!vars
  <2> QED BY <2>1, LaboratoryStep
<1> QED BY <1>1, <1>2, ExpInvAlways, PTL DEF Spec, ImplementsLaboratory, Lab!Spec
=============================================================================
