------------------------------ MODULE Programs ------------------------------
(***************************************************************************)
(* The programs that use a laboratory somebody else built:                 *)
(*   traffic  lab/run_traffic_demo.py: servers, five transactions, summary *)
(*   vpn      lab/run_vpn_demo.py: deploy, servers, VPNValidator.validate  *)
(*   verify   VerificationSuite.run_all, for lab/run_verification.py       *)
(* Each is started when somebody likes, also at the same time as another,  *)
(* and shares with them the namespaces, the servers' ports and the tunnel. *)
(*                                                                         *)
(* The laboratory is whole or not (Topology), a deployment is one step     *)
(* (VpnDeployment), and a check stands for the commands it runs.           *)
(***************************************************************************)
EXTENDS Integers, Sequences

CONSTANTS
  Prog,        \* programs
  Services,    \* the servers of start_all, in order: "stream" (HTTP and TCP),
               \* whose port one server can have, or "datagram" (UDP and DNS),
               \* whose port SO_REUSEADDR lets several have; the first is HTTP
  Probes,      \* run_traffic_demo's transactions after the ping: services
  MaxChanges,  \* bound: times the laboratory is destroyed or built
  MaxFaults    \* bound: interrupts, kills and servers that die

ASSUME ProgramsAssumption ==
  /\ Services \in Seq({"stream", "datagram"}) /\ Services # <<>>
  /\ Probes \in Seq(1..Len(Services))
  /\ MaxChanges \in Nat /\ MaxFaults \in Nat

Servers == 1..Len(Services)

VARIABLES
  \* the host
  fits,      \* the commands' output is what the checks look for and the VPN
             \* configuration adds no route twice; neither is so for the
             \* iproute2 and the wireguard.yaml of today
  whole,     \* the laboratory is as run_lab.py leaves it
  tunnel,    \* "none", "partial" (a deploy failed) or "up"
  server,    \* server[p][k]: the k-th server p spawned
  stray,     \* the <<p, k>> whose server is in a namespace that was deleted
  \* the programs
  kind, pc, i,
  tracked,   \* Len(ServiceOrchestrator.processes)
  passed,    \* no check has failed so far
  exit,
  \* history and bounds
  calm,      \* calm[p]: nothing has been in p's way since it started
  changes, faults

host == <<fits, whole, tunnel, server, stray>>
control == <<kind, pc, i, tracked, passed, exit>>
bounds == <<changes, faults>>
vars == <<host, control, calm, bounds>>

Kinds == {"traffic", "vpn", "verify"}
Body == {"deploy", "spawn", "append", "check", "collect"}
Stopping == {"stop", "await"}
Running(p) == pc[p] \in Body \union Stopping

\* A server is "none" before Popen, "starting" before it binds its port, "up",
\* "terminating" after SIGTERM, "killed" after SIGKILL, "gone" when it exited.
Alive == {"starting", "up", "terminating"}
Leaving == {"terminating", "killed"}

\* Some server of the laboratory's service k is in one of these states.
SomeIn(k, states) == \E p \in Prog : server[p][k] \in states /\ <<p, k>> \notin stray
Answers(k) == whole /\ SomeIn(k, {"up"})

-----------------------------------------------------------------------------
Init ==
  /\ fits \in BOOLEAN /\ whole \in BOOLEAN /\ tunnel = "none"
  /\ server = [p \in Prog |-> [k \in Servers |-> "none"]]
  /\ stray = {}
  /\ kind = [p \in Prog |-> "none"]
  /\ pc = [p \in Prog |-> "new"] /\ i = [p \in Prog |-> 1]
  /\ tracked = [p \in Prog |-> 0] /\ passed = [p \in Prog |-> TRUE]
  /\ exit = [p \in Prog |-> "none"]
  /\ calm = [p \in Prog |-> FALSE]
  /\ changes = 0 /\ faults = 0

Goto(p, l) == pc' = [pc EXCEPT ![p] = l] /\ i' = [i EXCEPT ![p] = 1]

Exit(p, how) ==
  /\ pc' = [pc EXCEPT ![p] = "ended"]
  /\ exit' = [exit EXCEPT ![p] = how]
  /\ UNCHANGED i

\* The programs in P have been disturbed.
Disturb(P) == calm' = [p \in Prog |-> calm[p] /\ p \notin P]

\* A program starts calm if it is alone, the laboratory is whole and its ports
\* and the tunnel's interfaces are free.
Start(p) ==
  /\ pc[p] = "new"
  /\ \E k \in Kinds :
       /\ kind' = [kind EXCEPT ![p] = k]
       /\ Goto(p, CASE k = "traffic" -> "spawn" [] k = "vpn" -> "deploy"
                    [] k = "verify" -> "check")
       /\ calm' = [q \in Prog |->
                     IF q # p THEN calm[q] /\ ~Running(q)
                     ELSE /\ whole
                          /\ ~\E r \in Prog : Running(r)
                          /\ k # "vpn" \/ (fits /\ tunnel = "none")
                          /\ \A r \in Prog : \A n \in Servers :
                               server[r][n] \in {"none", "gone"}]
  /\ UNCHANGED <<host, tracked, passed, exit, bounds>>

-----------------------------------------------------------------------------
\* An exception, or the end of the try block, leads to stop_all() where there
\* is an orchestrator; run_vpn_demo.py without one swallows the NameError.
Finally(p, how) ==
  /\ exit' = [exit EXCEPT ![p] = how]
  /\ IF kind[p] \in {"traffic", "vpn"} /\ pc[p] # "deploy"
     THEN Goto(p, "stop")
     ELSE pc' = [pc EXCEPT ![p] = "ended"] /\ UNCHANGED i

\* VPNManager.deploy, which finds its interfaces taken after another one.
Deploy(p) ==
  /\ pc[p] = "deploy"
  /\ IF whole /\ fits /\ tunnel = "none"
     THEN tunnel' = "up" /\ Goto(p, "spawn") /\ UNCHANGED exit
     ELSE /\ tunnel' = IF whole /\ tunnel = "none" THEN "partial" ELSE tunnel
          /\ Finally(p, "error")
  /\ UNCHANGED <<fits, whole, server, stray, kind, tracked, passed, calm, bounds>>

\* Defect: the last server is not started.
SpawnShort(p) ==
  /\ pc[p] = "spawn"
  /\ IF i[p] < Len(Services)
     THEN /\ server' = [server EXCEPT ![p][i[p]] = "starting"]
          /\ pc' = [pc EXCEPT ![p] = "append"]
          /\ UNCHANGED i
     ELSE Goto(p, "check") /\ UNCHANGED server
  /\ UNCHANGED <<fits, whole, tunnel, stray, kind, tracked, passed, exit,
                 calm, bounds>>

\* start_all: Popen ...
Spawn(p) ==
  /\ pc[p] = "spawn"
  /\ IF i[p] <= Len(Services)
     THEN /\ server' = [server EXCEPT ![p][i[p]] = "starting"]
          /\ pc' = [pc EXCEPT ![p] = "append"]
          /\ UNCHANGED i
     ELSE Goto(p, "check") /\ UNCHANGED server
  /\ UNCHANGED <<fits, whole, tunnel, stray, kind, tracked, passed, exit,
                 calm, bounds>>

\* Defect: only a server that is listening is kept.
AppendListening(p) ==
  /\ pc[p] = "append"
  /\ tracked' = [tracked EXCEPT ![p] = IF server[p][i[p]] = "up" THEN @ + 1 ELSE @]
  /\ pc' = [pc EXCEPT ![p] = "spawn"] /\ i' = [i EXCEPT ![p] = @ + 1]
  /\ UNCHANGED <<host, kind, passed, exit, calm, bounds>>

\* ... and self.processes.append.
Append_(p) ==
  /\ pc[p] = "append"
  /\ tracked' = [tracked EXCEPT ![p] = @ + 1]
  /\ pc' = [pc EXCEPT ![p] = "spawn"] /\ i' = [i EXCEPT ![p] = @ + 1]
  /\ UNCHANGED <<host, kind, passed, exit, calm, bounds>>

\* The server binds its port, or dies of the OSError if the port is taken (it
\* may or may not be by a server on its way out); in a laboratory that is not
\* whole its namespace may be missing, and then it never starts.
Bind(p, k) ==
  /\ server[p][k] = "starting"
  /\ LET lost == <<p, k>> \in stray
         shared == Services[k] = "datagram"
         binds == lost \/ shared \/ ~SomeIn(k, {"up"})
         fails == \/ ~lost /\ ~whole
                  \/ ~shared /\ (lost \/ SomeIn(k, {"up"} \union Leaving))
     IN  \E s \in (IF binds THEN {"up"} ELSE {}) \union (IF fails THEN {"gone"} ELSE {}) :
           server' = [server EXCEPT ![p][k] = s]
  /\ UNCHANGED <<fits, whole, tunnel, stray, control, calm, bounds>>

-----------------------------------------------------------------------------
\* What the programs check, in order: of the kernel's state, of the network, or
\* of a service.
Of(what) == [of |-> what, service |-> 0]
Request(k) == [of |-> "service", service |-> k]
Sequence(k) ==
  CASE k = "traffic" -> <<Of("icmp")>> \o [n \in 1..Len(Probes) |-> Request(Probes[n])]
    [] k = "vpn" -> <<Of("namespaces"), Of("links"), Of("rp_filter"), Of("nat"),
                      Of("handshake"), Request(1)>>
    [] k = "verify" -> <<Of("namespaces"), Of("interfaces"), Of("wireguard"),
                         Of("routing"), Of("nat"), Of("icmp"), Request(1)>>

\* How a check can end: "true", "false", or "raises".

\* A ping nobody replies to exits with 1, which leaves _run_cmd as a NameError,
\* one without a route exits with 2, which is a failed check.
Pinged == IF whole THEN {"true"} ELSE {"true", "false", "raises"}

\* The client of a transaction that gets no answer exits with 1, for which
\* only the verification has a handler.  When a datagram port has two holders
\* the request may reach the one that is leaving, and what is left of a
\* laboratory that is not whole may carry it or not.
Replied(k, s) ==
  LET refused == IF k = "verify" THEN "false" ELSE "raises"
  IN  (IF SomeIn(s, {"up"}) THEN {"true"} ELSE {})
        \union (IF ~Answers(s) \/ SomeIn(s, Leaving) THEN {refused} ELSE {})

Tunnelled == whole /\ fits /\ tunnel = "up"

\* namespace_exists always answers.  Of a laboratory that is not whole
\* anything may be left.  A handshake whose time has the digit 0 is refused.
Outcomes(k, c) ==
  CASE c.of = "namespaces" -> IF whole THEN {"true"} ELSE {"true", "false"}
    [] c.of = "interfaces" ->
         IF ~whole THEN {"true", "false", "raises"}
         ELSE {IF fits THEN "true" ELSE "false"}
    [] c.of \in {"wireguard", "handshake"} ->
         IF Tunnelled THEN {"true", "false"} ELSE {"false"}
    [] c.of \in {"routing", "nat", "links", "rp_filter"} ->
         IF Tunnelled THEN {"true"} ELSE {"false"}
    [] c.of = "icmp" -> Pinged
    [] c.of = "service" -> Replied(k, c.service)

\* Where a program goes after its last check.
AfterChecks(p) ==
  IF kind[p] = "verify" THEN Goto(p, "collect") /\ UNCHANGED exit
  ELSE Finally(p, IF kind[p] = "traffic" \/ passed'[p] THEN "ok" ELSE "error")

\* The program asks for a service of its own that has not bound its port yet.
TooEarly(p, c) == c.of = "service" /\ server[p][c.service] = "starting"

Misread(c, o) == c.of = "handshake" /\ o = "false" /\ Tunnelled

\* VPNValidator.validate stops at the first check that fails, however it does;
\* the others go on, unless the exception is one they do not catch.
CheckStep(p) ==
  /\ pc[p] = "check"
  /\ LET c == Sequence(kind[p])[i[p]]
     IN  \E o \in Outcomes(kind[p], c) :
           /\ passed' = [passed EXCEPT ![p] = @ /\ o = "true"]
           /\ Disturb(IF TooEarly(p, c) \/ Misread(c, o) THEN {p} ELSE {})
           /\ IF o = "raises" \/ (o = "false" /\ kind[p] = "vpn")
              THEN Finally(p, "error")
              ELSE IF i[p] < Len(Sequence(kind[p]))
                   THEN i' = [i EXCEPT ![p] = @ + 1] /\ UNCHANGED <<pc, exit>>
                   ELSE AfterChecks(p)
  /\ UNCHANGED <<host, kind, tracked, bounds>>

\* _collect_metrics takes the __dict__ of an InterfaceStats, a dataclass with
\* slots and so without one: an AttributeError, and no results.
Collect(p) ==
  /\ pc[p] = "collect"
  /\ Finally(p, "error")
  /\ UNCHANGED <<host, kind, tracked, passed, calm, bounds>>

-----------------------------------------------------------------------------
\* ServiceOrchestrator.stop_all: terminate, wait two seconds, kill.

Stop(p) ==
  /\ pc[p] = "stop"
  /\ IF i[p] <= tracked[p]
     THEN /\ server' = [server EXCEPT ![p][i[p]] = IF @ \in Alive THEN "terminating" ELSE @]
          /\ pc' = [pc EXCEPT ![p] = "await"]
     ELSE pc' = [pc EXCEPT ![p] = "ended"] /\ UNCHANGED server
  /\ UNCHANGED <<fits, whole, tunnel, stray, kind, i, tracked, passed, exit, calm,
                 bounds>>

\* Defect: a server that outlasts the timeout is not killed.
AwaitGivesUp(p) ==
  /\ pc[p] = "await"
  /\ pc' = [pc EXCEPT ![p] = "stop"] /\ i' = [i EXCEPT ![p] = @ + 1]
  /\ UNCHANGED <<host, kind, tracked, passed, exit, calm, bounds>>

Await(p) ==
  /\ pc[p] = "await"
  /\ server' = [server EXCEPT ![p][i[p]] = IF @ = "gone" THEN @ ELSE "killed"]
  /\ pc' = [pc EXCEPT ![p] = "stop"] /\ i' = [i EXCEPT ![p] = @ + 1]
  /\ UNCHANGED <<fits, whole, tunnel, stray, kind, tracked, passed, exit, calm, bounds>>

ServerExits(p, k) ==
  /\ server[p][k] \in {"terminating", "killed"}
  /\ server' = [server EXCEPT ![p][k] = "gone"]
  /\ UNCHANGED <<fits, whole, tunnel, stray, control, calm, bounds>>

-----------------------------------------------------------------------------
\* destroy_lab.py or run_lab.py, of which a person knows nothing here; a server
\* that is starting may have entered its namespace or not.
Change ==
  /\ changes < MaxChanges /\ changes' = changes + 1
  /\ whole' = ~whole
  /\ tunnel' = "none"
  /\ LET Those(states) == {pk \in Prog \X Servers : server[pk[1]][pk[2]] \in states}
     IN  \E entered \in SUBSET Those({"starting"}) :
           stray' = stray \union Those({"up"} \union Leaving) \union entered
  /\ Disturb({p \in Prog : Running(p)})
  /\ UNCHANGED <<fits, server, control, faults>>

Fault(P) == faults < MaxFaults /\ faults' = faults + 1 /\ Disturb(P)

\* A deployment that is cut off may have begun.
DeployCutShort(p) ==
  tunnel' \in {tunnel} \union
    IF pc[p] = "deploy" /\ whole /\ tunnel = "none" THEN {"partial"} ELSE {}

\* Ctrl-C: through the finally clause, or out of it.
Interrupt(p) ==
  /\ Running(p)
  /\ Fault({p})
  /\ IF pc[p] \in Body THEN Finally(p, "interrupted") ELSE Exit(p, "cut")
  /\ DeployCutShort(p)
  /\ UNCHANGED <<fits, whole, server, stray, kind, tracked, passed, changes>>

\* SIGKILL
Kill(p) ==
  /\ Running(p)
  /\ Fault({p})
  /\ Exit(p, "cut")
  /\ DeployCutShort(p)
  /\ UNCHANGED <<fits, whole, server, stray, kind, tracked, passed, changes>>

ServerDies(p, k) ==
  /\ server[p][k] \in {"starting", "up"}
  /\ Fault({q \in Prog : Running(q)})
  /\ server' = [server EXCEPT ![p][k] = "gone"]
  /\ UNCHANGED <<fits, whole, tunnel, stray, control, changes>>

Step(p) ==
  \/ Deploy(p) \/ Spawn(p) \/ Append_(p) \/ CheckStep(p) \/ Collect(p)
  \/ Stop(p) \/ Await(p)

Next ==
  \/ \E p \in Prog : Start(p) \/ Step(p) \/ Interrupt(p) \/ Kill(p)
  \/ \E p \in Prog, k \in Servers : Bind(p, k) \/ ServerExits(p, k) \/ ServerDies(p, k)
  \/ Change

Spec == Init /\ [][Next]_vars

-----------------------------------------------------------------------------
TypeOK ==
  /\ fits \in BOOLEAN /\ whole \in BOOLEAN /\ tunnel \in {"none", "partial", "up"}
  /\ server \in [Prog -> [Servers -> Alive \union {"none", "killed", "gone"}]]
  /\ stray \subseteq Prog \X Servers
  /\ kind \in [Prog -> Kinds \union {"none"}]
  /\ pc \in [Prog -> Body \union Stopping \union {"new", "ended"}]
  /\ i \in [Prog -> Nat \ {0}] /\ tracked \in [Prog -> Nat]
  /\ passed \in [Prog -> BOOLEAN]
  /\ exit \in [Prog -> {"none", "ok", "error", "interrupted", "cut"}]
  /\ calm \in [Prog -> BOOLEAN]
  /\ changes \in 0..MaxChanges /\ faults \in 0..MaxFaults

\* A demo that nothing disturbed passes: alone on a whole laboratory whose
\* ports and tunnel are free, with its servers listening when it asks for
\* them and no 0 in the time of its handshake, run_traffic_demo.py sees five
\* PASS and run_vpn_demo.py exits with 0.
UndisturbedDemoPasses ==
  \A p \in Prog :
    kind[p] \in {"traffic", "vpn"} /\ pc[p] = "ended" /\ calm[p]
      => passed[p] /\ exit[p] = "ok"

\* A program that ended, be it by an exception or an interrupt, leaves none of
\* its servers, save the one whose Popen the interrupt cut off from its append:
\* whoever destroyed the laboratory, took its ports or failed beside it.  So
\* nothing answers a run_verification.py that runs when no demo does.
NoServerLeft ==
  \A p \in Prog : \A k \in Servers :
    pc[p] = "ended" /\ exit[p] # "cut" /\ server[p][k] \in Alive
      => exit[p] = "interrupted" /\ k = tracked[p] + 1
=============================================================================
