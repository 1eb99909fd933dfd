------------------------------ MODULE Topology ------------------------------
(***************************************************************************)
(* lab/topology/: TopologyBuilder.build and .teardown with the managers    *)
(* they call (NamespaceManager, NetworkBuilder, RoutingManager), executed  *)
(* by any number of operating-system processes at once: run_lab.py,        *)
(* destroy_lab.py and the experiment runner are separate programs that     *)
(* drive the same kernel and share no lock.                                *)
(*                                                                         *)
(* Every external command is one step.  A manager method that first asks   *)
(* namespace_exists and then runs its command is two steps, "check" and    *)
(* "act", because anything may happen between the two subprocesses.        *)
(***************************************************************************)
EXTENDS HostNet, Integers, Sequences, FiniteSets

CONSTANTS
  Proc,        \* processes, each holding one TopologyBuilder
  Script,      \* Script[p]: the calls p makes, a sequence of "build"/"teardown"
  Namespaces,  \* LabConfiguration.namespaces, in order: [name, forwarding]
  Interfaces,  \* every interface, in configuration order:
               \*   [ns, name, veth, peerNs, peerName, ip]; veth is the test
               \*   of topology_builder.py:50, ip tells whether it has an address
  Routes,      \* every route, in configuration order: [ns, target, dev, via];
               \*   dev is the egress device the kernel resolves, via tells
               \*   whether the route names a gateway
  Killable,    \* processes that may be killed between two commands
  MaxFaults    \* bound: commands that fail for a reason of the host's own

VARIABLES
  net,     \* the kernel's network state (HostNet)
  call,    \* call[p]: index in Script[p] of the call p is in
  pc,      \* pc[p]: next element of the loop that call runs through
  sub,     \* sub[p]: next command of that element
  status,  \* "new" (program not started), "running", "done",
           \* "failed" (an exception escaped), "killed"
  exc,     \* the exception that escaped p, or "none"
  cache,   \* NetworkBuilder._created_veths
  seen,    \* history: what happened to namespaces since p's call began
  faults   \* how many commands have failed so far

vars == <<net, call, pc, sub, status, exc, cache, seen, faults>>

NsName(i) == Namespaces[i].name
NsNames == {NsName(i) : i \in 1..Len(Namespaces)}

\* What LabConfiguration.validate establishes of an accepted configuration:
\* namespace and interface names unique, every peer namespace declared.  An
\* interface and a route are listed under a namespace, so theirs exist.
ConfigAssumption ==
  /\ Namespaces \in Seq([name : STRING, forwarding : BOOLEAN])
  /\ Interfaces \in Seq([ns : NsNames, name : STRING, veth : BOOLEAN,
                         peerNs : NsNames, peerName : STRING, ip : BOOLEAN])
  /\ Routes \in Seq([ns : NsNames, target : STRING, dev : STRING, via : BOOLEAN])
  /\ \A i, j \in 1..Len(Namespaces) : NsName(i) = NsName(j) => i = j
  /\ \A i, j \in 1..Len(Interfaces) :
        Interfaces[i].name = Interfaces[j].name => i = j
  /\ Host \notin NsNames

ASSUME ConfigAssumption

ProcAssumption ==
  /\ Script \in [Proc -> Seq({"build", "teardown"})]
  /\ \A p \in Proc : Len(Script[p]) > 0
  /\ Killable \subseteq Proc
  /\ MaxFaults \in Nat

ASSUME ProcAssumption

-----------------------------------------------------------------------------
\* The commands of build(), in order.  An element [op, i] stands for the
\* manager call `op` on the i-th namespace, interface or route.

Phase1 ==  \* per namespace: create it, loopback up, forwarding
  [k \in 1..(3 * Len(Namespaces)) |->
     [op |-> <<"create", "loopback", "forwarding">>[((k - 1) % 3) + 1],
      i  |-> ((k - 1) \div 3) + 1]]

Phase2 == [k \in 1..Len(Interfaces) |-> [op |-> "veth", i |-> k]]

\* Defect: the loop over the interfaces misses the last `up`.
Phase3Short ==
  [k \in 1..(2 * Len(Interfaces) - 1) |->
     [op |-> <<"addr", "up">>[((k - 1) % 2) + 1], i |-> ((k - 1) \div 2) + 1]]

Phase3 ==  \* per interface: address, then up
  [k \in 1..(2 * Len(Interfaces)) |->
     [op |-> <<"addr", "up">>[((k - 1) % 2) + 1], i |-> ((k - 1) \div 2) + 1]]

Phase4 == [k \in 1..Len(Routes) |-> [op |-> "route", i |-> k]]

Plan == Phase1 \o Phase2 \o Phase3 \o Phase4

ExecOps == {"loopback", "forwarding", "addr", "up", "route"}
Ops == {"create", "veth"} \union ExecOps

\* The namespace an element's command runs in.
NsOf(cmd) ==
  CASE cmd.op \in {"create", "loopback", "forwarding"} -> NsName(cmd.i)
    [] cmd.op \in {"veth", "addr", "up"} -> Interfaces[cmd.i].ns
    [] cmd.op = "route" -> Routes[cmd.i].ns

End1(f) == <<f.ns, f.name>>
End2(f) == <<f.peerNs, f.peerName>>
\* Defect: pair_id is not sorted, so each end makes an identity of its own.
PairOrdered(f) == {<<End1(f), End2(f)>>}

Pair(f) == {End1(f), End2(f)}  \* pair_id: the two ends, unordered

\* The element's command has the effect it is there for.
Effect(n, cmd) ==
  LET f == Interfaces[cmd.i]
      r == Routes[cmd.i]
  IN  CASE cmd.op = "create"     -> NsName(cmd.i) \in n.netns
        [] cmd.op = "loopback"   -> NsName(cmd.i) \in n.lo
        [] cmd.op = "forwarding" ->
             (NsName(cmd.i) \in n.fwd) <=> Namespaces[cmd.i].forwarding
        [] cmd.op = "veth"  -> f.veth => Pair(f) \in n.veths
        [] cmd.op = "addr"  -> f.ip => End1(f) \in n.addrs
        [] cmd.op = "up"    -> End1(f) \in n.ups
        [] cmd.op = "route" -> <<r.ns, r.target, r.dev>> \in n.routes

-----------------------------------------------------------------------------
Init ==
  /\ \E left \in SUBSET NsNames :  \* namespaces an earlier run left behind
        net = [EmptyNet EXCEPT !.netns = left]
  /\ call = [p \in Proc |-> 1]
  /\ pc = [p \in Proc |-> 1]
  /\ sub = [p \in Proc |-> "check"]
  /\ status = [p \in Proc |-> "new"]
  /\ exc = [p \in Proc |-> "none"]
  /\ cache = [p \in Proc |-> {}]
  /\ seen = [p \in Proc |-> {}]
  /\ faults = 0

CallOf(p) == Script[p][call[p]]

\* Defect: the deletion loop misses the last namespace.
LoopLengthShort(p) ==
  IF CallOf(p) = "build" THEN Len(Plan) ELSE Len(Namespaces) - 1

LoopLength(p) ==
  IF CallOf(p) = "build" THEN Len(Plan) ELSE Len(Namespaces)

InLoop(p, c) ==
  /\ status[p] = "running"
  /\ CallOf(p) = c
  /\ pc[p] <= LoopLength(p)

\* p is about to run command s of an element `op` of build().
At(p, op, s) ==
  /\ InLoop(p, "build")
  /\ Plan[pc[p]].op = op
  /\ sub[p] = s

Cmd(p) == Plan[pc[p]]
Iface(p) == Interfaces[Cmd(p).i]

\* Control: the next command of the element, or the next element.
Then(p, s) ==
  /\ sub' = [sub EXCEPT ![p] = s]
  /\ UNCHANGED <<call, pc, status, exc, faults>>

Advance(p) ==
  /\ pc' = [pc EXCEPT ![p] = @ + 1]
  /\ sub' = [sub EXCEPT ![p] = "check"]
  /\ UNCHANGED <<call, status, exc, faults>>

\* An exception escapes the call.  pc and sub keep where that was.
Raise(p, e) ==
  /\ status' = [status EXCEPT ![p] = "failed"]
  /\ exc' = [exc EXCEPT ![p] = e]
  /\ UNCHANGED <<net, call, pc, sub, cache, seen>>

\* What NamespaceManager._run_cmd raises for a command that exits non-zero.
\* Exit code 1 (and 130) takes the branch of line 121, whose test names the
\* module `os` the file never imports.
RunCmdError(rc) == IF rc = 1 THEN "NameError" ELSE "CommandExecutionError"

RunCmdRaises(p) == \E rc \in {1, 2} : Raise(p, RunCmdError(rc))

Note(event) == seen' = [q \in Proc |-> seen[q] \union {event}]

-----------------------------------------------------------------------------
\* NamespaceManager.create_namespace

\* Defect: create_namespace recreates a namespace that is in its way.
CreateCheckResets(p) ==
  /\ At(p, "create", "check")
  /\ net' = NetnsAdd(NetnsDelete(net, NsOf(Cmd(p))), NsOf(Cmd(p)), FALSE)
  /\ Advance(p)
  /\ UNCHANGED <<cache, seen>>

CreateCheck(p) ==
  /\ At(p, "create", "check")
  /\ IF NsOf(Cmd(p)) \in net.netns
     THEN Raise(p, "NamespaceAlreadyExists") /\ UNCHANGED faults
     ELSE Then(p, "act") /\ UNCHANGED <<net, cache, seen>>

CreateAct(p) ==
  /\ At(p, "create", "act")
  /\ IF CanNetnsAdd(net, NsOf(Cmd(p)))
     THEN /\ \E inherited \in BOOLEAN :
               net' = NetnsAdd(net, NsOf(Cmd(p)), inherited)
          /\ Note("added")
          /\ Advance(p)
          /\ UNCHANGED cache
     ELSE RunCmdRaises(p) /\ UNCHANGED faults

\* assign_ip is not called for an interface without an address.
AddrSkip(p) ==
  /\ At(p, "addr", "check")
  /\ ~Iface(p).ip
  /\ Advance(p)
  /\ UNCHANGED <<net, cache, seen>>

\* NamespaceManager.execute: the existence check before the command.
ExecCheck(p) ==
  /\ \E op \in ExecOps : At(p, op, "check")
  /\ Cmd(p).op = "addr" => Iface(p).ip
  /\ IF NsOf(Cmd(p)) \in net.netns
     THEN Then(p, "act") /\ UNCHANGED <<net, cache, seen>>
     ELSE Raise(p, "NamespaceNotFound") /\ UNCHANGED faults

\* ... and the command itself, run in the namespace if it still exists.
Execute(p, op, possible, result) ==
  /\ At(p, op, "act")
  /\ IF NsOf(Cmd(p)) \in net.netns /\ possible
     THEN net' = result /\ Advance(p) /\ UNCHANGED <<cache, seen>>
     ELSE RunCmdRaises(p) /\ UNCHANGED faults

LoopbackAct(p) == Execute(p, "loopback", TRUE, LoUp(net, NsOf(Cmd(p))))

ForwardingAct(p) ==
  Execute(p, "forwarding", TRUE,
          SetForward(net, NsOf(Cmd(p)), Namespaces[Cmd(p).i].forwarding))

AddrAct(p) ==
  Execute(p, "addr", CanAddrAdd(net, End1(Iface(p))),
          AddrAdd(net, End1(Iface(p))))

UpAct(p) ==
  Execute(p, "up", CanLinkUp(net, End1(Iface(p))), LinkUp(net, End1(Iface(p))))

RouteAct(p) ==
  LET r == Routes[Cmd(p).i]
  IN  Execute(p, "route", CanRouteAdd(net, r.ns, r.target, r.dev, r.via),
              RouteAdd(net, r.ns, r.target, r.dev))

-----------------------------------------------------------------------------
\* NetworkBuilder.create_veth_pair

\* Not a veth with a named peer, or the pair is in _created_veths.
VethSkip(p) ==
  /\ At(p, "veth", "check")
  /\ Iface(p).veth => Pair(Iface(p)) \in cache[p]
  /\ Advance(p)
  /\ UNCHANGED <<net, cache, seen>>

\* Defect: the first end is not moved.
VethAddSkipsMove(p) ==
  /\ At(p, "veth", "check")
  /\ Iface(p).veth
  /\ Pair(Iface(p)) \notin cache[p]
  /\ CanLinkAdd(net, Iface(p).name, Iface(p).peerName)
  /\ net' = LinkAdd(net, Iface(p).name, Iface(p).peerName)
  /\ Then(p, "move2")
  /\ UNCHANGED <<cache, seen>>

VethAdd(p) ==
  /\ At(p, "veth", "check")
  /\ Iface(p).veth
  /\ Pair(Iface(p)) \notin cache[p]
  /\ IF CanLinkAdd(net, Iface(p).name, Iface(p).peerName)
     THEN /\ net' = LinkAdd(net, Iface(p).name, Iface(p).peerName)
          /\ Then(p, "move1")
          /\ UNCHANGED <<cache, seen>>
     ELSE Raise(p, "CommandExecutionError") /\ UNCHANGED faults

VethMove1(p) ==
  /\ At(p, "veth", "move1")
  /\ IF CanLinkMove(net, Iface(p).name, Iface(p).ns)
     THEN /\ net' = LinkMove(net, Iface(p).name, Iface(p).ns)
          /\ Then(p, "move2")
          /\ UNCHANGED <<cache, seen>>
     ELSE Raise(p, "CommandExecutionError") /\ UNCHANGED faults

\* Defect: the pair is recorded before its second end is moved.
VethMove2Forgets(p) ==
  /\ At(p, "veth", "move2")
  /\ cache' = [cache EXCEPT ![p] = @ \union {Pair(Iface(p))}]
  /\ Advance(p)
  /\ UNCHANGED <<net, seen>>

VethMove2(p) ==
  /\ At(p, "veth", "move2")
  /\ IF CanLinkMove(net, Iface(p).peerName, Iface(p).peerNs)
     THEN /\ net' = LinkMove(net, Iface(p).peerName, Iface(p).peerNs)
          /\ cache' = [cache EXCEPT ![p] = @ \union {Pair(Iface(p))}]
          /\ Advance(p)
          /\ UNCHANGED seen
     ELSE Raise(p, "CommandExecutionError") /\ UNCHANGED faults

-----------------------------------------------------------------------------
\* NamespaceManager.cleanup, the whole of TopologyBuilder.teardown

\* Defect: NamespaceNotFound is caught outside the loop.
DeleteCheckStops(p) ==
  /\ InLoop(p, "teardown")
  /\ sub[p] = "check"
  /\ IF NsName(pc[p]) \in net.netns
     THEN Then(p, "act")
     ELSE /\ pc' = [pc EXCEPT ![p] = LoopLength(p) + 1]
          /\ UNCHANGED <<call, sub, status, exc, faults>>
  /\ UNCHANGED <<net, cache, seen>>

\* Defect: NamespaceNotFound is not caught at all.
DeleteCheckRaises(p) ==
  /\ InLoop(p, "teardown")
  /\ sub[p] = "check"
  /\ IF NsName(pc[p]) \in net.netns
     THEN Then(p, "act") /\ UNCHANGED <<net, cache, seen>>
     ELSE Raise(p, "NamespaceNotFound") /\ UNCHANGED faults

\* Defect: a missing namespace is waited for.
DeleteCheckWaits(p) ==
  /\ InLoop(p, "teardown")
  /\ sub[p] = "check"
  /\ NsName(pc[p]) \in net.netns
  /\ Then(p, "act")
  /\ UNCHANGED <<net, cache, seen>>

\* delete_namespace's check; the NamespaceNotFound it raises is swallowed.
DeleteCheck(p) ==
  /\ InLoop(p, "teardown")
  /\ sub[p] = "check"
  /\ IF NsName(pc[p]) \in net.netns THEN Then(p, "act") ELSE Advance(p)
  /\ UNCHANGED <<net, cache, seen>>

\* Any other exception leaves the loop, and the namespaces after this one.
DeleteAct(p) ==
  /\ InLoop(p, "teardown")
  /\ sub[p] = "act"
  /\ IF CanNetnsDelete(net, NsName(pc[p]))
     THEN /\ net' = NetnsDelete(net, NsName(pc[p]))
          /\ Note("deleted")
          /\ Advance(p)
          /\ UNCHANGED cache
     ELSE RunCmdRaises(p) /\ UNCHANGED faults

-----------------------------------------------------------------------------
\* Somebody starts the program.
Start(p) ==
  /\ status[p] = "new"
  /\ status' = [status EXCEPT ![p] = "running"]
  /\ seen' = [seen EXCEPT ![p] = {}]
  /\ UNCHANGED <<net, call, pc, sub, exc, cache, faults>>

\* The call has gone through its loop.
Finished(p, c) ==
  /\ status[p] \in {"running", "done"}
  /\ CallOf(p) = c
  /\ pc[p] > LoopLength(p)

\* Defect: one call too many is made.
ReturnOneMore(p) ==
  /\ status[p] = "running"
  /\ pc[p] > LoopLength(p)
  /\ IF call[p] <= Len(Script[p])
     THEN /\ call' = [call EXCEPT ![p] = @ + 1]
          /\ pc' = [pc EXCEPT ![p] = 1]
          /\ sub' = [sub EXCEPT ![p] = "check"]
          /\ seen' = [seen EXCEPT ![p] = {}]
          /\ UNCHANGED status
     ELSE /\ status' = [status EXCEPT ![p] = "done"]
          /\ UNCHANGED <<call, pc, sub, seen>>
  /\ UNCHANGED <<net, exc, cache, faults>>

\* It returns; the process makes its next call, or ends.
Return(p) ==
  /\ status[p] = "running"
  /\ pc[p] > LoopLength(p)
  /\ IF call[p] < Len(Script[p])
     THEN /\ call' = [call EXCEPT ![p] = @ + 1]
          /\ pc' = [pc EXCEPT ![p] = 1]
          /\ sub' = [sub EXCEPT ![p] = "check"]
          /\ seen' = [seen EXCEPT ![p] = {}]
          /\ UNCHANGED status
     ELSE /\ status' = [status EXCEPT ![p] = "done"]
          /\ UNCHANGED <<call, pc, sub, seen>>
  /\ UNCHANGED <<net, exc, cache, faults>>

\* A command fails for a reason the model does not follow (no privilege, no
\* memory, a missing binary) and changes nothing.  create_veth_pair wraps the
\* failure itself, every other command goes through _run_cmd.
CommandFails(p) ==
  /\ faults < MaxFaults
  /\ faults' = faults + 1
  /\ \/ InLoop(p, "teardown") /\ RunCmdRaises(p)
     \/ /\ InLoop(p, "build")
        /\ IF Cmd(p).op = "veth"
           THEN /\ Iface(p).veth
                /\ Pair(Iface(p)) \notin cache[p]
                /\ Raise(p, "CommandExecutionError")
           ELSE /\ Cmd(p).op = "addr" => Iface(p).ip
                /\ RunCmdRaises(p)

\* The process is killed or interrupted between two commands.
Kill(p) ==
  /\ p \in Killable
  /\ status[p] = "running"
  /\ status' = [status EXCEPT ![p] = "killed"]
  /\ UNCHANGED <<net, call, pc, sub, exc, cache, seen, faults>>

BuildStep(p) ==
  \/ CreateCheck(p) \/ CreateAct(p) \/ AddrSkip(p) \/ ExecCheck(p)
  \/ LoopbackAct(p) \/ ForwardingAct(p) \/ AddrAct(p) \/ UpAct(p) \/ RouteAct(p)
  \/ VethSkip(p) \/ VethAdd(p) \/ VethMove1(p) \/ VethMove2(p)

TeardownStep(p) == DeleteCheck(p) \/ DeleteAct(p)

Step(p) == BuildStep(p) \/ TeardownStep(p) \/ Return(p)

Next == \E p \in Proc : Start(p) \/ Step(p) \/ CommandFails(p) \/ Kill(p)

Spec == Init /\ [][Next]_vars

\* The operating system schedules every process that has been started;
\* nothing makes a person start one.
FairSpec == Spec /\ \A p \in Proc : WF_vars(Step(p))

-----------------------------------------------------------------------------
Locations == NsNames \union {Host}
IfNames == {Interfaces[i].name : i \in 1..Len(Interfaces)}
             \union {Interfaces[i].peerName : i \in 1..Len(Interfaces)}

Subs == {"check", "act", "move1", "move2"}
Exceptions == {"none", "NamespaceNotFound", "NamespaceAlreadyExists",
               "CommandExecutionError", "NameError"}

NetType ==
  [netns : SUBSET NsNames, lo : SUBSET NsNames, fwd : SUBSET NsNames,
   veths : SUBSET SUBSET (Locations \X IfNames),
   addrs : SUBSET (NsNames \X IfNames), ups : SUBSET (NsNames \X IfNames),
   routes : SUBSET (NsNames \X STRING \X STRING)]

\* Type correctness: every variable keeps its domain, a process's position
\* stays inside its script and at most one past the end of its loop.
TypeOK ==
  /\ net \in NetType
  /\ call \in [Proc -> Nat]
  /\ pc \in [Proc -> Nat]
  /\ \A p \in Proc : /\ call[p] \in 1..Len(Script[p])
                     /\ pc[p] \in 1..(LoopLength(p) + 1)
  /\ sub \in [Proc -> Subs]
  /\ status \in [Proc -> {"new", "running", "done", "failed", "killed"}]
  /\ exc \in [Proc -> Exceptions]
  /\ cache \in [Proc -> SUBSET SUBSET (Locations \X IfNames)]
  /\ seen \in [Proc -> SUBSET {"added", "deleted"}]
  /\ faults \in 0..MaxFaults

\* The kernel holds everything the configuration asks for.
Conforms ==
  /\ \A i \in 1..Len(Namespaces) :
        /\ NsName(i) \in net.netns
        /\ NsName(i) \in net.lo
        /\ NsName(i) \in net.fwd <=> Namespaces[i].forwarding
  /\ \A i \in 1..Len(Interfaces) :
        LET f == Interfaces[i]
        IN  /\ f.veth => Pair(f) \in net.veths
            /\ f.ip => End1(f) \in net.addrs
            /\ End1(f) \in net.ups
  /\ \A i \in 1..Len(Routes) :
        <<Routes[i].ns, Routes[i].target, Routes[i].dev>> \in net.routes

\* Seen from outside, the processes share one laboratory (Laboratory.tla): it
\* is ready exactly when the kernel holds everything.
Lab == INSTANCE Laboratory
         WITH Names <- NsNames, present <- net.netns, ready <- Conforms

\* However builds and teardowns of several programs interleave, fail or are
\* killed, the laboratory becomes ready at one step, with every namespace
\* there, and stays ready until a namespace is deleted: a second build() that
\* runs into a finished laboratory fails without damaging it.
ImplementsLaboratory == Lab!Spec

FirstBuild(p) == \A j \in 1..(call[p] - 1) : Script[p][j] # "build"

\* A builder's first build() that returns, with no namespace deleted while it
\* ran, leaves the kernel as configured, whatever other builds run beside it
\* and whatever an earlier run left.
BuildConforms ==
  \A p \in Proc :
    Finished(p, "build") /\ FirstBuild(p) /\ "deleted" \notin seen[p]
      => Conforms

\* A teardown() that returns, with no namespace created while it ran, has
\* removed every configured namespace, from whatever state it started in.
TeardownClears ==
  \A p \in Proc :
    Finished(p, "teardown") /\ "added" \notin seen[p]
      => net.netns \intersect NsNames = {}

\* A veth end is on the root stack only while a process is between the `ip
\* link add` and the second move of that link, or if a process ended there.
HostLinkOwned ==
  \A v \in net.veths :
    (\E d \in v : Located(d, Host)) =>
      \E p \in Proc : /\ CallOf(p) = "build"
                      /\ sub[p] \in {"move1", "move2"}
                      /\ \E d \in v : d[2] \in {Iface(p).name, Iface(p).peerName}

\* _created_veths is not a memory of dead links: during a builder's first
\* build() every pair in it exists, with both ends in their namespaces, unless
\* a namespace was deleted meanwhile.  Skipping a cached pair is then sound,
\* also after other programs' builds and failed moves.
CachedPairsExist ==
  \A p \in Proc :
    CallOf(p) = "build" /\ FirstBuild(p) /\ "deleted" \notin seen[p]
      => \A v \in cache[p] : v \in net.veths /\ \A d \in v : ~Located(d, Host)

\* Of several destroy_lab.py racing for the same namespaces at least one gets
\* through them all: once all have ended, nothing configured is left.
RacingTeardownsClear ==
  (\A p \in Proc : status[p] \in {"done", "failed"})
    => net.netns \intersect NsNames = {}

\* A build() after a teardown() fails only if a command of it fails for a
\* reason of the host's own: the order of the phases and of the loops in them
\* gives every command what it needs, whatever namespaces were left behind.
BuildSucceeds ==
  \A p \in Proc : faults = 0 /\ CallOf(p) = "build" => status[p] # "failed"

\* Every process that is started ends.
Terminates ==
  \A p \in Proc : status[p] = "running" ~> status[p] \notin {"new", "running"}

\* Once every racing teardown has been started, the laboratory goes for good.
EventuallyCleared ==
  (\A p \in Proc : status[p] # "new")
    ~> [](net.netns \intersect NsNames = {})
=============================================================================
