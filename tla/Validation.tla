----------------------------- MODULE Validation -----------------------------
(***************************************************************************)
(* lab/validation/validator.py: LaboratoryValidator.validate, which        *)
(* run_lab.py calls once its build has returned.  It reads the kernel one  *)
(* command at a time and compares what it reads with the configuration,    *)
(* while other programs of the laboratory go on changing the kernel.       *)
(*                                                                         *)
(* NamespaceManager.execute is two steps as in Topology: namespace_exists  *)
(* and the command.  Which packets the kernel delivers is not modelled: a  *)
(* ping is answered in a laboratory that is whole, and may or may not be   *)
(* answered in another.                                                    *)
(***************************************************************************)
EXTENDS HostNet, Integers, Sequences, FiniteSets

CONSTANTS
  Namespaces,    \* LabConfiguration.namespaces, in order:
                 \*   [name, forwarding, ifaces, routes] with
                 \*   ifaces a sequence of [name, ip, peerNs, peerName] and
                 \*   routes a sequence of [target, dev, via]
  Client, AppServer,  \* the namespaces the pings go between
  UpLeadsFlags,  \* `ip link show` prints UP before the first comma
  MaxChanges,    \* bound: commands of other programs
  MaxFaults      \* bound: commands that fail for a reason of the host's own

N == Len(Namespaces)
Ns(i) == Namespaces[i].name
Ifaces(i) == Namespaces[i].ifaces
Routes(i) == Namespaces[i].routes
Dev(i, j) == <<Ns(i), Ifaces(i)[j].name>>
Peer(i, j) == <<Ifaces(i)[j].peerNs, Ifaces(i)[j].peerName>>
Default == "0.0.0.0/0"

ValidationAssumption ==
  /\ Namespaces \in
       Seq([name : STRING, forwarding : BOOLEAN,
            ifaces : Seq([name : STRING, ip : BOOLEAN, peerNs : STRING,
                          peerName : STRING]),
            routes : Seq([target : STRING, dev : STRING, via : BOOLEAN])])
  /\ N > 0
  /\ \A a, b \in 1..N : Ns(a) = Ns(b) => a = b
  /\ {Client, AppServer} \subseteq {Ns(a) : a \in 1..N}
  /\ Host \notin {Ns(a) : a \in 1..N}
  /\ UpLeadsFlags \in BOOLEAN
  /\ MaxChanges \in Nat /\ MaxFaults \in Nat

ASSUME ValidationAssumption

VARIABLES
  net,      \* the kernel (HostNet)
  verdict,  \* "new", "running", "passed", "exit" (SystemExit(1)), "escaped"
            \* (an exception validate() does not handle)
  at,       \* the check: [step, i, j] for namespace i and its j-th item
  asked,    \* namespace_exists has answered for the command to come
  start,    \* history: the kernel when validate() was called
  seen,     \* history: what other programs did to it since then
  changes, faults

program == <<verdict, at, asked>>
kernel == <<net, seen, changes>>
vars == <<program, kernel, start, faults>>

-----------------------------------------------------------------------------
\* What the commands show.

LinkExists(k, i, j) == Dev(i, j) \in Devices(k)
ForwardingRight(k, i) == Ns(i) \in k.fwd <=> Namespaces[i].forwarding
UpShown(k, i, j) == UpLeadsFlags /\ Dev(i, j) \in k.ups
HasAddress(k, i, j) == Dev(i, j) \in k.addrs
HasRoute(k, i, j) ==
  \E r \in k.routes : r[1] = Ns(i) /\ r[2] = Routes(i)[j].target

\* Defect: a default route is looked for as "default dev <device>".
RouteShownOnLink(k, i, j) ==
  HasRoute(k, i, j) /\ (Routes(i)[j].target = Default => ~Routes(i)[j].via)

\* A default route is looked for as "default via <gateway>", which one
\* without a gateway is not shown as.
RouteShown(k, i, j) ==
  /\ HasRoute(k, i, j)
  /\ Routes(i)[j].target = Default => Routes(i)[j].via

\* The configured laboratory is there.
WholeIface(k, i, j) ==
  /\ LinkExists(k, i, j) /\ Dev(i, j) \in k.ups
  /\ Ifaces(i)[j].ip => HasAddress(k, i, j)

WholeNs(k, i) ==
  /\ Ns(i) \in k.netns
  /\ ForwardingRight(k, i)
  /\ \A j \in 1..Len(Ifaces(i)) : WholeIface(k, i, j)
  /\ \A j \in 1..Len(Routes(i)) : HasRoute(k, i, j)

Whole(k) == \A i \in 1..N : WholeNs(k, i)

\* What build() leaves.
Built ==
  [netns  |-> {Ns(i) : i \in 1..N},
   lo     |-> {Ns(i) : i \in 1..N},
   fwd    |-> {Ns(i) : i \in {a \in 1..N : Namespaces[a].forwarding}},
   veths  |-> UNION {{{Dev(i, j), Peer(i, j)} : j \in 1..Len(Ifaces(i))} : i \in 1..N},
   addrs  |-> UNION {{Dev(i, j) : j \in {b \in 1..Len(Ifaces(i)) : Ifaces(i)[b].ip}}
                     : i \in 1..N},
   ups    |-> UNION {{Dev(i, j) : j \in 1..Len(Ifaces(i))} : i \in 1..N},
   routes |-> UNION {{<<Ns(i), Routes(i)[j].target, Routes(i)[j].dev>>
                      : j \in 1..Len(Routes(i))} : i \in 1..N}]

Init ==
  /\ net = Built
  /\ verdict = "new"
  /\ at = [step |-> "exists", i |-> 1, j |-> 1]
  /\ asked = FALSE
  /\ start = EmptyNet /\ seen = {}
  /\ changes = 0 /\ faults = 0

-----------------------------------------------------------------------------
Executed == {"forwarding", "link", "addr", "routes", "ping", "reverse"}
Steps == {"exists"} \union Executed

At(step) == verdict = "running" /\ at.step = step
Goto(step, i, j) ==
  /\ at' = [step |-> step, i |-> i, j |-> j]
  /\ asked' = FALSE
  /\ UNCHANGED verdict
Ends(v) == verdict' = v /\ UNCHANGED <<at, asked>>

\* AssertionError, CommandExecutionError and ValueError become SystemExit(1).
AssertionFails == Ends("exit")

\* What _run_cmd makes of a command that exits non-zero: NameError for code 1
\* (namespace_manager.py:123), else CommandExecutionError.
RunCmdRaises(rc) == IF rc = 1 THEN Ends("escaped") ELSE Ends("exit")

\* The namespace whose command comes next.
Target ==
  CASE at.step = "ping" -> Client
    [] at.step = "reverse" -> AppServer
    [] OTHER -> Ns(at.i)

Begin ==
  /\ verdict = "new"
  /\ verdict' = "running"
  /\ start' = net /\ seen' = {}
  /\ UNCHANGED <<net, at, asked, changes, faults>>

Exists ==
  /\ At("exists")
  /\ IF Ns(at.i) \in net.netns THEN Goto("forwarding", at.i, 1) ELSE AssertionFails
  /\ UNCHANGED <<kernel, start, faults>>

\* _get_node_ip, evaluated before the ping: the other end needs an address.
Pinged == IF at.step = "ping" THEN AppServer ELSE Client

Addressed(n) ==
  \E i \in 1..N : Ns(i) = n /\ \E j \in 1..Len(Ifaces(i)) : Ifaces(i)[j].ip

\* NamespaceManager.execute: namespace_exists, whose NamespaceNotFound
\* validate() does not handle, ...
Ask ==
  /\ verdict = "running" /\ at.step \in Executed /\ ~asked
  /\ IF at.step \in {"ping", "reverse"} /\ ~Addressed(Pinged)
     THEN AssertionFails
     ELSE IF Target \in net.netns
          THEN asked' = TRUE /\ UNCHANGED <<verdict, at>>
          ELSE Ends("escaped")
  /\ UNCHANGED <<kernel, start, faults>>

\* ... and the command, whose output is then compared.
Execute(step, exits0, matches, next) ==
  /\ At(step) /\ asked
  /\ IF Target \in net.netns /\ exits0
     THEN IF matches THEN next ELSE AssertionFails
     ELSE \E rc \in {1, 2} : RunCmdRaises(rc)
  /\ UNCHANGED <<kernel, start, faults>>

\* The loop over the interfaces goes on with the j-th, or ends.
Interface(i, j) ==
  IF j <= Len(Ifaces(i)) THEN Goto("link", i, j) ELSE Goto("routes", i, 1)

\* Defect: what `sysctl` shows is not compared.
ForwardingUnread == Execute("forwarding", TRUE, TRUE, Interface(at.i, 1))

Forwarding == Execute("forwarding", TRUE, ForwardingRight(net, at.i), Interface(at.i, 1))

Link ==
  Execute("link", LinkExists(net, at.i, at.j), UpShown(net, at.i, at.j),
          IF Ifaces(at.i)[at.j].ip
          THEN Goto("addr", at.i, at.j) ELSE Interface(at.i, at.j + 1))

Address ==
  Execute("addr", LinkExists(net, at.i, at.j), HasAddress(net, at.i, at.j),
          Interface(at.i, at.j + 1))

\* The routes of a namespace are read once and then compared one by one.
RoutesRead ==
  Execute("routes", TRUE, \A j \in 1..Len(Routes(at.i)) : RouteShown(net, at.i, j),
          IF at.i < N THEN Goto("exists", at.i + 1, 1) ELSE Goto("ping", N, 1))

\* ping -c 1: an unanswered one exits with 1, one without a route with 2.
Ping ==
  \E answered \in BOOLEAN :
    /\ Whole(net) => answered
    /\ Execute("ping", answered, TRUE, Goto("reverse", N, 1))

ReversePing ==
  \E answered \in BOOLEAN :
    /\ Whole(net) => answered
    /\ Execute("reverse", answered, TRUE, Ends("passed"))

Validate ==
  \/ Begin \/ Exists \/ Ask \/ Forwarding \/ Link \/ Address \/ RoutesRead
  \/ Ping \/ ReversePing

CommandFails ==
  /\ verdict = "running" /\ (at.step = "exists" \/ asked)
  /\ faults < MaxFaults /\ faults' = faults + 1
  /\ \E rc \in {1, 2} : RunCmdRaises(rc)
  /\ UNCHANGED <<kernel, start>>

-----------------------------------------------------------------------------
\* The other programs: destroy_lab.py takes namespaces away, run_lab.py puts
\* configured elements in place.

Change(event) ==
  /\ changes < MaxChanges /\ changes' = changes + 1
  /\ seen' = seen \union {event}
  /\ UNCHANGED <<program, start, faults>>

RivalDeletes ==
  \E i \in 1..N :
    /\ CanNetnsDelete(net, Ns(i))
    /\ net' = NetnsDelete(net, Ns(i))
    /\ Change("deleted")

RivalSetsUp(i) ==
  \/ /\ CanNetnsAdd(net, Ns(i))
     /\ \E inherited \in BOOLEAN : net' = NetnsAdd(net, Ns(i), inherited)
  \/ /\ Ns(i) \in net.netns
     /\ net' = SetForward(net, Ns(i), Namespaces[i].forwarding)

RivalConnects(i, j) ==
  \/ /\ {Ns(i), Ifaces(i)[j].peerNs} \subseteq net.netns
     /\ net' = [net EXCEPT !.veths = @ \union {{Dev(i, j), Peer(i, j)}}]
  \/ CanAddrAdd(net, Dev(i, j)) /\ net' = AddrAdd(net, Dev(i, j))
  \/ CanLinkUp(net, Dev(i, j)) /\ net' = LinkUp(net, Dev(i, j))

RivalRoutes(i, j) ==
  LET r == Routes(i)[j]
  IN  /\ CanRouteAdd(net, Ns(i), r.target, r.dev, r.via)
      /\ net' = RouteAdd(net, Ns(i), r.target, r.dev)

RivalBuilds ==
  \E i \in 1..N :
    /\ \/ RivalSetsUp(i)
       \/ \E j \in 1..Len(Ifaces(i)) : RivalConnects(i, j)
       \/ \E j \in 1..Len(Routes(i)) : RivalRoutes(i, j)
    /\ net' # net
    /\ Change("added")

Next == Validate \/ CommandFails \/ RivalDeletes \/ RivalBuilds

Spec == Init /\ [][Next]_vars

-----------------------------------------------------------------------------
NsNames == {Ns(i) : i \in 1..N}
DeviceNames == STRING \X STRING

NetType ==
  [netns : SUBSET NsNames, lo : SUBSET NsNames, fwd : SUBSET NsNames,
   veths : SUBSET SUBSET DeviceNames, addrs : SUBSET DeviceNames,
   ups : SUBSET DeviceNames, routes : SUBSET (STRING \X STRING \X STRING)]

TypeOK ==
  /\ verdict \in {"new", "running", "passed", "exit", "escaped"}
  /\ at \in [step : Steps, i : 1..N, j : Nat]
  /\ at.step \in {"link", "addr"} => at.j \in 1..Len(Ifaces(at.i))
  /\ asked \in BOOLEAN
  /\ net \in NetType /\ start \in NetType
  /\ seen \subseteq {"deleted", "added"}
  /\ changes \in 0..MaxChanges /\ faults \in 0..MaxFaults

\* The validator's aim is "to guarantee fidelity to the original
\* configuration" (validator.py:4-5), but it reads the kernel piece by piece.
\* When it passes and others at most deleted meanwhile, the laboratory was
\* whole when it was called; when they at most added, it is whole at the end.
PassMeansWhole ==
  verdict = "passed" =>
    /\ "added" \notin seen => Whole(start)
    /\ "deleted" \notin seen => Whole(net)

\* A validator called on a whole laboratory does not report a fault unless
\* another program changes it meanwhile or a command fails.
WholePasses ==
  Whole(start) /\ seen = {} /\ faults = 0 => verdict \notin {"exit", "escaped"}
=============================================================================
