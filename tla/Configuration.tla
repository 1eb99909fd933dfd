---------------------------- MODULE Configuration ----------------------------
(***************************************************************************)
(* lab/config.py and the two programs that read it, run_lab.py and         *)
(* destroy_lab.py, over the life of a laboratory: configs/topology.yaml is *)
(* edited between their runs, a build fails or is killed half-way, and the *)
(* next program starts from what is left, with the file as it is then.     *)
(*                                                                         *)
(* One program runs at a time (Topology has the ones that run together)    *)
(* and the host itself does not fail, so that what becomes of a build      *)
(* depends on the file and on the kernel alone.                            *)
(***************************************************************************)
EXTENDS HostNet, Integers, FiniteSets, SequencesExt

CONSTANTS
  File,        \* topology.yaml as shipped, see below
  NsNames,     \* namespace names an edit may use
  IfNames,     \* interface names an edit may use
  Subnets,     \* valid subnets
  MaxRuns,     \* bound: programs started
  MaxChanges   \* bound: edits of files and programs killed, together

(***************************************************************************)
(* A file is                                                               *)
(*   readable    whether it is there, is YAML and has the keys and only    *)
(*               the keys the dataclasses name                             *)
(*   subnets     sequence of subnets                                       *)
(*   namespaces  sequence of [name, forwarding,                            *)
(*                 interfaces: sequence of                                 *)
(*                               [name, type, ip, peerNs, peerName],       *)
(*                 routes:     sequence of [target, gateway, dev]]         *)
(*   captures    the namespaces of the capture points                      *)
(* An address stands for its subnet; Single is one without a prefix, Bad a *)
(* string ipaddress does not parse, Ragged a target with host bits set,    *)
(* which strict=False lets pass.  Absent is a key that is not there.       *)
(***************************************************************************)
Absent == "-"
Bad == "bad"
Single == "single"
Ragged == "ragged"
Default == "0.0.0.0/0"

\* The values of an entry, and the strings among them that stand for something.
Text == STRING \union {Absent, Bad, Single, Ragged, Default, "dummy", "good"}

IfaceType == [name : Text, type : Text, ip : Text, peerNs : Text, peerName : Text]
RouteType == [target : Text, gateway : Text, dev : Text]
NamespaceType == [name : Text \ {Host}, forwarding : BOOLEAN,
                  interfaces : Seq(IfaceType), routes : Seq(RouteType)]
FileType == [readable : BOOLEAN, subnets : Seq(Text),
             namespaces : Seq(NamespaceType), captures : Seq(Text)]

ASSUME FileAssumption ==
  /\ File \in FileType
  /\ NsNames \subseteq Text \ {Host} /\ IfNames \subseteq Text /\ Subnets \subseteq Text
  /\ MaxRuns \in Nat /\ MaxChanges \in Nat

VARIABLES
  file,     \* topology.yaml
  net,      \* the kernel's network state (HostNet)
  program,  \* "run_lab" or "destroy_lab"
  step,     \* what it is at: "none", "load", "teardown", "build"
  config,   \* the LabConfiguration it works with
  outcome,  \* how the last program ended
  runs, changes

vars == <<file, net, program, step, config, outcome, runs, changes>>

-----------------------------------------------------------------------------
\* LabConfiguration.validate: the checks in program order, each the name of
\* the exception it raises, or "ok".

Check(bad, error) == IF bad THEN error ELSE "ok"

\* Defect: the interfaces are unique in their namespace only.
IfaceSeenLocally(c, n, i) ==
  \E j \in 1..(i - 1) :
    c.namespaces[n].interfaces[j].name = c.namespaces[n].interfaces[i].name

\* seen_interfaces: the names of the namespaces before, and before in this one.
IfaceSeen(c, n, i) ==
  \E m \in 1..n : \E j \in 1..Len(c.namespaces[m].interfaces) :
    /\ m < n \/ j < i
    /\ c.namespaces[m].interfaces[j].name = c.namespaces[n].interfaces[i].name

IfaceChecks(c, n, i) ==
  <<Check(IfaceSeen(c, n, i), "DuplicateInterfaceError"),
    Check(c.namespaces[n].interfaces[i].ip = Bad, "InvalidIPError")>>

RouteChecks(r) ==
  <<Check(r.target = Bad, "InvalidCIDRError"),
    Check(r.gateway = Absent /\ r.dev = Absent, "MissingGatewayError"),
    Check(r.gateway = Bad, "InvalidIPError")>>

NamespaceChecks(c, n) ==
  LET ns == c.namespaces[n]
  IN  <<Check(\E m \in 1..(n - 1) : c.namespaces[m].name = ns.name,
              "DuplicateNamespaceError")>>
        \o FlattenSeq([i \in 1..Len(ns.interfaces) |-> IfaceChecks(c, n, i)])
        \o FlattenSeq([i \in 1..Len(ns.routes) |-> RouteChecks(ns.routes[i])])

NamesOf(c) == {c.namespaces[n].name : n \in 1..Len(c.namespaces)}

PeerChecks(c, n) ==
  LET fs == c.namespaces[n].interfaces
  IN  [i \in 1..Len(fs) |->
         Check(fs[i].peerNs # Absent /\ fs[i].peerNs \notin NamesOf(c),
               "TopologyConsistencyError")]

Checks(c) ==
  LET N == Len(c.namespaces)
  IN  [s \in 1..Len(c.subnets) |-> Check(c.subnets[s] = Bad, "InvalidCIDRError")]
        \o FlattenSeq([n \in 1..N |-> NamespaceChecks(c, n)])
        \o FlattenSeq([n \in 1..N |-> PeerChecks(c, n)])
        \o [p \in 1..Len(c.captures) |->
              Check(c.captures[p] \notin NamesOf(c), "TopologyConsistencyError")]

\* What validate() raises: the first check that fails decides.
First(checks) ==
  LET failed == {k \in 1..Len(checks) : checks[k] # "ok"}
  IN  IF failed = {} THEN "ok" ELSE checks[Min(failed)]

Verdict(c) == First(Checks(c))

-----------------------------------------------------------------------------
\* The commands of TopologyBuilder.build, as Topology has them, for a file that
\* is not known beforehand.

Ifaces(c) ==
  FlattenSeq([n \in 1..Len(c.namespaces) |->
    [i \in 1..Len(c.namespaces[n].interfaces) |->
       [ns |-> c.namespaces[n].name, f |-> c.namespaces[n].interfaces[i]]]])

End1(e) == <<e.ns, e.f.name>>
End2(e) == <<e.f.peerNs, e.f.peerName>>
Pair(e) == {End1(e), End2(e)}
IsVeth(e) == e.f.type = "veth" /\ e.f.peerNs # Absent /\ e.f.peerName # Absent

\* create_veth_pair returns at once for a pair in _created_veths.
NewVeth(c, i) ==
  LET es == Ifaces(c)
  IN  /\ IsVeth(es[i])
      /\ \A j \in 1..(i - 1) : IsVeth(es[j]) => Pair(es[j]) # Pair(es[i])

LinkCommands(c) ==
  LET es == Ifaces(c)
  IN  FlattenSeq([i \in 1..Len(es) |->
        IF NewVeth(c, i)
        THEN [k \in 1..3 |-> [op |-> <<"veth", "move1", "move2">>[k], arg |-> es[i]]]
        ELSE <<>>])

AddressCommands(c) ==
  LET es == Ifaces(c)
  IN  FlattenSeq([i \in 1..Len(es) |->
        (IF es[i].f.ip = Absent THEN <<>> ELSE <<[op |-> "addr", arg |-> es[i]]>>)
          \o <<[op |-> "up", arg |-> es[i]]>>])

\* create_namespace, bring_loopback_up and set_forwarding count as one.
NamespaceCommands(c) ==
  [n \in 1..Len(c.namespaces) |-> [op |-> "create", arg |-> c.namespaces[n]]]

RouteCommands(c) ==
  FlattenSeq([n \in 1..Len(c.namespaces) |->
    [i \in 1..Len(c.namespaces[n].routes) |->
       [op |-> "route",
        arg |-> [ns |-> c.namespaces[n].name, r |-> c.namespaces[n].routes[i]]]]])

Commands(c) ==
  NamespaceCommands(c) \o LinkCommands(c) \o AddressCommands(c) \o RouteCommands(c)

\* The devices the kernel may use for a route: the one it names, or the one
\* in whose subnet the gateway is.
Egress(c, n, a) ==
  {e \in ToSet(Ifaces(c)) :
     /\ e.ns = a.ns /\ End1(e) \in n.ups
     /\ a.r.dev \in {Absent, e.f.name}
     /\ a.r.gateway # Absent => End1(e) \in n.addrs /\ e.f.ip = a.r.gateway}

\* The subnets the kernel routes by itself, to the devices that are up.
Connected(c, n, ns) ==
  {e.f.ip : e \in {d \in ToSet(Ifaces(c)) :
                     d.ns = ns /\ End1(d) \in n.ups /\ End1(d) \in n.addrs}}

Moves == {"move1", "move2"}

\* Defect: both ends are moved to the namespace that declares the link.
MovedEndStays(cmd) ==
  <<cmd.arg.ns, IF cmd.op = "move1" THEN cmd.arg.f.name ELSE cmd.arg.f.peerName>>

\* Where an end of a link is moved to.
MovedEnd(cmd) == IF cmd.op = "move1" THEN End1(cmd.arg) ELSE End2(cmd.arg)

Possible(c, n, cmd) ==
  LET a == cmd.arg
  IN  CASE cmd.op = "create" -> CanNetnsAdd(n, a.name)
        [] cmd.op = "veth"   -> CanLinkAdd(n, a.f.name, a.f.peerName)
        [] cmd.op \in Moves  -> CanLinkMove(n, MovedEnd(cmd)[2], MovedEnd(cmd)[1])
        [] cmd.op = "addr"   -> CanAddrAdd(n, End1(a))
        [] cmd.op = "up"     -> CanLinkUp(n, End1(a))
        [] cmd.op = "route"  ->
             /\ a.r.target # Ragged
             /\ a.r.target \notin Connected(c, n, a.ns)
             /\ \E e \in Egress(c, n, a) :
                  CanRouteAdd(n, a.ns, a.r.target, e.f.name, a.r.gateway # Absent)

Result(c, n, cmd) ==
  LET a == cmd.arg
  IN  CASE cmd.op = "create" ->
             SetForward(LoUp(NetnsAdd(n, a.name, FALSE), a.name), a.name, a.forwarding)
        [] cmd.op = "veth"   -> LinkAdd(n, a.f.name, a.f.peerName)
        [] cmd.op \in Moves  -> LinkMove(n, MovedEnd(cmd)[2], MovedEnd(cmd)[1])
        [] cmd.op = "addr"   -> AddrAdd(n, End1(a))
        [] cmd.op = "up"     -> LinkUp(n, End1(a))
        [] cmd.op = "route"  ->
             RouteAdd(n, a.ns, a.r.target, (CHOOSE e \in Egress(c, n, a) : TRUE).f.name)

\* The first command that is not possible raises and ends the build.
Run(c, s, cmd) ==
  IF s.ok /\ Possible(c, s.net, cmd)
  THEN [net |-> Result(c, s.net, cmd), ok |-> TRUE]
  ELSE [net |-> s.net, ok |-> FALSE]

Ran(c, n, cmds) ==
  LET after[k \in 0..Len(cmds)] ==
        IF k = 0 THEN [net |-> n, ok |-> TRUE] ELSE Run(c, after[k - 1], cmds[k])
  IN  after[Len(cmds)]

\* NamespaceManager.cleanup, of the first k namespaces.
Delete(n, ns) == IF CanNetnsDelete(n, ns.name) THEN NetnsDelete(n, ns.name) ELSE n

Deleted(c, n, k) ==
  LET after[j \in 0..k] ==
        IF j = 0 THEN n ELSE Delete(after[j - 1], c.namespaces[j])
  IN  after[k]

-----------------------------------------------------------------------------
Init ==
  /\ file = File /\ config = File
  /\ net = EmptyNet
  /\ program = "run_lab" /\ step = "none" /\ outcome = "none"
  /\ runs = 0 /\ changes = 0

\* main() is left: the exit code is 0 for "built" and "destroyed".
Exit(how) == step' = "none" /\ outcome' = how

Start ==
  /\ step = "none"
  /\ runs < MaxRuns /\ runs' = runs + 1
  /\ program' \in {"run_lab", "destroy_lab"}
  /\ step' = "load" /\ outcome' = "none"
  /\ UNCHANGED <<file, net, config, changes>>

\* LabConfiguration.load: nothing was done to the host when it raises.
Load ==
  /\ step = "load"
  /\ IF file.readable /\ Verdict(file) = "ok"
     THEN step' = "teardown" /\ config' = file /\ UNCHANGED outcome
     ELSE Exit(IF file.readable THEN Verdict(file) ELSE "ConfigurationError")
          /\ UNCHANGED config
  /\ UNCHANGED <<file, net, program, runs, changes>>

\* Defect: run_lab.py builds on what it finds.
TeardownOnDestroy ==
  /\ step = "teardown"
  /\ IF program = "run_lab"
     THEN step' = "build" /\ UNCHANGED <<net, outcome>>
     ELSE Exit("destroyed") /\ net' = Deleted(config, net, Len(config.namespaces))
  /\ UNCHANGED <<file, program, config, runs, changes>>

Teardown ==
  /\ step = "teardown"
  /\ net' = Deleted(config, net, Len(config.namespaces))
  /\ IF program = "run_lab"
     THEN step' = "build" /\ UNCHANGED outcome
     ELSE Exit("destroyed")
  /\ UNCHANGED <<file, program, config, runs, changes>>

Build ==
  /\ step = "build"
  /\ LET end == Ran(config, net, Commands(config))
     IN  net' = end.net /\ Exit(IF end.ok THEN "built" ELSE "failed")
  /\ UNCHANGED <<file, program, config, runs, changes>>

\* The program is killed, or interrupted, after some of its commands.
Kill ==
  /\ step \in {"teardown", "build"}
  /\ changes < MaxChanges /\ changes' = changes + 1
  /\ IF step = "teardown"
     THEN \E k \in 0..Len(config.namespaces) : net' = Deleted(config, net, k)
     ELSE LET cmds == Commands(config)
          IN  \E k \in 0..Len(cmds) : net' = Ran(config, net, SubSeq(cmds, 1, k)).net
  /\ Exit("killed")
  /\ UNCHANGED <<file, program, config, runs>>

-----------------------------------------------------------------------------
\* A person edits one entry of the file, or renames a namespace throughout.

Addresses == Subnets \union {Absent, Single, Bad}

IfaceEdits(f) ==
  {[f EXCEPT !.name = x] : x \in IfNames}
    \union {[f EXCEPT !.type = "dummy"]}
    \union {[f EXCEPT !.ip = x] : x \in Addresses}
    \union {[f EXCEPT !.peerNs = x] : x \in NsNames \union {Absent}}
    \union {[f EXCEPT !.peerName = x] : x \in IfNames \union {Absent}}

RouteEdits(r) ==
  {[r EXCEPT !.target = x] : x \in Subnets \union {Default, Ragged, Bad}}
    \union {[r EXCEPT !.gateway = x] : x \in Subnets \union {Absent, Bad}}
    \union {[r EXCEPT !.dev = x] : x \in IfNames \union {Absent}}

NamespaceEdits(ns) ==
  {[ns EXCEPT !.name = x] : x \in NsNames}
    \union {[ns EXCEPT !.interfaces = RemoveAt(@, i)] : i \in 1..Len(ns.interfaces)}
    \union {[ns EXCEPT !.routes = RemoveAt(@, i)] : i \in 1..Len(ns.routes)}
    \union (UNION {{[ns EXCEPT !.interfaces[i] = g] : g \in IfaceEdits(ns.interfaces[i])} :
                     i \in 1..Len(ns.interfaces)})
    \union (UNION {{[ns EXCEPT !.routes[i] = g] : g \in RouteEdits(ns.routes[i])} :
                     i \in 1..Len(ns.routes)})

\* A namespace gets another name wherever it is mentioned.
Renamed(c, a, b) ==
  LET To(x) == IF x = a THEN b ELSE x
      Iface(f) == [f EXCEPT !.peerNs = To(f.peerNs)]
      Ns(ns) == [ns EXCEPT !.name = To(ns.name),
                           !.interfaces = [i \in 1..Len(ns.interfaces) |-> Iface(ns.interfaces[i])]]
  IN  [c EXCEPT !.captures = [p \in 1..Len(c.captures) |-> To(c.captures[p])],
                !.namespaces = [n \in 1..Len(c.namespaces) |-> Ns(c.namespaces[n])]]

FileEdits(c) ==
  {[c EXCEPT !.readable = ~@],
   [c EXCEPT !.subnets = Append(@, Bad)]}
    \union {[c EXCEPT !.captures = <<x>>] : x \in NsNames}
    \union (UNION {{[c EXCEPT !.namespaces[n] = g] : g \in NamespaceEdits(c.namespaces[n])} :
                     n \in 1..Len(c.namespaces)})
    \union {[c EXCEPT !.namespaces = Append(@, ns)] : ns \in ToSet(c.namespaces)}
    \union {[c EXCEPT !.namespaces = RemoveAt(@, n)] : n \in 1..Len(c.namespaces)}
    \union {Renamed(c, a, b) : a \in NamesOf(c), b \in NsNames \ NamesOf(c)}

\* An edit that no program reads any more is left out.
Edit ==
  /\ step = "none" /\ runs < MaxRuns
  /\ changes < MaxChanges /\ changes' = changes + 1
  /\ file' \in FileEdits(file) \ {file}
  /\ UNCHANGED <<net, program, step, config, outcome, runs>>

Next == Start \/ Load \/ Teardown \/ Build \/ Kill \/ Edit

Spec == Init /\ [][Next]_vars

-----------------------------------------------------------------------------
Links(c) == {Pair(e) : e \in {d \in ToSet(Ifaces(c)) : IsVeth(d)}}

\* A configuration a program works with is one Topology's assumption admits:
\* interface and namespace names are unique in the whole file, every peer and
\* every capture point exists, and each route has somewhere to go.
AcceptedIsConsistent ==
  step \in {"teardown", "build"} =>
    LET es == Ifaces(config)
        rs == UNION {ToSet(config.namespaces[n].routes) : n \in 1..Len(config.namespaces)}
    IN  /\ Cardinality(NamesOf(config)) = Len(config.namespaces)
        /\ Cardinality({es[i].f.name : i \in 1..Len(es)}) = Len(es)
        /\ \A e \in ToSet(es) : e.f.peerNs \in NamesOf(config) \union {Absent}
        /\ \A r \in rs : r.gateway # Absent \/ r.dev # Absent
        /\ ToSet(config.captures) \subseteq NamesOf(config)
        /\ Bad \notin ToSet(config.subnets) \union {e.f.ip : e \in ToSet(es)}
                        \union {r.gateway : r \in rs} \union {r.target : r \in rs}

\* What a file must say beyond what validate() asks, for build() to go through:
\* every interface is an end of exactly one link, a link's ends have different
\* names, and each route has a destination of its own, in network form, that no
\* interface of the namespace is in, and a device that leads to its next hop.
Buildable(c) ==
  LET es == ToSet(Ifaces(c))
      ends == UNION Links(c)
  IN  /\ \A e \in es : End1(e) \in ends
      /\ \A l \in Links(c) : Cardinality({d[2] : d \in l}) = 2
      /\ \A l, m \in Links(c) : l # m => l \intersect m = {}
      /\ \A n \in 1..Len(c.namespaces) :
           LET ns == c.namespaces[n]
               own == {e.f : e \in {d \in es : d.ns = ns.name}}
           IN  \A i \in 1..Len(ns.routes) :
                 LET r == ns.routes[i]
                 IN  /\ r.target # Ragged
                     /\ r.target \notin {f.ip : f \in own}
                     /\ \A j \in 1..(i - 1) : ns.routes[j].target # r.target
                     /\ \E f \in own : /\ r.dev \in {Absent, f.name}
                                       /\ r.gateway \in {Absent, f.ip}

\* No link that an earlier program left on the root stack has a name the file
\* uses for one of its own.
RootClear(c, n) ==
  \A d \in Devices(n) : Located(d, Host) => d[2] \notin {e[2] : e \in UNION Links(c)}

\* After its teardown(), build() succeeds exactly for the files that can be
\* built on a root stack clear of their names: nothing else of what earlier
\* files, failed builds and killed programs left can make it fail, and none of
\* it can make an impossible file succeed.
BuildDependsOnFile ==
  [][step = "build" /\ outcome' \in {"built", "failed"} =>
       (outcome' = "built" <=> Buildable(config) /\ RootClear(config, net))]_vars

\* A laboratory that was built has, in its namespaces, the links of the file
\* and no others, whatever the namespaces of the same names held before.
OnlyTheFile ==
  outcome = "built" =>
    {d \in Devices(net) : d[1] \in NamesOf(config)} = UNION Links(config)
=============================================================================
