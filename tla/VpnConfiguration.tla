-------------------------- MODULE VpnConfiguration --------------------------
(***************************************************************************)
(* lab/vpn/config.py, and run_vpn_demo.py as far as VPNManager.deploy, on  *)
(* the laboratory Configuration builds: configs/vpn/wireguard.yaml is      *)
(* edited too, independently of configs/topology.yaml, and no program      *)
(* reads both.  deploy() has no teardown of its own; what a failed or      *)
(* killed one leaves stays until the namespaces are deleted.               *)
(*                                                                         *)
(* VpnDeployment has the deployments that run together and the NAT and     *)
(* rp_filter settings, which the kernel always accepts.                    *)
(***************************************************************************)
EXTENDS Configuration

CONSTANTS
  VpnFile,     \* a wireguard.yaml, see below
  WgNames      \* interface names an edit may use

(***************************************************************************)
(* A file is                                                               *)
(*   shape  "ok", or what load() trips over: "unreadable", "protocol", or  *)
(*          "keys" (a missing or unknown key or an unknown role)           *)
(*   nodes  sequence of [ns, name, ip, port, mtu,                          *)
(*            peers:  sequence of [target, allowed, endpoint, keepalive],  *)
(*            routes: sequence of [target, dev, gateway]]                  *)
(* with addresses as in Configuration.  "good" and Bad are the values a    *)
(* command takes and refuses; what validate() checks of them it names.     *)
(***************************************************************************)
PeerType == [target : Text, allowed : Text, endpoint : Text, keepalive : Text]
NodeType == [ns : Text, name : Text, ip : Text, port : Text, mtu : Text,
             peers : Seq(PeerType), routes : Seq(RouteType)]
Shapes == {"ok", "unreadable", "protocol", "keys"}
VpnFileType == [shape : Shapes, nodes : Seq(NodeType)]

ASSUME VpnFileAssumption ==
  VpnFile \in VpnFileType /\ WgNames \subseteq Text

VARIABLES
  vfile,    \* wireguard.yaml
  vpn,      \* the VPNConfiguration the demo works with
  onlink,   \* <<device, subnet>> of the addresses in the laboratory
  tun       \* what deploy() added to the kernel, see below

vvars == <<vars, vfile, vpn, onlink, tun>>

-----------------------------------------------------------------------------
\* VPNConfiguration.validate: the checks in program order, as in Configuration.

VpnNames(v) == {v.nodes[k].ns : k \in 1..Len(v.nodes)}

\* Defect: a peer's namespace is not looked up.
PeerChecksShort(v, p) ==
  <<Check(p.allowed = Bad, "VPNInvalidCIDRError"),
    Check(p.endpoint = Bad, "VPNInvalidEndpointError")>>

\* The checks of one peer; an endpoint may be missing.
VpnPeerChecks(v, p) ==
  <<Check(p.target \notin VpnNames(v), "VPNPeerResolutionError"),
    Check(p.allowed = Bad, "VPNInvalidCIDRError"),
    Check(p.endpoint = Bad, "VPNInvalidEndpointError")>>

VpnNodeChecks(v, k) ==
  LET node == v.nodes[k]
  IN  <<Check(node.ip = Bad, "VPNInvalidCIDRError"),
        Check(node.port = Bad, "VPNConfigurationError")>>
        \o FlattenSeq([i \in 1..Len(node.peers) |-> VpnPeerChecks(v, node.peers[i])])
        \o [j \in 1..Len(node.routes) |->
              Check(node.routes[j].target = Bad, "VPNInvalidCIDRError")]

VpnVerdict(v) == First(FlattenSeq([k \in 1..Len(v.nodes) |-> VpnNodeChecks(v, k)]))

\* VPNConfiguration.load.
Loaded(v) ==
  CASE v.shape = "unreadable" -> "VPNConfigurationError"
    [] v.shape = "protocol"   -> "VPNUnsupportedProtocolError"
    [] v.shape = "keys"       -> "Exception"
    [] v.shape = "ok"         -> VpnVerdict(v)

-----------------------------------------------------------------------------
\* The tunnel's part of the kernel:
\*   ifs     <<device, key, peers' keys>>; "none" before `wg setconf`
\*   addrs   <<device, subnet>>
\*   ups     <<device, port>>
\*   routes  <<namespace, target>>
NoTunnel == [ifs |-> {}, addrs |-> {}, ups |-> {}, routes |-> {}]

WgDevices(t) == {i[1] : i \in t.ifs}

\* Deleting namespaces leaves those in N.
TunnelIn(t, N) ==
  [ifs    |-> {x \in t.ifs : x[1][1] \in N},
   addrs  |-> {x \in t.addrs : x[1][1] \in N},
   ups    |-> {x \in t.ups : x[1][1] \in N},
   routes |-> {x \in t.routes : x[1] \in N}]

Device(node) == <<node.ns, node.name>>

\* keys[node.namespace]: a pair belongs to a namespace, not to a node.
KeyOf(ns) == <<runs, ns>>

\* Defect: a node's peers get the node's own key.
PeersGetOwnKey(node) == {KeyOf(node.ns) : i \in 1..Len(node.peers)}

\* The public keys in a node's file; the kernel leaves an interface's own out.
PeerKeys(node) ==
  {KeyOf(node.peers[i].target) : i \in 1..Len(node.peers)} \ {KeyOf(node.ns)}

\* The commands of deploy(): genkey for all nodes, then all interfaces, then
\* all routes.
LinkSteps == <<"create", "setconf", "addr", "mtu", "up">>

DeployCommands(v) ==
  LET N == Len(v.nodes)
  IN  [k \in 1..N |-> [op |-> "genkey", node |-> v.nodes[k]]]
        \o FlattenSeq([k \in 1..N |->
             [s \in 1..5 |-> [op |-> LinkSteps[s], node |-> v.nodes[k]]]])
        \o FlattenSeq([k \in 1..N |->
             [j \in 1..Len(v.nodes[k].routes) |->
                [op |-> "route", node |-> v.nodes[k], r |-> v.nodes[k].routes[j]]]])

\* <<device, subnet>> of the devices that are up and have an address.
Direct(t) ==
  {x \in onlink : x[1] \in net.ups} \union {x \in t.addrs : \E u \in t.ups : u[1] = x[1]}

IsUp(t, d) == d \in net.ups \/ \E u \in t.ups : u[1] = d

\* `ip route add` wants a network that has no route, a device that is up and
\* a gateway, if there is one, that is on the device's link.
CanRoute(t, ns, r) ==
  /\ r.target # Ragged
  /\ <<ns, r.target>> \notin t.routes
  /\ \A x \in net.routes : ~(x[1] = ns /\ x[2] = r.target)
  /\ \A x \in Direct(t) : ~(x[1][1] = ns /\ x[2] = r.target)
  /\ IsUp(t, <<ns, r.dev>>)
  /\ r.gateway # Absent => <<<<ns, r.dev>>, r.gateway>> \in Direct(t)

CanDeploy(v, t, cmd) ==
  LET node == cmd.node
  IN  CASE cmd.op = "genkey"  -> node.ns \in net.netns
        [] cmd.op = "create"  -> Device(node) \notin WgDevices(t) \union Devices(net)
        [] cmd.op = "setconf" ->
             \A i \in 1..Len(node.peers) :
               node.peers[i].target \in VpnNames(v) /\ node.peers[i].keepalive # Bad
        [] cmd.op = "addr"    -> TRUE
        [] cmd.op = "mtu"     -> node.mtu # Bad
        [] cmd.op = "up"      ->
             node.port = Absent
               \/ \A u \in t.ups : ~(u[1][1] = node.ns /\ u[2] = node.port)
        [] cmd.op = "route"   -> CanRoute(t, node.ns, cmd.r)

Deployed(t, cmd) ==
  LET d == Device(cmd.node)
  IN  CASE cmd.op = "create"  -> [t EXCEPT !.ifs = @ \union {<<d, "none", {}>>}]
        [] cmd.op = "setconf" ->
             [t EXCEPT !.ifs = {x \in @ : x[1] # d}
                                 \union {<<d, KeyOf(d[1]), PeerKeys(cmd.node)>>}]
        [] cmd.op = "addr"    -> [t EXCEPT !.addrs = @ \union {<<d, cmd.node.ip>>}]
        [] cmd.op = "up"      -> [t EXCEPT !.ups = @ \union {<<d, cmd.node.port>>}]
        [] cmd.op = "route"   -> [t EXCEPT !.routes = @ \union {<<d[1], cmd.r.target>>}]
        [] OTHER              -> t

\* The first command that is refused raises and ends deploy().
DeployRun(v, s, cmd) ==
  IF s.ok /\ CanDeploy(v, s.tun, cmd)
  THEN [tun |-> Deployed(s.tun, cmd), ok |-> TRUE]
  ELSE [tun |-> s.tun, ok |-> FALSE]

DeployRan(v, t, cmds) ==
  LET after[k \in 0..Len(cmds)] ==
        IF k = 0 THEN [tun |-> t, ok |-> TRUE] ELSE DeployRun(v, after[k - 1], cmds[k])
  IN  after[Len(cmds)]

-----------------------------------------------------------------------------
VpnInit ==
  /\ Init
  /\ vfile = VpnFile /\ vpn = VpnFile
  /\ onlink = {} /\ tun = NoTunnel

\* run_lab.py and destroy_lab.py know nothing of the tunnel: it goes with its
\* namespaces.
LabStep ==
  /\ Next
  /\ onlink' = {x \in onlink : x[1] \in net'.addrs}
                 \union {<<End1(e), e.f.ip>> : e \in {d \in ToSet(Ifaces(config)) :
                                                 End1(d) \in net'.addrs \ net.addrs}}
  /\ tun' = TunnelIn(tun, net'.netns)
  /\ UNCHANGED <<vfile, vpn>>

StartDemo ==
  /\ step = "none"
  /\ runs < MaxRuns /\ runs' = runs + 1
  /\ program' = "run_vpn_demo" /\ step' = "load_vpn" /\ outcome' = "none"
  /\ UNCHANGED <<file, net, config, changes, vfile, vpn, onlink, tun>>

LoadVpn ==
  /\ step = "load_vpn"
  /\ IF Loaded(vfile) = "ok"
     THEN step' = "deploy" /\ vpn' = vfile /\ UNCHANGED outcome
     ELSE Exit(Loaded(vfile)) /\ UNCHANGED vpn
  /\ UNCHANGED <<file, net, program, config, runs, changes, vfile, onlink, tun>>

Deploy ==
  /\ step = "deploy"
  /\ LET end == DeployRan(vpn, tun, DeployCommands(vpn))
     IN  tun' = end.tun /\ Exit(IF end.ok THEN "deployed" ELSE "failed")
  /\ UNCHANGED <<file, net, program, config, runs, changes, vfile, vpn, onlink>>

KillDemo ==
  /\ step = "deploy"
  /\ changes < MaxChanges /\ changes' = changes + 1
  /\ LET cmds == DeployCommands(vpn)
     IN  \E k \in 0..Len(cmds) : tun' = DeployRan(vpn, tun, SubSeq(cmds, 1, k)).tun
  /\ Exit("killed")
  /\ UNCHANGED <<file, net, program, config, runs, vfile, vpn, onlink>>

-----------------------------------------------------------------------------
\* A person edits one entry of the file, or adds or removes one.

VpnPeerEdits(p) ==
  {[p EXCEPT !.target = x] : x \in NsNames}
    \union {[p EXCEPT !.allowed = Bad], [p EXCEPT !.endpoint = Bad],
            [p EXCEPT !.endpoint = Absent], [p EXCEPT !.keepalive = Bad]}

VpnRouteEdits(node, r) ==
  {[r EXCEPT !.target = x] : x \in Subnets \union {Default, Ragged, Bad}}
    \union {[r EXCEPT !.gateway = x] : x \in Subnets \union {node.ip}}
    \union {[r EXCEPT !.dev = x] : x \in WgNames}

ThroughTunnel(node, target) == [target |-> target, dev |-> node.name, gateway |-> Absent]

NodeEdits(node) ==
  {[node EXCEPT !.ns = x] : x \in NsNames}
    \union {[node EXCEPT !.name = x] : x \in WgNames}
    \union {[node EXCEPT !.ip = x] : x \in Subnets \union {Single, Bad}}
    \union {[node EXCEPT !.port = x] : x \in {Absent, Bad}}
    \union {[node EXCEPT !.mtu = Bad]}
    \union {[node EXCEPT !.peers = RemoveAt(@, i)] : i \in 1..Len(node.peers)}
    \union {[node EXCEPT !.routes = RemoveAt(@, j)] : j \in 1..Len(node.routes)}
    \union {[node EXCEPT !.routes = Append(@, ThroughTunnel(node, x))] :
              x \in Subnets \union {Default, node.ip}}
    \union (UNION {{[node EXCEPT !.peers[i] = g] : g \in VpnPeerEdits(node.peers[i])} :
                     i \in 1..Len(node.peers)})
    \union (UNION {{[node EXCEPT !.routes[j] = g] : g \in VpnRouteEdits(node, node.routes[j])} :
                     j \in 1..Len(node.routes)})

VpnFileEdits(v) ==
  {[v EXCEPT !.shape = x] : x \in Shapes}
    \union (UNION {{[v EXCEPT !.nodes[k] = g] : g \in NodeEdits(v.nodes[k])} :
                     k \in 1..Len(v.nodes)})
    \union {[v EXCEPT !.nodes = RemoveAt(@, k)] : k \in 1..Len(v.nodes)}
    \union {[v EXCEPT !.nodes = Append(@, [node EXCEPT !.name = x])] :
              node \in ToSet(v.nodes), x \in WgNames}

EditVpn ==
  /\ step = "none" /\ runs < MaxRuns
  /\ changes < MaxChanges /\ changes' = changes + 1
  /\ vfile' \in VpnFileEdits(vfile) \ {vfile}
  /\ UNCHANGED <<file, net, program, step, config, outcome, runs, vpn, onlink, tun>>

VpnNext == LabStep \/ StartDemo \/ LoadVpn \/ Deploy \/ KillDemo \/ EditVpn

VpnSpec == VpnInit /\ [][VpnNext]_vvars

-----------------------------------------------------------------------------
NodesIn(v, ns) == {v.nodes[k] : k \in {m \in 1..Len(v.nodes) : v.nodes[m].ns = ns}}

\* What the two files must say together, beyond what either validate() asks,
\* for deploy() to go through on a laboratory without a tunnel: the nodes'
\* namespaces exist, an interface is declared once and is none of the
\* laboratory's, no port is used twice in a namespace, and the routes of a
\* namespace, the topology's, the interfaces' own and the tunnel's, all have
\* different targets and lead somewhere.
Deployable(v) ==
  LET N == Len(v.nodes)
      Subnet(ns) == {x \in onlink : x[1][1] = ns /\ x[1] \in net.ups}
                      \union {<<Device(m), m.ip>> : m \in NodesIn(v, ns)}
      All == UNION {{k} \X (1..Len(v.nodes[k].routes)) : k \in 1..N}
      Ns(x) == v.nodes[x[1]].ns
      R(x) == v.nodes[x[1]].routes[x[2]]
  IN  /\ VpnNames(v) \subseteq net.netns
      /\ \A k \in 1..N : /\ v.nodes[k].mtu # Bad
                         /\ \A i \in 1..Len(v.nodes[k].peers) :
                              v.nodes[k].peers[i].keepalive # Bad
                         /\ Device(v.nodes[k]) \notin Devices(net)
      /\ \A j, k \in 1..N : j # k /\ v.nodes[j].ns = v.nodes[k].ns =>
           /\ v.nodes[j].name # v.nodes[k].name
           /\ v.nodes[j].port = Absent \/ v.nodes[j].port # v.nodes[k].port
      /\ \A x \in All :
           /\ R(x).target # Ragged
           /\ \A y \in All : x # y /\ Ns(x) = Ns(y) => R(x).target # R(y).target
           /\ \A l \in net.routes : l[1] = Ns(x) => l[2] # R(x).target
           /\ \A s \in Subnet(Ns(x)) : s[2] # R(x).target
           /\ \/ <<Ns(x), R(x).dev>> \in net.ups
              \/ \E m \in NodesIn(v, Ns(x)) : m.name = R(x).dev
           /\ R(x).gateway # Absent =>
                <<<<Ns(x), R(x).dev>>, R(x).gateway>> \in Subnet(Ns(x))

\* In namespaces without a tunnel, deploy() succeeds exactly for the pairs of
\* files that fit together, whatever earlier demos left in other namespaces
\* and whatever earlier programs made of this laboratory.
DeployDependsOnFiles ==
  [][(/\ step = "deploy" /\ outcome' \in {"deployed", "failed"}
      /\ \A x \in tun.ifs : x[1][1] \notin VpnNames(vpn))
     => (outcome' = "deployed" <=> Deployable(vpn))]_vvars

\* After a deploy() that returned, a node that names another namespace as its
\* peer holds the key of every interface the file puts there, however many
\* nodes a namespace has and whatever an earlier deployment left.
TunnelIsOfFile ==
  outcome = "deployed" =>
    \A a, b \in ToSet(vpn.nodes) :
      (\E i \in 1..Len(a.peers) : a.peers[i].target = b.ns) /\ a.ns # b.ns =>
        \E x, y \in tun.ifs : x[1] = Device(a) /\ y[1] = Device(b) /\ y[2] \in x[3]
=============================================================================
