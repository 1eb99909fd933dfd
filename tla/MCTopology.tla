----------------------------- MODULE MCTopology -----------------------------
(***************************************************************************)
(* Instances of Topology for TLC.  Names follow configs/topology.yaml: the *)
(* first namespaces of it, with their links in both directions.            *)
(***************************************************************************)
EXTENDS Topology

\* client - gateway, whose end has no address
TwoNamespaces == <<[name |-> "client", forwarding |-> FALSE],
                   [name |-> "gateway", forwarding |-> TRUE]>>

TwoInterfaces ==
  <<[ns |-> "client", name |-> "c-eth0", veth |-> TRUE,
     peerNs |-> "gateway", peerName |-> "g-eth0", ip |-> TRUE],
    [ns |-> "gateway", name |-> "g-eth0", veth |-> TRUE,
     peerNs |-> "client", peerName |-> "c-eth0", ip |-> FALSE]>>

OneRoute == <<[ns |-> "client", target |-> "default", dev |-> "c-eth0", via |-> TRUE]>>

\* client - gateway - router: the teardowns of `topology_race` loop over
\* three namespaces
ThreeNamespaces == Append(TwoNamespaces, [name |-> "router", forwarding |-> TRUE])

\* The five namespaces, eight link ends and six routes of topology.yaml
ShippedNamespaces ==
  ThreeNamespaces \o <<[name |-> "vpn_server", forwarding |-> TRUE],
                       [name |-> "app_server", forwarding |-> FALSE]>>

Link(n, i, pn, pi) == [ns |-> n, name |-> i, veth |-> TRUE,
                       peerNs |-> pn, peerName |-> pi, ip |-> TRUE]

ShippedInterfaces ==
  <<Link("client", "c-eth0", "gateway", "g-eth0"),
    Link("gateway", "g-eth0", "client", "c-eth0"),
    Link("gateway", "g-eth1", "router", "r-eth0"),
    Link("router", "r-eth0", "gateway", "g-eth1"),
    Link("router", "r-eth1", "vpn_server", "v-eth0"),
    Link("vpn_server", "v-eth0", "router", "r-eth1"),
    Link("vpn_server", "v-eth1", "app_server", "a-eth0"),
    Link("app_server", "a-eth0", "vpn_server", "v-eth1")>>

Via(n, t, d) == [ns |-> n, target |-> t, dev |-> d, via |-> TRUE]

ShippedRoutes ==
  <<Via("client", "default", "c-eth0"), Via("gateway", "default", "g-eth1"),
    Via("router", "client-net", "r-eth0"), Via("router", "app-net", "r-eth1"),
    Via("vpn_server", "default", "v-eth0"), Via("app_server", "default", "a-eth0")>>

RunLab == <<"teardown", "build">>
DestroyLab == <<"teardown">>
ExperimentCalls == <<"teardown", "build", "teardown">>

SoloScript == [p \in Proc |-> ExperimentCalls]
DestroyScript == [p \in Proc |-> DestroyLab]

\* Two run_lab.py and one destroy_lab.py
LabScript == [p \in Proc |-> IF p = "destroy" THEN DestroyLab ELSE RunLab]
=============================================================================
