--------------------------- MODULE MCConfiguration ---------------------------
(***************************************************************************)
(* Instance of Configuration and VpnConfiguration for TLC: the first two   *)
(* links of topology.yaml with their three namespaces, one route and one   *)
(* capture point, and the tunnel of wireguard.yaml and of VALID_YAML in    *)
(* tests/test_vpn_config.py between the two ends of these links.           *)
(***************************************************************************)
EXTENDS VpnConfiguration

Veth(name, ip, peerNs, peerName) ==
  [name |-> name, type |-> "veth", ip |-> ip, peerNs |-> peerNs, peerName |-> peerName]

ClientGatewayRouter ==
  [readable |-> TRUE,
   subnets |-> <<"192.168.1.0/24">>,
   namespaces |->
     <<[name |-> "client", forwarding |-> FALSE,
        interfaces |-> <<Veth("c-eth0", "192.168.1.0/24", "gateway", "g-eth0")>>,
        routes |-> <<[target |-> Default, gateway |-> "192.168.1.0/24", dev |-> Absent]>>],
       [name |-> "gateway", forwarding |-> TRUE,
        interfaces |-> <<Veth("g-eth0", "192.168.1.0/24", "client", "c-eth0"),
                         Veth("g-eth1", "10.0.1.0/24", "router", "r-eth0")>>,
        routes |-> <<>>],
       [name |-> "router", forwarding |-> TRUE,
        interfaces |-> <<Veth("r-eth0", "10.0.1.0/24", "gateway", "g-eth1")>>,
        routes |-> <<>>]>>,
   captures |-> <<"gateway">>]

Tunnel == "10.7.0.0/24"

WgNode(ns, port, peer, endpoint) ==
  [ns |-> ns, name |-> "wg0", ip |-> Tunnel, port |-> port, mtu |-> "good",
   peers |-> <<[target |-> peer, allowed |-> "good", endpoint |-> endpoint,
                keepalive |-> "good"]>>,
   routes |-> <<>>]

TunnelWithoutRoutes ==
  [shape |-> "ok",
   nodes |-> <<WgNode("router", "51820", "client", Absent),
               WgNode("client", Absent, "router", "good")>>]
=============================================================================
