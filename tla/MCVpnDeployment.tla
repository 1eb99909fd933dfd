-------------------------- MODULE MCVpnDeployment --------------------------
(***************************************************************************)
(* Instances of VpnDeployment for TLC: the two nodes of                    *)
(* configs/vpn/wireguard.yaml, with the routes it lists or with routes     *)
(* that do not collide with those the kernel and topology.yaml add.        *)
(***************************************************************************)
EXTENDS VpnDeployment

TwoNodes(serverRoutes, clientRoutes) ==
  << [ns |-> "vpn_server", role |-> "server", subnet |-> "10.7.0.0/24",
      peers |-> {"client"}, routes |-> serverRoutes],
     [ns |-> "client", role |-> "client", subnet |-> "10.7.0.0/24",
      peers |-> {"vpn_server"}, routes |-> clientRoutes] >>

ShippedNodes == TwoNodes(<<"10.7.0.0/24">>, <<"0.0.0.0/0">>)

\* The server reaches the tunnel by the connected route, the client's default
\* route is split in two halves.
FreeNodes == TwoNodes(<<>>, <<"0.0.0.0/1", "128.0.0.0/1">>)

ShippedLabRoutes == {<<"vpn_server", "0.0.0.0/0">>, <<"client", "0.0.0.0/0">>}
=============================================================================
