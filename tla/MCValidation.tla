---------------------------- MODULE MCValidation ----------------------------
(***************************************************************************)
(* Instances of Validation for TLC.                                        *)
(***************************************************************************)
EXTENDS Validation

Iface(name, peerNs, peerName) ==
  [name |-> name, ip |-> TRUE, peerNs |-> peerNs, peerName |-> peerName]
DefaultVia(dev) == [target |-> Default, dev |-> dev, via |-> TRUE]

\* The two ends of a laboratory on one link: the client has a default route,
\* the server forwards.  After a deletion it takes nine commands to put
\* everything back.
ClientServer ==
  <<[name |-> "client", forwarding |-> FALSE,
     ifaces |-> <<Iface("c-eth0", "app_server", "a-eth0")>>,
     routes |-> <<DefaultVia("c-eth0")>>],
    [name |-> "app_server", forwarding |-> TRUE,
     ifaces |-> <<Iface("a-eth0", "client", "c-eth0")>>,
     routes |-> <<>>]>>
=============================================================================
