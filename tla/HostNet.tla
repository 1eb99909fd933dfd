------------------------------ MODULE HostNet ------------------------------
(***************************************************************************)
(* The part of the Linux network stack the laboratory drives, as the `ip`  *)
(* and `sysctl` commands of lab/topology/ use it.  Nothing here is the     *)
(* repository's own code: it is the environment the builder runs in.       *)
(*                                                                         *)
(* A network is a record:                                                  *)
(*   netns   names of the existing network namespaces                      *)
(*   lo      namespaces whose loopback is up                               *)
(*   fwd     namespaces with net.ipv4.ip_forward = 1                       *)
(*   veths   veth pairs; a pair is a set of two devices                    *)
(*   addrs   devices holding their configured address                      *)
(*   ups     devices administratively up                                   *)
(*   routes  <<namespace, target prefix, egress device name>>              *)
(* A device is <<location, name>>; a location is a namespace or Host.      *)
(* Commands are a precondition (Can...) and a result; a command whose      *)
(* precondition is false exits with a non-zero code and changes nothing.   *)
(***************************************************************************)

\* The root network stack, where `ip link add` creates both ends of a pair.
CONSTANT Host

EmptyNet ==
  [netns |-> {}, lo |-> {}, fwd |-> {}, veths |-> {},
   addrs |-> {}, ups |-> {}, routes |-> {}]

\* Every veth end that exists.
Devices(net) == UNION net.veths

Located(d, n) == d[1] = n

\* ip netns add n.  A new namespace takes ip_forward from the host's current
\* setting, which the laboratory does not control: inherited is either value.
CanNetnsAdd(net, n) == n \notin net.netns

NetnsAdd(net, n, inherited) ==
  [net EXCEPT !.netns = @ \union {n},
              !.fwd = IF inherited THEN @ \union {n} ELSE @ \ {n}]

\* ip netns delete n.  Deleting a namespace destroys its devices, a destroyed
\* veth end takes its peer with it wherever the peer is, and the addresses,
\* flags and routes of what is gone are gone.
CanNetnsDelete(net, n) == n \in net.netns

SurvivingVeths(net, n) == {v \in net.veths : \A d \in v : ~Located(d, n)}

NetnsDelete(net, n) ==
  LET left == UNION SurvivingVeths(net, n)
  IN  [netns  |-> net.netns \ {n},
       lo     |-> net.lo \ {n},
       fwd    |-> net.fwd \ {n},
       veths  |-> SurvivingVeths(net, n),
       addrs  |-> net.addrs \intersect left,
       ups    |-> net.ups \intersect left,
       routes |-> {r \in net.routes : r[1] # n /\ <<r[1], r[3]>> \in left}]

\* ip link add a type veth peer name b, on the root stack.
CanLinkAdd(net, a, b) ==
  /\ a # b
  /\ <<Host, a>> \notin Devices(net)
  /\ <<Host, b>> \notin Devices(net)

LinkAdd(net, a, b) ==
  [net EXCEPT !.veths = @ \union {{<<Host, a>>, <<Host, b>>}}]

\* ip link set a netns n, from the root stack.
CanLinkMove(net, a, n) ==
  /\ n \in net.netns
  /\ <<Host, a>> \in Devices(net)
  /\ <<n, a>> \notin Devices(net)

Moved(v, a, n) == {IF d = <<Host, a>> THEN <<n, a>> ELSE d : d \in v}

LinkMove(net, a, n) ==
  [net EXCEPT !.veths = {Moved(v, a, n) : v \in @}]

\* ip netns exec n ip link set lo up / sysctl -w net.ipv4.ip_forward=...
LoUp(net, n) == [net EXCEPT !.lo = @ \union {n}]

SetForward(net, n, on) ==
  [net EXCEPT !.fwd = IF on THEN @ \union {n} ELSE @ \ {n}]

\* ip netns exec n ip addr add CIDR dev a: the device must exist and must not
\* hold the address yet.
CanAddrAdd(net, d) == d \in Devices(net) /\ d \notin net.addrs

AddrAdd(net, d) == [net EXCEPT !.addrs = @ \union {d}]

\* ip netns exec n ip link set a up
CanLinkUp(net, d) == d \in Devices(net)

LinkUp(net, d) == [net EXCEPT !.ups = @ \union {d}]

\* ip netns exec n ip route add target [via gateway] [dev a].  The egress
\* device must be up and, for a gateway, hold the address whose subnet the
\* gateway is in; `add` is exclusive: an existing route to the same prefix
\* makes it fail, whatever its next hop.
CanRouteAdd(net, n, target, dev, via) ==
  /\ <<n, dev>> \in net.ups
  /\ via => <<n, dev>> \in net.addrs
  /\ \A r \in net.routes : r[1] = n => r[2] # target

RouteAdd(net, n, target, dev) ==
  [net EXCEPT !.routes = @ \union {<<n, target, dev>>}]

=============================================================================
