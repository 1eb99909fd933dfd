-------------------------- MODULE ValidationProofs --------------------------
(***************************************************************************)
(* What a validator that passes says about the laboratory, for every       *)
(* configuration and any number of changes by other programs.              *)
(*                                                                         *)
(* The argument compares kernels.  Below(k, l) says that whatever a check  *)
(* finds in place in k is in place in l.  Deletions lead down, additions   *)
(* lead up; so without additions the kernel stays below the one validate() *)
(* was called on, and what was read later held at the call, while without  *)
(* deletions what was read earlier holds now.  SoFar(k, a) says that all   *)
(* that was checked before the position a is in place in k.                *)
(***************************************************************************)
EXTENDS Validation, TLAPS

Below(k, l) ==
  /\ k.netns \subseteq l.netns
  /\ Devices(k) \subseteq Devices(l)
  /\ k.addrs \subseteq l.addrs
  /\ k.ups \subseteq l.ups
  /\ k.routes \subseteq l.routes
  /\ \A i \in 1..N : Ns(i) \in k.netns /\ ForwardingRight(k, i) => ForwardingRight(l, i)

SoFar(k, a) ==
  /\ \A i \in 1..N : i < a.i \/ a.step \in {"ping", "reverse"} => WholeNs(k, i)
  /\ a.step \notin {"exists", "ping", "reverse"} => Ns(a.i) \in k.netns
  /\ a.step \in {"link", "addr", "routes"} =>
       /\ ForwardingRight(k, a.i)
       /\ \A j \in 1..Len(Ifaces(a.i)) : a.step = "routes" \/ j < a.j => WholeIface(k, a.i, j)
  /\ a.step = "addr" => LinkExists(k, a.i, a.j) /\ Dev(a.i, a.j) \in k.ups

\* What has been found by the time the verdict is v and the position a.
Found(k, v, a) ==
  /\ v = "running" => SoFar(k, a)
  /\ v = "passed" => Whole(k)

ReadInv ==
  /\ verdict = "new" => at = [step |-> "exists", i |-> 1, j |-> 1]
  /\ verdict # "new" =>
       /\ "added" \notin seen => Below(net, start) /\ Found(start, verdict, at)
       /\ "deleted" \notin seen => Found(net, verdict, at)

-----------------------------------------------------------------------------
\* The constants, as the provers need them.
LEMMA Sizes ==
  /\ N \in Nat \ {0}
  /\ \A i \in 1..N : Len(Ifaces(i)) \in Nat
  /\ \A i, l \in 1..N : Ns(i) = Ns(l) => i = l
<1> DEFINE Record ==
      [name : STRING, forwarding : BOOLEAN,
       ifaces : Seq([name : STRING, ip : BOOLEAN, peerNs : STRING,
                     peerName : STRING]),
       routes : Seq([target : STRING, dev : STRING, via : BOOLEAN])]
<1>1. Namespaces \in Seq(Record) /\ N > 0
  BY ValidationAssumption DEF ValidationAssumption
<1>2. N \in Nat \ {0}
  <2> HIDE DEF Record
  <2>1. Len(Namespaces) \in Nat
    BY <1>1
  <2> QED BY <1>1, <2>1 DEF N
<1>3. ASSUME NEW i \in 1..N PROVE Len(Ifaces(i)) \in Nat
  BY <1>1, <1>2 DEF N, Ifaces
<1> QED BY <1>2, <1>3, ValidationAssumption DEF ValidationAssumption

LEMMA Reflexive == \A k : Below(k, k)
BY DEF Below

LEMMA Transitive ==
  ASSUME NEW a, NEW b, NEW c, Below(a, b), Below(b, c)
  PROVE  Below(a, c)
BY DEF Below

LEMMA WholeUp ==
  ASSUME NEW k, NEW l, Below(k, l), NEW i \in 1..N, WholeNs(k, i)
  PROVE  WholeNs(l, i)
BY DEF Below, WholeNs, WholeIface, LinkExists, HasAddress, HasRoute

\* What was found in a kernel is found in every kernel above it.
LEMMA FoundUp ==
  ASSUME NEW k, NEW l, Below(k, l), NEW v, NEW a, a.i \in 1..N, Found(k, v, a)
  PROVE  Found(l, v, a)
<1>1. SoFar(k, a) => SoFar(l, a)
  <2> SUFFICES ASSUME SoFar(k, a) PROVE SoFar(l, a)
    OBVIOUS
  <2>1. \A i \in 1..N : i < a.i \/ a.step \in {"ping", "reverse"} => WholeNs(l, i)
    BY WholeUp DEF SoFar
  <2>2. a.step \notin {"exists", "ping", "reverse"} => Ns(a.i) \in l.netns
    BY DEF SoFar, Below
  <2>3. ASSUME a.step \in {"link", "addr", "routes"}
        PROVE  /\ ForwardingRight(l, a.i)
               /\ \A j \in 1..Len(Ifaces(a.i)) :
                    a.step = "routes" \/ j < a.j => WholeIface(l, a.i, j)
    BY <2>3 DEF SoFar, Below, WholeIface, LinkExists, HasAddress
  <2>4. a.step = "addr" => LinkExists(l, a.i, a.j) /\ Dev(a.i, a.j) \in l.ups
    BY DEF SoFar, Below, LinkExists
  <2> QED BY <2>1, <2>2, <2>3, <2>4 DEF SoFar
<1>2. Whole(k) => Whole(l)
  BY WholeUp DEF Whole
<1> QED BY <1>1, <1>2 DEF Found

-----------------------------------------------------------------------------
\* Type correctness.

LEMMA Names ==
  /\ \A i \in 1..N : Ns(i) \in STRING
  /\ \A i \in 1..N : \A j \in 1..Len(Ifaces(i)) :
       Dev(i, j) \in DeviceNames /\ Peer(i, j) \in DeviceNames
  /\ \A i \in 1..N : \A j \in 1..Len(Routes(i)) :
       Routes(i)[j] \in [target : STRING, dev : STRING, via : BOOLEAN]
<1> DEFINE Record ==
      [name : STRING, forwarding : BOOLEAN,
       ifaces : Seq([name : STRING, ip : BOOLEAN, peerNs : STRING,
                     peerName : STRING]),
       routes : Seq([target : STRING, dev : STRING, via : BOOLEAN])]
<1>1. Namespaces \in Seq(Record)
  BY ValidationAssumption DEF ValidationAssumption
<1>2. ASSUME NEW i \in 1..N PROVE Namespaces[i] \in Record
  <2> HIDE DEF Record
  <2> QED BY <1>1, Sizes DEF N
<1>3. ASSUME NEW i \in 1..N PROVE Ns(i) \in STRING
  BY <1>2 DEF Ns
<1>4. ASSUME NEW i \in 1..N, NEW j \in 1..Len(Ifaces(i))
      PROVE  Ifaces(i)[j] \in [name : STRING, ip : BOOLEAN, peerNs : STRING, peerName : STRING]
  <2> DEFINE IfaceRecord == [name : STRING, ip : BOOLEAN, peerNs : STRING, peerName : STRING]
  <2>1. Ifaces(i) \in Seq(IfaceRecord)
    BY <1>2 DEF Ifaces
  <2> HIDE DEF IfaceRecord
  <2>2. Ifaces(i)[j] \in IfaceRecord
    BY <2>1
  <2> QED BY <2>2 DEF IfaceRecord
<1>5. ASSUME NEW i \in 1..N, NEW j \in 1..Len(Routes(i))
      PROVE  Routes(i)[j] \in [target : STRING, dev : STRING, via : BOOLEAN]
  <2> DEFINE RouteRecord == [target : STRING, dev : STRING, via : BOOLEAN]
  <2>1. Routes(i) \in Seq(RouteRecord)
    BY <1>2 DEF Routes
  <2> HIDE DEF RouteRecord
  <2>2. Routes(i)[j] \in RouteRecord
    BY <2>1
  <2> QED BY <2>2 DEF RouteRecord
<1> QED BY <1>3, <1>4, <1>5 DEF Dev, Peer, DeviceNames

LEMMA EmptyNetType == EmptyNet \in NetType
BY DEF EmptyNet, NetType

LEMMA BuiltType == Built \in NetType
<1>1. UNION {{{Dev(i, j), Peer(i, j)} : j \in 1..Len(Ifaces(i))} : i \in 1..N}
        \in SUBSET SUBSET DeviceNames
  BY Names
<1>2. UNION {{Dev(i, j) : j \in {b \in 1..Len(Ifaces(i)) : Ifaces(i)[b].ip}} : i \in 1..N}
        \in SUBSET DeviceNames
  BY Names
<1>3. UNION {{Dev(i, j) : j \in 1..Len(Ifaces(i))} : i \in 1..N} \in SUBSET DeviceNames
  BY Names
<1>4. UNION {{<<Ns(i), Routes(i)[j].target, Routes(i)[j].dev>>
             : j \in 1..Len(Routes(i))} : i \in 1..N} \in SUBSET (STRING \X STRING \X STRING)
  BY Names
<1>5. /\ {Ns(i) : i \in 1..N} \in SUBSET NsNames
      /\ {Ns(i) : i \in {a \in 1..N : Namespaces[a].forwarding}} \in SUBSET NsNames
  BY DEF NsNames
<1> QED BY <1>1, <1>2, <1>3, <1>4, <1>5 DEF Built, NetType

LEMMA DeleteType ==
  ASSUME NEW k \in NetType, NEW n
  PROVE  NetnsDelete(k, n) \in NetType
BY DEF NetType, NetnsDelete, SurvivingVeths

LEMMA BuildsType ==
  ASSUME net \in NetType, RivalBuilds
  PROVE  net' \in NetType
<1> PICK i \in 1..N :
      \/ RivalSetsUp(i)
      \/ \E j \in 1..Len(Ifaces(i)) : RivalConnects(i, j)
      \/ \E j \in 1..Len(Routes(i)) : RivalRoutes(i, j)
  BY DEF RivalBuilds
<1>1. CASE RivalSetsUp(i)
  <2> Ns(i) \in NsNames
    BY DEF NsNames
  <2>1. ASSUME NEW b \in BOOLEAN PROVE NetnsAdd(net, Ns(i), b) \in NetType
    BY DEF NetnsAdd, NetType
  <2>2. SetForward(net, Ns(i), Namespaces[i].forwarding) \in NetType
    <3>1. net.fwd \union {Ns(i)} \in SUBSET NsNames /\ net.fwd \ {Ns(i)} \in SUBSET NsNames
      BY DEF NetType
    <3> QED BY <3>1 DEF SetForward, NetType
  <2> QED BY <1>1, <2>1, <2>2 DEF RivalSetsUp
<1>2. CASE \E j \in 1..Len(Ifaces(i)) : RivalConnects(i, j)
  <2> PICK j \in 1..Len(Ifaces(i)) : RivalConnects(i, j)
    BY <1>2
  <2> {Dev(i, j), Peer(i, j)} \in SUBSET DeviceNames
    BY Names
  <2> QED BY DEF RivalConnects, AddrAdd, LinkUp, NetType
<1>3. CASE \E j \in 1..Len(Routes(i)) : RivalRoutes(i, j)
  BY <1>3, Names DEF RivalRoutes, RouteAdd, NetType
<1> QED BY <1>1, <1>2, <1>3

LEMMA Bounds == MaxChanges \in Nat /\ MaxFaults \in Nat
BY ValidationAssumption DEF ValidationAssumption

LEMMA TypeInit == Init => TypeOK
<1> SUFFICES ASSUME Init PROVE TypeOK
  OBVIOUS
<1>1. net \in NetType /\ start \in NetType
  BY BuiltType, EmptyNetType DEF Init
<1>2. at \in [step : Steps, i : 1..N, j : Nat]
  BY Sizes DEF Init, Steps
<1>3. at.step \notin {"link", "addr"}
  BY DEF Init
<1>4. verdict = "new" /\ asked = FALSE /\ seen = {} /\ changes = 0 /\ faults = 0
  BY DEF Init
<1>5. changes \in 0..MaxChanges /\ faults \in 0..MaxFaults
  BY <1>4, Bounds
<1> QED BY <1>1, <1>2, <1>3, <1>4, <1>5 DEF TypeOK

\* The position part of TypeOK.
Position(a) ==
  /\ a \in [step : Steps, i : 1..N, j : Nat]
  /\ a.step \in {"link", "addr"} => a.j \in 1..Len(Ifaces(a.i))

LEMMA PositionAt ==
  ASSUME NEW s \in Steps, NEW i \in 1..N, NEW j \in Nat,
         s \in {"link", "addr"} => j \in 1..Len(Ifaces(i))
  PROVE  Position([step |-> s, i |-> i, j |-> j])
BY DEF Position

\* Where the loop over the interfaces goes.
NextIface(i, j) ==
  IF j <= Len(Ifaces(i)) THEN [step |-> "link", i |-> i, j |-> j]
                         ELSE [step |-> "routes", i |-> i, j |-> 1]

LEMMA NextIfaceAt ==
  ASSUME NEW i \in 1..N, NEW j \in Nat \ {0}
  PROVE  Position(NextIface(i, j))
<1> {"link", "routes"} \subseteq Steps
  BY DEF Steps, Executed
<1>1. CASE j <= Len(Ifaces(i))
  <2>1. j \in 1..Len(Ifaces(i)) /\ j \in Nat
    BY <1>1, Sizes
  <2> QED BY <1>1, <2>1, PositionAt DEF NextIface
<1>2. CASE ~(j <= Len(Ifaces(i)))
  BY <1>2, PositionAt DEF NextIface
<1> QED BY <1>1, <1>2

\* The verdict and position after a step of the validator.
Moves ==
  /\ verdict' \in {"new", "running", "passed", "exit", "escaped"}
  /\ Position(at') /\ asked' \in BOOLEAN

LEMMA MovesSuffices ==
  ASSUME TypeOK, Moves, UNCHANGED <<kernel, start>>, faults' \in 0..MaxFaults
  PROVE  TypeOK'
BY DEF TypeOK, Moves, Position, kernel

LEMMA TypeNext == TypeOK /\ [Next]_vars => TypeOK'
<1> SUFFICES ASSUME TypeOK, [Next]_vars PROVE TypeOK'
  OBVIOUS
<1>a. at.i \in 1..N /\ at.j \in Nat /\ at.i \in Nat /\ Position(at)
  BY Sizes DEF TypeOK, Position
<1>b. {"exists", "forwarding", "link", "addr", "routes", "ping", "reverse"} \subseteq Steps
  BY DEF Steps, Executed
<1>1. CASE Begin
  BY <1>1 DEF Begin, TypeOK
<1>2. CASE Exists
  <2>1. CASE Ns(at.i) \in net.netns
    <3>1. Position([step |-> "forwarding", i |-> at.i, j |-> 1])
      BY <1>a, <1>b, PositionAt
    <3> QED BY <1>2, <2>1, <3>1, MovesSuffices DEF Exists, At, Goto, Moves, TypeOK
  <2>2. CASE Ns(at.i) \notin net.netns
    BY <1>2, <1>a, <2>2, MovesSuffices DEF Exists, At, AssertionFails, Ends, Moves, TypeOK
  <2> QED BY <2>1, <2>2
<1>3. CASE Ask
  BY <1>3, <1>a, MovesSuffices DEF Ask, AssertionFails, Ends, Moves, TypeOK
<1>4. CASE Forwarding
  <2>1. Position(NextIface(at.i, 1))
    BY <1>a, NextIfaceAt
  <2>2. ASSUME verdict = "running", Interface(at.i, 1) PROVE Moves
    BY <2>1, <2>2 DEF Moves, Interface, Goto, NextIface
  <2>3. UNCHANGED <<kernel, start, faults>>
    BY <1>4 DEF Forwarding, Execute
  <2>4. Moves
    BY <1>4, <2>2 DEF Forwarding, Execute, At, AssertionFails, RunCmdRaises, Ends, Moves, TypeOK, Position
  <2> QED BY <2>3, <2>4, MovesSuffices DEF TypeOK
<1>5. CASE Link
  <2>1. Position(NextIface(at.i, at.j + 1))
    BY <1>a, NextIfaceAt
  <2>2. at.j \in 1..Len(Ifaces(at.i))
    BY <1>5 DEF Link, Execute, At, TypeOK
  <2>3. Position([step |-> "addr", i |-> at.i, j |-> at.j])
    BY <1>a, <1>b, <2>2, PositionAt
  <2>4. ASSUME verdict = "running", Interface(at.i, at.j + 1) PROVE Moves
    BY <2>1, <2>4 DEF Moves, Interface, Goto, NextIface
  <2>5. ASSUME verdict = "running", Goto("addr", at.i, at.j) PROVE Moves
    BY <2>3, <2>5 DEF Moves, Goto
  <2>6. UNCHANGED <<kernel, start, faults>>
    BY <1>5 DEF Link, Execute
  <2>7. Moves
    BY <1>5, <2>4, <2>5 DEF Link, Execute, At, AssertionFails, RunCmdRaises, Ends, Moves,
                            TypeOK, Position
  <2> QED BY <2>6, <2>7, MovesSuffices DEF TypeOK
<1>6. CASE Address
  <2>1. Position(NextIface(at.i, at.j + 1))
    BY <1>a, NextIfaceAt
  <2>2. ASSUME verdict = "running", Interface(at.i, at.j + 1) PROVE Moves
    BY <2>1, <2>2 DEF Moves, Interface, Goto, NextIface
  <2>3. UNCHANGED <<kernel, start, faults>>
    BY <1>6 DEF Address, Execute
  <2>4. Moves
    BY <1>6, <2>2 DEF Address, Execute, At, AssertionFails, RunCmdRaises, Ends, Moves,
                      TypeOK, Position
  <2> QED BY <2>3, <2>4, MovesSuffices DEF TypeOK
<1>7. CASE RoutesRead
  <2>1. ASSUME at.i < N PROVE Position([step |-> "exists", i |-> at.i + 1, j |-> 1])
    <3>1. at.i + 1 \in 1..N
      BY <1>a, <2>1, Sizes
    <3> QED BY <1>b, <3>1, PositionAt
  <2>2. Position([step |-> "ping", i |-> N, j |-> 1])
    BY <1>b, Sizes, PositionAt
  <2>3. UNCHANGED <<kernel, start, faults>>
    BY <1>7 DEF RoutesRead, Execute
  <2>4. Moves
    BY <1>7, <2>1, <2>2 DEF RoutesRead, Execute, At, Goto, AssertionFails, RunCmdRaises, Ends,
                            Moves, TypeOK, Position
  <2> QED BY <2>3, <2>4, MovesSuffices DEF TypeOK
<1>8. CASE Ping
  <2>1. Position([step |-> "reverse", i |-> N, j |-> 1])
    BY <1>b, Sizes, PositionAt
  <2>2. UNCHANGED <<kernel, start, faults>>
    BY <1>8 DEF Ping, Execute
  <2>3. Moves
    BY <1>8, <2>1 DEF Ping, Execute, At, Goto, AssertionFails, RunCmdRaises, Ends, Moves,
                      TypeOK, Position
  <2> QED BY <2>2, <2>3, MovesSuffices DEF TypeOK
<1>9. CASE ReversePing
  <2>1. UNCHANGED <<kernel, start, faults>>
    BY <1>9 DEF ReversePing, Execute
  <2>2. Moves
    BY <1>9 DEF ReversePing, Execute, At, AssertionFails, RunCmdRaises, Ends, Moves, TypeOK, Position
  <2> QED BY <2>1, <2>2, MovesSuffices DEF TypeOK
<1>10. CASE CommandFails
  <2>1. UNCHANGED <<kernel, start>> /\ faults' \in 0..MaxFaults
    BY <1>10, Bounds DEF CommandFails, TypeOK
  <2>2. Moves
    BY <1>10 DEF CommandFails, RunCmdRaises, Ends, Moves, TypeOK, Position
  <2> QED BY <2>1, <2>2, MovesSuffices
<1>11. CASE RivalDeletes
  <2>1. net' \in NetType
    BY <1>11, DeleteType DEF RivalDeletes, TypeOK
  <2> QED BY <1>11, <2>1, Bounds DEF RivalDeletes, Change, program, TypeOK
<1>12. CASE RivalBuilds
  <2>1. net' \in NetType
    BY <1>12, BuildsType DEF TypeOK
  <2> QED BY <1>12, <2>1, Bounds DEF RivalBuilds, Change, program, TypeOK
<1>13. CASE UNCHANGED vars
  BY <1>13 DEF vars, program, kernel, TypeOK
<1> QED
  BY <1>1, <1>2, <1>3, <1>4, <1>5, <1>6, <1>7, <1>8, <1>9, <1>10, <1>11, <1>12, <1>13
  DEF Next, Validate

\* Every variable keeps its domain: the validator stays inside the loops over
\* namespaces and interfaces (validator.py:42-72), and the kernel holds sets of
\* namespaces, devices and routes.
THEOREM ValidationTypes == Spec => []TypeOK
<1>1. Init => TypeOK
  BY TypeInit
<1>2. TypeOK /\ [Next]_vars => TypeOK'
  BY TypeNext
<1> QED BY <1>1, <1>2, PTL DEF Spec

-----------------------------------------------------------------------------
\* Deletions lead down, additions lead up.

LEMMA DeletesDown ==
  ASSUME net \in NetType, RivalDeletes
  PROVE  Below(net', net)
<1> PICK i \in 1..N : net' = NetnsDelete(net, Ns(i))
  BY DEF RivalDeletes
<1>1. /\ net'.netns = net.netns \ {Ns(i)} /\ net'.fwd = net.fwd \ {Ns(i)}
      /\ net'.veths = SurvivingVeths(net, Ns(i))
      /\ net'.addrs \subseteq net.addrs /\ net'.ups \subseteq net.ups
      /\ net'.routes \subseteq net.routes
  BY DEF NetnsDelete
<1>2. Devices(net') \subseteq Devices(net)
  BY <1>1 DEF Devices, SurvivingVeths
<1>3. ASSUME NEW l \in 1..N, Ns(l) \in net'.netns, ForwardingRight(net', l)
      PROVE  ForwardingRight(net, l)
  BY <1>1, <1>3 DEF ForwardingRight
<1> QED BY <1>1, <1>2, <1>3 DEF Below

LEMMA BuildsUp ==
  ASSUME net \in NetType, RivalBuilds
  PROVE  Below(net, net')
<1> PICK i \in 1..N :
      \/ RivalSetsUp(i)
      \/ \E j \in 1..Len(Ifaces(i)) : RivalConnects(i, j)
      \/ \E j \in 1..Len(Routes(i)) : RivalRoutes(i, j)
  BY DEF RivalBuilds
<1>1. CASE RivalSetsUp(i)
  <2>1. ASSUME Ns(i) \notin net.netns, NEW b \in BOOLEAN, net' = NetnsAdd(net, Ns(i), b)
        PROVE  Below(net, net')
    <3>1. /\ net.netns \subseteq net'.netns /\ net'.veths = net.veths
          /\ net'.addrs = net.addrs /\ net'.ups = net.ups /\ net'.routes = net.routes
          /\ net'.fwd \in {net.fwd \union {Ns(i)}, net.fwd \ {Ns(i)}}
      BY <2>1 DEF NetnsAdd, NetType
    <3>2. ASSUME NEW l \in 1..N, Ns(l) \in net.netns, ForwardingRight(net, l)
          PROVE  ForwardingRight(net', l)
      BY <2>1, <3>1, <3>2 DEF ForwardingRight
    <3> QED BY <3>1, <3>2 DEF Below, Devices
  <2>2. ASSUME net' = SetForward(net, Ns(i), Namespaces[i].forwarding)
        PROVE  Below(net, net')
    <3>1. /\ net'.netns = net.netns /\ net'.veths = net.veths
          /\ net'.addrs = net.addrs /\ net'.ups = net.ups /\ net'.routes = net.routes
          /\ net'.fwd = IF Namespaces[i].forwarding THEN net.fwd \union {Ns(i)}
                                                    ELSE net.fwd \ {Ns(i)}
      BY <2>2 DEF SetForward, NetType
    <3>2. ASSUME NEW l \in 1..N, ForwardingRight(net, l)
          PROVE  ForwardingRight(net', l)
      <4>1. CASE l = i
        BY <3>1, <4>1 DEF ForwardingRight
      <4>2. CASE l # i
        <5>1. Ns(l) # Ns(i)
          BY <4>2, Sizes
        <5> QED BY <3>1, <3>2, <5>1 DEF ForwardingRight
      <4> QED BY <4>1, <4>2
    <3> QED BY <3>1, <3>2 DEF Below, Devices
  <2> QED BY <1>1, <2>1, <2>2 DEF RivalSetsUp, CanNetnsAdd
<1>2. CASE \E j \in 1..Len(Ifaces(i)) : RivalConnects(i, j)
  <2> PICK j \in 1..Len(Ifaces(i)) : RivalConnects(i, j)
    BY <1>2
  <2>1. /\ net'.netns = net.netns /\ net'.fwd = net.fwd /\ net.veths \subseteq net'.veths
        /\ net.addrs \subseteq net'.addrs /\ net.ups \subseteq net'.ups
        /\ net'.routes = net.routes
    BY DEF RivalConnects, AddrAdd, LinkUp, NetType
  <2> QED BY <2>1 DEF Below, Devices, ForwardingRight
<1>3. CASE \E j \in 1..Len(Routes(i)) : RivalRoutes(i, j)
  <2>1. /\ net'.netns = net.netns /\ net'.fwd = net.fwd /\ net.veths = net'.veths
        /\ net.addrs = net'.addrs /\ net.ups = net'.ups
        /\ net.routes \subseteq net'.routes
    BY <1>3 DEF RivalRoutes, RouteAdd, NetType
  <2> QED BY <2>1 DEF Below, Devices, ForwardingRight
<1> QED BY <1>1, <1>2, <1>3

-----------------------------------------------------------------------------
\* What a check that passes adds to what was found.

LEMMA NextIfaceSoFar ==
  ASSUME NEW k, NEW i \in 1..N, NEW j \in Nat \ {0},
         \A l \in 1..N : l < i => WholeNs(k, l),
         Ns(i) \in k.netns, ForwardingRight(k, i),
         \A l \in 1..Len(Ifaces(i)) : l < j => WholeIface(k, i, l)
  PROVE  SoFar(k, NextIface(i, j))
<1>1. CASE j <= Len(Ifaces(i))
  BY <1>1 DEF NextIface, SoFar
<1>2. CASE ~(j <= Len(Ifaces(i)))
  <2>1. \A l \in 1..Len(Ifaces(i)) : l < j
    BY <1>2, Sizes
  <2> QED BY <1>2, <2>1 DEF NextIface, SoFar
<1> QED BY <1>1, <1>2

LEMMA CheckFinds ==
  ASSUME TypeOK, Validate, verdict # "new",
         NEW k, Below(net, k), Found(k, verdict, at)
  PROVE  Found(k, verdict', at') /\ verdict' # "new"
<1>a. at.i \in 1..N /\ at.j \in Nat /\ at.i \in Nat
  BY Sizes DEF TypeOK
<1>b. verdict = "running" => SoFar(k, at)
  BY DEF Found
<1>c. ASSUME verdict' \in {"exit", "escaped"}
      PROVE  Found(k, verdict', at') /\ verdict' # "new"
  BY <1>c DEF Found
<1>1. CASE Exists
  <2>1. CASE Ns(at.i) \in net.netns
    <3>1. at' = [step |-> "forwarding", i |-> at.i, j |-> 1] /\ verdict' = "running"
      BY <1>1, <2>1 DEF Exists, At, Goto
    <3>2. SoFar(k, at')
      BY <1>1, <1>b, <2>1, <3>1 DEF Exists, At, SoFar, Below
    <3> QED BY <3>1, <3>2 DEF Found
  <2>2. CASE Ns(at.i) \notin net.netns
    BY <1>1, <1>c, <2>2 DEF Exists, AssertionFails, Ends
  <2> QED BY <2>1, <2>2
<1>2. CASE Ask
  <2>1. CASE verdict' = verdict /\ at' = at
    BY <2>1
  <2>2. CASE verdict' \in {"exit", "escaped"}
    BY <1>c, <2>2
  <2> QED BY <1>2, <2>1, <2>2 DEF Ask, AssertionFails, Ends
<1>3. CASE Forwarding
  <2>1. CASE Target \in net.netns /\ ForwardingRight(net, at.i)
    <3>1. Ns(at.i) \in k.netns /\ ForwardingRight(k, at.i) /\ at.step = "forwarding"
      BY <1>3, <1>a, <2>1 DEF Forwarding, Execute, At, Target, Below
    <3>2. at' = NextIface(at.i, 1) /\ verdict' = "running" /\ verdict = "running"
      BY <1>3, <2>1 DEF Forwarding, Execute, At, Interface, Goto, NextIface
    <3>3. \A l \in 1..N : l < at.i => WholeNs(k, l)
      BY <1>b, <3>2 DEF SoFar
    <3>4. SoFar(k, at')
      BY <1>a, <3>1, <3>2, <3>3, NextIfaceSoFar
    <3> QED BY <3>2, <3>4 DEF Found
  <2>2. CASE ~(Target \in net.netns /\ ForwardingRight(net, at.i))
    BY <1>3, <1>c, <2>2 DEF Forwarding, Execute, AssertionFails, RunCmdRaises, Ends
  <2> QED BY <2>1, <2>2
<1>4. CASE Link
  <2>1. CASE Target \in net.netns /\ LinkExists(net, at.i, at.j) /\ UpShown(net, at.i, at.j)
    <3>1. /\ LinkExists(k, at.i, at.j) /\ Dev(at.i, at.j) \in k.ups
          /\ at.step = "link" /\ verdict = "running"
      BY <1>4, <1>a, <2>1 DEF Link, Execute, At, LinkExists, UpShown, Below
    <3>2. SoFar(k, at)
      BY <1>b, <3>1
    <3>3. CASE Ifaces(at.i)[at.j].ip
      <4>1. at' = [step |-> "addr", i |-> at.i, j |-> at.j] /\ verdict' = "running"
        BY <1>4, <2>1, <3>3 DEF Link, Execute, At, Goto
      <4>2. SoFar(k, at')
        BY <3>1, <3>2, <4>1 DEF SoFar
      <4> QED BY <4>1, <4>2 DEF Found
    <3>4. CASE ~Ifaces(at.i)[at.j].ip
      <4>1. at' = NextIface(at.i, at.j + 1) /\ verdict' = "running"
        BY <1>4, <2>1, <3>4 DEF Link, Execute, At, Interface, Goto, NextIface
      <4>2. WholeIface(k, at.i, at.j)
        BY <3>1, <3>4 DEF WholeIface
      <4>3. \A l \in 1..Len(Ifaces(at.i)) : l < at.j + 1 => WholeIface(k, at.i, l)
        <5>1. \A l \in 1..Len(Ifaces(at.i)) : l < at.j => WholeIface(k, at.i, l)
          BY <3>1, <3>2 DEF SoFar
        <5> QED BY <1>a, <4>2, <5>1, Sizes
      <4>4. SoFar(k, at')
        BY <1>a, <3>1, <3>2, <4>1, <4>3, NextIfaceSoFar DEF SoFar
      <4> QED BY <4>1, <4>4 DEF Found
    <3> QED BY <3>3, <3>4
  <2>2. CASE ~(Target \in net.netns /\ LinkExists(net, at.i, at.j) /\ UpShown(net, at.i, at.j))
    BY <1>4, <1>c, <2>2 DEF Link, Execute, AssertionFails, RunCmdRaises, Ends
  <2> QED BY <2>1, <2>2
<1>5. CASE Address
  <2>1. CASE Target \in net.netns /\ LinkExists(net, at.i, at.j) /\ HasAddress(net, at.i, at.j)
    <3>1. HasAddress(k, at.i, at.j) /\ at.step = "addr" /\ verdict = "running"
      BY <1>5, <2>1 DEF Address, Execute, At, HasAddress, Below
    <3>2. SoFar(k, at)
      BY <1>b, <3>1
    <3>3. at' = NextIface(at.i, at.j + 1) /\ verdict' = "running"
      BY <1>5, <2>1 DEF Address, Execute, At, Interface, Goto, NextIface
    <3>4. WholeIface(k, at.i, at.j)
      BY <3>1, <3>2 DEF WholeIface, SoFar
    <3>5. \A l \in 1..Len(Ifaces(at.i)) : l < at.j + 1 => WholeIface(k, at.i, l)
      <4>1. \A l \in 1..Len(Ifaces(at.i)) : l < at.j => WholeIface(k, at.i, l)
        BY <3>1, <3>2 DEF SoFar
      <4> QED BY <1>a, <3>4, <4>1, Sizes
    <3>6. SoFar(k, at')
      BY <1>a, <3>1, <3>2, <3>3, <3>5, NextIfaceSoFar DEF SoFar
    <3> QED BY <3>3, <3>6 DEF Found
  <2>2. CASE ~(Target \in net.netns /\ LinkExists(net, at.i, at.j) /\ HasAddress(net, at.i, at.j))
    BY <1>5, <1>c, <2>2 DEF Address, Execute, AssertionFails, RunCmdRaises, Ends
  <2> QED BY <2>1, <2>2
<1>6. CASE RoutesRead
  <2> DEFINE Shown == \A j \in 1..Len(Routes(at.i)) : RouteShown(net, at.i, j)
  <2>1. CASE Target \in net.netns /\ Shown
    <3>1. at.step = "routes" /\ verdict = "running"
      BY <1>6 DEF RoutesRead, Execute, At
    <3>2. SoFar(k, at)
      BY <1>b, <3>1
    <3>3. \A j \in 1..Len(Routes(at.i)) : HasRoute(k, at.i, j)
      BY <2>1 DEF RouteShown, HasRoute, Below
    <3>4. WholeNs(k, at.i)
      BY <3>1, <3>2, <3>3 DEF SoFar, WholeNs
    <3>5. \A l \in 1..N : l <= at.i => WholeNs(k, l)
      BY <1>a, <3>2, <3>4 DEF SoFar
    <3>6. CASE at.i < N
      <4>1. at' = [step |-> "exists", i |-> at.i + 1, j |-> 1] /\ verdict' = "running"
        BY <1>6, <2>1, <3>6 DEF RoutesRead, Execute, At, Goto
      <4>2. SoFar(k, at')
        BY <1>a, <3>5, <4>1 DEF SoFar
      <4> QED BY <4>1, <4>2 DEF Found
    <3>7. CASE ~(at.i < N)
      <4>1. at' = [step |-> "ping", i |-> N, j |-> 1] /\ verdict' = "running"
        BY <1>6, <2>1, <3>7 DEF RoutesRead, Execute, At, Goto
      <4>2. \A l \in 1..N : WholeNs(k, l)
        BY <1>a, <3>5, <3>7, Sizes
      <4>3. SoFar(k, at')
        BY <4>1, <4>2 DEF SoFar
      <4> QED BY <4>1, <4>3 DEF Found
    <3> QED BY <3>6, <3>7
  <2>2. CASE ~(Target \in net.netns /\ Shown)
    BY <1>6, <1>c, <2>2 DEF RoutesRead, Execute, AssertionFails, RunCmdRaises, Ends
  <2> QED BY <2>1, <2>2
<1>7. CASE Ping
  <2>1. CASE at' = [step |-> "reverse", i |-> N, j |-> 1] /\ verdict' = "running"
    <3>1. SoFar(k, at')
      BY <1>7, <1>b, <2>1 DEF Ping, Execute, At, SoFar
    <3> QED BY <2>1, <3>1 DEF Found
  <2>2. CASE verdict' \in {"exit", "escaped"}
    BY <1>c, <2>2
  <2> QED BY <1>7, <2>1, <2>2 DEF Ping, Execute, At, Goto, AssertionFails, RunCmdRaises, Ends
<1>8. CASE ReversePing
  <2>1. CASE verdict' = "passed"
    <3>1. Whole(k)
      BY <1>8, <1>b DEF ReversePing, Execute, At, SoFar, Whole
    <3> QED BY <2>1, <3>1 DEF Found
  <2>2. CASE verdict' \in {"exit", "escaped"}
    BY <1>c, <2>2
  <2> QED BY <1>8, <2>1, <2>2 DEF ReversePing, Execute, At, AssertionFails, RunCmdRaises, Ends
<1> QED
  BY <1>1, <1>2, <1>3, <1>4, <1>5, <1>6, <1>7, <1>8 DEF Validate, Begin

-----------------------------------------------------------------------------
LEMMA ReadInit == Init => ReadInv
BY DEF Init, ReadInv

LEMMA ReadNext == TypeOK /\ ReadInv /\ [Next]_vars => ReadInv'
<1> SUFFICES ASSUME TypeOK, ReadInv, [Next]_vars PROVE ReadInv'
  OBVIOUS
<1>1. CASE Begin
  <2>1. /\ at' = [step |-> "exists", i |-> 1, j |-> 1] /\ verdict' = "running"
        /\ start' = net /\ net' = net
    BY <1>1 DEF Begin, ReadInv
  <2>2. Found(net', verdict', at') /\ Found(start', verdict', at')
    BY <2>1, Sizes DEF Found, SoFar
  <2> QED BY <2>1, <2>2, Reflexive DEF ReadInv
<1>2. CASE Validate /\ ~Begin
  <2>1. verdict # "new"
    BY <1>2 DEF Validate, Exists, Ask, Forwarding, Link, Address, RoutesRead, Ping,
                ReversePing, Execute, At
  <2>2. net' = net /\ start' = start /\ seen' = seen
    BY <1>2 DEF Validate, Exists, Ask, Forwarding, Link, Address, RoutesRead, Ping,
                ReversePing, Execute, kernel
  <2>3. "added" \notin seen => Below(net, start) /\ Found(start, verdict', at')
    BY <1>2, <2>1, CheckFinds DEF ReadInv
  <2>4. "deleted" \notin seen => Found(net, verdict', at')
    BY <1>2, <2>1, CheckFinds, Reflexive DEF ReadInv
  <2>5. verdict' # "new"
    BY <1>2, <2>1 DEF Validate, Exists, Ask, Forwarding, Link, Address, RoutesRead, Ping,
                      ReversePing, Execute, At, Goto, Interface, AssertionFails, RunCmdRaises, Ends
  <2> QED BY <2>2, <2>3, <2>4, <2>5 DEF ReadInv
<1>3. CASE CommandFails
  BY <1>3 DEF CommandFails, RunCmdRaises, Ends, kernel, ReadInv, Found
<1>4. CASE RivalDeletes
  <2>1. /\ seen' = seen \union {"deleted"} /\ start' = start
        /\ verdict' = verdict /\ at' = at
    BY <1>4 DEF RivalDeletes, Change, program
  <2>2. Below(net', net)
    BY <1>4, DeletesDown DEF TypeOK
  <2>3. Below(net, start) => Below(net', start)
    BY <2>2, Transitive
  <2> QED BY <2>1, <2>3 DEF ReadInv
<1>5. CASE RivalBuilds
  <2>1. /\ seen' = seen \union {"added"} /\ verdict' = verdict /\ at' = at
    BY <1>5 DEF RivalBuilds, Change, program
  <2>2. Below(net, net')
    BY <1>5, BuildsUp DEF TypeOK
  <2>3. Found(net, verdict, at) => Found(net', verdict, at)
    BY <2>2, FoundUp DEF TypeOK
  <2> QED BY <2>1, <2>3 DEF ReadInv
<1>6. CASE UNCHANGED vars
  BY <1>6 DEF vars, program, kernel, ReadInv
<1> QED BY <1>1, <1>2, <1>3, <1>4, <1>5, <1>6 DEF Next

\* LaboratoryValidator reads the kernel piece by piece; a verdict it reaches
\* beside programs that only delete describes the laboratory it was called
\* on, beside programs that only add the one it leaves.
THEOREM PassIsMeaningful == Spec => []PassMeansWhole
<1>1. Init => TypeOK /\ ReadInv
  BY TypeInit, ReadInit
<1>2. TypeOK /\ ReadInv /\ [Next]_vars => (TypeOK /\ ReadInv)'
  BY TypeNext, ReadNext
<1>3. ReadInv => PassMeansWhole
  BY DEF ReadInv, PassMeansWhole, Found
<1> QED BY <1>1, <1>2, <1>3, PTL DEF Spec

-----------------------------------------------------------------------------
(***************************************************************************)
(* WholePasses.  The converse needs three things of the configuration and  *)
(* of the host that LabConfiguration.validate does not ask for: each of    *)
(* the checks below is one that a whole laboratory can fail.               *)
(***************************************************************************)
Recognisable ==
  /\ UpLeadsFlags                      \* UP comes before the first comma
  /\ \A i \in 1..N : \A j \in 1..Len(Routes(i)) :
       Routes(i)[j].target = Default => Routes(i)[j].via
  /\ Addressed(Client) /\ Addressed(AppServer)

\* While nothing disturbs it the validator reads the kernel it was called on,
\* and looks for an address only where one is configured.
CalmInv ==
  /\ verdict # "new" /\ seen = {} => net = start
  /\ at.step = "addr" => Ifaces(at.i)[at.j].ip
  /\ verdict = "new" => at.step = "exists"
  /\ WholePasses

\* What the commands show of a whole laboratory.
LEMMA WholeShown ==
  ASSUME Recognisable, NEW k, Whole(k), NEW i \in 1..N
  PROVE  /\ Ns(i) \in k.netns /\ ForwardingRight(k, i)
         /\ \A j \in 1..Len(Ifaces(i)) : LinkExists(k, i, j) /\ UpShown(k, i, j)
         /\ \A j \in 1..Len(Ifaces(i)) : Ifaces(i)[j].ip => HasAddress(k, i, j)
         /\ \A j \in 1..Len(Routes(i)) : RouteShown(k, i, j)
<1>1. WholeNs(k, i)
  BY DEF Whole
<1> QED BY <1>1 DEF WholeNs, WholeIface, UpShown, RouteShown, Recognisable

\* The namespaces the commands run in are configured ones.
LEMMA TargetNamed ==
  ASSUME TypeOK
  PROVE  \E i \in 1..N : Target = Ns(i)
<1>1. (\E i \in 1..N : Client = Ns(i)) /\ (\E i \in 1..N : AppServer = Ns(i))
  BY ValidationAssumption DEF ValidationAssumption
<1>2. at.i \in 1..N
  BY DEF TypeOK
<1> QED BY <1>1, <1>2 DEF Target

\* A step of the validator on a whole laboratory reports no fault.
LEMMA WholeStep ==
  ASSUME Recognisable, TypeOK, Validate, ~Begin, Whole(net),
         at.step = "addr" => Ifaces(at.i)[at.j].ip
  PROVE  verdict' \in {"running", "passed"}
<1>a. verdict = "running" /\ at.i \in 1..N
  BY DEF Validate, Exists, Ask, Forwarding, Link, Address, RoutesRead, Ping, ReversePing,
         Execute, At, TypeOK
<1>b. at.step \in {"link", "addr"} => at.j \in 1..Len(Ifaces(at.i))
  BY DEF TypeOK
<1>c. Target \in net.netns
  BY TargetNamed, WholeShown
<1>d. /\ Ns(at.i) \in net.netns /\ ForwardingRight(net, at.i)
      /\ \A j \in 1..Len(Ifaces(at.i)) : LinkExists(net, at.i, j) /\ UpShown(net, at.i, j)
      /\ \A j \in 1..Len(Ifaces(at.i)) : Ifaces(at.i)[j].ip => HasAddress(net, at.i, j)
      /\ \A j \in 1..Len(Routes(at.i)) : RouteShown(net, at.i, j)
  BY <1>a, WholeShown
<1>1. CASE Exists
  BY <1>1, <1>a, <1>d DEF Exists, Goto
<1>2. CASE Ask
  <2>1. Addressed(Pinged)
    BY DEF Recognisable, Pinged
  <2> QED BY <1>2, <1>a, <1>c, <2>1 DEF Ask
<1>3. CASE Forwarding
  BY <1>3, <1>a, <1>c, <1>d DEF Forwarding, Execute, Interface, Goto
<1>4. CASE Link
  <2>1. at.j \in 1..Len(Ifaces(at.i))
    BY <1>4, <1>b DEF Link, Execute, At
  <2> QED BY <1>4, <1>a, <1>c, <1>d, <2>1 DEF Link, Execute, Interface, Goto
<1>5. CASE Address
  <2>1. /\ at.j \in 1..Len(Ifaces(at.i)) /\ Ifaces(at.i)[at.j].ip
        /\ LinkExists(net, at.i, at.j) /\ HasAddress(net, at.i, at.j)
    BY <1>5, <1>b, <1>d DEF Address, Execute, At
  <2> QED BY <1>5, <1>a, <1>c, <2>1 DEF Address, Execute, Interface, Goto
<1>6. CASE RoutesRead
  BY <1>6, <1>a, <1>c, <1>d DEF RoutesRead, Execute, Goto
<1>7. CASE Ping
  BY <1>7, <1>a, <1>c DEF Ping, Execute, Goto
<1>8. CASE ReversePing
  BY <1>8, <1>c DEF ReversePing, Execute, Ends
<1> QED BY <1>1, <1>2, <1>3, <1>4, <1>5, <1>6, <1>7, <1>8 DEF Validate

\* The position "addr" is entered from an interface with an address only.
LEMMA AddressAsked ==
  ASSUME TypeOK, Validate, ~Begin, at.step = "addr" => Ifaces(at.i)[at.j].ip
  PROVE  at'.step = "addr" => Ifaces(at'.i)[at'.j].ip
<1>1. CASE Link
  <2>1. at.step # "addr"
    BY <1>1 DEF Link, Execute, At
  <2>2. CASE at' = at
    BY <2>1, <2>2
  <2>3. CASE Ifaces(at.i)[at.j].ip /\ Goto("addr", at.i, at.j)
    BY <2>3 DEF Goto
  <2>4. CASE Interface(at.i, at.j + 1)
    BY <2>4 DEF Interface, Goto
  <2>5. \/ at' = at
        \/ Ifaces(at.i)[at.j].ip /\ Goto("addr", at.i, at.j)
        \/ Interface(at.i, at.j + 1)
    BY <1>1 DEF Link, Execute, AssertionFails, RunCmdRaises, Ends
  <2> QED BY <2>2, <2>3, <2>4, <2>5
<1>2. CASE ~Link
  BY <1>2 DEF Validate, Exists, Ask, Forwarding, Address, RoutesRead, Ping, ReversePing,
     Execute, Interface, Goto, AssertionFails, RunCmdRaises, Ends
<1> QED BY <1>1, <1>2

LEMMA CalmNext == Recognisable /\ TypeOK /\ CalmInv /\ [Next]_vars => CalmInv'
<1> SUFFICES ASSUME Recognisable, TypeOK, CalmInv, [Next]_vars PROVE CalmInv'
  OBVIOUS
<1>1. CASE Begin
  BY <1>1 DEF Begin, CalmInv, WholePasses
<1>2. CASE Validate /\ ~Begin
  <2>1. verdict = "running" /\ net' = net /\ start' = start /\ seen' = seen /\ faults' = faults
    BY <1>2 DEF Validate, Exists, Ask, Forwarding, Link, Address, RoutesRead, Ping,
                ReversePing, Execute, At, kernel
  <2>2. ASSUME Whole(start), seen = {} PROVE verdict' \in {"running", "passed"}
    BY <1>2, <2>1, <2>2, WholeStep DEF CalmInv
  <2>3. verdict' # "new"
    BY <1>2, <2>1 DEF Validate, Exists, Ask, Forwarding, Link, Address, RoutesRead, Ping,
       ReversePing, Execute, At, Goto, Interface, AssertionFails, RunCmdRaises, Ends
  <2>4. at'.step = "addr" => Ifaces(at'.i)[at'.j].ip
    BY <1>2, AddressAsked DEF CalmInv
  <2> QED BY <2>1, <2>2, <2>3, <2>4 DEF CalmInv, WholePasses
<1>3. CASE CommandFails
  <2>1. faults' # 0
    BY <1>3 DEF CommandFails, TypeOK
  <2> QED BY <1>3, <2>1 DEF CommandFails, RunCmdRaises, Ends, kernel, CalmInv, WholePasses
<1>4. CASE RivalDeletes \/ RivalBuilds
  BY <1>4 DEF RivalDeletes, RivalBuilds, Change, program, CalmInv, WholePasses
<1>5. CASE UNCHANGED vars
  BY <1>5 DEF vars, program, kernel, CalmInv, WholePasses
<1> QED BY <1>1, <1>2, <1>3, <1>4, <1>5 DEF Next

\* A validator called on a whole laboratory reports no fault unless another
\* program or the host interferes: for every configuration whose default
\* routes name a gateway and whose two ends have addresses, on a host that
\* prints UP where validator.py:57 looks for it.
THEOREM WholeIsRecognised == Recognisable => (Spec => []WholePasses)
<1> SUFFICES ASSUME Recognisable PROVE Spec => []WholePasses
  OBVIOUS
<1>1. Init => TypeOK /\ CalmInv
  BY TypeInit DEF Init, CalmInv, WholePasses
<1>2. TypeOK /\ CalmInv /\ [Next]_vars => (TypeOK /\ CalmInv)'
  BY TypeNext, CalmNext
<1>3. CalmInv => WholePasses
  BY DEF CalmInv
<1> QED BY <1>1, <1>2, <1>3, PTL DEF Spec
=============================================================================
