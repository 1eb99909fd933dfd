--------------------------- MODULE TopologyProofs ---------------------------
(***************************************************************************)
(* Proofs about Topology: type correctness, what a build() that returned   *)
(* has established, and that it implements Laboratory.                     *)
(***************************************************************************)
EXTENDS Topology, TLAPS

Instr == [op : Ops, i : Nat]

\* An element of the plan names an item the configuration has.
Good(c) ==
  /\ c \in Instr
  /\ c.op \in {"create", "loopback", "forwarding"} => c.i \in 1..Len(Namespaces)
  /\ c.op \in {"veth", "addr", "up"} => c.i \in 1..Len(Interfaces)
  /\ c.op = "route" => c.i \in 1..Len(Routes)

Occurs(s, x) == \E k \in 1..Len(s) : s[k] = x

LEMMA Concatenation ==
  ASSUME NEW S, NEW s \in Seq(S), NEW t \in Seq(S)
  PROVE  /\ s \o t \in Seq(S)
         /\ \A k \in 1..Len(s \o t) : Occurs(s, (s \o t)[k]) \/ Occurs(t, (s \o t)[k])
         /\ \A x : Occurs(s, x) \/ Occurs(t, x) => Occurs(s \o t, x)
<1>1. /\ s \o t \in Seq(S) /\ Len(s \o t) = Len(s) + Len(t)
      /\ Len(s) \in Nat /\ Len(t) \in Nat
  OBVIOUS
<1>2. \A k \in 1..Len(s) : (s \o t)[k] = s[k] /\ k \in 1..Len(s \o t)
  BY <1>1
<1>3. \A k \in 1..Len(t) : (s \o t)[Len(s) + k] = t[k] /\ Len(s) + k \in 1..Len(s \o t)
  BY <1>1
<1>4. \A k \in 1..Len(s \o t) : k \in 1..Len(s) \/ k - Len(s) \in 1..Len(t)
  BY <1>1
<1>5. \A k \in 1..Len(s \o t) : k - Len(s) \in 1..Len(t) =>
         (s \o t)[k] = t[k - Len(s)]
  BY <1>1
<1> QED BY <1>1, <1>2, <1>3, <1>4, <1>5 DEF Occurs

\* The four loops of build() run over the configured items only ...
LEMMA PhaseTypes ==
  /\ Phase1 \in Seq(Instr) /\ Phase2 \in Seq(Instr)
  /\ Phase3 \in Seq(Instr) /\ Phase4 \in Seq(Instr)
  /\ Len(Phase1) = 3 * Len(Namespaces) /\ Len(Phase2) = Len(Interfaces)
  /\ Len(Phase3) = 2 * Len(Interfaces) /\ Len(Phase4) = Len(Routes)
  /\ \A k \in 1..Len(Phase1) : Good(Phase1[k])
  /\ \A k \in 1..Len(Phase2) : Good(Phase2[k])
  /\ \A k \in 1..Len(Phase3) : Good(Phase3[k])
  /\ \A k \in 1..Len(Phase4) : Good(Phase4[k])
<1> DEFINE N == Len(Namespaces)
           F == Len(Interfaces)
           R == Len(Routes)
<1>0. N \in Nat /\ F \in Nat /\ R \in Nat
  BY ConfigAssumption DEF ConfigAssumption
<1>1. Phase1 \in Seq(Instr) /\ Len(Phase1) = 3 * N
      /\ \A k \in 1..Len(Phase1) : Good(Phase1[k])
  <2>1. \A k \in 1..(3 * N) : /\ ((k - 1) % 3) + 1 \in 1..3
                              /\ ((k - 1) \div 3) + 1 \in 1..N
    BY <1>0
  <2>2. \A j \in 1..3 : <<"create", "loopback", "forwarding">>[j]
                          \in {"create", "loopback", "forwarding"}
    OBVIOUS
  <2>3. ASSUME NEW k \in 1..(3 * N) PROVE Good(Phase1[k])
    <3> DEFINE o == <<"create", "loopback", "forwarding">>[((k - 1) % 3) + 1]
               j == ((k - 1) \div 3) + 1
    <3>1. o \in {"create", "loopback", "forwarding"} /\ j \in 1..N
      BY <2>1, <2>2
    <3>2. Phase1[k] = [op |-> o, i |-> j]
      BY DEF Phase1
    <3> HIDE DEF o, j
    <3> QED BY <3>1, <3>2, <1>0 DEF Good, Instr, Ops, ExecOps
  <2>4. \A k \in 1..(3 * N) : Phase1[k] \in Instr
    BY <2>3 DEF Good
  <2> QED BY <2>3, <2>4, <1>0 DEF Phase1
<1>2. Phase2 \in Seq(Instr) /\ Len(Phase2) = F
      /\ \A k \in 1..Len(Phase2) : Good(Phase2[k])
  BY <1>0 DEF Phase2, Good, Instr, Ops
<1>3. Phase3 \in Seq(Instr) /\ Len(Phase3) = 2 * F
      /\ \A k \in 1..Len(Phase3) : Good(Phase3[k])
  <2>1. \A k \in 1..(2 * F) : /\ ((k - 1) % 2) + 1 \in 1..2
                              /\ ((k - 1) \div 2) + 1 \in 1..F
    BY <1>0
  <2>2. \A j \in 1..2 : <<"addr", "up">>[j] \in {"addr", "up"}
    OBVIOUS
  <2>3. \A k \in 1..(2 * F) : Good(Phase3[k])
    BY <2>1, <2>2, <1>0 DEF Phase3, Good, Instr, Ops, ExecOps
  <2>4. \A k \in 1..(2 * F) : Phase3[k] \in Instr
    BY <2>3 DEF Good
  <2> QED BY <2>3, <2>4, <1>0 DEF Phase3
<1>4. Phase4 \in Seq(Instr) /\ Len(Phase4) = R
      /\ \A k \in 1..Len(Phase4) : Good(Phase4[k])
  BY <1>0 DEF Phase4, Good, Instr, Ops, ExecOps
<1> QED BY <1>1, <1>2, <1>3, <1>4

\* ... and so does their sequence, which leaves none of them out.
LEMMA PlanPhases ==
  /\ Plan \in Seq(Instr)
  /\ \A k \in 1..Len(Plan) : Good(Plan[k])
  /\ \A x : \/ Occurs(Phase1, x) \/ Occurs(Phase2, x)
           \/ Occurs(Phase3, x) \/ Occurs(Phase4, x) => Occurs(Plan, x)
<1> DEFINE A == Phase1 \o Phase2
           B == A \o Phase3
<1>1. /\ A \in Seq(Instr)
      /\ \A k \in 1..Len(A) : Occurs(Phase1, A[k]) \/ Occurs(Phase2, A[k])
      /\ \A x : Occurs(Phase1, x) \/ Occurs(Phase2, x) => Occurs(A, x)
  BY PhaseTypes, Concatenation
<1> HIDE DEF A
<1>2. /\ B \in Seq(Instr)
      /\ \A k \in 1..Len(B) : Occurs(A, B[k]) \/ Occurs(Phase3, B[k])
      /\ \A x : Occurs(A, x) \/ Occurs(Phase3, x) => Occurs(B, x)
  BY <1>1, PhaseTypes, Concatenation
<1> HIDE DEF B
<1>3. /\ B \o Phase4 \in Seq(Instr)
      /\ \A k \in 1..Len(B \o Phase4) :
           Occurs(B, (B \o Phase4)[k]) \/ Occurs(Phase4, (B \o Phase4)[k])
      /\ \A x : Occurs(B, x) \/ Occurs(Phase4, x) => Occurs(B \o Phase4, x)
  BY <1>2, PhaseTypes, Concatenation
<1>4. Plan = B \o Phase4
  BY DEF Plan, A, B
<1>5. \A x : Occurs(A, x) => Good(x)
  BY <1>1, PhaseTypes DEF Occurs
<1>6. \A x : Occurs(B, x) => Good(x)
  BY <1>2, <1>5, PhaseTypes DEF Occurs
<1>7. \A k \in 1..Len(Plan) : Good(Plan[k])
  BY <1>3, <1>4, <1>6, PhaseTypes DEF Occurs
<1> QED BY <1>1, <1>2, <1>3, <1>4, <1>7

LEMMA PlanType ==
  /\ Plan \in Seq(Instr)
  /\ \A k \in 1..Len(Plan) :
       /\ Plan[k].op \in {"create", "loopback", "forwarding"}
            => Plan[k].i \in 1..Len(Namespaces)
       /\ Plan[k].op \in {"veth", "addr", "up"}
            => Plan[k].i \in 1..Len(Interfaces)
       /\ Plan[k].op = "route" => Plan[k].i \in 1..Len(Routes)
BY PlanPhases DEF Good

\* What an accepted configuration says of its items.
LEMMA ConfigFacts ==
  /\ Len(Namespaces) \in Nat
  /\ \A i \in 1..Len(Namespaces) :
       NsName(i) \in NsNames /\ Namespaces[i].forwarding \in BOOLEAN
  /\ \A i \in 1..Len(Interfaces) :
       /\ Interfaces[i].ns \in NsNames /\ Interfaces[i].peerNs \in NsNames
       /\ Interfaces[i].name \in IfNames /\ Interfaces[i].peerName \in IfNames
       /\ Interfaces[i].veth \in BOOLEAN /\ Interfaces[i].ip \in BOOLEAN
  /\ \A i \in 1..Len(Routes) :
       /\ Routes[i].ns \in NsNames
       /\ Routes[i].target \in STRING /\ Routes[i].dev \in STRING
<1> DEFINE NsType == [name : STRING, forwarding : BOOLEAN]
           IfType == [ns : NsNames, name : STRING, veth : BOOLEAN,
                      peerNs : NsNames, peerName : STRING, ip : BOOLEAN]
           RtType == [ns : NsNames, target : STRING, dev : STRING, via : BOOLEAN]
<1>1. /\ Namespaces \in Seq(NsType)
      /\ Interfaces \in Seq(IfType)
      /\ Routes \in Seq(RtType)
  BY ConfigAssumption DEF ConfigAssumption
<1> HIDE DEF NsType, IfType, RtType
<1>2. /\ \A i \in 1..Len(Namespaces) : Namespaces[i] \in NsType
      /\ \A i \in 1..Len(Interfaces) : Interfaces[i] \in IfType
      /\ \A i \in 1..Len(Routes) : Routes[i] \in RtType
      /\ Len(Namespaces) \in Nat
  BY <1>1
<1>3. \A i \in 1..Len(Namespaces) : NsName(i) \in NsNames
  BY DEF NsNames
<1>4. \A i \in 1..Len(Interfaces) :
         Interfaces[i].name \in IfNames /\ Interfaces[i].peerName \in IfNames
  BY DEF IfNames
<1>5. \A x \in NsType : x.forwarding \in BOOLEAN
  BY DEF NsType
<1>6. \A x \in IfType : /\ x.ns \in NsNames /\ x.peerNs \in NsNames
                        /\ x.veth \in BOOLEAN /\ x.ip \in BOOLEAN
  BY DEF IfType
<1>7. \A x \in RtType : x.ns \in NsNames /\ x.target \in STRING /\ x.dev \in STRING
  BY DEF RtType
<1> QED BY <1>2, <1>3, <1>4, <1>5, <1>6, <1>7

\* The command a building process is at, and where it runs.
LEMMA CmdFacts ==
  ASSUME NEW p \in Proc, TypeOK, InLoop(p, "build")
  PROVE  /\ Cmd(p) \in Instr
         /\ pc[p] \in 1..Len(Plan)
         /\ NsOf(Cmd(p)) \in NsNames
         /\ Cmd(p).op \in {"create", "loopback", "forwarding"}
              => /\ Cmd(p).i \in 1..Len(Namespaces)
                 /\ NsOf(Cmd(p)) = NsName(Cmd(p).i)
         /\ Cmd(p).op \in {"veth", "addr", "up"}
              => /\ Cmd(p).i \in 1..Len(Interfaces)
                 /\ NsOf(Cmd(p)) = Iface(p).ns
         /\ Cmd(p).op = "route"
              => /\ Cmd(p).i \in 1..Len(Routes)
                 /\ NsOf(Cmd(p)) = Routes[Cmd(p).i].ns
<1>1. pc[p] \in 1..Len(Plan)
  BY PlanType DEF TypeOK, InLoop, LoopLength
<1>2. Cmd(p) \in Instr
  BY <1>1, PlanType DEF Cmd
<1>3. Cmd(p).op \in Ops /\ Cmd(p).i \in Nat
  BY <1>2 DEF Instr
<1>4. /\ Cmd(p).op \in {"create", "loopback", "forwarding"}
           => Cmd(p).i \in 1..Len(Namespaces)
      /\ Cmd(p).op \in {"veth", "addr", "up"}
           => Cmd(p).i \in 1..Len(Interfaces)
      /\ Cmd(p).op = "route" => Cmd(p).i \in 1..Len(Routes)
  BY <1>1, PlanType DEF Cmd
<1>5. /\ Cmd(p).op \in {"create", "loopback", "forwarding"}
           => NsOf(Cmd(p)) = NsName(Cmd(p).i)
      /\ Cmd(p).op \in {"veth", "addr", "up"} => NsOf(Cmd(p)) = Iface(p).ns
      /\ Cmd(p).op = "route" => NsOf(Cmd(p)) = Routes[Cmd(p).i].ns
  BY DEF NsOf, Iface
<1>6. NsOf(Cmd(p)) \in NsNames
  BY <1>3, <1>4, <1>5, ConfigFacts DEF Ops, ExecOps, Iface
<1> QED BY <1>1, <1>2, <1>4, <1>5, <1>6

\* Every command of the kernel keeps the network well typed.
LEMMA NetCommands ==
  ASSUME NEW m \in NetType, NEW n \in NsNames
  PROVE  /\ \A b \in BOOLEAN : NetnsAdd(m, n, b) \in NetType
         /\ NetnsDelete(m, n) \in NetType
         /\ LoUp(m, n) \in NetType
         /\ \A b \in BOOLEAN : SetForward(m, n, b) \in NetType
         /\ \A a \in IfNames : AddrAdd(m, <<n, a>>) \in NetType
         /\ \A a \in IfNames : LinkUp(m, <<n, a>>) \in NetType
         /\ \A a, b \in IfNames : LinkAdd(m, a, b) \in NetType
         /\ \A a \in IfNames : LinkMove(m, a, n) \in NetType
         /\ \A t, d \in STRING : RouteAdd(m, n, t, d) \in NetType
<1>1. \A b \in BOOLEAN : NetnsAdd(m, n, b) \in NetType
  BY DEF NetnsAdd, NetType
<1>2. NetnsDelete(m, n) \in NetType
  BY DEF NetnsDelete, SurvivingVeths, NetType
<1>3. LoUp(m, n) \in NetType /\ \A b \in BOOLEAN : SetForward(m, n, b) \in NetType
  BY DEF LoUp, SetForward, NetType
<1>4. \A a \in IfNames : AddrAdd(m, <<n, a>>) \in NetType /\ LinkUp(m, <<n, a>>) \in NetType
  BY DEF AddrAdd, LinkUp, NetType
<1>5. \A a, b \in IfNames : LinkAdd(m, a, b) \in NetType
  BY DEF LinkAdd, NetType, Locations
<1>6. ASSUME NEW a \in IfNames PROVE LinkMove(m, a, n) \in NetType
  <2>1. \A v \in m.veths : Moved(v, a, n) \in SUBSET (Locations \X IfNames)
    BY DEF Moved, NetType, Locations
  <2> QED BY <2>1 DEF LinkMove, NetType
<1>7. \A t, d \in STRING : RouteAdd(m, n, t, d) \in NetType
  BY DEF RouteAdd, NetType
<1> QED BY <1>1, <1>2, <1>3, <1>4, <1>5, <1>6, <1>7

-----------------------------------------------------------------------------
\* The three ways a step moves a process on: to the next command of the same
\* element, to the next element, or out of the call with an exception.

CacheType == [Proc -> SUBSET SUBSET (Locations \X IfNames)]
SeenType == [Proc -> SUBSET {"added", "deleted"}]

LEMMA LoopLengthNat == \A p \in Proc : LoopLength(p) \in Nat
BY PlanType, ConfigFacts DEF LoopLength

LEMMA ThenType ==
  ASSUME NEW p \in Proc, NEW s \in Subs, TypeOK, Then(p, s),
         net' \in NetType, cache' \in CacheType, seen' \in SeenType
  PROVE  TypeOK'
BY DEF TypeOK, Then, CacheType, SeenType, LoopLength, CallOf

LEMMA AdvanceType ==
  ASSUME NEW p \in Proc, TypeOK, Advance(p), pc[p] <= LoopLength(p),
         net' \in NetType, cache' \in CacheType, seen' \in SeenType
  PROVE  TypeOK'
<1>1. \A q \in Proc : LoopLength(q)' = LoopLength(q) /\ LoopLength(q) \in Nat
  BY LoopLengthNat DEF Advance, LoopLength, CallOf
<1>2. pc' \in [Proc -> Nat]
      /\ \A q \in Proc : pc'[q] \in 1..(LoopLength(q) + 1)
  BY <1>1 DEF TypeOK, Advance
<1>3. sub' \in [Proc -> Subs]
  BY DEF TypeOK, Advance, Subs
<1> QED BY <1>1, <1>2, <1>3 DEF TypeOK, Advance, CacheType, SeenType

LEMMA RaiseType ==
  ASSUME NEW p \in Proc, NEW e \in Exceptions, TypeOK, Raise(p, e),
         faults' \in 0..MaxFaults
  PROVE  TypeOK'
<1>1. \A q \in Proc : LoopLength(q)' = LoopLength(q)
  BY DEF Raise, LoopLength, CallOf
<1> QED BY <1>1 DEF TypeOK, Raise

LEMMA RunCmdRaisesType ==
  ASSUME NEW p \in Proc, TypeOK, RunCmdRaises(p), faults' \in 0..MaxFaults
  PROVE  TypeOK'
BY RaiseType DEF RunCmdRaises, RunCmdError, Exceptions

LEMMA NoteType == ASSUME NEW e \in {"added", "deleted"}, TypeOK, Note(e)
                  PROVE  seen' \in SeenType
BY DEF Note, TypeOK, SeenType

\* The tail of every action run in a namespace.
LEMMA ExecuteType ==
  ASSUME NEW p \in Proc, NEW op \in ExecOps, NEW possible, NEW result \in NetType,
         TypeOK, Execute(p, op, possible, result)
  PROVE  TypeOK'
<1>1. CASE NsOf(Cmd(p)) \in net.netns /\ possible
  BY <1>1, AdvanceType DEF Execute, At, InLoop, TypeOK, CacheType, SeenType
<1>2. CASE ~(NsOf(Cmd(p)) \in net.netns /\ possible)
  BY <1>2, RunCmdRaisesType DEF Execute, TypeOK
<1> QED BY <1>1, <1>2

LEMMA BuildStepType ==
  ASSUME NEW p \in Proc, TypeOK, BuildStep(p)
  PROVE  TypeOK'
<1> DEFINE n == NsOf(Cmd(p))
<1>0. InLoop(p, "build") /\ n \in NsNames
  BY CmdFacts DEF BuildStep, CreateCheck, CreateAct, AddrSkip, ExecCheck, Execute,
     LoopbackAct, ForwardingAct, AddrAct, UpAct, RouteAct, VethSkip, VethAdd,
     VethMove1, VethMove2, At
<1>a. pc[p] <= LoopLength(p)
  BY <1>0 DEF InLoop
<1>b. /\ net \in NetType /\ cache \in CacheType /\ seen \in SeenType
      /\ faults \in 0..MaxFaults
  BY DEF TypeOK, CacheType, SeenType
<1>c. /\ Cmd(p).op \in {"veth", "addr", "up"}
           => /\ Iface(p).name \in IfNames /\ Iface(p).peerName \in IfNames
              /\ Iface(p).ns = n /\ Iface(p).peerNs \in NsNames
      /\ Cmd(p).op = "route" => /\ Routes[Cmd(p).i].ns = n
                                /\ Routes[Cmd(p).i].target \in STRING
                               /\ Routes[Cmd(p).i].dev \in STRING
      /\ Cmd(p).op = "forwarding" => Namespaces[Cmd(p).i].forwarding \in BOOLEAN
  BY <1>0, CmdFacts, ConfigFacts DEF Iface
<1> HIDE DEF n
<1>1. CASE CreateCheck(p)
  BY <1>1, <1>b, ThenType, RaiseType DEF CreateCheck, Subs, Exceptions
<1>2. CASE CreateAct(p)
  <2>1. CASE CanNetnsAdd(net, n)
    <3>1. net' \in NetType
      BY <1>2, <2>1, <1>0, <1>b, NetCommands DEF CreateAct, n
    <3> QED BY <1>2, <2>1, <3>1, <1>a, <1>b, AdvanceType, NoteType DEF CreateAct, n
  <2>2. CASE ~CanNetnsAdd(net, n)
    BY <1>2, <2>2, <1>b, RunCmdRaisesType DEF CreateAct, n
  <2> QED BY <2>1, <2>2
<1>3. CASE AddrSkip(p)
  BY <1>3, <1>a, <1>b, AdvanceType DEF AddrSkip
<1>4. CASE ExecCheck(p)
  BY <1>4, <1>b, ThenType, RaiseType DEF ExecCheck, Subs, Exceptions
<1>5. CASE LoopbackAct(p)
  BY <1>5, <1>0, <1>b, ExecuteType, NetCommands DEF LoopbackAct, ExecOps, n
<1>6. CASE ForwardingAct(p)
  <2>1. SetForward(net, n, Namespaces[Cmd(p).i].forwarding) \in NetType
    BY <1>6, <1>0, <1>b, <1>c, NetCommands DEF ForwardingAct, Execute, At, Cmd
  <2> QED BY <1>6, <2>1, ExecuteType DEF ForwardingAct, ExecOps, n
<1>7. CASE AddrAct(p)
  <2>1. AddrAdd(net, End1(Iface(p))) \in NetType
    BY <1>7, <1>0, <1>b, <1>c, NetCommands DEF AddrAct, Execute, At, Cmd, End1
  <2> QED BY <1>7, <2>1, ExecuteType DEF AddrAct, ExecOps
<1>8. CASE UpAct(p)
  <2>1. LinkUp(net, End1(Iface(p))) \in NetType
    BY <1>8, <1>0, <1>b, <1>c, NetCommands DEF UpAct, Execute, At, Cmd, End1
  <2> QED BY <1>8, <2>1, ExecuteType DEF UpAct, ExecOps
<1>9. CASE RouteAct(p)
  <2> DEFINE r == Routes[Cmd(p).i]
  <2>1. RouteAdd(net, r.ns, r.target, r.dev) \in NetType
    BY <1>9, <1>0, <1>b, <1>c, NetCommands DEF RouteAct, Execute, At, Cmd
  <2> QED BY <1>9, <2>1, ExecuteType DEF RouteAct, ExecOps
<1>10. CASE VethSkip(p)
  BY <1>10, <1>a, <1>b, AdvanceType DEF VethSkip
<1>11. CASE VethAdd(p)
  <2>1. LinkAdd(net, Iface(p).name, Iface(p).peerName) \in NetType
    BY <1>11, <1>0, <1>b, <1>c, NetCommands DEF VethAdd, At, Cmd
  <2> QED BY <1>11, <2>1, <1>b, ThenType, RaiseType DEF VethAdd, Subs, Exceptions
<1>12. CASE VethMove1(p)
  <2>1. LinkMove(net, Iface(p).name, Iface(p).ns) \in NetType
    BY <1>12, <1>0, <1>b, <1>c, NetCommands DEF VethMove1, At, Cmd
  <2> QED BY <1>12, <2>1, <1>b, ThenType, RaiseType DEF VethMove1, Subs, Exceptions
<1>13. CASE VethMove2(p)
  <2>0. Cmd(p).op = "veth"
    BY <1>13 DEF VethMove2, At, Cmd
  <2>1. LinkMove(net, Iface(p).peerName, Iface(p).peerNs) \in NetType
    BY <2>0, <1>b, <1>c, NetCommands
  <2>2. Pair(Iface(p)) \in SUBSET (Locations \X IfNames)
    BY <2>0, <1>0, <1>c DEF Pair, End1, End2, Locations
  <2>3. [cache EXCEPT ![p] = @ \union {Pair(Iface(p))}] \in CacheType
    BY <2>2, <1>b DEF CacheType
  <2> QED BY <1>13, <2>1, <2>3, <1>a, <1>b, AdvanceType, RaiseType
          DEF VethMove2, Exceptions
<1> QED BY <1>1, <1>2, <1>3, <1>4, <1>5, <1>6, <1>7, <1>8, <1>9, <1>10, <1>11,
           <1>12, <1>13 DEF BuildStep

LEMMA OtherStepType ==
  ASSUME NEW p \in Proc, TypeOK,
         \/ Start(p) \/ TeardownStep(p) \/ Return(p)
         \/ CommandFails(p) \/ Kill(p)
  PROVE  TypeOK'
<1>b. /\ net \in NetType /\ cache \in CacheType /\ seen \in SeenType
      /\ faults \in 0..MaxFaults /\ faults \in Nat /\ MaxFaults \in Nat
  BY ProcAssumption DEF TypeOK, CacheType, SeenType, ProcAssumption
<1>c. \A q \in Proc : LoopLength(q) \in Nat
  BY LoopLengthNat
<1>1. CASE Start(p)
  BY <1>1 DEF Start, TypeOK, LoopLength, CallOf
<1>2. CASE DeleteCheck(p)
  BY <1>2, <1>b, ThenType, AdvanceType DEF DeleteCheck, InLoop, Subs
<1>3. CASE DeleteAct(p)
  <2>1. CASE CanNetnsDelete(net, NsName(pc[p]))
    <3>1. pc[p] \in 1..Len(Namespaces) /\ pc[p] <= LoopLength(p)
      BY <1>3, ConfigFacts DEF DeleteAct, InLoop, LoopLength, TypeOK
    <3>2. net' \in NetType
      BY <1>3, <2>1, <3>1, <1>b, ConfigFacts, NetCommands DEF DeleteAct
    <3> QED BY <1>3, <2>1, <3>1, <3>2, <1>b, AdvanceType, NoteType DEF DeleteAct
  <2>2. CASE ~CanNetnsDelete(net, NsName(pc[p]))
    BY <1>3, <2>2, <1>b, RunCmdRaisesType DEF DeleteAct
  <2> QED BY <2>1, <2>2
<1>4. CASE Return(p)
  <2>1. CASE call[p] < Len(Script[p])
    <3>a. /\ call' = [call EXCEPT ![p] = @ + 1]
          /\ pc' = [pc EXCEPT ![p] = 1]
      BY <1>4, <2>1 DEF Return
    <3>b. \A q \in Proc : Len(Script[q]) \in Nat
      BY ProcAssumption DEF ProcAssumption
    <3>c. call \in [Proc -> Nat] /\ \A q \in Proc : call[q] \in 1..Len(Script[q])
      BY DEF TypeOK
    <3>1. call' = [call EXCEPT ![p] = @ + 1] /\ call' \in [Proc -> Nat]
          /\ \A q \in Proc : call'[q] \in 1..Len(Script[q])
      BY <3>a, <3>b, <3>c, <2>1
    <3>d. pc \in [Proc -> Nat]
      BY DEF TypeOK
    <3>e. Len(Plan) \in Nat /\ Len(Namespaces) \in Nat
      BY PlanType, ConfigFacts
    <3>2. pc' = [pc EXCEPT ![p] = 1] /\ pc' \in [Proc -> Nat]
          /\ \A q \in Proc : LoopLength(q)' \in Nat
      BY <3>a, <3>d, <3>e DEF LoopLength
    <3>3. \A q \in Proc \ {p} : LoopLength(q)' = LoopLength(q)
      BY <3>1 DEF LoopLength, CallOf, TypeOK
    <3>4. \A q \in Proc : pc'[q] \in 1..(LoopLength(q)' + 1)
      BY <3>2, <3>3 DEF TypeOK
    <3> QED BY <1>4, <2>1, <3>1, <3>2, <3>4 DEF Return, TypeOK, Subs
  <2>2. CASE ~(call[p] < Len(Script[p]))
    BY <1>4, <2>2 DEF Return, TypeOK, LoopLength, CallOf
  <2> QED BY <2>1, <2>2
<1>5. CASE CommandFails(p)
  <2>1. faults' \in 0..MaxFaults
    BY <1>5, <1>b DEF CommandFails
  <2>2. CASE RunCmdRaises(p)
    BY <2>1, <2>2, RunCmdRaisesType
  <2>3. CASE Raise(p, "CommandExecutionError")
    BY <2>1, <2>3, RaiseType DEF Exceptions
  <2> QED BY <1>5, <2>2, <2>3 DEF CommandFails
<1>6. CASE Kill(p)
  BY <1>6 DEF Kill, TypeOK, LoopLength, CallOf
<1> QED BY <1>1, <1>2, <1>3, <1>4, <1>5, <1>6 DEF TeardownStep

LEMMA TypeInit == ASSUME Init PROVE TypeOK
<1>1. net \in NetType
  BY DEF Init, EmptyNet, NetType
<1>2. \A p \in Proc : LoopLength(p) \in Nat /\ Len(Script[p]) >= 1
  BY LoopLengthNat, ProcAssumption DEF ProcAssumption
<1>3. 0 \in 0..MaxFaults
  BY ProcAssumption DEF ProcAssumption
<1> QED BY <1>1, <1>2, <1>3 DEF Init, TypeOK, Subs, Exceptions

\* Type correctness of the builder for every configuration the loader accepts
\* and any number of processes.
THEOREM TypeCorrect == Spec => []TypeOK
<1>1. Init => TypeOK
  BY TypeInit
<1>2. TypeOK /\ [Next]_vars => TypeOK'
  <2> SUFFICES ASSUME TypeOK, [Next]_vars PROVE TypeOK'
    OBVIOUS
  <2>1. CASE UNCHANGED vars
    BY <2>1 DEF vars, TypeOK, LoopLength, CallOf
  <2>2. CASE Next
    BY <2>2, BuildStepType, OtherStepType DEF Next, Step
  <2> QED BY <2>1, <2>2
<1> QED BY <1>1, <1>2, PTL DEF Spec

-----------------------------------------------------------------------------
(***************************************************************************)
(* BuildConforms.  While nothing is deleted the network only grows, so     *)
(* what the commands before pc[p] have done is still there (Applied); the  *)
(* pair p is moving into place is where p's last command left it, or       *)
(* further (LinkInProgress); and every pair in the cache is whole          *)
(* (CacheReal), so the early return of create_veth_pair is sound.          *)
(*                                                                         *)
(* One hypothesis on the configuration goes beyond what the loader checks: *)
(* no two links use one interface name in two namespaces.  The loader      *)
(* compares the names of declared interfaces only, never peer_name.        *)
(***************************************************************************)
IsLink(i) == i \in 1..Len(Interfaces) /\ Interfaces[i].veth

LinkEnds == UNION {Pair(Interfaces[i]) : i \in {j \in 1..Len(Interfaces) : IsLink(j)}}

OneHome == \A d, e \in LinkEnds : d[2] = e[2] => d = e

Undisturbed(p) ==
  CallOf(p) = "build" /\ FirstBuild(p) /\ "deleted" \notin seen[p]

Whole(v) == \A d \in v : d[1] # Host

Done(m, cmd) ==
  Effect(m, cmd) /\ (cmd.op = "forwarding" => NsName(cmd.i) \in m.netns)

Applied ==
  \A p \in Proc : Undisturbed(p) =>
    \A k \in 1..(pc[p] - 1) : Done(net, Plan[k])

Ends(f, la, lb) == {<<la, f.name>>, <<lb, f.peerName>>}

MovesLinks ==
  \A p \in Proc :
    CallOf(p) = "build" /\ pc[p] <= Len(Plan) /\ sub[p] \in {"move1", "move2"}
    => Cmd(p).op = "veth" /\ Iface(p).veth

LinkInProgress ==
  \A p \in Proc :
    Undisturbed(p) /\ pc[p] <= Len(Plan) /\ sub[p] \in {"move1", "move2"}
    => \E la \in {Host, Iface(p).ns}, lb \in {Host, Iface(p).peerNs} :
         /\ Ends(Iface(p), la, lb) \in net.veths
         /\ sub[p] = "move2" => la = Iface(p).ns

CacheReal ==
  \A p \in Proc :
    /\ Undisturbed(p) =>
         \A v \in cache[p] : v \in net.veths /\ Whole(v)
    /\ FirstBuild(p) /\ CallOf(p) # "build" => cache[p] = {}

NewFresh ==
  \A p \in Proc : status[p] = "new" =>
    pc[p] = 1 /\ sub[p] = "check" /\ cache[p] = {}

BuildInv ==
  TypeOK /\ Applied /\ MovesLinks /\ LinkInProgress /\ CacheReal /\ NewFresh

\* What every command of build() leaves true of the network.
Grows(m, w) ==
  /\ m.netns \subseteq w.netns /\ m.lo \subseteq w.lo
  /\ m.addrs \subseteq w.addrs /\ m.ups \subseteq w.ups
  /\ m.routes \subseteq w.routes
  /\ \A i \in 1..Len(Namespaces) :
       NsName(i) \in m.netns =>
         \/ (NsName(i) \in w.fwd) <=> (NsName(i) \in m.fwd)
         \/ (NsName(i) \in w.fwd) <=> Namespaces[i].forwarding
  /\ \A v \in m.veths : Whole(v) => v \in w.veths

LEMMA PairWhole ==
  \A i \in 1..Len(Interfaces) : Whole(Pair(Interfaces[i]))
<1>1. Host \notin NsNames
  BY ConfigAssumption DEF ConfigAssumption
<1> QED BY <1>1, ConfigFacts DEF Whole, Pair, End1, End2

LEMMA EffectStable ==
  ASSUME NEW m, NEW w, Grows(m, w), NEW k \in 1..Len(Plan), Done(m, Plan[k])
  PROVE  Done(w, Plan[k])
<1> DEFINE c == Plan[k]
           f == Interfaces[c.i]
           r == Routes[c.i]
<1>1. c.op \in Ops
  <2>1. c \in Instr
    BY PlanType
  <2> QED BY <2>1 DEF Instr
<1>2. /\ c.op \in {"create", "loopback", "forwarding"} => c.i \in 1..Len(Namespaces)
      /\ c.op = "veth" => c.i \in 1..Len(Interfaces)
  BY PlanType
<1> HIDE DEF c
<1>3. CASE c.op = "create"
  BY <1>3 DEF Done, Effect, Grows, c
<1>4. CASE c.op = "loopback"
  BY <1>4 DEF Done, Effect, Grows, c
<1>5. CASE c.op = "forwarding"
  BY <1>5, <1>2 DEF Done, Effect, Grows, c
<1>6. CASE c.op = "veth"
  BY <1>6, <1>2, PairWhole DEF Done, Effect, Grows, c
<1>7. CASE c.op = "addr"
  BY <1>7 DEF Done, Effect, Grows, c
<1>8. CASE c.op = "up"
  BY <1>8 DEF Done, Effect, Grows, c
<1>9. CASE c.op = "route"
  BY <1>9 DEF Done, Effect, Grows, c
<1> QED BY <1>1, <1>3, <1>4, <1>5, <1>6, <1>7, <1>8, <1>9 DEF Ops, ExecOps

LEMMA MoveKeepsWhole ==
  ASSUME NEW v, NEW a, NEW n, Whole(v) PROVE Moved(v, a, n) = v
BY DEF Whole, Moved

\* Unless a namespace is deleted, a step lets the network grow.
LEMMA BuildStepGrows ==
  ASSUME NEW q \in Proc, TypeOK, BuildStep(q)
  PROVE  Grows(net, net')
<1> DEFINE n == NsOf(Cmd(q))
<1>0. InLoop(q, "build") /\ n \in NsNames
  BY CmdFacts DEF BuildStep, CreateCheck, CreateAct, AddrSkip, ExecCheck, Execute,
     LoopbackAct, ForwardingAct, AddrAct, UpAct, RouteAct, VethSkip, VethAdd,
     VethMove1, VethMove2, At
<1>t. net \in NetType
  BY DEF TypeOK
<1>s. ASSUME net' = net PROVE Grows(net, net')
  BY <1>s DEF Grows
<1>1. CASE CreateCheck(q)
  BY <1>1, <1>s DEF CreateCheck, Raise
<1>2. CASE CreateAct(q)
  <2>1. ASSUME NEW b \in BOOLEAN, CanNetnsAdd(net, n), net' = NetnsAdd(net, n, b)
        PROVE  Grows(net, net')
    BY <2>1, <1>t DEF Grows, NetnsAdd, CanNetnsAdd, NetType
  <2> QED BY <1>2, <2>1, <1>s DEF CreateAct, RunCmdRaises, Raise
<1>3. CASE AddrSkip(q)
  BY <1>3, <1>s DEF AddrSkip
<1>4. CASE ExecCheck(q)
  BY <1>4, <1>s DEF ExecCheck, Raise
<1>5. CASE LoopbackAct(q)
  <2>1. Grows(net, LoUp(net, n))
    BY <1>t DEF Grows, LoUp, NetType
  <2> QED BY <1>5, <2>1, <1>s DEF LoopbackAct, Execute, RunCmdRaises, Raise
<1>6. CASE ForwardingAct(q)
  <2>1. /\ Cmd(q).i \in 1..Len(Namespaces) /\ n = NsName(Cmd(q).i)
        /\ Namespaces[Cmd(q).i].forwarding \in BOOLEAN
    BY <1>6, <1>0, CmdFacts, ConfigFacts DEF ForwardingAct, Execute, At, Cmd
  <2>2. \A i \in 1..Len(Namespaces) : NsName(i) = n => i = Cmd(q).i
    BY <2>1, ConfigAssumption DEF ConfigAssumption
  <2>3. Grows(net, SetForward(net, n, Namespaces[Cmd(q).i].forwarding))
    BY <2>1, <2>2, <1>t DEF Grows, SetForward, NetType
  <2> QED BY <1>6, <2>3, <1>s DEF ForwardingAct, Execute, RunCmdRaises, Raise
<1>7. CASE AddrAct(q)
  <2>1. Grows(net, AddrAdd(net, End1(Iface(q))))
    BY <1>t DEF Grows, AddrAdd, NetType
  <2> QED BY <1>7, <2>1, <1>s DEF AddrAct, Execute, RunCmdRaises, Raise
<1>8. CASE UpAct(q)
  <2>1. Grows(net, LinkUp(net, End1(Iface(q))))
    BY <1>t DEF Grows, LinkUp, NetType
  <2> QED BY <1>8, <2>1, <1>s DEF UpAct, Execute, RunCmdRaises, Raise
<1>9. CASE RouteAct(q)
  <2> DEFINE r == Routes[Cmd(q).i]
  <2>1. Grows(net, RouteAdd(net, r.ns, r.target, r.dev))
    BY <1>t DEF Grows, RouteAdd, NetType
  <2> QED BY <1>9, <2>1, <1>s DEF RouteAct, Execute, RunCmdRaises, Raise
<1>10. CASE VethSkip(q)
  BY <1>10, <1>s DEF VethSkip
<1>11. CASE VethAdd(q)
  <2>1. Grows(net, LinkAdd(net, Iface(q).name, Iface(q).peerName))
    BY <1>t DEF Grows, LinkAdd, NetType
  <2> QED BY <1>11, <2>1, <1>s DEF VethAdd, Raise
<1>m. ASSUME NEW a, NEW x PROVE Grows(net, LinkMove(net, a, x))
  <2> DEFINE w == LinkMove(net, a, x)
  <2>1. w.veths = {Moved(v, a, x) : v \in net.veths}
    BY <1>t DEF LinkMove, NetType
  <2>2. \A v \in net.veths : Whole(v) => v \in w.veths
    BY <2>1, MoveKeepsWhole
  <2>3. /\ w.netns = net.netns /\ w.lo = net.lo /\ w.fwd = net.fwd
        /\ w.addrs = net.addrs /\ w.ups = net.ups /\ w.routes = net.routes
    BY <1>t DEF LinkMove, NetType
  <2> QED BY <2>2, <2>3 DEF Grows
<1>12. CASE VethMove1(q)
  BY <1>12, <1>m, <1>s DEF VethMove1, Raise
<1>13. CASE VethMove2(q)
  BY <1>13, <1>m, <1>s DEF VethMove2, Raise
<1> QED BY <1>1, <1>2, <1>3, <1>4, <1>5, <1>6, <1>7, <1>8, <1>9, <1>10, <1>11,
           <1>12, <1>13 DEF BuildStep

\* A building process touches the links by adding one, or by moving a link
\* end into the namespace the configuration gives it.
LEMMA VethsStep ==
  ASSUME NEW q \in Proc, TypeOK, MovesLinks, BuildStep(q)
  PROVE  \/ net.veths \subseteq net'.veths
         \/ \E d \in LinkEnds : net' = LinkMove(net, d[2], d[1])
<1>t. net \in NetType
  BY DEF TypeOK
<1>1. CASE VethMove1(q) \/ VethMove2(q)
  <2>0. /\ InLoop(q, "build") /\ CallOf(q) = "build" /\ pc[q] <= Len(Plan)
        /\ sub[q] \in {"move1", "move2"}
    BY <1>1 DEF VethMove1, VethMove2, At, InLoop, LoopLength
  <2>1. Cmd(q).op = "veth" /\ Iface(q).veth /\ Cmd(q).i \in 1..Len(Interfaces)
    BY <2>0, CmdFacts DEF MovesLinks
  <2>2. End1(Iface(q)) \in LinkEnds /\ End2(Iface(q)) \in LinkEnds
    BY <2>1 DEF LinkEnds, IsLink, Pair, Iface
  <2> DEFINE d1 == End1(Iface(q))
             d2 == End2(Iface(q))
  <2>3. /\ d1[1] = Iface(q).ns /\ d1[2] = Iface(q).name
        /\ d2[1] = Iface(q).peerNs /\ d2[2] = Iface(q).peerName
    BY DEF End1, End2
  <2>4. \/ net' = net \/ net' = LinkMove(net, d1[2], d1[1])
        \/ net' = LinkMove(net, d2[2], d2[1])
    BY <1>1, <2>3 DEF VethMove1, VethMove2, Raise
  <2> QED BY <2>2, <2>4
<1>2. CASE VethAdd(q)
  <2>1. net.veths \subseteq LinkAdd(net, Iface(q).name, Iface(q).peerName).veths
    BY <1>t DEF LinkAdd, NetType
  <2> QED BY <1>2, <2>1 DEF VethAdd, Raise
<1>3. CASE CreateAct(q)
  <2>1. \A n, b : NetnsAdd(net, n, b).veths = net.veths
    BY <1>t DEF NetnsAdd, NetType
  <2> QED BY <1>3, <2>1 DEF CreateAct, RunCmdRaises, Raise
<1>4. CASE \/ CreateCheck(q) \/ AddrSkip(q) \/ ExecCheck(q) \/ VethSkip(q)
  BY <1>4 DEF CreateCheck, AddrSkip, ExecCheck, VethSkip, Raise
<1>5. CASE LoopbackAct(q)
  <2>1. \A n : LoUp(net, n).veths = net.veths
    BY <1>t DEF LoUp, NetType
  <2> QED BY <1>5, <2>1 DEF LoopbackAct, Execute, RunCmdRaises, Raise
<1>6. CASE ForwardingAct(q)
  <2>1. \A n, b : SetForward(net, n, b).veths = net.veths
    BY <1>t DEF SetForward, NetType
  <2> QED BY <1>6, <2>1 DEF ForwardingAct, Execute, RunCmdRaises, Raise
<1>7. CASE AddrAct(q)
  <2>1. \A d : AddrAdd(net, d).veths = net.veths
    BY <1>t DEF AddrAdd, NetType
  <2> QED BY <1>7, <2>1 DEF AddrAct, Execute, RunCmdRaises, Raise
<1>8. CASE UpAct(q)
  <2>1. \A d : LinkUp(net, d).veths = net.veths
    BY <1>t DEF LinkUp, NetType
  <2> QED BY <1>8, <2>1 DEF UpAct, Execute, RunCmdRaises, Raise
<1>9. CASE RouteAct(q)
  <2>1. \A n, t, d : RouteAdd(net, n, t, d).veths = net.veths
    BY <1>t DEF RouteAdd, NetType
  <2> QED BY <1>9, <2>1 DEF RouteAct, Execute, RunCmdRaises, Raise
<1> QED BY <1>1, <1>2, <1>3, <1>4, <1>5, <1>6, <1>7, <1>8, <1>9 DEF BuildStep

\* A pair on its way home stays on its way home.
LEMMA LinkStable ==
  ASSUME NEW q \in Proc, TypeOK, MovesLinks, OneHome, BuildStep(q),
         NEW i \in 1..Len(Interfaces), IsLink(i),
         NEW la \in {Host, Interfaces[i].ns},
         NEW lb \in {Host, Interfaces[i].peerNs},
         Ends(Interfaces[i], la, lb) \in net.veths
  PROVE  \E la2 \in {Host, Interfaces[i].ns}, lb2 \in {Host, Interfaces[i].peerNs} :
           /\ Ends(Interfaces[i], la2, lb2) \in net'.veths
           /\ la = Interfaces[i].ns => la2 = Interfaces[i].ns
<1> DEFINE f == Interfaces[i]
           a == f.name
           b == f.peerName
<1>0. Host \notin NsNames /\ f.ns \in NsNames /\ f.peerNs \in NsNames
  BY ConfigAssumption, ConfigFacts DEF ConfigAssumption
<1>1. CASE net.veths \subseteq net'.veths
  BY <1>1
<1>2. ASSUME NEW d \in LinkEnds, net' = LinkMove(net, d[2], d[1])
      PROVE  \E la2 \in {Host, f.ns}, lb2 \in {Host, f.peerNs} :
               /\ Ends(f, la2, lb2) \in net'.veths
               /\ la = f.ns => la2 = f.ns
  <2>1. <<f.ns, a>> \in LinkEnds /\ <<f.peerNs, b>> \in LinkEnds
    BY DEF LinkEnds, IsLink, Pair, End1, End2
  <2>2. d[2] = a => d[1] = f.ns
    BY <2>1, <1>2 DEF OneHome
  <2>3. d[2] = b => d[1] = f.peerNs
    BY <2>1, <1>2 DEF OneHome
  <2> DEFINE la2 == IF la = Host /\ d[2] = a THEN f.ns ELSE la
             lb2 == IF lb = Host /\ d[2] = b THEN f.peerNs ELSE lb
  <2>4. Moved(Ends(f, la, lb), d[2], d[1]) = Ends(f, la2, lb2)
    <3>1. (IF <<la, a>> = <<Host, d[2]>> THEN <<d[1], d[2]>> ELSE <<la, a>>) = <<la2, a>>
      BY <2>2
    <3>2. (IF <<lb, b>> = <<Host, d[2]>> THEN <<d[1], d[2]>> ELSE <<lb, b>>) = <<lb2, b>>
      BY <2>3
    <3> QED BY <3>1, <3>2 DEF Moved, Ends
  <2>5. Moved(Ends(f, la, lb), d[2], d[1]) \in net'.veths
    <3>1. net'.veths = {Moved(v, d[2], d[1]) : v \in net.veths}
      BY <1>2 DEF LinkMove, TypeOK, NetType
    <3> QED BY <3>1
  <2>6. la2 \in {Host, f.ns} /\ lb2 \in {Host, f.peerNs}
    OBVIOUS
  <2>7. la = f.ns => la2 = f.ns
    BY <1>0
  <2> HIDE DEF la2, lb2
  <2> QED BY <2>4, <2>5, <2>6, <2>7
<1> QED BY <1>1, <1>2, VethsStep

\* An element's last command, if it succeeded, has the element's effect.
LEMMA AdvanceDone ==
  ASSUME NEW q \in Proc, BuildInv, BuildStep(q), Undisturbed(q), Advance(q)
  PROVE  Done(net', Cmd(q))
<1>t. net \in NetType /\ pc \in [Proc -> Nat]
  BY DEF BuildInv, TypeOK
<1>a. ASSUME RunCmdRaises(q) \/ (\E e : Raise(q, e)) PROVE FALSE
  BY <1>a, <1>t DEF RunCmdRaises, Raise, Advance
<1>b. ASSUME NEW s, Then(q, s) PROVE FALSE
  BY <1>b, <1>t DEF Then, Advance
<1>0. InLoop(q, "build") /\ pc[q] <= Len(Plan) /\ CallOf(q) = "build"
  BY DEF Undisturbed, BuildStep, CreateCheck, CreateAct, AddrSkip, ExecCheck, Execute,
     LoopbackAct, ForwardingAct, AddrAct, UpAct, RouteAct, VethSkip, VethAdd,
     VethMove1, VethMove2, At, InLoop, LoopLength
<1>c. /\ Cmd(q).op \in {"create", "loopback", "forwarding"}
           => NsOf(Cmd(q)) = NsName(Cmd(q).i)
      /\ Cmd(q).op = "forwarding" => Namespaces[Cmd(q).i].forwarding \in BOOLEAN
      /\ Cmd(q).op = "veth" => /\ Cmd(q).i \in 1..Len(Interfaces)
                               /\ Iface(q).ns \in NsNames /\ Iface(q).peerNs \in NsNames
  BY <1>0, CmdFacts, ConfigFacts DEF BuildInv, Iface
<1>1. CASE CreateCheck(q) \/ ExecCheck(q) \/ VethAdd(q) \/ VethMove1(q)
  BY <1>1, <1>a, <1>b DEF CreateCheck, ExecCheck, VethAdd, VethMove1
<1>2. CASE CreateAct(q)
  <2>1. \A b \in BOOLEAN : NsOf(Cmd(q)) \in NetnsAdd(net, NsOf(Cmd(q)), b).netns
    BY <1>t DEF NetnsAdd, NetType
  <2>2. NsOf(Cmd(q)) \in net'.netns
    BY <1>2, <2>1, <1>a DEF CreateAct
  <2> QED BY <1>2, <2>2, <1>c DEF CreateAct, At, Cmd, Done, Effect
<1>3. CASE LoopbackAct(q)
  <2>1. NsOf(Cmd(q)) \in LoUp(net, NsOf(Cmd(q))).lo
    BY <1>t DEF LoUp, NetType
  <2>2. NsOf(Cmd(q)) \in net'.lo
    BY <1>3, <2>1, <1>a DEF LoopbackAct, Execute
  <2> QED BY <1>3, <2>2, <1>c DEF LoopbackAct, Execute, At, Cmd, Done, Effect
<1>4. CASE ForwardingAct(q)
  <2> DEFINE n == NsOf(Cmd(q))
             on == Namespaces[Cmd(q).i].forwarding
  <2>0. on \in BOOLEAN
    BY <1>4, <1>c DEF ForwardingAct, Execute, At, Cmd
  <2>1. /\ n \in SetForward(net, n, on).fwd <=> on
        /\ SetForward(net, n, on).netns = net.netns
    BY <1>t, <2>0 DEF SetForward, NetType
  <2>2. net' = SetForward(net, n, on) /\ n \in net.netns
    BY <1>4, <1>a DEF ForwardingAct, Execute
  <2>3. (n \in net'.fwd <=> on) /\ n \in net'.netns
    BY <2>1, <2>2
  <2> QED BY <1>4, <2>3, <1>c DEF ForwardingAct, Execute, At, Cmd, Done, Effect
<1>5. CASE AddrSkip(q)
  BY <1>5 DEF AddrSkip, At, Cmd, Iface, Done, Effect
<1>6. CASE AddrAct(q)
  <2>1. End1(Iface(q)) \in AddrAdd(net, End1(Iface(q))).addrs
    BY <1>t DEF AddrAdd, NetType
  <2>2. End1(Iface(q)) \in net'.addrs
    BY <1>6, <2>1, <1>a DEF AddrAct, Execute
  <2> QED BY <1>6, <2>2 DEF AddrAct, Execute, At, Cmd, Iface, Done, Effect
<1>7. CASE UpAct(q)
  <2>1. End1(Iface(q)) \in LinkUp(net, End1(Iface(q))).ups
    BY <1>t DEF LinkUp, NetType
  <2>2. End1(Iface(q)) \in net'.ups
    BY <1>7, <2>1, <1>a DEF UpAct, Execute
  <2> QED BY <1>7, <2>2 DEF UpAct, Execute, At, Cmd, Iface, Done, Effect
<1>8. CASE RouteAct(q)
  <2> DEFINE r == Routes[Cmd(q).i]
  <2>1. <<r.ns, r.target, r.dev>> \in RouteAdd(net, r.ns, r.target, r.dev).routes
    BY <1>t DEF RouteAdd, NetType
  <2>2. <<r.ns, r.target, r.dev>> \in net'.routes
    BY <1>8, <2>1, <1>a DEF RouteAct, Execute
  <2> QED BY <1>8, <2>2 DEF RouteAct, Execute, At, Cmd, Done, Effect
<1>9. CASE VethSkip(q)
  BY <1>9 DEF VethSkip, At, Cmd, Iface, Done, Effect, BuildInv, CacheReal
<1>10. CASE VethMove2(q)
  <2> DEFINE f == Iface(q)
  <2>0. Cmd(q).op = "veth" /\ f.veth /\ sub[q] = "move2"
    BY <1>10, <1>0 DEF VethMove2, At, Cmd, BuildInv, MovesLinks
  <2>1. PICK lb \in {Host, f.peerNs} : Ends(f, f.ns, lb) \in net.veths
    BY <2>0, <1>0 DEF BuildInv, LinkInProgress
  <2>2. /\ CanLinkMove(net, f.peerName, f.peerNs)
        /\ net' = LinkMove(net, f.peerName, f.peerNs)
    BY <1>10, <1>a DEF VethMove2
  <2>3. lb = Host
    <3>1. <<lb, f.peerName>> \in Devices(net)
      BY <2>1 DEF Devices, Ends
    <3> QED BY <3>1, <2>2 DEF CanLinkMove
  <2>4. f.ns # Host
    BY <2>0, <1>c, ConfigAssumption DEF ConfigAssumption
  <2>5. Moved(Ends(f, f.ns, lb), f.peerName, f.peerNs) = Pair(f)
    BY <2>3, <2>4 DEF Moved, Ends, Pair, End1, End2
  <2>6. net'.veths = {Moved(v, f.peerName, f.peerNs) : v \in net.veths}
    BY <2>2, <1>t DEF LinkMove, NetType
  <2>7. Pair(f) \in net'.veths
    BY <2>1, <2>5, <2>6
  <2> QED BY <2>0, <2>7 DEF Iface, Done, Effect
<1> QED BY <1>1, <1>2, <1>3, <1>4, <1>5, <1>6, <1>7, <1>8, <1>9, <1>10 DEF BuildStep

\* A step that leaves network, positions and caches alone, and disturbs no one.
LEMMA IdleStep ==
  ASSUME BuildInv, UNCHANGED <<net, call, pc, sub, cache>>,
         \A p \in Proc : Undisturbed(p)' => Undisturbed(p),
         \A p \in Proc : status'[p] = "new" => status[p] = "new",
         TypeOK'
  PROVE  BuildInv'
<1>1. Applied'
  BY DEF BuildInv, Applied
<1>2. MovesLinks'
  BY DEF BuildInv, MovesLinks, CallOf, Cmd, Iface
<1>3. LinkInProgress'
  BY DEF BuildInv, LinkInProgress, Cmd, Iface
<1>4. CacheReal'
  BY DEF BuildInv, CacheReal, FirstBuild, CallOf
<1>5. NewFresh'
  BY DEF BuildInv, NewFresh
<1> QED BY <1>1, <1>2, <1>3, <1>4, <1>5 DEF BuildInv

\* How a step of build() leaves the process that takes it.
LEMMA BuildStepControl ==
  ASSUME NEW q \in Proc, TypeOK, BuildStep(q)
  PROVE  /\ InLoop(q, "build") /\ pc[q] \in 1..Len(Plan) /\ CallOf(q) = "build"
         /\ call' = call
         /\ \A p \in Proc \ {q} : /\ pc'[p] = pc[p] /\ sub'[p] = sub[p]
                                  /\ cache'[p] = cache[p] /\ status'[p] = status[p]
         /\ \A p \in Proc : "deleted" \in seen[p] => "deleted" \in seen'[p]
         /\ \/ Advance(q)
            \/ pc' = pc /\ sub' = sub
            \/ pc' = pc /\ sub' = [sub EXCEPT ![q] = "act"]
            \/ pc' = pc /\ VethAdd(q) /\ Then(q, "move1")
            \/ pc' = pc /\ VethMove1(q) /\ Then(q, "move2")
         /\ \/ cache' = cache
            \/ /\ VethMove2(q) /\ Advance(q)
               /\ cache' = [cache EXCEPT ![q] = @ \union {Pair(Iface(q))}]
         /\ status'[q] # "new"
<1>0. InLoop(q, "build") /\ pc[q] \in 1..Len(Plan) /\ CallOf(q) = "build"
  <2>1. InLoop(q, "build")
    BY DEF BuildStep, CreateCheck, CreateAct, AddrSkip, ExecCheck, Execute,
       LoopbackAct, ForwardingAct, AddrAct, UpAct, RouteAct, VethSkip, VethAdd,
       VethMove1, VethMove2, At
  <2> QED BY <2>1, CmdFacts DEF InLoop
<1>t. /\ pc \in [Proc -> Nat] /\ sub \in [Proc -> Subs]
      /\ cache \in [Proc -> SUBSET SUBSET (Locations \X IfNames)]
      /\ seen \in [Proc -> SUBSET {"added", "deleted"}]
      /\ status \in [Proc -> {"new", "running", "done", "failed", "killed"}]
      /\ status[q] = "running"
  BY <1>0 DEF TypeOK, InLoop
<1> DEFINE Left == \/ RunCmdRaises(q) \/ \E e : Raise(q, e)
           Ahead == Advance(q) /\ seen' \in {seen, [p \in Proc |-> seen[p] \union {"added"}]}
           Kept == cache' = cache
<1>1. \/ Left
      \/ Ahead /\ Kept
      \/ Then(q, "act") /\ Kept /\ seen' = seen
      \/ VethAdd(q) /\ Then(q, "move1") /\ Kept /\ seen' = seen
      \/ VethMove1(q) /\ Then(q, "move2") /\ Kept /\ seen' = seen
      \/ VethMove2(q) /\ Ahead /\ cache' = [cache EXCEPT ![q] = @ \union {Pair(Iface(q))}]
  BY DEF BuildStep, CreateCheck, CreateAct, AddrSkip, ExecCheck, Execute,
     LoopbackAct, ForwardingAct, AddrAct, UpAct, RouteAct, VethSkip, VethAdd,
     VethMove1, VethMove2, Note
<1>2. CASE Left
  <2>1. PICK e : Raise(q, e)
    BY <1>2 DEF RunCmdRaises
  <2> QED BY <2>1, <1>0, <1>t DEF Raise
<1>3. CASE Ahead /\ Kept
  BY <1>3, <1>0, <1>t DEF Advance
<1>4. CASE Then(q, "act") /\ Kept /\ seen' = seen
  BY <1>4, <1>0, <1>t DEF Then
<1>5. CASE VethAdd(q) /\ Then(q, "move1") /\ Kept /\ seen' = seen
  BY <1>5, <1>0, <1>t DEF Then
<1>6. CASE VethMove1(q) /\ Then(q, "move2") /\ Kept /\ seen' = seen
  BY <1>6, <1>0, <1>t DEF Then
<1>7. CASE VethMove2(q) /\ Ahead /\ cache' = [cache EXCEPT ![q] = @ \union {Pair(Iface(q))}]
  BY <1>7, <1>0, <1>t DEF Advance
<1> QED BY <1>1, <1>2, <1>3, <1>4, <1>5, <1>6, <1>7

LEMMA BuildStepInv ==
  ASSUME NEW q \in Proc, OneHome, BuildInv, BuildStep(q)
  PROVE  BuildInv'
<1>0. TypeOK /\ TypeOK'
  BY BuildStepType DEF BuildInv
<1>g. Grows(net, net')
  BY <1>0, BuildStepGrows
<1>c. /\ pc[q] \in 1..Len(Plan) /\ CallOf(q) = "build"
      /\ call' = call
      /\ \A p \in Proc : "deleted" \in seen[p] => "deleted" \in seen'[p]
      /\ \A p \in Proc \ {q} : /\ pc'[p] = pc[p] /\ sub'[p] = sub[p]
                               /\ cache'[p] = cache[p] /\ status'[p] = status[p]
      /\ \/ Advance(q)
         \/ pc' = pc /\ sub' = sub
         \/ pc' = pc /\ sub' = [sub EXCEPT ![q] = "act"]
         \/ pc' = pc /\ VethAdd(q) /\ Then(q, "move1")
         \/ pc' = pc /\ VethMove1(q) /\ Then(q, "move2")
      /\ \/ cache' = cache
         \/ /\ VethMove2(q) /\ Advance(q)
            /\ cache' = [cache EXCEPT ![q] = @ \union {Pair(Iface(q))}]
      /\ status'[q] # "new"
  BY <1>0, BuildStepControl
<1>t. pc \in [Proc -> Nat] /\ sub \in [Proc -> Subs]
      /\ cache \in [Proc -> SUBSET SUBSET (Locations \X IfNames)]
  BY <1>0 DEF TypeOK
<1>l. Len(Plan) \in Nat
  BY PlanType
<1>1. Applied'
  <2> SUFFICES ASSUME NEW p \in Proc, Undisturbed(p)', NEW k \in 1..(pc'[p] - 1)
               PROVE  Done(net', Plan[k])
    BY DEF Applied
  <2>1. Undisturbed(p)
    BY <1>c DEF Undisturbed, CallOf, FirstBuild
  <2>2. pc[p] \in 1..(Len(Plan) + 1)
    BY <2>1, <1>0 DEF TypeOK, LoopLength, Undisturbed
  <2>3. CASE k \in 1..(pc[p] - 1)
    <3>1. Done(net, Plan[k]) /\ k \in 1..Len(Plan)
      BY <2>1, <2>2, <2>3, <1>l DEF BuildInv, Applied
    <3> QED BY <3>1, <1>g, EffectStable
  <2>4. CASE k \notin 1..(pc[p] - 1)
    <3>1. p = q /\ Advance(q) /\ k = pc[q]
      BY <2>4, <2>2, <1>c, <1>t DEF Advance
    <3> QED BY <3>1, <2>1, AdvanceDone DEF Cmd
  <2> QED BY <2>3, <2>4
<1>2. MovesLinks'
  <2> SUFFICES ASSUME NEW p \in Proc, CallOf(p)' = "build", pc'[p] <= Len(Plan),
                      sub'[p] \in {"move1", "move2"}
               PROVE  Cmd(p)'.op = "veth" /\ Iface(p)'.veth
    BY DEF MovesLinks
  <2>1. CASE pc'[p] = pc[p] /\ sub'[p] = sub[p]
    <3>1. CallOf(p) = "build"
      BY <1>c DEF CallOf
    <3>2. Cmd(p)' = Cmd(p) /\ Iface(p)' = Iface(p)
      BY <2>1 DEF Cmd, Iface
    <3> QED BY <2>1, <3>1, <3>2 DEF BuildInv, MovesLinks
  <2>2. CASE p = q /\ pc' = pc /\ (VethAdd(q) \/ VethMove1(q))
    <3>1. Cmd(q).op = "veth"
      BY <2>2 DEF VethAdd, VethMove1, At, Cmd
    <3>2. Iface(q).veth
      BY <2>2, <1>c DEF VethAdd, VethMove1, At, InLoop, LoopLength, BuildInv, MovesLinks
    <3> QED BY <2>2, <3>1, <3>2 DEF Cmd, Iface
  <2> QED BY <2>1, <2>2, <1>c, <1>t DEF Advance, Then
<1>3. LinkInProgress'
  <2> SUFFICES ASSUME NEW p \in Proc, Undisturbed(p)', pc'[p] <= Len(Plan),
                      sub'[p] \in {"move1", "move2"}
               PROVE  \E la \in {Host, Iface(p)'.ns}, lb \in {Host, Iface(p)'.peerNs} :
                        /\ Ends(Iface(p)', la, lb) \in net'.veths
                        /\ sub'[p] = "move2" => la = Iface(p)'.ns
    BY DEF LinkInProgress
  <2>1. Undisturbed(p) /\ CallOf(p) = "build"
    BY <1>c DEF Undisturbed, CallOf, FirstBuild
  <2>2. CASE pc'[p] = pc[p] /\ sub'[p] = sub[p]
    <3>1. Iface(p)' = Iface(p)
      BY <2>2 DEF Iface, Cmd
    <3>2. Cmd(p).op = "veth" /\ Iface(p).veth
      BY <2>1, <2>2 DEF BuildInv, MovesLinks
    <3>3. pc[p] \in 1..Len(Plan)
      BY <2>1, <2>2, <1>0, <1>l DEF TypeOK
    <3>4. Cmd(p).i \in 1..Len(Interfaces) /\ IsLink(Cmd(p).i)
      BY <3>2, <3>3, PlanType DEF Cmd, IsLink, Iface
    <3>5. PICK la \in {Host, Iface(p).ns}, lb \in {Host, Iface(p).peerNs} :
            /\ Ends(Iface(p), la, lb) \in net.veths
            /\ sub[p] = "move2" => la = Iface(p).ns
      BY <2>1, <2>2 DEF BuildInv, LinkInProgress
    <3>6. \E la2 \in {Host, Iface(p).ns}, lb2 \in {Host, Iface(p).peerNs} :
            /\ Ends(Iface(p), la2, lb2) \in net'.veths
            /\ la = Iface(p).ns => la2 = Iface(p).ns
      BY <3>4, <3>5, <1>0, LinkStable DEF Iface, BuildInv
    <3> QED BY <3>1, <3>5, <3>6, <2>2
  <2>3. CASE p = q /\ pc' = pc /\ VethAdd(q) /\ Then(q, "move1")
    <3>0. Iface(q)' = Iface(q) /\ sub'[q] = "move1"
      BY <2>3, <1>t DEF Iface, Cmd, Then
    <3>1. net' = LinkAdd(net, Iface(q).name, Iface(q).peerName)
      BY <2>3, <1>t, <3>0 DEF VethAdd, Raise, At
    <3>2. Ends(Iface(q), Host, Host) \in net'.veths
      BY <3>1, <1>0 DEF LinkAdd, Ends, TypeOK, NetType
    <3> QED BY <2>3, <3>0, <3>2
  <2>4. CASE p = q /\ pc' = pc /\ VethMove1(q) /\ Then(q, "move2")
    <3> DEFINE f == Iface(q)
    <3>0. Iface(q)' = f /\ sub[q] = "move1" /\ sub'[q] = "move2"
      BY <2>4, <1>t DEF Iface, Cmd, Then, VethMove1, At
    <3>1. CanLinkMove(net, f.name, f.ns) /\ net' = LinkMove(net, f.name, f.ns)
      BY <2>4, <1>t, <3>0 DEF VethMove1, Raise
    <3>2. f.veth /\ Cmd(q).i \in 1..Len(Interfaces) /\ IsLink(Cmd(q).i)
      BY <3>0, <2>1, <2>4, <1>c, PlanType DEF BuildInv, MovesLinks, Cmd, Iface, IsLink
    <3>3. PICK la \in {Host, f.ns}, lb \in {Host, f.peerNs} :
            Ends(f, la, lb) \in net.veths
      BY <3>0, <2>1, <2>4, <1>c DEF BuildInv, LinkInProgress
    <3>4. la = Host
      <4>1. <<la, f.name>> \in Devices(net)
        BY <3>3 DEF Devices, Ends
      <4> QED BY <4>1, <3>1 DEF CanLinkMove
    <3>5. f.ns # Host /\ f.peerNs # Host
      BY <3>2, ConfigFacts, ConfigAssumption DEF ConfigAssumption, Iface
    <3>6. f.peerName = f.name => f.peerNs = f.ns
      <4>1. <<f.ns, f.name>> \in LinkEnds /\ <<f.peerNs, f.peerName>> \in LinkEnds
        BY <3>2 DEF LinkEnds, Pair, End1, End2, Iface
      <4> QED BY <4>1 DEF OneHome
    <3> DEFINE lb2 == IF lb = Host /\ f.peerName = f.name THEN f.peerNs ELSE lb
    <3>7. Moved(Ends(f, la, lb), f.name, f.ns) = Ends(f, f.ns, lb2)
      <4>1. (IF <<lb, f.peerName>> = <<Host, f.name>> THEN <<f.ns, f.name>>
             ELSE <<lb, f.peerName>>) = <<lb2, f.peerName>>
        BY <3>6
      <4> QED BY <4>1, <3>4 DEF Moved, Ends
    <3>8. net'.veths = {Moved(v, f.name, f.ns) : v \in net.veths}
      BY <3>1, <1>0 DEF LinkMove, TypeOK, NetType
    <3>9. Ends(f, f.ns, lb2) \in net'.veths /\ lb2 \in {Host, f.peerNs}
      BY <3>3, <3>7, <3>8
    <3> QED BY <2>4, <3>0, <3>9
  <2> QED BY <2>2, <2>3, <2>4, <1>c, <1>t DEF Advance, Then
<1>4. CacheReal'
  <2>1. ASSUME NEW p \in Proc, Undisturbed(p)', NEW v \in cache'[p]
        PROVE  v \in net'.veths /\ Whole(v)
    <3>0. Undisturbed(p)
      BY <2>1, <1>c DEF Undisturbed, CallOf, FirstBuild
    <3>1. CASE v \in cache[p]
      BY <3>1, <3>0, <1>g DEF BuildInv, CacheReal, Grows
    <3>2. CASE v \notin cache[p]
      <4>1. p = q /\ VethMove2(q) /\ Advance(q) /\ v = Pair(Iface(q))
        BY <3>2, <2>1, <1>c, <1>t
      <4>2. Done(net', Cmd(q))
        BY <4>1, <3>0, AdvanceDone
      <4>3. Cmd(q).op = "veth" /\ Iface(q).veth /\ Cmd(q).i \in 1..Len(Interfaces)
        BY <4>1, <1>c, PlanType, SMTT(30)
         DEF VethMove2, At, Cmd, Iface, BuildInv, MovesLinks
      <4> QED BY <4>1, <4>2, <4>3, PairWhole DEF Done, Effect, Iface
    <3> QED BY <3>1, <3>2
  <2>2. ASSUME NEW p \in Proc, FirstBuild(p)', CallOf(p)' # "build"
        PROVE  cache'[p] = {}
    <3>1. FirstBuild(p) /\ CallOf(p) # "build"
      BY <2>2, <1>c DEF FirstBuild, CallOf
    <3> QED BY <3>1, <1>c DEF BuildInv, CacheReal
  <2> QED BY <2>1, <2>2 DEF CacheReal
<1>5. NewFresh'
  BY <1>c DEF BuildInv, NewFresh
<1> QED BY <1>0, <1>1, <1>2, <1>3, <1>4, <1>5 DEF BuildInv

\* teardown(), returning from a call, starting, failing and dying.
LEMMA OtherStepInv ==
  ASSUME NEW q \in Proc, BuildInv,
         \/ Start(q) \/ TeardownStep(q) \/ Return(q)
         \/ CommandFails(q) \/ Kill(q)
  PROVE  BuildInv'
<1>0. TypeOK /\ TypeOK'
  BY OtherStepType DEF BuildInv
<1>t. /\ pc \in [Proc -> Nat] /\ sub \in [Proc -> Subs]
      /\ call \in [Proc -> Nat]
      /\ cache \in [Proc -> SUBSET SUBSET (Locations \X IfNames)]
      /\ seen \in [Proc -> SUBSET {"added", "deleted"}]
      /\ status \in [Proc -> {"new", "running", "done", "failed", "killed"}]
  BY <1>0 DEF TypeOK
<1>r. ASSUME NEW e, Raise(q, e) PROVE BuildInv'
  <2>1. \A p \in Proc : Undisturbed(p)' => Undisturbed(p)
    BY <1>r DEF Raise, Undisturbed, CallOf, FirstBuild
  <2>2. \A p \in Proc : status'[p] = "new" => status[p] = "new"
    BY <1>r, <1>t DEF Raise
  <2> QED BY <1>r, <2>1, <2>2, <1>0, IdleStep DEF Raise
<1>1. CASE Start(q)
  <2>1. Applied'
    BY <1>1, <1>t DEF Start, BuildInv, Applied, NewFresh, Undisturbed, CallOf, FirstBuild
  <2>2. MovesLinks'
    BY <1>1 DEF Start, BuildInv, MovesLinks, CallOf, Cmd, Iface
  <2>3. LinkInProgress'
    <3> SUFFICES ASSUME NEW p \in Proc, Undisturbed(p)', pc'[p] <= Len(Plan),
                        sub'[p] \in {"move1", "move2"}
                 PROVE  \E la \in {Host, Iface(p)'.ns}, lb \in {Host, Iface(p)'.peerNs} :
                          /\ Ends(Iface(p)', la, lb) \in net'.veths
                          /\ sub'[p] = "move2" => la = Iface(p)'.ns
      BY DEF LinkInProgress
    <3>1. p # q
      BY <1>1 DEF Start, BuildInv, NewFresh
    <3>2. Undisturbed(p)
      BY <3>1, <1>1, <1>t DEF Start, Undisturbed, CallOf, FirstBuild
    <3>3. Iface(p)' = Iface(p)
      BY <1>1 DEF Start, Iface, Cmd
    <3> QED BY <3>2, <3>3, <1>1 DEF Start, BuildInv, LinkInProgress
  <2>4. CacheReal'
    BY <1>1, <1>t DEF Start, BuildInv, CacheReal, NewFresh, Undisturbed, CallOf, FirstBuild
  <2>5. NewFresh'
    BY <1>1, <1>t DEF Start, BuildInv, NewFresh
  <2> QED BY <2>1, <2>2, <2>3, <2>4, <2>5, <1>0 DEF BuildInv
\* Steps of a process in teardown(): nobody's build is at stake but its own
\* cache, which a deletion makes irrelevant.
<1>2. ASSUME InLoop(q, "teardown"), call' = call,
             \A p \in Proc \ {q} : pc'[p] = pc[p] /\ sub'[p] = sub[p],
             cache' = cache, status' = status,
             \/ net' = net /\ seen' = seen
             \/ \A p \in Proc : "deleted" \in seen'[p]
      PROVE  BuildInv'
  <2>0. CallOf(q) # "build" /\ status[q] = "running"
    BY <1>2 DEF InLoop
  <2>1. Applied'
    <3> SUFFICES ASSUME NEW p \in Proc, Undisturbed(p)', NEW k \in 1..(pc'[p] - 1)
                 PROVE  Done(net', Plan[k])
      BY DEF Applied
    <3>1. p # q /\ Undisturbed(p) /\ net' = net
      BY <1>2, <2>0 DEF Undisturbed, CallOf, FirstBuild
    <3> QED BY <3>1, <1>2 DEF BuildInv, Applied
  <2>2. MovesLinks'
    <3> SUFFICES ASSUME NEW p \in Proc, CallOf(p)' = "build", pc'[p] <= Len(Plan),
                        sub'[p] \in {"move1", "move2"}
                 PROVE  Cmd(p)'.op = "veth" /\ Iface(p)'.veth
      BY DEF MovesLinks
    <3>1. p # q /\ CallOf(p) = "build"
      BY <1>2, <2>0 DEF CallOf
    <3>2. Cmd(p)' = Cmd(p) /\ Iface(p)' = Iface(p)
      BY <3>1, <1>2 DEF Cmd, Iface
    <3> QED BY <3>1, <3>2, <1>2 DEF BuildInv, MovesLinks
  <2>3. LinkInProgress'
    <3> SUFFICES ASSUME NEW p \in Proc, Undisturbed(p)', pc'[p] <= Len(Plan),
                        sub'[p] \in {"move1", "move2"}
                 PROVE  \E la \in {Host, Iface(p)'.ns}, lb \in {Host, Iface(p)'.peerNs} :
                          /\ Ends(Iface(p)', la, lb) \in net'.veths
                          /\ sub'[p] = "move2" => la = Iface(p)'.ns
      BY DEF LinkInProgress
    <3>1. p # q /\ Undisturbed(p) /\ net' = net
      BY <1>2, <2>0 DEF Undisturbed, CallOf, FirstBuild
    <3>2. Iface(p)' = Iface(p)
      BY <3>1, <1>2 DEF Cmd, Iface
    <3> QED BY <3>1, <3>2, <1>2 DEF BuildInv, LinkInProgress
  <2>4. CacheReal'
    <3>1. \A p \in Proc : Undisturbed(p)' =>
            \A v \in cache'[p] : v \in net'.veths /\ Whole(v)
      BY <1>2 DEF BuildInv, CacheReal, Undisturbed, CallOf, FirstBuild
    <3>2. \A p \in Proc : FirstBuild(p)' /\ CallOf(p)' # "build" => cache'[p] = {}
      BY <1>2 DEF BuildInv, CacheReal, CallOf, FirstBuild
    <3> QED BY <3>1, <3>2 DEF CacheReal
  <2>5. NewFresh'
    BY <1>2, <2>0 DEF BuildInv, NewFresh
  <2> QED BY <2>1, <2>2, <2>3, <2>4, <2>5, <1>0 DEF BuildInv
<1>3. CASE DeleteCheck(q)
  BY <1>3, <1>2, <1>t DEF DeleteCheck, Then, Advance
<1>4. CASE DeleteAct(q)
  <2>1. CASE CanNetnsDelete(net, NsName(pc[q]))
    <3>1. /\ InLoop(q, "teardown") /\ Advance(q) /\ cache' = cache
          /\ Note("deleted")
      BY <1>4, <2>1 DEF DeleteAct
    <3>2. \A p \in Proc : "deleted" \in seen'[p]
      BY <3>1, <1>t DEF Note
    <3>3. \A p \in Proc \ {q} : pc'[p] = pc[p] /\ sub'[p] = sub[p]
      BY <3>1, <1>t DEF Advance
    <3> QED BY <3>1, <3>2, <3>3, <1>2 DEF Advance
  <2>2. CASE ~CanNetnsDelete(net, NsName(pc[q]))
    BY <1>4, <2>2, <1>r DEF DeleteAct, RunCmdRaises
  <2> QED BY <2>1, <2>2
<1>5. CASE CommandFails(q)
  BY <1>5, <1>r DEF CommandFails, RunCmdRaises
<1>6. CASE Kill(q)
  <2>1. \A p \in Proc : Undisturbed(p)' => Undisturbed(p)
    BY <1>6 DEF Kill, Undisturbed, CallOf, FirstBuild
  <2>2. \A p \in Proc : status'[p] = "new" => status[p] = "new"
    BY <1>6, <1>t DEF Kill
  <2> QED BY <1>6, <2>1, <2>2, <1>0, IdleStep DEF Kill
<1>7. CASE Return(q) /\ ~(call[q] < Len(Script[q]))
  <2>1. \A p \in Proc : Undisturbed(p)' => Undisturbed(p)
    BY <1>7 DEF Return, Undisturbed, CallOf, FirstBuild
  <2>2. \A p \in Proc : status'[p] = "new" => status[p] = "new"
    BY <1>7, <1>t DEF Return
  <2> QED BY <1>7, <2>1, <2>2, <1>0, IdleStep DEF Return
<1>8. CASE Return(q) /\ call[q] < Len(Script[q])
  <2>1. /\ call' = [call EXCEPT ![q] = @ + 1] /\ pc' = [pc EXCEPT ![q] = 1]
        /\ sub' = [sub EXCEPT ![q] = "check"] /\ seen' = [seen EXCEPT ![q] = {}]
        /\ net' = net /\ cache' = cache /\ status' = status /\ status[q] = "running"
    BY <1>8 DEF Return
  <2>2. pc'[q] = 1 /\ sub'[q] = "check" /\ call'[q] = call[q] + 1
    BY <2>1, <1>t
  <2>3. \A p \in Proc \ {q} : /\ call'[p] = call[p] /\ pc'[p] = pc[p]
                              /\ sub'[p] = sub[p] /\ seen'[p] = seen[p]
    BY <2>1, <1>t
  <2>4. Applied'
    <3> SUFFICES ASSUME NEW p \in Proc, Undisturbed(p)', NEW k \in 1..(pc'[p] - 1)
                 PROVE  Done(net', Plan[k])
      BY DEF Applied
    <3>1. p # q
      BY <2>2
    <3>2. Undisturbed(p)
      BY <2>3, <3>1 DEF Undisturbed, CallOf, FirstBuild
    <3> QED BY <3>1, <3>2, <2>1, <2>3 DEF BuildInv, Applied
  <2>5. MovesLinks'
    <3> SUFFICES ASSUME NEW p \in Proc, CallOf(p)' = "build", pc'[p] <= Len(Plan),
                        sub'[p] \in {"move1", "move2"}
                 PROVE  Cmd(p)'.op = "veth" /\ Iface(p)'.veth
      BY DEF MovesLinks
    <3>1. p # q
      BY <2>2
    <3>2. CallOf(p) = "build" /\ Cmd(p)' = Cmd(p) /\ Iface(p)' = Iface(p)
      BY <3>1, <2>3 DEF CallOf, Cmd, Iface
    <3> QED BY <3>1, <3>2, <2>3 DEF BuildInv, MovesLinks
  <2>6. LinkInProgress'
    <3> SUFFICES ASSUME NEW p \in Proc, Undisturbed(p)', pc'[p] <= Len(Plan),
                        sub'[p] \in {"move1", "move2"}
                 PROVE  \E la \in {Host, Iface(p)'.ns}, lb \in {Host, Iface(p)'.peerNs} :
                          /\ Ends(Iface(p)', la, lb) \in net'.veths
                          /\ sub'[p] = "move2" => la = Iface(p)'.ns
      BY DEF LinkInProgress
    <3>1. p # q
      BY <2>2
    <3>2. Undisturbed(p) /\ Iface(p)' = Iface(p)
      BY <3>1, <2>3 DEF Undisturbed, CallOf, FirstBuild, Cmd, Iface
    <3> QED BY <3>1, <3>2, <2>1, <2>3 DEF BuildInv, LinkInProgress
  <2>7. CacheReal'
    <3>1. ASSUME NEW p \in Proc, FirstBuild(p)' PROVE p = q => cache[p] = {}
      <4> SUFFICES ASSUME p = q PROVE cache[q] = {}
        OBVIOUS
      <4>1. \A j \in 1..call[q] : Script[q][j] # "build"
        BY <3>1, <2>2, <1>t DEF FirstBuild
      <4>2. call[q] \in 1..call[q]
        BY <1>0 DEF TypeOK
      <4>3. FirstBuild(q) /\ CallOf(q) # "build"
        BY <4>1, <4>2 DEF FirstBuild, CallOf
      <4> QED BY <4>3 DEF BuildInv, CacheReal
    <3>2. ASSUME NEW p \in Proc, Undisturbed(p)', NEW v \in cache'[p]
          PROVE  v \in net'.veths /\ Whole(v)
      <4>1. p # q
        BY <3>1, <3>2, <2>1 DEF Undisturbed
      <4>2. Undisturbed(p)
        BY <4>1, <3>2, <2>3 DEF Undisturbed, CallOf, FirstBuild
      <4> QED BY <4>2, <3>2, <2>1 DEF BuildInv, CacheReal
    <3>3. ASSUME NEW p \in Proc, FirstBuild(p)', CallOf(p)' # "build"
          PROVE  cache'[p] = {}
      <4>1. CASE p = q
        BY <4>1, <3>1, <3>3, <2>1
      <4>2. CASE p # q
        <5>1. FirstBuild(p) /\ CallOf(p) # "build"
          BY <4>2, <3>3, <2>3 DEF FirstBuild, CallOf
        <5> QED BY <5>1, <2>1 DEF BuildInv, CacheReal
      <4> QED BY <4>1, <4>2
    <3> QED BY <3>2, <3>3 DEF CacheReal
  <2>8. NewFresh'
    BY <2>1, <2>3 DEF BuildInv, NewFresh
  <2> QED BY <2>4, <2>5, <2>6, <2>7, <2>8, <1>0 DEF BuildInv
<1> QED BY <1>1, <1>3, <1>4, <1>5, <1>6, <1>7, <1>8 DEF TeardownStep

\* build() leaves no configured item out.
LEMMA PlanCovers ==
  /\ \A i \in 1..Len(Namespaces), o \in {"create", "loopback", "forwarding"} :
       Occurs(Plan, [op |-> o, i |-> i])
  /\ \A i \in 1..Len(Interfaces), o \in {"veth", "addr", "up"} :
       Occurs(Plan, [op |-> o, i |-> i])
  /\ \A i \in 1..Len(Routes) : Occurs(Plan, [op |-> "route", i |-> i])
<1>0. Len(Namespaces) \in Nat /\ Len(Interfaces) \in Nat /\ Len(Routes) \in Nat
  BY ConfigAssumption DEF ConfigAssumption
<1>1. ASSUME NEW i \in 1..Len(Namespaces), NEW o \in {"create", "loopback", "forwarding"}
      PROVE  Occurs(Phase1, [op |-> o, i |-> i])
  <2>1. PICK j \in 1..3 : o = <<"create", "loopback", "forwarding">>[j]
    <3>1. \/ o = <<"create", "loopback", "forwarding">>[1]
          \/ o = <<"create", "loopback", "forwarding">>[2]
          \/ o = <<"create", "loopback", "forwarding">>[3]
      OBVIOUS
    <3> QED BY <3>1
  <2> DEFINE k == 3 * (i - 1) + j
  <2>2. /\ k \in 1..(3 * Len(Namespaces))
        /\ ((k - 1) % 3) + 1 = j /\ ((k - 1) \div 3) + 1 = i
    BY <1>0
  <2> HIDE DEF k
  <2>3. Phase1[k] = [op |-> o, i |-> i]
    BY <2>1, <2>2 DEF Phase1
  <2> QED BY <2>2, <2>3, PhaseTypes DEF Occurs
<1>2. ASSUME NEW i \in 1..Len(Interfaces), NEW o \in {"addr", "up"}
      PROVE  Occurs(Phase3, [op |-> o, i |-> i])
  <2>1. PICK j \in 1..2 : o = <<"addr", "up">>[j]
    <3>1. o = <<"addr", "up">>[1] \/ o = <<"addr", "up">>[2]
      OBVIOUS
    <3> QED BY <3>1
  <2> DEFINE k == 2 * (i - 1) + j
  <2>2. /\ k \in 1..(2 * Len(Interfaces))
        /\ ((k - 1) % 2) + 1 = j /\ ((k - 1) \div 2) + 1 = i
    BY <1>0
  <2> HIDE DEF k
  <2>3. Phase3[k] = [op |-> o, i |-> i]
    BY <2>1, <2>2 DEF Phase3
  <2> QED BY <2>2, <2>3, PhaseTypes DEF Occurs
<1>3. \A i \in 1..Len(Interfaces) : Occurs(Phase2, [op |-> "veth", i |-> i])
  BY PhaseTypes DEF Phase2, Occurs
<1>4. \A i \in 1..Len(Routes) : Occurs(Phase4, [op |-> "route", i |-> i])
  BY PhaseTypes DEF Phase4, Occurs
<1> QED BY <1>1, <1>2, <1>3, <1>4, PlanPhases

\* What the elements of the plan have done together is the configuration.
LEMMA AllDoneConforms ==
  ASSUME \A k \in 1..Len(Plan) : Done(net, Plan[k])
  PROVE  Conforms
<1>1. \A x : Occurs(Plan, x) => Effect(net, x)
  BY DEF Occurs, Done
<1>2. ASSUME NEW i \in 1..Len(Namespaces)
      PROVE  /\ NsName(i) \in net.netns /\ NsName(i) \in net.lo
             /\ NsName(i) \in net.fwd <=> Namespaces[i].forwarding
  <2>1. /\ Effect(net, [op |-> "create", i |-> i])
        /\ Effect(net, [op |-> "loopback", i |-> i])
        /\ Effect(net, [op |-> "forwarding", i |-> i])
    BY <1>1, PlanCovers
  <2> QED BY <2>1 DEF Effect
<1>3. ASSUME NEW i \in 1..Len(Interfaces)
      PROVE  /\ Interfaces[i].veth => Pair(Interfaces[i]) \in net.veths
             /\ Interfaces[i].ip => End1(Interfaces[i]) \in net.addrs
             /\ End1(Interfaces[i]) \in net.ups
  <2>1. /\ Effect(net, [op |-> "veth", i |-> i])
        /\ Effect(net, [op |-> "addr", i |-> i])
        /\ Effect(net, [op |-> "up", i |-> i])
    BY <1>1, PlanCovers
  <2> QED BY <2>1 DEF Effect
<1>4. ASSUME NEW i \in 1..Len(Routes)
      PROVE  <<Routes[i].ns, Routes[i].target, Routes[i].dev>> \in net.routes
  <2>1. Effect(net, [op |-> "route", i |-> i])
    BY <1>1, PlanCovers
  <2> QED BY <2>1 DEF Effect
<1> QED BY <1>2, <1>3, <1>4 DEF Conforms

LEMMA BuildInvInductive == OneHome => (Spec => []BuildInv)
<1> SUFFICES ASSUME OneHome PROVE Spec => []BuildInv
  OBVIOUS
<1>1. Init => BuildInv
  <2> SUFFICES ASSUME Init PROVE BuildInv
    OBVIOUS
  <2>0. TypeOK
    BY TypeInit
  <2>1. /\ \A p \in Proc : pc[p] = 1 /\ sub[p] = "check" /\ cache[p] = {}
    BY DEF Init
  <2> QED BY <2>0, <2>1 DEF BuildInv, Applied, MovesLinks, LinkInProgress, CacheReal,
              NewFresh
<1>2. BuildInv /\ [Next]_vars => BuildInv'
  <2> SUFFICES ASSUME BuildInv, [Next]_vars PROVE BuildInv'
    OBVIOUS
  <2>1. CASE UNCHANGED vars
    <3>1. TypeOK'
      BY <2>1 DEF vars, BuildInv, TypeOK, LoopLength, CallOf
    <3>2. \A p \in Proc : Undisturbed(p)' => Undisturbed(p)
      BY <2>1 DEF vars, Undisturbed, CallOf, FirstBuild
    <3> QED BY <2>1, <3>1, <3>2, IdleStep DEF vars
  <2>2. CASE Next
    BY <2>2, BuildStepInv, OtherStepInv DEF Next, Step
  <2> QED BY <2>1, <2>2
<1> QED BY <1>1, <1>2, PTL DEF Spec

\* A builder's first build() that returns undisturbed by a deletion leaves the
\* network exactly as configured: for every configuration whose links agree on
\* their ends, any number of concurrent builders, kills and failing commands.
THEOREM BuildEstablishesConfig == OneHome => (Spec => []BuildConforms)
<1> SUFFICES ASSUME OneHome PROVE Spec => []BuildConforms
  OBVIOUS
<1>1. BuildInv => BuildConforms
  <2> SUFFICES ASSUME BuildInv, NEW p \in Proc, Finished(p, "build"),
                      FirstBuild(p), "deleted" \notin seen[p]
               PROVE  Conforms
    BY DEF BuildConforms
  <2>1. Undisturbed(p) /\ pc[p] > Len(Plan)
    BY DEF Finished, LoopLength, Undisturbed
  <2>2. pc[p] \in Nat /\ Len(Plan) \in Nat
    BY PlanType DEF BuildInv, TypeOK
  <2>3. \A k \in 1..Len(Plan) : Done(net, Plan[k])
    BY <2>1, <2>2 DEF BuildInv, Applied
  <2> QED BY <2>3, AllDoneConforms
<1> QED BY <1>1, BuildInvInductive, PTL

-----------------------------------------------------------------------------
(***************************************************************************)
(* HostLinkOwned.  Whoever's link it is, an end on the root stack is one   *)
(* that a process before the move of that name answers for: a move takes   *)
(* every end of its name off the root stack, and `ip link add` refuses a   *)
(* name that is there already.                                             *)
(***************************************************************************)
Mover(p) == sub[p] \in {"move1", "move2"}

\* p has yet to move the end named x.
Answers(p, x) ==
  /\ Mover(p)
  /\ x = Iface(p).peerName \/ (sub[p] = "move1" /\ x = Iface(p).name)

MoversBuild ==
  \A p \in Proc : Mover(p) => CallOf(p) = "build" /\ pc[p] <= Len(Plan)

HostEndsOwned ==
  \A x : <<Host, x>> \in Devices(net) => \E p \in Proc : Answers(p, x)

OwnedInv == TypeOK /\ MoversBuild /\ HostEndsOwned

\* Processes that move nothing may go on as long as no end appears.
LEMMA OthersOwn ==
  ASSUME OwnedInv, TypeOK', NEW q \in Proc,
         \A p \in Proc \ {q} : call'[p] = call[p] /\ pc'[p] = pc[p] /\ sub'[p] = sub[p],
         \/ ~Mover(q) /\ ~Mover(q)'
         \/ call'[q] = call[q] /\ pc'[q] = pc[q] /\ sub'[q] = sub[q],
         \A x : <<Host, x>> \in Devices(net') => <<Host, x>> \in Devices(net)
  PROVE  OwnedInv'
<1>1. \A p \in Proc : Mover(p)' =>
        Mover(p) /\ call'[p] = call[p] /\ pc'[p] = pc[p] /\ sub'[p] = sub[p]
  BY DEF Mover
<1>2. MoversBuild'
  BY <1>1 DEF OwnedInv, MoversBuild, CallOf
<1>3. \A p \in Proc : Mover(p) =>
        call'[p] = call[p] /\ pc'[p] = pc[p] /\ sub'[p] = sub[p]
  BY DEF Mover
<1>4. \A p \in Proc : \A x : Answers(p, x) => Answers(p, x)'
  BY <1>3 DEF Answers, Mover, Iface, Cmd
<1>5. HostEndsOwned'
  BY <1>4 DEF OwnedInv, HostEndsOwned
<1> QED BY <1>2, <1>5 DEF OwnedInv

\* What the link commands leave on the root stack.
LEMMA HostEnds ==
  ASSUME NEW m \in NetType
  PROVE  /\ \A a, b, x : <<Host, x>> \in Devices(LinkAdd(m, a, b))
                           => x \in {a, b} \/ <<Host, x>> \in Devices(m)
         /\ \A a, x : \A n \in NsNames : <<Host, x>> \in Devices(LinkMove(m, a, n))
                           => x # a /\ <<Host, x>> \in Devices(m)
         /\ \A n, x : <<Host, x>> \in Devices(NetnsDelete(m, n)) => <<Host, x>> \in Devices(m)
<1>1. \A a, b, x : <<Host, x>> \in Devices(LinkAdd(m, a, b))
                     => x \in {a, b} \/ <<Host, x>> \in Devices(m)
  BY DEF LinkAdd, Devices, NetType
<1>2. ASSUME NEW a, NEW x, NEW n \in NsNames, <<Host, x>> \in Devices(LinkMove(m, a, n))
      PROVE  x # a /\ <<Host, x>> \in Devices(m)
  <2>1. PICK v \in m.veths : <<Host, x>> \in Moved(v, a, n)
    BY <1>2 DEF LinkMove, Devices, NetType
  <2>2. PICK d \in v : <<Host, x>> = IF d = <<Host, a>> THEN <<n, a>> ELSE d
    BY <2>1 DEF Moved
  <2>3. n # Host
    BY ConfigAssumption DEF ConfigAssumption
  <2> QED BY <2>2, <2>3 DEF Devices
<1>3. \A n, x : <<Host, x>> \in Devices(NetnsDelete(m, n)) => <<Host, x>> \in Devices(m)
  BY DEF NetnsDelete, SurvivingVeths, Devices
<1> QED BY <1>1, <1>2, <1>3

LEMMA BuildStepOwned ==
  ASSUME NEW q \in Proc, OwnedInv, BuildStep(q)
  PROVE  OwnedInv'
<1>t. TypeOK /\ TypeOK' /\ net \in NetType /\ sub \in [Proc -> Subs] /\ pc \in [Proc -> Nat]
  BY BuildStepType DEF OwnedInv, TypeOK
<1>c. /\ InLoop(q, "build") /\ pc[q] \in 1..Len(Plan) /\ CallOf(q) = "build" /\ call' = call
      /\ \A p \in Proc \ {q} : pc'[p] = pc[p] /\ sub'[p] = sub[p]
  BY <1>t, BuildStepControl
<1>f. /\ Cmd(q).op = "veth" => Iface(q).ns \in NsNames /\ Iface(q).peerNs \in NsNames
  BY <1>t, <1>c, CmdFacts, ConfigFacts DEF Iface
<1>s. ASSUME net' = net, UNCHANGED <<pc, sub>> PROVE OwnedInv'
  BY <1>s, <1>t, <1>c, OthersOwn
<1>o. ASSUME NEW e, Raise(q, e) PROVE OwnedInv'
  BY <1>o, <1>s DEF Raise
<1>p. \A p \in Proc \ {q} : /\ Mover(p)' <=> Mover(p)
                            /\ \A x : Answers(p, x)' <=> Answers(p, x)
  BY <1>c DEF Mover, Answers, Iface, Cmd
<1>1. CASE VethAdd(q)
  <2>1. CASE Then(q, "move1") /\ net' = LinkAdd(net, Iface(q).name, Iface(q).peerName)
    <3>1. ~Mover(q) /\ sub'[q] = "move1" /\ pc' = pc
      BY <1>1, <2>1, <1>t DEF VethAdd, At, Then, Mover
    <3>2. \A x \in {Iface(q).name, Iface(q).peerName} : Answers(q, x)'
      BY <3>1 DEF Answers, Mover, Iface, Cmd
    <3>3. HostEndsOwned'
      <4> SUFFICES ASSUME NEW x, <<Host, x>> \in Devices(net')
                   PROVE  \E p \in Proc : Answers(p, x)'
        BY DEF HostEndsOwned
      <4>1. x \in {Iface(q).name, Iface(q).peerName} \/ <<Host, x>> \in Devices(net)
        BY <2>1, <1>t, HostEnds
      <4>2. ASSUME <<Host, x>> \in Devices(net) PROVE \E p \in Proc \ {q} : Answers(p, x)
        BY <4>2, <3>1 DEF OwnedInv, HostEndsOwned, Answers
      <4> QED BY <4>1, <4>2, <3>2, <1>p
    <3>4. MoversBuild'
      BY <3>1, <1>c, <1>p DEF OwnedInv, MoversBuild, CallOf
    <3> QED BY <3>3, <3>4, <1>t DEF OwnedInv
  <2> QED BY <1>1, <2>1, <1>o DEF VethAdd
<1>2. CASE VethMove1(q)
  <2>1. CASE Then(q, "move2") /\ net' = LinkMove(net, Iface(q).name, Iface(q).ns)
    <3>1. sub[q] = "move1" /\ sub'[q] = "move2" /\ pc' = pc /\ Iface(q).ns \in NsNames
      BY <1>2, <2>1, <1>t, <1>f DEF VethMove1, At, Then, Cmd
    <3>2. \A x : Answers(q, x) /\ x # Iface(q).name => Answers(q, x)'
      BY <3>1 DEF Answers, Mover, Iface, Cmd
    <3>3. HostEndsOwned'
      <4> SUFFICES ASSUME NEW x, <<Host, x>> \in Devices(net')
                   PROVE  \E p \in Proc : Answers(p, x)'
        BY DEF HostEndsOwned
      <4>1. x # Iface(q).name /\ <<Host, x>> \in Devices(net)
        BY <2>1, <3>1, <1>t, HostEnds
      <4> QED BY <4>1, <3>2, <1>p DEF OwnedInv, HostEndsOwned
    <3>4. MoversBuild'
      BY <3>1, <1>c, <1>p DEF OwnedInv, MoversBuild, CallOf
    <3> QED BY <3>3, <3>4, <1>t DEF OwnedInv
  <2> QED BY <1>2, <2>1, <1>o DEF VethMove1
<1>3. CASE VethMove2(q)
  <2>1. CASE Advance(q) /\ net' = LinkMove(net, Iface(q).peerName, Iface(q).peerNs)
    <3>1. sub[q] = "move2" /\ sub'[q] = "check" /\ Iface(q).peerNs \in NsNames
      BY <1>3, <2>1, <1>t, <1>f DEF VethMove2, At, Advance, Cmd
    <3>2. HostEndsOwned'
      <4> SUFFICES ASSUME NEW x, <<Host, x>> \in Devices(net')
                   PROVE  \E p \in Proc : Answers(p, x)'
        BY DEF HostEndsOwned
      <4>1. x # Iface(q).peerName /\ <<Host, x>> \in Devices(net)
        BY <2>1, <3>1, <1>t, HostEnds
      <4>2. ~Answers(q, x)
        BY <4>1, <3>1 DEF Answers
      <4> QED BY <4>1, <4>2, <1>p DEF OwnedInv, HostEndsOwned
    <3>3. MoversBuild'
      BY <3>1, <1>c, <1>p DEF OwnedInv, MoversBuild, CallOf, Mover
    <3> QED BY <3>2, <3>3, <1>t DEF OwnedInv
  <2> QED BY <1>3, <2>1, <1>o DEF VethMove2
<1>4. CASE \/ CreateCheck(q) \/ CreateAct(q) \/ AddrSkip(q) \/ ExecCheck(q) \/ VethSkip(q)
           \/ LoopbackAct(q) \/ ForwardingAct(q) \/ AddrAct(q) \/ UpAct(q) \/ RouteAct(q)
  <2>1. ~Mover(q)
    BY <1>4 DEF CreateCheck, CreateAct, AddrSkip, ExecCheck, VethSkip, LoopbackAct,
       ForwardingAct, AddrAct, UpAct, RouteAct, Execute, At, Mover
  <2>2. \/ \E e : Raise(q, e)
        \/ sub'[q] \in {"check", "act"} /\ net'.veths = net.veths
    <3>1. /\ \A n, b : NetnsAdd(net, n, b).veths = net.veths
          /\ \A n : LoUp(net, n).veths = net.veths
          /\ \A n, b : SetForward(net, n, b).veths = net.veths
          /\ \A d : AddrAdd(net, d).veths = net.veths /\ LinkUp(net, d).veths = net.veths
          /\ \A n, t, d : RouteAdd(net, n, t, d).veths = net.veths
      BY <1>t DEF NetnsAdd, LoUp, SetForward, AddrAdd, LinkUp, RouteAdd, NetType
    <3>2. /\ Advance(q) => sub'[q] = "check"
          /\ Then(q, "act") => sub'[q] = "act"
      BY <1>t DEF Advance, Then
    <3>3. CASE CreateCheck(q) \/ AddrSkip(q) \/ ExecCheck(q) \/ VethSkip(q)
      BY <3>2, <3>3 DEF CreateCheck, AddrSkip, ExecCheck, VethSkip
    <3>4. CASE CreateAct(q)
      BY <3>1, <3>2, <3>4 DEF CreateAct, RunCmdRaises
    <3>5. CASE LoopbackAct(q) \/ ForwardingAct(q)
      BY <3>1, <3>2, <3>5 DEF LoopbackAct, ForwardingAct, Execute, RunCmdRaises
    <3>6. CASE AddrAct(q) \/ UpAct(q)
      BY <3>1, <3>2, <3>6 DEF AddrAct, UpAct, Execute, RunCmdRaises
    <3>7. CASE RouteAct(q)
      BY <3>1, <3>2, <3>7 DEF RouteAct, Execute, RunCmdRaises
    <3> QED BY <1>4, <3>3, <3>4, <3>5, <3>6, <3>7
  <2>3. CASE sub'[q] \in {"check", "act"} /\ net'.veths = net.veths
    <3>1. ~Mover(q)'
      BY <2>3 DEF Mover
    <3>2. Devices(net') = Devices(net)
      BY <2>3 DEF Devices
    <3> QED BY <2>1, <3>1, <3>2, <1>t, <1>c, OthersOwn
  <2> QED BY <2>2, <2>3, <1>o
<1> QED BY <1>1, <1>2, <1>3, <1>4 DEF BuildStep

LEMMA OtherStepOwned ==
  ASSUME NEW q \in Proc, OwnedInv,
         TeardownStep(q) \/ Return(q) \/ Start(q) \/ CommandFails(q) \/ Kill(q)
  PROVE  OwnedInv'
<1>t. TypeOK /\ TypeOK' /\ net \in NetType /\ sub \in [Proc -> Subs] /\ pc \in [Proc -> Nat]
  BY OtherStepType DEF OwnedInv, TypeOK
<1>s. ASSUME UNCHANGED <<net, call, pc, sub>> PROVE OwnedInv'
  BY <1>s, <1>t, OthersOwn
<1>1. CASE Start(q) \/ Kill(q) \/ CommandFails(q)
  BY <1>1, <1>s DEF Start, Kill, CommandFails, RunCmdRaises, Raise
<1>2. CASE TeardownStep(q)
  <2>1. ~Mover(q)
    BY <1>2 DEF TeardownStep, DeleteCheck, DeleteAct, Mover
  <2>2. \/ UNCHANGED <<net, call, pc, sub>>
        \/ /\ call' = call /\ sub'[q] \in {"check", "act"}
           /\ \A p \in Proc \ {q} : pc'[p] = pc[p] /\ sub'[p] = sub[p]
           /\ net' = net \/ \E n : net' = NetnsDelete(net, n)
    BY <1>2, <1>t DEF TeardownStep, DeleteCheck, DeleteAct, RunCmdRaises, Raise, Then, Advance
  <2>3. ASSUME sub'[q] \in {"check", "act"} PROVE ~Mover(q)'
    BY <2>3 DEF Mover
  <2>4. ASSUME net' = net \/ \E n : net' = NetnsDelete(net, n), NEW x,
               <<Host, x>> \in Devices(net')
        PROVE  <<Host, x>> \in Devices(net)
    BY <2>4, <1>t, HostEnds
  <2> QED BY <2>1, <2>2, <2>3, <2>4, <1>s, <1>t, OthersOwn
<1>3. CASE Return(q)
  <2>1. ~Mover(q)
    <3>1. pc[q] > LoopLength(q) /\ pc[q] \in Nat /\ Len(Plan) \in Nat
      BY <1>3, <1>t, PlanType DEF Return
    <3> QED BY <3>1 DEF OwnedInv, MoversBuild, LoopLength
  <2>2. \/ UNCHANGED <<net, call, pc, sub>>
        \/ /\ net' = net /\ sub'[q] = "check" /\ call \in [Proc -> Nat]
           /\ \A p \in Proc \ {q} : call'[p] = call[p] /\ pc'[p] = pc[p] /\ sub'[p] = sub[p]
    BY <1>3, <1>t DEF Return, TypeOK
  <2> QED BY <2>1, <2>2, <1>s, <1>t, OthersOwn DEF Mover
<1> QED BY <1>1, <1>2, <1>3

\* create_veth_pair leaves no link half on the root stack but the one a process
\* is moving, or was moving when it ended: for any configuration, even one whose
\* links share interface names, and any number of builds and teardowns.
THEOREM HostLinksHaveOwners == Spec => []HostLinkOwned
<1>1. Init => OwnedInv
  BY TypeInit DEF Init, OwnedInv, MoversBuild, HostEndsOwned, Mover, EmptyNet, Devices
<1>2. OwnedInv /\ [Next]_vars => OwnedInv'
  <2> SUFFICES ASSUME OwnedInv, [Next]_vars PROVE OwnedInv'
    OBVIOUS
  <2>1. CASE UNCHANGED vars
    BY <2>1 DEF vars, OwnedInv, TypeOK, LoopLength, CallOf, MoversBuild, HostEndsOwned,
       Mover, Answers, Iface, Cmd
  <2>2. CASE Next
    BY <2>2, BuildStepOwned, OtherStepOwned DEF Next, Step
  <2> QED BY <2>1, <2>2
<1>3. OwnedInv => HostLinkOwned
  <2> SUFFICES ASSUME OwnedInv, NEW v \in net.veths, NEW d \in v, Located(d, Host)
               PROVE  \E p \in Proc : /\ CallOf(p) = "build"
                                      /\ sub[p] \in {"move1", "move2"}
                                      /\ d[2] \in {Iface(p).name, Iface(p).peerName}
    BY DEF HostLinkOwned
  <2>1. d \in Locations \X IfNames
    BY DEF OwnedInv, TypeOK, NetType
  <2>2. d = <<Host, d[2]>> /\ d \in Devices(net)
    BY <2>1 DEF Located, Devices
  <2> QED BY <2>2 DEF OwnedInv, HostEndsOwned, MoversBuild, Answers, Mover
<1> QED BY <1>1, <1>2, <1>3, PTL DEF Spec

-----------------------------------------------------------------------------
(***************************************************************************)
(* Topology implements Laboratory, and what follows from it.  The steps    *)
(* of build() let the network grow, so none takes a ready laboratory back; *)
(* a namespace that comes into being has no loopback up yet                *)
(* (LoopbackInside), so none completes a laboratory by creating one.       *)
(***************************************************************************)
LoopbackInside == net.lo \subseteq net.netns

RefInv == TypeOK /\ LoopbackInside

\* Of what the kernel holds, a growing network keeps everything configured.
LEMMA ConformsGrows ==
  ASSUME Grows(net, net'), Conforms
  PROVE  Conforms'
<1>1. ASSUME NEW i \in 1..Len(Namespaces)
      PROVE  /\ NsName(i) \in net'.netns /\ NsName(i) \in net'.lo
             /\ NsName(i) \in net'.fwd <=> Namespaces[i].forwarding
  BY DEF Grows, Conforms
<1>2. ASSUME NEW i \in 1..Len(Interfaces)
      PROVE  /\ Interfaces[i].veth => Pair(Interfaces[i]) \in net'.veths
             /\ Interfaces[i].ip => End1(Interfaces[i]) \in net'.addrs
             /\ End1(Interfaces[i]) \in net'.ups
  BY PairWhole DEF Grows, Conforms
<1>3. ASSUME NEW i \in 1..Len(Routes)
      PROVE  <<Routes[i].ns, Routes[i].target, Routes[i].dev>> \in net'.routes
  BY DEF Grows, Conforms
<1> QED BY <1>1, <1>2, <1>3 DEF Conforms

\* A ready laboratory has all its namespaces.
LEMMA ConformsPresent ==
  ASSUME TypeOK, Conforms PROVE net.netns = NsNames
BY DEF TypeOK, NetType, Conforms, NsNames

\* What a command of build() does to the namespaces.
LEMMA NamespacesStep ==
  ASSUME NEW q \in Proc, RefInv, BuildStep(q)
  PROVE  /\ LoopbackInside'
         /\ \/ net'.netns = net.netns
            \/ \E n \in NsNames :
                 /\ n \notin net.netns /\ net'.netns = net.netns \union {n}
                 /\ n \notin net'.lo
<1> DEFINE n == NsOf(Cmd(q))
<1>0. InLoop(q, "build") /\ n \in NsNames
  BY CmdFacts DEF RefInv, BuildStep, CreateCheck, CreateAct, AddrSkip, ExecCheck, Execute,
     LoopbackAct, ForwardingAct, AddrAct, UpAct, RouteAct, VethSkip, VethAdd,
     VethMove1, VethMove2, At
<1>t. net \in NetType /\ LoopbackInside
  BY DEF RefInv, TypeOK
<1>s. ASSUME net'.netns = net.netns, net'.lo = net.lo
      PROVE  LoopbackInside' /\ net'.netns = net.netns
  BY <1>s, <1>t DEF LoopbackInside
<1>1. CASE CreateAct(q)
  <2>1. CASE \E e : Raise(q, e)
    BY <2>1, <1>s DEF Raise
  <2>2. CASE CanNetnsAdd(net, n) /\ \E b \in BOOLEAN : net' = NetnsAdd(net, n, b)
    <3>1. /\ net'.netns = net.netns \union {n} /\ net'.lo = net.lo
          /\ n \notin net.netns
      BY <2>2, <1>t DEF NetnsAdd, CanNetnsAdd, NetType
    <3> QED BY <3>1, <1>t, <1>0 DEF LoopbackInside
  <2> QED BY <1>1, <2>1, <2>2 DEF CreateAct, RunCmdRaises
<1>2. CASE LoopbackAct(q)
  <2>1. CASE \E e : Raise(q, e)
    BY <2>1, <1>s DEF Raise
  <2>2. CASE n \in net.netns /\ net' = LoUp(net, n)
    <3>1. net'.netns = net.netns /\ net'.lo = net.lo \union {n}
      BY <2>2, <1>t DEF LoUp, NetType
    <3> QED BY <3>1, <2>2, <1>t DEF LoopbackInside
  <2> QED BY <1>2, <2>1, <2>2 DEF LoopbackAct, Execute, RunCmdRaises
<1>3. CASE ForwardingAct(q)
  <2>1. \A m, b : /\ SetForward(net, m, b).netns = net.netns
                  /\ SetForward(net, m, b).lo = net.lo
    BY <1>t DEF SetForward, NetType
  <2> QED BY <1>3, <2>1, <1>s DEF ForwardingAct, Execute, RunCmdRaises, Raise
<1>4. CASE AddrAct(q) \/ UpAct(q)
  <2>1. \A d : /\ AddrAdd(net, d).netns = net.netns /\ AddrAdd(net, d).lo = net.lo
               /\ LinkUp(net, d).netns = net.netns /\ LinkUp(net, d).lo = net.lo
    BY <1>t DEF AddrAdd, LinkUp, NetType
  <2> QED BY <1>4, <2>1, <1>s DEF AddrAct, UpAct, Execute, RunCmdRaises, Raise
<1>5. CASE RouteAct(q)
  <2>1. \A m, t, d : /\ RouteAdd(net, m, t, d).netns = net.netns
                     /\ RouteAdd(net, m, t, d).lo = net.lo
    BY <1>t DEF RouteAdd, NetType
  <2> QED BY <1>5, <2>1, <1>s DEF RouteAct, Execute, RunCmdRaises, Raise
<1>6. CASE VethAdd(q) \/ VethMove1(q) \/ VethMove2(q)
  <2>1. \A a, b : /\ LinkAdd(net, a, b).netns = net.netns
                  /\ LinkAdd(net, a, b).lo = net.lo
                  /\ LinkMove(net, a, b).netns = net.netns
                  /\ LinkMove(net, a, b).lo = net.lo
    BY <1>t DEF LinkAdd, LinkMove, NetType
  <2> QED BY <1>6, <2>1, <1>s DEF VethAdd, VethMove1, VethMove2, Raise
<1>7. CASE CreateCheck(q) \/ AddrSkip(q) \/ ExecCheck(q) \/ VethSkip(q)
  BY <1>7, <1>s DEF CreateCheck, AddrSkip, ExecCheck, VethSkip, Raise
<1> QED BY <1>1, <1>2, <1>3, <1>4, <1>5, <1>6, <1>7 DEF BuildStep

LEMMA RefStep ==
  ASSUME RefInv, [Next]_vars
  PROVE  LoopbackInside' /\ [Lab!Next]_(Lab!vars)
<1> USE DEF RefInv
<1>t. net \in NetType /\ LoopbackInside
  BY DEF TypeOK
<1>i. ASSUME net' = net PROVE LoopbackInside' /\ [Lab!Next]_(Lab!vars)
  BY <1>i, <1>t DEF LoopbackInside, Lab!vars, Conforms
<1>1. ASSUME NEW q \in Proc, BuildStep(q)
      PROVE  LoopbackInside' /\ [Lab!Next]_(Lab!vars)
  <2>1. Conforms => Conforms'
    BY <1>1, BuildStepGrows, ConformsGrows
  <2>2. Conforms => net.netns = NsNames
    BY ConformsPresent
  <2>3. Conforms \in BOOLEAN /\ Conforms' \in BOOLEAN
    BY DEF Conforms
  <2>4. CASE net'.netns = net.netns /\ LoopbackInside'
    <3>1. CASE Conforms' <=> Conforms
      BY <2>4, <3>1, <2>3 DEF Lab!vars
    <3>2. CASE ~Conforms /\ Conforms'
      <4>1. net.netns = NsNames
        BY <3>2, <2>4, <1>t DEF Conforms, NsNames, NetType
      <4> QED BY <4>1, <3>2, <2>3, <2>4 DEF Lab!Next, Lab!Complete
    <3> QED BY <3>1, <3>2, <2>1, <2>3
  <2>5. CASE LoopbackInside' /\ \E n \in NsNames :
               /\ n \notin net.netns /\ net'.netns = net.netns \union {n}
               /\ n \notin net'.lo
    <3>1. PICK n \in NsNames :
               /\ n \notin net.netns /\ net'.netns = net.netns \union {n}
               /\ n \notin net'.lo
      BY <2>5
    <3>2. ~Conforms'
      BY <3>1 DEF Conforms, NsNames
    <3>3. Conforms' = Conforms
      BY <3>2, <2>1, <2>3
    <3> QED BY <3>1, <3>3, <2>5 DEF Lab!Next, Lab!Add
  <2> QED BY <1>1, <2>4, <2>5, NamespacesStep
<1>2. ASSUME NEW q \in Proc, TeardownStep(q)
      PROVE  LoopbackInside' /\ [Lab!Next]_(Lab!vars)
  <2>1. CASE net' = net
    BY <2>1, <1>i
  <2>2. CASE InLoop(q, "teardown") /\ CanNetnsDelete(net, NsName(pc[q]))
             /\ net' = NetnsDelete(net, NsName(pc[q]))
    <3> DEFINE n == NsName(pc[q])
    <3>1. n \in net.netns /\ n \in NsNames
      BY <2>2, <1>t DEF CanNetnsDelete, NetType
    <3>2. net'.netns = net.netns \ {n} /\ net'.lo = net.lo \ {n}
      BY <2>2 DEF NetnsDelete
    <3>3. Conforms' = FALSE
      <4>1. ~Conforms'
        BY <3>1, <3>2 DEF Conforms, NsNames
      <4> QED BY <4>1 DEF Conforms
    <3> QED BY <3>1, <3>2, <3>3, <1>t DEF LoopbackInside, Lab!Next, Lab!Remove
  <2> QED BY <1>2, <2>1, <2>2 DEF TeardownStep, DeleteCheck, DeleteAct, RunCmdRaises,
             Raise
<1>3. ASSUME NEW q \in Proc, Start(q) \/ Return(q) \/ CommandFails(q) \/ Kill(q)
      PROVE  net' = net
  BY <1>3 DEF Start, Return, CommandFails, Kill, RunCmdRaises, Raise
<1>4. CASE UNCHANGED vars
  BY <1>4, <1>i DEF vars
<1>5. CASE Next
  BY <1>5, <1>1, <1>2, <1>3, <1>i DEF Next, Step
<1> QED BY <1>4, <1>5

\* Every behaviour of any number of building and tearing-down processes is a
\* behaviour of the shared laboratory: it becomes ready in one step and only a
\* deletion takes that back.  (A configuration without namespaces is ready
\* before anything is built.)
THEOREM LaboratoryImplemented == NsNames # {} => (Spec => ImplementsLaboratory)
<1> SUFFICES ASSUME NsNames # {} PROVE Spec => ImplementsLaboratory
  OBVIOUS
<1>1. Init => LoopbackInside /\ Lab!Init
  <2> SUFFICES ASSUME Init PROVE LoopbackInside /\ Lab!Init
    OBVIOUS
  <2>1. PICK left \in SUBSET NsNames : net = [EmptyNet EXCEPT !.netns = left]
    BY DEF Init
  <2>2. net.netns = left /\ net.lo = {} /\ net.veths = {} /\ net.ups = {}
    BY <2>1 DEF EmptyNet
  <2>3. LoopbackInside
    BY <2>2 DEF LoopbackInside
  <2>4. Conforms = FALSE
    <3>1. PICK i \in 1..Len(Namespaces) : NsName(i) \in NsNames
      BY DEF NsNames
    <3>2. ~Conforms
      BY <2>2, <3>1 DEF Conforms
    <3> QED BY <3>2 DEF Conforms
  <2> QED BY <2>2, <2>3, <2>4 DEF Lab!Init
<1>2. RefInv /\ [Next]_vars => LoopbackInside' /\ [Lab!Next]_(Lab!vars)
  BY RefStep
<1> QED BY <1>1, <1>2, TypeCorrect, PTL DEF Spec, RefInv, ImplementsLaboratory, Lab!Spec

\* The cache of a first build() names whole pairs only, whatever other
\* processes do short of deleting a namespace.
THEOREM CacheIsSound == OneHome => (Spec => []CachedPairsExist)
<1> SUFFICES ASSUME OneHome PROVE Spec => []CachedPairsExist
  OBVIOUS
<1>1. BuildInv => CachedPairsExist
  BY DEF BuildInv, CacheReal, Undisturbed, CachedPairsExist, Whole, Located
<1> QED BY <1>1, BuildInvInductive, PTL

=============================================================================
