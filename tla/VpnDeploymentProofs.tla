------------------------ MODULE VpnDeploymentProofs ------------------------
(***************************************************************************)
(* Proofs about VpnDeployment, for any nodes, deployers and rebuilds: type *)
(* correctness, who owns a configuration file, and that a deploy() which   *)
(* returns has configured every node with its own keys.                    *)
(***************************************************************************)
EXTENDS VpnDeployment, TLAPS

Provisioning == {"create", "write", "chmod", "setconf", "exists", "unlink",
                 "addr", "mtu", "up"}
Linking == {"route", "forward", "nat", "rp_all", "rp_default", "end"}

\* What the first and the second loop of deploy() do for node k.
Ready(p, k) ==
  LET n == Nodes[k].ns
  IN  /\ wg[n] = p
      /\ keyed[n] = [key |-> Key(p, n), peers |-> {Key(p, m) : m \in Nodes[k].peers}]
      /\ \A s \in {"addr", "mtu", "up"} : Made(n, s)

Routed(k, j) == \A m \in 1..j : <<Nodes[k].ns, Nodes[k].routes[m]>> \in routes

Linked(k) ==
  LET n == Nodes[k].ns
  IN  /\ Routed(k, Len(Nodes[k].routes))
      /\ IF Nodes[k].role = "server"
         THEN Made(n, "forward") /\ nat[n] > 0
         ELSE Made(n, "rp_all") /\ Made(n, "rp_default")

\* How far p has got, command by command.
Provisioned(p) ==
  /\ at[p].l \in Provisioning => \A k \in 1..(at[p].i - 1) : Ready(p, k)
  /\ at[p].l \in Provisioning \ {"create"} => wg[Ns(p)] = p
  /\ at[p].l \in {"chmod", "setconf"} => conf[Ns(p)] = Config(p)
  /\ at[p].l \in {"exists", "unlink"} /\ ~at[p].failing => keyed[Ns(p)] = Config(p)
  /\ at[p].l \in {"addr", "mtu", "up"} => keyed[Ns(p)] = Config(p)
  /\ at[p].l \in {"mtu", "up"} => Made(Ns(p), "addr")
  /\ at[p].l = "up" => Made(Ns(p), "mtu")

AllLinked(p) ==
  /\ at[p].l \in Linking => \A k \in 1..Len(Nodes) : Ready(p, k)
  /\ at[p].l \in Linking \ {"end"} => \A k \in 1..(at[p].i - 1) : Linked(k)
  /\ at[p].l = "route" => /\ at[p].j <= Len(Node(p).routes)
                          /\ Routed(at[p].i, at[p].j - 1)
  /\ at[p].l \in {"forward", "nat", "rp_all", "rp_default"}
       => Routed(at[p].i, Len(Node(p).routes))
  /\ at[p].l \in {"forward", "nat"} => Node(p).role = "server"
  /\ at[p].l \in {"rp_all", "rp_default"} => Node(p).role # "server"
  /\ at[p].l = "nat" => Made(Ns(p), "forward")
  /\ at[p].l = "rp_default" => Made(Ns(p), "rp_all")
  /\ at[p].l = "end" => \A k \in 1..Len(Nodes) : Linked(k)

SoFar ==
  \A p \in Deployers \ tainted :
    /\ status[p] = "running" => Provisioned(p) /\ AllLinked(p)
    /\ status[p] = "done" => \A k \in 1..Len(Nodes) : Ready(p, k) /\ Linked(k)

\* A deployer that outlived a rebuild and still runs has tainted them all.
Contagious ==
  /\ \A p \in Deployers : status[p] = "new" => p \notin tainted /\ at[p] = Pos("genkey", 1, 1)
  /\ Active \intersect tainted # {} =>
       \A p \in Deployers : status[p] # "new" => p \in tainted

VpnInv == TypeOK /\ Contagious /\ SoFar

-----------------------------------------------------------------------------
LEMMA NodeFacts ==
  /\ Len(Nodes) \in Nat /\ 1 \in 1..Len(Nodes)
  /\ \A k \in 1..Len(Nodes) :
       /\ Nodes[k].ns \in NsNames /\ Nodes[k].ns \in STRING
       /\ Nodes[k].subnet \in STRING
       /\ Nodes[k].peers \subseteq NsNames
       /\ Nodes[k].routes \in Seq(STRING) /\ Len(Nodes[k].routes) \in Nat
       /\ Nodes[k].role \in {"server", "client"}
       /\ \A j \in 1..Len(Nodes[k].routes) : Nodes[k].routes[j] \in STRING
  /\ \A j, k \in 1..Len(Nodes) : Nodes[j].ns = Nodes[k].ns => j = k
<1> DEFINE S == [ns : STRING, role : {"server", "client"}, subnet : STRING,
                 peers : SUBSET STRING, routes : Seq(STRING)]
<1>1. Nodes \in Seq(S) /\ Nodes # <<>>
  BY VpnAssumption DEF VpnAssumption
<1>0. \A k \in 1..Len(Nodes) : Nodes[k] \in S
  <2> HIDE DEF S
  <2> QED BY <1>1
<1>2. \A k \in 1..Len(Nodes) :
        /\ Nodes[k].ns \in STRING /\ Nodes[k].role \in {"server", "client"}
        /\ Nodes[k].subnet \in STRING /\ Nodes[k].routes \in Seq(STRING)
  BY <1>0
<1>3. Len(Nodes) \in Nat /\ 1 \in 1..Len(Nodes)
  BY <1>1
<1>4. \A k \in 1..Len(Nodes) : Nodes[k].peers \subseteq NsNames
  BY VpnAssumption DEF VpnAssumption
<1>5. \A k \in 1..Len(Nodes) : Nodes[k].routes \in Seq(STRING)
  BY <1>2
<1>6. \A k \in 1..Len(Nodes) :
        /\ Len(Nodes[k].routes) \in Nat
        /\ \A j \in 1..Len(Nodes[k].routes) : Nodes[k].routes[j] \in STRING
  BY <1>5
<1>7. \A j, k \in 1..Len(Nodes) : Nodes[j].ns = Nodes[k].ns => j = k
  BY VpnAssumption DEF VpnAssumption
<1> QED BY <1>2, <1>3, <1>4, <1>5, <1>6, <1>7 DEF NsNames

LEMMA SimplePos ==
  \A l \in Labels \ {"route"}, i \in 1..Len(Nodes), j \in Nat \ {0} : Pos(l, i, j) \in PosType
BY DEF Pos, PosType

\* Where the second loop goes on: the next route, or else the boundary.
LEMMA RoutesPos ==
  ASSUME NEW i \in 1..Len(Nodes), NEW j \in Nat \ {0}
  PROVE  /\ RoutesFrom(i, j) \in PosType
         /\ RoutesFrom(i, j).i = i /\ ~RoutesFrom(i, j).failing
         /\ \/ /\ j <= Len(Nodes[i].routes)
               /\ RoutesFrom(i, j).l = "route" /\ RoutesFrom(i, j).j = j
            \/ /\ j > Len(Nodes[i].routes)
               /\ RoutesFrom(i, j).l =
                    (IF Nodes[i].role = "server" THEN "forward" ELSE "rp_all")
<1>1. Len(Nodes[i].routes) \in Nat
  BY NodeFacts
<1>2. BoundaryOf(Nodes[i]) \in Labels \ {"route"}
  BY DEF BoundaryOf, Labels
<1>3. CASE j <= Len(Nodes[i].routes)
  <2>1. RoutesFrom(i, j) = Pos("route", i, j)
    BY <1>3 DEF RoutesFrom
  <2> QED BY <1>3, <2>1 DEF Pos, Labels, PosType
<1>4. CASE ~(j <= Len(Nodes[i].routes))
  <2>1. RoutesFrom(i, j) = Pos(BoundaryOf(Nodes[i]), i, 1)
    BY <1>4 DEF RoutesFrom
  <2>2. Pos(BoundaryOf(Nodes[i]), i, 1) \in PosType
    BY <1>2, SimplePos
  <2> QED BY <1>1, <1>4, <2>1, <2>2 DEF Pos, BoundaryOf
<1> QED BY <1>3, <1>4

LEMMA LinksPos ==
  ASSUME NEW i \in 1..(Len(Nodes) + 1)
  PROVE  /\ LinksFrom(i) \in PosType
         /\ ~LinksFrom(i).failing
         /\ i \in 1..Len(Nodes) => LinksFrom(i) = RoutesFrom(i, 1)
         /\ i = Len(Nodes) + 1 => LinksFrom(i).l = "end"
<1>1. Len(Nodes) \in Nat /\ 1 \in 1..Len(Nodes)
  BY NodeFacts
<1>2. CASE i <= Len(Nodes)
  <2>1. i \in 1..Len(Nodes) /\ LinksFrom(i) = RoutesFrom(i, 1)
    BY <1>1, <1>2 DEF LinksFrom
  <2> QED BY <2>1, <1>1, RoutesPos
<1>3. CASE ~(i <= Len(Nodes))
  <2>1. LinksFrom(i) = Pos("end", 1, 1) /\ i \notin 1..Len(Nodes)
    BY <1>1, <1>3 DEF LinksFrom
  <2>2. Pos("end", 1, 1) \in PosType
    BY <1>1, SimplePos DEF Labels
  <2> QED BY <2>1, <2>2 DEF Pos
<1> QED BY <1>2, <1>3

LEMMA GotoTypes ==
  ASSUME TypeOK, NEW p \in Deployers, NEW pos \in PosType, Goto(p, pos)
  PROVE  /\ at' \in [Deployers -> PosType] /\ at'[p] = pos
         /\ \A q \in Deployers \ {p} : at'[q] = at[q]
         /\ status' = status
BY DEF TypeOK, PosType, Goto

LEMMA RaiseTypes ==
  ASSUME TypeOK, NEW p \in Deployers, Raise(p)
  PROVE  /\ at' \in [Deployers -> PosType]
         /\ \A q \in Deployers \ {p} : at'[q] = at[q] /\ status'[q] = status[q]
         /\ status' \in [Deployers -> {"new", "running", "done", "failed", "killed"}]
         /\ \/ /\ at[p].l = "setconf" /\ status' = status
               /\ at'[p] = [Pos("exists", at[p].i, 1) EXCEPT !.failing = TRUE]
            \/ /\ at[p].l # "setconf" /\ at' = at
               /\ status'[p] = "failed"
<1>1. /\ at \in [Deployers -> PosType]
      /\ status \in [Deployers -> {"new", "running", "done", "failed", "killed"}]
  BY DEF TypeOK, PosType
<1>2. CASE at[p].l = "setconf"
  <2>1. [Pos("exists", at[p].i, 1) EXCEPT !.failing = TRUE] \in PosType
    <3>1. at[p] \in PosType /\ at[p].i \in 1..Len(Nodes)
      BY <1>1 DEF PosType
    <3>2. Pos("exists", at[p].i, 1) \in PosType
      BY <3>1, SimplePos DEF Labels
    <3> QED BY <3>2 DEF PosType
  <2>2. Goto(p, [Pos("exists", at[p].i, 1) EXCEPT !.failing = TRUE])
    BY <1>2 DEF Raise
  <2> HIDE DEF Pos
  <2> QED BY <1>1, <1>2, <2>1, <2>2, GotoTypes
<1>3. CASE at[p].l # "setconf"
  BY <1>1, <1>3 DEF Raise
<1> QED BY <1>2, <1>3

Statuses == {"new", "running", "done", "failed", "killed"}

\* A command of deploy() moves the deployer that runs it and no other.
Moves(p) ==
  /\ at' \in [Deployers -> PosType] /\ status' \in [Deployers -> Statuses]
  /\ \A q \in Deployers \ {p} : at'[q] = at[q] /\ status'[q] = status[q]
  /\ status[p] = "running" /\ status'[p] # "new"
  /\ UNCHANGED env

\* The namespace a deployer is at, and what it would write there.
LEMMA Here ==
  ASSUME TypeOK, NEW p \in Deployers
  PROVE  /\ at[p] \in PosType /\ at[p].i \in 1..Len(Nodes)
         /\ at[p].j \in Nat \ {0} /\ at[p].failing \in BOOLEAN /\ at[p].l \in Labels
         /\ Node(p) = Nodes[at[p].i] /\ Ns(p) \in NsNames
         /\ Config(p) \in KeySets
<1>1. at[p] \in PosType
  BY DEF TypeOK, PosType
<1>2. at[p].i \in 1..Len(Nodes) /\ at[p].j \in Nat \ {0} /\ at[p].l \in Labels
      /\ at[p].failing \in BOOLEAN
  BY <1>1 DEF PosType
<1>3. Ns(p) \in NsNames /\ Node(p).peers \subseteq NsNames
  BY <1>2, NodeFacts DEF Ns, Node
<1>4. Config(p) \in KeySets
  BY <1>3 DEF Config, KeySets, Keys, Key
<1> QED BY <1>1, <1>2, <1>3, <1>4 DEF Node

\* A configuration is not the absence of one.
LEMMA ConfigIsSome ==
  ASSUME TypeOK, NEW p \in Deployers
  PROVE  Config(p) # None
BY Here, VpnAssumption DEF VpnAssumption

LEMMA GotoMoves ==
  ASSUME TypeOK, NEW p \in Deployers, NEW pos \in PosType, Goto(p, pos),
         status[p] = "running", UNCHANGED env
  PROVE  Moves(p) /\ at'[p] = pos /\ status' = status
BY GotoTypes DEF Moves, TypeOK, Statuses

LEMMA RaiseMoves ==
  ASSUME TypeOK, NEW p \in Deployers, Raise(p), status[p] = "running", UNCHANGED env
  PROVE  Moves(p)
BY RaiseTypes DEF Moves, Statuses

LEMMA ThenMoves ==
  ASSUME TypeOK, NEW p \in Deployers, NEW l \in Labels \ {"route"}, Then(p, l),
         status[p] = "running", UNCHANGED env
  PROVE  Moves(p) /\ at'[p] = Pos(l, at[p].i, 1) /\ status' = status
<1>1. Pos(l, at[p].i, 1) \in PosType
  BY Here, SimplePos
<1> QED BY <1>1, GotoMoves DEF Then

LEMMA NextNodeMoves ==
  ASSUME TypeOK, NEW p \in Deployers, NEW l \in Labels \ {"route"}, NEW after \in PosType,
         NextNode(p, l, after), status[p] = "running", UNCHANGED env
  PROVE  /\ Moves(p) /\ status' = status
         /\ \/ at[p].i < Len(Nodes) /\ at'[p] = Pos(l, at[p].i + 1, 1)
            \/ at[p].i = Len(Nodes) /\ at'[p] = after
<1>1. at[p].i \in 1..Len(Nodes) /\ Len(Nodes) \in Nat
  BY Here, NodeFacts
<1>2. CASE at[p].i < Len(Nodes)
  <2>1. Pos(l, at[p].i + 1, 1) \in PosType
    BY <1>1, <1>2, SimplePos
  <2>2. Goto(p, Pos(l, at[p].i + 1, 1))
    BY <1>2 DEF NextNode
  <2> QED BY <1>2, <2>1, <2>2, GotoMoves
<1>3. CASE ~(at[p].i < Len(Nodes))
  <2>1. Goto(p, after)
    BY <1>3 DEF NextNode
  <2> QED BY <1>1, <1>3, <2>1, GotoMoves
<1> QED BY <1>2, <1>3

LEMMA AppliedMoves ==
  ASSUME TypeOK, NEW p \in Deployers, Applied(p), status[p] = "running", UNCHANGED env
  PROVE  /\ Moves(p)
         /\ \/ ~at[p].failing /\ at'[p] = Pos("addr", at[p].i, 1) /\ status' = status
            \/ status'[p] = "failed" /\ at' = at
<1>1. CASE at[p].failing
  BY <1>1 DEF Applied, Moves, TypeOK, PosType, Statuses
<1>2. CASE ~at[p].failing
  BY <1>2, ThenMoves DEF Applied, Labels
<1> QED BY <1>1, <1>2

-----------------------------------------------------------------------------
KernelTypes ==
  /\ netns \subseteq NsNames
  /\ wg \in [NsNames -> Deployers \union {None}]
  /\ keyed \in [NsNames -> KeySets \union {None}]
  /\ conf \in [NsNames -> KeySets \union {None}]
  /\ set \subseteq NsNames \X {"addr", "mtu", "up", "forward", "rp_all", "rp_default"}
  /\ routes \subseteq NsNames \X STRING
  /\ nat \in [NsNames -> Nat]

LEMMA TypeParts ==
  TypeOK <=> /\ KernelTypes
             /\ status \in [Deployers -> Statuses] /\ at \in [Deployers -> PosType]
             /\ tainted \subseteq Deployers /\ lone \subseteq Deployers
             /\ rebuilds \in 0..MaxRebuilds /\ faults \in 0..MaxFaults
BY DEF TypeOK, KernelTypes, PosType, Statuses

LEMMA TypePartsNext ==
  ASSUME KernelTypes',
         status' \in [Deployers -> Statuses], at' \in [Deployers -> PosType],
         tainted' \subseteq Deployers, lone' \subseteq Deployers,
         rebuilds' \in 0..MaxRebuilds, faults' \in 0..MaxFaults
  PROVE  TypeOK'
BY DEF TypeOK, KernelTypes, PosType, Statuses

-----------------------------------------------------------------------------
(***************************************************************************)
(* What a command of deploy() can do to the host: settings, routes and     *)
(* rules are only added; an interface is created where there was none, and *)
(* its keys and its file change only while its node is being configured.   *)
(***************************************************************************)
Grows ==
  /\ set \subseteq set' /\ routes \subseteq routes'
  /\ \A n \in NsNames : nat'[n] = nat[n] \/ nat'[n] = nat[n] + 1

Footprint(p) ==
  /\ Grows
  /\ \A n \in NsNames :
       /\ \/ wg'[n] = wg[n]
          \/ n = Ns(p) /\ at[p].l = "create" /\ wg[n] = None /\ wg'[n] = p
       /\ keyed'[n] = keyed[n] \/ (n = Ns(p) /\ at[p].l = "setconf")
       /\ conf'[n] = conf[n] \/ (n = Ns(p) /\ at[p].l \in {"write", "unlink"})

LEMMA KernelKept ==
  ASSUME TypeOK, NEW p \in Deployers, UNCHANGED <<kernel, conf>>
  PROVE  KernelTypes' /\ Footprint(p)
BY TypeParts DEF KernelTypes, Footprint, Grows, kernel

LEMMA DeployStep ==
  ASSUME TypeOK, NEW p \in Deployers, Deploy(p)
  PROVE  Moves(p) /\ KernelTypes' /\ Footprint(p)
<1>1. /\ at[p].i \in 1..Len(Nodes) /\ at[p].j \in Nat \ {0} /\ Ns(p) \in NsNames
      /\ Config(p) \in KeySets /\ at[p] \in PosType /\ Node(p) = Nodes[at[p].i]
  BY Here
<1>2. KernelTypes /\ status[p] \in Statuses
  BY TypeParts
<1>3. /\ Len(Nodes) \in Nat /\ 1 \in 1..Len(Nodes)
      /\ LinksFrom(1) \in PosType /\ LinksFrom(at[p].i + 1) \in PosType
  BY <1>1, NodeFacts, LinksPos
<1>4. CASE GenerateKey(p)
  <2>1. status[p] = "running" /\ UNCHANGED <<kernel, conf, env>>
    BY <1>4 DEF GenerateKey, At
  <2>2. Pos("create", 1, 1) \in PosType
    BY <1>3, SimplePos DEF Labels
  <2>3. \/ Then(p, "pubkey") \/ NextNode(p, "genkey", Pos("create", 1, 1))
        \/ Raise(p)
    BY <1>4 DEF GenerateKey
  <2> QED BY <2>1, <2>2, <2>3, ThenMoves, NextNodeMoves, RaiseMoves, KernelKept
         DEF Labels
<1>5. CASE Ask(p)
  <2>1. status[p] = "running" /\ UNCHANGED <<kernel, conf, env>>
    BY <1>5 DEF Ask
  <2>2. [at[p] EXCEPT !.asked = TRUE] \in PosType
    BY <1>1 DEF PosType
  <2>3. Goto(p, [at[p] EXCEPT !.asked = TRUE]) \/ Raise(p)
    BY <1>5 DEF Ask
  <2> QED BY <2>1, <2>2, <2>3, GotoMoves, RaiseMoves, KernelKept
<1>6. CASE CreateInterface(p)
  <2>1. /\ status[p] = "running" /\ at[p].l = "create" /\ UNCHANGED <<conf, env>>
        /\ \/ Raise(p) /\ UNCHANGED kernel
           \/ Then(p, "write") /\ wg[Ns(p)] = None
              /\ wg' = [wg EXCEPT ![Ns(p)] = p]
              /\ UNCHANGED <<netns, keyed, set, routes, nat>>
    BY <1>6 DEF CreateInterface, Execute, At
  <2>2. CASE Raise(p) /\ UNCHANGED kernel
    BY <2>1, <2>2, RaiseMoves, KernelKept DEF kernel
  <2>3. CASE Then(p, "write") /\ wg[Ns(p)] = None
              /\ wg' = [wg EXCEPT ![Ns(p)] = p]
              /\ UNCHANGED <<netns, keyed, set, routes, nat>>
    <3>1. Moves(p)
      BY <1>1, <1>3, <2>1, <2>3, ThenMoves DEF Labels
    <3>2. KernelTypes' /\ Footprint(p)
      BY <1>1, <1>2, <2>1, <2>3 DEF KernelTypes, Footprint, Grows
    <3> QED BY <3>1, <3>2
  <2> QED BY <2>1, <2>2, <2>3
<1>7. CASE SetConf(p)
  <2>1. /\ status[p] = "running" /\ at[p].l = "setconf" /\ UNCHANGED <<conf, env>>
        /\ \/ Raise(p) /\ UNCHANGED kernel
           \/ Then(p, "exists") /\ keyed' = [keyed EXCEPT ![Ns(p)] = conf[Ns(p)]]
              /\ UNCHANGED <<netns, wg, set, routes, nat>>
    BY <1>7 DEF SetConf, Execute, At
  <2>2. CASE Raise(p) /\ UNCHANGED kernel
    BY <2>1, <2>2, RaiseMoves, KernelKept DEF kernel
  <2>3. CASE Then(p, "exists") /\ keyed' = [keyed EXCEPT ![Ns(p)] = conf[Ns(p)]]
              /\ UNCHANGED <<netns, wg, set, routes, nat>>
    <3>1. Moves(p)
      BY <1>1, <1>3, <2>1, <2>3, ThenMoves DEF Labels
    <3>2. KernelTypes' /\ Footprint(p)
      BY <1>1, <1>2, <2>1, <2>3 DEF KernelTypes, Footprint, Grows
    <3> QED BY <3>1, <3>2
  <2> QED BY <2>1, <2>2, <2>3
<1>8. CASE Address(p)
  <2>1. /\ status[p] = "running" /\ at[p].l = "addr" /\ UNCHANGED <<conf, env>>
        /\ \/ Raise(p) /\ UNCHANGED kernel
           \/ Then(p, "mtu") /\ set' = set \union {<<Ns(p), "addr">>}
              /\ UNCHANGED <<netns, wg, keyed, routes, nat>>
    BY <1>8 DEF Address, Setting, Execute, At
  <2>2. CASE Raise(p) /\ UNCHANGED kernel
    BY <2>1, <2>2, RaiseMoves, KernelKept DEF kernel
  <2>3. CASE Then(p, "mtu") /\ set' = set \union {<<Ns(p), "addr">>}
              /\ UNCHANGED <<netns, wg, keyed, routes, nat>>
    <3>1. Moves(p)
      BY <1>1, <1>3, <2>1, <2>3, ThenMoves DEF Labels
    <3>2. KernelTypes' /\ Footprint(p)
      BY <1>1, <1>2, <2>1, <2>3 DEF KernelTypes, Footprint, Grows
    <3> QED BY <3>1, <3>2
  <2> QED BY <2>1, <2>2, <2>3
<1>9. CASE Mtu(p)
  <2>1. /\ status[p] = "running" /\ at[p].l = "mtu" /\ UNCHANGED <<conf, env>>
        /\ \/ Raise(p) /\ UNCHANGED kernel
           \/ Then(p, "up") /\ set' = set \union {<<Ns(p), "mtu">>}
              /\ UNCHANGED <<netns, wg, keyed, routes, nat>>
    BY <1>9 DEF Mtu, Setting, Execute, At
  <2>2. CASE Raise(p) /\ UNCHANGED kernel
    BY <2>1, <2>2, RaiseMoves, KernelKept DEF kernel
  <2>3. CASE Then(p, "up") /\ set' = set \union {<<Ns(p), "mtu">>}
              /\ UNCHANGED <<netns, wg, keyed, routes, nat>>
    <3>1. Moves(p)
      BY <1>1, <1>3, <2>1, <2>3, ThenMoves DEF Labels
    <3>2. KernelTypes' /\ Footprint(p)
      BY <1>1, <1>2, <2>1, <2>3 DEF KernelTypes, Footprint, Grows
    <3> QED BY <3>1, <3>2
  <2> QED BY <2>1, <2>2, <2>3
<1>10. CASE Forward(p)
  <2>1. /\ status[p] = "running" /\ at[p].l = "forward" /\ UNCHANGED <<conf, env>>
        /\ \/ Raise(p) /\ UNCHANGED kernel
           \/ Then(p, "nat") /\ set' = set \union {<<Ns(p), "forward">>}
              /\ UNCHANGED <<netns, wg, keyed, routes, nat>>
    BY <1>10 DEF Forward, Setting, Execute, At
  <2>2. CASE Raise(p) /\ UNCHANGED kernel
    BY <2>1, <2>2, RaiseMoves, KernelKept DEF kernel
  <2>3. CASE Then(p, "nat") /\ set' = set \union {<<Ns(p), "forward">>}
              /\ UNCHANGED <<netns, wg, keyed, routes, nat>>
    <3>1. Moves(p)
      BY <1>1, <1>3, <2>1, <2>3, ThenMoves DEF Labels
    <3>2. KernelTypes' /\ Footprint(p)
      BY <1>1, <1>2, <2>1, <2>3 DEF KernelTypes, Footprint, Grows
    <3> QED BY <3>1, <3>2
  <2> QED BY <2>1, <2>2, <2>3
<1>11. CASE RpAll(p)
  <2>1. /\ status[p] = "running" /\ at[p].l = "rp_all" /\ UNCHANGED <<conf, env>>
        /\ \/ Raise(p) /\ UNCHANGED kernel
           \/ Then(p, "rp_default") /\ set' = set \union {<<Ns(p), "rp_all">>}
              /\ UNCHANGED <<netns, wg, keyed, routes, nat>>
    BY <1>11 DEF RpAll, Setting, Execute, At
  <2>2. CASE Raise(p) /\ UNCHANGED kernel
    BY <2>1, <2>2, RaiseMoves, KernelKept DEF kernel
  <2>3. CASE Then(p, "rp_default") /\ set' = set \union {<<Ns(p), "rp_all">>}
              /\ UNCHANGED <<netns, wg, keyed, routes, nat>>
    <3>1. Moves(p)
      BY <1>1, <1>3, <2>1, <2>3, ThenMoves DEF Labels
    <3>2. KernelTypes' /\ Footprint(p)
      BY <1>1, <1>2, <2>1, <2>3 DEF KernelTypes, Footprint, Grows
    <3> QED BY <3>1, <3>2
  <2> QED BY <2>1, <2>2, <2>3
<1>12. CASE RpDefault(p)
  <2>1. /\ status[p] = "running" /\ at[p].l = "rp_default" /\ UNCHANGED <<conf, env>>
        /\ \/ Raise(p) /\ UNCHANGED kernel
           \/ Goto(p, LinksFrom(at[p].i + 1)) /\ set' = set \union {<<Ns(p), "rp_default">>}
              /\ UNCHANGED <<netns, wg, keyed, routes, nat>>
    BY <1>12 DEF RpDefault, Setting, Execute, At
  <2>2. CASE Raise(p) /\ UNCHANGED kernel
    BY <2>1, <2>2, RaiseMoves, KernelKept DEF kernel
  <2>3. CASE Goto(p, LinksFrom(at[p].i + 1)) /\ set' = set \union {<<Ns(p), "rp_default">>}
              /\ UNCHANGED <<netns, wg, keyed, routes, nat>>
    <3>1. Moves(p)
      BY <1>1, <1>3, <2>1, <2>3, GotoMoves DEF Labels
    <3>2. KernelTypes' /\ Footprint(p)
      BY <1>1, <1>2, <2>1, <2>3 DEF KernelTypes, Footprint, Grows
    <3> QED BY <3>1, <3>2
  <2> QED BY <2>1, <2>2, <2>3
<1>13. CASE LinkUp(p)
  <2>1. /\ status[p] = "running" /\ at[p].l = "up" /\ UNCHANGED <<conf, env>>
        /\ \/ Raise(p) /\ UNCHANGED kernel
           \/ NextNode(p, "create", LinksFrom(1)) /\ set' = set \union {<<Ns(p), "up">>}
              /\ routes' \in {routes, routes \union {<<Ns(p), Node(p).subnet>>}}
              /\ UNCHANGED <<netns, wg, keyed, nat>>
    BY <1>13 DEF LinkUp, Execute, At
  <2>2. CASE Raise(p) /\ UNCHANGED kernel
    BY <2>1, <2>2, RaiseMoves, KernelKept DEF kernel
  <2>3. CASE NextNode(p, "create", LinksFrom(1)) /\ set' = set \union {<<Ns(p), "up">>}
              /\ routes' \in {routes, routes \union {<<Ns(p), Node(p).subnet>>}}
              /\ UNCHANGED <<netns, wg, keyed, nat>>
    <3>1. Moves(p)
      BY <1>1, <1>3, <2>1, <2>3, NextNodeMoves DEF Labels
    <3>2. KernelTypes' /\ Footprint(p)
      <4>1. <<Ns(p), Node(p).subnet>> \in NsNames \X STRING
        BY <1>1, NodeFacts
      <4>2. routes \subseteq routes' /\ routes' \subseteq NsNames \X STRING
        BY <1>2, <2>3, <4>1 DEF KernelTypes
      <4> QED BY <1>1, <1>2, <2>1, <2>3, <4>2 DEF KernelTypes, Footprint, Grows
    <3> QED BY <3>1, <3>2
  <2> QED BY <2>1, <2>2, <2>3
<1>14. CASE Masquerade(p)
  <2>1. /\ status[p] = "running" /\ at[p].l = "nat" /\ UNCHANGED <<conf, env>>
        /\ \/ Raise(p) /\ UNCHANGED kernel
           \/ Goto(p, LinksFrom(at[p].i + 1)) /\ nat' = [nat EXCEPT ![Ns(p)] = @ + 1]
              /\ UNCHANGED <<netns, wg, keyed, set, routes>>
    BY <1>14 DEF Masquerade, Execute, At
  <2>2. CASE Raise(p) /\ UNCHANGED kernel
    BY <2>1, <2>2, RaiseMoves, KernelKept DEF kernel
  <2>3. CASE Goto(p, LinksFrom(at[p].i + 1)) /\ nat' = [nat EXCEPT ![Ns(p)] = @ + 1]
              /\ UNCHANGED <<netns, wg, keyed, set, routes>>
    <3>1. Moves(p)
      BY <1>1, <1>3, <2>1, <2>3, GotoMoves DEF Labels
    <3>2. KernelTypes' /\ Footprint(p)
      BY <1>1, <1>2, <2>1, <2>3 DEF KernelTypes, Footprint, Grows
    <3> QED BY <3>1, <3>2
  <2> QED BY <2>1, <2>2, <2>3
<1>15. CASE WriteConfig(p)
  <2>1. status[p] = "running" /\ Then(p, "chmod") /\ UNCHANGED env
    BY <1>15 DEF WriteConfig, At
  <2>2. KernelTypes' /\ Footprint(p)
    BY <1>1, <1>2, <1>15 DEF WriteConfig, At, KernelTypes, Footprint, Grows, kernel
  <2> QED BY <2>1, <2>2, ThenMoves DEF Labels
<1>16. CASE Chmod(p)
  <2>1. status[p] = "running" /\ UNCHANGED <<kernel, conf, env>>
        /\ (Then(p, "setconf") \/ Raise(p))
    BY <1>16 DEF Chmod, At
  <2> QED BY <2>1, ThenMoves, RaiseMoves, KernelKept DEF Labels
<1>17. CASE FileExists(p)
  <2>1. /\ status[p] = "running" /\ UNCHANGED <<kernel, conf, env>>
        /\ Goto(p, [at[p] EXCEPT !.l = "unlink"]) \/ Applied(p)
    BY <1>17 DEF FileExists, At
  <2>2. [at[p] EXCEPT !.l = "unlink"] \in PosType
    BY <1>1 DEF PosType, Labels
  <2> QED BY <2>1, <2>2, GotoMoves, AppliedMoves, KernelKept
<1>18. CASE Unlink(p)
  <2>1. status[p] = "running" /\ UNCHANGED env /\ (Raise(p) \/ Applied(p))
    BY <1>18 DEF Unlink, At
  <2>2. KernelTypes' /\ Footprint(p)
    BY <1>1, <1>2, <1>18 DEF Unlink, At, KernelTypes, Footprint, Grows, kernel
  <2> QED BY <2>1, <2>2, RaiseMoves, AppliedMoves
<1>19. CASE AddRoute(p)
  <2> DEFINE r == <<Ns(p), Node(p).routes[at[p].j]>>
  <2>1. /\ status[p] = "running" /\ UNCHANGED <<conf, env>>
        /\ \/ Raise(p) /\ UNCHANGED kernel
           \/ /\ Goto(p, RoutesFrom(at[p].i, at[p].j + 1))
              /\ routes' = routes \union {r}
              /\ UNCHANGED <<netns, wg, keyed, set, nat>>
        /\ at[p].l = "route"
    BY <1>19 DEF AddRoute, Execute, At
  <2>2. CASE Raise(p) /\ UNCHANGED kernel
    BY <2>1, <2>2, RaiseMoves, KernelKept DEF kernel
  <2>3. CASE /\ Goto(p, RoutesFrom(at[p].i, at[p].j + 1))
             /\ routes' = routes \union {r}
             /\ UNCHANGED <<netns, wg, keyed, set, nat>>
    <3>1. RoutesFrom(at[p].i, at[p].j + 1) \in PosType
      BY <1>1, RoutesPos
    <3>2. r \in NsNames \X STRING
      BY <1>1, <2>1, NodeFacts DEF PosType
    <3>3. KernelTypes' /\ Footprint(p)
      BY <1>2, <2>1, <2>3, <3>2 DEF KernelTypes, Footprint, Grows
    <3> QED BY <2>1, <2>3, <3>1, <3>3, GotoMoves
  <2> QED BY <2>1, <2>2, <2>3
<1>20. CASE Return(p)
  <2>1. Moves(p)
    BY <1>1, <1>2, <1>20, TypeParts DEF Return, At, Moves, Statuses
  <2>2. UNCHANGED <<kernel, conf>>
    BY <1>20 DEF Return
  <2> QED BY <2>1, <2>2, KernelKept
<1> QED
  BY <1>4, <1>5, <1>6, <1>7, <1>8, <1>9, <1>10, <1>11, <1>12, <1>13, <1>14, <1>15, <1>16, <1>17, <1>18, <1>19, <1>20 DEF Deploy

-----------------------------------------------------------------------------
LEMMA TypeInit == Init => TypeOK /\ Contagious /\ SoFar
<1> SUFFICES ASSUME Init PROVE TypeOK /\ Contagious /\ SoFar
  OBVIOUS
<1>1. Pos("genkey", 1, 1) \in PosType
  BY NodeFacts, SimplePos DEF Labels
<1>2. KernelTypes
  BY VpnAssumption DEF Init, KernelTypes, VpnAssumption
<1>3. status \in [Deployers -> Statuses] /\ at \in [Deployers -> PosType]
  BY <1>1 DEF Init, Statuses
<1>4. /\ tainted \subseteq Deployers /\ lone \subseteq Deployers
      /\ rebuilds \in 0..MaxRebuilds /\ faults \in 0..MaxFaults
  BY VpnAssumption DEF Init, VpnAssumption
<1>5. Contagious
  BY DEF Init, Contagious
<1>6. SoFar
  BY DEF Init, SoFar
<1> QED BY <1>2, <1>3, <1>4, <1>5, <1>6, TypeParts

LEMMA EnvironmentTypes ==
  ASSUME TypeOK, Environment
  PROVE  TypeOK'
<1>1. /\ KernelTypes /\ status \in [Deployers -> Statuses] /\ at \in [Deployers -> PosType]
      /\ tainted \subseteq Deployers /\ lone \subseteq Deployers
      /\ rebuilds \in 0..MaxRebuilds /\ faults \in 0..MaxFaults
      /\ MaxRebuilds \in Nat /\ MaxFaults \in Nat
  BY TypeParts, VpnAssumption DEF VpnAssumption
<1>2. ASSUME NEW p \in Deployers, Start(p) PROVE TypeOK'
  <2>1. KernelTypes' /\ at' = at /\ rebuilds' = rebuilds /\ faults' = faults
    BY <1>1, <1>2 DEF Start, KernelTypes, kernel
  <2>2. status' \in [Deployers -> Statuses]
    BY <1>1, <1>2 DEF Start, Statuses
  <2>3. tainted' \subseteq Deployers /\ lone' \subseteq Deployers
    BY <1>1, <1>2 DEF Start
  <2> QED BY <1>1, <2>1, <2>2, <2>3, TypePartsNext
<1>3. ASSUME NEW p \in Deployers, CommandFails(p) PROVE TypeOK'
  <2>1. /\ at' \in [Deployers -> PosType] /\ status' \in [Deployers -> Statuses]
    BY <1>3, RaiseTypes DEF CommandFails, Statuses
  <2>2. Config(p) \in KeySets /\ Ns(p) \in NsNames
    BY Here
  <2>3. conf' \in [NsNames -> KeySets \union {None}]
    BY <1>1, <1>3, <2>2 DEF CommandFails, KernelTypes
  <2>4. KernelTypes'
    BY <1>1, <1>3, <2>3 DEF CommandFails, KernelTypes, kernel
  <2>5. /\ tainted' \subseteq Deployers /\ lone' \subseteq Deployers
        /\ rebuilds' \in 0..MaxRebuilds /\ faults' \in 0..MaxFaults
    BY <1>1, <1>3 DEF CommandFails
  <2> QED BY <2>1, <2>4, <2>5, TypePartsNext
<1>4. ASSUME NEW p \in Deployers, Kill(p) PROVE TypeOK'
  <2>1. status' \in [Deployers -> Statuses]
    BY <1>1, <1>4 DEF Kill, Statuses
  <2> QED BY <1>1, <1>4, <2>1, TypePartsNext DEF Kill, KernelTypes, kernel, env
<1>5. ASSUME NEW n \in NsNames, DeleteNamespace(n) PROVE TypeOK'
  <2>1. KernelTypes'
    BY <1>1, <1>5 DEF DeleteNamespace, KernelTypes
  <2>2. /\ tainted' \subseteq Deployers /\ lone' \subseteq Deployers
        /\ rebuilds' \in 0..MaxRebuilds /\ faults' \in 0..MaxFaults
    BY <1>1, <1>5 DEF DeleteNamespace
  <2> QED BY <1>1, <1>5, <2>1, <2>2, TypePartsNext DEF DeleteNamespace
<1>6. ASSUME NEW n \in NsNames, CreateNamespace(n) PROVE TypeOK'
  <2>1. routes' \subseteq NsNames \X STRING
    BY <1>1, <1>6, VpnAssumption DEF CreateNamespace, VpnAssumption, KernelTypes
  <2> QED BY <1>1, <1>6, <2>1, TypePartsNext DEF CreateNamespace, KernelTypes, env
<1> QED BY <1>2, <1>3, <1>4, <1>5, <1>6 DEF Environment

LEMMA TypeStep == TypeOK /\ [Next]_vars => TypeOK'
<1> SUFFICES ASSUME TypeOK, [Next]_vars PROVE TypeOK'
  OBVIOUS
<1>1. ASSUME NEW p \in Deployers, Deploy(p) PROVE TypeOK'
  BY <1>1, DeployStep, TypeParts, TypePartsNext DEF Moves, env
<1>2. CASE Environment
  BY <1>2, EnvironmentTypes
<1>3. CASE UNCHANGED vars
  BY <1>3, TypeParts, TypePartsNext DEF vars, kernel, env, KernelTypes
<1> QED BY <1>1, <1>2, <1>3 DEF Next

\* Type correctness of the deployment: no command ever runs for a node or a
\* route the configuration does not have.
THEOREM DeploymentTypes == Spec => []TypeOK
<1>1. Init => TypeOK
  BY TypeInit
<1> QED BY <1>1, TypeStep, PTL DEF Spec

-----------------------------------------------------------------------------
\* A deployer leaves the section between write_text and unlink only when the
\* file is gone, or by dying in it.
LEMMA Section ==
  ASSUME NEW p \in Deployers, Deploy(p)
  PROVE  /\ at[p].l = "chmod" => Chmod(p)
         /\ at[p].l = "setconf" => Ask(p) \/ SetConf(p)
         /\ at[p].l = "exists" => FileExists(p)
         /\ at[p].l = "unlink" => Unlink(p)
BY DEF Deploy, GenerateKey, Ask, CreateInterface, WriteConfig, Chmod, SetConf,
       FileExists, Unlink, Address, Mtu, LinkUp, AddRoute, Forward, Masquerade,
       RpAll, RpDefault, Return, Setting, Execute, At, Executed

LEMMA StepFaults ==
  ASSUME TypeOK, [Next]_vars PROVE faults' = faults \/ faults' = faults + 1
<1>1. \A p \in Deployers : Deploy(p) => faults' = faults
  BY DeployStep DEF Moves, env
<1>2. \A p \in Deployers : Start(p) \/ Kill(p) => faults' = faults
  BY DEF Start, Kill, env
<1>3. \A p \in Deployers : CommandFails(p) => faults' = faults + 1
  BY DEF CommandFails
<1>4. \A n \in NsNames : DeleteNamespace(n) \/ CreateNamespace(n) => faults' = faults
  BY DEF DeleteNamespace, CreateNamespace, env
<1> QED BY <1>1, <1>2, <1>3, <1>4 DEF Next, Environment, vars, env

LEMMA OwnedStep == TypeOK /\ ConfigFileOwned /\ [Next]_vars => ConfigFileOwned'
<1> SUFFICES ASSUME TypeOK, ConfigFileOwned, [Next]_vars,
                    NEW n \in NsNames, conf'[n] # None
             PROVE  \E p \in Deployers :
                      /\ Ns(p)' = n
                      /\ \/ status'[p] \in {"running", "killed"}
                            /\ at'[p].l \in {"chmod", "setconf", "exists", "unlink"}
                         \/ /\ status'[p] = "failed" /\ faults' > 0
                            /\ at'[p].l \in {"write", "chmod", "unlink"}
  BY DEF ConfigFileOwned
<1> DEFINE Holds(p) ==
             /\ Ns(p) = n
             /\ \/ status[p] \in {"running", "killed"}
                   /\ at[p].l \in {"chmod", "setconf", "exists", "unlink"}
                \/ /\ status[p] = "failed" /\ faults > 0
                   /\ at[p].l \in {"write", "chmod", "unlink"}
<1>1. conf[n] # None => \E p \in Deployers : Holds(p)
  BY DEF ConfigFileOwned
<1>0. faults \in Nat /\ faults' \in Nat /\ faults' >= faults
  <2>1. faults \in 0..MaxFaults /\ MaxFaults \in Nat
    BY VpnAssumption DEF TypeOK, VpnAssumption
  <2>2. faults' = faults \/ faults' = faults + 1
    BY StepFaults
  <2> QED BY <2>1, <2>2
<1>2. ASSUME NEW p \in Deployers, Holds(p), at'[p] = at[p], status'[p] = status[p]
      PROVE  Holds(p)'
  BY <1>0, <1>2 DEF Ns, Node
<1>3. ASSUME NEW q \in Deployers, Deploy(q) PROVE \E p \in Deployers : Holds(p)'
  <2>1. Moves(q) /\ Footprint(q)
    BY <1>3, DeployStep
  <2>2. at[q] \in PosType /\ at \in [Deployers -> PosType] /\ status[q] = "running"
        /\ status \in [Deployers -> Statuses]
    BY <2>1, TypeParts, Here DEF Moves
  <2>3. CASE WriteConfig(q)
    <3>1. Ns(q) = n \/ conf'[n] = conf[n]
      BY <2>1, <2>3 DEF Footprint
    <3>2. CASE Ns(q) = n
      <4>1. at'[q] = Pos("chmod", at[q].i, 1) /\ status'[q] = "running"
        BY <2>2, <2>3 DEF WriteConfig, Then, Goto
      <4> QED BY <3>2, <4>1 DEF Ns, Node, Pos
    <3>3. CASE Ns(q) # n
      <4>1. PICK p \in Deployers : Holds(p)
        BY <1>1, <3>1, <3>3
      <4> QED BY <1>2, <2>1, <3>3, <4>1 DEF Moves
    <3> QED BY <3>2, <3>3
  <2>4. CASE ~WriteConfig(q)
    <3>1. conf'[n] = conf[n]
      BY <1>3, <2>2, <2>4, TypeParts
      DEF Deploy, GenerateKey, Ask, CreateInterface, Chmod, SetConf, FileExists,
          Unlink, Address, Mtu, LinkUp, AddRoute, Forward, Masquerade, RpAll,
          RpDefault, Return, Setting, Execute, KernelTypes
    <3>2. PICK p \in Deployers : Holds(p)
      BY <1>1, <3>1
    <3>3. CASE p # q
      BY <1>2, <2>1, <3>2, <3>3 DEF Moves
    <3>4. CASE p = q /\ at[q].l \in {"chmod", "setconf", "exists", "unlink"}
      <4>1. conf[Ns(q)] # None /\ conf'[Ns(q)] # None /\ Ns(q) = n
        BY <3>1, <3>2, <3>4
      <4>2. /\ status'[q] = "running" /\ at'[q].i = at[q].i
            /\ at'[q].l \in {"setconf", "exists", "unlink"}
        <5>1. CASE Chmod(q)
          BY <2>2, <4>1, <5>1 DEF Chmod, Then, Goto, Pos
        <5>2. CASE at[q].l = "setconf" /\ Ask(q)
          <6>1. CASE Goto(q, [at[q] EXCEPT !.asked = TRUE])
            BY <2>2, <5>2, <6>1 DEF Goto, PosType
          <6>2. CASE Raise(q)
            BY <2>2, <5>2, <6>2 DEF Raise, Goto, Pos
          <6> QED BY <5>2, <6>1, <6>2 DEF Ask
        <5>3. CASE SetConf(q)
          BY <2>2, <5>3 DEF SetConf, Execute, At, Then, Raise, Goto, Pos
        <5>4. CASE FileExists(q)
          BY <2>2, <4>1, <5>4 DEF FileExists, Goto, PosType
        <5>5. CASE Unlink(q)
          <6>1. Ns(q) \in NsNames /\ conf \in [NsNames -> KeySets \union {None}]
            BY Here, TypeParts DEF KernelTypes
          <6> QED BY <4>1, <5>5, <6>1 DEF Unlink
        <5> QED BY <1>3, <3>4, <5>1, <5>2, <5>3, <5>4, <5>5, Section
      <4> QED BY <4>1, <4>2 DEF Ns, Node
    <3> QED BY <2>2, <3>2, <3>3, <3>4
  <2> QED BY <2>3, <2>4
<1>4. ASSUME conf'[n] = conf[n], NEW q \in Deployers, Start(q) \/ Kill(q)
      PROVE  \E p \in Deployers : Holds(p)'
  <2>1. PICK p \in Deployers : Holds(p)
    BY <1>1, <1>4
  <2>2. /\ at' = at
        /\ \/ status'[p] = status[p]
           \/ status[p] = "running" /\ status'[p] = "killed"
    BY <1>4, <2>1, TypeParts DEF Start, Kill, Statuses
  <2>3. Ns(p)' = Ns(p) /\ at'[p] = at[p]
    BY <2>2 DEF Ns, Node
  <2>4. CASE status'[p] = status[p]
    BY <1>2, <2>1, <2>3, <2>4
  <2>5. CASE status[p] = "running" /\ status'[p] = "killed"
    BY <2>1, <2>3, <2>5
  <2> QED BY <2>2, <2>4, <2>5
<1>5. ASSUME NEW q \in Deployers, CommandFails(q)
      PROVE  \E p \in Deployers : Holds(p)'
  <2>1. /\ at[q] \in PosType /\ at \in [Deployers -> PosType] /\ status[q] = "running"
        /\ status \in [Deployers -> Statuses] /\ at[q].l # "exists"
        /\ \A p \in Deployers \ {q} : at'[p] = at[p] /\ status'[p] = status[p]
    BY <1>5, TypeParts, Here, RaiseTypes DEF CommandFails
  <2>0. faults' > 0
    BY <1>0, <1>5 DEF CommandFails
  <2>2. CASE at[q].l = "write" /\ Ns(q) = n
    <3>1. status'[q] = "failed" /\ at' = at
      BY <1>5, <2>1, <2>2 DEF CommandFails, Raise
    <3> QED BY <2>0, <2>2, <3>1 DEF Ns, Node
  <2>3. CASE ~(at[q].l = "write" /\ Ns(q) = n)
    <3>1. conf'[n] = conf[n]
      BY <1>5, <2>3, Here, TypeParts DEF CommandFails, KernelTypes
    <3>2. PICK p \in Deployers : Holds(p)
      BY <1>1, <3>1
    <3>3. CASE p # q
      BY <1>2, <2>1, <3>2, <3>3
    <3>4. CASE p = q /\ at[q].l = "setconf"
      <4>1. status'[q] = "running" /\ at'[q].l = "exists" /\ at'[q].i = at[q].i
        BY <1>5, <2>1, <3>4 DEF CommandFails, Raise, Goto, Pos
      <4> QED BY <3>2, <3>4, <4>1 DEF Ns, Node
    <3>5. CASE p = q /\ at[q].l \in {"chmod", "unlink"}
      <4>1. status'[q] = "failed" /\ at' = at
        BY <1>5, <2>1, <3>5 DEF CommandFails, Raise
      <4> QED BY <2>0, <3>2, <3>5, <4>1 DEF Ns, Node
    <3> QED BY <2>1, <3>2, <3>3, <3>4, <3>5
  <2> QED BY <2>2, <2>3
<1>6. CASE UNCHANGED <<conf, status, at>>
  BY <1>1, <1>2, <1>6
<1>7. \A q \in Deployers : Start(q) \/ Kill(q) => conf'[n] = conf[n]
  BY DEF Start, Kill
<1>8. \A m \in NsNames : DeleteNamespace(m) \/ CreateNamespace(m)
        => UNCHANGED <<conf, status, at>>
  BY DEF DeleteNamespace, CreateNamespace
<1>9. UNCHANGED vars => UNCHANGED <<conf, status, at>>
  BY DEF vars
<1>10. \E p \in Deployers : Holds(p)'
  BY <1>3, <1>4, <1>5, <1>6, <1>7, <1>8, <1>9 DEF Next, Environment
<1> QED BY <1>10

\* generate_and_apply_config: however deployers share the file and whatever
\* fails, the file stays behind only where a deployer died, was killed or
\* could not finish writing or removing it.
THEOREM KeyFileHasOwner == Spec => []ConfigFileOwned
<1>1. Init => ConfigFileOwned
  BY DEF Init, ConfigFileOwned
<1>2. Init => TypeOK
  BY TypeInit
<1> QED BY <1>1, <1>2, TypeStep, OwnedStep, PTL DEF Spec

-----------------------------------------------------------------------------
LEMMA ContagiousStep == TypeOK /\ Contagious /\ [Next]_vars => Contagious'
<1> SUFFICES ASSUME TypeOK, Contagious, [Next]_vars PROVE Contagious'
  OBVIOUS
<1>1. /\ status \in [Deployers -> Statuses] /\ at \in [Deployers -> PosType]
      /\ tainted \subseteq Deployers
  BY TypeParts
<1>2. ASSUME NEW p \in Deployers, Deploy(p) PROVE Contagious'
  <2>1. /\ status[p] = "running" /\ status'[p] # "new" /\ tainted' = tainted
        /\ \A q \in Deployers \ {p} : status'[q] = status[q] /\ at'[q] = at[q]
    BY <1>2, DeployStep DEF Moves, env
  <2>2. Active' \subseteq Active
    BY <2>1 DEF Active
  <2> QED BY <2>1, <2>2 DEF Contagious
<1>3. ASSUME NEW p \in Deployers, Start(p) PROVE Contagious'
  <2>1. /\ at' = at /\ status[p] = "new" /\ status'[p] = "running"
        /\ \A q \in Deployers \ {p} : status'[q] = status[q]
        /\ p \notin tainted
    BY <1>1, <1>3 DEF Start, Contagious
  <2>2. CASE Active \intersect tainted = {}
    <3>1. tainted' = tainted
      BY <1>3, <2>2 DEF Start
    <3>2. Active' \intersect tainted' = {}
      BY <2>1, <2>2, <3>1 DEF Active
    <3> QED BY <2>1, <3>1, <3>2 DEF Contagious
  <2>3. CASE Active \intersect tainted # {}
    <3>1. tainted' = tainted \union {p}
      BY <1>3, <2>3 DEF Start
    <3> QED BY <2>1, <2>3, <3>1 DEF Contagious
  <2> QED BY <2>2, <2>3
<1>4. ASSUME NEW p \in Deployers, CommandFails(p) \/ Kill(p) PROVE Contagious'
  <2>1. /\ status[p] = "running" /\ status'[p] # "new" /\ tainted' = tainted
        /\ \A q \in Deployers \ {p} : status'[q] = status[q] /\ at'[q] = at[q]
    BY <1>1, <1>4, RaiseTypes DEF CommandFails, Kill, env
  <2>2. Active' \subseteq Active
    BY <2>1 DEF Active
  <2> QED BY <2>1, <2>2 DEF Contagious
<1>5. ASSUME NEW n \in NsNames, DeleteNamespace(n) PROVE Contagious'
  BY <1>1, <1>5 DEF DeleteNamespace, Contagious
<1>6. ASSUME NEW n \in NsNames, CreateNamespace(n) PROVE Contagious'
  BY <1>6 DEF CreateNamespace, Contagious, Active, env
<1>7. CASE UNCHANGED vars
  BY <1>7 DEF vars, env, Contagious, Active
<1> QED BY <1>2, <1>3, <1>4, <1>5, <1>6, <1>7 DEF Next, Environment

-----------------------------------------------------------------------------
\* What is set, routed or linked stays so while commands only add.
LEMMA Grown ==
  ASSUME TypeOK, Grows
  PROVE  /\ \A n, x : Made(n, x) => Made(n, x)'
         /\ \A k, j : Routed(k, j) => Routed(k, j)'
         /\ \A k \in 1..Len(Nodes) : Linked(k) => Linked(k)'
<1>1. \A n, x : Made(n, x) => Made(n, x)'
  BY DEF Grows, Made
<1>2. \A k, j : Routed(k, j) => Routed(k, j)'
  BY DEF Grows, Routed
<1>3. \A k \in 1..Len(Nodes) : nat[Nodes[k].ns] > 0 => nat'[Nodes[k].ns] > 0
  <2>1. \A n \in NsNames : nat[n] \in Nat
    BY TypeParts DEF KernelTypes
  <2> QED BY <2>1, NodeFacts DEF Grows
<1> QED BY <1>1, <1>2, <1>3 DEF Linked

LEMMA ReadyKept ==
  ASSUME TypeOK, Grows, NEW q, NEW k \in 1..Len(Nodes), Ready(q, k),
         wg'[Nodes[k].ns] = wg[Nodes[k].ns], keyed'[Nodes[k].ns] = keyed[Nodes[k].ns]
  PROVE  Ready(q, k)'
BY Grown DEF Ready, Key

\* A deployer keeps what it has achieved while nobody touches its interfaces.
LEMMA Keep ==
  ASSUME TypeOK, Grows, NEW q \in Deployers, at'[q] = at[q],
         \A n \in NsNames : wg[n] = q =>
            wg'[n] = q /\ keyed'[n] = keyed[n] /\ conf'[n] = conf[n]
  PROVE  /\ Provisioned(q) => Provisioned(q)'
         /\ AllLinked(q) => AllLinked(q)'
         /\ \A k \in 1..Len(Nodes) : (Ready(q, k) => Ready(q, k)') /\ (Linked(k) => Linked(k)')
<1>1. \A k \in 1..Len(Nodes) : (Ready(q, k) => Ready(q, k)') /\ (Linked(k) => Linked(k)')
  <2> SUFFICES ASSUME NEW k \in 1..Len(Nodes)
               PROVE  (Ready(q, k) => Ready(q, k)') /\ (Linked(k) => Linked(k)')
    OBVIOUS
  <2>1. Nodes[k].ns \in NsNames
    BY NodeFacts
  <2>2. ASSUME Ready(q, k) PROVE Ready(q, k)'
    BY <2>1, <2>2, ReadyKept DEF Ready
  <2> QED BY <2>2, Grown
<1>2. /\ Ns(q)' = Ns(q) /\ Node(q)' = Node(q) /\ Config(q)' = Config(q)
      /\ Ns(q) \in NsNames /\ at[q].i \in 1..Len(Nodes) /\ Len(Nodes) \in Nat
  BY Here, NodeFacts DEF Ns, Node, Config, Key
<1>3. Provisioned(q) => Provisioned(q)'
  BY <1>1, <1>2, Grown DEF Provisioned, Provisioning
<1>4. AllLinked(q) => AllLinked(q)'
  BY <1>1, <1>2, Grown DEF AllLinked, Linking
<1> QED BY <1>1, <1>3, <1>4

-----------------------------------------------------------------------------
\* Entering the second loop, or going on in it.
LEMMA ToRoutes ==
  ASSUME TypeOK, TypeOK', NEW p \in Deployers, NEW i \in 1..Len(Nodes), NEW j \in Nat \ {0},
         at'[p] = RoutesFrom(i, j), j <= Len(Nodes[i].routes) + 1, Routed(i, j - 1)',
         \A k \in 1..Len(Nodes) : Ready(p, k)',
         \A k \in 1..(i - 1) : Linked(k)'
  PROVE  Provisioned(p)' /\ AllLinked(p)'
<1>0. RoutesFrom(i, j).i = i
  BY RoutesPos
<1>1. /\ at'[p].i = i /\ Node(p)' = Nodes[i] /\ Len(Nodes[i].routes) \in Nat
  BY <1>0, NodeFacts DEF Node
<1>2. CASE j <= Len(Nodes[i].routes)
  <2>1. at'[p].l = "route" /\ at'[p].j = j
    BY <1>1, <1>2, RoutesPos
  <2> QED BY <1>1, <1>2, <2>1 DEF Provisioned, AllLinked, Provisioning, Linking
<1>3. CASE j = Len(Nodes[i].routes) + 1
  <2>1. at'[p].l = (IF Nodes[i].role = "server" THEN "forward" ELSE "rp_all")
    BY <1>1, <1>3, RoutesPos
  <2>2. Routed(i, Len(Nodes[i].routes))'
    BY <1>1, <1>3
  <2> QED BY <1>1, <2>1, <2>2 DEF Provisioned, AllLinked, Provisioning, Linking
<1> QED BY <1>1, <1>2, <1>3

LEMMA ToLinks ==
  ASSUME TypeOK, TypeOK', NEW p \in Deployers, NEW i \in 1..(Len(Nodes) + 1),
         at'[p] = LinksFrom(i),
         \A k \in 1..Len(Nodes) : Ready(p, k)',
         \A k \in 1..(i - 1) : Linked(k)'
  PROVE  Provisioned(p)' /\ AllLinked(p)'
<1>1. Len(Nodes) \in Nat
  BY NodeFacts
<1>2. CASE i \in 1..Len(Nodes)
  <2>1. at'[p] = RoutesFrom(i, 1) /\ Len(Nodes[i].routes) \in Nat
    BY <1>2, LinksPos, NodeFacts
  <2>2. Routed(i, 1 - 1)'
    BY DEF Routed
  <2> QED BY <1>2, <2>1, <2>2, ToRoutes
<1>3. CASE i = Len(Nodes) + 1
  <2>1. at'[p].l = "end"
    BY <1>3, LinksPos
  <2> QED BY <1>1, <1>3, <2>1 DEF Provisioned, AllLinked, Provisioning, Linking
<1> QED BY <1>1, <1>2, <1>3

\* What a command leaves of what its own deployer had achieved.
LEMMA OwnKept ==
  ASSUME TypeOK, NEW p \in Deployers, Deploy(p)
  PROVE  /\ \A k \in 1..Len(Nodes) :
              k # at[p].i \/ at[p].l # "setconf" => (Ready(p, k) => Ready(p, k)')
         /\ \A k \in 1..Len(Nodes) : Linked(k) => Linked(k)'
         /\ \A k, j : Routed(k, j) => Routed(k, j)'
         /\ \A n, x : Made(n, x) => Made(n, x)'
         /\ wg[Ns(p)] = p => wg'[Ns(p)] = p
         /\ at[p].l # "setconf" => keyed'[Ns(p)] = keyed[Ns(p)]
         /\ at[p].l \notin {"write", "unlink"} => conf'[Ns(p)] = conf[Ns(p)]
<1>1. Footprint(p) /\ Grows
  BY DeployStep DEF Footprint
<1>2. at[p].i \in 1..Len(Nodes) /\ Ns(p) \in NsNames /\ Ns(p) = Nodes[at[p].i].ns
  BY Here DEF Ns, Node
<1>3. ASSUME NEW k \in 1..Len(Nodes), k # at[p].i \/ at[p].l # "setconf", Ready(p, k)
      PROVE  Ready(p, k)'
  <2>1. Nodes[k].ns \in NsNames /\ (k # at[p].i => Nodes[k].ns # Ns(p))
    BY <1>2, NodeFacts
  <2>2. wg[Nodes[k].ns] = p /\ p # None
    BY <1>3, VpnAssumption DEF Ready, VpnAssumption
  <2>3. wg'[Nodes[k].ns] = wg[Nodes[k].ns] /\ keyed'[Nodes[k].ns] = keyed[Nodes[k].ns]
    BY <1>1, <1>3, <2>1, <2>2 DEF Footprint
  <2> QED BY <1>1, <1>3, <2>3, ReadyKept
<1>4. p # None
  BY VpnAssumption DEF VpnAssumption
<1> QED BY <1>1, <1>2, <1>3, <1>4, Grown DEF Footprint

LEMMA ToEmptyLoop ==
  ASSUME NEW p \in Deployers, at'[p].l \in {"genkey", "pubkey"}
  PROVE  Provisioned(p)' /\ AllLinked(p)'
BY DEF Provisioned, AllLinked, Provisioning, Linking

\* Staying with node i in the first loop.
LEMMA Provision ==
  ASSUME NEW p \in Deployers, at'[p].l \in Provisioning,
         \A k \in 1..(at'[p].i - 1) : Ready(p, k)',
         at'[p].l # "create" => wg'[Ns(p)'] = p,
         at'[p].l \in {"chmod", "setconf"} => conf'[Ns(p)'] = Config(p)',
         at'[p].l \in {"exists", "unlink"} /\ ~at'[p].failing => keyed'[Ns(p)'] = Config(p)',
         at'[p].l \in {"addr", "mtu", "up"} => keyed'[Ns(p)'] = Config(p)',
         at'[p].l \in {"mtu", "up"} => Made(Ns(p), "addr")',
         at'[p].l = "up" => Made(Ns(p), "mtu")'
  PROVE  Provisioned(p)' /\ AllLinked(p)'
BY DEF Provisioned, AllLinked, Provisioning, Linking

\* Commands of a deployer with which nothing interfered do what they are for.
LEMMA OwnStep ==
  ASSUME TypeOK, TypeOK', NEW p \in Deployers, Provisioned(p), AllLinked(p), Deploy(p),
         status'[p] = "running"
  PROVE  Provisioned(p)' /\ AllLinked(p)'
<1>1. /\ at[p] \in PosType /\ at[p].i \in 1..Len(Nodes) /\ at[p].j \in Nat \ {0}
      /\ Node(p) = Nodes[at[p].i] /\ Ns(p) = Nodes[at[p].i].ns /\ Ns(p) \in NsNames
      /\ at \in [Deployers -> PosType] /\ status \in [Deployers -> Statuses]
      /\ Len(Nodes) \in Nat /\ 1 \in 1..Len(Nodes)
  BY Here, NodeFacts, TypeParts DEF Ns, Node
<1>2. status[p] = "running" /\ UNCHANGED env
  BY DeployStep DEF Moves
<1>3. Raise(p) => /\ at[p].l = "setconf"
                  /\ at'[p] = [Pos("exists", at[p].i, 1) EXCEPT !.failing = TRUE]
  BY RaiseTypes
<1>4. at'[p].i = at[p].i => /\ Ns(p)' = Ns(p) /\ Node(p)' = Node(p)
                            /\ Config(p)' = Config(p)
  BY DEF Ns, Node, Config, Key
<1>5. \A l \in Labels \ {"route"} :
        Then(p, l) => /\ at'[p].l = l /\ at'[p].i = at[p].i /\ ~at'[p].failing
  <2> SUFFICES ASSUME NEW l \in Labels \ {"route"}, Then(p, l)
               PROVE  at'[p].l = l /\ at'[p].i = at[p].i /\ ~at'[p].failing
    OBVIOUS
  <2>1. at'[p] = Pos(l, at[p].i, 1)
    BY <1>2, ThenMoves
  <2> QED BY <2>1 DEF Pos
<1>6. Applied(p) => at'[p].l = "addr" /\ at'[p].i = at[p].i /\ ~at[p].failing
  <2> SUFFICES ASSUME Applied(p)
               PROVE  at'[p].l = "addr" /\ at'[p].i = at[p].i /\ ~at[p].failing
    OBVIOUS
  <2>1. ~at[p].failing /\ at'[p] = Pos("addr", at[p].i, 1)
    BY <1>2, AppliedMoves
  <2> QED BY <2>1 DEF Pos
<1>7. CASE GenerateKey(p)
  <2>1. at[p].l \in {"genkey", "pubkey"}
    BY <1>7 DEF GenerateKey, At
  <2>2. Then(p, "pubkey") \/ NextNode(p, "genkey", Pos("create", 1, 1))
    BY <1>7, <1>3, <2>1 DEF GenerateKey
  <2>3. CASE Then(p, "pubkey")
    BY <1>5, <2>3, ToEmptyLoop DEF Labels
  <2>4. CASE NextNode(p, "genkey", Pos("create", 1, 1))
    <3>1. Pos("create", 1, 1) \in PosType
      BY <1>1, SimplePos DEF Labels
    <3>2. \/ at'[p] = Pos("genkey", at[p].i + 1, 1) \/ at'[p] = Pos("create", 1, 1)
      BY <1>2, <2>4, <3>1, NextNodeMoves DEF Labels
    <3>3. \/ at'[p].l = "genkey"
          \/ at'[p].l = "create" /\ at'[p].i = 1
      BY <3>2 DEF Pos
    <3> QED BY <3>3, ToEmptyLoop, Provision DEF Provisioning
  <2> QED BY <2>2, <2>3, <2>4
<1>8. CASE Ask(p)
  <2>1. CASE Raise(p)
    <3>1. at'[p].l = "exists" /\ at'[p].i = at[p].i /\ at'[p].failing
      BY <1>3, <2>1 DEF Pos
    <3> QED BY <1>1, <1>3, <1>4, <2>1, <3>1, OwnKept, Provision
            DEF Provisioned, Provisioning
  <2>2. CASE Goto(p, [at[p] EXCEPT !.asked = TRUE])
    <3>1. /\ at'[p].l = at[p].l /\ at'[p].i = at[p].i /\ at'[p].j = at[p].j
          /\ at'[p].failing = at[p].failing
      BY <1>1, <2>2 DEF Goto, PosType
    <3>2. UNCHANGED <<kernel, conf>>
      BY <1>8 DEF Ask
    <3>3. Provisioned(p)'
      BY <1>4, <3>1, <3>2 DEF Provisioned, Ready, Made, kernel
    <3>4. AllLinked(p)'
      BY <1>4, <3>1, <3>2 DEF AllLinked, Ready, Linked, Routed, Made, kernel
    <3> QED BY <3>3, <3>4
  <2> QED BY <1>8, <2>1, <2>2 DEF Ask
<1>9. CASE CreateInterface(p)
  <2>1. at[p].l = "create" /\ Then(p, "write") /\ wg' = [wg EXCEPT ![Ns(p)] = p]
    BY <1>9, <1>3 DEF CreateInterface, Execute, At
  <2>2. at'[p].l = "write" /\ at'[p].i = at[p].i /\ wg'[Ns(p)] = p
    BY <1>1, <1>5, <2>1, TypeParts DEF Labels, KernelTypes
  <2> QED BY <1>1, <1>4, <2>1, <2>2, OwnKept, Provision DEF Provisioned, Provisioning
<1>10. CASE WriteConfig(p)
  <2>1. at[p].l = "write" /\ Then(p, "chmod") /\ conf'[Ns(p)] = Config(p)
    BY <1>10, <1>1, TypeParts DEF WriteConfig, At, KernelTypes
  <2>2. at'[p].l = "chmod" /\ at'[p].i = at[p].i
    BY <1>5, <2>1 DEF Labels
  <2> QED BY <1>1, <1>4, <2>1, <2>2, OwnKept, Provision DEF Provisioned, Provisioning
<1>11. CASE Chmod(p)
  <2>1. at[p].l = "chmod" /\ Then(p, "setconf")
    BY <1>11, <1>3 DEF Chmod, At
  <2>2. at'[p].l = "setconf" /\ at'[p].i = at[p].i
    BY <1>5, <2>1 DEF Labels
  <2> QED BY <1>1, <1>4, <2>1, <2>2, OwnKept, Provision DEF Provisioned, Provisioning
<1>12. CASE SetConf(p)
  <2>1. at[p].l = "setconf"
    BY <1>12 DEF SetConf, Execute, At
  <2>2. \A k \in 1..(at[p].i - 1) : Ready(p, k)'
    BY <1>1, <2>1, OwnKept DEF Provisioned, Provisioning
  <2>3. wg'[Ns(p)] = p
    BY <2>1, OwnKept DEF Provisioned, Provisioning
  <2>4. CASE Raise(p)
    <3>1. at'[p].l = "exists" /\ at'[p].i = at[p].i /\ at'[p].failing
      BY <1>3, <2>4 DEF Pos
    <3> QED BY <1>4, <2>2, <2>3, <3>1, Provision DEF Provisioning
  <2>5. CASE Then(p, "exists") /\ keyed' = [keyed EXCEPT ![Ns(p)] = conf[Ns(p)]]
    <3>1. at'[p].l = "exists" /\ at'[p].i = at[p].i
      BY <1>5, <2>5 DEF Labels
    <3>2. keyed'[Ns(p)] = Config(p)
      BY <1>1, <2>1, <2>5, TypeParts DEF KernelTypes, Provisioned
    <3> QED BY <1>4, <2>2, <2>3, <3>1, <3>2, Provision DEF Provisioning
  <2> QED BY <1>12, <2>4, <2>5 DEF SetConf, Execute
<1>13. CASE FileExists(p)
  <2>1. at[p].l = "exists"
    BY <1>13 DEF FileExists, At
  <2>2. \/ Goto(p, [at[p] EXCEPT !.l = "unlink"]) \/ Applied(p)
    BY <1>13 DEF FileExists
  <2>3. /\ at'[p].i = at[p].i
        /\ \/ at'[p].l = "unlink" /\ at'[p].failing = at[p].failing
           \/ at'[p].l = "addr" /\ ~at[p].failing
    <3>1. CASE Goto(p, [at[p] EXCEPT !.l = "unlink"])
      BY <1>1, <3>1 DEF Goto, PosType
    <3>2. CASE Applied(p)
      BY <1>6, <3>2
    <3> QED BY <2>2, <3>1, <3>2
  <2> QED BY <1>1, <1>4, <2>1, <2>3, OwnKept, Provision DEF Provisioned, Provisioning
<1>14. CASE Unlink(p)
  <2>1. at[p].l = "unlink" /\ Applied(p)
    BY <1>14, <1>3 DEF Unlink, At
  <2>2. at'[p].i = at[p].i /\ at'[p].l = "addr" /\ ~at[p].failing
    BY <1>6, <2>1
  <2> QED BY <1>1, <1>4, <2>1, <2>2, OwnKept, Provision DEF Provisioned, Provisioning
<1>15. CASE Address(p)
  <2>1. at[p].l = "addr" /\ Then(p, "mtu") /\ Made(Ns(p), "addr")'
    BY <1>15, <1>3, <1>4, <1>5 DEF Address, Setting, Execute, At, Made, Labels
  <2>2. at'[p].l = "mtu" /\ at'[p].i = at[p].i
    BY <1>5, <2>1 DEF Labels
  <2> QED BY <1>1, <1>4, <2>1, <2>2, OwnKept, Provision DEF Provisioned, Provisioning
<1>16. CASE Mtu(p)
  <2>1. at[p].l = "mtu" /\ Then(p, "up") /\ Made(Ns(p), "mtu")'
    BY <1>16, <1>3, <1>4, <1>5 DEF Mtu, Setting, Execute, At, Made, Labels
  <2>2. at'[p].l = "up" /\ at'[p].i = at[p].i
    BY <1>5, <2>1 DEF Labels
  <2> QED BY <1>1, <1>4, <2>1, <2>2, OwnKept, Provision DEF Provisioned, Provisioning
<1>17. PICK i \in 1..Len(Nodes) : i = at[p].i
  BY <1>1
<1>18. ASSUME at[p].l \in Linking
     PROVE  /\ \A k \in 1..Len(Nodes) : Ready(p, k)'
            /\ at[p].l # "end" => \A k \in 1..(i - 1) : Linked(k)'
  BY <1>18, <1>1, <1>17, OwnKept DEF AllLinked, Linking
<1>19. CASE LinkUp(p)
  <2>1. /\ at[p].l = "up" /\ NextNode(p, "create", LinksFrom(1))
        /\ <<Ns(p), "up">> \in set'
    BY <1>19, <1>3 DEF LinkUp, Execute, At
  <2>2. \A k \in 1..(i - 1) : Ready(p, k)'
    BY <1>1, <1>17, <2>1, OwnKept DEF Provisioned, Provisioning
  <2>3. /\ wg'[Nodes[i].ns] = p
        /\ keyed'[Nodes[i].ns] =
             [key |-> Key(p, Nodes[i].ns), peers |-> {Key(p, m) : m \in Nodes[i].peers}]
    BY <1>1, <1>17, <2>1, OwnKept DEF Provisioned, Provisioning, Config
  <2>4. \A x \in {"addr", "mtu", "up"} : Made(Nodes[i].ns, x)'
    <3>1. Made(Nodes[i].ns, "addr") /\ Made(Nodes[i].ns, "mtu")
      BY <1>1, <1>17, <2>1 DEF Provisioned, Provisioning
    <3>2. Made(Nodes[i].ns, "up")'
      BY <1>1, <1>17, <2>1 DEF Made
    <3> QED BY <3>1, <3>2, OwnKept
  <2>5. \A k \in 1..i : Ready(p, k)'
    <3>1. Ready(p, i)'
      BY <2>3, <2>4 DEF Ready, Key
    <3> QED BY <2>2, <3>1
  <2>6. CASE i < Len(Nodes) /\ at'[p] = Pos("create", i + 1, 1)
    <3>1. at'[p].l = "create" /\ at'[p].i = i + 1
      BY <2>6 DEF Pos
    <3> QED BY <2>5, <3>1, Provision DEF Provisioning
  <2>7. CASE i = Len(Nodes) /\ at'[p] = LinksFrom(1)
    BY <1>1, <2>5, <2>7, ToLinks
  <2>8. LinksFrom(1) \in PosType
    BY <1>1, LinksPos
  <2> QED BY <1>2, <1>17, <2>1, <2>6, <2>7, <2>8, NextNodeMoves DEF Labels
<1>20. CASE AddRoute(p)
  <2>1. /\ at[p].l = "route" /\ Goto(p, RoutesFrom(i, at[p].j + 1))
        /\ <<Nodes[i].ns, Nodes[i].routes[at[p].j]>> \in routes'
    BY <1>20, <1>1, <1>3, <1>17 DEF AddRoute, Execute, At
  <2>2. PICK j \in Nat \ {0} : j = at[p].j
    BY <1>1
  <2>3. j <= Len(Nodes[i].routes) /\ Routed(i, j - 1)'
    BY <1>1, <1>17, <2>1, <2>2, OwnKept DEF AllLinked
  <2>4. Routed(i, (j + 1) - 1)'
    BY <2>1, <2>2, <2>3, SMTT(30) DEF Routed
  <2>5. at'[p] = RoutesFrom(i, j + 1) /\ j + 1 <= Len(Nodes[i].routes) + 1
    BY <1>1, <1>17, <2>1, <2>2, <2>3, NodeFacts DEF Goto
  <2> QED BY <1>18, <2>1, <2>2, <2>4, <2>5, ToRoutes DEF Linking
<1>21. CASE Forward(p)
  <2>1. at[p].l = "forward" /\ Then(p, "nat") /\ <<Ns(p), "forward">> \in set'
    BY <1>21, <1>3 DEF Forward, Setting, Execute, At
  <2>2. at'[p].l = "nat" /\ at'[p].i = i
    BY <1>5, <1>17, <2>1 DEF Labels
  <2>3. /\ Nodes[i].role = "server" /\ Routed(i, Len(Nodes[i].routes))'
        /\ Made(Nodes[i].ns, "forward")'
    BY <1>1, <1>17, <2>1, OwnKept DEF AllLinked, Made
  <2>4. \A k \in 1..Len(Nodes) : Ready(p, k)'
    BY <1>18, <2>1 DEF Linking
  <2>5. \A k \in 1..(i - 1) : Linked(k)'
    BY <1>18, <2>1 DEF Linking
  <2> QED BY <2>2, <2>3, <2>4, <2>5
      DEF Provisioned, AllLinked, Provisioning, Linking, Node, Ns
<1>22. CASE RpAll(p)
  <2>1. at[p].l = "rp_all" /\ Then(p, "rp_default") /\ <<Ns(p), "rp_all">> \in set'
    BY <1>22, <1>3 DEF RpAll, Setting, Execute, At
  <2>2. at'[p].l = "rp_default" /\ at'[p].i = i
    BY <1>5, <1>17, <2>1 DEF Labels
  <2>3. /\ Nodes[i].role # "server" /\ Routed(i, Len(Nodes[i].routes))'
        /\ Made(Nodes[i].ns, "rp_all")'
    BY <1>1, <1>17, <2>1, OwnKept DEF AllLinked, Made
  <2>4. \A k \in 1..Len(Nodes) : Ready(p, k)'
    BY <1>18, <2>1 DEF Linking
  <2>5. \A k \in 1..(i - 1) : Linked(k)'
    BY <1>18, <2>1 DEF Linking
  <2> QED BY <2>2, <2>3, <2>4, <2>5
      DEF Provisioned, AllLinked, Provisioning, Linking, Node, Ns
<1>23. CASE Masquerade(p)
  <2>1. at[p].l = "nat" /\ Goto(p, LinksFrom(i + 1))
    BY <1>23, <1>3, <1>17 DEF Masquerade, Execute, At
  <2>2. nat'[Nodes[i].ns] > 0
    BY <1>23, <1>1, <1>3, <1>17, <2>1, TypeParts DEF Masquerade, Execute, KernelTypes
  <2>3. /\ Nodes[i].role = "server" /\ Routed(i, Len(Nodes[i].routes))'
        /\ Made(Nodes[i].ns, "forward")'
    BY <1>1, <1>17, <2>1, OwnKept DEF AllLinked
  <2>4. Linked(i)'
    BY <2>2, <2>3 DEF Linked
  <2>5. \A k \in 1..((i + 1) - 1) : Linked(k)'
    BY <1>18, <2>1, <2>4 DEF Linking
  <2>6. \A k \in 1..Len(Nodes) : Ready(p, k)'
    BY <1>18, <2>1 DEF Linking
  <2>7. at'[p] = LinksFrom(i + 1) /\ i + 1 \in 1..(Len(Nodes) + 1)
    BY <1>1, <2>1 DEF Goto
  <2> QED BY <2>5, <2>6, <2>7, ToLinks
<1>24. CASE RpDefault(p)
  <2>1. at[p].l = "rp_default" /\ Goto(p, LinksFrom(i + 1))
    BY <1>24, <1>3, <1>17 DEF RpDefault, Setting, Execute, At
  <2>2. Made(Nodes[i].ns, "rp_default")'
    BY <1>24, <1>1, <1>3, <1>17, <2>1 DEF RpDefault, Setting, Execute, At, Made
  <2>3. /\ Nodes[i].role # "server" /\ Routed(i, Len(Nodes[i].routes))'
        /\ Made(Nodes[i].ns, "rp_all")'
    BY <1>1, <1>17, <2>1, OwnKept DEF AllLinked
  <2>4. Linked(i)'
    BY <2>2, <2>3 DEF Linked
  <2>5. \A k \in 1..((i + 1) - 1) : Linked(k)'
    BY <1>18, <2>1, <2>4 DEF Linking
  <2>6. \A k \in 1..Len(Nodes) : Ready(p, k)'
    BY <1>18, <2>1 DEF Linking
  <2>7. at'[p] = LinksFrom(i + 1) /\ i + 1 \in 1..(Len(Nodes) + 1)
    BY <1>1, <2>1 DEF Goto
  <2> QED BY <2>5, <2>6, <2>7, ToLinks
<1>25. CASE Return(p)
  BY <1>25, <1>1 DEF Return
<1> QED
  BY <1>7, <1>8, <1>9, <1>10, <1>11, <1>12, <1>13, <1>14, <1>15,
     <1>16, <1>19, <1>20, <1>21, <1>22, <1>23, <1>24, <1>25 DEF Deploy

LEMMA OwnReturn ==
  ASSUME TypeOK, NEW p \in Deployers, AllLinked(p), Deploy(p), status'[p] = "done"
  PROVE  \A k \in 1..Len(Nodes) : Ready(p, k)' /\ Linked(k)'
<1>1. status[p] = "running" /\ UNCHANGED env /\ status \in [Deployers -> Statuses]
  BY DeployStep, TypeParts DEF Moves
<1>2. ~Raise(p) /\ ~Applied(p)
  BY <1>1, RaiseTypes, AppliedMoves
<1>3. Return(p)
  BY <1>1, <1>2
  DEF Deploy, GenerateKey, Ask, CreateInterface, WriteConfig, Chmod, SetConf,
      FileExists, Unlink, Address, Mtu, LinkUp, AddRoute, Forward, Masquerade,
      RpAll, RpDefault, Setting, Execute, Then, NextNode, Goto
<1>4. at[p].l = "end"
  BY <1>3 DEF Return, At
<1> QED BY <1>4, OwnKept DEF AllLinked, Linking

\* Two deployers with which nothing interferes do not interfere with each
\* other: an interface that one created the other does not get past.
LEMMA OthersKept ==
  ASSUME TypeOK, NEW p \in Deployers, NEW q \in Deployers \ {p}, Provisioned(p), Deploy(p)
  PROVE  /\ Provisioned(q) => Provisioned(q)'
         /\ AllLinked(q) => AllLinked(q)'
         /\ \A k \in 1..Len(Nodes) : (Ready(q, k) => Ready(q, k)') /\ (Linked(k) => Linked(k)')
<1>1. Footprint(p) /\ Grows /\ at'[q] = at[q]
  BY DeployStep DEF Footprint, Moves
<1>2. q # None
  BY VpnAssumption DEF VpnAssumption
<1>3. \A n \in NsNames : wg[n] = q =>
         wg'[n] = q /\ keyed'[n] = keyed[n] /\ conf'[n] = conf[n]
  BY <1>1, <1>2 DEF Footprint, Provisioned, Provisioning
<1> QED BY <1>1, <1>3, Keep

LEMMA SoFarStep ==
  TypeOK /\ TypeOK' /\ Contagious /\ SoFar /\ [Next]_vars => SoFar'
<1> SUFFICES ASSUME TypeOK, TypeOK', Contagious, SoFar, [Next]_vars,
                    NEW q \in Deployers, q \notin tainted'
             PROVE  /\ status'[q] = "running" => Provisioned(q)' /\ AllLinked(q)'
                    /\ status'[q] = "done" =>
                         \A k \in 1..Len(Nodes) : Ready(q, k)' /\ Linked(k)'
  BY DEF SoFar
<1>1. /\ status \in [Deployers -> Statuses] /\ at \in [Deployers -> PosType]
      /\ tainted \subseteq Deployers
  BY TypeParts
<1>2. ASSUME NEW p \in Deployers, Deploy(p)
      PROVE  /\ status'[q] = "running" => Provisioned(q)' /\ AllLinked(q)'
             /\ status'[q] = "done" =>
                  \A k \in 1..Len(Nodes) : Ready(q, k)' /\ Linked(k)'
  <2>1. Moves(p) /\ q \notin tainted /\ status[p] = "running"
    BY <1>2, DeployStep DEF Moves, env
  <2>2. CASE p = q
    BY <1>2, <2>1, <2>2, OwnStep, OwnReturn DEF SoFar
  <2>3. CASE p # q /\ status[q] \in {"running", "done"}
    <3>1. p \notin tainted
      BY <2>1, <2>3 DEF Contagious, Active
    <3>2. Provisioned(p)
      BY <2>1, <3>1 DEF SoFar
    <3>3. status'[q] = status[q]
      BY <2>1, <2>3 DEF Moves
    <3> QED BY <1>2, <2>1, <2>3, <3>2, <3>3, OthersKept DEF SoFar
  <2>4. CASE p # q /\ status[q] \notin {"running", "done"}
    BY <2>1, <2>4 DEF Moves
  <2> QED BY <2>2, <2>3, <2>4
<1>3. ASSUME NEW p \in Deployers, Start(p)
      PROVE  /\ status'[q] = "running" => Provisioned(q)' /\ AllLinked(q)'
             /\ status'[q] = "done" =>
                  \A k \in 1..Len(Nodes) : Ready(q, k)' /\ Linked(k)'
  <2>1. /\ UNCHANGED <<kernel, conf, at>> /\ q \notin tainted
        /\ status[p] = "new" /\ (q # p => status'[q] = status[q])
        /\ status'[p] = "running"
    BY <1>1, <1>3 DEF Start
  <2>2. CASE q = p
    <3>1. at'[q].l = "genkey"
      BY <2>1, <2>2 DEF Contagious, Pos
    <3> QED BY <2>1, <2>2, <3>1, ToEmptyLoop
  <2>3. CASE q # p
    <3>1. (Provisioned(q) => Provisioned(q)') /\ (AllLinked(q) => AllLinked(q)')
          /\ \A k \in 1..Len(Nodes) :
                (Ready(q, k) => Ready(q, k)') /\ (Linked(k) => Linked(k)')
      BY <2>1 DEF Provisioned, AllLinked, Ready, Linked, Routed, Made, Ns, Node,
                  Config, Key, kernel
    <3> QED BY <2>1, <2>3, <3>1 DEF SoFar
  <2> QED BY <2>2, <2>3
<1>4. ASSUME NEW p \in Deployers, CommandFails(p)
      PROVE  /\ status'[q] = "running" => Provisioned(q)' /\ AllLinked(q)'
             /\ status'[q] = "done" =>
                  \A k \in 1..Len(Nodes) : Ready(q, k)' /\ Linked(k)'
  <2>1. /\ Raise(p) /\ UNCHANGED kernel /\ q \notin tainted /\ status[p] = "running"
        /\ UNCHANGED conf \/ (at[p].l = "write" /\ conf' \in
                                 {conf, [conf EXCEPT ![Ns(p)] = Config(p)]})
    BY <1>4 DEF CommandFails
  <2>2. Grows
    BY <2>1 DEF Grows, kernel
  <2>3. CASE q = p
    <3>1. Provisioned(q)
      BY <2>1, <2>3 DEF SoFar
    <3>2. CASE at[q].l = "setconf"
      <4>1. /\ at'[q].l = "exists" /\ at'[q].failing /\ at'[q].i = at[q].i
            /\ status'[q] = "running"
        BY <2>1, <2>3, <3>2, RaiseTypes DEF Pos
      <4>2. \A k \in 1..(at[q].i - 1) : Ready(q, k)'
        <5>1. \A k \in 1..(at[q].i - 1) : Ready(q, k)
          BY <3>1, <3>2 DEF Provisioned, Provisioning
        <5> QED BY <2>1, <5>1 DEF Ready, Made, Key, kernel
      <4>3. wg'[Ns(q)'] = q
        <5>1. wg[Ns(q)] = q
          BY <3>1, <3>2 DEF Provisioned, Provisioning
        <5> QED BY <2>1, <4>1, <5>1 DEF Ns, Node, kernel
      <4>4. Provisioned(q)' /\ AllLinked(q)'
        BY <4>1, <4>2, <4>3, Provision DEF Provisioning
      <4> QED BY <4>1, <4>4
    <3>3. CASE at[q].l # "setconf"
      BY <2>1, <2>3, <3>3, RaiseTypes
    <3> QED BY <3>2, <3>3
  <2>4. CASE q # p /\ status[q] \in {"running", "done"}
    <3>1. p \notin tainted
      BY <2>1, <2>4 DEF Contagious, Active
    <3>2. at[p].l = "write" => wg[Ns(p)] = p
      BY <2>1, <3>1 DEF SoFar, Provisioned, Provisioning
    <3>3. at'[q] = at[q] /\ status'[q] = status[q]
      BY <2>1, <2>4, RaiseTypes
    <3>4. \A n \in NsNames : wg[n] = q =>
             wg'[n] = q /\ keyed'[n] = keyed[n] /\ conf'[n] = conf[n]
      BY <2>1, <2>4, <3>2, TypeParts DEF kernel, KernelTypes
    <3> QED BY <2>1, <2>2, <2>4, <3>3, <3>4, Keep DEF SoFar
  <2>5. CASE q # p /\ status[q] \notin {"running", "done"}
    BY <2>1, <2>5, RaiseTypes
  <2> QED BY <2>3, <2>4, <2>5
<1>5. ASSUME NEW p \in Deployers, Kill(p)
      PROVE  /\ status'[q] = "running" => Provisioned(q)' /\ AllLinked(q)'
             /\ status'[q] = "done" =>
                  \A k \in 1..Len(Nodes) : Ready(q, k)' /\ Linked(k)'
  <2>1. /\ UNCHANGED <<kernel, conf, at>> /\ q \notin tainted
        /\ q = p => status'[q] = "killed"
        /\ q # p => status'[q] = status[q]
    BY <1>1, <1>5 DEF Kill, env
  <2>2. /\ (Provisioned(q) => Provisioned(q)') /\ (AllLinked(q) => AllLinked(q)')
        /\ \A k \in 1..Len(Nodes) :
              (Ready(q, k) => Ready(q, k)') /\ (Linked(k) => Linked(k)')
    BY <2>1 DEF Provisioned, AllLinked, Ready, Linked, Routed, Made, Ns, Node,
                Config, Key, kernel
  <2> QED BY <2>1, <2>2 DEF SoFar
<1>6. ASSUME NEW n \in NsNames, DeleteNamespace(n)
      PROVE  /\ status'[q] = "running" => Provisioned(q)' /\ AllLinked(q)'
             /\ status'[q] = "done" =>
                  \A k \in 1..Len(Nodes) : Ready(q, k)' /\ Linked(k)'
  BY <1>6 DEF DeleteNamespace
<1>7. ASSUME NEW n \in NsNames, CreateNamespace(n)
      PROVE  /\ status'[q] = "running" => Provisioned(q)' /\ AllLinked(q)'
             /\ status'[q] = "done" =>
                  \A k \in 1..Len(Nodes) : Ready(q, k)' /\ Linked(k)'
  <2>1. /\ UNCHANGED <<wg, keyed, set, nat, conf, status, at>> /\ q \notin tainted
        /\ routes \subseteq routes'
    BY <1>7 DEF CreateNamespace, env
  <2>2. Grows
    BY <2>1 DEF Grows
  <2> QED BY <2>1, <2>2, Keep DEF SoFar
<1>8. CASE UNCHANGED vars
  <2>1. UNCHANGED <<kernel, conf, status, at>> /\ q \notin tainted
    BY <1>8 DEF vars, env
  <2>2. Grows
    BY <2>1 DEF Grows, kernel
  <2>3. /\ at'[q] = at[q] /\ status'[q] = status[q]
        /\ \A n \in NsNames : wg[n] = q =>
              wg'[n] = q /\ keyed'[n] = keyed[n] /\ conf'[n] = conf[n]
    BY <2>1 DEF kernel
  <2> QED BY <2>1, <2>2, <2>3, Keep DEF SoFar
<1>9. CASE Next
  BY <1>2, <1>3, <1>4, <1>5, <1>6, <1>7, <1>9 DEF Next, Environment
<1> QED BY <1>8, <1>9

\* VPNManager.deploy: a call that returns has configured every node with the
\* keys it generated itself, for any number of deployers, faults, kills and
\* namespaces rebuilt.
THEOREM EveryDeployIsWhole == Spec => []DeployedConsistently
<1>1. Init => TypeOK /\ Contagious /\ SoFar
  <2>1. Init => Contagious /\ SoFar
    BY DEF Init, Contagious, SoFar, Active
  <2> QED BY <2>1, TypeInit
<1>2. TypeOK /\ Contagious /\ SoFar => DeployedConsistently
  <2> SUFFICES ASSUME TypeOK, SoFar, NEW p \in Deployers, status[p] = "done",
                      p \notin tainted, NEW k \in 1..Len(Nodes)
               PROVE  InPlace(p, k)
    BY DEF DeployedConsistently
  <2>1. Ready(p, k) /\ Linked(k)
    BY DEF SoFar
  <2> QED BY <2>1 DEF InPlace, Ready, Linked, Routed
<1>3. TypeOK /\ Contagious /\ SoFar /\ [Next]_vars => (TypeOK /\ Contagious /\ SoFar)'
  BY TypeStep, ContagiousStep, SoFarStep
<1> QED BY <1>1, <1>2, <1>3, PTL DEF Spec

-----------------------------------------------------------------------------
(***************************************************************************)
(* NatOnce.  While no namespace was deleted under a deployer, an interface *)
(* once created stays its creator's; only a deployer that holds them all   *)
(* gets to the second loop, and it comes by each node once.                *)
(***************************************************************************)
PastNat(p, k) == at[p].l \in Linking /\ (at[p].l = "end" \/ at[p].i > k)

NatByHolder ==
  tainted = {} =>
    \A k \in 1..Len(Nodes) :
      LET n == Nodes[k].ns
      IN  \/ nat[n] = 0
          \/ nat[n] = 1 /\ \E p \in Deployers : wg[n] = p /\ PastNat(p, k)

\* The second loop goes forward only.
LEMMA LinkingGoesOn ==
  ASSUME TypeOK, NEW p \in Deployers, Deploy(p), at[p].l \in Linking
  PROVE  /\ at[p].l = "end" => at'[p] = at[p]
         /\ at'[p].l = "end" \/ (at'[p].l \in Linking /\ at'[p].i >= at[p].i)
         /\ nat' # nat => /\ at[p].l = "nat" /\ status[p] = "running"
                          /\ nat' = [nat EXCEPT ![Ns(p)] = @ + 1]
                          /\ at'[p].l = "end" \/ (at'[p].l \in Linking /\ at'[p].i > at[p].i)
<1>1. /\ at[p].i \in 1..Len(Nodes) /\ at[p].j \in Nat \ {0} /\ status[p] = "running"
      /\ Len(Nodes) \in Nat /\ at \in [Deployers -> PosType] /\ UNCHANGED env
  BY Here, NodeFacts, TypeParts, DeployStep DEF Moves
<1>2. ASSUME NEW i \in 1..(Len(Nodes) + 1), at'[p] = LinksFrom(i)
      PROVE  at'[p].l = "end" \/ (at'[p].l \in Linking /\ at'[p].i >= i)
  <2>1. CASE i \in 1..Len(Nodes)
    <3>1. at'[p] = RoutesFrom(i, 1)
      BY <1>2, <2>1, LinksPos
    <3>2. at'[p].i = i /\ at'[p].l \in Linking
      BY <2>1, <3>1, RoutesPos DEF Linking
    <3> QED BY <2>1, <3>2
  <2>2. CASE i = Len(Nodes) + 1
    BY <1>2, <2>2, LinksPos
  <2> QED BY <1>1, <2>1, <2>2
<1>3. ASSUME NEW j \in Nat \ {0}, at'[p] = RoutesFrom(at[p].i, j)
      PROVE  at'[p].l \in Linking /\ at'[p].i >= at[p].i
  BY <1>1, <1>3, RoutesPos DEF Linking
<1>4. Raise(p) => at'[p] = at[p]
  BY RaiseTypes DEF Linking
<1>5. CASE Ask(p)
  <2>1. at[p].l # "end" /\ nat' = nat
    BY <1>5 DEF Ask, Executed, kernel
  <2>2. CASE Goto(p, [at[p] EXCEPT !.asked = TRUE])
    <3>1. at'[p].l = at[p].l /\ at'[p].i = at[p].i
      BY <1>1, <2>2, Here DEF Goto, PosType
    <3> QED BY <1>1, <2>1, <3>1
  <2> QED BY <1>1, <1>4, <1>5, <2>1, <2>2 DEF Ask
<1>6. CASE AddRoute(p)
  <2>1. at[p].l = "route" /\ nat' = nat /\ at[p].j + 1 \in Nat \ {0}
    BY <1>1, <1>6 DEF AddRoute, Execute, At, kernel
  <2>2. Raise(p) \/ at'[p] = RoutesFrom(at[p].i, at[p].j + 1)
    BY <1>1, <1>6 DEF AddRoute, Execute, Goto
  <2> QED BY <1>1, <1>3, <1>4, <2>1, <2>2
<1>7. CASE Forward(p) \/ RpAll(p)
  <2>1. at[p].l # "end" /\ nat' = nat
    BY <1>7 DEF Forward, RpAll, Setting, Execute, At, kernel
  <2>2. Raise(p) \/ Then(p, "nat") \/ Then(p, "rp_default")
    BY <1>7 DEF Forward, RpAll, Setting, Execute
  <2>3. Raise(p) \/ at'[p] = Pos("nat", at[p].i, 1) \/ at'[p] = Pos("rp_default", at[p].i, 1)
    BY <1>1, <2>2, ThenMoves DEF Labels
  <2> QED BY <1>1, <1>4, <2>1, <2>3 DEF Pos, Linking
<1>8. CASE Masquerade(p) \/ RpDefault(p)
  <2>1. /\ at[p].l # "end" /\ at[p].i + 1 \in 1..(Len(Nodes) + 1)
        /\ nat' # nat => at[p].l = "nat" /\ nat' = [nat EXCEPT ![Ns(p)] = @ + 1]
    BY <1>1, <1>8 DEF Masquerade, RpDefault, Setting, Execute, At, kernel
  <2>2. Raise(p) \/ at'[p] = LinksFrom(at[p].i + 1)
    BY <1>1, <1>8 DEF Masquerade, RpDefault, Setting, Execute, Goto
  <2>3. Raise(p) => nat' = nat
    <3>1. Goto(p, LinksFrom(at[p].i + 1)) => ~Raise(p)
      BY <1>1 DEF Goto, Raise, Linking, TypeOK
    <3> QED BY <1>8, <3>1 DEF Masquerade, RpDefault, Setting, Execute, kernel
  <2>4. CASE Raise(p)
    BY <1>1, <1>4, <2>1, <2>3, <2>4
  <2>5. CASE at'[p] = LinksFrom(at[p].i + 1)
    <3>1. at'[p].l = "end" \/ (at'[p].l \in Linking /\ at'[p].i >= at[p].i + 1)
      BY <1>2, <2>1, <2>5
    <3>2. at'[p].i \in 1..Len(Nodes)
      BY <2>1, <2>5, LinksPos DEF PosType
    <3> QED BY <1>1, <2>1, <3>1, <3>2
  <2> QED BY <2>2, <2>4, <2>5
<1>9. CASE Return(p)
  BY <1>1, <1>9 DEF Return, kernel
<1>10. CASE \/ GenerateKey(p) \/ CreateInterface(p) \/ WriteConfig(p) \/ Chmod(p) \/ SetConf(p)
            \/ FileExists(p) \/ Unlink(p) \/ Address(p) \/ Mtu(p) \/ LinkUp(p)
  BY <1>10 DEF GenerateKey, CreateInterface, WriteConfig, Chmod, SetConf, FileExists, Unlink,
     Address, Mtu, LinkUp, Setting, Execute, At, Linking
<1> QED BY <1>5, <1>6, <1>7, <1>8, <1>9, <1>10 DEF Deploy

\* Only the second loop adds rules.
LEMMA NatKept ==
  ASSUME NEW p \in Deployers, Deploy(p), at[p].l \notin Linking
  PROVE  nat' = nat
BY DEF Deploy, GenerateKey, Ask, CreateInterface, WriteConfig, Chmod, SetConf, FileExists, Unlink,
   Address, Mtu, LinkUp, AddRoute, Forward, Masquerade, RpAll, RpDefault, Return,
   Setting, Execute, At, Linking, kernel

LEMMA NatStep ==
  TypeOK /\ TypeOK' /\ Contagious /\ SoFar /\ NatByHolder /\ [Next]_vars => NatByHolder'
<1> SUFFICES ASSUME TypeOK, TypeOK', Contagious, SoFar, NatByHolder, [Next]_vars, tainted' = {},
                    NEW k \in 1..Len(Nodes)
             PROVE  \/ nat'[Nodes[k].ns] = 0
                    \/ /\ nat'[Nodes[k].ns] = 1
                       /\ \E p \in Deployers : wg'[Nodes[k].ns] = p /\ PastNat(p, k)'
  BY DEF NatByHolder
<1> DEFINE n == Nodes[k].ns
<1>1. /\ n \in NsNames /\ nat \in [NsNames -> Nat] /\ Len(Nodes) \in Nat
      /\ tainted \subseteq Deployers /\ status \in [Deployers -> Statuses]
      /\ \A p \in Deployers : p # None
  BY NodeFacts, TypeParts, VpnAssumption DEF KernelTypes, VpnAssumption
<1>2. ASSUME tainted = {}
      PROVE  nat[n] = 0 \/ (nat[n] = 1 /\ \E p \in Deployers : wg[n] = p /\ PastNat(p, k))
  BY <1>2 DEF NatByHolder
<1>s. ASSUME tainted = {}, UNCHANGED <<wg, nat, at>>
      PROVE  \/ nat'[n] = 0
             \/ nat'[n] = 1 /\ \E p \in Deployers : wg'[n] = p /\ PastNat(p, k)'
  BY <1>s, <1>2 DEF PastNat
<1>3. ASSUME NEW q \in Deployers, Deploy(q)
      PROVE  \/ nat'[n] = 0
             \/ nat'[n] = 1 /\ \E p \in Deployers : wg'[n] = p /\ PastNat(p, k)'
  <2>1. /\ tainted = {} /\ status[q] = "running" /\ Footprint(q)
        /\ \A p \in Deployers \ {q} : at'[p] = at[p]
        /\ at[q].i \in 1..Len(Nodes) /\ at'[q].i \in 1..Len(Nodes)
        /\ Ns(q) = Nodes[at[q].i].ns /\ Ns(q) \in NsNames
    BY <1>3, DeployStep, Here DEF Moves, env, PosType, Ns
  <2>2. ASSUME NEW p \in Deployers, wg[n] = p, PastNat(p, k)
        PROVE  wg'[n] = p /\ PastNat(p, k)'
    <3>1. wg'[n] = p
      BY <1>1, <2>1, <2>2 DEF Footprint
    <3>2. CASE p = q
      <4>1. at[q].l \in Linking /\ (at[q].l = "end" \/ at[q].i > k)
        BY <2>2, <3>2 DEF PastNat
      <4>2. /\ at[q].l = "end" => at'[q] = at[q]
            /\ at'[q].l = "end" \/ (at'[q].l \in Linking /\ at'[q].i >= at[q].i)
        BY <1>3, <4>1, LinkingGoesOn
      <4> QED BY <1>1, <2>1, <3>1, <3>2, <4>1, <4>2 DEF PastNat, Linking
    <3>3. CASE p # q
      BY <2>1, <2>2, <3>1, <3>3 DEF PastNat
    <3> QED BY <3>2, <3>3
  <2>3. CASE nat'[n] = nat[n]
    BY <1>2, <2>1, <2>2, <2>3
  <2>4. CASE nat'[n] # nat[n]
    <3>1. at[q].l \in Linking
      BY <1>3, <2>4, NatKept
    <3>2. /\ at[q].l = "nat" /\ nat' = [nat EXCEPT ![Ns(q)] = @ + 1]
          /\ at'[q].l = "end" \/ (at'[q].l \in Linking /\ at'[q].i > at[q].i)
      BY <1>3, <2>4, <3>1, LinkingGoesOn
    <3>3. n = Ns(q) /\ k = at[q].i
      BY <1>1, <2>1, <2>4, <3>2, NodeFacts
    <3>4. wg[n] = q
      BY <2>1, <3>1, <3>3, ZenonT(40) DEF SoFar, AllLinked, Ready
    <3>5. nat[n] = 0
      BY <1>2, <2>1, <3>2, <3>3, <3>4 DEF PastNat
    <3>6. wg'[n] = q
      BY <1>1, <2>1, <3>4 DEF Footprint
    <3>7. PastNat(q, k)'
      BY <3>2, <3>3 DEF PastNat, Linking
    <3> QED BY <1>1, <3>2, <3>3, <3>5, <3>6, <3>7
  <2> QED BY <2>3, <2>4
<1>4. ASSUME NEW p \in Deployers, Start(p) \/ Kill(p)
      PROVE  tainted = {} /\ UNCHANGED <<wg, nat, at>>
  BY <1>4 DEF Start, Kill, kernel, env
<1>5. ASSUME NEW q \in Deployers, CommandFails(q)
      PROVE  \/ nat'[n] = 0
             \/ nat'[n] = 1 /\ \E p \in Deployers : wg'[n] = p /\ PastNat(p, k)'
  <2>1. tainted = {} /\ UNCHANGED kernel /\ Raise(q)
    BY <1>5 DEF CommandFails
  <2>2. \A p \in Deployers : PastNat(p, k) => PastNat(p, k)'
    BY <2>1, RaiseTypes DEF PastNat, Linking
  <2> QED BY <1>2, <2>1, <2>2 DEF kernel
<1>6. ASSUME NEW m \in NsNames, DeleteNamespace(m) PROVE nat'[n] = 0
  <2>1. \A p \in Deployers : status[p] = "new"
    BY <1>6 DEF DeleteNamespace
  <2>2. tainted = {}
    BY <1>1, <2>1 DEF Contagious
  <2>3. \A p \in Deployers : ~PastNat(p, k)
    BY <2>1 DEF Contagious, Pos, PastNat, Linking
  <2>4. nat[n] = 0
    BY <1>2, <2>2, <2>3
  <2> QED BY <1>1, <1>6, <2>4 DEF DeleteNamespace
<1>7. ASSUME NEW m \in NsNames, CreateNamespace(m)
      PROVE  tainted = {} /\ UNCHANGED <<wg, nat, at>>
  BY <1>7 DEF CreateNamespace, env
<1>8. CASE UNCHANGED vars
  BY <1>8, <1>s DEF vars, kernel, env
<1>9. CASE Next
  BY <1>3, <1>4, <1>5, <1>6, <1>7, <1>9, <1>s DEF Next, Environment
<1> QED BY <1>8, <1>9

\* set_server_nat appends its rule without looking for one, and yet no sequence
\* of deploy() calls, failed, killed or repeated, makes two of it, unless a
\* namespace was deleted under a deployer.
THEOREM OneMasqueradeRule == Spec => []NatOnce
<1>1. Init => TypeOK /\ Contagious /\ SoFar /\ NatByHolder
  BY TypeInit, NodeFacts DEF Init, NatByHolder
<1>2. TypeOK /\ Contagious /\ SoFar /\ NatByHolder /\ [Next]_vars
        => (TypeOK /\ Contagious /\ SoFar /\ NatByHolder)'
  BY TypeStep, ContagiousStep, SoFarStep, NatStep
<1>3. TypeOK /\ NatByHolder => NatOnce
  <2> SUFFICES ASSUME NatByHolder, tainted = {}, NEW n \in NsNames PROVE nat[n] <= 1
    BY DEF NatOnce
  <2>1. PICK k \in 1..Len(Nodes) : n = Nodes[k].ns
    BY DEF NsNames
  <2> QED BY <2>1 DEF NatByHolder
<1> QED BY <1>1, <1>2, <1>3, PTL DEF Spec

-----------------------------------------------------------------------------
(***************************************************************************)
(* LoneDeploySucceeds.  It is so for a configuration none of whose routes  *)
(* is there before `ip route add`: the file the repository has is not one  *)
(* of these (run vpn_shipped).                                             *)
(***************************************************************************)
RoutesFree ==
  \A k \in 1..Len(Nodes) : \A j \in 1..Len(Nodes[k].routes) :
    /\ Nodes[k].routes[j] # Nodes[k].subnet
    /\ <<Nodes[k].ns, Nodes[k].routes[j]>> \notin LabRoutes
    /\ \A m \in 1..Len(Nodes[k].routes) : Nodes[k].routes[m] = Nodes[k].routes[j] => m = j

\* What a deployer at position x has before it or behind it.
CreateAhead(x, k) ==
  \/ x.l \in {"genkey", "pubkey"}
  \/ x.l \in Provisioning /\ (k > x.i \/ (k = x.i /\ x.l = "create"))

AddressAhead(x, k) ==
  CreateAhead(x, k) \/ (k = x.i /\ x.l \in Provisioning \ {"mtu", "up"})

RouteDone(x, k, j) ==
  x.l \in Linking /\ \/ x.l = "end" \/ k < x.i
                     \/ k = x.i /\ (x.l = "route" => j < x.j)

\* Without an interface a namespace has no address and no route but the lab's.
Bare ==
  /\ \A n \in NsNames : Made(n, "addr") \/ Made(n, "up") => wg[n] # None
  /\ \A r \in routes : r \in LabRoutes \/ wg[r[1]] # None

\* The host is as p has made it so far.
RoutesKnown(p) ==
  \A k \in 1..Len(Nodes) : \A r \in routes : r[1] = Nodes[k].ns =>
    \/ r \in LabRoutes \/ r[2] = Nodes[k].subnet
    \/ \E j \in 1..Len(Nodes[k].routes) :
         r[2] = Nodes[k].routes[j] /\ RouteDone(at[p], k, j)

Unhindered(p) ==
  /\ Active = {p} /\ netns = NsNames /\ p \notin tainted /\ ~at[p].failing
  /\ \A k \in 1..Len(Nodes) :
       /\ CreateAhead(at[p], k) => wg[Nodes[k].ns] = None
       /\ AddressAhead(at[p], k) => ~Made(Nodes[k].ns, "addr")
  /\ RoutesKnown(p)
  /\ at[p].l = "unlink" => conf[Ns(p)] # None

LoneInv ==
  \A p \in lone : /\ status[p] \in {"running", "done", "killed"}
                  /\ status[p] = "running" => Unhindered(p)

\* What a command adds that a later one may stumble over.
LEMMA Added ==
  ASSUME TypeOK, NEW p \in Deployers, Deploy(p)
  PROVE  /\ \A n, s : s \in {"addr", "up"} /\ Made(n, s)' =>
              Made(n, s) \/ (n = Ns(p) /\ at[p].l = s /\ wg[n] # None)
         /\ \A r \in routes' :
              \/ r \in routes
              \/ r = <<Ns(p), Node(p).subnet>> /\ at[p].l = "up" /\ wg[Ns(p)] # None
              \/ /\ r = <<Ns(p), Node(p).routes[at[p].j]>>
                 /\ at[p].l = "route" /\ Made(Ns(p), "up")
<1>1. ASSUME UNCHANGED <<set, routes>>
      PROVE  (\A n, s : Made(n, s)' => Made(n, s)) /\ routes' = routes
  BY <1>1 DEF Made
<1>2. CASE Address(p)
  <2>1. CASE set' = set /\ routes' = routes
    BY <1>1, <2>1
  <2>2. CASE /\ at[p].l = "addr" /\ wg[Ns(p)] # None
             /\ set' = set \union {<<Ns(p), "addr">>} /\ routes' = routes
    BY <2>2 DEF Made
  <2> QED BY <1>2, <2>1, <2>2 DEF Address, Setting, Execute, At, kernel
<1>3. CASE Mtu(p) \/ Forward(p) \/ RpAll(p) \/ RpDefault(p)
  <2>1. routes' = routes /\ \E l \in {"mtu", "forward", "rp_all", "rp_default"} :
                               set' = set \/ set' = set \union {<<Ns(p), l>>}
    BY <1>3 DEF Mtu, Forward, RpAll, RpDefault, Setting, Execute, kernel
  <2> QED BY <2>1 DEF Made
<1>4. CASE LinkUp(p)
  <2>1. CASE set' = set /\ routes' = routes
    BY <1>1, <2>1
  <2>2. CASE /\ at[p].l = "up" /\ wg[Ns(p)] # None
             /\ set' = set \union {<<Ns(p), "up">>}
             /\ routes' \subseteq routes \union {<<Ns(p), Node(p).subnet>>}
    BY <2>2 DEF Made
  <2> QED BY <1>4, <2>1, <2>2 DEF LinkUp, Execute, At, kernel
<1>5. CASE AddRoute(p)
  <2>1. CASE set' = set /\ routes' = routes
    BY <1>1, <2>1
  <2>2. CASE /\ at[p].l = "route" /\ Made(Ns(p), "up") /\ set' = set
             /\ routes' = routes \union {<<Ns(p), Node(p).routes[at[p].j]>>}
    BY <2>2 DEF Made
  <2> QED BY <1>5, <2>1, <2>2 DEF AddRoute, Execute, At, kernel
<1>6. CASE \/ GenerateKey(p) \/ Ask(p) \/ CreateInterface(p) \/ WriteConfig(p) \/ Chmod(p)
           \/ SetConf(p) \/ FileExists(p) \/ Unlink(p) \/ Masquerade(p) \/ Return(p)
  BY <1>1, <1>6 DEF GenerateKey, Ask, CreateInterface, WriteConfig, Chmod, SetConf, FileExists,
     Unlink, Masquerade, Return, Execute, kernel
<1> QED BY <1>2, <1>3, <1>4, <1>5, <1>6 DEF Deploy

LEMMA BareStep == TypeOK /\ Bare /\ [Next]_vars => Bare'
<1> SUFFICES ASSUME TypeOK, Bare, [Next]_vars PROVE Bare'
  OBVIOUS
<1>1. /\ wg \in [NsNames -> Deployers \union {None}] /\ routes \subseteq NsNames \X STRING
      /\ None \notin Deployers
  BY TypeParts, VpnAssumption DEF KernelTypes, VpnAssumption
<1>2. ASSUME NEW p \in Deployers, Deploy(p) PROVE Bare'
  <2>1. Footprint(p) /\ Ns(p) \in NsNames
    BY <1>2, DeployStep, Here
  <2>2. \A n \in NsNames : wg[n] # None => wg'[n] # None
    BY <1>1, <2>1 DEF Footprint
  <2>3. \A n \in NsNames : Made(n, "addr")' \/ Made(n, "up")' => wg[n] # None
    BY <1>2, Added DEF Bare
  <2>4. \A r \in routes' : r \in LabRoutes \/ (r[1] \in NsNames /\ wg[r[1]] # None)
    <3>1. Made(Ns(p), "up") => wg[Ns(p)] # None
      BY <2>1 DEF Bare
    <3>2. \A r \in routes : r[1] \in NsNames
      BY <1>1
    <3> QED BY <1>2, <2>1, <3>1, <3>2, Added DEF Bare
  <2> QED BY <2>2, <2>3, <2>4 DEF Bare
<1>3. ASSUME UNCHANGED kernel PROVE Bare'
  BY <1>3 DEF Bare, Made, kernel
<1>4. ASSUME NEW p \in Deployers, Start(p) \/ CommandFails(p) \/ Kill(p) PROVE Bare'
  BY <1>3, <1>4 DEF Start, CommandFails, Kill
<1>5. ASSUME NEW n \in NsNames, DeleteNamespace(n) PROVE Bare'
  <2>1. /\ set' = {s \in set : s[1] # n} /\ routes' = {r \in routes : r[1] # n}
        /\ \A m \in NsNames : m # n => wg'[m] = wg[m]
    BY <1>1, <1>5 DEF DeleteNamespace
  <2>2. \A r \in routes : r[1] \in NsNames
    BY <1>1
  <2> QED BY <2>1, <2>2 DEF Bare, Made
<1>6. ASSUME NEW n \in NsNames, CreateNamespace(n) PROVE Bare'
  BY <1>6 DEF CreateNamespace, Bare, Made
<1> QED BY <1>2, <1>3, <1>4, <1>5, <1>6 DEF Next, Environment, vars

\* From position x to y nothing done is ahead again.
Onward(x, y) ==
  /\ \A k \in 1..Len(Nodes) : /\ CreateAhead(y, k) => CreateAhead(x, k)
                              /\ AddressAhead(y, k) => AddressAhead(x, k)
  /\ \A k, j \in Nat : RouteDone(x, k, j) => RouteDone(y, k, j)

LEMMA OnwardSteps ==
  ASSUME NEW x \in PosType, NEW y \in PosType,
         \/ y.l = x.l /\ y.i = x.i /\ y.j = x.j
         \/ x.l \in {"genkey", "pubkey"}
         \/ /\ x.l \in Provisioning /\ y.l \in Provisioning \ {"create"} /\ y.i = x.i
            /\ x.l \in {"mtu", "up"} => y.l \in {"mtu", "up"}
         \/ x.l = "up" /\ y.l = "create" /\ y.i = x.i + 1
         \/ x.l \in Provisioning /\ y.l \in Linking
         \/ /\ x.l \in Linking \ {"end"} /\ y.l \in Linking
            /\ \/ y.l = "end" \/ y.i > x.i
               \/ y.i = x.i /\ (y.l = "route" => x.l = "route" /\ y.j >= x.j)
  PROVE  Onward(x, y)
<1>1. x.i \in Nat /\ y.i \in Nat /\ x.j \in Nat /\ y.j \in Nat /\ Len(Nodes) \in Nat
  BY NodeFacts DEF PosType
<1>2. \A k \in 1..Len(Nodes) : /\ CreateAhead(y, k) => CreateAhead(x, k)
                               /\ AddressAhead(y, k) => AddressAhead(x, k)
  BY <1>1 DEF CreateAhead, AddressAhead, Provisioning, Linking
<1>3. \A k, j \in Nat : RouteDone(x, k, j) => RouteDone(y, k, j)
  BY <1>1 DEF RouteDone, Provisioning, Linking
<1> QED BY <1>2, <1>3 DEF Onward

\* What p does next succeeds, and leaves p further on.
Progress(p) ==
  /\ status'[p] \in {"running", "done"} /\ ~at'[p].failing /\ Onward(at[p], at'[p])
  /\ at[p].l = "create" /\ wg' # wg => at'[p].l = "write" /\ at'[p].i = at[p].i
  /\ at[p].l = "addr" /\ set' # set => at'[p].l = "mtu" /\ at'[p].i = at[p].i
  /\ at[p].l = "route" /\ routes' # routes => RouteDone(at'[p], at[p].i, at[p].j)
  /\ at'[p].l = "unlink" => conf'[Ns(p)'] # None

\* A command in the node's own part of the first loop.
LEMMA ThenProgresses ==
  ASSUME TypeOK, NEW p \in Deployers, NEW l \in Provisioning \ {"create", "unlink"}, Then(p, l),
         status[p] = "running", UNCHANGED env, at[p].l \in Provisioning,
         at[p].l \in {"mtu", "up"} => l = "up",
         at[p].l = "create" => l = "write", at[p].l = "addr" => l = "mtu"
  PROVE  Progress(p)
<1>1. at'[p] = Pos(l, at[p].i, 1) /\ Moves(p) /\ status' = status
  BY ThenMoves DEF Provisioning, Labels
<1>2. at'[p].l = l /\ at'[p].i = at[p].i /\ ~at'[p].failing
  BY <1>1 DEF Pos
<1>3. at[p] \in PosType /\ at'[p] \in PosType
  BY <1>1, Here DEF Moves
<1>4. Onward(at[p], at'[p])
  BY <1>2, <1>3, OnwardSteps DEF Provisioning
<1> QED BY <1>1, <1>2, <1>4 DEF Progress, Provisioning

\* Going on in the second loop at node i and its j-th route, or at the end.
LEMMA LinkProgresses ==
  ASSUME TypeOK, NEW p \in Deployers, NEW i \in 1..(Len(Nodes) + 1), NEW j \in Nat \ {0},
         \/ i \in 1..Len(Nodes) /\ Goto(p, RoutesFrom(i, j))
         \/ j = 1 /\ Goto(p, LinksFrom(i)),
         status[p] = "running", UNCHANGED env,
         \/ at[p].l \in {"up", "pubkey"}
         \/ at[p].l \in Linking \ {"end"} /\ i > at[p].i
         \/ at[p].l = "route" /\ i = at[p].i /\ j = at[p].j + 1
  PROVE  Progress(p)
<1>1. /\ at[p] \in PosType /\ at[p].i \in 1..Len(Nodes) /\ at[p].j \in Nat \ {0}
      /\ Len(Nodes) \in Nat /\ at \in [Deployers -> PosType]
      /\ \A k \in 1..Len(Nodes) : Len(Nodes[k].routes) \in Nat
  BY Here, NodeFacts, TypeParts
<1>2. \/ i \in 1..Len(Nodes) /\ at'[p] = RoutesFrom(i, j)
      \/ i = Len(Nodes) + 1 /\ at'[p] = LinksFrom(i)
  BY <1>1, LinksPos DEF Goto
<1>3. /\ at'[p] \in PosType /\ at'[p].l \in Linking /\ ~at'[p].failing
      /\ at'[p].l = "end" \/ at'[p].i = i
      /\ at'[p].l = "route" => at'[p].j = j
  <2>1. CASE i \in 1..Len(Nodes) /\ at'[p] = RoutesFrom(i, j)
    BY <1>1, <2>1, RoutesPos DEF Linking
  <2>2. CASE i = Len(Nodes) + 1 /\ at'[p] = LinksFrom(i)
    BY <2>2, LinksPos DEF Linking
  <2> QED BY <1>2, <2>1, <2>2
<1>4. Onward(at[p], at'[p])
  BY <1>1, <1>3, OnwardSteps DEF Provisioning, Linking
<1>5. at[p].l = "route" => RouteDone(at'[p], at[p].i, at[p].j)
  BY <1>1, <1>3 DEF RouteDone, Linking
<1>6. status' = status
  BY DEF Goto
<1> QED BY <1>3, <1>4, <1>5, <1>6 DEF Progress, Linking

LEMMA LoneProgresses ==
  ASSUME TypeOK, RoutesFree, NEW p \in Deployers, status[p] = "running", Deploy(p),
         Provisioned(p), AllLinked(p), Unhindered(p)
  PROVE  Progress(p)
<1>1. /\ at[p] \in PosType /\ at[p].i \in 1..Len(Nodes) /\ at[p].j \in Nat \ {0}
      /\ Node(p) = Nodes[at[p].i] /\ Ns(p) = Nodes[at[p].i].ns /\ Ns(p) \in NsNames
      /\ at \in [Deployers -> PosType] /\ status \in [Deployers -> Statuses]
      /\ Len(Nodes) \in Nat /\ 1 \in 1..Len(Nodes) /\ None \notin Deployers
      /\ KernelTypes
  BY Here, NodeFacts, TypeParts, VpnAssumption DEF Ns, Node, VpnAssumption
<1>2. Ns(p) \in netns /\ ~at[p].failing /\ UNCHANGED env
  BY <1>1, DeployStep DEF Unhindered, Moves
<1>w. at[p].l \in Provisioning \ {"create"} => wg[Ns(p)] # None
  BY <1>1 DEF Provisioned
<1>3. CASE GenerateKey(p)
  <2>1. Pos("create", 1, 1) \in PosType
    BY <1>1, SimplePos DEF Labels
  <2>2. at[p].l \in {"genkey", "pubkey"} /\ (Then(p, "pubkey") \/ NextNode(p, "genkey", Pos("create", 1, 1)))
    BY <1>2, <1>3 DEF GenerateKey, At
  <2>3. /\ status' = status /\ Moves(p)
        /\ \/ at'[p] = Pos("pubkey", at[p].i, 1) \/ at'[p] = Pos("genkey", at[p].i + 1, 1)
           \/ at'[p] = Pos("create", 1, 1)
    BY <1>2, <2>1, <2>2, ThenMoves, NextNodeMoves DEF Labels
  <2>4. at'[p] \in PosType /\ ~at'[p].failing /\ at'[p].l # "unlink"
    BY <2>3 DEF Moves, Pos
  <2> QED BY <1>1, <2>2, <2>3, <2>4, OnwardSteps DEF Progress
<1>4. CASE Ask(p)
  <2>1. /\ Goto(p, [at[p] EXCEPT !.asked = TRUE]) /\ UNCHANGED kernel
        /\ at[p].l \in Executed
    BY <1>2, <1>4 DEF Ask
  <2>2. /\ at'[p].l = at[p].l /\ at'[p].i = at[p].i /\ at'[p].j = at[p].j
        /\ ~at'[p].failing /\ status' = status /\ at'[p] \in PosType
    BY <1>1, <1>2, <2>1 DEF Goto, PosType
  <2>3. Onward(at[p], at'[p])
    BY <1>1, <2>2, OnwardSteps
  <2> QED BY <2>1, <2>2, <2>3 DEF Progress, Executed, kernel
<1>5. CASE CreateInterface(p)
  <2>1. at[p].l = "create" /\ wg[Ns(p)] = None
    BY <1>1, <1>5 DEF CreateInterface, Execute, At, Unhindered, CreateAhead, Provisioning
  <2>2. Then(p, "write")
    BY <1>2, <1>5, <2>1 DEF CreateInterface, Execute
  <2> QED BY <1>2, <2>1, <2>2, ThenProgresses DEF Provisioning
<1>6. CASE WriteConfig(p)
  BY <1>2, <1>6, ThenProgresses DEF WriteConfig, At, Provisioning
<1>7. CASE Chmod(p)
  <2>1. at[p].l = "chmod" /\ conf[Ns(p)] # None
    <3>1. at[p].l = "chmod" /\ conf[Ns(p)] = Config(p)
      BY <1>7 DEF Chmod, At, Provisioned
    <3>2. wg[Ns(p)] # None
      BY <1>w, <3>1 DEF Provisioning
    <3> QED BY <3>1, ConfigIsSome
  <2> QED BY <1>2, <1>7, <2>1, ThenProgresses DEF Chmod, Provisioning
<1>8. CASE SetConf(p)
  <2>1. at[p].l = "setconf" /\ conf[Ns(p)] # None /\ wg[Ns(p)] # None
    BY <1>8, <1>w, ConfigIsSome DEF SetConf, Execute, At, Provisioned, Provisioning
  <2> QED BY <1>2, <1>8, <2>1, ThenProgresses DEF SetConf, Execute, Provisioning
<1>9. CASE FileExists(p)
  <2>1. at[p].l = "exists" /\ conf' = conf
    BY <1>9 DEF FileExists, At
  <2>2. CASE conf[Ns(p)] # None
    <3>1. Goto(p, [at[p] EXCEPT !.l = "unlink"])
      BY <1>9, <2>2 DEF FileExists
    <3>2. /\ at'[p].l = "unlink" /\ at'[p].i = at[p].i /\ ~at'[p].failing
          /\ at'[p] \in PosType /\ status' = status
      BY <1>1, <1>2, <3>1 DEF Goto, PosType, Labels
    <3>3. Ns(p)' = Ns(p)
      BY <3>2 DEF Ns, Node
    <3>4. Onward(at[p], at'[p])
      BY <1>1, <2>1, <3>2, OnwardSteps DEF Provisioning
    <3> QED BY <2>1, <2>2, <3>2, <3>3, <3>4 DEF Progress
  <2>3. CASE conf[Ns(p)] = None
    BY <1>2, <1>9, <2>1, <2>3, ThenProgresses DEF FileExists, Applied, Provisioning
  <2> QED BY <2>2, <2>3
<1>10. CASE Unlink(p)
  <2>1. at[p].l = "unlink" /\ conf[Ns(p)] # None
    BY <1>10 DEF Unlink, At, Unhindered
  <2> QED BY <1>2, <1>10, <2>1, ThenProgresses DEF Unlink, Applied, Provisioning
<1>11. CASE Address(p)
  <2>1. at[p].l = "addr" /\ wg[Ns(p)] # None /\ ~Made(Ns(p), "addr")
    BY <1>1, <1>11, <1>w DEF Address, Setting, Execute, At, Unhindered, AddressAhead, Provisioning
  <2> QED BY <1>2, <1>11, <2>1, ThenProgresses DEF Address, Setting, Execute, Provisioning
<1>12. CASE Mtu(p)
  <2>1. at[p].l = "mtu" /\ wg[Ns(p)] # None
    BY <1>12, <1>w DEF Mtu, Setting, Execute, At, Provisioning
  <2> QED BY <1>2, <1>12, <2>1, ThenProgresses DEF Mtu, Setting, Execute, Provisioning
<1>13. CASE LinkUp(p)
  <2>1. at[p].l = "up" /\ wg[Ns(p)] # None
    BY <1>13, <1>w DEF LinkUp, Execute, At, Provisioning
  <2>2. NextNode(p, "create", LinksFrom(1))
    BY <1>2, <1>13, <2>1 DEF LinkUp, Execute
  <2>3. CASE at[p].i < Len(Nodes)
    <3>1. at[p].i + 1 \in 1..Len(Nodes) /\ Goto(p, Pos("create", at[p].i + 1, 1))
      BY <1>1, <2>2, <2>3 DEF NextNode
    <3>2. Pos("create", at[p].i + 1, 1) \in PosType
      BY <3>1, SimplePos DEF Labels
    <3>3. at'[p] = Pos("create", at[p].i + 1, 1) /\ status' = status
      BY <1>2, <3>1, <3>2, GotoMoves
    <3>4. at'[p].l = "create" /\ at'[p].i = at[p].i + 1 /\ ~at'[p].failing
      BY <3>3 DEF Pos
    <3>5. Onward(at[p], at'[p])
      BY <1>1, <2>1, <3>2, <3>3, <3>4, OnwardSteps
    <3> QED BY <2>1, <3>3, <3>4, <3>5 DEF Progress
  <2>4. CASE ~(at[p].i < Len(Nodes))
    <3>1. Goto(p, LinksFrom(1)) /\ 1 \in 1..(Len(Nodes) + 1) /\ 1 \in Nat \ {0}
      BY <1>1, <2>2, <2>4 DEF NextNode
    <3>2. status[p] = "running" /\ at[p].l \in {"up", "pubkey"} /\ UNCHANGED env
      BY <1>2, <2>1
    <3> QED BY <3>1, <3>2, LinkProgresses
  <2> QED BY <2>3, <2>4
<1>14. CASE AddRoute(p)
  <2>1. /\ at[p].l = "route" /\ at[p].j \in 1..Len(Nodes[at[p].i].routes)
        /\ \A k \in 1..Len(Nodes) : Ready(p, k)
    BY <1>1, <1>14, NodeFacts DEF AddRoute, Execute, At, AllLinked, Linking
  <2>2. Made(Ns(p), "up")
    BY <1>1, <2>1 DEF Ready
  <2>3. <<Ns(p), Node(p).routes[at[p].j]>> \notin routes
    <3> DEFINE t == Nodes[at[p].i].routes[at[p].j]
    <3> SUFFICES ASSUME <<Ns(p), t>> \in routes PROVE FALSE
      BY <1>1
    <3>1. <<Ns(p), t>> \notin LabRoutes /\ t # Nodes[at[p].i].subnet
      BY <1>1, <2>1 DEF RoutesFree
    <3>2. PICK j \in 1..Len(Nodes[at[p].i].routes) :
            t = Nodes[at[p].i].routes[j] /\ RouteDone(at[p], at[p].i, j)
      BY <1>1, <3>1 DEF Unhindered, RoutesKnown
    <3>3. j = at[p].j
      BY <1>1, <2>1, <3>2 DEF RoutesFree
    <3> QED BY <1>1, <2>1, <3>2, <3>3 DEF RouteDone
  <2>4. Goto(p, RoutesFrom(at[p].i, at[p].j + 1))
    BY <1>2, <1>14, <2>2, <2>3 DEF AddRoute, Execute
  <2> QED BY <1>1, <1>2, <2>1, <2>4, LinkProgresses
<1>15. CASE Forward(p) \/ RpAll(p)
  <2>1. /\ at[p].l \in {"forward", "rp_all"}
        /\ Then(p, "nat") \/ Then(p, "rp_default")
    BY <1>2, <1>15 DEF Forward, RpAll, Setting, Execute, At
  <2>2. /\ status' = status /\ Moves(p)
        /\ at'[p] = Pos("nat", at[p].i, 1) \/ at'[p] = Pos("rp_default", at[p].i, 1)
    BY <1>2, <2>1, ThenMoves DEF Labels
  <2>3. /\ at'[p] \in PosType /\ ~at'[p].failing /\ at'[p].i = at[p].i
        /\ at'[p].l \in {"nat", "rp_default"}
    BY <2>2 DEF Moves, Pos
  <2>4. Onward(at[p], at'[p])
    BY <1>1, <2>1, <2>3, OnwardSteps DEF Linking
  <2> QED BY <2>1, <2>2, <2>3, <2>4 DEF Progress
<1>16. CASE Masquerade(p) \/ RpDefault(p)
  <2>1. at[p].l \in {"nat", "rp_default"} /\ Goto(p, LinksFrom(at[p].i + 1))
    BY <1>2, <1>16 DEF Masquerade, RpDefault, Setting, Execute, At
  <2>2. at[p].i + 1 \in 1..(Len(Nodes) + 1) /\ at[p].i + 1 > at[p].i
    BY <1>1
  <2> QED BY <1>1, <1>2, <2>1, <2>2, LinkProgresses DEF Linking
<1>17. CASE Return(p)
  <2>1. /\ at' = at /\ at[p].l = "end" /\ status'[p] = "done" /\ UNCHANGED kernel
    BY <1>1, <1>17 DEF Return, At
  <2>2. Onward(at[p], at'[p])
    BY <1>1, <2>1, OnwardSteps
  <2> QED BY <1>2, <2>1, <2>2 DEF Progress
<1> QED
  BY <1>3, <1>4, <1>5, <1>6, <1>7, <1>8, <1>9, <1>10, <1>11, <1>12, <1>13, <1>14, <1>15,
     <1>16, <1>17 DEF Deploy

LEMMA NetnsKept ==
  ASSUME NEW p \in Deployers, Deploy(p)
  PROVE  netns' = netns
BY DEF Deploy, GenerateKey, Ask, CreateInterface, WriteConfig, Chmod, SetConf, FileExists, Unlink,
   Address, Mtu, LinkUp, AddRoute, Forward, Masquerade, RpAll, RpDefault, Return,
   Setting, Execute, kernel

\* A deployer that had the host to itself and goes on has it still.
LEMMA LoneGoesOn ==
  ASSUME TypeOK, NEW p \in Deployers, Deploy(p), status[p] = "running",
         AllLinked(p), Unhindered(p), Progress(p), status'[p] = "running"
  PROVE  Unhindered(p)'
<1>1. /\ Moves(p) /\ Footprint(p) /\ netns' = netns
      /\ at[p].i \in 1..Len(Nodes) /\ at[p].j \in Nat \ {0} /\ Len(Nodes) \in Nat
      /\ Node(p) = Nodes[at[p].i] /\ Ns(p) = Nodes[at[p].i].ns
      /\ \A k \in 1..Len(Nodes) : Nodes[k].ns \in NsNames
      /\ \A k \in 1..Len(Nodes) : Len(Nodes[k].routes) \in Nat
      /\ p # None
  BY DeployStep, NetnsKept, Here, NodeFacts, VpnAssumption DEF VpnAssumption, Ns, Node
<1>2. Active' = {p} /\ netns' = NsNames /\ p \notin tainted' /\ ~at'[p].failing
  <2>1. Active' = Active
    BY <1>1 DEF Active, Moves
  <2> QED BY <1>1, <2>1 DEF Unhindered, Progress, Moves, env
<1>3. ASSUME NEW k \in 1..Len(Nodes), CreateAhead(at'[p], k)
      PROVE  wg'[Nodes[k].ns] = None
  <2>1. wg[Nodes[k].ns] = None
    BY <1>3 DEF Progress, Onward, Unhindered
  <2> SUFFICES ASSUME wg'[Nodes[k].ns] # None PROVE FALSE
    OBVIOUS
  <2>2. Nodes[k].ns = Ns(p) /\ at[p].l = "create" /\ wg' # wg
    BY <1>1, <2>1 DEF Footprint
  <2>3. k = at[p].i
    BY <1>1, <2>2, NodeFacts
  <2>4. at'[p].l = "write" /\ at'[p].i = at[p].i
    BY <2>2 DEF Progress
  <2> QED BY <1>1, <1>3, <2>3, <2>4 DEF CreateAhead
<1>4. ASSUME NEW k \in 1..Len(Nodes), AddressAhead(at'[p], k)
      PROVE  ~Made(Nodes[k].ns, "addr")'
  <2>1. ~Made(Nodes[k].ns, "addr")
    BY <1>4 DEF Progress, Onward, Unhindered
  <2> SUFFICES ASSUME Made(Nodes[k].ns, "addr")' PROVE FALSE
    OBVIOUS
  <2>2. Nodes[k].ns = Ns(p) /\ at[p].l = "addr"
    BY <2>1, Added
  <2>3. set' # set
    BY <2>1 DEF Made
  <2>4. k = at[p].i
    BY <1>1, <2>2, NodeFacts
  <2>5. at'[p].l = "mtu" /\ at'[p].i = at[p].i
    BY <2>2, <2>3 DEF Progress
  <2> QED BY <1>1, <1>4, <2>4, <2>5 DEF AddressAhead, CreateAhead
<1>5. RoutesKnown(p)'
  <2> SUFFICES ASSUME NEW k \in 1..Len(Nodes), NEW r \in routes', r[1] = Nodes[k].ns
               PROVE  \/ r \in LabRoutes \/ r[2] = Nodes[k].subnet
                      \/ \E j \in 1..Len(Nodes[k].routes) :
                            r[2] = Nodes[k].routes[j] /\ RouteDone(at'[p], k, j)
    BY DEF RoutesKnown
  <2>1. CASE r \in routes
    <3>1. ASSUME NEW j \in 1..Len(Nodes[k].routes), RouteDone(at[p], k, j)
          PROVE  RouteDone(at'[p], k, j)
      <4>1. k \in Nat /\ j \in Nat
        BY <1>1
      <4> QED BY <3>1, <4>1 DEF Progress, Onward
    <3> QED BY <2>1, <3>1 DEF Unhindered, RoutesKnown
  <2>2. CASE r = <<Ns(p), Node(p).subnet>>
    <3>1. k = at[p].i
      BY <1>1, <2>2, NodeFacts
    <3> QED BY <1>1, <2>2, <3>1
  <2>3. CASE r \notin routes /\ r = <<Ns(p), Node(p).routes[at[p].j]>> /\ at[p].l = "route"
    <3>1. k = at[p].i
      BY <1>1, <2>3, NodeFacts
    <3>2. at[p].j \in 1..Len(Nodes[k].routes)
      BY <1>1, <2>3, <3>1 DEF AllLinked
    <3>3. RouteDone(at'[p], k, at[p].j)
      BY <2>3, <3>1 DEF Progress
    <3> QED BY <1>1, <2>3, <3>1, <3>2, <3>3
  <2> QED BY <2>1, <2>2, <2>3, Added
<1>6. at'[p].l = "unlink" => (conf[Ns(p)])' # None
  BY DEF Progress
<1> QED BY <1>2, <1>3, <1>4, <1>5, <1>6 DEF Unhindered

LEMMA LoneStep ==
  /\ RoutesFree
  /\ TypeOK /\ Contagious /\ SoFar /\ Bare /\ LoneInv /\ [Next]_vars
  => LoneInv'
<1> SUFFICES ASSUME RoutesFree, TypeOK, Contagious, SoFar, Bare, LoneInv, [Next]_vars,
                    NEW p \in lone'
             PROVE  /\ status'[p] \in {"running", "done", "killed"}
                    /\ status'[p] = "running" => Unhindered(p)'
  BY DEF LoneInv
<1>1. /\ lone \subseteq Deployers /\ status \in [Deployers -> Statuses]
      /\ routes \subseteq NsNames \X STRING
  BY TypeParts DEF KernelTypes
<1>2. ASSUME p \in lone, status[p] # "running", status'[p] = status[p]
      PROVE  /\ status'[p] \in {"running", "done", "killed"}
             /\ status'[p] = "running" => Unhindered(p)'
  BY <1>2 DEF LoneInv
\* Whoever runs beside a lone deployer runs alone.
<1>3. ASSUME NEW q \in Deployers, status[q] = "running", p \in lone, p # q
      PROVE  status[p] # "running"
  <2>1. SUFFICES ASSUME status[p] = "running" PROVE FALSE
    OBVIOUS
  <2>2. Active = {p} /\ q \in Active
    BY <1>3, <2>1 DEF LoneInv, Unhindered, Active
  <2> QED BY <1>3, <2>2
<1>4. ASSUME NEW q \in Deployers, Deploy(q)
      PROVE  /\ status'[p] \in {"running", "done", "killed"}
             /\ status'[p] = "running" => Unhindered(p)'
  <2>1. /\ status[q] = "running" /\ p \in lone
        /\ p # q => status'[p] = status[p]
    BY <1>1, <1>4, DeployStep DEF Moves, env
  <2>2. CASE p # q
    BY <1>2, <1>3, <2>1, <2>2
  <2>3. CASE p = q
    <3>1. Unhindered(p)
      BY <2>1, <2>3 DEF LoneInv
    <3>2. Provisioned(p) /\ AllLinked(p)
      BY <1>1, <2>1, <2>3, <3>1 DEF SoFar, Unhindered
    <3>3. Progress(p)
      BY <1>4, <2>1, <2>3, <3>1, <3>2, LoneProgresses
    <3> QED BY <1>4, <2>1, <2>3, <3>1, <3>2, <3>3, LoneGoesOn DEF Progress
  <2> QED BY <2>2, <2>3
<1>5. ASSUME NEW q \in Deployers, Start(q)
      PROVE  /\ status'[p] \in {"running", "done", "killed"}
             /\ status'[p] = "running" => Unhindered(p)'
  <2>1. /\ status[q] = "new" /\ status'[q] = "running" /\ UNCHANGED <<kernel, conf, at>>
        /\ \A x \in Deployers \ {q} : status'[x] = status[x]
        /\ q \notin lone
    BY <1>1, <1>5 DEF Start, LoneInv
  <2>2. CASE p \in lone
    <3>1. p # q /\ status'[p] = status[p]
      BY <1>1, <2>1, <2>2
    <3>2. status[p] # "running"
      <4> SUFFICES ASSUME status[p] = "running" PROVE FALSE
        OBVIOUS
      <4>1. p \in Active
        BY <1>1, <2>2 DEF Active
      <4>2. lone' = lone \ Active
        BY <1>5, <4>1 DEF Start
      <4> QED BY <4>1, <4>2
    <3> QED BY <1>2, <2>2, <3>1, <3>2
  <2>3. CASE p \notin lone
    <3>1. /\ p = q /\ Active = {} /\ netns = NsNames
          /\ \A n \in NsNames : wg[n] = None
      BY <1>5, <2>3 DEF Start
    <3>2. tainted' = tainted /\ p \notin tainted /\ at[p] = Pos("genkey", 1, 1)
      BY <1>5, <2>1, <3>1 DEF Start, Contagious
    <3>3. Active' = {p}
      BY <1>1, <2>1, <3>1 DEF Active
    <3>4. \A n \in NsNames : ~Made(n, "addr")
      BY <3>1 DEF Bare
    <3>5. \A r \in routes : r \in LabRoutes
      BY <1>1, <3>1 DEF Bare
    <3>6. \A k \in 1..Len(Nodes) : Nodes[k].ns \in NsNames
      BY NodeFacts
    <3>7. /\ wg' = wg /\ set' = set /\ routes' = routes /\ netns' = netns
          /\ at'[p].l = "genkey" /\ ~at'[p].failing
      BY <2>1, <3>2 DEF kernel, Pos
    <3>8. RoutesKnown(p)'
      BY <3>5, <3>7 DEF RoutesKnown
    <3> QED BY <2>1, <3>1, <3>2, <3>3, <3>4, <3>6, <3>7, <3>8 DEF Unhindered, Made
  <2> QED BY <2>2, <2>3
<1>6. ASSUME NEW q \in Deployers, CommandFails(q)
      PROVE  /\ status'[p] \in {"running", "done", "killed"}
             /\ status'[p] = "running" => Unhindered(p)'
  <2>1. p \in lone /\ p # q /\ status[q] = "running" /\ Raise(q)
    BY <1>6 DEF CommandFails
  <2>2. status'[p] = status[p]
    BY <1>1, <2>1, RaiseTypes
  <2> QED BY <1>2, <1>3, <2>1, <2>2
<1>7. ASSUME NEW q \in Deployers, Kill(q)
      PROVE  /\ status'[p] \in {"running", "done", "killed"}
             /\ status'[p] = "running" => Unhindered(p)'
  <2>1. /\ p \in lone /\ status[q] = "running"
        /\ status' = [status EXCEPT ![q] = "killed"]
    BY <1>7 DEF Kill, env
  <2> QED BY <1>1, <1>2, <1>3, <2>1
<1>8. ASSUME NEW n \in NsNames, DeleteNamespace(n)
      PROVE  /\ status'[p] \in {"running", "done", "killed"}
             /\ status'[p] = "running" => Unhindered(p)'
  <2>1. p \in lone /\ p \notin Active /\ status' = status
    BY <1>8 DEF DeleteNamespace
  <2> QED BY <1>1, <1>2, <2>1 DEF Active
<1>9. ASSUME NEW n \in NsNames, CreateNamespace(n)
      PROVE  /\ status'[p] \in {"running", "done", "killed"}
             /\ status'[p] = "running" => Unhindered(p)'
  <2>1. p \in lone /\ status' = status /\ netns # NsNames
    BY <1>9 DEF CreateNamespace, env
  <2> QED BY <1>2, <2>1 DEF LoneInv, Unhindered
<1>10. CASE UNCHANGED vars
  BY <1>10 DEF vars, kernel, env, LoneInv, Unhindered, Active, RoutesKnown, Made, Ns, Node
<1> QED BY <1>4, <1>5, <1>6, <1>7, <1>8, <1>9, <1>10 DEF Next, Environment

\* VPNManager.deploy, alone on a fresh laboratory and with no command failing
\* for a reason of the host's own, does not fail, whatever failed, killed or
\* concurrent calls came before: nothing they left in /tmp/vpn_research or
\* in the namespaces that were deleted stands in its way.
THEOREM AloneItSucceeds == RoutesFree => (Spec => []LoneDeploySucceeds)
<1> DEFINE Inv == TypeOK /\ Contagious /\ SoFar /\ Bare /\ LoneInv
<1> SUFFICES ASSUME RoutesFree PROVE Spec => []LoneDeploySucceeds
  OBVIOUS
<1>1. Init => Inv
  <2> SUFFICES ASSUME Init PROVE Inv
    OBVIOUS
  <2>1. Bare /\ LoneInv
    BY DEF Init, Bare, LoneInv, Made
  <2> QED BY <2>1, TypeInit
<1>2. Inv /\ [Next]_vars => Inv'
  BY TypeStep, ContagiousStep, SoFarStep, BareStep, LoneStep
<1>3. Inv => LoneDeploySucceeds
  BY DEF LoneInv, LoneDeploySucceeds
<1> QED BY <1>1, <1>2, <1>3, PTL DEF Spec
=============================================================================
