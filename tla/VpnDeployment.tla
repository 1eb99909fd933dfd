---------------------------- MODULE VpnDeployment ----------------------------
(***************************************************************************)
(* lab/vpn/: VPNManager.deploy with WireGuardKeyManager and                *)
(* WireGuardManager, executed by several programs at once (run_vpn_demo.py *)
(* and the experiments deploy; run_lab.py, destroy_lab.py and the          *)
(* experiments delete and recreate the namespaces meanwhile).              *)
(*                                                                         *)
(* NamespaceManager.execute asks namespace_exists and then runs its        *)
(* command: two steps.  The configuration of an interface goes through a   *)
(* file in /tmp/vpn_research whose name depends on the node only, so       *)
(* deployers share it.                                                     *)
(***************************************************************************)
EXTENDS Integers, Sequences, FiniteSets

CONSTANTS
  Deployers,   \* processes that call deploy()
  Nodes,       \* VPNConfiguration.nodes, in order:
               \*   [ns, role, subnet, peers, routes]; peers is the set of
               \*   target namespaces, routes the sequence of targets, all of
               \*   them through the node's own interface
  LabRoutes,   \* <<namespace, target>> of the routes TopologyBuilder adds
  None,        \* no interface, no configuration
  MaxRebuilds, \* bound: namespaces deleted
  MaxFaults    \* bound: commands that fail for a reason of the host's own

NsNames == {Nodes[k].ns : k \in 1..Len(Nodes)}

\* `wg genkey` is fresh: the pair p generates for node n is named after both.
\* What a configuration file holds: a private key and public ones.
Keys == Deployers \X NsNames
KeySets == [key : Keys, peers : SUBSET Keys]

\* VPNConfiguration.validate: every peer is a node.  It does not demand one
\* node per namespace (VpnConfiguration has files without); the configurations
\* of the repository have it.
VpnAssumption ==
  /\ Nodes \in Seq([ns : STRING, role : {"server", "client"}, subnet : STRING,
                    peers : SUBSET STRING, routes : Seq(STRING)])
  /\ Nodes # <<>>
  /\ \A j, k \in 1..Len(Nodes) : Nodes[j].ns = Nodes[k].ns => j = k
  /\ \A k \in 1..Len(Nodes) : Nodes[k].peers \subseteq NsNames
  /\ LabRoutes \subseteq NsNames \X STRING
  /\ None \notin Deployers \union KeySets
  /\ MaxRebuilds \in Nat /\ MaxFaults \in Nat

ASSUME VpnAssumption

VARIABLES
  \* the kernel
  netns,    \* the existing namespaces
  wg,       \* wg[n]: who created n's WireGuard interface, or None
  keyed,    \* keyed[n]: the keys of that interface, or None
  set,      \* <<n, setting>> made in n
  routes,   \* <<n, target>>
  nat,      \* nat[n]: number of MASQUERADE rules
  \* the shared directory
  conf,     \* conf[n]: the content of n's configuration file, or None
  \* the deployers
  status,   \* "new", "running", "done", "failed", "killed"
  at,       \* at[p]: the command p is at
  \* history and bounds
  tainted,  \* deployers that ran while the laboratory was being replaced, or
            \* beside one that did
  lone,     \* deployers that found a fresh laboratory and had it to themselves
  rebuilds, faults

kernel == <<netns, wg, keyed, set, routes, nat>>
env == <<tainted, lone, rebuilds, faults>>
vars == <<kernel, conf, status, at, env>>

\* A command of deploy(): its label, the node and the route it is for, whether
\* namespace_exists was asked already, and whether an exception waits for the
\* finally clause of generate_and_apply_config.
Labels == {"genkey", "pubkey", "create", "write", "chmod", "setconf", "exists",
           "unlink", "addr", "mtu", "up", "route", "forward", "nat", "rp_all",
           "rp_default", "end"}

Pos(l, i, j) == [l |-> l, i |-> i, j |-> j, asked |-> FALSE, failing |-> FALSE]

Node(p) == Nodes[at[p].i]
Ns(p) == Node(p).ns

Key(p, n) == <<p, n>>

\* Defect: an interface gets its own public key for its peers'.
OwnKeyForPeers(p) ==
  [key |-> Key(p, Ns(p)), peers |-> {Key(p, Ns(p)) : m \in Node(p).peers}]

\* What generate_and_apply_config writes: the node's private key and its
\* peers' public ones.
Config(p) ==
  [key |-> Key(p, Ns(p)), peers |-> {Key(p, m) : m \in Node(p).peers}]

-----------------------------------------------------------------------------
Init ==
  /\ netns = NsNames
  /\ wg = [n \in NsNames |-> None]
  /\ keyed = [n \in NsNames |-> None]
  /\ set = {}
  /\ routes = LabRoutes
  /\ nat = [n \in NsNames |-> 0]
  /\ conf = [n \in NsNames |-> None]
  /\ status = [p \in Deployers |-> "new"]
  /\ at = [p \in Deployers |-> Pos("genkey", 1, 1)]
  /\ tainted = {} /\ lone = {}
  /\ rebuilds = 0 /\ faults = 0

At(p, l) == status[p] = "running" /\ at[p].l = l

Goto(p, pos) == at' = [at EXCEPT ![p] = pos] /\ UNCHANGED status

\* The next command for the same node.
Then(p, l) == Goto(p, Pos(l, at[p].i, 1))

\* The next node of a loop, or what follows it.
NextNode(p, first, after) ==
  Goto(p, IF at[p].i < Len(Nodes) THEN Pos(first, at[p].i + 1, 1) ELSE after)

\* An exception escapes deploy(), by way of the finally clause if it is in it.
Raise(p) ==
  IF at[p].l = "setconf"
  THEN Goto(p, [Pos("exists", at[p].i, 1) EXCEPT !.failing = TRUE])
  ELSE status' = [status EXCEPT ![p] = "failed"] /\ UNCHANGED at

\* The end of generate_and_apply_config.
Applied(p) ==
  IF at[p].failing
  THEN status' = [status EXCEPT ![p] = "failed"] /\ UNCHANGED at
  ELSE Then(p, "addr")

\* The second half of a node in the second loop.
BoundaryOf(node) == IF node.role = "server" THEN "forward" ELSE "rp_all"

\* The routes of node i from the j-th on, then its boundary.
RoutesFrom(i, j) ==
  IF j <= Len(Nodes[i].routes) THEN Pos("route", i, j)
  ELSE Pos(BoundaryOf(Nodes[i]), i, 1)

\* The second loop, from node i on.
LinksFrom(i) == IF i <= Len(Nodes) THEN RoutesFrom(i, 1) ELSE Pos("end", 1, 1)

-----------------------------------------------------------------------------
\* Defect: a laboratory that has its interfaces is only linked again.
GenerateKeyOrResume(p) ==
  /\ \/ At(p, "genkey") /\ IF Ns(p) \in netns THEN Then(p, "pubkey") ELSE Raise(p)
     \/ At(p, "pubkey") /\ IF Ns(p) \in netns
                           THEN NextNode(p, "genkey",
                                  IF \A n \in NsNames : wg[n] # None
                                  THEN LinksFrom(1) ELSE Pos("create", 1, 1))
                           ELSE Raise(p)
  /\ UNCHANGED <<kernel, conf, env>>

\* generate_keypair, without asking for the namespace first.
GenerateKey(p) ==
  /\ \/ At(p, "genkey") /\ IF Ns(p) \in netns THEN Then(p, "pubkey") ELSE Raise(p)
     \/ At(p, "pubkey") /\ IF Ns(p) \in netns
                           THEN NextNode(p, "genkey", Pos("create", 1, 1))
                           ELSE Raise(p)
  /\ UNCHANGED <<kernel, conf, env>>

Executed == {"create", "setconf", "addr", "mtu", "up", "route", "forward",
             "nat", "rp_all", "rp_default"}

\* NamespaceManager.execute: namespace_exists ...
Ask(p) ==
  /\ status[p] = "running" /\ at[p].l \in Executed /\ ~at[p].asked
  /\ IF Ns(p) \in netns THEN Goto(p, [at[p] EXCEPT !.asked = TRUE]) ELSE Raise(p)
  /\ UNCHANGED <<kernel, conf, env>>

\* ... then the command: it takes effect if the namespace is still there and
\* the kernel accepts it.
Execute(p, l, accepted, effect, next) ==
  /\ At(p, l) /\ at[p].asked
  /\ IF Ns(p) \in netns /\ accepted
     THEN effect /\ next
     ELSE Raise(p) /\ UNCHANGED kernel
  /\ UNCHANGED <<conf, env>>

\* A namespace holds one interface of a name.
CreateInterface(p) ==
  Execute(p, "create", wg[Ns(p)] = None,
          /\ wg' = [wg EXCEPT ![Ns(p)] = p]
          /\ UNCHANGED <<netns, keyed, set, routes, nat>>,
          Then(p, "write"))

\* write_text, then chmod, which fails if the file is gone again.
WriteConfig(p) ==
  /\ At(p, "write")
  /\ conf' = [conf EXCEPT ![Ns(p)] = Config(p)]
  /\ Then(p, "chmod")
  /\ UNCHANGED <<kernel, env>>

Chmod(p) ==
  /\ At(p, "chmod")
  /\ IF conf[Ns(p)] # None THEN Then(p, "setconf") ELSE Raise(p)
  /\ UNCHANGED <<kernel, conf, env>>

\* `wg setconf` replaces the keys of the interface by those in the file.
SetConf(p) ==
  Execute(p, "setconf", wg[Ns(p)] # None /\ conf[Ns(p)] # None,
          /\ keyed' = [keyed EXCEPT ![Ns(p)] = conf[Ns(p)]]
          /\ UNCHANGED <<netns, wg, set, routes, nat>>,
          Then(p, "exists"))

\* The finally clause: conf_path.exists() ...
FileExists(p) ==
  /\ At(p, "exists")
  /\ IF conf[Ns(p)] # None
     THEN Goto(p, [at[p] EXCEPT !.l = "unlink"])
     ELSE Applied(p)
  /\ UNCHANGED <<kernel, conf, env>>

\* Defect: the file is removed after a success only.
UnlinkOnSuccess(p) ==
  /\ At(p, "unlink")
  /\ IF conf[Ns(p)] = None
     THEN Raise(p) /\ UNCHANGED conf
     ELSE /\ conf' = IF at[p].failing THEN conf ELSE [conf EXCEPT ![Ns(p)] = None]
          /\ Applied(p)
  /\ UNCHANGED <<kernel, env>>

\* ... then unlink(), which raises if somebody else was faster.
Unlink(p) ==
  /\ At(p, "unlink")
  /\ IF conf[Ns(p)] = None
     THEN Raise(p) /\ UNCHANGED conf
     ELSE conf' = [conf EXCEPT ![Ns(p)] = None] /\ Applied(p)
  /\ UNCHANGED <<kernel, env>>

Made(n, setting) == <<n, setting>> \in set

\* A setting made by one command: accepted says whether the kernel takes it.
Setting(p, l, accepted, next) ==
  Execute(p, l, accepted,
          /\ set' = set \union {<<Ns(p), l>>}
          /\ UNCHANGED <<netns, wg, keyed, routes, nat>>,
          next)

Address(p) ==
  Setting(p, "addr", wg[Ns(p)] # None /\ ~Made(Ns(p), "addr"), Then(p, "mtu"))

\* Defect: the interface is not brought up.
UpForgotten(p) ==
  Setting(p, "mtu", wg[Ns(p)] # None, NextNode(p, "create", LinksFrom(1)))

Mtu(p) == Setting(p, "mtu", wg[Ns(p)] # None, Then(p, "up"))

\* Bringing an interface with an address up adds the route to its subnet.
LinkUp(p) ==
  Execute(p, "up", wg[Ns(p)] # None,
          /\ set' = set \union {<<Ns(p), "up">>}
          /\ routes' = IF Made(Ns(p), "addr")
                       THEN routes \union {<<Ns(p), Node(p).subnet>>} ELSE routes
          /\ UNCHANGED <<netns, wg, keyed, nat>>,
          NextNode(p, "create", LinksFrom(1)))

\* `ip route add` is exclusive and wants its interface up.
AddRoute(p) ==
  LET r == <<Ns(p), Node(p).routes[at[p].j]>>
  IN  Execute(p, "route", Made(Ns(p), "up") /\ r \notin routes,
              /\ routes' = routes \union {r}
              /\ UNCHANGED <<netns, wg, keyed, set, nat>>,
              Goto(p, RoutesFrom(at[p].i, at[p].j + 1)))

\* The server's side of the second loop ...
Forward(p) == Setting(p, "forward", TRUE, Then(p, "nat"))

\* `iptables -A` appends, a rule that is there already or not.
Masquerade(p) ==
  Execute(p, "nat", TRUE,
          /\ nat' = [nat EXCEPT ![Ns(p)] = @ + 1]
          /\ UNCHANGED <<netns, wg, keyed, set, routes>>,
          Goto(p, LinksFrom(at[p].i + 1)))

\* ... and the client's.
RpAll(p) == Setting(p, "rp_all", TRUE, Then(p, "rp_default"))
RpDefault(p) == Setting(p, "rp_default", TRUE, Goto(p, LinksFrom(at[p].i + 1)))

Return(p) ==
  /\ At(p, "end")
  /\ status' = [status EXCEPT ![p] = "done"]
  /\ UNCHANGED <<kernel, conf, at, env>>

Deploy(p) ==
  \/ GenerateKey(p) \/ Ask(p) \/ CreateInterface(p) \/ WriteConfig(p)
  \/ Chmod(p) \/ SetConf(p) \/ FileExists(p) \/ Unlink(p) \/ Address(p)
  \/ Mtu(p) \/ LinkUp(p) \/ AddRoute(p) \/ Forward(p) \/ Masquerade(p)
  \/ RpAll(p) \/ RpDefault(p) \/ Return(p)

-----------------------------------------------------------------------------
Active == {p \in Deployers : status[p] = "running"}

\* Somebody runs a program that deploys.
Start(p) ==
  /\ status[p] = "new"
  /\ status' = [status EXCEPT ![p] = "running"]
  /\ tainted' = IF Active \intersect tainted = {} THEN tainted
                ELSE tainted \union {p}
  /\ lone' = IF Active = {} /\ netns = NsNames /\ \A n \in NsNames : wg[n] = None
             THEN lone \union {p} ELSE lone \ Active
  /\ UNCHANGED <<kernel, conf, at, rebuilds, faults>>

\* A teardown() deletes a namespace with all that is in it.
DeleteNamespace(n) ==
  /\ n \in netns
  /\ rebuilds < MaxRebuilds
  /\ rebuilds' = rebuilds + 1
  /\ netns' = netns \ {n}
  /\ wg' = [wg EXCEPT ![n] = None]
  /\ keyed' = [keyed EXCEPT ![n] = None]
  /\ set' = {s \in set : s[1] # n}
  /\ routes' = {r \in routes : r[1] # n}
  /\ nat' = [nat EXCEPT ![n] = 0]
  /\ tainted' = {p \in Deployers : status[p] # "new"}
  /\ lone' = lone \ Active
  /\ UNCHANGED <<conf, status, at, faults>>

\* A build() puts a new one in its place.
CreateNamespace(n) ==
  /\ n \notin netns
  /\ netns' = netns \union {n}
  /\ routes' = routes \union {r \in LabRoutes : r[1] = n}
  /\ UNCHANGED <<wg, keyed, set, nat, conf, status, at, env>>

\* A command fails for a reason of the host's own.  A write_text that fails
\* may have written the file.
CommandFails(p) ==
  /\ status[p] = "running" /\ at[p].l \notin {"exists", "end"}
  /\ faults < MaxFaults
  /\ faults' = faults + 1
  /\ lone' = lone \ {p}
  /\ Raise(p)
  /\ IF at[p].l = "write"
     THEN conf' \in {conf, [conf EXCEPT ![Ns(p)] = Config(p)]}
     ELSE UNCHANGED conf
  /\ UNCHANGED <<kernel, tainted, rebuilds>>

Kill(p) ==
  /\ status[p] = "running"
  /\ status' = [status EXCEPT ![p] = "killed"]
  /\ UNCHANGED <<kernel, conf, at, env>>

Environment ==
  \/ \E p \in Deployers : Start(p) \/ CommandFails(p) \/ Kill(p)
  \/ \E n \in NsNames : DeleteNamespace(n) \/ CreateNamespace(n)

Next == (\E p \in Deployers : Deploy(p)) \/ Environment

Spec == Init /\ [][Next]_vars

-----------------------------------------------------------------------------
\* A position that exists: a command of a node, a route of that node.
PosType ==
  {x \in [l : Labels, i : 1..Len(Nodes), j : Nat \ {0},
          asked : BOOLEAN, failing : BOOLEAN] :
     x.l = "route" => x.j <= Len(Nodes[x.i].routes)}

TypeOK ==
  /\ netns \subseteq NsNames
  /\ wg \in [NsNames -> Deployers \union {None}]
  /\ keyed \in [NsNames -> KeySets \union {None}]
  /\ conf \in [NsNames -> KeySets \union {None}]
  /\ set \subseteq NsNames \X {"addr", "mtu", "up", "forward", "rp_all", "rp_default"}
  /\ routes \subseteq NsNames \X STRING
  /\ nat \in [NsNames -> Nat]
  /\ status \in [Deployers -> {"new", "running", "done", "failed", "killed"}]
  /\ at \in [Deployers -> PosType]
  /\ tainted \subseteq Deployers /\ lone \subseteq Deployers
  /\ rebuilds \in 0..MaxRebuilds /\ faults \in 0..MaxFaults

\* Everything deploy() does to node k is in place, as p meant it.
InPlace(p, k) ==
  LET node == Nodes[k]
      n == node.ns
  IN  /\ wg[n] = p
      /\ keyed[n] = [key |-> Key(p, n), peers |-> {Key(p, m) : m \in node.peers}]
      /\ \A s \in {"addr", "mtu", "up"} : Made(n, s)
      /\ \A j \in 1..Len(node.routes) : <<n, node.routes[j]>> \in routes
      /\ IF node.role = "server"
         THEN Made(n, "forward") /\ nat[n] > 0
         ELSE Made(n, "rp_all") /\ Made(n, "rp_default")

\* A deploy() that returns has configured every node with the keys it
\* generated itself, each peer's interface holding the matching key, whatever
\* other deployers did at the same time or before: the exclusive creation of
\* the first interface decides who goes on.  Only a deployer that outlives a
\* rebuild of the laboratory interferes with those beside it.
DeployedConsistently ==
  \A p \in Deployers :
    status[p] = "done" /\ p \notin tainted => \A k \in 1..Len(Nodes) : InPlace(p, k)

\* Although `iptables -A` repeats a rule that is there, no number of deploy()
\* calls, failed and repeated ones included, makes two of it.
NatOnce == tainted = {} => \A n \in NsNames : nat[n] <= 1

\* The file with the private key is in the shared directory only while a
\* deployer is between writing and removing it, or if one was killed there or
\* the host failed to write it, to set its mode or to remove it.
ConfigFileOwned ==
  \A n \in NsNames :
    conf[n] # None =>
      \E p \in Deployers :
        /\ Ns(p) = n
        /\ \/ status[p] \in {"running", "killed"}
              /\ at[p].l \in {"chmod", "setconf", "exists", "unlink"}
           \/ /\ status[p] = "failed" /\ faults > 0
              /\ at[p].l \in {"write", "chmod", "unlink"}

\* "Executes the complete VPN provisioning sequence" (lab/vpn/vpn_manager.py:40):
\* on a fresh laboratory, alone on the host and with no command failing for a
\* reason of the host's own, deploy() does not fail.
LoneDeploySucceeds == \A p \in lone : status[p] # "failed"
=============================================================================
