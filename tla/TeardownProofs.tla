--------------------------- MODULE TeardownProofs ---------------------------
(***************************************************************************)
(* Proofs about teardown() in Topology: what one that returned has         *)
(* removed, that several racing ones cannot all be cut short, and that a   *)
(* build() after one succeeds.                                             *)
(***************************************************************************)
EXTENDS TopologyProofs

\* A namespace appears only by `ip netns add`, which every process notes.
LEMMA OnlyCreateAdds ==
  ASSUME NEW q \in Proc, TypeOK, BuildStep(q)
  PROVE  \/ net'.netns = net.netns /\ seen' = seen
         \/ \A p \in Proc : "added" \in seen'[p]
<1> USE DEF Then, Advance, Raise, RunCmdRaises
<1>1. CASE CreateAct(q)
  BY <1>1 DEF CreateAct, Note
<1>2. CASE CreateCheck(q) \/ AddrSkip(q) \/ ExecCheck(q) \/ VethSkip(q)
  BY <1>2 DEF CreateCheck, AddrSkip, ExecCheck, VethSkip
<1>3. net \in NetType
  BY DEF TypeOK
<1>4. CASE LoopbackAct(q) \/ ForwardingAct(q) \/ AddrAct(q) \/ UpAct(q) \/ RouteAct(q)
  BY <1>3, <1>4 DEF LoopbackAct, ForwardingAct, AddrAct, UpAct, RouteAct, Execute,
     LoUp, SetForward, AddrAdd, LinkUp, RouteAdd, NetType
<1>5. CASE VethAdd(q) \/ VethMove1(q) \/ VethMove2(q)
  BY <1>3, <1>5 DEF VethAdd, VethMove1, VethMove2, LinkAdd, LinkMove, NetType
<1> QED BY <1>1, <1>2, <1>4, <1>5 DEF BuildStep

\* A step of build() moves only the process that takes it.
LEMMA BuildMoves ==
  ASSUME NEW q \in Proc, TypeOK, BuildStep(q)
  PROVE  /\ CallOf(q) = "build" /\ call' = call
         /\ \A p \in Proc \ {q} : pc'[p] = pc[p] /\ sub'[p] = sub[p] /\ status'[p] = status[p]
         /\ status[q] = "running" /\ status'[q] # "new" /\ status'[q] # "done"
BY DEF TypeOK, BuildStep, CreateCheck, CreateAct, AddrSkip, ExecCheck, Execute,
   LoopbackAct, ForwardingAct, AddrAct, UpAct, RouteAct, VethSkip, VethAdd,
   VethMove1, VethMove2, At, InLoop, Then, Advance, Raise, RunCmdRaises

-----------------------------------------------------------------------------
(***************************************************************************)
(* TeardownClears.  Behind pc, a teardown has seen every namespace gone,   *)
(* and only a creation, which it would have noted, brings one back.        *)
(***************************************************************************)
Tearing(p) == CallOf(p) = "teardown" /\ "added" \notin seen[p]

Removed ==
  \A p \in Proc : Tearing(p) =>
    \A k \in 1..(pc[p] - 1) : NsName(k) \notin net.netns

AtStart == \A p \in Proc : status[p] = "new" => pc[p] = 1

ClearInv == TypeOK /\ Removed /\ AtStart

\* The index a teardown is at, and what deleting there does to the others.
LEMMA DeleteFacts ==
  ASSUME NEW p \in Proc, TypeOK, InLoop(p, "teardown")
  PROVE  /\ pc[p] \in 1..Len(Namespaces)
         /\ NsName(pc[p]) \in NsNames
         /\ NetnsDelete(net, NsName(pc[p])).netns = net.netns \ {NsName(pc[p])}
BY ConfigFacts DEF TypeOK, InLoop, LoopLength, NetnsDelete

LEMMA ClearInvStep ==
  ASSUME ClearInv, TypeOK', [Next]_vars
  PROVE  ClearInv'
<1> SUFFICES Removed' /\ AtStart'
  BY DEF ClearInv
<1>1. CASE UNCHANGED vars
  BY <1>1 DEF vars, ClearInv, Removed, AtStart, Tearing, CallOf
<1>2. ASSUME NEW q \in Proc, BuildStep(q) PROVE Removed' /\ AtStart'
  <2>1. /\ CallOf(q) = "build" /\ call' = call
        /\ \A p \in Proc \ {q} : pc'[p] = pc[p] /\ status'[p] = status[p]
        /\ status'[q] # "new"
    BY <1>2, BuildMoves DEF ClearInv
  <2>2. CASE \A p \in Proc : "added" \in seen'[p]
    BY <2>1, <2>2 DEF ClearInv, Removed, AtStart, Tearing
  <2>3. CASE net'.netns = net.netns /\ seen' = seen
    BY <2>1, <2>3 DEF ClearInv, Removed, AtStart, Tearing, CallOf
  <2> QED BY <1>2, <2>2, <2>3, OnlyCreateAdds DEF ClearInv
<1>3. ASSUME NEW q \in Proc, DeleteCheck(q) PROVE Removed' /\ AtStart'
  <2>1. pc[q] \in 1..Len(Namespaces) /\ status[q] = "running"
    BY <1>3, DeleteFacts DEF ClearInv, DeleteCheck, InLoop
  <2>2. CASE NsName(pc[q]) \in net.netns
    BY <1>3, <2>1, <2>2 DEF DeleteCheck, Then, ClearInv, Removed, AtStart, Tearing, CallOf
  <2>3. CASE NsName(pc[q]) \notin net.netns
    <3>1. /\ pc' = [pc EXCEPT ![q] = @ + 1] /\ pc \in [Proc -> Nat]
          /\ UNCHANGED <<net, call, seen, status>>
      BY <1>3, <2>3 DEF DeleteCheck, Advance, ClearInv, TypeOK
    <3>2. \A k \in 1..(pc'[q] - 1) : k \in 1..(pc[q] - 1) \/ k = pc[q]
      BY <3>1
    <3> QED BY <2>1, <2>3, <3>1, <3>2 DEF ClearInv, Removed, AtStart, Tearing, CallOf
  <2> QED BY <2>2, <2>3
<1>4. ASSUME NEW q \in Proc, DeleteAct(q) PROVE Removed' /\ AtStart'
  <2>1. /\ pc[q] \in 1..Len(Namespaces) /\ status[q] = "running"
        /\ NetnsDelete(net, NsName(pc[q])).netns = net.netns \ {NsName(pc[q])}
    BY <1>4, DeleteFacts DEF ClearInv, DeleteAct, InLoop
  <2>2. CASE CanNetnsDelete(net, NsName(pc[q]))
    <3>1. /\ pc' = [pc EXCEPT ![q] = @ + 1] /\ pc \in [Proc -> Nat]
          /\ UNCHANGED <<call, status>>
          /\ net'.netns = net.netns \ {NsName(pc[q])}
          /\ seen' = [p \in Proc |-> seen[p] \union {"deleted"}]
      BY <1>4, <2>1, <2>2 DEF DeleteAct, Advance, Note, ClearInv, TypeOK
    <3>2. \A k \in 1..(pc'[q] - 1) : k \in 1..(pc[q] - 1) \/ k = pc[q]
      BY <3>1
    <3>3. \A p \in Proc : Tearing(p)' => Tearing(p)
      BY <3>1 DEF Tearing, CallOf
    <3> QED BY <2>1, <3>1, <3>2, <3>3 DEF ClearInv, Removed, AtStart
  <2>3. CASE ~CanNetnsDelete(net, NsName(pc[q]))
    BY <1>4, <2>3 DEF DeleteAct, RunCmdRaises, Raise, ClearInv, TypeOK, Removed, AtStart,
       Tearing, CallOf
  <2> QED BY <2>2, <2>3
<1>5. ASSUME NEW q \in Proc, Start(q) PROVE Removed' /\ AtStart'
  <2>1. pc[q] = 1
    BY <1>5 DEF Start, ClearInv, AtStart
  <2> QED BY <1>5, <2>1 DEF Start, ClearInv, TypeOK, Removed, AtStart, Tearing, CallOf
<1>6. ASSUME NEW q \in Proc, Return(q) PROVE Removed' /\ AtStart'
  <2>1. CASE call[q] < Len(Script[q])
    <3>1. /\ net' = net /\ status' = status
          /\ pc'[q] = 1 /\ \A p \in Proc \ {q} : pc'[p] = pc[p]
          /\ \A p \in Proc \ {q} : call'[p] = call[p] /\ seen'[p] = seen[p]
      BY <1>6, <2>1 DEF Return, ClearInv, TypeOK
    <3>2. \A p \in Proc \ {q} : Tearing(p)' => Tearing(p)
      BY <3>1 DEF Tearing, CallOf
    <3> QED BY <3>1, <3>2 DEF ClearInv, Removed, AtStart
  <2>2. CASE ~(call[q] < Len(Script[q]))
    BY <1>6, <2>2 DEF Return, ClearInv, TypeOK, Removed, AtStart, Tearing, CallOf
  <2> QED BY <2>1, <2>2
<1>7. ASSUME NEW q \in Proc, CommandFails(q) \/ Kill(q) PROVE Removed' /\ AtStart'
  BY <1>7 DEF CommandFails, Kill, RunCmdRaises, Raise, ClearInv, TypeOK, Removed, AtStart,
     Tearing, CallOf
<1> QED BY <1>1, <1>2, <1>3, <1>4, <1>5, <1>6, <1>7 DEF Next, Step, TeardownStep

LEMMA ClearInvInductive == Spec => []ClearInv
<1>1. Init => ClearInv
  <2> SUFFICES ASSUME Init PROVE ClearInv
    OBVIOUS
  <2>1. TypeOK
    BY TypeInit
  <2> QED BY <2>1 DEF Init, ClearInv, Removed, AtStart
<1>2. TypeOK' /\ ClearInv /\ [Next]_vars => ClearInv'
  BY ClearInvStep
<1> QED BY <1>1, <1>2, TypeCorrect, PTL DEF Spec

\* A teardown() that returns with no namespace created meanwhile has removed
\* every configured one, whatever was there and whoever ran beside it.
THEOREM TeardownRemovesNamespaces == Spec => []TeardownClears
<1>1. ClearInv => TeardownClears
  <2> SUFFICES ASSUME ClearInv, NEW p \in Proc, Finished(p, "teardown"),
                      "added" \notin seen[p], NEW n \in NsNames
               PROVE  n \notin net.netns
    BY DEF TeardownClears
  <2>1. PICK k \in 1..Len(Namespaces) : n = NsName(k)
    BY DEF NsNames
  <2>2. k \in 1..(pc[p] - 1)
    BY ConfigFacts DEF Finished, LoopLength, ClearInv, TypeOK
  <2> QED BY <2>1, <2>2 DEF ClearInv, Removed, Tearing, Finished
<1> QED BY <1>1, ClearInvInductive, PTL

-----------------------------------------------------------------------------
(***************************************************************************)
(* RacingTeardownsClear.  A teardown is cut short only where another one   *)
(* deleted the namespace between its check and its act, so that the other  *)
(* one is ahead of it (Overtaken).  Hence whoever is furthest ahead has    *)
(* not failed (Leader), and when all have ended it is through its loop.    *)
(***************************************************************************)
OnlyTeardowns ==
  /\ Proc # {} /\ Killable = {} /\ MaxFaults = 0
  /\ \A p \in Proc : Script[p] = <<"teardown">>

Overtaken ==
  \A p \in Proc :
    /\ status[p] = "running" /\ sub[p] = "act" /\ pc[p] <= Len(Namespaces)
    /\ NsName(pc[p]) \notin net.netns
    => \E q \in Proc : pc[q] > pc[p]

Leader(q) == status[q] # "failed" /\ \A r \in Proc : pc[r] <= pc[q]

DoneIsThrough == \A p \in Proc : status[p] = "done" => pc[p] > Len(Namespaces)

NothingAdded == \A p \in Proc : "added" \notin seen[p]

NewAtCheck == \A p \in Proc : status[p] = "new" => sub[p] = "check"

RaceInv ==
  /\ TypeOK /\ Overtaken /\ DoneIsThrough /\ NothingAdded /\ NewAtCheck
  /\ \E q \in Proc : Leader(q)

\* A process that stays where it is, or moves ahead, leaves a leader.
LEMMA LeaderStays ==
  ASSUME RaceInv, NEW p \in Proc, status'[p] # "failed", pc'[p] \in Nat,
         pc'[p] >= pc[p],
         \A q \in Proc \ {p} : pc'[q] = pc[q] /\ status'[q] = status[q]
  PROVE  \E q \in Proc : Leader(q)'
<1>1. PICK q \in Proc : Leader(q)
  BY DEF RaceInv
<1>2. \A r \in Proc : pc[r] \in Nat
  BY DEF RaceInv, TypeOK
<1>3. CASE pc'[p] > pc[q]
  <2>1. Leader(p)'
    BY <1>1, <1>2, <1>3 DEF Leader
  <2> QED BY <2>1
<1>4. CASE ~(pc'[p] > pc[q])
  <2>1. pc'[q] = pc[q] /\ status'[q] # "failed"
    BY <1>1, <1>2, <1>4 DEF Leader
  <2>2. Leader(q)'
    BY <1>1, <1>2, <1>4, <2>1 DEF Leader
  <2> QED BY <2>2
<1> QED BY <1>3, <1>4

LEMMA RaceInvStep ==
  ASSUME OnlyTeardowns, RaceInv, TypeOK', Next
  PROVE  RaceInv'
<1>0. \A p \in Proc : call[p] = 1 /\ CallOf(p) = "teardown" /\ LoopLength(p) = Len(Namespaces)
  <2>1. \A p \in Proc : call[p] \in 1..1
    BY DEF OnlyTeardowns, RaceInv, TypeOK
  <2> QED BY <2>1 DEF OnlyTeardowns, CallOf, LoopLength
<1>t. /\ Len(Namespaces) \in Nat /\ pc \in [Proc -> Nat] /\ sub \in [Proc -> Subs]
      /\ status \in [Proc -> {"new", "running", "done", "failed", "killed"}]
      /\ seen \in [Proc -> SUBSET {"added", "deleted"}]
  BY ConfigFacts DEF RaceInv, TypeOK
<1>1. PICK p \in Proc : Start(p) \/ DeleteCheck(p) \/ DeleteAct(p) \/ Return(p)
  <2>1. PICK p \in Proc : Start(p) \/ Step(p) \/ CommandFails(p) \/ Kill(p)
    BY DEF Next
  <2>2. ~BuildStep(p)
    BY <1>0, BuildMoves DEF RaceInv
  <2>3. ~CommandFails(p) /\ ~Kill(p)
    BY DEF OnlyTeardowns, CommandFails, Kill, RaceInv, TypeOK
  <2> QED BY <2>1, <2>2, <2>3 DEF Step, TeardownStep
<1>2. CASE Start(p) \/ Return(p)
  <2>1. /\ net' = net /\ pc' = pc /\ sub' = sub
        /\ \A q \in Proc \ {p} : status'[q] = status[q]
        /\ \A q \in Proc : seen'[q] \subseteq seen[q]
        /\ \/ status[p] = "new" /\ status'[p] = "running"
           \/ pc[p] > Len(Namespaces) /\ status'[p] = "done"
    <3>1. CASE Start(p)
      BY <3>1, <1>t DEF Start
    <3>2. CASE Return(p)
      <4>1. ~(call[p] < Len(Script[p])) /\ LoopLength(p) = Len(Namespaces)
        <5>1. Script[p] = <<"teardown">> /\ Len(<<"teardown">>) = 1
          BY DEF OnlyTeardowns
        <5> QED BY <5>1, <1>0
      <4> QED BY <3>2, <4>1, <1>t DEF Return
    <3> QED BY <1>2, <3>1, <3>2
  <2>2. \E q \in Proc : Leader(q)'
    BY <2>1, <1>t, LeaderStays
  <2>3. Overtaken'
    BY <2>1, <1>t DEF RaceInv, Overtaken, NewAtCheck
  <2> QED BY <2>1, <2>2, <2>3 DEF RaceInv, DoneIsThrough, NothingAdded, NewAtCheck
<1>3. CASE DeleteCheck(p)
  <2>1. /\ pc[p] \in 1..Len(Namespaces) /\ status[p] = "running"
        /\ net' = net /\ status' = status /\ seen' = seen
    BY <1>3, DeleteFacts DEF RaceInv, DeleteCheck, InLoop, Then, Advance
  <2>2. CASE NsName(pc[p]) \in net.netns
    <3>1. pc' = pc /\ \A q \in Proc \ {p} : sub'[q] = sub[q]
      BY <1>3, <2>2, <1>t DEF DeleteCheck, Then
    <3>2. \E q \in Proc : Leader(q)'
      BY <2>1, <3>1, <1>t, LeaderStays
    <3> QED BY <2>1, <2>2, <3>1, <3>2 DEF RaceInv, Overtaken, DoneIsThrough, NothingAdded,
            NewAtCheck
  <2>3. CASE NsName(pc[p]) \notin net.netns
    <3>1. /\ pc'[p] = pc[p] + 1 /\ sub'[p] = "check"
          /\ \A q \in Proc \ {p} : pc'[q] = pc[q] /\ sub'[q] = sub[q]
      BY <1>3, <2>3, <1>t DEF DeleteCheck, Advance
    <3>m. \A q \in Proc : pc[q] \in Nat /\ pc'[q] \in Nat /\ pc'[q] >= pc[q]
      <4>1. pc[p] + 1 \in Nat /\ pc[p] + 1 >= pc[p]
        BY <1>t
      <4> QED BY <3>1, <4>1, <1>t
    <3>2. \E q \in Proc : Leader(q)'
      BY <2>1, <3>1, <3>m, LeaderStays
    <3>3. Overtaken'
      <4> SUFFICES ASSUME NEW q \in Proc, status[q] = "running", sub[q] = "act",
                          pc[q] <= Len(Namespaces), NsName(pc[q]) \notin net.netns
                   PROVE  \E r \in Proc : pc'[r] > pc[q]
        BY <2>1, <3>1 DEF Overtaken
      <4>1. PICK r \in Proc : pc[r] > pc[q]
        BY DEF RaceInv, Overtaken
      <4> QED BY <4>1, <3>m
    <3> QED BY <2>1, <3>1, <3>2, <3>3 DEF RaceInv, DoneIsThrough, NothingAdded, NewAtCheck
  <2> QED BY <2>2, <2>3
<1>4. CASE DeleteAct(p)
  <2>1. /\ pc[p] \in 1..Len(Namespaces) /\ status[p] = "running" /\ sub[p] = "act"
        /\ NetnsDelete(net, NsName(pc[p])).netns = net.netns \ {NsName(pc[p])}
    BY <1>4, DeleteFacts DEF RaceInv, DeleteAct, InLoop
  <2>2. CASE CanNetnsDelete(net, NsName(pc[p]))
    <3>1. /\ pc'[p] = pc[p] + 1 /\ sub'[p] = "check" /\ status' = status
          /\ net'.netns = net.netns \ {NsName(pc[p])}
          /\ \A q \in Proc \ {p} : pc'[q] = pc[q] /\ sub'[q] = sub[q]
          /\ seen' = [q \in Proc |-> seen[q] \union {"deleted"}]
      BY <1>4, <2>1, <2>2, <1>t DEF DeleteAct, Advance, Note
    <3>m. \A q \in Proc : pc[q] \in Nat /\ pc'[q] \in Nat /\ pc'[q] >= pc[q]
      <4>1. pc[p] + 1 \in Nat /\ pc[p] + 1 >= pc[p]
        BY <1>t
      <4> QED BY <3>1, <4>1, <1>t
    <3>2. \E q \in Proc : Leader(q)'
      BY <2>1, <3>1, <3>m, LeaderStays
    <3>3. Overtaken'
      <4> SUFFICES ASSUME NEW q \in Proc, status'[q] = "running", sub'[q] = "act",
                          pc'[q] <= Len(Namespaces), NsName(pc'[q]) \notin net'.netns
                   PROVE  \E r \in Proc : pc'[r] > pc'[q]
        BY DEF Overtaken
      <4>1. q # p /\ pc'[q] = pc[q] /\ sub[q] = "act" /\ status[q] = "running"
        BY <3>1
      <4>2. CASE NsName(pc[q]) \in net.netns
        <5>1. pc[q] \in 1..Len(Namespaces)
          BY <4>1, <1>0 DEF RaceInv, TypeOK
        <5>2. NsName(pc[q]) = NsName(pc[p])
          BY <3>1, <4>1, <4>2
        <5>3. pc[q] = pc[p]
          BY <5>1, <5>2, <2>1, ConfigAssumption DEF ConfigAssumption
        <5> QED BY <5>3, <3>1, <4>1, <1>t
      <4>3. CASE NsName(pc[q]) \notin net.netns
        <5>1. PICK r \in Proc : pc[r] > pc[q]
          BY <4>1, <4>3 DEF RaceInv, Overtaken
        <5> QED BY <5>1, <3>m, <4>1
      <4> QED BY <4>2, <4>3
    <3> QED BY <2>1, <3>1, <3>2, <3>3 DEF RaceInv, DoneIsThrough, NothingAdded, NewAtCheck
  <2>3. CASE ~CanNetnsDelete(net, NsName(pc[p]))
    <3>1. /\ pc' = pc /\ sub' = sub /\ net' = net /\ seen' = seen
          /\ status'[p] = "failed" /\ \A q \in Proc \ {p} : status'[q] = status[q]
      BY <1>4, <2>3, <1>t DEF DeleteAct, RunCmdRaises, Raise
    <3>2. PICK r \in Proc : pc[r] > pc[p]
      BY <2>1, <2>3 DEF RaceInv, Overtaken, CanNetnsDelete
    <3>3. PICK q \in Proc : Leader(q)
      BY DEF RaceInv
    <3>4. q # p
      BY <3>2, <3>3, <1>t DEF Leader
    <3>5. Leader(q)'
      BY <3>1, <3>3, <3>4 DEF Leader
    <3> QED BY <3>1, <3>5 DEF RaceInv, Overtaken, DoneIsThrough, NothingAdded, NewAtCheck
  <2> QED BY <2>2, <2>3
<1> QED BY <1>1, <1>2, <1>3, <1>4

\* However many destroy_lab.py race for the same laboratory, each of which may
\* be cut short, none of the configured namespaces is left when all ended.
THEOREM RacersClearTogether == OnlyTeardowns => (Spec => []RacingTeardownsClear)
<1> SUFFICES ASSUME OnlyTeardowns PROVE Spec => []RacingTeardownsClear
  OBVIOUS
<1>1. Init => RaceInv
  <2> SUFFICES ASSUME Init PROVE RaceInv
    OBVIOUS
  <2>1. TypeOK
    BY TypeInit
  <2>2. \A q \in Proc : Leader(q)
    BY DEF Init, Leader
  <2> QED BY <2>1, <2>2 DEF OnlyTeardowns, Init, RaceInv, Overtaken, DoneIsThrough,
          NothingAdded, NewAtCheck
<1>2. TypeOK' /\ RaceInv /\ [Next]_vars => RaceInv'
  <2>1. CASE UNCHANGED vars
    BY <2>1 DEF vars, RaceInv, TypeOK, Overtaken, Leader, DoneIsThrough, NothingAdded,
       NewAtCheck
  <2>2. CASE Next
    BY <2>2, RaceInvStep
  <2> QED BY <2>1, <2>2
<1>3. RaceInv /\ ClearInv => RacingTeardownsClear
  <2> SUFFICES ASSUME RaceInv, ClearInv,
                      \A p \in Proc : status[p] \in {"done", "failed"},
                      NEW n \in NsNames
               PROVE  n \notin net.netns
    BY DEF RacingTeardownsClear
  <2>1. PICK q \in Proc : Leader(q)
    BY DEF RaceInv
  <2>2. status[q] = "done" /\ pc[q] > Len(Namespaces)
    BY <2>1 DEF RaceInv, DoneIsThrough, Leader
  <2>3. Tearing(q)
    <3>1. call[q] \in 1..1
      BY DEF OnlyTeardowns, RaceInv, TypeOK
    <3> QED BY <3>1 DEF OnlyTeardowns, Tearing, CallOf, RaceInv, NothingAdded
  <2>4. PICK k \in 1..Len(Namespaces) : n = NsName(k)
    BY DEF NsNames
  <2>5. k \in 1..(pc[q] - 1)
    BY <2>2, ConfigFacts DEF RaceInv, TypeOK
  <2> QED BY <2>3, <2>4, <2>5 DEF ClearInv, Removed
<1> QED BY <1>1, <1>2, <1>3, TypeCorrect, ClearInvInductive, PTL DEF Spec

-----------------------------------------------------------------------------
(***************************************************************************)
(* BuildSucceeds.  A build() that has the host to itself and starts on     *)
(* what a teardown() left finds at every command exactly what the commands *)
(* before it made (SoFar).  What a configuration must say for that, beyond *)
(* what the loader asks, are LinksFit and RoutesFit.  A script that builds *)
(* twice with one builder is excluded by ClearsFirst: _created_veths       *)
(* outlives the teardown, and the second build() skips its links.          *)
(***************************************************************************)
Alone == \A p, q \in Proc : p = q

ClearsFirst ==
  \A p \in Proc : \A k \in 1..Len(Script[p]) : Script[p][k] = "build" =>
    /\ k > 1 /\ Script[p][k - 1] = "teardown"
    /\ \A j \in 1..(k - 1) : Script[p][j] # "build"

\* Every interface is an end of a link, whose two ends have different names and
\* which shares none of them with another link.
LinksFit ==
  \A i \in 1..Len(Interfaces) :
    /\ \E j \in 1..Len(Interfaces) :
          Interfaces[j].veth /\ End1(Interfaces[i]) \in Pair(Interfaces[j])
    /\ Interfaces[i].veth => Interfaces[i].name # Interfaces[i].peerName
    /\ \A j \in 1..Len(Interfaces) :
          Interfaces[i].veth /\ Interfaces[j].veth =>
            \/ Pair(Interfaces[i]) = Pair(Interfaces[j])
            \/ Pair(Interfaces[i]) \intersect Pair(Interfaces[j]) = {}

\* Every route leaves by an interface of its namespace, which has an address if
\* the route has a gateway, and no other route there has its target.
RoutesFit ==
  \A i \in 1..Len(Routes) :
    /\ \E j \in 1..Len(Interfaces) :
          /\ End1(Interfaces[j]) = <<Routes[i].ns, Routes[i].dev>>
          /\ Routes[i].via => Interfaces[j].ip
    /\ \A j \in 1..Len(Routes) :
          Routes[j].ns = Routes[i].ns /\ Routes[j].target = Routes[i].target => i = j

\* Where the phases of build() end, and what the elements before the k-th did.
LinksFrom == 3 * Len(Namespaces)
AddrsFrom == LinksFrom + Len(Interfaces)
RoutesFrom == AddrsFrom + 2 * Len(Interfaces)

Created(k) == {i \in 1..Len(Namespaces) : 3 * i - 2 < k}
Linked(k) == {i \in 1..Len(Interfaces) : LinksFrom + i < k}
Addressed(k) == {i \in 1..Len(Interfaces) : AddrsFrom + 2 * i - 1 < k}
Raised(k) == {i \in 1..Len(Interfaces) : AddrsFrom + 2 * i < k}
Routed(k) == {i \in 1..Len(Routes) : RoutesFrom + i < k}

Links(k) == {Pair(Interfaces[i]) : i \in {j \in Linked(k) : Interfaces[j].veth}}

\* The pair that p is moving, its first end still on the root stack or not.
Half(p) ==
  CASE sub[p] = "move1" -> {Ends(Iface(p), Host, Host)}
    [] sub[p] = "move2" -> {Ends(Iface(p), Iface(p).ns, Host)}
    [] OTHER -> {}

Moving(p) ==
  sub[p] \in {"move1", "move2"} =>
    /\ pc[p] <= Len(Plan) /\ Cmd(p).op = "veth"
    /\ Iface(p).veth /\ Pair(Iface(p)) \notin cache[p]

SoFar(p) ==
  /\ net.netns = {NsName(i) : i \in Created(pc[p])}
  /\ net.veths = Links(pc[p]) \union Half(p)
  /\ cache[p] = Links(pc[p])
  /\ net.addrs \subseteq {End1(Interfaces[i]) : i \in Addressed(pc[p])}
  /\ \A i \in Addressed(pc[p]) : Interfaces[i].ip => End1(Interfaces[i]) \in net.addrs
  /\ net.ups = {End1(Interfaces[i]) : i \in Raised(pc[p])}
  /\ net.routes = {<<Routes[i].ns, Routes[i].target, Routes[i].dev>> : i \in Routed(pc[p])}
  /\ Moving(p)

\* Before its build() the program has only deleted.
Cleared(p) ==
  /\ net.veths = {} /\ net.addrs = {} /\ net.ups = {} /\ net.routes = {}
  /\ cache[p] = {} /\ sub[p] \in {"check", "act"}
  /\ \A k \in 1..(pc[p] - 1) : k <= Len(Namespaces) => NsName(k) \notin net.netns

LoneInv ==
  /\ TypeOK
  /\ \A p \in Proc :
       /\ CallOf(p) = "teardown" /\ FirstBuild(p) => Cleared(p)
       /\ CallOf(p) = "build" => SoFar(p)
       /\ CallOf(p) = "build" /\ faults = 0 => status[p] # "failed"

LEMMA Sizes ==
  /\ Len(Namespaces) \in Nat /\ Len(Interfaces) \in Nat /\ Len(Routes) \in Nat
  /\ LinksFrom \in Nat /\ AddrsFrom \in Nat /\ RoutesFrom \in Nat
  /\ Len(Phase1) = LinksFrom /\ Len(Phase2) = Len(Interfaces)
  /\ Len(Phase3) = 2 * Len(Interfaces) /\ Len(Phase4) = Len(Routes)
  /\ Len(Plan) = RoutesFrom + Len(Routes) /\ Len(Plan) \in Nat
<1>1. Len(Namespaces) \in Nat /\ Len(Interfaces) \in Nat /\ Len(Routes) \in Nat
  BY ConfigAssumption DEF ConfigAssumption
<1>2. /\ Phase1 \in Seq(Instr) /\ Phase2 \in Seq(Instr)
      /\ Phase3 \in Seq(Instr) /\ Phase4 \in Seq(Instr)
  BY PhaseTypes
<1>3. Len(Plan) = Len(Phase1) + Len(Phase2) + Len(Phase3) + Len(Phase4)
  BY <1>2 DEF Plan
<1> QED BY <1>1, <1>3, PhaseTypes DEF LinksFrom, AddrsFrom, RoutesFrom

LEMMA Joined ==
  ASSUME NEW S, NEW s \in Seq(S), NEW t \in Seq(S)
  PROVE  /\ s \o t \in Seq(S) /\ Len(s \o t) = Len(s) + Len(t)
         /\ \A j \in 1..(Len(s) + Len(t)) :
              (s \o t)[j] = IF j <= Len(s) THEN s[j] ELSE t[j - Len(s)]
OBVIOUS

\* Which element is at which place of the plan.
PlaceOf(c, k) ==
  \/ c.op = "create" /\ c.i \in 1..Len(Namespaces) /\ k = 3 * c.i - 2
  \/ c.op = "loopback" /\ c.i \in 1..Len(Namespaces) /\ k = 3 * c.i - 1
  \/ c.op = "forwarding" /\ c.i \in 1..Len(Namespaces) /\ k = 3 * c.i
  \/ c.op = "veth" /\ c.i \in 1..Len(Interfaces) /\ k = LinksFrom + c.i
  \/ c.op = "addr" /\ c.i \in 1..Len(Interfaces) /\ k = AddrsFrom + 2 * c.i - 1
  \/ c.op = "up" /\ c.i \in 1..Len(Interfaces) /\ k = AddrsFrom + 2 * c.i
  \/ c.op = "route" /\ c.i \in 1..Len(Routes) /\ k = RoutesFrom + c.i

LEMMA Placed ==
  ASSUME NEW k \in 1..Len(Plan)
  PROVE  PlaceOf(Plan[k], k)
<1> DEFINE A == Phase1 \o Phase2
           B == A \o Phase3
<1>s. /\ Phase1 \in Seq(Instr) /\ Phase2 \in Seq(Instr)
      /\ Phase3 \in Seq(Instr) /\ Phase4 \in Seq(Instr)
  BY PhaseTypes
<1>a. /\ A \in Seq(Instr) /\ Len(A) = AddrsFrom
      /\ \A j \in 1..AddrsFrom :
           A[j] = IF j <= LinksFrom THEN Phase1[j] ELSE Phase2[j - LinksFrom]
  <2>1. /\ A \in Seq(Instr) /\ Len(A) = Len(Phase1) + Len(Phase2)
        /\ \A j \in 1..(Len(Phase1) + Len(Phase2)) :
             A[j] = IF j <= Len(Phase1) THEN Phase1[j] ELSE Phase2[j - Len(Phase1)]
    BY <1>s, Joined
  <2>2. Len(Phase1) = LinksFrom /\ Len(Phase1) + Len(Phase2) = AddrsFrom
    BY Sizes DEF AddrsFrom
  <2> HIDE DEF A
  <2> QED BY <2>1, <2>2
<1> HIDE DEF A
<1>b. /\ B \in Seq(Instr) /\ Len(B) = RoutesFrom
      /\ \A j \in 1..RoutesFrom :
           B[j] = IF j <= AddrsFrom THEN A[j] ELSE Phase3[j - AddrsFrom]
  <2>1. /\ B \in Seq(Instr) /\ Len(B) = Len(A) + Len(Phase3)
        /\ \A j \in 1..(Len(A) + Len(Phase3)) :
             B[j] = IF j <= Len(A) THEN A[j] ELSE Phase3[j - Len(A)]
    BY <1>s, <1>a, Joined
  <2>2. Len(A) = AddrsFrom /\ Len(A) + Len(Phase3) = RoutesFrom
    BY <1>a, Sizes DEF RoutesFrom
  <2> HIDE DEF B
  <2> QED BY <2>1, <2>2
<1>c. Plan = B \o Phase4
  BY DEF Plan, A, B
<1> HIDE DEF B
<1>d. Plan[k] = IF k <= RoutesFrom THEN B[k] ELSE Phase4[k - RoutesFrom]
  BY <1>s, <1>b, <1>c, Sizes, Joined
<1>1. CASE k \in 1..LinksFrom
  <2>1. Plan[k] = Phase1[k]
    BY <1>a, <1>b, <1>d, <1>1, Sizes, SMTT(30) DEF AddrsFrom, RoutesFrom
  <2> DEFINE x == (k - 1) % 3
             y == (k - 1) \div 3
  <2>2. x \in 0..2 /\ y \in 0..(Len(Namespaces) - 1) /\ k = 3 * y + x + 1
    BY <1>1, Sizes DEF LinksFrom
  <2>3. Plan[k] = [op |-> <<"create", "loopback", "forwarding">>[x + 1], i |-> y + 1]
    BY <2>1, <1>1 DEF Phase1, LinksFrom
  <2> HIDE DEF x, y
  <2>4. \/ x = 0 /\ Plan[k].op = "create"
        \/ x = 1 /\ Plan[k].op = "loopback"
        \/ x = 2 /\ Plan[k].op = "forwarding"
    BY <2>2, <2>3
  <2>5. Plan[k].i = y + 1
    BY <2>3
  <2>6. Plan[k].i \in 1..Len(Namespaces) /\ k = 3 * Plan[k].i - 2 + x
    BY <2>2, <2>5, Sizes
  <2> QED BY <2>4, <2>6, Sizes DEF PlaceOf
<1>2. CASE k \in (LinksFrom + 1)..AddrsFrom
  <2>1. Plan[k] = Phase2[k - LinksFrom]
    BY <1>a, <1>b, <1>d, <1>2, Sizes, SMTT(30) DEF AddrsFrom, RoutesFrom
  <2>2. k - LinksFrom \in 1..Len(Interfaces)
    BY <1>2, Sizes DEF AddrsFrom
  <2>3. Plan[k] = [op |-> "veth", i |-> k - LinksFrom]
    BY <2>1, <2>2 DEF Phase2
  <2>4. Plan[k].op = "veth" /\ Plan[k].i = k - LinksFrom
    BY <2>3
  <2> QED BY <2>2, <2>4, Sizes DEF PlaceOf
<1>3. CASE k \in (AddrsFrom + 1)..RoutesFrom
  <2> DEFINE j == k - AddrsFrom
             x == (j - 1) % 2
             y == (j - 1) \div 2
  <2>1. Plan[k] = Phase3[j]
    BY <1>b, <1>d, <1>3, Sizes DEF RoutesFrom
  <2>2. j \in 1..(2 * Len(Interfaces)) /\ k = AddrsFrom + j
    BY <1>3, Sizes DEF RoutesFrom
  <2>3. Plan[k] = [op |-> <<"addr", "up">>[x + 1], i |-> y + 1]
    BY <2>1, <2>2 DEF Phase3
  <2> HIDE DEF j
  <2>4. x \in 0..1 /\ y \in 0..(Len(Interfaces) - 1) /\ j = 2 * y + x + 1
    <3>1. j - 1 \in Nat /\ j - 1 < 2 * Len(Interfaces) /\ Len(Interfaces) \in Nat
      BY <2>2, Sizes
    <3>2. x \in 0..1 /\ y \in Int /\ j - 1 = 2 * y + x
      BY <3>1
    <3>3. x \in 0..1 /\ y \in Nat /\ j - 1 = 2 * y + x
      <4> HIDE DEF x, y
      <4> QED BY <3>1, <3>2
    <3> HIDE DEF x, y
    <3> QED BY <2>2, <3>1, <3>3
  <2> HIDE DEF x, y
  <2>5. \/ x = 0 /\ Plan[k].op = "addr"
        \/ x = 1 /\ Plan[k].op = "up"
    BY <2>3, <2>4
  <2>6. Plan[k].i = y + 1
    BY <2>3
  <2>7. Plan[k].i \in 1..Len(Interfaces) /\ k = AddrsFrom + 2 * Plan[k].i - 1 + x
    <3>1. AddrsFrom \in Nat /\ Len(Interfaces) \in Nat
      BY Sizes
    <3>2. y + 1 \in 1..Len(Interfaces)
      BY <2>4, <3>1
    <3>3. k = AddrsFrom + 2 * (y + 1) - 1 + x
      BY <2>2, <2>4, <3>1
    <3> QED BY <2>6, <3>2, <3>3
  <2>8. CASE x = 0
    <3>1. k = AddrsFrom + 2 * Plan[k].i - 1
      BY <2>7, <2>8, Sizes
    <3> QED BY <2>4, <2>5, <2>7, <2>8, <3>1 DEF PlaceOf
  <2>9. CASE x = 1
    <3>1. k = AddrsFrom + 2 * Plan[k].i
      BY <2>7, <2>9, Sizes
    <3> QED BY <2>4, <2>5, <2>7, <2>9, <3>1 DEF PlaceOf
  <2> QED BY <2>4, <2>8, <2>9
<1>4. CASE k \in (RoutesFrom + 1)..Len(Plan)
  <2>1. Plan[k] = Phase4[k - RoutesFrom]
    BY <1>d, <1>4, Sizes
  <2>2. k - RoutesFrom \in 1..Len(Routes)
    BY <1>4, Sizes
  <2>3. Plan[k] = [op |-> "route", i |-> k - RoutesFrom]
    BY <2>1, <2>2 DEF Phase4
  <2>4. Plan[k].op = "route" /\ Plan[k].i = k - RoutesFrom
    BY <2>3
  <2> QED BY <2>2, <2>4, Sizes DEF PlaceOf
<1> QED BY <1>1, <1>2, <1>3, <1>4, Sizes DEF AddrsFrom, RoutesFrom

\* What the k-th element adds to what the ones before it did, ...
LEMMA Adds ==
  ASSUME NEW k \in 1..Len(Plan)
  PROVE  /\ Created(k + 1) = Created(k) \union {i \in {Plan[k].i} : Plan[k].op = "create"}
         /\ Linked(k + 1) = Linked(k) \union {i \in {Plan[k].i} : Plan[k].op = "veth"}
         /\ Addressed(k + 1) = Addressed(k) \union {i \in {Plan[k].i} : Plan[k].op = "addr"}
         /\ Raised(k + 1) = Raised(k) \union {i \in {Plan[k].i} : Plan[k].op = "up"}
         /\ Routed(k + 1) = Routed(k) \union {i \in {Plan[k].i} : Plan[k].op = "route"}
<1> DEFINE N == Len(Namespaces)
           F == Len(Interfaces)
           R == Len(Routes)
           o == Plan[k].op
           j == Plan[k].i
<1>1. /\ N \in Nat /\ F \in Nat /\ R \in Nat /\ k \in Nat
      /\ \/ o = "create" /\ j \in 1..N /\ k = 3 * j - 2
         \/ o = "loopback" /\ j \in 1..N /\ k = 3 * j - 1
         \/ o = "forwarding" /\ j \in 1..N /\ k = 3 * j
         \/ o = "veth" /\ j \in 1..F /\ k = 3 * N + j
         \/ o = "addr" /\ j \in 1..F /\ k = 3 * N + F + 2 * j - 1
         \/ o = "up" /\ j \in 1..F /\ k = 3 * N + F + 2 * j
         \/ o = "route" /\ j \in 1..R /\ k = 3 * N + F + 2 * F + j
  BY Placed, Sizes DEF PlaceOf, LinksFrom, AddrsFrom, RoutesFrom
<1> HIDE DEF o, j, N, F, R
<1>2. \A i \in 1..N : 3 * i - 2 < k + 1 <=> 3 * i - 2 < k \/ (o = "create" /\ i = j)
  <2>1. \A i \in 1..N : 3 * i - 2 = k <=> o = "create" /\ i = j
    BY <1>1, SMTT(30)
  <2> QED BY <1>1, <2>1
<1>3. \A i \in 1..F : 3 * N + i < k + 1 <=> 3 * N + i < k \/ (o = "veth" /\ i = j)
  <2>1. \A i \in 1..F : 3 * N + i = k <=> o = "veth" /\ i = j
    BY <1>1
  <2> QED BY <1>1, <2>1
<1>4. \A i \in 1..F : 3 * N + F + 2 * i - 1 < k + 1 <=> 3 * N + F + 2 * i - 1 < k \/ (o = "addr" /\ i = j)
  <2>1. \A i \in 1..F : 3 * N + F + 2 * i - 1 = k <=> o = "addr" /\ i = j
    BY <1>1
  <2> QED BY <1>1, <2>1, SMTT(30)
<1>5. \A i \in 1..F : 3 * N + F + 2 * i < k + 1 <=> 3 * N + F + 2 * i < k \/ (o = "up" /\ i = j)
  <2>1. \A i \in 1..F : 3 * N + F + 2 * i = k <=> o = "up" /\ i = j
    BY <1>1
  <2> QED BY <1>1, <2>1
<1>6. \A i \in 1..R : 3 * N + F + 2 * F + i < k + 1 <=> 3 * N + F + 2 * F + i < k \/ (o = "route" /\ i = j)
  <2>1. \A i \in 1..R : 3 * N + F + 2 * F + i = k <=> o = "route" /\ i = j
    BY <1>1
  <2> QED BY <1>1, <2>1
<1>7. /\ o = "create" => j \in 1..N
      /\ o \in {"veth", "addr", "up"} => j \in 1..F
      /\ o = "route" => j \in 1..R
  BY <1>1
<1>a. Created(k + 1) = Created(k) \union {i \in {j} : o = "create"}
  BY <1>2, <1>7 DEF Created, N
<1>b. Linked(k + 1) = Linked(k) \union {i \in {j} : o = "veth"}
  BY <1>3, <1>7 DEF Linked, N, F, LinksFrom
<1>c. Addressed(k + 1) = Addressed(k) \union {i \in {j} : o = "addr"}
  BY <1>4, <1>7 DEF Addressed, N, F, LinksFrom, AddrsFrom
<1>d. Raised(k + 1) = Raised(k) \union {i \in {j} : o = "up"}
  BY <1>5, <1>7 DEF Raised, N, F, LinksFrom, AddrsFrom
<1>e. Routed(k + 1) = Routed(k) \union {i \in {j} : o = "route"}
  BY <1>6, <1>7 DEF Routed, N, F, R, LinksFrom, AddrsFrom, RoutesFrom
<1> QED BY <1>a, <1>b, <1>c, <1>d, <1>e DEF o, j

\* ... what it finds done, and that nothing is done at first.
LEMMA Finds ==
  ASSUME NEW k \in 1..Len(Plan)
  PROVE  /\ Plan[k].op = "create" => Plan[k].i \in 1..Len(Namespaces) \ Created(k)
         /\ Plan[k].op \in {"loopback", "forwarding"} => Plan[k].i \in Created(k)
         /\ Plan[k].op \in {"veth", "addr", "up", "route"}
              => Created(k) = 1..Len(Namespaces)
         /\ Plan[k].op \in {"addr", "up", "route"} => Linked(k) = 1..Len(Interfaces)
         /\ Plan[k].op = "addr" => Plan[k].i \notin Addressed(k)
         /\ Plan[k].op = "route" => /\ Addressed(k) = 1..Len(Interfaces)
                                    /\ Raised(k) = 1..Len(Interfaces)
                                    /\ Plan[k].i \notin Routed(k)
<1>0. PlaceOf(Plan[k], k) /\ k \in Nat
  BY Placed, Sizes
<1> DEFINE o == Plan[k].op
           j == Plan[k].i
<1> HIDE DEF o, j
<1>1. CASE o \in {"create", "loopback", "forwarding"}
  <2>1. /\ j \in 1..Len(Namespaces)
        /\ o = "create" => k = 3 * j - 2
        /\ o = "loopback" => k = 3 * j - 1
        /\ o = "forwarding" => k = 3 * j
    BY <1>0, <1>1 DEF PlaceOf, o, j
  <2>2. j \in Created(k) <=> o # "create"
    BY <2>1, <1>1, <1>0, Sizes DEF Created
  <2> QED BY <2>1, <2>2, <1>1 DEF o, j
<1>2. CASE o = "veth"
  <2>1. k > LinksFrom
    BY <1>0, <1>2, Sizes DEF PlaceOf, o, j
  <2>2. Created(k) = 1..Len(Namespaces)
    BY <2>1, <1>0, Sizes DEF Created, LinksFrom
  <2> QED BY <2>2, <1>2 DEF o, j
<1>3. CASE o \in {"addr", "up"}
  <2>1. /\ k > AddrsFrom /\ j \in 1..Len(Interfaces)
        /\ o = "addr" => k = AddrsFrom + 2 * j - 1
    BY <1>0, <1>3, Sizes, SMTT(30) DEF PlaceOf, o, j
  <2>2. Created(k) = 1..Len(Namespaces)
    BY <2>1, <1>0, Sizes DEF Created, LinksFrom, AddrsFrom
  <2>3. Linked(k) = 1..Len(Interfaces)
    BY <2>1, <1>0, Sizes DEF Linked, AddrsFrom
  <2>4. o = "addr" => j \notin Addressed(k)
    BY <2>1, <1>0, Sizes DEF Addressed
  <2> QED BY <2>2, <2>3, <2>4, <1>3 DEF o, j
<1>4. CASE o = "route"
  <2>1. k = RoutesFrom + j /\ j \in 1..Len(Routes)
    BY <1>0, <1>4, Sizes DEF PlaceOf, o, j
  <2>2. Created(k) = 1..Len(Namespaces)
    BY <2>1, <1>0, Sizes DEF Created, LinksFrom, AddrsFrom, RoutesFrom
  <2>3. Linked(k) = 1..Len(Interfaces)
    BY <2>1, <1>0, Sizes DEF Linked, AddrsFrom, RoutesFrom
  <2>4. Addressed(k) = 1..Len(Interfaces) /\ Raised(k) = 1..Len(Interfaces)
    BY <2>1, <1>0, Sizes, SMTT(30) DEF Addressed, Raised, RoutesFrom
  <2>5. j \notin Routed(k)
    BY <2>1, <1>0, Sizes DEF Routed
  <2> QED BY <2>2, <2>3, <2>4, <2>5, <1>4 DEF o, j
<1> QED BY <1>0, <1>1, <1>2, <1>3, <1>4 DEF PlaceOf, o, j

LEMMA AtFirst ==
  /\ Created(1) = {} /\ Linked(1) = {} /\ Addressed(1) = {}
  /\ Raised(1) = {} /\ Routed(1) = {}
BY Sizes, SMTT(30) DEF Created, Linked, Addressed, Raised, Routed

LEMMA LinksAdd ==
  ASSUME NEW k \in 1..Len(Plan)
  PROVE  LET f == Interfaces[Plan[k].i] IN
         /\ Plan[k].op # "veth" => Links(k + 1) = Links(k)
         /\ Plan[k].op = "veth" /\ ~f.veth => Links(k + 1) = Links(k)
         /\ Plan[k].op = "veth" /\ f.veth => Links(k + 1) = Links(k) \union {Pair(f)}
<1>1. Linked(k + 1) = Linked(k) \union {i \in {Plan[k].i} : Plan[k].op = "veth"}
  BY Adds
<1> QED BY <1>1 DEF Links

\* A finished link has no end on the root stack, and of the links of LinksFit
\* only a link itself has an end of it.
LEMMA LinkEndsFit ==
  ASSUME LinksFit, NEW k, NEW v \in Links(k)
  PROVE  /\ \A x : <<Host, x>> \notin v
         /\ \A i \in 1..Len(Interfaces) : Interfaces[i].veth =>
              v = Pair(Interfaces[i]) \/ v \intersect Pair(Interfaces[i]) = {}
<1>1. PICK j \in 1..Len(Interfaces) : Interfaces[j].veth /\ v = Pair(Interfaces[j])
  BY DEF Links, Linked
<1>2. Interfaces[j].ns # Host /\ Interfaces[j].peerNs # Host
  BY ConfigFacts, ConfigAssumption DEF ConfigAssumption
<1>3. \A x : <<Host, x>> \notin v
  BY <1>1, <1>2 DEF Pair, End1, End2
<1> QED BY <1>1, <1>3 DEF LinksFit

\* The three commands of create_veth_pair, and its early return.
LEMMA LinkStepLone ==
  ASSUME LinksFit, NEW p \in Proc, TypeOK, SoFar(p),
         VethSkip(p) \/ VethAdd(p) \/ VethMove1(p) \/ VethMove2(p)
  PROVE  SoFar(p)' /\ status' = status
<1> DEFINE k == pc[p]
           f == Iface(p)
<1>t. /\ net \in NetType /\ pc \in [Proc -> Nat] /\ sub \in [Proc -> Subs]
      /\ cache \in [Proc -> SUBSET SUBSET (Locations \X IfNames)]
  BY DEF TypeOK
<1>1. /\ InLoop(p, "build") /\ Plan[k].op = "veth"
      /\ k \in 1..Len(Plan) /\ k \in Nat /\ Cmd(p) = Plan[k]
  BY CmdFacts DEF VethSkip, VethAdd, VethMove1, VethMove2, At, Cmd, InLoop, TypeOK
<1>2. /\ Plan[k].i \in 1..Len(Interfaces) /\ f = Interfaces[Plan[k].i]
      /\ f.ns \in NsNames /\ f.peerNs \in NsNames /\ Host \notin NsNames
  BY <1>1, CmdFacts, ConfigFacts, ConfigAssumption DEF Iface, ConfigAssumption
<1>3. net.netns = NsNames
  BY <1>1, Finds DEF SoFar, NsNames
<1>4. f.veth => f.name # f.peerName
  BY <1>2 DEF LinksFit
<1>5. f.veth /\ Pair(f) \notin cache[p] => \A v \in Links(k) : End1(f) \notin v /\ End2(f) \notin v
  BY <1>2, LinkEndsFit, ZenonT(40) DEF SoFar, Pair
<1>6. /\ Created(k + 1) = Created(k) /\ Addressed(k + 1) = Addressed(k)
      /\ Raised(k + 1) = Raised(k) /\ Routed(k + 1) = Routed(k)
      /\ Links(k + 1) = IF f.veth THEN Links(k) \union {Pair(f)} ELSE Links(k)
  BY <1>1, <1>2, Adds, LinksAdd
<1>7. ASSUME pc' = pc
      PROVE  Iface(p)' = f /\ Cmd(p)' = Cmd(p) /\ pc'[p] = k
  BY <1>7 DEF Iface, Cmd
<1> HIDE DEF f, k
<1>8. CASE VethSkip(p)
  <2>1. /\ pc'[p] = k + 1 /\ sub'[p] = "check" /\ sub[p] = "check" /\ net' = net
        /\ cache' = cache /\ status' = status
    BY <1>8, <1>t DEF VethSkip, At, Advance, k
  <2>2. Half(p) = {} /\ Half(p)' = {} /\ Moving(p)'
    BY <2>1 DEF Half, Moving
  <2>3. Links(k + 1) = Links(k)
    BY <1>8, <1>6 DEF VethSkip, SoFar, f, k
  <2> QED BY <2>1, <2>2, <2>3, <1>6 DEF SoFar, k
<1>9. CASE VethAdd(p)
  <2>1. f.veth /\ Pair(f) \notin cache[p] /\ sub[p] = "check"
    BY <1>9 DEF VethAdd, At, f
  <2>2. Half(p) = {} /\ net.veths = Links(k)
    BY <2>1 DEF Half, SoFar, k
  <2>3. CanLinkAdd(net, f.name, f.peerName)
    BY <2>2, <2>1, <1>4, LinkEndsFit DEF CanLinkAdd, Devices
  <2>4. /\ net' = LinkAdd(net, f.name, f.peerName) /\ sub'[p] = "move1"
        /\ pc' = pc /\ cache' = cache /\ status' = status
    BY <1>9, <2>3, <1>t DEF VethAdd, Then, f
  <2>5. Half(p)' = {Ends(f, Host, Host)}
    BY <2>4, <1>7 DEF Half
  <2>6. /\ net'.veths = Links(k) \union {Ends(f, Host, Host)}
        /\ net'.netns = net.netns /\ net'.addrs = net.addrs
        /\ net'.ups = net.ups /\ net'.routes = net.routes
    BY <2>2, <2>4, <1>t DEF LinkAdd, NetType, Ends
  <2>7. Moving(p)'
    BY <2>1, <2>4, <1>1, <1>7 DEF Moving, k
  <2> QED BY <2>4, <2>5, <2>6, <2>7, <1>7 DEF SoFar, k
<1>10. CASE VethMove1(p)
  <2>1. /\ sub[p] = "move1" /\ f.veth /\ Pair(f) \notin cache[p]
    BY <1>10 DEF VethMove1, At, SoFar, Moving, f
  <2>2. net.veths = Links(k) \union {Ends(f, Host, Host)}
    BY <2>1 DEF Half, SoFar, k, f
  <2>3. CanLinkMove(net, f.name, f.ns)
    <3>1. <<Host, f.name>> \in Devices(net)
      BY <2>2 DEF Devices, Ends
    <3>2. <<f.ns, f.name>> \notin Devices(net)
      BY <2>1, <2>2, <1>2, <1>5 DEF Devices, Ends, End1
    <3> QED BY <3>1, <3>2, <1>2, <1>3 DEF CanLinkMove
  <2>4. /\ net' = LinkMove(net, f.name, f.ns) /\ sub'[p] = "move2"
        /\ pc' = pc /\ cache' = cache /\ status' = status
    BY <1>10, <2>3, <1>t DEF VethMove1, Then, f
  <2>5. Half(p)' = {Ends(f, f.ns, Host)}
    BY <2>4, <1>7 DEF Half
  <2>6. \A v \in Links(k) : Moved(v, f.name, f.ns) = v
    BY LinkEndsFit DEF Moved
  <2>7. Moved(Ends(f, Host, Host), f.name, f.ns) = Ends(f, f.ns, Host)
    BY <2>1, <1>2, <1>4 DEF Moved, Ends
  <2>8. /\ net'.veths = {Moved(v, f.name, f.ns) : v \in net.veths}
        /\ net'.netns = net.netns /\ net'.addrs = net.addrs
        /\ net'.ups = net.ups /\ net'.routes = net.routes
    BY <2>4, <1>t DEF LinkMove, NetType
  <2>9. net'.veths = Links(k) \union {Ends(f, f.ns, Host)}
    BY <2>2, <2>6, <2>7, <2>8
  <2>10. Moving(p)'
    BY <2>1, <2>4, <1>1, <1>7 DEF Moving, k
  <2> QED BY <2>4, <2>5, <2>8, <2>9, <2>10, <1>7 DEF SoFar, k
<1>11. CASE VethMove2(p)
  <2>1. /\ sub[p] = "move2" /\ f.veth /\ Pair(f) \notin cache[p]
    BY <1>11 DEF VethMove2, At, SoFar, Moving, f
  <2>2. net.veths = Links(k) \union {Ends(f, f.ns, Host)}
    BY <2>1 DEF Half, SoFar, k, f
  <2>3. CanLinkMove(net, f.peerName, f.peerNs)
    <3>1. <<Host, f.peerName>> \in Devices(net)
      BY <2>2 DEF Devices, Ends
    <3>2. <<f.peerNs, f.peerName>> \notin Devices(net)
      BY <2>1, <2>2, <1>2, <1>4, <1>5 DEF Devices, Ends, End2
    <3> QED BY <3>1, <3>2, <1>2, <1>3 DEF CanLinkMove
  <2>4. /\ net' = LinkMove(net, f.peerName, f.peerNs) /\ sub'[p] = "check"
        /\ pc'[p] = k + 1 /\ cache'[p] = cache[p] \union {Pair(f)} /\ status' = status
    BY <1>11, <2>3, <1>t DEF VethMove2, Advance, f, k
  <2>5. Half(p)' = {} /\ Moving(p)'
    BY <2>4 DEF Half, Moving
  <2>6. \A v \in Links(k) : Moved(v, f.peerName, f.peerNs) = v
    BY LinkEndsFit DEF Moved
  <2>7. Moved(Ends(f, f.ns, Host), f.peerName, f.peerNs) = Pair(f)
    BY <2>1, <1>2, <1>4 DEF Moved, Ends, Pair, End1, End2
  <2>8. /\ net'.veths = {Moved(v, f.peerName, f.peerNs) : v \in net.veths}
        /\ net'.netns = net.netns /\ net'.addrs = net.addrs
        /\ net'.ups = net.ups /\ net'.routes = net.routes
    BY <2>4, <1>t DEF LinkMove, NetType
  <2>9. net'.veths = Links(k + 1)
    BY <2>1, <2>2, <2>6, <2>7, <2>8, <1>6
  <2>10. cache'[p] = Links(k + 1)
    BY <2>1, <2>4, <1>6 DEF SoFar, k
  <2> QED BY <2>4, <2>5, <2>8, <2>9, <2>10, <1>6 DEF SoFar, k
<1> QED BY <1>8, <1>9, <1>10, <1>11

\* Every other command of build().
LEMMA OtherBuildStepLone ==
  ASSUME LinksFit, RoutesFit, NEW p \in Proc, TypeOK, SoFar(p),
         \/ CreateCheck(p) \/ CreateAct(p) \/ AddrSkip(p) \/ ExecCheck(p)
         \/ LoopbackAct(p) \/ ForwardingAct(p) \/ AddrAct(p) \/ UpAct(p) \/ RouteAct(p)
  PROVE  SoFar(p)' /\ status' = status
<1> DEFINE k == pc[p]
           c == Plan[k]
           f == Iface(p)
<1>t. /\ net \in NetType /\ pc \in [Proc -> Nat] /\ sub \in [Proc -> Subs]
  BY DEF TypeOK
<1>1. /\ InLoop(p, "build") /\ k \in 1..Len(Plan) /\ k \in Nat /\ Cmd(p) = c
      /\ sub[p] \in {"check", "act"} /\ c.op # "veth"
  <2>1. \E op \in {"create", "loopback", "forwarding", "addr", "up", "route"} :
          At(p, op, "check") \/ At(p, op, "act")
    <3>1. CASE CreateCheck(p) \/ CreateAct(p)
      BY <3>1 DEF CreateCheck, CreateAct
    <3>2. CASE AddrSkip(p) \/ ExecCheck(p)
      BY <3>2 DEF AddrSkip, ExecCheck, ExecOps
    <3>3. CASE LoopbackAct(p) \/ ForwardingAct(p)
      BY <3>3 DEF LoopbackAct, ForwardingAct, Execute
    <3>4. CASE AddrAct(p) \/ UpAct(p) \/ RouteAct(p)
      BY <3>4 DEF AddrAct, UpAct, RouteAct, Execute
    <3> QED BY <3>1, <3>2, <3>3, <3>4
  <2>2. /\ InLoop(p, "build") /\ sub[p] \in {"check", "act"}
        /\ c.op \in {"create", "loopback", "forwarding", "addr", "up", "route"}
    BY <2>1 DEF At
  <2>3. k \in 1..Len(Plan) /\ k \in Nat /\ Cmd(p) = c
    BY <2>2, CmdFacts, Sizes DEF Cmd
  <2> QED BY <2>2, <2>3
<1>2. /\ Half(p) = {}
      /\ sub'[p] \in {"check", "act"} => Half(p)' = {} /\ Moving(p)'
  BY <1>1 DEF Half, Moving
<1>3. /\ NsOf(c) \in NsNames
      /\ c.op = "create" => c.i \in 1..Len(Namespaces) \ Created(k)
      /\ c.op \in {"create", "loopback", "forwarding"} => NsOf(c) = NsName(c.i)
      /\ c.op \in {"addr", "up"} => /\ c.i \in 1..Len(Interfaces)
                                    /\ f = Interfaces[c.i] /\ NsOf(c) = f.ns
      /\ c.op = "route" => c.i \in 1..Len(Routes) /\ NsOf(c) = Routes[c.i].ns
  BY <1>1, CmdFacts, Finds DEF Iface
<1>4. \A i, j \in 1..Len(Namespaces) : NsName(i) = NsName(j) => i = j
  BY ConfigAssumption DEF ConfigAssumption
<1>5. /\ c.op = "create" => NsOf(c) \notin net.netns
      /\ c.op # "create" => NsOf(c) \in net.netns
  <2>1. CASE c.op = "create"
    BY <2>1, <1>3, <1>4 DEF SoFar, Created
  <2>2. CASE c.op \in {"loopback", "forwarding"}
    BY <2>2, <1>1, <1>3, Finds DEF SoFar
  <2>3. CASE c.op \in {"addr", "up", "route"}
    BY <2>3, <1>1, <1>3, Finds DEF SoFar, NsNames
  <2> QED BY <1>1, <2>1, <2>2, <2>3, CmdFacts DEF Instr, Ops, ExecOps
<1>6. /\ Created(k + 1) = Created(k) \union {i \in {c.i} : c.op = "create"}
      /\ Addressed(k + 1) = Addressed(k) \union {i \in {c.i} : c.op = "addr"}
      /\ Raised(k + 1) = Raised(k) \union {i \in {c.i} : c.op = "up"}
      /\ Routed(k + 1) = Routed(k) \union {i \in {c.i} : c.op = "route"}
      /\ Links(k + 1) = Links(k)
  BY <1>1, Adds, LinksAdd
<1>7. ASSUME c.op \in {"addr", "up", "route"}
      PROVE  \A i \in 1..Len(Interfaces) : End1(Interfaces[i]) \in Devices(net)
  <2>1. TAKE i \in 1..Len(Interfaces)
  <2>2. PICK j \in 1..Len(Interfaces) :
          Interfaces[j].veth /\ End1(Interfaces[i]) \in Pair(Interfaces[j])
    BY DEF LinksFit
  <2>3. Pair(Interfaces[j]) \in net.veths
    BY <1>1, <1>7, <2>2, Finds DEF SoFar, Links
  <2> QED BY <2>2, <2>3 DEF Devices
<1> HIDE DEF f, k, c
<1>n. ASSUME UNCHANGED <<net, cache, pc>>, sub'[p] \in {"check", "act"}
      PROVE  SoFar(p)'
  BY <1>n, <1>2 DEF SoFar
\* The network keeps every part that the element is not about.
<1>a. ASSUME Advance(p), cache' = cache, net'.veths = net.veths,
             net'.netns = net.netns \union {n \in {NsOf(c)} : c.op = "create"},
             net'.addrs \subseteq net.addrs \union {d \in {End1(f)} : c.op = "addr"},
             net.addrs \subseteq net'.addrs,
             c.op = "addr" /\ f.ip => End1(f) \in net'.addrs,
             net'.ups = net.ups \union {d \in {End1(f)} : c.op = "up"},
             net'.routes = net.routes \union
               {r \in {<<Routes[c.i].ns, Routes[c.i].target, Routes[c.i].dev>>} : c.op = "route"}
      PROVE  SoFar(p)' /\ status' = status
  <2>1. pc'[p] = k + 1 /\ sub'[p] = "check" /\ status' = status
    BY <1>a, <1>t DEF Advance, k
  <2>2. net'.netns = {NsName(i) : i \in Created(k + 1)}
    BY <1>a, <1>3, <1>6 DEF SoFar, k
  <2>3. /\ net'.addrs \subseteq {End1(Interfaces[i]) : i \in Addressed(k + 1)}
        /\ \A i \in Addressed(k + 1) : Interfaces[i].ip => End1(Interfaces[i]) \in net'.addrs
    BY <1>a, <1>3, <1>6 DEF SoFar, k
  <2>4. net'.ups = {End1(Interfaces[i]) : i \in Raised(k + 1)}
    BY <1>a, <1>3, <1>6 DEF SoFar, k
  <2>5. net'.routes =
          {<<Routes[i].ns, Routes[i].target, Routes[i].dev>> : i \in Routed(k + 1)}
    BY <1>a, <1>3, <1>6 DEF SoFar, k
  <2>6. net'.veths = Links(k + 1) /\ cache'[p] = Links(k + 1)
    BY <1>a, <1>2, <1>6 DEF SoFar, k
  <2> QED BY <2>1, <2>2, <2>3, <2>4, <2>5, <2>6, <1>2 DEF SoFar
<1>8. CASE CreateCheck(p)
  BY <1>8, <1>1, <1>5, <1>n, <1>t DEF CreateCheck, At, Then, Cmd, c, k
<1>9. CASE CreateAct(p)
  <2>1. c.op = "create" /\ CanNetnsAdd(net, NsOf(c))
    BY <1>9, <1>5 DEF CreateAct, At, CanNetnsAdd, c, k
  <2>2. Advance(p) /\ cache' = cache /\ \E b \in BOOLEAN : net' = NetnsAdd(net, NsOf(c), b)
    BY <1>9, <1>1, <2>1 DEF CreateAct
  <2>3. /\ net'.netns = net.netns \union {NsOf(c)} /\ net'.veths = net.veths
        /\ net'.addrs = net.addrs /\ net'.ups = net.ups /\ net'.routes = net.routes
    BY <2>2, <1>t DEF NetnsAdd, NetType
  <2> QED BY <2>1, <2>2, <2>3, <1>a
<1>10. CASE AddrSkip(p)
  <2>1. c.op = "addr" /\ ~f.ip /\ Advance(p) /\ cache' = cache /\ net' = net
    BY <1>10 DEF AddrSkip, At, f, c, k
  <2> QED BY <2>1, <1>a
<1>11. CASE ExecCheck(p)
  BY <1>11, <1>1, <1>5, <1>n, <1>t DEF ExecCheck, At, Then, Cmd, ExecOps, c, k
<1>12. CASE LoopbackAct(p)
  <2>1. c.op = "loopback"
    BY <1>12 DEF LoopbackAct, Execute, At, c, k
  <2>2. Advance(p) /\ cache' = cache /\ net' = LoUp(net, NsOf(c))
    BY <1>12, <2>1, <1>1, <1>5 DEF LoopbackAct, Execute
  <2>3. /\ net'.netns = net.netns /\ net'.veths = net.veths
        /\ net'.addrs = net.addrs /\ net'.ups = net.ups /\ net'.routes = net.routes
    BY <2>2, <1>t DEF LoUp, NetType
  <2> QED BY <2>1, <2>2, <2>3, <1>a
<1>13. CASE ForwardingAct(p)
  <2>1. c.op = "forwarding"
    BY <1>13 DEF ForwardingAct, Execute, At, c, k
  <2>2. /\ Advance(p) /\ cache' = cache
        /\ net' = SetForward(net, NsOf(c), Namespaces[c.i].forwarding)
    BY <1>13, <2>1, <1>1, <1>5 DEF ForwardingAct, Execute
  <2>3. /\ net'.netns = net.netns /\ net'.veths = net.veths
        /\ net'.addrs = net.addrs /\ net'.ups = net.ups /\ net'.routes = net.routes
    BY <2>2, <1>t DEF SetForward, NetType
  <2> QED BY <2>1, <2>2, <2>3, <1>a
<1>14. CASE AddrAct(p)
  <2>1. c.op = "addr" /\ c.i \in 1..Len(Interfaces) /\ c.i \notin Addressed(k)
        /\ f = Interfaces[c.i]
    BY <1>14, <1>1, <1>3, Finds DEF AddrAct, Execute, At, c, k
  <2>2. End1(f) \notin net.addrs
    <3>1. \A i \in Addressed(k) : End1(Interfaces[i]) # End1(f)
      BY <2>1, ConfigAssumption DEF ConfigAssumption, End1, Addressed
    <3> QED BY <3>1 DEF SoFar, k
  <2>3. CanAddrAdd(net, End1(f))
    BY <2>1, <2>2, <1>7 DEF CanAddrAdd
  <2>4. Advance(p) /\ cache' = cache /\ net' = AddrAdd(net, End1(f))
    BY <1>14, <2>1, <2>3, <1>1, <1>5 DEF AddrAct, Execute, f
  <2>5. /\ net'.netns = net.netns /\ net'.veths = net.veths
        /\ net'.addrs = net.addrs \union {End1(f)} /\ net'.ups = net.ups
        /\ net'.routes = net.routes
    BY <2>4, <1>t DEF AddrAdd, NetType
  <2> QED BY <2>1, <2>4, <2>5, <1>a
<1>15. CASE UpAct(p)
  <2>1. c.op = "up"
    BY <1>15 DEF UpAct, Execute, At, c, k
  <2>2. CanLinkUp(net, End1(f))
    BY <2>1, <1>3, <1>7 DEF CanLinkUp
  <2>3. Advance(p) /\ cache' = cache /\ net' = LinkUp(net, End1(f))
    BY <1>15, <2>1, <2>2, <1>1, <1>5 DEF UpAct, Execute, f
  <2>4. /\ net'.netns = net.netns /\ net'.veths = net.veths
        /\ net'.addrs = net.addrs /\ net'.ups = net.ups \union {End1(f)}
        /\ net'.routes = net.routes
    BY <2>3, <1>t DEF LinkUp, NetType
  <2> QED BY <2>1, <2>3, <2>4, <1>a
<1>16. CASE RouteAct(p)
  <2> DEFINE r == Routes[c.i]
  <2>1. c.op = "route" /\ c.i \in 1..Len(Routes) /\ c.i \notin Routed(k)
        /\ Addressed(k) = 1..Len(Interfaces) /\ Raised(k) = 1..Len(Interfaces)
    BY <1>16, <1>1, <1>3, Finds DEF RouteAct, Execute, At, c, k
  <2>2. PICK j \in 1..Len(Interfaces) : /\ End1(Interfaces[j]) = <<r.ns, r.dev>>
                                        /\ r.via => Interfaces[j].ip
    BY <2>1 DEF RoutesFit
  <2>3. <<r.ns, r.dev>> \in net.ups /\ (r.via => <<r.ns, r.dev>> \in net.addrs)
    BY <2>1, <2>2 DEF SoFar, k
  <2>4. \A x \in net.routes : x[1] = r.ns => x[2] # r.target
    BY <2>1 DEF SoFar, RoutesFit, Routed, k
  <2>5. CanRouteAdd(net, r.ns, r.target, r.dev, r.via)
    BY <2>3, <2>4 DEF CanRouteAdd
  <2>6. Advance(p) /\ cache' = cache /\ net' = RouteAdd(net, r.ns, r.target, r.dev)
    BY <1>16, <2>1, <2>5, <1>1, <1>5 DEF RouteAct, Execute
  <2>7. /\ net'.netns = net.netns /\ net'.veths = net.veths
        /\ net'.addrs = net.addrs /\ net'.ups = net.ups
        /\ net'.routes = net.routes \union {<<r.ns, r.target, r.dev>>}
    BY <2>6, <1>t DEF RouteAdd, NetType
  <2> QED BY <2>1, <2>6, <2>7, <1>a
<1> QED BY <1>8, <1>9, <1>10, <1>11, <1>12, <1>13, <1>14, <1>15, <1>16

LEMMA LoneStep ==
  ASSUME Alone, ClearsFirst, LinksFit, RoutesFit, LoneInv, NEW p \in Proc,
         Start(p) \/ Step(p) \/ CommandFails(p) \/ Kill(p)
  PROVE  LoneInv'
<1>t. /\ TypeOK /\ TypeOK'
      /\ net \in NetType /\ call \in [Proc -> Nat] /\ pc \in [Proc -> Nat]
      /\ sub \in [Proc -> Subs] /\ faults \in Nat /\ call[p] \in 1..Len(Script[p])
      /\ status \in [Proc -> {"new", "running", "done", "failed", "killed"}]
      /\ MaxFaults \in Nat /\ Len(Script[p]) \in Nat
      /\ Script[p][call[p]] \in {"build", "teardown"}
  <2>1. TypeOK /\ TypeOK'
    BY BuildStepType, OtherStepType DEF LoneInv, Step
  <2>2. MaxFaults \in Nat /\ Script[p] \in Seq({"build", "teardown"})
    BY ProcAssumption DEF ProcAssumption
  <2>3. call[p] \in 1..Len(Script[p]) /\ faults \in 0..MaxFaults
    BY <2>1 DEF TypeOK
  <2>4. Len(Script[p]) \in Nat /\ Script[p][call[p]] \in {"build", "teardown"}
    BY <2>2, <2>3
  <2> QED BY <2>1, <2>2, <2>3, <2>4, SMTT(30) DEF TypeOK
<1>o. ASSUME /\ CallOf(p)' = "teardown" /\ FirstBuild(p)' => Cleared(p)'
             /\ CallOf(p)' = "build" => SoFar(p)'
             /\ CallOf(p)' = "build" /\ faults' = 0 => status'[p] # "failed"
      PROVE  LoneInv'
  BY <1>o, <1>t DEF Alone, LoneInv
<1>k. ASSUME UNCHANGED <<net, call, pc, sub, cache>>,
             CallOf(p) = "build" /\ faults' = 0 => status'[p] # "failed"
      PROVE  LoneInv'
  BY <1>k, <1>o DEF LoneInv, CallOf, FirstBuild, Cleared, SoFar, Moving, Half, Iface, Cmd
<1>1. CASE BuildStep(p)
  <2>1. CallOf(p) = "build" /\ CallOf(p)' = "build" /\ status[p] = "running"
    BY <1>1, <1>t, BuildMoves DEF CallOf
  <2>2. SoFar(p)' /\ status' = status
    BY <1>1, <1>t, <2>1, LinkStepLone, OtherBuildStepLone DEF BuildStep, LoneInv
  <2> QED BY <2>1, <2>2, <1>o
<1>2. CASE TeardownStep(p)
  <2>1. CallOf(p) = "teardown" /\ status[p] = "running" /\ pc[p] \in 1..Len(Namespaces)
    BY <1>2, <1>t DEF TeardownStep, DeleteCheck, DeleteAct, InLoop, LoopLength, TypeOK
  <2>2. ASSUME Raise(p, "NameError") \/ Raise(p, "CommandExecutionError") PROVE LoneInv'
    BY <2>1, <2>2, <1>k DEF Raise
  <2>3. ASSUME call' = call, cache' = cache, Then(p, "act") \/ Advance(p),
               Advance(p) => NsName(pc[p]) \notin net'.netns,
               \/ net' = net
               \/ net' = NetnsDelete(net, NsName(pc[p]))
        PROVE  LoneInv'
    <3>1. CallOf(p)' = "teardown" /\ FirstBuild(p)' = FirstBuild(p)
      BY <2>1, <2>3 DEF CallOf, FirstBuild
    <3>2. ASSUME Cleared(p) PROVE Cleared(p)'
      <4>1. /\ net'.veths = {} /\ net'.addrs = {} /\ net'.ups = {} /\ net'.routes = {}
            /\ net'.netns \subseteq net.netns
        BY <2>3, <3>2 DEF NetnsDelete, SurvivingVeths, Cleared
      <4>2. /\ sub'[p] \in {"check", "act"}
            /\ pc'[p] = pc[p] \/ (pc'[p] = pc[p] + 1 /\ NsName(pc[p]) \notin net'.netns)
        BY <2>3, <1>t DEF Then, Advance
      <4>3. \A n \in 1..(pc'[p] - 1) : n <= Len(Namespaces) => NsName(n) \notin net'.netns
        BY <4>1, <4>2, <3>2, <1>t DEF Cleared
      <4> QED BY <4>1, <4>2, <4>3, <2>3, <3>2 DEF Cleared
    <3> QED BY <2>1, <3>1, <3>2, <1>t, <1>o DEF LoneInv
  <2>4. CASE DeleteCheck(p)
    <3>1. Then(p, "act") => ~Advance(p)
      BY <1>t, <2>1 DEF Then, Advance
    <3>2. call' = call
      BY <2>4 DEF DeleteCheck, Then, Advance
    <3> QED BY <2>3, <2>4, <3>1, <3>2 DEF DeleteCheck
  <2>5. CASE DeleteAct(p)
    <3>1. CASE CanNetnsDelete(net, NsName(pc[p]))
      <4>1. NsName(pc[p]) \notin NetnsDelete(net, NsName(pc[p])).netns
        BY DEF NetnsDelete
      <4> QED BY <2>3, <2>5, <3>1, <4>1 DEF DeleteAct, Advance
    <3>2. CASE ~CanNetnsDelete(net, NsName(pc[p]))
      BY <2>2, <2>5, <3>2 DEF DeleteAct, RunCmdRaises, RunCmdError
    <3> QED BY <3>1, <3>2
  <2> QED BY <1>2, <2>4, <2>5 DEF TeardownStep
<1>3. CASE Return(p) /\ call[p] < Len(Script[p])
  <2> DEFINE n == call[p] + 1
  <2>1. /\ call'[p] = n /\ pc'[p] = 1 /\ sub'[p] = "check" /\ status'[p] = "running"
        /\ net' = net /\ cache' = cache /\ n \in 2..Len(Script[p])
        /\ pc[p] > LoopLength(p)
    BY <1>3, <1>t DEF Return
  <2>2. CallOf(p)' = Script[p][n] /\ CallOf(p) = Script[p][n - 1]
    BY <2>1, <1>t DEF CallOf
  <2>3. FirstBuild(p)' => CallOf(p) # "build" /\ FirstBuild(p)
    BY <2>1, <2>2, <1>t DEF FirstBuild
  <2>4. Script[p][n] = "build" => CallOf(p) = "teardown" /\ FirstBuild(p)
    BY <2>1, <2>2, <1>t, SMTT(30) DEF ClearsFirst, FirstBuild
  <2>5. FirstBuild(p)' => Cleared(p)'
    BY <2>1, <2>2, <2>3, <1>t DEF LoneInv, Cleared, CallOf
  <2>6. ASSUME Script[p][n] = "build" PROVE SoFar(p)'
    <3>1. Cleared(p) /\ pc[p] > Len(Namespaces)
      BY <2>1, <2>4, <2>6 DEF LoneInv, LoopLength
    <3>2. \A k \in 1..Len(Namespaces) : NsName(k) \notin net.netns
      BY <3>1, <1>t, Sizes DEF Cleared
    <3>3. net.netns = {}
      BY <3>2, <1>t DEF NetType, NsNames
    <3>4. Half(p)' = {} /\ Moving(p)' /\ Links(1) = {}
      BY <2>1, AtFirst DEF Half, Moving, Links
    <3> QED BY <2>1, <3>1, <3>3, <3>4, AtFirst DEF SoFar, Cleared
  <2> QED BY <2>1, <2>2, <2>5, <2>6, <1>o
<1>4. CASE Return(p) /\ ~(call[p] < Len(Script[p]))
  <2>1. UNCHANGED <<net, call, pc, sub, cache>> /\ status'[p] = "done"
    BY <1>4, <1>t DEF Return
  <2> QED BY <2>1, <1>k
<1>5. CASE Start(p) \/ Kill(p)
  <2>1. UNCHANGED <<net, call, pc, sub, cache>> /\ status'[p] \in {"running", "killed"}
    BY <1>5, <1>t DEF Start, Kill
  <2> QED BY <2>1, <1>k
<1>6. CASE CommandFails(p)
  <2>1. UNCHANGED <<net, call, pc, sub, cache>> /\ faults' # 0
    BY <1>6, <1>t DEF CommandFails, RunCmdRaises, Raise
  <2> QED BY <2>1, <1>k
<1> QED BY <1>1, <1>2, <1>3, <1>4, <1>5, <1>6 DEF Step

\* A build() that follows a teardown() in a program that has the host to itself
\* is never stopped by a command of its own: TopologyBuilder.build orders its
\* four loops so that every command finds what it needs.  For any configuration
\* whose links and routes fit, whatever namespaces were left behind.
THEOREM LoneBuildSucceeds ==
  Alone /\ ClearsFirst /\ LinksFit /\ RoutesFit => (Spec => []BuildSucceeds)
<1> SUFFICES ASSUME Alone, ClearsFirst, LinksFit, RoutesFit
             PROVE  Spec => []BuildSucceeds
  OBVIOUS
<1>1. Init => LoneInv
  <2> SUFFICES ASSUME Init, NEW p \in Proc
               PROVE  /\ CallOf(p) = Script[p][1] /\ CallOf(p) # "build" /\ Cleared(p)
    BY TypeInit DEF LoneInv
  <2>1. CallOf(p) = Script[p][1] /\ 1 \in 1..Len(Script[p])
    BY ProcAssumption DEF Init, CallOf, ProcAssumption
  <2>2. Script[p][1] # "build"
    BY <2>1 DEF ClearsFirst
  <2>3. Cleared(p)
    BY DEF Init, Cleared, EmptyNet
  <2> QED BY <2>1, <2>2, <2>3
<1>2. LoneInv /\ [Next]_vars => LoneInv'
  <2> SUFFICES ASSUME LoneInv, [Next]_vars PROVE LoneInv'
    OBVIOUS
  <2>1. CASE UNCHANGED vars
    BY <2>1 DEF vars, LoneInv, TypeOK, LoopLength, CallOf, FirstBuild, Cleared, SoFar,
       Moving, Half, Iface, Cmd
  <2>2. CASE Next
    BY <2>2, LoneStep DEF Next
  <2> QED BY <2>1, <2>2
<1>3. LoneInv => BuildSucceeds
  BY DEF LoneInv, BuildSucceeds
<1> QED BY <1>1, <1>2, <1>3, PTL DEF Spec

=============================================================================
