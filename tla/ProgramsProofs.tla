--------------------------- MODULE ProgramsProofs ---------------------------
(***************************************************************************)
(* Proofs about Programs, for any number of programs, servers, changes of  *)
(* the laboratory and faults: no program that ended leaves a server, and a *)
(* demo that nothing disturbed passes.                                     *)
(***************************************************************************)
EXTENDS Programs, TLAPS, SequenceTheorems

States == Alive \union {"none", "killed", "gone"}
Points == Body \union Stopping \union {"new", "ended"}
Exits == {"none", "ok", "error", "interrupted", "cut"}

ControlTypes ==
  /\ kind \in [Prog -> Kinds \union {"none"}] /\ pc \in [Prog -> Points]
  /\ i \in [Prog -> Nat \ {0}] /\ tracked \in [Prog -> Nat]
  /\ passed \in [Prog -> BOOLEAN] /\ exit \in [Prog -> Exits]

LEMMA TypeParts ==
  TypeOK <=>
    /\ fits \in BOOLEAN /\ whole \in BOOLEAN /\ tunnel \in {"none", "partial", "up"}
    /\ server \in [Prog -> [Servers -> States]] /\ stray \subseteq Prog \X Servers
    /\ ControlTypes
    /\ calm \in [Prog -> BOOLEAN]
    /\ changes \in 0..MaxChanges /\ faults \in 0..MaxFaults
BY DEF TypeOK, ControlTypes, States, Points, Exits

LEMMA TypePartsNext ==
  ASSUME fits' \in BOOLEAN, whole' \in BOOLEAN, tunnel' \in {"none", "partial", "up"},
         server' \in [Prog -> [Servers -> States]], stray' \subseteq Prog \X Servers,
         ControlTypes', calm' \in [Prog -> BOOLEAN],
         changes' \in 0..MaxChanges, faults' \in 0..MaxFaults
  PROVE  TypeOK'
BY DEF TypeOK, ControlTypes, States, Points, Exits

LEMMA TheConstants ==
  /\ Len(Services) \in Nat /\ 1 \in Servers
  /\ Len(Probes) \in Nat /\ \A n \in 1..Len(Probes) : Probes[n] \in Servers
  /\ MaxChanges \in Nat /\ MaxFaults \in Nat
BY ProgramsAssumption DEF Servers

\* What the checks are of: a kernel state, the network, or a server that exists.
LEMMA SequenceFacts ==
  ASSUME NEW k \in Kinds
  PROVE  /\ Len(Sequence(k)) \in Nat /\ Len(Sequence(k)) >= 1
         /\ \A n \in 1..Len(Sequence(k)) :
              \/ Sequence(k)[n].of = "service" /\ Sequence(k)[n].service \in Servers
              \/ Sequence(k)[n].of = "icmp" /\ k # "vpn"
              \/ /\ Sequence(k)[n].of \in {"namespaces", "links", "rp_filter", "nat", "handshake"}
                 /\ k = "vpn"
              \/ k = "verify" /\ Sequence(k)[n].of # "service"
<1> DEFINE C == [of : {"icmp", "service"}, service : Nat]
           s == <<Of("icmp")>>
           t == [n \in 1..Len(Probes) |-> Request(Probes[n])]
<1>1. CASE k = "traffic"
  <2>1. s \in Seq(C) /\ Len(s) = 1 /\ s[1] = Of("icmp")
    BY DEF Of
  <2>2. t \in Seq(C) /\ Len(t) = Len(Probes)
    <3>1. \A n \in 1..Len(Probes) : Request(Probes[n]) \in C
      BY TheConstants DEF Request, Servers
    <3> HIDE DEF C
    <3> QED BY <3>1, TheConstants
  <2>3. Sequence(k) = s \o t
    BY <1>1 DEF Sequence
  <2>4. /\ Len(s \o t) = 1 + Len(Probes)
        /\ \A n \in 1..(1 + Len(Probes)) : (s \o t)[n] = IF n <= 1 THEN s[n] ELSE t[n - 1]
    <3> HIDE DEF C, s, t
    <3>1. /\ Len(s \o t) = Len(s) + Len(t)
          /\ \A n \in 1..(Len(s) + Len(t)) :
               (s \o t)[n] = IF n <= Len(s) THEN s[n] ELSE t[n - Len(s)]
      BY <2>1, <2>2, ConcatProperties
    <3> QED BY <2>1, <2>2, <3>1
  <2>5. ASSUME NEW n \in 1..Len(Sequence(k))
        PROVE  \/ Sequence(k)[n].of = "service" /\ Sequence(k)[n].service \in Servers
               \/ Sequence(k)[n].of = "icmp"
    <3>1. CASE n = 1
      BY <2>1, <2>3, <2>4, <3>1 DEF Of
    <3>2. CASE n # 1
      <4>1. n - 1 \in 1..Len(Probes) /\ ~(n <= 1)
        BY <2>3, <2>4, <3>2, TheConstants
      <4>2. Sequence(k)[n] = Request(Probes[n - 1])
        BY <2>3, <2>4, <4>1
      <4> QED BY <4>1, <4>2, TheConstants DEF Request
    <3> QED BY <3>1, <3>2
  <2> QED BY <1>1, <2>3, <2>4, <2>5, TheConstants
<1>2. CASE k = "vpn"
  <2>1. Sequence(k) = <<Of("namespaces"), Of("links"), Of("rp_filter"), Of("nat"),
                        Of("handshake"), Request(1)>>
    BY <1>2 DEF Sequence
  <2>2. /\ Len(Sequence(k)) = 6 /\ Sequence(k)[6] = Request(1)
        /\ \A n \in 1..5 : Sequence(k)[n] \in
             {Of(w) : w \in {"namespaces", "links", "rp_filter", "nat", "handshake"}}
    BY <2>1
  <2>3. \A n \in 1..5 : Sequence(k)[n].of \in
          {"namespaces", "links", "rp_filter", "nat", "handshake"}
    BY <2>2 DEF Of
  <2>4. Sequence(k)[6].of = "service" /\ Sequence(k)[6].service \in Servers
    BY <2>2, TheConstants DEF Request
  <2>5. 1..6 = (1..5) \union {6}
    OBVIOUS
  <2> HIDE DEF s, t, C
  <2> QED BY <1>2, <2>2, <2>3, <2>4, <2>5
<1>3. CASE k = "verify"
  <2>1. Sequence(k) = <<Of("namespaces"), Of("interfaces"), Of("wireguard"),
                        Of("routing"), Of("nat"), Of("icmp"), Request(1)>>
    BY <1>3 DEF Sequence
  <2>2. /\ Len(Sequence(k)) = 7 /\ Sequence(k)[7] = Request(1)
        /\ \A n \in 1..6 : Sequence(k)[n] \in
             {Of(w) : w \in {"namespaces", "interfaces", "wireguard", "routing", "nat", "icmp"}}
    BY <2>1
  <2>3. \A n \in 1..6 : Sequence(k)[n].of # "service"
    BY <2>2 DEF Of
  <2>4. Sequence(k)[7].of = "service" /\ Sequence(k)[7].service = 1
    BY <2>2 DEF Request
  <2>5. 1..7 = (1..6) \union {7} /\ 1 \in Servers
    BY TheConstants
  <2>6. ASSUME NEW n \in 1..7
        PROVE  \/ Sequence(k)[n].of = "service" /\ Sequence(k)[n].service \in Servers
               \/ Sequence(k)[n].of # "service"
    BY <2>3, <2>4, <2>5
  <2> HIDE DEF s, t, C
  <2> QED BY <1>3, <2>2, <2>6
<1> QED BY <1>1, <1>2, <1>3 DEF Kinds

-----------------------------------------------------------------------------
\* A program's own variables.
Same(q) ==
  /\ kind'[q] = kind[q] /\ pc'[q] = pc[q] /\ i'[q] = i[q] /\ tracked'[q] = tracked[q]
  /\ passed'[q] = passed[q] /\ exit'[q] = exit[q]

LEMMA GotoMoves ==
  ASSUME TypeOK, NEW p \in Prog, NEW l \in Points, Goto(p, l)
  PROVE  /\ pc' \in [Prog -> Points] /\ pc'[p] = l
         /\ i' \in [Prog -> Nat \ {0}] /\ i'[p] = 1
         /\ \A q \in Prog \ {p} : pc'[q] = pc[q] /\ i'[q] = i[q]
BY TypeParts DEF ControlTypes, Goto

LEMMA ExitMoves ==
  ASSUME TypeOK, NEW p \in Prog, NEW how \in Exits, Exit(p, how)
  PROVE  /\ pc' \in [Prog -> Points] /\ pc'[p] = "ended" /\ i' = i
         /\ exit' \in [Prog -> Exits] /\ exit'[p] = how
         /\ \A q \in Prog \ {p} : pc'[q] = pc[q] /\ exit'[q] = exit[q]
BY TypeParts DEF ControlTypes, Exit, Points

LEMMA FinallyMoves ==
  ASSUME TypeOK, NEW p \in Prog, NEW how \in Exits, Finally(p, how)
  PROVE  /\ pc' \in [Prog -> Points] /\ i' \in [Prog -> Nat \ {0}]
         /\ exit' \in [Prog -> Exits] /\ exit'[p] = how
         /\ \A q \in Prog \ {p} : pc'[q] = pc[q] /\ i'[q] = i[q] /\ exit'[q] = exit[q]
         /\ \/ kind[p] \in {"traffic", "vpn"} /\ pc[p] # "deploy" /\ pc'[p] = "stop" /\ i'[p] = 1
            \/ ~(kind[p] \in {"traffic", "vpn"} /\ pc[p] # "deploy") /\ pc'[p] = "ended" /\ i' = i
<1>1. exit' \in [Prog -> Exits] /\ exit'[p] = how /\ \A q \in Prog \ {p} : exit'[q] = exit[q]
  BY TypeParts DEF ControlTypes, Finally
<1>2. CASE kind[p] \in {"traffic", "vpn"} /\ pc[p] # "deploy"
  <2>1. Goto(p, "stop") /\ "stop" \in Points
    BY <1>2 DEF Finally, Points, Stopping
  <2> QED BY <1>1, <1>2, <2>1, GotoMoves
<1>3. CASE ~(kind[p] \in {"traffic", "vpn"} /\ pc[p] # "deploy")
  BY <1>1, <1>3, TypeParts DEF Finally, ControlTypes, Points
<1> QED BY <1>2, <1>3

LEMMA ServerSet ==
  ASSUME TypeOK, NEW p \in Prog, NEW k, NEW s \in States,
         server' = [server EXCEPT ![p][k] = s]
  PROVE  /\ server' \in [Prog -> [Servers -> States]]
         /\ \A q \in Prog, n \in Servers :
              server'[q][n] = IF q = p /\ n = k THEN s ELSE server[q][n]
BY TypeParts

-----------------------------------------------------------------------------
\* A step of p changes p's variables and p's servers only.
Mine(p) ==
  \A q \in Prog \ {p} : Same(q) /\ \A k \in Servers : server'[q][k] = server[q][k]

LEMMA Disturbed ==
  ASSUME TypeOK, NEW P, Disturb(P)
  PROVE  /\ calm' \in [Prog -> BOOLEAN]
         /\ \A q \in Prog : calm'[q] <=> calm[q] /\ q \notin P
BY TypeParts DEF Disturb

\* How a check goes on.
LEMMA CheckMoves ==
  ASSUME TypeOK, NEW p \in Prog, CheckStep(p)
  PROVE  \E o \in Outcomes(kind[p], Sequence(kind[p])[i[p]]) :
           /\ pc[p] = "check" /\ passed' = [passed EXCEPT ![p] = @ /\ o = "true"]
           /\ Disturb(IF \/ TooEarly(p, Sequence(kind[p])[i[p]])
                         \/ Misread(Sequence(kind[p])[i[p]], o) THEN {p} ELSE {})
           /\ \/ (o = "raises" \/ (o = "false" /\ kind[p] = "vpn")) /\ Finally(p, "error")
              \/ /\ i[p] < Len(Sequence(kind[p]))
                 /\ i' = [i EXCEPT ![p] = @ + 1] /\ UNCHANGED <<pc, exit>>
              \/ kind[p] = "verify" /\ Goto(p, "collect") /\ UNCHANGED exit
              \/ /\ kind[p] # "verify"
                 /\ Finally(p, IF kind[p] = "traffic" \/ passed'[p] THEN "ok" ELSE "error")
BY DEF CheckStep, AfterChecks

\* Each step keeps the types and is the business of one program.
LEMMA StepTypes ==
  ASSUME TypeOK, NEW p \in Prog, Step(p)
  PROVE  TypeOK' /\ Mine(p)
<1>t. /\ fits \in BOOLEAN /\ whole \in BOOLEAN /\ tunnel \in {"none", "partial", "up"}
      /\ server \in [Prog -> [Servers -> States]] /\ stray \subseteq Prog \X Servers
      /\ ControlTypes
      /\ calm \in [Prog -> BOOLEAN]
      /\ changes \in 0..MaxChanges /\ faults \in 0..MaxFaults
  BY TypeParts
<1>e. /\ {"error", "ok"} \subseteq Exits
      /\ {"spawn", "append", "check", "collect", "stop", "await", "ended"}
           \subseteq Points
  BY DEF Exits, Points, Body, Stopping
<1>1. CASE Deploy(p)
  <2>1. CASE tunnel' = "up" /\ Goto(p, "spawn") /\ UNCHANGED exit
    <3>1. ControlTypes' /\ Mine(p)
      BY <1>1, <1>t, <1>e, <2>1, GotoMoves DEF Deploy, ControlTypes, Mine, Same
    <3> QED BY <1>1, <1>t, <2>1, <3>1, TypePartsNext DEF Deploy, bounds
  <2>2. CASE /\ tunnel' = IF whole /\ tunnel = "none" THEN "partial" ELSE tunnel
             /\ Finally(p, "error")
    <3>1. ControlTypes' /\ Mine(p)
      BY <1>1, <1>t, <1>e, <2>2, FinallyMoves DEF Deploy, ControlTypes, Mine, Same
    <3> QED BY <1>1, <1>t, <2>2, <3>1, TypePartsNext DEF Deploy, bounds
  <2> QED BY <1>1, <2>1, <2>2 DEF Deploy
<1>2. CASE Spawn(p)
  <2>1. CASE /\ server' = [server EXCEPT ![p][i[p]] = "starting"]
             /\ pc' = [pc EXCEPT ![p] = "append"] /\ UNCHANGED i
    <3>1. /\ server' \in [Prog -> [Servers -> States]]
          /\ \A q \in Prog \ {p} : \A k \in Servers : server'[q][k] = server[q][k]
      BY <2>1, ServerSet DEF States, Alive
    <3>2. ControlTypes' /\ Mine(p)
      BY <1>2, <1>t, <1>e, <2>1, <3>1 DEF Spawn, ControlTypes, Mine, Same
    <3> QED BY <1>2, <1>t, <3>1, <3>2, TypePartsNext DEF Spawn, bounds
  <2>2. CASE Goto(p, "check") /\ UNCHANGED server
    <3>1. ControlTypes' /\ Mine(p)
      BY <1>2, <1>t, <1>e, <2>2, GotoMoves DEF Spawn, ControlTypes, Mine, Same
    <3> QED BY <1>2, <1>t, <2>2, <3>1, TypePartsNext DEF Spawn, bounds
  <2> QED BY <1>2, <2>1, <2>2 DEF Spawn
<1>3. CASE Append_(p)
  <2>1. ControlTypes' /\ Mine(p)
    BY <1>3, <1>t, <1>e DEF Append_, ControlTypes, Mine, Same, host
  <2> QED BY <1>3, <1>t, <2>1, TypePartsNext DEF Append_, host, bounds
<1>4. CASE CheckStep(p)
  <2>1. PICK o :
          /\ passed' = [passed EXCEPT ![p] = @ /\ o = "true"]
          /\ \/ Finally(p, "error")
             \/ i' = [i EXCEPT ![p] = @ + 1] /\ UNCHANGED <<pc, exit>>
             \/ Goto(p, "collect") /\ UNCHANGED exit
             \/ Finally(p, IF kind[p] = "traffic" \/ passed'[p] THEN "ok" ELSE "error")
    BY <1>4, CheckMoves
  <2>2. calm' \in [Prog -> BOOLEAN]
    BY <1>4, CheckMoves, Disturbed
  <2>3. passed' \in [Prog -> BOOLEAN] /\ \A q \in Prog \ {p} : passed'[q] = passed[q]
    BY <1>t, <2>1 DEF ControlTypes
  <2>4. UNCHANGED <<host, kind, tracked, bounds>>
    BY <1>4 DEF CheckStep
  <2>5. /\ pc' \in [Prog -> Points] /\ i' \in [Prog -> Nat \ {0}] /\ exit' \in [Prog -> Exits]
        /\ \A q \in Prog \ {p} : pc'[q] = pc[q] /\ i'[q] = i[q] /\ exit'[q] = exit[q]
    <3>1. CASE \/ Finally(p, "error")
               \/ Finally(p, IF kind[p] = "traffic" \/ passed'[p] THEN "ok" ELSE "error")
      BY <1>e, <3>1, FinallyMoves
    <3>2. CASE i' = [i EXCEPT ![p] = @ + 1] /\ UNCHANGED <<pc, exit>>
      BY <1>t, <3>2 DEF ControlTypes
    <3>3. CASE Goto(p, "collect") /\ UNCHANGED exit
      BY <1>t, <1>e, <3>3, GotoMoves DEF ControlTypes
    <3> QED BY <2>1, <3>1, <3>2, <3>3
  <2>6. ControlTypes' /\ Mine(p)
    BY <1>t, <2>3, <2>4, <2>5 DEF ControlTypes, Mine, Same, host
  <2> QED BY <1>t, <2>2, <2>4, <2>6, TypePartsNext DEF host, bounds
<1>5. CASE Collect(p)
  <2>1. ControlTypes' /\ Mine(p)
    BY <1>5, <1>t, <1>e, FinallyMoves DEF Collect, ControlTypes, Mine, Same, host
  <2> QED BY <1>5, <1>t, <2>1, TypePartsNext DEF Collect, host, bounds
<1>8. CASE Stop(p)
  <2>1. /\ server' \in [Prog -> [Servers -> States]]
        /\ \A q \in Prog \ {p} : \A k \in Servers : server'[q][k] = server[q][k]
        /\ pc' \in [Prog -> Points] /\ \A q \in Prog \ {p} : pc'[q] = pc[q]
    <3>1. CASE /\ server' = [server EXCEPT ![p][i[p]] = IF @ \in Alive THEN "terminating" ELSE @]
               /\ pc' = [pc EXCEPT ![p] = "await"]
      <4>1. server' \in [Prog -> [Servers -> States]]
        BY <1>t, <3>1 DEF States, Alive
      <4>2. \A q \in Prog \ {p} : server'[q] = server[q]
        BY <1>t, <3>1
      <4> QED BY <1>t, <1>e, <3>1, <4>1, <4>2 DEF ControlTypes
    <3>2. CASE pc' = [pc EXCEPT ![p] = "ended"] /\ UNCHANGED server
      BY <1>t, <1>e, <3>2 DEF ControlTypes
    <3> QED BY <1>8, <3>1, <3>2 DEF Stop
  <2>2. ControlTypes' /\ Mine(p)
    BY <1>8, <1>t, <2>1 DEF Stop, ControlTypes, Mine, Same
  <2> QED BY <1>8, <1>t, <2>1, <2>2, TypePartsNext DEF Stop, bounds
<1>9. CASE Await(p)
  <2>1. /\ server' \in [Prog -> [Servers -> States]]
        /\ \A q \in Prog \ {p} : \A k \in Servers : server'[q][k] = server[q][k]
    BY <1>9, <1>t DEF Await, States, Alive
  <2>2. ControlTypes' /\ Mine(p)
    BY <1>9, <1>t, <1>e, <2>1 DEF Await, ControlTypes, Mine, Same
  <2> QED BY <1>9, <1>t, <2>1, <2>2, TypePartsNext DEF Await, bounds
<1> QED BY <1>1, <1>2, <1>3, <1>4, <1>5, <1>8, <1>9 DEF Step

\* The same of those who start, interrupt or kill a program.
LEMMA OperatorTypes ==
  ASSUME TypeOK, NEW p \in Prog, Start(p) \/ Interrupt(p) \/ Kill(p)
  PROVE  TypeOK' /\ Mine(p) /\ UNCHANGED <<fits, whole, server, stray>>
<1>t. /\ fits \in BOOLEAN /\ whole \in BOOLEAN /\ tunnel \in {"none", "partial", "up"}
      /\ server \in [Prog -> [Servers -> States]] /\ stray \subseteq Prog \X Servers
      /\ ControlTypes
      /\ calm \in [Prog -> BOOLEAN]
      /\ changes \in 0..MaxChanges /\ faults \in 0..MaxFaults
  BY TypeParts
<1>1. CASE Start(p)
  <2>1. PICK k \in Kinds :
          /\ kind' = [kind EXCEPT ![p] = k]
          /\ Goto(p, CASE k = "traffic" -> "spawn" [] k = "vpn" -> "deploy"
                       [] k = "verify" -> "check")
    BY <1>1 DEF Start
  <2>2. \E l \in {"spawn", "deploy", "check"} : Goto(p, l)
    BY <2>1 DEF Kinds
  <2>3. /\ pc' \in [Prog -> Points] /\ i' \in [Prog -> Nat \ {0}]
        /\ \A q \in Prog \ {p} : pc'[q] = pc[q] /\ i'[q] = i[q]
    BY <2>2, GotoMoves DEF Points, Body
  <2>4. UNCHANGED <<host, tracked, passed, exit, bounds>>
    BY <1>1 DEF Start
  <2>5. calm' \in [Prog -> BOOLEAN]
    BY <1>1, <1>t DEF Start, Running
  <2>6. ControlTypes' /\ Mine(p)
    BY <1>t, <2>1, <2>3, <2>4 DEF ControlTypes, Mine, Same, host
  <2> QED BY <1>t, <2>4, <2>5, <2>6, TypePartsNext DEF host, bounds
<1>2. CASE Interrupt(p) \/ Kill(p)
  <2>1. /\ UNCHANGED <<fits, whole, server, stray, kind, tracked, passed, changes>>
        /\ Fault({p}) /\ DeployCutShort(p)
        /\ Finally(p, "interrupted") \/ Exit(p, "cut")
    BY <1>2 DEF Interrupt, Kill
  <2>2. /\ pc' \in [Prog -> Points] /\ i' \in [Prog -> Nat \ {0}] /\ exit' \in [Prog -> Exits]
        /\ \A q \in Prog \ {p} : pc'[q] = pc[q] /\ i'[q] = i[q] /\ exit'[q] = exit[q]
    BY <1>t, <2>1, FinallyMoves, ExitMoves DEF Exits, ControlTypes
  <2>3. ControlTypes' /\ Mine(p)
    BY <1>t, <2>1, <2>2 DEF ControlTypes, Mine, Same, host
  <2>4. calm' \in [Prog -> BOOLEAN] /\ faults' \in 0..MaxFaults
    BY <1>t, <2>1, Disturbed, TheConstants DEF Fault
  <2>5. tunnel' \in {"none", "partial", "up"}
    BY <1>t, <2>1 DEF DeployCutShort
  <2> QED BY <1>t, <2>1, <2>3, <2>4, <2>5, TypePartsNext
<1> QED BY <1>1, <1>2

\* A server goes its own way.
LEMMA ServerTypes ==
  ASSUME TypeOK, NEW p \in Prog, NEW k \in Servers,
         Bind(p, k) \/ ServerExits(p, k) \/ ServerDies(p, k)
  PROVE  /\ TypeOK' /\ UNCHANGED <<control, fits, whole, tunnel, stray>>
         /\ \A q \in Prog, n \in Servers :
              \/ server'[q][n] = server[q][n]
              \/ /\ q = p /\ n = k
                 /\ \/ server[q][n] = "starting" /\ server'[q][n] \in {"up", "gone"}
                    \/ server[q][n] \in Leaving \union {"up"} /\ server'[q][n] = "gone"
<1>t. /\ fits \in BOOLEAN /\ whole \in BOOLEAN /\ tunnel \in {"none", "partial", "up"}
      /\ server \in [Prog -> [Servers -> States]] /\ stray \subseteq Prog \X Servers
      /\ ControlTypes
      /\ calm \in [Prog -> BOOLEAN]
      /\ changes \in 0..MaxChanges /\ faults \in 0..MaxFaults
  BY TypeParts
<1>1. /\ UNCHANGED <<control, fits, whole, tunnel, stray, changes>>
      /\ \E s \in {"up", "gone"} :
           /\ server' = [server EXCEPT ![p][k] = s]
           /\ \/ server[p][k] = "starting"
              \/ server[p][k] \in Leaving \union {"up"} /\ s = "gone"
  <2>1. CASE Bind(p, k)
    <3>1. \E s \in {"up", "gone"} : server' = [server EXCEPT ![p][k] = s]
      BY <2>1 DEF Bind
    <3> QED BY <2>1, <3>1 DEF Bind, bounds
  <2>2. CASE ServerExits(p, k)
    BY <2>2 DEF ServerExits, bounds, Leaving
  <2>3. CASE ServerDies(p, k)
    BY <2>3 DEF ServerDies
  <2> QED BY <2>1, <2>2, <2>3
<1>2. PICK s \in {"up", "gone"} :
        /\ server' = [server EXCEPT ![p][k] = s]
        /\ \/ server[p][k] = "starting"
           \/ server[p][k] \in Leaving \union {"up"} /\ s = "gone"
  BY <1>1
<1>3. /\ server' \in [Prog -> [Servers -> States]]
      /\ \A q \in Prog, n \in Servers :
           server'[q][n] = IF q = p /\ n = k THEN s ELSE server[q][n]
  BY <1>2, ServerSet DEF States, Alive
<1>4. calm' \in [Prog -> BOOLEAN] /\ faults' \in 0..MaxFaults
  <2>1. CASE ServerDies(p, k)
    BY <1>t, <2>1, Disturbed, TheConstants DEF ServerDies, Fault
  <2>2. CASE Bind(p, k) \/ ServerExits(p, k)
    BY <1>t, <2>2 DEF Bind, ServerExits, bounds
  <2> QED BY <2>1, <2>2
<1>5. ControlTypes'
  BY <1>1, <1>t DEF control, ControlTypes
<1>6. TypeOK'
  BY <1>1, <1>3, <1>4, <1>5, <1>t, TypePartsNext
<1> QED BY <1>1, <1>2, <1>3, <1>6

LEMMA ChangeTypes ==
  ASSUME TypeOK, Change
  PROVE  TypeOK' /\ UNCHANGED <<server, control>>
<1>t. /\ fits \in BOOLEAN /\ whole \in BOOLEAN /\ tunnel \in {"none", "partial", "up"}
      /\ server \in [Prog -> [Servers -> States]] /\ stray \subseteq Prog \X Servers
      /\ ControlTypes
      /\ calm \in [Prog -> BOOLEAN]
      /\ changes \in 0..MaxChanges /\ faults \in 0..MaxFaults
  BY TypeParts
<1>1. /\ UNCHANGED <<fits, server, control, faults>> /\ whole' = ~whole
      /\ tunnel' = "none" /\ changes' = changes + 1 /\ changes < MaxChanges
      /\ Disturb({p \in Prog : Running(p)})
  BY DEF Change
<1>2. stray' \subseteq Prog \X Servers
  BY <1>t DEF Change
<1>3. ControlTypes'
  BY <1>1, <1>t DEF control, ControlTypes
<1> QED BY <1>1, <1>2, <1>3, <1>t, Disturbed, TypePartsNext, TheConstants

LEMMA TypeInit == Init => TypeOK
<1> SUFFICES ASSUME Init PROVE TypeOK
  OBVIOUS
<1>2. ControlTypes
  BY DEF Init, ControlTypes, Points, Exits
<1>3. server \in [Prog -> [Servers -> States]]
  BY DEF Init, States
<1>4. calm \in [Prog -> BOOLEAN] /\ stray \subseteq Prog \X Servers
  BY DEF Init
<1>5. changes \in 0..MaxChanges /\ faults \in 0..MaxFaults
  BY TheConstants DEF Init
<1>6. fits \in BOOLEAN /\ whole \in BOOLEAN /\ tunnel \in {"none", "partial", "up"}
  BY DEF Init
<1> QED BY <1>2, <1>3, <1>4, <1>5, <1>6, TypeParts

LEMMA TypeStep == TypeOK /\ [Next]_vars => TypeOK'
<1> SUFFICES ASSUME TypeOK, [Next]_vars PROVE TypeOK'
  OBVIOUS
<1>1. CASE UNCHANGED vars
  BY <1>1, TypeParts, TypePartsNext DEF vars, host, control, bounds, ControlTypes
<1> QED BY <1>1, StepTypes, OperatorTypes, ServerTypes, ChangeTypes DEF Next

\* The state of the host and of the programs is what it is
\* meant to be.
THEOREM ProgramTypes == Spec => []TypeOK
BY TypeInit, TypeStep, PTL DEF Spec

-----------------------------------------------------------------------------
(***************************************************************************)
(* NoServerLeft.  What start_all appended are the first servers, and no    *)
(* server was spawned beyond the next; stop_all has dealt with those       *)
(* before i.                                                               *)
(***************************************************************************)
Counted(p) ==
  /\ tracked[p] <= Len(Services)
  /\ pc[p] \in {"new", "deploy"} \/ kind[p] = "verify" => tracked[p] = 0
  /\ pc[p] \in {"spawn", "append"} => i[p] = tracked[p] + 1
  /\ pc[p] = "append" => i[p] <= Len(Services)
  /\ pc[p] = "await" => i[p] <= tracked[p]
  /\ pc[p] \in Body \union {"new"} => exit[p] = "none"
  /\ pc[p] = "collect" => kind[p] = "verify"
  /\ pc[p] = "deploy" => kind[p] = "vpn"
  /\ pc[p] \in {"deploy", "spawn", "append"} \union Stopping => kind[p] \in {"traffic", "vpn"}
  /\ pc[p] = "check" => /\ kind[p] \in Kinds /\ i[p] <= Len(Sequence(kind[p]))
                        /\ kind[p] # "verify" => tracked[p] = Len(Services)

Spawned(p, k) ==
  /\ k > tracked[p] + 1 => server[p][k] = "none"
  /\ k = tracked[p] + 1 => \/ server[p][k] = "none" \/ pc[p] = "append"
                           \/ exit[p] \in {"interrupted", "cut"}
  /\ pc[p] \in Stopping /\ k < i[p] => server[p][k] \notin Alive
  /\ pc[p] = "ended" /\ exit[p] # "cut" /\ k <= tracked[p] => server[p][k] \notin Alive

Tracking == \A p \in Prog : Counted(p) /\ \A k \in Servers : Spawned(p, k)

LEMMA CountedStep ==
  ASSUME TypeOK, NEW p \in Prog, Step(p), Counted(p)
  PROVE  Counted(p)'
<1>t. /\ ControlTypes /\ Len(Services) \in Nat
      /\ i[p] \in Nat \ {0} /\ tracked[p] \in Nat /\ pc[p] \in Points
      /\ kind[p] \in Kinds \union {"none"}
  BY TypeParts, TheConstants DEF ControlTypes
<1>e. /\ {"error", "ok"} \subseteq Exits
      /\ {"spawn", "append", "check", "collect", "stop", "await", "ended"}
           \subseteq Points
  BY DEF Exits, Points, Body, Stopping
\* Leaving the body for stop_all() or the end.
<1>f. ASSUME NEW how \in Exits, Finally(p, how), UNCHANGED <<kind, tracked>>
      PROVE  Counted(p)'
  <2>1. /\ kind'[p] = kind[p] /\ tracked'[p] = tracked[p]
        /\ pc'[p] = "ended" \/ (pc'[p] = "stop" /\ kind[p] \in {"traffic", "vpn"})
    BY <1>f, FinallyMoves
  <2> QED BY <2>1 DEF Counted, Body, Stopping
<1>1. CASE Deploy(p)
  <2>1. UNCHANGED <<kind, tracked>> /\ pc[p] = "deploy"
    BY <1>1 DEF Deploy
  <2>2. CASE Goto(p, "spawn") /\ UNCHANGED exit
    BY <1>e, <2>1, <2>2, GotoMoves DEF Counted, Body, Stopping
  <2> QED BY <1>1, <1>e, <1>f, <2>1, <2>2 DEF Deploy
<1>2. CASE Spawn(p)
  <2>1. UNCHANGED <<kind, tracked, exit>> /\ pc[p] = "spawn" /\ i[p] = tracked[p] + 1
    BY <1>2 DEF Spawn, Counted
  <2>2. CASE i[p] <= Len(Services) /\ pc' = [pc EXCEPT ![p] = "append"] /\ UNCHANGED i
    <3>1. pc'[p] = "append"
      BY <1>t, <2>2 DEF ControlTypes
    <3> QED BY <2>1, <2>2, <3>1 DEF Counted, Body, Stopping
  <2>3. CASE ~(i[p] <= Len(Services)) /\ Goto(p, "check")
    <3>1. pc'[p] = "check" /\ i'[p] = 1
      BY <1>e, <2>3, GotoMoves
    <3>2. tracked[p] = Len(Services) /\ kind[p] \in Kinds
      BY <1>t, <2>1, <2>3 DEF Counted, Stopping, Kinds
    <3>3. 1 <= Len(Sequence(kind[p]))
      BY <3>2, SequenceFacts
    <3> QED BY <2>1, <3>1, <3>2, <3>3 DEF Counted, Body, Stopping
  <2> QED BY <1>2, <2>2, <2>3 DEF Spawn
<1>3. CASE Append_(p)
  <2>1. /\ UNCHANGED <<kind, exit>> /\ pc[p] = "append" /\ pc'[p] = "spawn"
        /\ i'[p] = i[p] + 1 /\ tracked'[p] = tracked[p] + 1
    BY <1>3, <1>t DEF Append_, ControlTypes
  <2> QED BY <1>t, <2>1 DEF Counted, Body, Stopping
<1>4. CASE CheckStep(p)
  <2>1. PICK o :
           \/ Finally(p, "error")
           \/ /\ i[p] < Len(Sequence(kind[p]))
              /\ i' = [i EXCEPT ![p] = @ + 1] /\ UNCHANGED <<pc, exit>>
           \/ kind[p] = "verify" /\ Goto(p, "collect") /\ UNCHANGED exit
           \/ Finally(p, IF kind[p] = "traffic" \/ passed'[p] THEN "ok" ELSE "error")
    BY <1>4, CheckMoves
  <2>2. UNCHANGED <<kind, tracked>> /\ pc[p] = "check"
    BY <1>4 DEF CheckStep
  <2>3. CASE i[p] < Len(Sequence(kind[p])) /\ i' = [i EXCEPT ![p] = @ + 1] /\ UNCHANGED <<pc, exit>>
    <3>1. i'[p] = i[p] + 1 /\ Len(Sequence(kind[p])) \in Nat
      BY <1>t, <2>2, <2>3, SequenceFacts DEF ControlTypes, Counted
    <3> QED BY <1>t, <2>2, <2>3, <3>1 DEF Counted
  <2>4. CASE kind[p] = "verify" /\ Goto(p, "collect") /\ UNCHANGED exit
    BY <1>e, <2>2, <2>4, GotoMoves DEF Counted, Body, Stopping
  <2> QED BY <1>e, <1>f, <2>1, <2>2, <2>3, <2>4
<1>5. CASE Collect(p)
  BY <1>5, <1>e, <1>f DEF Collect
<1>7. CASE Stop(p) \/ Await(p)
  <2>1. /\ UNCHANGED <<kind, tracked, exit>> /\ pc[p] \in Stopping
        /\ \/ pc'[p] \in {"stop", "ended"}
           \/ pc'[p] = "await" /\ i[p] <= tracked[p] /\ i' = i
    BY <1>7, <1>t DEF Stop, Await, ControlTypes, Stopping
  <2> QED BY <2>1 DEF Counted, Body, Stopping
<1> QED BY <1>1, <1>2, <1>3, <1>4, <1>5, <1>7 DEF Step

LEMMA SpawnedStep ==
  ASSUME TypeOK, NEW p \in Prog, Step(p), Counted(p), NEW k \in Servers, Spawned(p, k)
  PROVE  Spawned(p, k)'
<1>t. /\ ControlTypes /\ Len(Services) \in Nat /\ k \in 1..Len(Services)
      /\ server \in [Prog -> [Servers -> States]]
      /\ i[p] \in Nat \ {0} /\ tracked[p] \in Nat /\ pc[p] \in Points
  BY TypeParts, TheConstants DEF ControlTypes, Servers
<1>e. /\ {"error", "ok"} \subseteq Exits
      /\ {"spawn", "append", "check", "collect", "stop", "await", "ended"}
           \subseteq Points
  BY DEF Exits, Points, Body, Stopping
\* Leaving the body, where exit is "none" and the rest is not spawned.
<1>f. ASSUME NEW how \in Exits, Finally(p, how), UNCHANGED <<server, tracked>>,
             pc[p] \in Body, pc[p] # "append"
      PROVE  Spawned(p, k)'
  <2>1. exit[p] = "none"
    BY <1>f DEF Counted
  <2>2. \/ pc'[p] = "stop" /\ i'[p] = 1
        \/ pc'[p] = "ended" /\ tracked[p] = 0
    <3>1. kind[p] \notin {"traffic", "vpn"} => tracked[p] = 0
      BY <1>f DEF Counted, Body, Kinds
    <3> QED BY <1>f, <3>1, FinallyMoves DEF Counted
  <2> QED BY <1>f, <1>t, <2>1, <2>2 DEF Spawned, Stopping
<1>1. CASE Deploy(p)
  <2>1. UNCHANGED <<server, tracked>> /\ pc[p] = "deploy"
    BY <1>1 DEF Deploy
  <2>2. CASE Goto(p, "spawn") /\ UNCHANGED exit
    <3>1. pc'[p] = "spawn"
      BY <1>e, <2>2, GotoMoves
    <3> QED BY <2>1, <2>2, <3>1 DEF Spawned, Stopping
  <2> QED BY <1>1, <1>e, <1>f, <2>1, <2>2 DEF Deploy, Body
<1>2. CASE Spawn(p)
  <2>1. UNCHANGED <<tracked, exit>> /\ pc[p] = "spawn" /\ i[p] = tracked[p] + 1
    BY <1>2 DEF Spawn, Counted
  <2>2. CASE /\ server' = [server EXCEPT ![p][i[p]] = "starting"]
             /\ pc' = [pc EXCEPT ![p] = "append"]
    <3>1. pc'[p] = "append" /\ server'[p][k] = IF k = i[p] THEN "starting" ELSE server[p][k]
      BY <1>t, <2>2, ServerSet DEF ControlTypes, States, Alive
    <3> QED BY <1>t, <2>1, <3>1 DEF Spawned, Stopping
  <2>3. CASE Goto(p, "check") /\ UNCHANGED server
    <3>1. pc'[p] = "check"
      BY <1>e, <2>3, GotoMoves
    <3> QED BY <2>1, <2>3, <3>1 DEF Spawned, Stopping
  <2> QED BY <1>2, <2>2, <2>3 DEF Spawn
<1>3. CASE Append_(p)
  <2>1. /\ UNCHANGED <<server, exit>> /\ pc[p] = "append" /\ pc'[p] = "spawn"
        /\ tracked'[p] = tracked[p] + 1
    BY <1>3, <1>t DEF Append_, ControlTypes, host
  <2> QED BY <1>t, <2>1 DEF Spawned, Stopping
<1>4. CASE CheckStep(p)
  <2>1. PICK o :
           \/ Finally(p, "error")
           \/ UNCHANGED <<pc, exit>>
           \/ Goto(p, "collect") /\ UNCHANGED exit
           \/ Finally(p, IF kind[p] = "traffic" \/ passed'[p] THEN "ok" ELSE "error")
    BY <1>4, CheckMoves
  <2>2. UNCHANGED <<server, tracked>> /\ pc[p] = "check"
    BY <1>4 DEF CheckStep, host
  <2>3. CASE UNCHANGED <<pc, exit>>
    BY <2>2, <2>3 DEF Spawned, Stopping
  <2>4. CASE Goto(p, "collect") /\ UNCHANGED exit
    <3>1. pc'[p] = "collect"
      BY <1>e, <2>4, GotoMoves
    <3> QED BY <2>2, <2>4, <3>1 DEF Spawned, Stopping
  <2> QED BY <1>e, <1>f, <2>1, <2>2, <2>3, <2>4 DEF Body
<1>5. CASE Collect(p)
  BY <1>5, <1>e, <1>f DEF Collect, host, Body
<1>7. CASE Stop(p)
  <2>1. UNCHANGED <<tracked, exit, i>> /\ pc[p] = "stop"
    BY <1>7 DEF Stop
  <2>2. CASE /\ i[p] <= tracked[p]
             /\ server' = [server EXCEPT ![p][i[p]] = IF @ \in Alive THEN "terminating" ELSE @]
             /\ pc' = [pc EXCEPT ![p] = "await"]
    <3>1. i[p] \in Servers
      BY <1>t, <2>2 DEF Counted, Servers
    <3>2. /\ pc'[p] = "await"
          /\ k # i[p] => server'[p][k] = server[p][k]
      BY <1>t, <2>2, <3>1 DEF ControlTypes
    <3> QED BY <1>t, <2>1, <2>2, <3>2 DEF Spawned, Stopping
  <2>3. CASE ~(i[p] <= tracked[p]) /\ pc' = [pc EXCEPT ![p] = "ended"] /\ UNCHANGED server
    <3>1. pc'[p] = "ended" /\ tracked[p] < i[p]
      BY <1>t, <2>3 DEF ControlTypes
    <3> QED BY <1>t, <2>1, <2>3, <3>1 DEF Spawned, Stopping
  <2> QED BY <1>7, <2>2, <2>3 DEF Stop
<1>8. CASE Await(p)
  <2>1. /\ UNCHANGED <<tracked, exit>> /\ pc[p] = "await" /\ pc'[p] = "stop"
        /\ i'[p] = i[p] + 1
        /\ server' = [server EXCEPT ![p][i[p]] = IF @ = "gone" THEN @ ELSE "killed"]
    BY <1>8, <1>t DEF Await, ControlTypes
  <2>2. CASE k = i[p]
    <3>1. server'[p][k] \in {"gone", "killed"}
      BY <1>t, <2>1, <2>2
    <3>2. i[p] <= tracked[p]
      BY <2>1 DEF Counted
    <3> QED BY <1>t, <2>1, <2>2, <3>1, <3>2 DEF Spawned, Stopping, Alive
  <2>3. CASE k # i[p]
    <3>1. server'[p][k] = server[p][k]
      BY <1>t, <2>1, <2>3
    <3> QED BY <1>t, <2>1, <2>3, <3>1 DEF Spawned, Stopping
  <2> QED BY <2>2, <2>3
<1> QED BY <1>1, <1>2, <1>3, <1>4, <1>5, <1>7, <1>8 DEF Step

LEMMA TrackingStep == TypeOK /\ Tracking /\ [Next]_vars => Tracking'
<1> SUFFICES ASSUME TypeOK, Tracking, [Next]_vars,
                    NEW q \in Prog
             PROVE  (Counted(q) /\ \A k \in Servers : Spawned(q, k))'
  BY DEF Tracking
<1>1. Counted(q) /\ \A k \in Servers : Spawned(q, k)
  BY DEF Tracking
<1>2. ASSUME Same(q), \A k \in Servers : server'[q][k] = server[q][k]
      PROVE  (Counted(q) /\ \A k \in Servers : Spawned(q, k))'
  BY <1>1, <1>2 DEF Same, Counted, Spawned
<1>3. ASSUME NEW p \in Prog, Step(p) PROVE (Counted(q) /\ \A k \in Servers : Spawned(q, k))'
  <2>1. CASE q = p
    BY <1>1, <1>3, <2>1, CountedStep, SpawnedStep
  <2>2. CASE q # p
    BY <1>2, <1>3, <2>2, StepTypes DEF Mine
  <2> QED BY <2>1, <2>2
<1>t. /\ ControlTypes /\ tracked[q] \in Nat /\ i[q] \in Nat \ {0} /\ Len(Services) \in Nat
      /\ \A k \in Servers : k \in Nat
  BY TypeParts, TheConstants DEF ControlTypes, Servers
<1>4. ASSUME NEW p \in Prog, Start(p) PROVE (Counted(q) /\ \A k \in Servers : Spawned(q, k))'
  <2>1. CASE q # p
    BY <1>2, <1>4, <2>1, OperatorTypes DEF Mine
  <2>2. CASE q = p
    <3>1. PICK k \in Kinds :
            /\ kind' = [kind EXCEPT ![p] = k]
            /\ Goto(p, CASE k = "traffic" -> "spawn" [] k = "vpn" -> "deploy"
                         [] k = "verify" -> "check")
      BY <1>4 DEF Start
    <3>2. /\ kind'[q] = k /\ UNCHANGED <<server, tracked, exit>> /\ pc[q] = "new"
      BY <1>4, <1>t, <2>2, <3>1 DEF Start, host, ControlTypes
    <3>3. /\ i'[q] = 1
          /\ \/ k = "traffic" /\ pc'[q] = "spawn"
             \/ k = "vpn" /\ pc'[q] = "deploy"
             \/ k = "verify" /\ pc'[q] = "check"
      BY <2>2, <3>1, GotoMoves DEF Kinds, Points, Body
    <3>4. tracked[q] = 0 /\ exit[q] = "none"
      BY <1>1, <3>2 DEF Counted
    <3>5. Counted(q)'
      <4>1. 1 <= Len(Sequence(k))
        BY SequenceFacts
      <4> QED BY <1>t, <3>2, <3>3, <3>4, <4>1 DEF Counted, Body, Stopping, Kinds
    <3>6. \A n \in Servers : Spawned(q, n)'
      BY <1>1, <1>t, <3>2, <3>3, <3>4 DEF Spawned, Stopping
    <3> QED BY <3>5, <3>6
  <2> QED BY <2>1, <2>2
<1>5. ASSUME NEW p \in Prog, Interrupt(p) \/ Kill(p)
      PROVE  (Counted(q) /\ \A k \in Servers : Spawned(q, k))'
  <2>1. CASE q # p
    BY <1>2, <1>5, <2>1, OperatorTypes DEF Mine
  <2>2. CASE q = p
    <3>1. /\ kind' = kind /\ tracked' = tracked /\ server' = server
          /\ \/ pc[q] \in Body /\ Finally(q, "interrupted")
             \/ Exit(q, "cut")
      BY <1>5, <2>2 DEF Interrupt, Kill, host
    <3>2. CASE Exit(q, "cut")
      <4>1. pc'[q] = "ended" /\ exit'[q] = "cut" /\ i' = i
        BY <3>2, ExitMoves DEF Exits
      <4>2. Counted(q)'
        BY <1>1, <3>1, <4>1 DEF Counted, Body, Stopping
      <4>3. ASSUME NEW n \in Servers PROVE Spawned(q, n)'
        <5>1. Spawned(q, n)
          BY <1>1
        <5> QED BY <3>1, <4>1, <5>1 DEF Spawned, Stopping
      <4> QED BY <4>2, <4>3
    <3>3. CASE pc[q] \in Body /\ Finally(q, "interrupted")
      <4>1. /\ exit'[q] = "interrupted"
            /\ \/ kind[q] \in {"traffic", "vpn"} /\ pc'[q] = "stop" /\ i'[q] = 1
               \/ pc'[q] = "ended" /\ tracked[q] = 0
        <5>1. kind[q] \notin {"traffic", "vpn"} => tracked[q] = 0
          BY <1>1, <3>3 DEF Counted, Body, Kinds
        <5> QED BY <1>1, <3>3, <5>1, FinallyMoves DEF Counted, Exits
      <4>2. Counted(q)'
        BY <1>1, <3>1, <4>1 DEF Counted, Body, Stopping
      <4>3. \A n \in Servers : Spawned(q, n)'
        BY <1>1, <1>t, <3>1, <4>1 DEF Spawned, Stopping, Servers
      <4> QED BY <4>2, <4>3
    <3> QED BY <3>1, <3>2, <3>3
  <2> QED BY <2>1, <2>2
<1>6. ASSUME NEW p \in Prog, NEW k \in Servers,
             Bind(p, k) \/ ServerExits(p, k) \/ ServerDies(p, k)
      PROVE  (Counted(q) /\ \A n \in Servers : Spawned(q, n))'
  <2>1. UNCHANGED control
    BY <1>6, ServerTypes
  <2>2. Counted(q)'
    BY <1>1, <2>1 DEF Counted, control
  <2>3. \A n \in Servers :
          /\ server[q][n] = "none" => server'[q][n] = "none"
          /\ server[q][n] \notin Alive => server'[q][n] \notin Alive
    BY <1>6, ServerTypes DEF Alive, Leaving
  <2>4. ASSUME NEW n \in Servers PROVE Spawned(q, n)'
    <3>1. Spawned(q, n)
      BY <1>1
    <3>2. UNCHANGED <<pc, i, tracked, exit>>
      BY <2>1 DEF control
    <3> QED BY <2>3, <3>1, <3>2 DEF Spawned
  <2> QED BY <2>2, <2>4
<1>7. CASE Change
  BY <1>1, <1>7, ChangeTypes DEF Counted, Spawned, control
<1>8. CASE UNCHANGED vars
  BY <1>1, <1>8 DEF vars, host, control, Counted, Spawned
<1> QED BY <1>3, <1>4, <1>5, <1>6, <1>7, <1>8 DEF Next

LEMMA TrackingInit == Init => Tracking
<1> SUFFICES ASSUME Init PROVE Tracking
  OBVIOUS
<1>1. \A p \in Prog :
        /\ pc[p] = "new" /\ tracked[p] = 0 /\ exit[p] = "none" /\ kind[p] = "none"
        /\ \A k \in Servers : server[p][k] = "none"
  BY DEF Init
<1>2. ASSUME NEW p \in Prog PROVE Counted(p)
  BY <1>1, TheConstants DEF Counted, Body, Stopping
<1>3. ASSUME NEW p \in Prog, NEW k \in Servers PROVE Spawned(p, k)
  BY <1>1 DEF Spawned, Stopping
<1> QED BY <1>2, <1>3 DEF Tracking

\* ServiceOrchestrator.stop_all, in the finally clause of the demos, leaves no
\* server behind, whoever destroyed the laboratory, took its ports or failed
\* beside the program; only an interrupt between Popen and append hides one.
THEOREM EveryServerIsStopped == Spec => []NoServerLeft
<1>1. TypeOK /\ Tracking => NoServerLeft
  <2> SUFFICES ASSUME TypeOK, Tracking, NEW p \in Prog, NEW k \in Servers,
                      pc[p] = "ended", exit[p] # "cut", server[p][k] \in Alive
               PROVE  exit[p] = "interrupted" /\ k = tracked[p] + 1
    BY DEF NoServerLeft
  <2>1. Spawned(p, k) /\ tracked[p] \in Nat /\ k \in Nat
    BY TypeParts, TheConstants DEF Tracking, ControlTypes, Servers
  <2>2. server[p][k] # "none"
    BY DEF Alive
  <2> QED BY <2>1, <2>2 DEF Spawned
<1> QED BY <1>1, TypeInit, TypeStep, TrackingInit, TrackingStep, PTL DEF Spec

-----------------------------------------------------------------------------
(***************************************************************************)
(* UndisturbedDemoPasses.  While nothing disturbs a demo that started      *)
(* calm, it has the laboratory, the ports and the tunnel to itself; so     *)
(* none of its servers fails, and no check finds a reason to.              *)
(***************************************************************************)
Demo(p) == kind[p] \in {"traffic", "vpn"}

\* The servers p has started.
Own(p, k) == k <= tracked[p] \/ (pc[p] = "append" /\ k = i[p])

Undisturbed(p) ==
  /\ whole /\ passed[p]
  /\ \A q \in Prog \ {p} : ~Running(q) /\ \A k \in Servers : server[q][k] \in {"none", "gone"}
  /\ \A k \in Servers : <<p, k>> \notin stray
  /\ pc[p] \in Body => \A k \in Servers : Own(p, k) => server[p][k] \in {"starting", "up"}
  /\ pc[p] \in Stopping => exit[p] = "ok"
  /\ kind[p] = "vpn" => fits /\ tunnel = (IF pc[p] = "deploy" THEN "none" ELSE "up")

Passing(p) ==
  /\ Running(p) => Undisturbed(p)
  /\ pc[p] = "ended" => passed[p] /\ exit[p] = "ok"

\* Only a server that was spawned can have been in a namespace.
StraysSpawned ==
  \A p \in Prog, k \in Servers : <<p, k>> \in stray => server[p][k] # "none"

Fresh == \A p \in Prog : pc[p] = "new" => passed[p] /\ \A k \in Servers : server[p][k] = "none"

Untroubled ==
  /\ StraysSpawned /\ Fresh
  /\ \A p \in Prog : Demo(p) /\ calm[p] => Passing(p)

\* A demo that starts calm.
LEMMA StartsCalm ==
  ASSUME TypeOK, Tracking, StraysSpawned, Fresh, NEW p \in Prog, Start(p), Demo(p)', calm'[p]
  PROVE  Passing(p)'
<1>t. ControlTypes /\ calm \in [Prog -> BOOLEAN] /\ server \in [Prog -> [Servers -> States]]
  BY TypeParts
<1>1. PICK k \in Kinds :
        /\ kind' = [kind EXCEPT ![p] = k]
        /\ Goto(p, CASE k = "traffic" -> "spawn" [] k = "vpn" -> "deploy"
                     [] k = "verify" -> "check")
        /\ calm' = [q \in Prog |->
                      IF q # p THEN calm[q] /\ ~Running(q)
                      ELSE /\ whole
                           /\ ~\E r \in Prog : Running(r)
                           /\ k # "vpn" \/ (fits /\ tunnel = "none")
                           /\ \A r \in Prog : \A n \in Servers :
                                server[r][n] \in {"none", "gone"}]
  BY DEF Start
<1>2. /\ whole /\ ~\E r \in Prog : Running(r)
      /\ k # "vpn" \/ (fits /\ tunnel = "none")
      /\ \A r \in Prog : \A n \in Servers : server[r][n] \in {"none", "gone"}
  BY <1>1
<1>3. /\ kind'[p] = k /\ k \in {"traffic", "vpn"}
      /\ pc'[p] = (IF k = "vpn" THEN "deploy" ELSE "spawn")
  <2>1. kind'[p] = k
    BY <1>t, <1>1 DEF ControlTypes
  <2>2. k \in {"traffic", "vpn"}
    BY <2>1 DEF Demo
  <2>3. Goto(p, IF k = "vpn" THEN "deploy" ELSE "spawn")
    BY <1>1, <2>2
  <2> QED BY <2>1, <2>2, <2>3, GotoMoves DEF Points, Body
<1>4. /\ pc[p] = "new" /\ UNCHANGED <<fits, whole, tunnel, server, stray, tracked, passed, exit>>
  BY DEF Start, host
<1>5. passed[p] /\ tracked[p] = 0 /\ \A n \in Servers : <<p, n>> \notin stray
  BY <1>4 DEF Fresh, Tracking, Counted, StraysSpawned
<1>6. \A q \in Prog \ {p} : ~Running(q)'
  BY <1>2, OperatorTypes DEF Mine, Same, Running
<1>7. \A n \in Servers : ~Own(p, n)'
  BY <1>3, <1>4, <1>5 DEF Own, Servers
<1> QED BY <1>2, <1>3, <1>4, <1>5, <1>6, <1>7 DEF Passing, Undisturbed, Body, Stopping

\* An undisturbed demo's checks are all passed.
LEMMA NothingFails ==
  ASSUME TypeOK, Tracking, NEW p \in Prog, Demo(p), Undisturbed(p), pc[p] = "check",
         ~TooEarly(p, Sequence(kind[p])[i[p]])
  PROVE  \A o \in Outcomes(kind[p], Sequence(kind[p])[i[p]]) :
           o = "true" \/ Misread(Sequence(kind[p])[i[p]], o)
<1> DEFINE c == Sequence(kind[p])[i[p]]
<1>t. /\ ControlTypes /\ i[p] \in Nat \ {0} /\ kind[p] \in {"traffic", "vpn"}
      /\ server \in [Prog -> [Servers -> States]] /\ Counted(p)
  BY TypeParts DEF ControlTypes, Demo, Tracking
<1>1. /\ i[p] \in 1..Len(Sequence(kind[p])) /\ kind[p] \in Kinds
      /\ tracked[p] = Len(Services)
  <2>1. kind[p] \in Kinds /\ i[p] <= Len(Sequence(kind[p])) /\ tracked[p] = Len(Services)
    BY <1>t DEF Counted
  <2> QED BY <1>t, <2>1, SequenceFacts
<1>2. \/ c.of = "service" /\ c.service \in Servers
      \/ c.of = "icmp"
      \/ /\ c.of \in {"namespaces", "links", "rp_filter", "nat", "handshake"}
         /\ kind[p] = "vpn"
  <2>1. kind[p] # "verify"
    BY <1>t
  <2> QED BY <1>1, <2>1, SequenceFacts
<1>3. CASE c.of = "icmp"
  BY <1>3 DEF Outcomes, Pinged, Undisturbed
<1>4. CASE c.of \in {"namespaces", "links", "rp_filter", "nat", "handshake"} /\ kind[p] = "vpn"
  BY <1>4 DEF Outcomes, Undisturbed, Tunnelled, Misread, Body
<1>5. CASE c.of = "service" /\ c.service \in Servers
  <2>1. server[p][c.service] = "up"
    <3>1. Own(p, c.service)
      BY <1>1, <1>5, TheConstants DEF Own, Servers
    <3> QED BY <1>5, <3>1 DEF Undisturbed, Body, TooEarly
  <2>2. Answers(c.service)
    BY <1>5, <2>1 DEF Answers, SomeIn, Undisturbed
  <2>3. ~SomeIn(c.service, Leaving)
    BY <1>5, <2>1 DEF SomeIn, Undisturbed, Leaving
  <2> QED BY <1>5, <2>2, <2>3 DEF Outcomes, Replied
<1> QED BY <1>2, <1>3, <1>4, <1>5

\* An undisturbed demo goes on undisturbed, or passes.
LEMMA GoesOnUndisturbed ==
  ASSUME TypeOK, Tracking, NEW p \in Prog, Demo(p), Passing(p), Step(p), calm'[p]
  PROVE  Passing(p)'
<1>t. /\ ControlTypes /\ server \in [Prog -> [Servers -> States]]
      /\ i[p] \in Nat \ {0} /\ tracked[p] \in Nat /\ Len(Services) \in Nat
      /\ pc[p] \in Points /\ kind[p] \in {"traffic", "vpn"}
      /\ \A k \in Servers : k \in Nat
  BY TypeParts, TheConstants DEF ControlTypes, Demo, Servers
<1>c. Counted(p) /\ \A k \in Servers : Spawned(p, k)
  BY DEF Tracking
<1>e. /\ {"error", "ok"} \subseteq Exits
      /\ {"spawn", "append", "check", "collect", "stop", "await", "ended"}
           \subseteq Points
  BY DEF Exits, Points, Body, Stopping
<1>1. Running(p) /\ Undisturbed(p)
  BY DEF Step, Passing, Deploy, Spawn, Append_, CheckStep, Collect,
     Stop, Await, Running, Body, Stopping
<1>2. \A q \in Prog \ {p} :
        ~Running(q)' /\ \A k \in Servers : server'[q][k] \in {"none", "gone"}
  BY <1>1, StepTypes DEF Mine, Same, Running, Undisturbed
<1>3. ASSUME UNCHANGED <<fits, whole, stray, kind>>, passed'[p],
             pc'[p] \in Points,
             pc'[p] \in Body => \A k \in Servers : Own(p, k)' => server'[p][k] \in {"starting", "up"},
             pc'[p] \in Stopping \union {"ended"} => exit'[p] = "ok",
             kind[p] = "vpn" => tunnel' = (IF pc'[p] = "deploy" THEN "none" ELSE "up")
      PROVE  Passing(p)'
  <2>1. pc'[p] \notin Body /\ pc'[p] \notin Stopping => ~Running(p)'
    BY DEF Running
  <2> QED BY <1>1, <1>2, <1>3, <2>1 DEF Passing, Undisturbed
\* The servers are listening, or on their way to.
<1>4. CASE Deploy(p)
  <2>1. pc[p] = "deploy" /\ kind[p] = "vpn"
    BY <1>4, <1>c DEF Deploy, Counted
  <2>2. /\ tunnel' = "up" /\ Goto(p, "spawn") /\ UNCHANGED exit
        /\ UNCHANGED <<fits, whole, server, stray, kind, tracked, passed>>
    BY <1>1, <1>4, <2>1 DEF Deploy, Undisturbed
  <2>3. pc'[p] = "spawn" /\ i'[p] = 1
    BY <1>e, <2>2, GotoMoves
  <2>4. \A k \in Servers : ~Own(p, k)'
    BY <1>c, <2>1, <2>2, <2>3 DEF Own, Counted, Servers
  <2> QED BY <1>1, <1>3, <1>e, <2>2, <2>3, <2>4 DEF Undisturbed, Stopping
<1>5. CASE Spawn(p)
  <2>1. /\ pc[p] = "spawn" /\ i[p] = tracked[p] + 1
        /\ UNCHANGED <<fits, whole, tunnel, stray, kind, tracked, passed>>
    BY <1>5, <1>c DEF Spawn, Counted
  <2>2. CASE /\ server' = [server EXCEPT ![p][i[p]] = "starting"]
             /\ pc' = [pc EXCEPT ![p] = "append"] /\ UNCHANGED i
    <3>1. pc'[p] = "append"
      BY <1>t, <2>2 DEF ControlTypes
    <3>2. ASSUME NEW k \in Servers, Own(p, k)' PROVE server'[p][k] \in {"starting", "up"}
      <4>1. server'[p][k] = IF k = i[p] THEN "starting" ELSE server[p][k]
        BY <2>2, ServerSet DEF States, Alive
      <4>2. k # i[p] => Own(p, k)
        BY <2>1, <2>2, <3>1, <3>2 DEF Own
      <4> QED BY <1>1, <2>1, <4>1, <4>2 DEF Undisturbed, Body
    <3> QED BY <1>1, <1>3, <1>e, <2>1, <3>1, <3>2 DEF Undisturbed, Stopping
  <2>3. CASE Goto(p, "check") /\ UNCHANGED server
    <3>1. pc'[p] = "check"
      BY <1>e, <2>3, GotoMoves
    <3>2. \A k \in Servers : Own(p, k)' => Own(p, k)
      BY <2>1, <3>1 DEF Own
    <3> QED BY <1>1, <1>3, <1>e, <2>1, <2>3, <3>1, <3>2 DEF Undisturbed, Stopping, Body
  <2> QED BY <1>5, <2>2, <2>3 DEF Spawn
<1>6. CASE Append_(p)
  <2>1. /\ pc[p] = "append" /\ i[p] = tracked[p] + 1 /\ pc'[p] = "spawn"
        /\ tracked'[p] = tracked[p] + 1
        /\ UNCHANGED <<fits, whole, tunnel, stray, server, kind, passed>>
    BY <1>6, <1>t, <1>c DEF Append_, Counted, ControlTypes, host
  <2>2. \A k \in Servers : Own(p, k)' => Own(p, k)
    BY <1>t, <2>1 DEF Own
  <2> QED BY <1>1, <1>3, <1>e, <2>1, <2>2 DEF Undisturbed, Stopping, Body
<1>7. CASE CheckStep(p)
  <2>1. PICK o \in Outcomes(kind[p], Sequence(kind[p])[i[p]]) :
           /\ pc[p] = "check" /\ passed' = [passed EXCEPT ![p] = @ /\ o = "true"]
           /\ Disturb(IF \/ TooEarly(p, Sequence(kind[p])[i[p]])
                         \/ Misread(Sequence(kind[p])[i[p]], o) THEN {p} ELSE {})
           /\ \/ (o = "raises" \/ (o = "false" /\ kind[p] = "vpn")) /\ Finally(p, "error")
              \/ i' = [i EXCEPT ![p] = @ + 1] /\ UNCHANGED <<pc, exit>>
              \/ kind[p] = "verify" /\ Goto(p, "collect") /\ UNCHANGED exit
              \/ Finally(p, IF kind[p] = "traffic" \/ passed'[p] THEN "ok" ELSE "error")
    BY <1>7, CheckMoves
  <2>2. UNCHANGED <<host, kind, tracked>>
    BY <1>7 DEF CheckStep
  <2>3. ~TooEarly(p, Sequence(kind[p])[i[p]]) /\ ~Misread(Sequence(kind[p])[i[p]], o)
    <3>1. SUFFICES ASSUME \/ TooEarly(p, Sequence(kind[p])[i[p]])
                          \/ Misread(Sequence(kind[p])[i[p]], o)
                   PROVE  FALSE
      OBVIOUS
    <3>2. Disturb({p})
      BY <2>1, <3>1
    <3> QED BY <3>2, Disturbed
  <2>4. o = "true"
    BY <1>1, <2>1, <2>3, NothingFails
  <2>5. passed'[p]
    BY <1>1, <1>t, <2>1, <2>4 DEF Undisturbed, ControlTypes
  <2>6. CASE UNCHANGED <<pc, exit>>
    <3>1. \A k \in Servers : Own(p, k)' => Own(p, k)
      BY <2>1, <2>2, <2>6 DEF Own
    <3> QED BY <1>1, <1>3, <1>t, <2>1, <2>2, <2>5, <2>6, <3>1
           DEF Undisturbed, Stopping, Body, host
  <2>7. CASE Finally(p, "ok")
    <3>1. pc'[p] \in {"stop", "ended"} /\ exit'[p] = "ok"
      BY <1>e, <2>7, FinallyMoves
    <3> QED BY <1>1, <1>3, <1>e, <2>1, <2>2, <2>5, <3>1 DEF Undisturbed, Body, host
  <2> QED BY <1>t, <2>1, <2>4, <2>5, <2>6, <2>7
<1>8. CASE Collect(p)
  BY <1>8, <1>t, <1>c DEF Collect, Counted
<1>9. CASE Stop(p) \/ Await(p)
  <2>1. /\ pc[p] \in Stopping /\ pc'[p] \in {"stop", "await", "ended"}
        /\ UNCHANGED <<fits, whole, tunnel, stray, kind, passed, exit>>
    BY <1>9, <1>t DEF Stop, Await, ControlTypes, Stopping
  <2> QED BY <1>1, <1>3, <1>e, <2>1 DEF Undisturbed, Stopping, Body
<1> QED BY <1>4, <1>5, <1>6, <1>7, <1>8, <1>9 DEF Step

\* The servers of an undisturbed demo get the ports they want.
LEMMA ServerUndisturbed ==
  ASSUME TypeOK, Tracking, NEW q \in Prog, Undisturbed(q),
         NEW p \in Prog, NEW k \in Servers, Bind(p, k) \/ ServerExits(p, k)
  PROVE  Undisturbed(q)'
<1>1. /\ UNCHANGED <<control, fits, whole, tunnel, stray>>
      /\ \A r \in Prog, n \in Servers :
           \/ server'[r][n] = server[r][n]
           \/ /\ r = p /\ n = k
              /\ \/ server[r][n] = "starting" /\ server'[r][n] \in {"up", "gone"}
                 \/ server[r][n] \in Leaving \union {"up"} /\ server'[r][n] = "gone"
  BY ServerTypes
<1>2. \A r \in Prog \ {q} :
        ~Running(r)' /\ \A n \in Servers : server'[r][n] \in {"none", "gone"}
  BY <1>1 DEF Undisturbed, Running, control, Leaving
<1>3. ASSUME NEW n \in Servers, pc[q] \in Body, server[q][n] \in {"starting", "up"}
      PROVE  server'[q][n] \in {"starting", "up"}
  <2>1. CASE ServerExits(p, k)
    <3>1. ~(q = p /\ n = k)
      BY <1>3, <2>1 DEF ServerExits
    <3> QED BY <1>1, <1>3, <3>1
  <2>2. CASE Bind(p, k) /\ q = p /\ n = k
    <3>1. server[q][n] = "starting" /\ whole /\ <<q, n>> \notin stray
      BY <2>2 DEF Bind, Undisturbed
    <3>2. ~SomeIn(n, {"up"} \union Leaving)
      BY <3>1 DEF SomeIn, Undisturbed, Leaving
    <3>3. server' = [server EXCEPT ![q][n] = "up"]
      BY <2>2, <3>1, <3>2 DEF Bind
    <3> QED BY <3>3, ServerSet DEF States, Alive
  <2>3. CASE ~(q = p /\ n = k)
    BY <1>1, <1>3, <2>3
  <2> QED BY <2>1, <2>2, <2>3
<1> QED BY <1>1, <1>2, <1>3 DEF Undisturbed, Own, control

LEMMA UntroubledStep ==
  TypeOK /\ TypeOK' /\ Tracking /\ Untroubled /\ [Next]_vars => Untroubled'
<1> SUFFICES ASSUME TypeOK, TypeOK', Tracking, Untroubled, [Next]_vars PROVE Untroubled'
  OBVIOUS
<1>0. StraysSpawned /\ Fresh /\ \A q \in Prog : Demo(q) /\ calm[q] => Passing(q)
  BY DEF Untroubled
<1>t. /\ ControlTypes /\ calm \in [Prog -> BOOLEAN]
      /\ server \in [Prog -> [Servers -> States]]
  BY TypeParts
\* A demo beside which somebody else moves is not running, if it is calm still.
<1>1. ASSUME NEW q \in Prog, Same(q), Demo(q)', calm[q], ~Running(q)
      PROVE  Passing(q)'
  BY <1>0, <1>1 DEF Same, Demo, Passing, Running
<1>2. ASSUME NEW p \in Prog, Step(p) PROVE Untroubled'
  <2>1. /\ Mine(p) /\ UNCHANGED <<stray, kind>> /\ Running(p)
        /\ \A q \in Prog : calm'[q] => calm[q]
    <3>1. /\ UNCHANGED <<stray, kind>> /\ Running(p)
          /\ calm' = calm \/ \E P : Disturb(P)
      BY <1>2 DEF Step, Deploy, Spawn, Append_, CheckStep, Collect,
         Stop, Await, Running, Body, Stopping, host
    <3> QED BY <1>2, <3>1, StepTypes, Disturbed
  <2>2. StraysSpawned'
    <3>1. \A k \in Servers : server[p][k] # "none" => server'[p][k] # "none"
      BY <1>2, <1>t DEF Step, Deploy, Spawn, Append_, CheckStep, Collect,
         Stop, Await, host
    <3>2. \A q \in Prog, k \in Servers : server[q][k] # "none" => server'[q][k] # "none"
      BY <2>1, <3>1 DEF Mine
    <3> QED BY <1>0, <2>1, <3>2 DEF StraysSpawned
  <2>3. Fresh'
    <3>1. pc'[p] # "new"
      <4>1. CASE CheckStep(p)
        <5>1. PICK how \in {"ok", "error"} :
                 Finally(p, how) \/ (UNCHANGED pc /\ pc[p] = "check") \/ Goto(p, "collect")
          BY <4>1, CheckMoves
        <5> QED BY <5>1, FinallyMoves, GotoMoves DEF Exits, Points, Body
      <4>2. CASE Deploy(p) \/ Collect(p)
        BY <4>2, FinallyMoves, GotoMoves DEF Deploy, Collect, Exits, Points, Body
      <4>3. CASE Spawn(p) \/ Append_(p)
        BY <1>t, <4>3, GotoMoves
           DEF Spawn, Append_, ControlTypes, Points, Body
      <4>4. CASE Stop(p) \/ Await(p)
        BY <1>t, <4>4 DEF Stop, Await, ControlTypes
      <4> QED BY <1>2, <4>1, <4>2, <4>3, <4>4 DEF Step
    <3> QED BY <1>0, <2>1, <3>1 DEF Fresh, Mine, Same
  <2>4. ASSUME NEW q \in Prog, Demo(q)', calm'[q] PROVE Passing(q)'
    <3>1. Demo(q) /\ Passing(q)
      BY <1>0, <2>1, <2>4 DEF Demo
    <3>2. CASE q = p
      BY <1>2, <2>4, <3>1, <3>2, GoesOnUndisturbed
    <3>3. CASE q # p
      <4>1. ~Running(q)
        BY <2>1, <3>1, <3>3 DEF Passing, Undisturbed
      <4> QED BY <1>1, <2>1, <2>4, <3>3, <4>1 DEF Mine
    <3> QED BY <3>2, <3>3
  <2> QED BY <2>2, <2>3, <2>4 DEF Untroubled
<1>3. ASSUME NEW p \in Prog, Start(p) PROVE Untroubled'
  <2>1. Mine(p) /\ UNCHANGED host /\ passed' = passed /\ pc'[p] # "new"
    <3>1. \E l \in {"spawn", "deploy", "check"} : Goto(p, l)
      BY <1>3 DEF Start, Kinds
    <3>2. pc'[p] # "new"
      BY <3>1, GotoMoves DEF Points, Body
    <3> QED BY <1>3, <3>2, OperatorTypes DEF Start
  <2>2. StraysSpawned' /\ Fresh'
    BY <1>0, <2>1 DEF StraysSpawned, Fresh, Mine, Same, host
  <2>3. ASSUME NEW q \in Prog, Demo(q)', calm'[q] PROVE Passing(q)'
    <3>1. CASE q = p
      BY <1>0, <1>3, <2>3, <3>1, StartsCalm
    <3>2. CASE q # p
      <4>1. calm[q] /\ ~Running(q)
        BY <1>3, <2>3, <3>2 DEF Start
      <4> QED BY <1>1, <2>1, <2>3, <3>2, <4>1 DEF Mine
    <3> QED BY <3>1, <3>2
  <2> QED BY <2>2, <2>3 DEF Untroubled
<1>4. ASSUME NEW p \in Prog, Interrupt(p) \/ Kill(p) PROVE Untroubled'
  <2>1. Mine(p) /\ UNCHANGED <<server, stray, passed, kind>> /\ Disturb({p}) /\ Running(p)
    BY <1>4, OperatorTypes DEF Interrupt, Kill, Fault
  <2>2. StraysSpawned' /\ Fresh'
    <3>1. pc'[p] # "new"
      BY <1>4, FinallyMoves, ExitMoves DEF Interrupt, Kill, Exits
    <3> QED BY <1>0, <2>1, <3>1 DEF StraysSpawned, Fresh, Mine, Same, host
  <2>3. ASSUME NEW q \in Prog, Demo(q)', calm'[q] PROVE Passing(q)'
    <3>1. calm[q] /\ q # p
      BY <2>1, <2>3, Disturbed
    <3>2. Passing(q)
      BY <1>0, <2>1, <2>3, <3>1 DEF Demo
    <3>3. ~Running(q)
      BY <2>1, <3>1, <3>2 DEF Passing, Undisturbed
    <3> QED BY <1>1, <2>1, <2>3, <3>1, <3>3 DEF Mine
  <2> QED BY <2>2, <2>3 DEF Untroubled
<1>5. ASSUME NEW p \in Prog, NEW k \in Servers,
             Bind(p, k) \/ ServerExits(p, k) \/ ServerDies(p, k)
      PROVE  Untroubled'
  <2>1. /\ UNCHANGED <<control, stray>>
        /\ \A q \in Prog, n \in Servers : /\ server[q][n] # "none" => server'[q][n] # "none"
                                          /\ server[q][n] = "none" => server'[q][n] = "none"
    BY <1>5, ServerTypes DEF Leaving
  <2>2. StraysSpawned' /\ Fresh'
    BY <1>0, <2>1 DEF StraysSpawned, Fresh, control
  <2>3. \A q \in Prog : Same(q)
    BY <2>1 DEF Same, control
  <2>4. ASSUME NEW q \in Prog, Demo(q)', calm'[q] PROVE Passing(q)'
    <3>1. CASE ServerDies(p, k)
      <4>1. calm[q] /\ ~Running(q)
        BY <2>4, <3>1, Disturbed DEF ServerDies, Fault
      <4> QED BY <1>1, <2>3, <2>4, <4>1
    <3>2. CASE Bind(p, k) \/ ServerExits(p, k)
      <4>1. calm[q] /\ Demo(q)
        BY <2>3, <2>4, <3>2 DEF Bind, ServerExits, Demo, Same
      <4>2. CASE ~Running(q)
        BY <1>1, <2>3, <2>4, <4>1, <4>2
      <4>3. CASE Running(q)
        <5>1. Undisturbed(q)'
          BY <1>0, <3>2, <4>1, <4>3, ServerUndisturbed DEF Passing
        <5> QED BY <2>3, <4>3, <5>1 DEF Passing, Running, Same, Body, Stopping
      <4> QED BY <4>2, <4>3
    <3> QED BY <1>5, <3>1, <3>2
  <2> QED BY <2>2, <2>4 DEF Untroubled
<1>6. CASE Change
  <2>1. UNCHANGED <<server, control>> /\ Disturb({p \in Prog : Running(p)})
    BY <1>6, ChangeTypes DEF Change
  <2>2. \A q \in Prog, k \in Servers : <<q, k>> \in stray' =>
          <<q, k>> \in stray \/ server[q][k] # "none"
    BY <1>6 DEF Change, Leaving
  <2>3. StraysSpawned' /\ Fresh'
    BY <1>0, <2>1, <2>2 DEF StraysSpawned, Fresh, control
  <2>4. ASSUME NEW q \in Prog, Demo(q)', calm'[q] PROVE Passing(q)'
    <3>1. calm[q] /\ ~Running(q) /\ Same(q)
      BY <2>1, <2>4, Disturbed DEF Same, control
    <3> QED BY <1>1, <2>4, <3>1
  <2> QED BY <2>3, <2>4 DEF Untroubled
<1>7. CASE UNCHANGED vars
  BY <1>0, <1>7 DEF vars, host, control, Untroubled, StraysSpawned, Fresh, Demo, Passing,
     Undisturbed, Running, Own
<1> QED BY <1>2, <1>3, <1>4, <1>5, <1>6, <1>7 DEF Next

\* run_traffic_demo.py and run_vpn_demo.py, alone on a whole laboratory whose
\* ports and tunnel are free, with their servers listening when they ask for
\* them, pass every check and exit with 0.
THEOREM UndisturbedItPasses == Spec => []UndisturbedDemoPasses
<1>1. Init => Untroubled
  BY DEF Init, Untroubled, StraysSpawned, Fresh, Demo
<1>2. Untroubled => UndisturbedDemoPasses
  BY DEF Untroubled, UndisturbedDemoPasses, Demo, Passing
<1>3. TypeOK /\ Tracking /\ Untroubled /\ [Next]_vars => (TypeOK /\ Tracking /\ Untroubled)'
  BY TypeStep, TrackingStep, UntroubledStep
<1>4. Init => TypeOK /\ Tracking /\ Untroubled
  BY <1>1, TypeInit, TrackingInit
<1> QED BY <1>2, <1>3, <1>4, PTL DEF Spec
=============================================================================
