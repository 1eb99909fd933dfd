------------------------ MODULE ConfigurationProofs ------------------------
(***************************************************************************)
(* Proofs about Configuration and VpnConfiguration: what validate() admits *)
(* is consistent, what build() and deploy() leave when they return is what *)
(* the files say.  The loops of the two are recursive functions and        *)
(* concatenations, so that the first half is about those.                  *)
(***************************************************************************)
EXTENDS VpnConfiguration, TLAPS, SequenceTheorems, WellFoundedInduction,
        FiniteSetTheorems, FunctionTheorems

-----------------------------------------------------------------------------
(***************************************************************************)
(* Induction over the natural numbers, from the library's facts that name  *)
(* no operator: a set that holds 0 and the successor of each of its        *)
(* numbers is all of Nat.                                                  *)
(***************************************************************************)
Below == {ss \in Nat \X Nat : ss[1] < ss[2]}

LEMMA LeastNumber ==
  ASSUME NEW T \in SUBSET Nat, T # {}
  PROVE  \E m \in T : \A n \in T : m <= n
<1>1. OpToRel(<, Nat) = Below
  BY DEF OpToRel, Below
<1>2. \E m \in T : \A n \in T : ~(<<n, m>> \in Below)
  BY <1>1, NatLessThanWellFounded, WFMin
<1>3. \A m, n \in Nat : ~(<<n, m>> \in Below) => m <= n
  BY DEF Below
<1> QED BY <1>2, <1>3

LEMMA SetInduction ==
  ASSUME NEW T, 0 \in T, \A n \in Nat : n \in T => n + 1 \in T
  PROVE  \A n \in Nat : n \in T
<1> SUFFICES ASSUME NEW n \in Nat, n \notin T PROVE FALSE
  OBVIOUS
<1> DEFINE Missing == {k \in Nat : k \notin T}
<1>1. PICK m \in Missing : \A k \in Missing : m <= k
  BY LeastNumber
<1>2. m - 1 \in Nat /\ m - 1 \in T
  BY <1>1
<1> QED BY <1>1, <1>2

(***************************************************************************)
(* FlattenSeq: where the elements of the pieces are in the whole.          *)
(***************************************************************************)
Lays(off, seqs, flat) ==
  /\ off \in [0..Len(seqs) -> Nat] /\ off[0] = 0 /\ Len(flat) = off[Len(seqs)]
  /\ \A i \in 1..Len(seqs) : off[i] = off[i - 1] + Len(seqs[i])
  /\ \A a, b \in 0..Len(seqs) : a <= b => off[a] <= off[b]
  /\ \A i \in 1..Len(seqs) : \A j \in 1..Len(seqs[i]) :
       /\ off[i - 1] + j \in 1..Len(flat)
       /\ flat[off[i - 1] + j] = seqs[i][j]
  /\ \A k \in 1..Len(flat) : \E i \in 1..Len(seqs) : \E j \in 1..Len(seqs[i]) :
       k = off[i - 1] + j

\* f[m] is the concatenation of the first m pieces.
Joins(f, seqs, m) ==
  /\ f[0] = <<>>
  /\ \A i \in 1..m : f[i] = f[i - 1] \o seqs[i]

LEMMA Concats ==
  ASSUME NEW S, NEW s \in Seq(S), NEW t \in Seq(S)
  PROVE  /\ s \o t \in Seq(S) /\ Len(s \o t) = Len(s) + Len(t)
         /\ Len(s) \in Nat /\ Len(t) \in Nat
         /\ \A k \in 1..Len(s) : (s \o t)[k] = s[k]
         /\ \A k \in 1..Len(t) : (s \o t)[Len(s) + k] = t[k]
<1>1. /\ s \o t \in Seq(S) /\ Len(s \o t) = Len(s) + Len(t)
      /\ Len(s) \in Nat /\ Len(t) \in Nat
  BY ConcatProperties, LenProperties
<1>2. \A k \in 1..(Len(s) + Len(t)) :
        (s \o t)[k] = IF k <= Len(s) THEN s[k] ELSE t[k - Len(s)]
  BY ConcatProperties
<1>3. ASSUME NEW k \in 1..Len(s) PROVE (s \o t)[k] = s[k]
  <2>1. k \in 1..(Len(s) + Len(t)) /\ k <= Len(s)
    BY <1>1
  <2> QED BY <1>2, <2>1
<1>4. ASSUME NEW k \in 1..Len(t) PROVE (s \o t)[Len(s) + k] = t[k]
  <2>1. /\ Len(s) + k \in 1..(Len(s) + Len(t)) /\ ~(Len(s) + k <= Len(s))
        /\ (Len(s) + k) - Len(s) = k
    BY <1>1
  <2> QED BY <1>2, <2>1
<1> QED BY <1>1, <1>3, <1>4

LEMMA JoinsExists ==
  ASSUME NEW S, NEW seqs \in Seq(Seq(S)), NEW n \in 0..Len(seqs)
  PROVE  \E f \in [0..n -> Seq(S)] : Joins(f, seqs, n)
<1> DEFINE T == {m \in Nat : m <= Len(seqs) => \E f \in [0..m -> Seq(S)] : Joins(f, seqs, m)}
<1>1. 0 \in T
  <2>1. [i \in 0..0 |-> <<>>] \in [0..0 -> Seq(S)] /\ Joins([i \in 0..0 |-> <<>>], seqs, 0)
    BY DEF Joins
  <2> QED BY <2>1
<1>2. ASSUME NEW m \in Nat, m \in T PROVE m + 1 \in T
  <2> SUFFICES ASSUME m + 1 <= Len(seqs)
               PROVE  \E f \in [0..(m + 1) -> Seq(S)] : Joins(f, seqs, m + 1)
    OBVIOUS
  <2>1. PICK f \in [0..m -> Seq(S)] : Joins(f, seqs, m)
    BY <1>2
  <2> DEFINE g == [i \in 0..(m + 1) |-> IF i <= m THEN f[i] ELSE f[m] \o seqs[m + 1]]
  <2>2. seqs[m + 1] \in Seq(S) /\ f[m] \in Seq(S)
    OBVIOUS
  <2>3. g \in [0..(m + 1) -> Seq(S)]
    BY <2>2
  <2>4. (\A i \in 0..m : g[i] = f[i]) /\ g[m + 1] = f[m] \o seqs[m + 1]
    <3>1. \A i \in 0..m : i \in 0..(m + 1) /\ i <= m
      OBVIOUS
    <3>2. m + 1 \in 0..(m + 1) /\ ~(m + 1 <= m)
      OBVIOUS
    <3> QED BY <3>1, <3>2
  <2> HIDE DEF g
  <2>5. ASSUME NEW i \in 1..(m + 1) PROVE g[i] = g[i - 1] \o seqs[i]
    <3>1. CASE i <= m
      <4>1. i \in 1..m /\ i \in 0..m /\ i - 1 \in 0..m
        BY <3>1
      <4>2. f[i] = f[i - 1] \o seqs[i]
        BY <2>1, <4>1 DEF Joins
      <4> QED BY <2>4, <4>1, <4>2
    <3>2. CASE i = m + 1
      <4>1. i - 1 = m /\ m \in 0..m
        BY <3>2
      <4> QED BY <2>4, <3>2, <4>1
    <3>3. i <= m \/ i = m + 1
      OBVIOUS
    <3> QED BY <3>1, <3>2, <3>3
  <2>6. g[0] = <<>>
    <3>1. 0 \in 0..m /\ f[0] = <<>>
      BY <2>1 DEF Joins
    <3> QED BY <2>4, <3>1
  <2>7. Joins(g, seqs, m + 1)
    BY <2>5, <2>6 DEF Joins
  <2> QED BY <2>3, <2>7
<1> HIDE DEF T
<1>3. n \in T
  <2>1. \A m \in Nat : m \in T
    BY <1>1, <1>2, SetInduction
  <2> QED BY <2>1
<1> QED BY <1>3 DEF T

LEMMA FlattenIs ==
  ASSUME NEW S, NEW seqs \in Seq(Seq(S))
  PROVE  \E f \in [0..Len(seqs) -> Seq(S)] :
            Joins(f, seqs, Len(seqs)) /\ FlattenSeq(seqs) = f[Len(seqs)]
<1>1. PICK f \in [0..Len(seqs) -> Seq(S)] : Joins(f, seqs, Len(seqs))
  BY JoinsExists
<1>2. CASE Len(seqs) = 0
  <2>1. FlattenSeq(seqs) = seqs
    BY <1>2 DEF FlattenSeq
  <2> QED BY <1>1, <1>2, <2>1, EmptySeq DEF Joins
<1>3. CASE Len(seqs) # 0
  <2> DEFINE flatten == CHOOSE h : h = [i \in 1..Len(seqs) |->
                          IF i = 1 THEN seqs[i] ELSE h[i - 1] \o seqs[i]]
             g == [i \in 1..Len(seqs) |-> f[i]]
  <2>1. FlattenSeq(seqs) = flatten[Len(seqs)]
    BY <1>3 DEF FlattenSeq
  <2>2. g = [i \in 1..Len(seqs) |-> IF i = 1 THEN seqs[i] ELSE g[i - 1] \o seqs[i]]
    <3>1. ASSUME NEW i \in 1..Len(seqs)
          PROVE  f[i] = (IF i = 1 THEN seqs[i] ELSE g[i - 1] \o seqs[i])
      <4>1. CASE i = 1
        <5>1. i - 1 = 0 /\ seqs[i] \in Seq(S)
          BY <4>1
        <5>2. f[i] = f[i - 1] \o seqs[i] /\ f[0] = <<>>
          BY <1>1 DEF Joins
        <5>3. f[i] = <<>> \o seqs[i]
          BY <5>1, <5>2
        <5> QED BY <4>1, <5>1, <5>3, ConcatEmptySeq
      <4>2. CASE i # 1
        <5>1. i - 1 \in 1..Len(seqs)
          BY <4>2
        <5> QED BY <1>1, <4>2, <5>1 DEF Joins
      <4> QED BY <4>1, <4>2
    <3> QED BY <3>1
  <2> HIDE DEF g
  <2>3. flatten = [i \in 1..Len(seqs) |->
                     IF i = 1 THEN seqs[i] ELSE flatten[i - 1] \o seqs[i]]
    BY <2>2
  <2> HIDE DEF flatten
  <2> DEFINE T == {m \in Nat : m + 1 <= Len(seqs) => flatten[m + 1] = f[m + 1]}
  <2>4. 0 \in T
    <3>1. 1 \in 1..Len(seqs) /\ 1 - 1 = 0 /\ seqs[1] \in Seq(S)
      BY <1>3
    <3>2. flatten[1] = seqs[1]
      BY <2>3, <3>1
    <3>3. f[1] = <<>> \o seqs[1]
      BY <1>1, <3>1 DEF Joins
    <3> QED BY <3>1, <3>2, <3>3, ConcatEmptySeq
  <2>5. ASSUME NEW m \in Nat, m \in T PROVE m + 1 \in T
    <3> SUFFICES ASSUME m + 2 <= Len(seqs) PROVE flatten[m + 2] = f[m + 2]
      OBVIOUS
    <3>1. m + 2 \in 1..Len(seqs) /\ (m + 2) - 1 = m + 1 /\ m + 2 # 1
      OBVIOUS
    <3>2. flatten[m + 2] = flatten[m + 1] \o seqs[m + 2]
      BY <2>3, <3>1
    <3>3. f[m + 2] = f[m + 1] \o seqs[m + 2]
      BY <1>1, <3>1 DEF Joins
    <3>4. flatten[m + 1] = f[m + 1]
      BY <2>5
    <3> QED BY <3>2, <3>3, <3>4
  <2> HIDE DEF T
  <2>6. \A m \in Nat : m \in T
    BY <2>4, <2>5, SetInduction
  <2>7. Len(seqs) - 1 \in Nat /\ (Len(seqs) - 1) + 1 = Len(seqs)
    BY <1>3
  <2>8. flatten[Len(seqs)] = f[Len(seqs)]
    <3>1. Len(seqs) - 1 \in T
      BY <2>6, <2>7
    <3>2. (Len(seqs) - 1) + 1 <= Len(seqs)
          => flatten[(Len(seqs) - 1) + 1] = f[(Len(seqs) - 1) + 1]
      BY <3>1 DEF T
    <3> QED BY <2>7, <3>2
  <2> QED BY <1>1, <2>1, <2>8
<1> QED BY <1>2, <1>3

\* off[i] is where the piece after the i-th begins, len[i] its length.
LEMMA Offsets ==
  ASSUME NEW N \in Nat, NEW off \in [0..N -> Nat], NEW len \in [1..N -> Nat], off[0] = 0,
         \A i \in 1..N : off[i] = off[i - 1] + len[i]
  PROVE  /\ \A a, b \in 0..N : a <= b => off[a] <= off[b]
         /\ \A k \in 1..off[N] : \E i \in 1..N : \E j \in 1..len[i] : k = off[i - 1] + j
<1>1. ASSUME NEW a \in 0..N, NEW b \in 0..N, a <= b
      PROVE  off[a] <= off[b]
  <2> DEFINE T == {m \in Nat : a + m <= N => off[a] <= off[a + m]}
  <2>1. 0 \in T
    <3>1. a + 0 = a /\ off[a] \in Nat
      OBVIOUS
    <3> QED BY <3>1
  <2>2. ASSUME NEW m \in Nat, m \in T PROVE m + 1 \in T
    <3> SUFFICES ASSUME a + (m + 1) <= N PROVE off[a] <= off[a + (m + 1)]
      OBVIOUS
    <3>1. /\ a + (m + 1) \in 1..N /\ a + (m + 1) \in 0..N /\ (a + (m + 1)) - 1 = a + m
          /\ a + m \in 0..N /\ a + m <= N
      OBVIOUS
    <3>2. off[a + (m + 1)] = off[a + m] + len[a + (m + 1)]
      BY <3>1
    <3>3. off[a] <= off[a + m]
      BY <2>2, <3>1
    <3>4. off[a] \in Nat /\ off[a + m] \in Nat /\ len[a + (m + 1)] \in Nat
      BY <3>1
    <3> QED BY <3>2, <3>3, <3>4
  <2> HIDE DEF T
  <2>3. \A m \in Nat : m \in T
    BY <2>1, <2>2, SetInduction
  <2>4. b - a \in Nat /\ a + (b - a) = b /\ b <= N
    BY <1>1
  <2>5. b - a \in T
    BY <2>3, <2>4
  <2>6. a + (b - a) <= N => off[a] <= off[a + (b - a)]
    BY <2>5 DEF T
  <2> QED BY <2>4, <2>6
<1>2. ASSUME NEW k \in 1..off[N]
      PROVE  \E i \in 1..N : \E j \in 1..len[i] : k = off[i - 1] + j
  <2> DEFINE T == {i \in 0..N : k <= off[i]}
  <2>1. N \in T /\ T \in SUBSET Nat
    OBVIOUS
  <2>2. PICK i \in T : \A n \in T : i <= n
    BY <2>1, LeastNumber
  <2>3. i \in 0..N /\ k <= off[i] /\ k \in Nat \ {0}
    BY <2>2
  <2>4. i # 0
    BY <2>3
  <2>5. i \in 1..N /\ i - 1 \in 0..N /\ i - 1 \notin T
    BY <2>2, <2>3, <2>4
  <2>6. ~(k <= off[i - 1]) /\ off[i] = off[i - 1] + len[i]
        /\ off[i - 1] \in Nat /\ len[i] \in Nat
    BY <2>5
  <2> HIDE DEF T
  <2> DEFINE j == k - off[i - 1]
  <2>7. j \in 1..len[i] /\ k = off[i - 1] + j
    BY <2>3, <2>6, SMTT(30)
  <2> QED BY <2>5, <2>7
<1> QED BY <1>1, <1>2

\* What the first pieces give stays when others are appended.
LEMMA Kept ==
  ASSUME NEW N \in Nat, NEW off \in [0..N -> Nat], NEW f, NEW a \in 0..N,
         \A i, j \in 0..N : i <= j => off[i] <= off[j],
         \A i \in 1..N : \A k \in 1..off[i - 1] : f[i][k] = f[i - 1][k]
  PROVE  \A k \in 1..off[a] : f[N][k] = f[a][k]
<1> DEFINE T == {m \in Nat : a + m <= N => \A k \in 1..off[a] : f[a + m][k] = f[a][k]}
<1>1. 0 \in T
  <2>1. a + 0 = a
    OBVIOUS
  <2> QED BY <2>1
<1>2. ASSUME NEW m \in Nat, m \in T PROVE m + 1 \in T
  <2> SUFFICES ASSUME a + (m + 1) <= N, NEW k \in 1..off[a]
               PROVE  f[a + (m + 1)][k] = f[a][k]
    OBVIOUS
  <2>1. /\ a + (m + 1) \in 1..N /\ (a + (m + 1)) - 1 = a + m
        /\ a + m \in 0..N /\ a + m <= N /\ a <= a + m
    OBVIOUS
  <2>2. off[a] <= off[a + m] /\ off[a] \in Nat /\ off[a + m] \in Nat
    BY <2>1
  <2>3. k \in 1..off[a + m]
    BY <2>2
  <2>4. f[a + (m + 1)][k] = f[a + m][k]
    BY <2>1, <2>3
  <2>5. f[a + m][k] = f[a][k]
    BY <1>2, <2>1
  <2> QED BY <2>4, <2>5
<1> HIDE DEF T
<1>3. \A m \in Nat : m \in T
  BY <1>1, <1>2, SetInduction
<1>4. N - a \in Nat /\ a + (N - a) = N /\ a + (N - a) <= N
  OBVIOUS
<1>5. a + (N - a) <= N => \A k \in 1..off[a] : f[a + (N - a)][k] = f[a][k]
  BY <1>3, <1>4 DEF T
<1> QED BY <1>4, <1>5

LEMMA Flattened ==
  ASSUME NEW S, NEW seqs \in Seq(Seq(S))
  PROVE  /\ FlattenSeq(seqs) \in Seq(S)
         /\ \E off : Lays(off, seqs, FlattenSeq(seqs))
<1>1. PICK f \in [0..Len(seqs) -> Seq(S)] :
        Joins(f, seqs, Len(seqs)) /\ FlattenSeq(seqs) = f[Len(seqs)]
  BY FlattenIs
<1> DEFINE N == Len(seqs)
           off == [i \in 0..N |-> Len(f[i])]
           len == [i \in 1..N |-> Len(seqs[i])]
<1>2. N \in Nat /\ off \in [0..N -> Nat] /\ len \in [1..N -> Nat]
  OBVIOUS
<1>3. \A i \in 1..N : i - 1 \in 0..N /\ i \in 0..N /\ f[i - 1] \in Seq(S) /\ seqs[i] \in Seq(S)
  <2> SUFFICES ASSUME NEW i \in 1..N
               PROVE  i - 1 \in 0..N /\ i \in 0..N /\ f[i - 1] \in Seq(S) /\ seqs[i] \in Seq(S)
    OBVIOUS
  <2>1. i - 1 \in 0..N /\ i \in 0..N
    BY <1>2
  <2>2. \A n \in 0..N : f[n] \in Seq(S)
    OBVIOUS
  <2>3. \A n \in 1..N : seqs[n] \in Seq(S)
    BY ElementOfSeq
  <2>4. f[i - 1] \in Seq(S)
    BY <2>1, <2>2
  <2> QED BY <2>1, <2>3, <2>4
<1>4. \A i \in 1..N : f[i] = f[i - 1] \o seqs[i]
  BY <1>1 DEF Joins
<1>5. (\A i \in 0..N : off[i] = Len(f[i])) /\ (\A i \in 1..N : len[i] = Len(seqs[i]))
  OBVIOUS
<1>6. FlattenSeq(seqs) \in Seq(S)
  BY <1>1, <1>2
<1>7. off[0] = 0 /\ Len(FlattenSeq(seqs)) = off[N]
  BY <1>1, <1>2, <1>5 DEF Joins
<1> HIDE DEF off, len
<1>8. ASSUME NEW i \in 1..N
      PROVE  /\ off[i] = off[i - 1] + len[i]
             /\ \A k \in 1..off[i - 1] : f[i][k] = f[i - 1][k]
             /\ \A j \in 1..len[i] : f[i][off[i - 1] + j] = seqs[i][j]
  <2> DEFINE s == f[i - 1]
             t == seqs[i]
  <2>1. s \in Seq(S) /\ t \in Seq(S) /\ f[i] = s \o t
    BY <1>3, <1>4
  <2>2. off[i - 1] = Len(s) /\ len[i] = Len(t) /\ off[i] = Len(s \o t)
    BY <1>3, <1>5, <2>1
  <2> HIDE DEF s, t
  <2>3. /\ off[i] = off[i - 1] + len[i]
        /\ \A k \in 1..off[i - 1] : f[i][k] = s[k]
        /\ \A j \in 1..len[i] : f[i][off[i - 1] + j] = t[j]
    BY <2>1, <2>2, Concats
  <2> QED BY <2>3 DEF s, t
<1>9. /\ \A a, b \in 0..N : a <= b => off[a] <= off[b]
      /\ \A k \in 1..off[N] : \E i \in 1..N : \E j \in 1..len[i] : k = off[i - 1] + j
  <2>1. \A i \in 1..N : off[i] = off[i - 1] + len[i]
    BY <1>8
  <2> QED BY <1>2, <1>7, <2>1, Offsets
<1>10. ASSUME NEW i \in 1..N, NEW j \in 1..len[i]
       PROVE  off[i - 1] + j \in 1..off[N] /\ f[N][off[i - 1] + j] = seqs[i][j]
  <2>1. i \in 0..N /\ N \in 0..N /\ i <= N /\ i - 1 \in 0..N
    BY <1>2
  <2>2. off[i] <= off[N] /\ off[i] = off[i - 1] + len[i]
    BY <1>8, <1>9, <2>1
  <2>3. off[i] \in Nat /\ off[i - 1] \in Nat /\ len[i] \in Nat /\ off[N] \in Nat
    BY <1>2, <2>1
  <2>4. off[i - 1] + j \in 1..off[i] /\ off[i - 1] + j \in 1..off[N]
    <3> DEFINE p == off[i - 1]
               q == off[i]
               l == len[i]
               z == off[N]
    <3>1. p \in Nat /\ q \in Nat /\ l \in Nat /\ z \in Nat /\ q <= z /\ q = p + l /\ j \in 1..l
      BY <2>2, <2>3
    <3> HIDE DEF p, q, l, z
    <3>2. p + j \in 1..q /\ p + j \in 1..z
      BY <3>1
    <3> QED BY <3>2 DEF p, q, z
  <2>5. \A k \in 1..off[i] : f[N][k] = f[i][k]
    <3>1. \A m \in 1..N : \A k \in 1..off[m - 1] : f[m][k] = f[m - 1][k]
      BY <1>8
    <3>2. \A a, b \in 0..N : a <= b => off[a] <= off[b]
      BY <1>9
    <3> HIDE DEF N
    <3> QED BY <1>2, <2>1, <3>1, <3>2, Kept
  <2> QED BY <1>8, <2>4, <2>5
<1> DEFINE flat == FlattenSeq(seqs)
<1>11. flat = f[N]
  BY <1>1
<1> HIDE DEF flat
<1>12. Lays(off, seqs, flat)
  <2>1. Len(flat) = off[N]
    BY <1>7 DEF flat
  <2>2. \A i \in 1..N : len[i] = Len(seqs[i])
    BY <1>5
  <2>3. \A i \in 1..N : off[i] = off[i - 1] + Len(seqs[i])
    BY <1>8, <2>2
  <2>4. \A i \in 1..N : \A j \in 1..Len(seqs[i]) :
          off[i - 1] + j \in 1..Len(flat) /\ flat[off[i - 1] + j] = seqs[i][j]
    BY <1>10, <1>11, <2>1, <2>2
  <2>5. \A k \in 1..Len(flat) : \E i \in 1..N : \E j \in 1..Len(seqs[i]) : k = off[i - 1] + j
    BY <1>9, <2>1, <2>2
  <2> QED BY <1>2, <1>7, <1>9, <2>1, <2>3, <2>4, <2>5 DEF Lays
<1> QED BY <1>6, <1>12 DEF flat

-----------------------------------------------------------------------------
(***************************************************************************)
(* An edited file is a file.                                               *)
(***************************************************************************)
LEMMA Removing ==
  ASSUME NEW S, NEW s \in Seq(S), NEW i \in 1..Len(s)
  PROVE  RemoveAt(s, i) \in Seq(S)
<1>1. Len(s) \in Nat /\ i - 1 \in 0..Len(s) /\ i + 1 \in 1..(Len(s) + 1)
  BY LenProperties
<1>2. SubSeq(s, 1, i - 1) \in Seq(S) /\ SubSeq(s, i + 1, Len(s)) \in Seq(S)
  <2>1. \A k \in 1..(i - 1) : k \in 1..Len(s)
    BY <1>1
  <2>2. \A k \in (i + 1)..Len(s) : k \in 1..Len(s)
    BY <1>1
  <2> QED BY <1>1, <2>1, <2>2, SubSeqProperties
<1> QED BY <1>2, ConcatProperties DEF RemoveAt

LEMMA Replacing ==
  ASSUME NEW S, NEW s \in Seq(S), NEW i \in 1..Len(s), NEW e \in S
  PROVE  [s EXCEPT ![i] = e] \in Seq(S)
BY ExceptSeq

LEMMA One ==
  ASSUME NEW S, NEW e \in S
  PROVE  <<e>> \in Seq(S)
OBVIOUS

LEMMA Elements ==
  ASSUME NEW S, NEW s \in Seq(S)
  PROVE  /\ Len(s) \in Nat /\ DOMAIN s = 1..Len(s)
         /\ \A i \in 1..Len(s) : s[i] \in S
         /\ ToSet(s) = {s[i] : i \in 1..Len(s)}
<1>1. Len(s) \in Nat /\ DOMAIN s = 1..Len(s) /\ \A i \in 1..Len(s) : s[i] \in S
  BY LenProperties, ElementOfSeq
<1> QED BY <1>1 DEF ToSet

LEMMA Strings ==
  /\ Absent \in Text /\ Bad \in Text /\ Single \in Text /\ "dummy" \in Text
  /\ Ragged \in Text /\ Default \in Text
  /\ NsNames \subseteq Text \ {Host} /\ IfNames \subseteq Text /\ Subnets \subseteq Text
BY FileAssumption DEF FileAssumption, Text

LEMMA InterfaceEdited ==
  ASSUME NEW f \in IfaceType, NEW g \in IfaceEdits(f)
  PROVE  g \in IfaceType
<1>1. PICK x \in Text : \/ g = [f EXCEPT !.name = x] \/ g = [f EXCEPT !.type = x]
                         \/ g = [f EXCEPT !.ip = x] \/ g = [f EXCEPT !.peerNs = x]
                         \/ g = [f EXCEPT !.peerName = x]
  <2>1. "dummy" \in Text
    BY Strings
  <2>2. IfNames \subseteq Text /\ Addresses \subseteq Text /\ NsNames \union {Absent} \subseteq Text
        /\ IfNames \union {Absent} \subseteq Text
    BY Strings DEF Addresses
  <2>3. \/ \E x \in IfNames : g = [f EXCEPT !.name = x]
        \/ g = [f EXCEPT !.type = "dummy"]
        \/ \E x \in Addresses : g = [f EXCEPT !.ip = x]
        \/ \E x \in NsNames \union {Absent} : g = [f EXCEPT !.peerNs = x]
        \/ \E x \in IfNames \union {Absent} : g = [f EXCEPT !.peerName = x]
    BY DEF IfaceEdits
  <2> QED BY <2>1, <2>2, <2>3
<1> QED BY <1>1 DEF IfaceType

LEMMA RouteEdited ==
  ASSUME NEW r \in RouteType, NEW g \in RouteEdits(r)
  PROVE  g \in RouteType
<1>1. PICK x \in Text : \/ g = [r EXCEPT !.target = x] \/ g = [r EXCEPT !.gateway = x]
                         \/ g = [r EXCEPT !.dev = x]
  BY Strings DEF RouteEdits
<1> QED BY <1>1 DEF RouteType

LEMMA NamespaceEdited ==
  ASSUME NEW ns \in NamespaceType, NEW g \in NamespaceEdits(ns)
  PROVE  g \in NamespaceType
<1> DEFINE fs == ns.interfaces
           rs == ns.routes
<1>1. fs \in Seq(IfaceType) /\ rs \in Seq(RouteType)
  BY DEF NamespaceType
<1>2. CASE \E x \in NsNames : g = [ns EXCEPT !.name = x]
  BY <1>2, FileAssumption DEF FileAssumption, NamespaceType
<1>3. CASE \E i \in 1..Len(fs) : g = [ns EXCEPT !.interfaces = RemoveAt(@, i)]
  <2>1. PICK i \in 1..Len(fs) : g = [ns EXCEPT !.interfaces = RemoveAt(fs, i)]
    BY <1>3
  <2>2. RemoveAt(fs, i) \in Seq(IfaceType)
    BY <1>1, Removing
  <2> QED BY <2>1, <2>2 DEF NamespaceType
<1>4. CASE \E i \in 1..Len(rs) : g = [ns EXCEPT !.routes = RemoveAt(@, i)]
  <2>1. PICK i \in 1..Len(rs) : g = [ns EXCEPT !.routes = RemoveAt(rs, i)]
    BY <1>4
  <2>2. RemoveAt(rs, i) \in Seq(RouteType)
    BY <1>1, Removing
  <2> QED BY <2>1, <2>2 DEF NamespaceType
<1>5. CASE \E i \in 1..Len(fs) : \E h \in IfaceEdits(fs[i]) : g = [ns EXCEPT !.interfaces[i] = h]
  <2>0. PICK i \in 1..Len(fs) : \E h \in IfaceEdits(fs[i]) :
          g = [ns EXCEPT !.interfaces = [fs EXCEPT ![i] = h]]
    BY <1>5
  <2>1. PICK h \in IfaceEdits(fs[i]) : g = [ns EXCEPT !.interfaces = [fs EXCEPT ![i] = h]]
    BY <2>0
  <2>2. fs[i] \in IfaceType
    BY <1>1, Elements
  <2>3. h \in IfaceType
    BY <2>1, <2>2, InterfaceEdited
  <2>4. [fs EXCEPT ![i] = h] \in Seq(IfaceType)
    BY <1>1, <2>3, Replacing
  <2> QED BY <2>1, <2>4 DEF NamespaceType
<1>6. CASE \E i \in 1..Len(rs) : \E h \in RouteEdits(rs[i]) : g = [ns EXCEPT !.routes[i] = h]
  <2>0. PICK i \in 1..Len(rs) : \E h \in RouteEdits(rs[i]) :
          g = [ns EXCEPT !.routes = [rs EXCEPT ![i] = h]]
    BY <1>6
  <2>1. PICK h \in RouteEdits(rs[i]) : g = [ns EXCEPT !.routes = [rs EXCEPT ![i] = h]]
    BY <2>0
  <2>2. rs[i] \in RouteType
    BY <1>1, Elements
  <2>3. h \in RouteType
    BY <2>1, <2>2, RouteEdited
  <2>4. [rs EXCEPT ![i] = h] \in Seq(RouteType)
    BY <1>1, <2>3, Replacing
  <2> QED BY <2>1, <2>4 DEF NamespaceType
<1> DEFINE ByName == {[ns EXCEPT !.name = x] : x \in NsNames}
           Without == {[ns EXCEPT !.interfaces = RemoveAt(@, i)] : i \in 1..Len(fs)}
           Routeless == {[ns EXCEPT !.routes = RemoveAt(@, i)] : i \in 1..Len(rs)}
           Ifs(i) == {[ns EXCEPT !.interfaces[i] = h] : h \in IfaceEdits(fs[i])}
           Rts(i) == {[ns EXCEPT !.routes[i] = h] : h \in RouteEdits(rs[i])}
<1>7. NamespaceEdits(ns) = ByName \union Without \union Routeless
                             \union (UNION {Ifs(i) : i \in 1..Len(fs)})
                             \union (UNION {Rts(i) : i \in 1..Len(rs)})
  BY DEF NamespaceEdits
<1>8. CASE \E i \in 1..Len(fs) : g \in Ifs(i)
  BY <1>5, <1>8
<1>9. CASE \E i \in 1..Len(rs) : g \in Rts(i)
  BY <1>6, <1>9
<1>10. CASE g \in ByName
  BY <1>2, <1>10
<1>11. CASE g \in Without
  BY <1>3, <1>11
<1>12. CASE g \in Routeless
  BY <1>4, <1>12
<1> HIDE DEF ByName, Without, Routeless, Ifs, Rts
<1> QED BY <1>7, <1>8, <1>9, <1>10, <1>11, <1>12

LEMMA FileRenamed ==
  ASSUME NEW c \in FileType, NEW a \in NamesOf(c), NEW b \in NsNames
  PROVE  Renamed(c, a, b) \in FileType
<1> DEFINE To(x) == IF x = a THEN b ELSE x
           If(f) == [f EXCEPT !.peerNs = To(f.peerNs)]
           Ifs(fs) == [i \in 1..Len(fs) |-> If(fs[i])]
           Ns(ns) == [ns EXCEPT !.name = To(ns.name), !.interfaces = Ifs(ns.interfaces)]
           cs == [p \in 1..Len(c.captures) |-> To(c.captures[p])]
           nss == [n \in 1..Len(c.namespaces) |-> Ns(c.namespaces[n])]
<1>1. Renamed(c, a, b) = [c EXCEPT !.captures = cs, !.namespaces = nss]
  BY DEF Renamed
<1>2. /\ \A x \in Text : To(x) \in Text
      /\ \A x \in Text \ {Host} : To(x) \in Text \ {Host}
  BY FileAssumption DEF FileAssumption
<1>3. c.captures \in Seq(Text) /\ c.namespaces \in Seq(NamespaceType)
  BY DEF FileType
<1>4. cs \in Seq(Text)
  <2>1. Len(c.captures) \in Nat /\ \A p \in 1..Len(c.captures) : c.captures[p] \in Text
    BY <1>3, Elements
  <2>2. \A p \in 1..Len(c.captures) : To(c.captures[p]) \in Text
    BY <1>2, <2>1
  <2> HIDE DEF To
  <2> QED BY <2>1, <2>2, IsASeq
<1>5. ASSUME NEW f \in IfaceType PROVE If(f) \in IfaceType
  <2>1. To(f.peerNs) \in Text
    BY <1>2 DEF IfaceType
  <2> HIDE DEF To
  <2> QED BY <2>1 DEF IfaceType
<1>6. ASSUME NEW fs \in Seq(IfaceType) PROVE Ifs(fs) \in Seq(IfaceType)
  <2>1. Len(fs) \in Nat /\ \A i \in 1..Len(fs) : fs[i] \in IfaceType
    BY <1>6, Elements
  <2>2. \A i \in 1..Len(fs) : If(fs[i]) \in IfaceType
    BY <1>5, <2>1
  <2> HIDE DEF If
  <2> QED BY <2>1, <2>2, IsASeq
<1>7. ASSUME NEW ns \in NamespaceType PROVE Ns(ns) \in NamespaceType
  <2>1. ns.name \in Text \ {Host} /\ ns.interfaces \in Seq(IfaceType)
    BY <1>7 DEF NamespaceType
  <2>2. To(ns.name) \in Text \ {Host} /\ Ifs(ns.interfaces) \in Seq(IfaceType)
    BY <1>2, <1>6, <2>1
  <2> HIDE DEF To, Ifs
  <2> QED BY <1>7, <2>2 DEF NamespaceType
<1>8. nss \in Seq(NamespaceType)
  <2>1. /\ Len(c.namespaces) \in Nat
        /\ \A n \in 1..Len(c.namespaces) : c.namespaces[n] \in NamespaceType
    BY <1>3, Elements
  <2>2. \A n \in 1..Len(c.namespaces) : Ns(c.namespaces[n]) \in NamespaceType
    BY <1>7, <2>1
  <2> HIDE DEF Ns
  <2> QED BY <2>1, <2>2, IsASeq
<1> HIDE DEF cs, nss
<1> QED BY <1>1, <1>4, <1>8 DEF FileType

LEMMA FileEdited ==
  ASSUME NEW c \in FileType, NEW g \in FileEdits(c)
  PROVE  g \in FileType
<1> DEFINE nss == c.namespaces
<1>1. /\ nss \in Seq(NamespaceType) /\ c.subnets \in Seq(Text) /\ c.readable \in BOOLEAN
  BY DEF FileType
<1>2. CASE g = [c EXCEPT !.readable = ~@]
  BY <1>1, <1>2 DEF FileType
<1>3. CASE g = [c EXCEPT !.subnets = Append(@, Bad)]
  <2>1. Append(c.subnets, Bad) \in Seq(Text)
    BY <1>1, Strings, AppendProperties
  <2> QED BY <1>3, <2>1 DEF FileType
<1>4. CASE \E x \in NsNames : g = [c EXCEPT !.captures = <<x>>]
  <2>1. PICK x \in NsNames : g = [c EXCEPT !.captures = <<x>>]
    BY <1>4
  <2>2. x \in Text
    BY FileAssumption DEF FileAssumption
  <2>3. <<x>> \in Seq(Text)
    BY <2>2, One
  <2> QED BY <2>1, <2>3 DEF FileType
<1>5. CASE \E n \in 1..Len(nss) : \E h \in NamespaceEdits(nss[n]) : g = [c EXCEPT !.namespaces[n] = h]
  <2>0. PICK n \in 1..Len(nss) : \E h \in NamespaceEdits(nss[n]) :
          g = [c EXCEPT !.namespaces = [nss EXCEPT ![n] = h]]
    BY <1>5
  <2>1. PICK h \in NamespaceEdits(nss[n]) : g = [c EXCEPT !.namespaces = [nss EXCEPT ![n] = h]]
    BY <2>0
  <2>2. h \in NamespaceType
    BY <1>1, Elements, NamespaceEdited
  <2>3. [nss EXCEPT ![n] = h] \in Seq(NamespaceType)
    BY <1>1, <2>2, Replacing
  <2> QED BY <2>1, <2>3 DEF FileType
<1>6. CASE \E ns \in ToSet(nss) : g = [c EXCEPT !.namespaces = Append(@, ns)]
  <2>1. PICK ns \in ToSet(nss) : g = [c EXCEPT !.namespaces = Append(nss, ns)]
    BY <1>6
  <2>2. ns \in NamespaceType
    BY <1>1, Elements
  <2>3. Append(nss, ns) \in Seq(NamespaceType)
    BY <1>1, <2>2, AppendProperties
  <2> QED BY <2>1, <2>3 DEF FileType
<1>7. CASE \E n \in 1..Len(nss) : g = [c EXCEPT !.namespaces = RemoveAt(@, n)]
  <2>1. PICK n \in 1..Len(nss) : g = [c EXCEPT !.namespaces = RemoveAt(nss, n)]
    BY <1>7
  <2>2. RemoveAt(nss, n) \in Seq(NamespaceType)
    BY <1>1, Removing
  <2> QED BY <2>1, <2>2 DEF FileType
<1>8. CASE \E a \in NamesOf(c), b \in NsNames \ NamesOf(c) : g = Renamed(c, a, b)
  BY <1>8, FileRenamed
<1> QED BY <1>2, <1>3, <1>4, <1>5, <1>6, <1>7, <1>8 DEF FileEdits

LEMMA PeerEdited ==
  ASSUME NEW p \in PeerType, NEW g \in VpnPeerEdits(p)
  PROVE  g \in PeerType
<1>1. PICK x \in Text : \/ g = [p EXCEPT !.target = x] \/ g = [p EXCEPT !.allowed = x]
                       \/ g = [p EXCEPT !.endpoint = x] \/ g = [p EXCEPT !.keepalive = x]
  BY Strings DEF VpnPeerEdits
<1> QED BY <1>1 DEF PeerType

LEMMA VpnRouteEdited ==
  ASSUME NEW node \in NodeType, NEW r \in RouteType, NEW g \in VpnRouteEdits(node, r)
  PROVE  g \in RouteType
<1>1. WgNames \subseteq Text /\ node.ip \in Text
  BY VpnFileAssumption DEF VpnFileAssumption, NodeType
<1>2. PICK x \in Text : \/ g = [r EXCEPT !.target = x] \/ g = [r EXCEPT !.gateway = x]
                       \/ g = [r EXCEPT !.dev = x]
  BY <1>1, Strings DEF VpnRouteEdits
<1> QED BY <1>2 DEF RouteType

LEMMA NodeEdited ==
  ASSUME NEW node \in NodeType, NEW g \in NodeEdits(node)
  PROVE  g \in NodeType
<1> DEFINE ps == node.peers
           rs == node.routes
           ByNs == {[node EXCEPT !.ns = x] : x \in NsNames}
           ByName == {[node EXCEPT !.name = x] : x \in WgNames}
           ByIp == {[node EXCEPT !.ip = x] : x \in Subnets \union {Single, Bad}}
           ByPort == {[node EXCEPT !.port = x] : x \in {Absent, Bad}}
           ByMtu == {[node EXCEPT !.mtu = Bad]}
           Peerless == {[node EXCEPT !.peers = RemoveAt(@, i)] : i \in 1..Len(ps)}
           Routeless == {[node EXCEPT !.routes = RemoveAt(@, j)] : j \in 1..Len(rs)}
           Longer == {[node EXCEPT !.routes = Append(@, ThroughTunnel(node, x))] :
                        x \in Subnets \union {Default, node.ip}}
           Pds(i) == {[node EXCEPT !.peers[i] = h] : h \in VpnPeerEdits(ps[i])}
           Rts(j) == {[node EXCEPT !.routes[j] = h] : h \in VpnRouteEdits(node, rs[j])}
<1>1. /\ ps \in Seq(PeerType) /\ rs \in Seq(RouteType)
      /\ node.ns \in Text /\ node.name \in Text /\ node.ip \in Text
      /\ WgNames \subseteq Text
  BY VpnFileAssumption DEF VpnFileAssumption, NodeType
<1>2. NodeEdits(node) = ByNs \union ByName \union ByIp \union ByPort \union ByMtu
                          \union Peerless \union Routeless \union Longer
                          \union (UNION {Pds(i) : i \in 1..Len(ps)})
                          \union (UNION {Rts(j) : j \in 1..Len(rs)})
  BY DEF NodeEdits
<1>3. CASE g \in ByNs \union ByName \union ByIp \union ByPort \union ByMtu
  <2>1. PICK x \in Text : \/ g = [node EXCEPT !.ns = x] \/ g = [node EXCEPT !.name = x]
                         \/ g = [node EXCEPT !.ip = x] \/ g = [node EXCEPT !.port = x]
                         \/ g = [node EXCEPT !.mtu = x]
    BY <1>1, <1>3, Strings
  <2> QED BY <2>1 DEF NodeType
<1>4. CASE g \in Peerless
  <2>1. PICK i \in 1..Len(ps) : g = [node EXCEPT !.peers = RemoveAt(ps, i)]
    BY <1>4
  <2>2. RemoveAt(ps, i) \in Seq(PeerType)
    BY <1>1, Removing
  <2> QED BY <2>1, <2>2 DEF NodeType
<1>5. CASE g \in Routeless
  <2>1. PICK j \in 1..Len(rs) : g = [node EXCEPT !.routes = RemoveAt(rs, j)]
    BY <1>5
  <2>2. RemoveAt(rs, j) \in Seq(RouteType)
    BY <1>1, Removing
  <2> QED BY <2>1, <2>2 DEF NodeType
<1>6. CASE g \in Longer
  <2>1. PICK x \in Subnets \union {Default, node.ip} :
          g = [node EXCEPT !.routes = Append(rs, ThroughTunnel(node, x))]
    BY <1>6
  <2>2. x \in Text /\ Absent \in Text
    BY <1>1, Strings
  <2>3. ThroughTunnel(node, x) \in RouteType
    BY <1>1, <2>2 DEF ThroughTunnel, RouteType
  <2>4. Append(rs, ThroughTunnel(node, x)) \in Seq(RouteType)
    BY <1>1, <2>3, AppendProperties
  <2> QED BY <2>1, <2>4 DEF NodeType
<1>7. CASE \E i \in 1..Len(ps) : g \in Pds(i)
  <2>1. PICK i \in 1..Len(ps) : \E h \in VpnPeerEdits(ps[i]) :
          g = [node EXCEPT !.peers = [ps EXCEPT ![i] = h]]
    BY <1>7
  <2>2. PICK h \in VpnPeerEdits(ps[i]) : g = [node EXCEPT !.peers = [ps EXCEPT ![i] = h]]
    BY <2>1
  <2>3. h \in PeerType
    BY <1>1, Elements, PeerEdited
  <2>4. [ps EXCEPT ![i] = h] \in Seq(PeerType)
    BY <1>1, <2>3, Replacing
  <2> QED BY <2>2, <2>4 DEF NodeType
<1>8. CASE \E j \in 1..Len(rs) : g \in Rts(j)
  <2>1. PICK j \in 1..Len(rs) : \E h \in VpnRouteEdits(node, rs[j]) :
          g = [node EXCEPT !.routes = [rs EXCEPT ![j] = h]]
    BY <1>8
  <2>2. PICK h \in VpnRouteEdits(node, rs[j]) : g = [node EXCEPT !.routes = [rs EXCEPT ![j] = h]]
    BY <2>1
  <2>3. h \in RouteType
    BY <1>1, Elements, VpnRouteEdited
  <2>4. [rs EXCEPT ![j] = h] \in Seq(RouteType)
    BY <1>1, <2>3, Replacing
  <2> QED BY <2>2, <2>4 DEF NodeType
<1> HIDE DEF ByNs, ByName, ByIp, ByPort, ByMtu, Peerless, Routeless, Longer, Pds, Rts
<1> QED BY <1>2, <1>3, <1>4, <1>5, <1>6, <1>7, <1>8

LEMMA VpnFileEdited ==
  ASSUME NEW v \in VpnFileType, NEW g \in VpnFileEdits(v)
  PROVE  g \in VpnFileType
<1> DEFINE ns == v.nodes
           Shaped == {[v EXCEPT !.shape = x] : x \in Shapes}
           Eds(k) == {[v EXCEPT !.nodes[k] = h] : h \in NodeEdits(ns[k])}
           Fewer == {[v EXCEPT !.nodes = RemoveAt(@, k)] : k \in 1..Len(ns)}
           Named(node, x) == [v EXCEPT !.nodes = Append(@, [node EXCEPT !.name = x])]
           More == {Named(node, x) : node \in ToSet(ns), x \in WgNames}
<1>1. ns \in Seq(NodeType) /\ WgNames \subseteq Text
  BY VpnFileAssumption DEF VpnFileAssumption, VpnFileType
<1>2. VpnFileEdits(v) = Shaped \union (UNION {Eds(k) : k \in 1..Len(ns)}) \union Fewer \union More
  BY DEF VpnFileEdits
<1>3. CASE g \in Shaped
  BY <1>3 DEF VpnFileType
<1>4. CASE \E k \in 1..Len(ns) : g \in Eds(k)
  <2>1. PICK k \in 1..Len(ns) : \E h \in NodeEdits(ns[k]) :
          g = [v EXCEPT !.nodes = [ns EXCEPT ![k] = h]]
    BY <1>4
  <2>2. PICK h \in NodeEdits(ns[k]) : g = [v EXCEPT !.nodes = [ns EXCEPT ![k] = h]]
    BY <2>1
  <2>3. h \in NodeType
    BY <1>1, Elements, NodeEdited
  <2>4. [ns EXCEPT ![k] = h] \in Seq(NodeType)
    BY <1>1, <2>3, Replacing
  <2> QED BY <2>2, <2>4 DEF VpnFileType
<1>5. CASE g \in Fewer
  <2>1. PICK k \in 1..Len(ns) : g = [v EXCEPT !.nodes = RemoveAt(ns, k)]
    BY <1>5
  <2>2. RemoveAt(ns, k) \in Seq(NodeType)
    BY <1>1, Removing
  <2> QED BY <2>1, <2>2 DEF VpnFileType
<1>6. CASE g \in More
  <2>1. PICK node \in ToSet(ns), x \in WgNames : g = Named(node, x)
    <3> HIDE DEF Named
    <3> QED BY <1>6
  <2>2. node \in NodeType
    BY <1>1, Elements
  <2>3. [node EXCEPT !.name = x] \in NodeType
    BY <1>1, <2>2 DEF NodeType
  <2>4. Append(ns, [node EXCEPT !.name = x]) \in Seq(NodeType)
    BY <1>1, <2>3, AppendProperties
  <2> QED BY <2>1, <2>4 DEF VpnFileType
<1> HIDE DEF Shaped, Eds, Fewer, More
<1> QED BY <1>2, <1>3, <1>4, <1>5, <1>6

-----------------------------------------------------------------------------
(***************************************************************************)
(* validate(): what the checks say when they all pass.                     *)
(***************************************************************************)
Errors == {"ok", "InvalidCIDRError", "InvalidIPError", "DuplicateInterfaceError",
           "DuplicateNamespaceError", "MissingGatewayError", "TopologyConsistencyError",
           "VPNPeerResolutionError", "VPNInvalidCIDRError", "VPNInvalidEndpointError",
           "VPNConfigurationError"}

AllOk(s) == \A k \in 1..Len(s) : s[k] = "ok"

LEMMA FirstIs ==
  ASSUME NEW s \in Seq(Errors)
  PROVE  First(s) \in Errors /\ (First(s) = "ok" => AllOk(s))
<1> DEFINE failed == {k \in 1..Len(s) : s[k] # "ok"}
<1>1. Len(s) \in Nat /\ \A k \in 1..Len(s) : s[k] \in Errors
  BY Elements
<1>2. failed = {} => AllOk(s)
  BY DEF AllOk
<1>3. failed # {} => Min(failed) \in failed
  <2>1. failed # {} => \E m \in failed : \A n \in failed : m <= n
    <3>1. failed \in SUBSET Nat
      BY <1>1
    <3> HIDE DEF failed
    <3> QED BY <3>1, LeastNumber
  <2> HIDE DEF failed
  <2> QED BY <2>1 DEF Min
<1>4. First(s) = IF failed = {} THEN "ok" ELSE s[Min(failed)]
  BY DEF First
<1>5. CASE failed = {}
  BY <1>2, <1>4, <1>5 DEF Errors
<1>6. CASE failed # {}
  <2>1. Min(failed) \in 1..Len(s) /\ s[Min(failed)] # "ok"
    BY <1>3, <1>6
  <2> QED BY <1>1, <1>4, <1>6, <2>1
<1> QED BY <1>5, <1>6

LEMMA OkJoined ==
  ASSUME NEW s \in Seq(Errors), NEW t \in Seq(Errors)
  PROVE  /\ s \o t \in Seq(Errors)
         /\ AllOk(s \o t) => AllOk(s) /\ AllOk(t)
<1>1. /\ s \o t \in Seq(Errors) /\ Len(s \o t) = Len(s) + Len(t)
      /\ Len(s) \in Nat /\ Len(t) \in Nat
      /\ \A k \in 1..Len(s) : (s \o t)[k] = s[k]
      /\ \A k \in 1..Len(t) : (s \o t)[Len(s) + k] = t[k]
  BY Concats
<1>2. /\ \A k \in 1..Len(s) : k \in 1..(Len(s) + Len(t))
      /\ \A k \in 1..Len(t) : Len(s) + k \in 1..(Len(s) + Len(t))
  BY <1>1
<1> QED BY <1>1, <1>2 DEF AllOk

LEMMA OkFlattened ==
  ASSUME NEW seqs \in Seq(Seq(Errors))
  PROVE  /\ FlattenSeq(seqs) \in Seq(Errors)
         /\ AllOk(FlattenSeq(seqs)) => \A i \in 1..Len(seqs) : AllOk(seqs[i])
<1>1. FlattenSeq(seqs) \in Seq(Errors)
  BY Flattened
<1>2. PICK off : Lays(off, seqs, FlattenSeq(seqs))
  BY Flattened
<1>3. \A i \in 1..Len(seqs) : \A j \in 1..Len(seqs[i]) :
        /\ off[i - 1] + j \in 1..Len(FlattenSeq(seqs))
        /\ FlattenSeq(seqs)[off[i - 1] + j] = seqs[i][j]
  BY <1>2 DEF Lays
<1> QED BY <1>1, <1>3 DEF AllOk

LEMMA Two ==
  ASSUME NEW S, NEW a \in S, NEW b \in S
  PROVE  /\ <<a, b>> \in Seq(S) /\ Len(<<a, b>>) = 2
         /\ <<a, b>>[1] = a /\ <<a, b>>[2] = b
OBVIOUS

LEMMA Three ==
  ASSUME NEW S, NEW a \in S, NEW b \in S, NEW d \in S
  PROVE  /\ <<a, b, d>> \in Seq(S) /\ Len(<<a, b, d>>) = 3
         /\ <<a, b, d>>[1] = a /\ <<a, b, d>>[2] = b /\ <<a, b, d>>[3] = d
OBVIOUS

LEMMA InterfaceChecked ==
  ASSUME NEW c \in FileType, NEW n \in 1..Len(c.namespaces),
         NEW i \in 1..Len(c.namespaces[n].interfaces)
  PROVE  /\ IfaceChecks(c, n, i) \in Seq(Errors)
         /\ AllOk(IfaceChecks(c, n, i)) =>
              ~IfaceSeen(c, n, i) /\ c.namespaces[n].interfaces[i].ip # Bad
<1> DEFINE a == Check(IfaceSeen(c, n, i), "DuplicateInterfaceError")
           b == Check(c.namespaces[n].interfaces[i].ip = Bad, "InvalidIPError")
<1>1. /\ a \in Errors /\ (a = "ok" => ~IfaceSeen(c, n, i))
      /\ b \in Errors /\ (b = "ok" => c.namespaces[n].interfaces[i].ip # Bad)
  BY DEF Check, Errors
<1>2. IfaceChecks(c, n, i) = <<a, b>>
  BY DEF IfaceChecks
<1> HIDE DEF a, b
<1>3. /\ <<a, b>> \in Seq(Errors) /\ Len(<<a, b>>) = 2
      /\ <<a, b>>[1] = a /\ <<a, b>>[2] = b
  BY <1>1, Two
<1>4. AllOk(<<a, b>>) => a = "ok" /\ b = "ok"
  BY <1>3 DEF AllOk
<1> QED BY <1>1, <1>2, <1>3, <1>4

LEMMA RouteChecked ==
  ASSUME NEW r \in RouteType
  PROVE  /\ RouteChecks(r) \in Seq(Errors)
         /\ AllOk(RouteChecks(r)) =>
              /\ r.target # Bad /\ r.gateway # Bad
              /\ r.gateway # Absent \/ r.dev # Absent
<1> DEFINE a == Check(r.target = Bad, "InvalidCIDRError")
           b == Check(r.gateway = Absent /\ r.dev = Absent, "MissingGatewayError")
           d == Check(r.gateway = Bad, "InvalidIPError")
<1>1. /\ a \in Errors /\ (a = "ok" => r.target # Bad)
      /\ b \in Errors /\ (b = "ok" => r.gateway # Absent \/ r.dev # Absent)
      /\ d \in Errors /\ (d = "ok" => r.gateway # Bad)
  BY DEF Check, Errors
<1>2. RouteChecks(r) = <<a, b, d>>
  BY DEF RouteChecks
<1> HIDE DEF a, b, d
<1>3. /\ <<a, b, d>> \in Seq(Errors) /\ Len(<<a, b, d>>) = 3
      /\ <<a, b, d>>[1] = a /\ <<a, b, d>>[2] = b /\ <<a, b, d>>[3] = d
  BY <1>1, Three
<1>4. AllOk(<<a, b, d>>) => a = "ok" /\ b = "ok" /\ d = "ok"
  BY <1>3 DEF AllOk
<1> QED BY <1>1, <1>2, <1>3, <1>4

\* A sequence given element by element.
\* What a namespace that passes its checks is like.
NamespaceFine(c, n) ==
  LET ns == c.namespaces[n]
  IN  /\ \A m \in 1..(n - 1) : c.namespaces[m].name # ns.name
      /\ \A i \in 1..Len(ns.interfaces) : ~IfaceSeen(c, n, i) /\ ns.interfaces[i].ip # Bad
      /\ \A i \in 1..Len(ns.routes) :
           /\ ns.routes[i].target # Bad /\ ns.routes[i].gateway # Bad
           /\ ns.routes[i].gateway # Absent \/ ns.routes[i].dev # Absent

LEMMA NamespaceChecked ==
  ASSUME NEW c \in FileType, NEW n \in 1..Len(c.namespaces)
  PROVE  /\ NamespaceChecks(c, n) \in Seq(Errors)
         /\ AllOk(NamespaceChecks(c, n)) => NamespaceFine(c, n)
<1> DEFINE ns == c.namespaces[n]
           a == Check(\E m \in 1..(n - 1) : c.namespaces[m].name = ns.name,
                      "DuplicateNamespaceError")
           fs == [i \in 1..Len(ns.interfaces) |-> IfaceChecks(c, n, i)]
           rs == [i \in 1..Len(ns.routes) |-> RouteChecks(ns.routes[i])]
<1>1. ns \in NamespaceType
  BY Elements DEF FileType
<1>2. /\ ns.interfaces \in Seq(IfaceType) /\ ns.routes \in Seq(RouteType)
      /\ Len(ns.interfaces) \in Nat /\ Len(ns.routes) \in Nat
      /\ \A i \in 1..Len(ns.routes) : ns.routes[i] \in RouteType
  <2>1. ns.interfaces \in Seq(IfaceType) /\ ns.routes \in Seq(RouteType)
    BY <1>1 DEF NamespaceType
  <2> QED BY <2>1, Elements
<1>3. a \in Errors /\ (a = "ok" => \A m \in 1..(n - 1) : c.namespaces[m].name # ns.name)
  BY DEF Check, Errors
<1>4. NamespaceChecks(c, n) = <<a>> \o FlattenSeq(fs) \o FlattenSeq(rs)
  BY DEF NamespaceChecks
<1>5. fs \in Seq(Seq(Errors)) /\ Len(fs) = Len(ns.interfaces)
      /\ \A i \in 1..Len(ns.interfaces) : fs[i] = IfaceChecks(c, n, i)
  <2>1. \A i \in 1..Len(ns.interfaces) : IfaceChecks(c, n, i) \in Seq(Errors)
    BY InterfaceChecked
  <2> QED BY <1>2, <2>1, IsASeq
<1>6. rs \in Seq(Seq(Errors)) /\ Len(rs) = Len(ns.routes)
      /\ \A i \in 1..Len(ns.routes) : rs[i] = RouteChecks(ns.routes[i])
  <2>1. \A i \in 1..Len(ns.routes) : RouteChecks(ns.routes[i]) \in Seq(Errors)
    BY <1>2, RouteChecked
  <2> QED BY <1>2, <2>1, IsASeq
<1> HIDE DEF fs, rs, a
<1>7. /\ <<a>> \in Seq(Errors)
      /\ AllOk(<<a>>) => a = "ok"
      /\ FlattenSeq(fs) \in Seq(Errors) /\ FlattenSeq(rs) \in Seq(Errors)
      /\ AllOk(FlattenSeq(fs)) => \A i \in 1..Len(fs) : AllOk(fs[i])
      /\ AllOk(FlattenSeq(rs)) => \A i \in 1..Len(rs) : AllOk(rs[i])
  <2>1. <<a>> \in Seq(Errors)
    BY <1>3, One
  <2>2. AllOk(<<a>>) => a = "ok"
    BY DEF AllOk
  <2> QED BY <2>1, <2>2, <1>5, <1>6, OkFlattened
<1>8. /\ <<a>> \o FlattenSeq(fs) \in Seq(Errors)
      /\ AllOk(<<a>> \o FlattenSeq(fs)) => AllOk(<<a>>) /\ AllOk(FlattenSeq(fs))
  BY <1>7, OkJoined
<1>9. /\ NamespaceChecks(c, n) \in Seq(Errors)
      /\ AllOk(NamespaceChecks(c, n))
         => AllOk(<<a>> \o FlattenSeq(fs)) /\ AllOk(FlattenSeq(rs))
  BY <1>4, <1>7, <1>8, OkJoined
<1>10. ASSUME AllOk(NamespaceChecks(c, n))
       PROVE  /\ a = "ok"
              /\ \A i \in 1..Len(ns.interfaces) : AllOk(IfaceChecks(c, n, i))
              /\ \A i \in 1..Len(ns.routes) : AllOk(RouteChecks(ns.routes[i]))
  BY <1>5, <1>6, <1>7, <1>8, <1>9, <1>10
<1>11. ASSUME AllOk(NamespaceChecks(c, n))
       PROVE  /\ \A i \in 1..Len(ns.interfaces) :
                   ~IfaceSeen(c, n, i) /\ ns.interfaces[i].ip # Bad
              /\ \A i \in 1..Len(ns.routes) :
                   /\ ns.routes[i].target # Bad /\ ns.routes[i].gateway # Bad
                   /\ ns.routes[i].gateway # Absent \/ ns.routes[i].dev # Absent
  <2>1. \A i \in 1..Len(ns.interfaces) : ~IfaceSeen(c, n, i) /\ ns.interfaces[i].ip # Bad
    BY <1>10, <1>11, InterfaceChecked
  <2>2. ASSUME NEW i \in 1..Len(ns.routes)
        PROVE  /\ ns.routes[i].target # Bad /\ ns.routes[i].gateway # Bad
               /\ ns.routes[i].gateway # Absent \/ ns.routes[i].dev # Absent
    BY <1>2, <1>10, <1>11, RouteChecked
  <2> QED BY <2>1, <2>2
<1>12. AllOk(NamespaceChecks(c, n)) => \A m \in 1..(n - 1) : c.namespaces[m].name # ns.name
  BY <1>3, <1>10
<1> QED BY <1>9, <1>11, <1>12 DEF NamespaceFine

\* What a file that passes validate() is like.
Fine(c) ==
  /\ \A s \in 1..Len(c.subnets) : c.subnets[s] # Bad
  /\ \A n \in 1..Len(c.namespaces) : NamespaceFine(c, n)
  /\ \A n \in 1..Len(c.namespaces) : \A i \in 1..Len(c.namespaces[n].interfaces) :
       c.namespaces[n].interfaces[i].peerNs \in NamesOf(c) \union {Absent}
  /\ \A p \in 1..Len(c.captures) : c.captures[p] \in NamesOf(c)

LEMMA PeersChecked ==
  ASSUME NEW c \in FileType, NEW n \in 1..Len(c.namespaces)
  PROVE  /\ PeerChecks(c, n) \in Seq(Errors)
         /\ AllOk(PeerChecks(c, n)) =>
              \A i \in 1..Len(c.namespaces[n].interfaces) :
                c.namespaces[n].interfaces[i].peerNs \in NamesOf(c) \union {Absent}
<1> DEFINE fs == c.namespaces[n].interfaces
           N == Len(fs)
           bad(i) == fs[i].peerNs # Absent /\ fs[i].peerNs \notin NamesOf(c)
           s == [i \in 1..N |-> Check(bad(i), "TopologyConsistencyError")]
<1>1. N \in Nat
  <2>1. c.namespaces[n] \in NamespaceType
    BY Elements DEF FileType
  <2>2. fs \in Seq(IfaceType)
    BY <2>1 DEF NamespaceType
  <2> QED BY <2>2, Elements
<1>2. PeerChecks(c, n) = s
  BY DEF PeerChecks
<1>3. \A i \in 1..N : Check(bad(i), "TopologyConsistencyError") \in Errors
  BY DEF Check, Errors
<1>4. \A i \in 1..N : Check(bad(i), "TopologyConsistencyError") = "ok" => ~bad(i)
  BY DEF Check
<1>5. s \in Seq(Errors) /\ Len(s) = N
      /\ \A i \in 1..N : s[i] = Check(bad(i), "TopologyConsistencyError")
  <2> HIDE DEF N, bad
  <2> QED BY <1>1, <1>3, IsASeq
<1>6. AllOk(s) => \A i \in 1..N : ~bad(i)
  <2> HIDE DEF N, bad, s
  <2> QED BY <1>4, <1>5 DEF AllOk
<1> HIDE DEF s
<1> QED BY <1>2, <1>5, <1>6

LEMMA FileChecked ==
  ASSUME NEW c \in FileType
  PROVE  Verdict(c) \in Errors /\ (Verdict(c) = "ok" => Fine(c))
<1> DEFINE N == Len(c.namespaces)
           ss == [s \in 1..Len(c.subnets) |-> Check(c.subnets[s] = Bad, "InvalidCIDRError")]
           nss == [n \in 1..N |-> NamespaceChecks(c, n)]
           ps == [n \in 1..N |-> PeerChecks(c, n)]
           cs == [p \in 1..Len(c.captures) |->
                    Check(c.captures[p] \notin NamesOf(c), "TopologyConsistencyError")]
<1>1. Len(c.subnets) \in Nat /\ N \in Nat /\ Len(c.captures) \in Nat
  <2>1. c.subnets \in Seq(Text) /\ c.namespaces \in Seq(NamespaceType) /\ c.captures \in Seq(Text)
    BY DEF FileType
  <2> QED BY <2>1, Elements
<1>2. ss \in Seq(Errors) /\ (AllOk(ss) => \A s \in 1..Len(c.subnets) : c.subnets[s] # Bad)
  <2>1. \A s \in 1..Len(c.subnets) :
          /\ Check(c.subnets[s] = Bad, "InvalidCIDRError") \in Errors
          /\ Check(c.subnets[s] = Bad, "InvalidCIDRError") = "ok" => c.subnets[s] # Bad
    BY DEF Check, Errors
  <2>2. ss \in Seq(Errors) /\ Len(ss) = Len(c.subnets)
        /\ \A s \in 1..Len(c.subnets) : ss[s] = Check(c.subnets[s] = Bad, "InvalidCIDRError")
    BY <1>1, <2>1, IsASeq
  <2> HIDE DEF ss
  <2> QED BY <2>1, <2>2 DEF AllOk
<1>3. cs \in Seq(Errors) /\ (AllOk(cs) => \A p \in 1..Len(c.captures) : c.captures[p] \in NamesOf(c))
  <2>1. \A p \in 1..Len(c.captures) :
          /\ Check(c.captures[p] \notin NamesOf(c), "TopologyConsistencyError") \in Errors
          /\ Check(c.captures[p] \notin NamesOf(c), "TopologyConsistencyError") = "ok"
             => c.captures[p] \in NamesOf(c)
    BY DEF Check, Errors
  <2>2. cs \in Seq(Errors) /\ Len(cs) = Len(c.captures)
        /\ \A p \in 1..Len(c.captures) :
             cs[p] = Check(c.captures[p] \notin NamesOf(c), "TopologyConsistencyError")
    BY <1>1, <2>1, IsASeq
  <2> HIDE DEF cs
  <2> QED BY <2>1, <2>2 DEF AllOk
<1>4. nss \in Seq(Seq(Errors)) /\ Len(nss) = N /\ \A n \in 1..N : nss[n] = NamespaceChecks(c, n)
  <2>1. \A n \in 1..N : NamespaceChecks(c, n) \in Seq(Errors)
    BY NamespaceChecked
  <2> QED BY <1>1, <2>1, IsASeq
<1>5. ps \in Seq(Seq(Errors)) /\ Len(ps) = N /\ \A n \in 1..N : ps[n] = PeerChecks(c, n)
  <2>1. \A n \in 1..N : PeerChecks(c, n) \in Seq(Errors)
    BY PeersChecked
  <2> QED BY <1>1, <2>1, IsASeq
<1>6. Checks(c) = ss \o FlattenSeq(nss) \o FlattenSeq(ps) \o cs
  BY DEF Checks
<1> HIDE DEF ss, nss, ps, cs
<1>7. /\ FlattenSeq(nss) \in Seq(Errors)
      /\ AllOk(FlattenSeq(nss)) => \A n \in 1..N : AllOk(nss[n])
      /\ FlattenSeq(ps) \in Seq(Errors)
      /\ AllOk(FlattenSeq(ps)) => \A n \in 1..N : AllOk(ps[n])
  BY <1>4, <1>5, OkFlattened
<1> DEFINE x == ss \o FlattenSeq(nss)
           y == x \o FlattenSeq(ps)
<1>8. /\ x \in Seq(Errors)
      /\ AllOk(x) => AllOk(ss) /\ AllOk(FlattenSeq(nss))
  BY <1>2, <1>7, OkJoined
<1> HIDE DEF x
<1>9. /\ y \in Seq(Errors)
      /\ AllOk(y) => AllOk(x) /\ AllOk(FlattenSeq(ps))
  BY <1>7, <1>8, OkJoined
<1> HIDE DEF y
<1>10. /\ y \o cs \in Seq(Errors)
       /\ AllOk(y \o cs) => AllOk(y) /\ AllOk(cs)
  BY <1>3, <1>9, OkJoined
<1>11. Checks(c) = y \o cs
  BY <1>6 DEF x, y
<1>12. ASSUME AllOk(Checks(c)) PROVE Fine(c)
  <2>1. /\ AllOk(ss) /\ AllOk(cs)
        /\ \A n \in 1..N : AllOk(nss[n]) /\ AllOk(ps[n])
    BY <1>7, <1>8, <1>9, <1>10, <1>11, <1>12
  <2>2. \A n \in 1..N : NamespaceFine(c, n)
    BY <1>4, <2>1, NamespaceChecked
  <2>3. \A n \in 1..N : \A i \in 1..Len(c.namespaces[n].interfaces) :
          c.namespaces[n].interfaces[i].peerNs \in NamesOf(c) \union {Absent}
    BY <1>5, <2>1, PeersChecked
  <2> QED BY <1>2, <1>3, <2>1, <2>2, <2>3 DEF Fine
<1> QED BY <1>10, <1>11, <1>12, FirstIs DEF Verdict

-----------------------------------------------------------------------------
(***************************************************************************)
(* The interfaces of a file, in the order build() takes them.              *)
(***************************************************************************)
ElementType == [ns : Text \ {Host}, f : IfaceType]

Element(c, n, i) ==
  [ns |-> c.namespaces[n].name, f |-> c.namespaces[n].interfaces[i]]

LEMMA FileParts ==
  ASSUME NEW c \in FileType
  PROVE  /\ Len(c.namespaces) \in Nat /\ Len(c.subnets) \in Nat /\ Len(c.captures) \in Nat
         /\ c.namespaces \in Seq(NamespaceType)
         /\ ToSet(c.subnets) = {c.subnets[s] : s \in 1..Len(c.subnets)}
         /\ ToSet(c.captures) = {c.captures[p] : p \in 1..Len(c.captures)}
         /\ \A n \in 1..Len(c.namespaces) :
              /\ c.namespaces[n] \in NamespaceType
              /\ c.namespaces[n].name \in Text \ {Host}
              /\ c.namespaces[n].interfaces \in Seq(IfaceType)
              /\ c.namespaces[n].routes \in Seq(RouteType)
              /\ Len(c.namespaces[n].interfaces) \in Nat
              /\ Len(c.namespaces[n].routes) \in Nat
              /\ ToSet(c.namespaces[n].routes) =
                   {c.namespaces[n].routes[i] : i \in 1..Len(c.namespaces[n].routes)}
              /\ \A i \in 1..Len(c.namespaces[n].interfaces) : Element(c, n, i) \in ElementType
<1>1. /\ c.namespaces \in Seq(NamespaceType) /\ c.subnets \in Seq(Text) /\ c.captures \in Seq(Text)
  BY DEF FileType
<1>2. /\ Len(c.namespaces) \in Nat /\ Len(c.subnets) \in Nat /\ Len(c.captures) \in Nat
      /\ ToSet(c.subnets) = {c.subnets[s] : s \in 1..Len(c.subnets)}
      /\ ToSet(c.captures) = {c.captures[p] : p \in 1..Len(c.captures)}
      /\ \A n \in 1..Len(c.namespaces) : c.namespaces[n] \in NamespaceType
  BY <1>1, Elements
<1>3. ASSUME NEW ns \in NamespaceType
      PROVE  /\ ns.name \in Text \ {Host}
             /\ ns.interfaces \in Seq(IfaceType) /\ ns.routes \in Seq(RouteType)
             /\ Len(ns.interfaces) \in Nat /\ Len(ns.routes) \in Nat
             /\ ToSet(ns.routes) = {ns.routes[i] : i \in 1..Len(ns.routes)}
             /\ \A i \in 1..Len(ns.interfaces) : ns.interfaces[i] \in IfaceType
  <2>1. /\ ns.name \in Text \ {Host}
        /\ ns.interfaces \in Seq(IfaceType) /\ ns.routes \in Seq(RouteType)
    BY DEF NamespaceType
  <2> QED BY <2>1, Elements
<1>4. \A n \in 1..Len(c.namespaces) : \A i \in 1..Len(c.namespaces[n].interfaces) :
        Element(c, n, i) \in ElementType
  BY <1>2, <1>3 DEF Element, ElementType
<1> QED BY <1>1, <1>2, <1>3, <1>4

LEMMA IfacesAre ==
  ASSUME NEW c \in FileType
  PROVE  /\ Ifaces(c) \in Seq(ElementType)
         /\ \A k, l \in 1..Len(Ifaces(c)) : k # l =>
              \E m, n \in 1..Len(c.namespaces) :
              \E i \in 1..Len(c.namespaces[m].interfaces) :
              \E j \in 1..Len(c.namespaces[n].interfaces) :
                /\ Ifaces(c)[k] = Element(c, m, i) /\ Ifaces(c)[l] = Element(c, n, j)
                /\ m # n \/ i # j
         /\ ToSet(Ifaces(c)) =
              {Ifaces(c)[k] : k \in 1..Len(Ifaces(c))}
         /\ \A e \in ToSet(Ifaces(c)) : \E n \in 1..Len(c.namespaces) :
              \E i \in 1..Len(c.namespaces[n].interfaces) : e = Element(c, n, i)
<1> DEFINE N == Len(c.namespaces)
           L(n) == Len(c.namespaces[n].interfaces)
           piece(n) == [i \in 1..L(n) |-> Element(c, n, i)]
           seqs == [n \in 1..N |-> piece(n)]
<1>1. /\ N \in Nat /\ \A n \in 1..N : L(n) \in Nat
      /\ \A n \in 1..N : \A i \in 1..L(n) : Element(c, n, i) \in ElementType
  BY FileParts
<1>2. Ifaces(c) = FlattenSeq(seqs)
  BY DEF Ifaces, Element
<1>3. ASSUME NEW n \in 1..N
      PROVE  /\ piece(n) \in Seq(ElementType) /\ Len(piece(n)) = L(n)
             /\ \A i \in 1..L(n) : piece(n)[i] = Element(c, n, i)
  <2>1. L(n) \in Nat /\ \A i \in 1..L(n) : Element(c, n, i) \in ElementType
    BY <1>1
  <2> HIDE DEF L
  <2> QED BY <2>1, IsASeq
<1>4. /\ seqs \in Seq(Seq(ElementType)) /\ Len(seqs) = N
      /\ \A n \in 1..N : seqs[n] = piece(n)
  <2> HIDE DEF piece, N
  <2> QED BY <1>1, <1>3, IsASeq
<1> HIDE DEF seqs, piece, L, N
<1>5. Ifaces(c) \in Seq(ElementType)
  BY <1>2, <1>4, Flattened
<1>6. PICK off : Lays(off, seqs, Ifaces(c))
  BY <1>2, <1>4, Flattened
<1>7. /\ \A n \in 1..N : \A i \in 1..L(n) :
           /\ off[n - 1] + i \in 1..Len(Ifaces(c))
           /\ Ifaces(c)[off[n - 1] + i] = Element(c, n, i)
      /\ \A k \in 1..Len(Ifaces(c)) : \E n \in 1..N : \E i \in 1..L(n) : k = off[n - 1] + i
  <2>1. \A n \in 1..N : Len(seqs[n]) = L(n) /\ \A i \in 1..L(n) : seqs[n][i] = Element(c, n, i)
    BY <1>3, <1>4
  <2>2. /\ \A n \in 1..N : \A i \in 1..Len(seqs[n]) :
             /\ off[n - 1] + i \in 1..Len(Ifaces(c))
             /\ Ifaces(c)[off[n - 1] + i] = seqs[n][i]
        /\ \A k \in 1..Len(Ifaces(c)) : \E n \in 1..N : \E i \in 1..Len(seqs[n]) :
             k = off[n - 1] + i
    BY <1>4, <1>6, Zenon DEF Lays
  <2>3. \A n \in 1..N : \A i \in 1..L(n) :
          /\ off[n - 1] + i \in 1..Len(Ifaces(c))
          /\ Ifaces(c)[off[n - 1] + i] = Element(c, n, i)
    BY <2>1, <2>2
  <2>4. \A k \in 1..Len(Ifaces(c)) : \E n \in 1..N : \E i \in 1..L(n) : k = off[n - 1] + i
    BY <2>1, <2>2, ZenonT(40)
  <2> QED BY <2>3, <2>4
<1>8. ASSUME NEW k \in 1..Len(Ifaces(c)), NEW l \in 1..Len(Ifaces(c)), k # l
      PROVE  \E m, n \in 1..N : \E i \in 1..L(m) : \E j \in 1..L(n) :
                /\ Ifaces(c)[k] = Element(c, m, i) /\ Ifaces(c)[l] = Element(c, n, j)
                /\ m # n \/ i # j
  <2>1. PICK m \in 1..N : \E i \in 1..L(m) : k = off[m - 1] + i
    BY <1>7
  <2>2. PICK i \in 1..L(m) : k = off[m - 1] + i
    BY <2>1
  <2>3. PICK n \in 1..N : \E j \in 1..L(n) : l = off[n - 1] + j
    BY <1>7
  <2>4. PICK j \in 1..L(n) : l = off[n - 1] + j
    BY <2>3
  <2>5. m # n \/ i # j
    BY <1>8, <2>2, <2>4
  <2>6. Ifaces(c)[k] = Element(c, m, i) /\ Ifaces(c)[l] = Element(c, n, j)
    BY <1>7, <2>2, <2>4
  <2> QED BY <2>5, <2>6
<1>9. ToSet(Ifaces(c)) = {Ifaces(c)[k] : k \in 1..Len(Ifaces(c))}
  BY <1>5, Elements
<1>10. \A k \in 1..Len(Ifaces(c)) : \E n \in 1..N : \E i \in 1..L(n) :
         Ifaces(c)[k] = Element(c, n, i)
  BY <1>7
<1> QED BY <1>5, <1>8, <1>9, <1>10 DEF N, L

\* No two interfaces of a file that passes have the same name.
LEMMA NamesDiffer ==
  ASSUME NEW c \in FileType, Fine(c), NEW k \in 1..Len(Ifaces(c)), NEW l \in 1..Len(Ifaces(c)),
         k # l
  PROVE  Ifaces(c)[k].f.name # Ifaces(c)[l].f.name
<1> DEFINE N == Len(c.namespaces)
           L(n) == Len(c.namespaces[n].interfaces)
           Name(n, i) == c.namespaces[n].interfaces[i].name
<1>1. PICK m, n \in 1..N : \E i \in 1..L(m) : \E j \in 1..L(n) :
         /\ Ifaces(c)[k] = Element(c, m, i) /\ Ifaces(c)[l] = Element(c, n, j)
         /\ m # n \/ i # j
  BY IfacesAre
<1>2. PICK i \in 1..L(m) : \E j \in 1..L(n) :
         /\ Ifaces(c)[k] = Element(c, m, i) /\ Ifaces(c)[l] = Element(c, n, j)
         /\ m # n \/ i # j
  BY <1>1
<1>3. PICK j \in 1..L(n) :
         /\ Ifaces(c)[k] = Element(c, m, i) /\ Ifaces(c)[l] = Element(c, n, j)
         /\ m # n \/ i # j
  BY <1>2
<1>4. Ifaces(c)[k].f.name = Name(m, i) /\ Ifaces(c)[l].f.name = Name(n, j)
  BY <1>3 DEF Element
<1>5. N \in Nat /\ m \in Nat /\ n \in Nat /\ i \in Nat /\ j \in Nat
      /\ m >= 1 /\ n >= 1 /\ i >= 1 /\ j >= 1
  BY FileParts
<1>6. \A a \in 1..N : \A x \in 1..L(a) : ~IfaceSeen(c, a, x)
  BY DEF Fine, NamespaceFine
<1>7. \A a \in 1..N : \A x \in 1..L(a) : \A b \in 1..a : \A y \in 1..L(b) :
        b < a \/ y < x => Name(b, y) # Name(a, x)
  BY <1>6 DEF IfaceSeen
<1>8. Name(m, i) # Name(n, j)
  <2>1. CASE m < n \/ (m = n /\ i < j)
    <3>1. m \in 1..n
      BY <1>5, <2>1
    <3> QED BY <1>7, <2>1, <3>1
  <2>2. CASE n < m \/ (m = n /\ j < i)
    <3>1. n \in 1..m
      BY <1>5, <2>2
    <3> QED BY <1>7, <2>2, <3>1
  <2>3. m < n \/ n < m \/ (m = n /\ (i < j \/ j < i))
    BY <1>3, <1>5
  <2> QED BY <2>1, <2>2, <2>3
<1> QED BY <1>4, <1>8

\* A sequence without repetitions has as many elements as places.
LEMMA AsManyAsPlaces ==
  ASSUME NEW N \in Nat, NEW s, \A k, l \in 1..N : k # l => s[k] # s[l]
  PROVE  Cardinality({s[k] : k \in 1..N}) = N
<1> DEFINE T == {s[k] : k \in 1..N}
           f == [k \in 1..N |-> s[k]]
<1>1. f \in [1..N -> T]
  OBVIOUS
<1>2. \A k, l \in 1..N : f[k] = f[l] => k = l
  OBVIOUS
<1>3. \A t \in T : \E k \in 1..N : f[k] = t
  OBVIOUS
<1>4. f \in Bijection(1..N, T)
  <2> HIDE DEF f, T
  <2> QED BY <1>1, <1>2, <1>3, Fun_IsBij
<1>5. IsFiniteSet(1..N) /\ Cardinality(1..N) = N
  BY FS_Interval
<1> HIDE DEF f, T
<1>6. ExistsBijection(1..N, T)
  BY <1>4 DEF ExistsBijection
<1>7. Cardinality(T) = Cardinality(1..N)
  BY <1>5, <1>6, FS_Bijection
<1> QED BY <1>5, <1>7 DEF T

\* A file that passes validate() is consistent.
LEMMA FineIsConsistent ==
  ASSUME NEW c \in FileType, Fine(c)
  PROVE  LET es == Ifaces(c)
             rs == UNION {ToSet(c.namespaces[n].routes) : n \in 1..Len(c.namespaces)}
         IN  /\ Cardinality(NamesOf(c)) = Len(c.namespaces)
             /\ Cardinality({es[i].f.name : i \in 1..Len(es)}) = Len(es)
             /\ \A e \in ToSet(es) : e.f.peerNs \in NamesOf(c) \union {Absent}
             /\ \A r \in rs : r.gateway # Absent \/ r.dev # Absent
             /\ ToSet(c.captures) \subseteq NamesOf(c)
             /\ Bad \notin ToSet(c.subnets) \union {e.f.ip : e \in ToSet(es)}
                             \union {r.gateway : r \in rs} \union {r.target : r \in rs}
<1> DEFINE es == Ifaces(c)
           rs == UNION {ToSet(c.namespaces[n].routes) : n \in 1..Len(c.namespaces)}
           N == Len(c.namespaces)
<1>1. Cardinality(NamesOf(c)) = N
  <2> DEFINE s == [n \in 1..N |-> c.namespaces[n].name]
  <2>1. N \in Nat
    BY FileParts
  <2>2. ASSUME NEW k \in 1..N, NEW l \in 1..N, k # l PROVE s[k] # s[l]
    <3>0. \A n \in 1..N : \A m \in 1..(n - 1) : c.namespaces[m].name # c.namespaces[n].name
      BY DEF Fine, NamespaceFine
    <3>1. \A n \in 1..N : \A m \in 1..(n - 1) : s[m] # s[n]
      <4>1. \A n \in 1..N : \A m \in 1..(n - 1) : m \in 1..N
        BY <2>1
      <4> QED BY <3>0, <4>1
    <3>2. k \in 1..(l - 1) \/ l \in 1..(k - 1)
      BY <2>1, <2>2
    <3> HIDE DEF s, N
    <3> QED BY <3>1, <3>2
  <2>3. NamesOf(c) = {s[n] : n \in 1..N}
    BY DEF NamesOf
  <2> HIDE DEF s, N
  <2> QED BY <2>1, <2>2, <2>3, AsManyAsPlaces
<1>2. Cardinality({es[i].f.name : i \in 1..Len(es)}) = Len(es)
  <2> DEFINE s == [k \in 1..Len(es) |-> es[k].f.name]
             T == {es[i].f.name : i \in 1..Len(es)}
  <2>1. Len(es) \in Nat
    BY IfacesAre, Elements
  <2>2. \A k, l \in 1..Len(es) : k # l => s[k] # s[l]
    BY NamesDiffer
  <2>3. T = {s[k] : k \in 1..Len(es)}
    OBVIOUS
  <2> HIDE DEF s, es, T
  <2>4. Cardinality({s[k] : k \in 1..Len(es)}) = Len(es)
    BY <2>1, <2>2, AsManyAsPlaces
  <2> QED BY <2>3, <2>4 DEF T
<1>3. \A e \in ToSet(es) :
        e.f.peerNs \in NamesOf(c) \union {Absent} /\ e.f.ip # Bad
  <2> SUFFICES ASSUME NEW e \in ToSet(es)
               PROVE  e.f.peerNs \in NamesOf(c) \union {Absent} /\ e.f.ip # Bad
    OBVIOUS
  <2>1. PICK n \in 1..N : \E i \in 1..Len(c.namespaces[n].interfaces) : e = Element(c, n, i)
    BY IfacesAre
  <2>2. PICK i \in 1..Len(c.namespaces[n].interfaces) : e = Element(c, n, i)
    BY <2>1
  <2> QED BY <2>2 DEF Fine, NamespaceFine, Element
<1>4. \A r \in rs : /\ r.gateway # Absent \/ r.dev # Absent
                    /\ r.gateway # Bad /\ r.target # Bad
  <2> SUFFICES ASSUME NEW n \in 1..N, NEW r \in ToSet(c.namespaces[n].routes)
               PROVE  /\ r.gateway # Absent \/ r.dev # Absent
                      /\ r.gateway # Bad /\ r.target # Bad
    OBVIOUS
  <2>0. ToSet(c.namespaces[n].routes) =
          {c.namespaces[n].routes[i] : i \in 1..Len(c.namespaces[n].routes)}
    BY FileParts
  <2>1. PICK i \in 1..Len(c.namespaces[n].routes) : r = c.namespaces[n].routes[i]
    BY <2>0
  <2> QED BY <2>1 DEF Fine, NamespaceFine
<1>5. ToSet(c.captures) \subseteq NamesOf(c) /\ Bad \notin ToSet(c.subnets)
  <2>1. /\ ToSet(c.captures) = {c.captures[p] : p \in 1..Len(c.captures)}
        /\ ToSet(c.subnets) = {c.subnets[s] : s \in 1..Len(c.subnets)}
    BY FileParts
  <2> QED BY <2>1 DEF Fine
<1> HIDE DEF es, rs, N
<1> QED BY <1>1, <1>2, <1>3, <1>4, <1>5 DEF es, rs, N

-----------------------------------------------------------------------------
(***************************************************************************)
(* The files, and the configuration a program works with.                  *)
(***************************************************************************)
FilesInv ==
  /\ file \in FileType /\ config \in FileType
  /\ vfile \in VpnFileType /\ vpn \in VpnFileType
  /\ step \in {"none", "load", "teardown", "build", "load_vpn", "deploy"}
  /\ step # "none" => outcome = "none"
  /\ step \in {"teardown", "build"} => Fine(config)

LEMMA FilesInit == VpnInit => FilesInv
BY FileAssumption, VpnFileAssumption
   DEF VpnInit, Init, FilesInv, FileAssumption, VpnFileAssumption

LEMMA FilesNext ==
  ASSUME FilesInv, [VpnNext]_vvars
  PROVE  FilesInv'
<1>1. CASE Start /\ LabStep
  BY <1>1 DEF FilesInv, Start, LabStep
<1>2. CASE Load /\ LabStep
  <2>1. file.readable /\ Verdict(file) = "ok" => Fine(file)
    BY FileChecked DEF FilesInv
  <2> QED BY <1>2, <2>1 DEF FilesInv, Load, Exit, LabStep
<1>3. CASE Teardown /\ LabStep
  BY <1>3 DEF FilesInv, Teardown, Exit, LabStep
<1>4. CASE Build /\ LabStep
  BY <1>4 DEF FilesInv, Build, Exit, LabStep
<1>5. CASE Kill /\ LabStep
  BY <1>5 DEF FilesInv, Kill, Exit, LabStep
<1>6. CASE Edit /\ LabStep
  <2>1. file' \in FileType
    BY <1>6, FileEdited DEF FilesInv, Edit
  <2> QED BY <1>6, <2>1 DEF FilesInv, Edit, LabStep
<1>7. CASE StartDemo
  BY <1>7 DEF FilesInv, StartDemo
<1>8. CASE LoadVpn
  BY <1>8 DEF FilesInv, LoadVpn, Exit
<1>9. CASE Deploy
  BY <1>9 DEF FilesInv, Deploy, Exit
<1>10. CASE KillDemo
  BY <1>10 DEF FilesInv, KillDemo, Exit
<1>11. CASE EditVpn
  <2>1. vfile' \in VpnFileType
    BY <1>11, VpnFileEdited DEF FilesInv, EditVpn
  <2> QED BY <1>11, <2>1 DEF FilesInv, EditVpn
<1>12. CASE UNCHANGED vvars
  BY <1>12 DEF FilesInv, vvars, vars
<1> QED BY <1>1, <1>2, <1>3, <1>4, <1>5, <1>6, <1>7, <1>8, <1>9, <1>10, <1>11, <1>12
        DEF VpnNext, LabStep, Next

\* Both files, and what the programs read of them, stay files, whatever is
\* edited, and a program acts on a configuration that validate() let through
\* (lab/config.py, load).
THEOREM FilesAlways == VpnSpec => []FilesInv
<1>1. FilesInv /\ [VpnNext]_vvars => FilesInv'
  BY FilesNext
<1> QED BY <1>1, FilesInit, PTL DEF VpnSpec

\* A configuration that a program acts on says where every name it uses leads
\* (lab/config.py, validate).
THEOREM AcceptedFilesAreConsistent == VpnSpec => []AcceptedIsConsistent
<1>1. FilesInv => AcceptedIsConsistent
  <2> SUFFICES ASSUME FilesInv, step \in {"teardown", "build"}
               PROVE  AcceptedIsConsistent
    BY DEF AcceptedIsConsistent
  <2>1. config \in FileType /\ Fine(config)
    BY DEF FilesInv
  <2> QED BY <2>1, FineIsConsistent DEF AcceptedIsConsistent
<1> QED BY <1>1, FilesAlways, PTL

-----------------------------------------------------------------------------
(***************************************************************************)
(* What the host's commands do to the namespaces and the links.            *)
(***************************************************************************)
Shaped(n) ==
  n = [netns |-> n.netns, lo |-> n.lo, fwd |-> n.fwd, veths |-> n.veths,
       addrs |-> n.addrs, ups |-> n.ups, routes |-> n.routes]

\* An end of a link is on the root stack or in a namespace that exists.
Anchored(n) == \A d \in Devices(n) : d[1] \in n.netns \union {Host}

\* m has the namespaces and the links of n.
SameLinks(m, n) == Shaped(m) /\ m.netns = n.netns /\ m.veths = n.veths

LEMMA Effects ==
  ASSUME NEW n, Shaped(n), NEW a
  PROVE  /\ SameLinks(AddrAdd(n, a), n) /\ SameLinks(LinkUp(n, a), n)
         /\ SameLinks(LoUp(n, a), n)
         /\ \A x : SameLinks(SetForward(n, a, x), n)
         /\ \A t, d : SameLinks(RouteAdd(n, a, t, d), n)
         /\ Shaped(NetnsAdd(n, a, FALSE))
         /\ NetnsAdd(n, a, FALSE).netns = n.netns \union {a}
         /\ NetnsAdd(n, a, FALSE).veths = n.veths
<1>1. SameLinks(AddrAdd(n, a), n)
  BY DEF SameLinks, Shaped, AddrAdd
<1>2. SameLinks(LinkUp(n, a), n)
  BY DEF SameLinks, Shaped, LinkUp
<1>3. SameLinks(LoUp(n, a), n)
  BY DEF SameLinks, Shaped, LoUp
<1>4. ASSUME NEW x PROVE SameLinks(SetForward(n, a, x), n)
  BY DEF SameLinks, Shaped, SetForward
<1>5. ASSUME NEW t, NEW d PROVE SameLinks(RouteAdd(n, a, t, d), n)
  BY DEF SameLinks, Shaped, RouteAdd
<1>6. Shaped(NetnsAdd(n, a, FALSE))
  <2> DEFINE m == [n EXCEPT !.netns = @ \union {a}]
  <2>1. Shaped(m) /\ m.fwd = n.fwd
    BY DEF Shaped
  <2>2. NetnsAdd(n, a, FALSE) = [m EXCEPT !.fwd = m.fwd \ {a}]
    BY <2>1 DEF NetnsAdd
  <2> HIDE DEF m
  <2> QED BY <2>1, <2>2 DEF Shaped
<1>7. /\ NetnsAdd(n, a, FALSE).netns = n.netns \union {a}
      /\ NetnsAdd(n, a, FALSE).veths = n.veths
  BY DEF Shaped, NetnsAdd
<1> QED BY <1>1, <1>2, <1>3, <1>4, <1>5, <1>6, <1>7

\* NamespaceManager's create_namespace, bring_loopback_up and set_forwarding.
Create(n, a, x) == SetForward(LoUp(NetnsAdd(n, a, FALSE), a), a, x)

LEMMA CreateEffects ==
  ASSUME NEW n, Shaped(n), NEW a, NEW x
  PROVE  /\ Shaped(Create(n, a, x))
         /\ Create(n, a, x).netns = n.netns \union {a} /\ Create(n, a, x).veths = n.veths
<1> DEFINE m == NetnsAdd(n, a, FALSE)
           l == LoUp(m, a)
<1>1. Shaped(m) /\ m.netns = n.netns \union {a} /\ m.veths = n.veths
  BY Effects
<1> HIDE DEF m
<1>2. SameLinks(l, m)
  BY <1>1, Effects
<1>3. Shaped(l)
  BY <1>2 DEF SameLinks
<1> HIDE DEF l
<1>4. SameLinks(SetForward(l, a, x), l)
  BY <1>3, Effects
<1> QED BY <1>1, <1>2, <1>4 DEF SameLinks, Create, l, m

LEMMA LinkEffects ==
  ASSUME NEW n, Shaped(n), NEW a, NEW b
  PROVE  /\ Shaped(LinkAdd(n, a, b)) /\ LinkAdd(n, a, b).netns = n.netns
         /\ Devices(LinkAdd(n, a, b)) = Devices(n) \union {<<Host, a>>, <<Host, b>>}
         /\ Shaped(LinkMove(n, a, b)) /\ LinkMove(n, a, b).netns = n.netns
         /\ Devices(LinkMove(n, a, b)) =
              {IF d = <<Host, a>> THEN <<b, a>> ELSE d : d \in Devices(n)}
<1>1. /\ Shaped(LinkAdd(n, a, b)) /\ LinkAdd(n, a, b).netns = n.netns
      /\ LinkAdd(n, a, b).veths = n.veths \union {{<<Host, a>>, <<Host, b>>}}
  BY DEF Shaped, LinkAdd
<1>2. /\ Shaped(LinkMove(n, a, b)) /\ LinkMove(n, a, b).netns = n.netns
      /\ LinkMove(n, a, b).veths = {Moved(v, a, b) : v \in n.veths}
  BY DEF Shaped, LinkMove
<1>3. Devices(LinkAdd(n, a, b)) = Devices(n) \union {<<Host, a>>, <<Host, b>>}
  BY <1>1 DEF Devices
<1>4. Devices(LinkMove(n, a, b)) =
        {IF d = <<Host, a>> THEN <<b, a>> ELSE d : d \in Devices(n)}
  <2> DEFINE To(d) == IF d = <<Host, a>> THEN <<b, a>> ELSE d
  <2>1. \A v : Moved(v, a, b) = {To(d) : d \in v}
    BY DEF Moved
  <2> HIDE DEF To
  <2>2. Devices(LinkMove(n, a, b)) = UNION {{To(d) : d \in v} : v \in n.veths}
    BY <1>2, <2>1 DEF Devices
  <2>3. UNION {{To(d) : d \in v} : v \in n.veths} = {To(d) : d \in UNION n.veths}
    OBVIOUS
  <2> QED BY <2>2, <2>3 DEF To, Devices
<1> QED BY <1>1, <1>2, <1>3, <1>4

LEMMA DeleteEffects ==
  ASSUME NEW n, Shaped(n), Anchored(n), NEW ns
  PROVE  /\ Shaped(Delete(n, ns)) /\ Anchored(Delete(n, ns))
         /\ Delete(n, ns).netns = n.netns \ {ns.name}
<1>1. CASE ns.name \in n.netns
  <2> DEFINE r == NetnsDelete(n, ns.name)
  <2>1. Delete(n, ns) = r
    BY <1>1 DEF Delete, CanNetnsDelete
  <2>2. Shaped(r) /\ r.netns = n.netns \ {ns.name} /\ r.veths = SurvivingVeths(n, ns.name)
    BY DEF Shaped, NetnsDelete
  <2>3. \A d \in Devices(r) : d \in Devices(n) /\ d[1] # ns.name
    BY <2>2 DEF Devices, SurvivingVeths, Located
  <2> HIDE DEF r
  <2> QED BY <2>1, <2>2, <2>3 DEF Anchored
<1>2. CASE ns.name \notin n.netns
  BY <1>2 DEF Delete, CanNetnsDelete
<1> QED BY <1>1, <1>2

CommandOps == {"create", "veth", "move1", "move2", "addr", "up", "route"}

\* One command of build() and the links.
LEMMA CommandEffects ==
  ASSUME NEW c, NEW n, Shaped(n), NEW cmd, cmd.op \in CommandOps, Possible(c, n, cmd)
  PROVE  LET r == Result(c, n, cmd)
             e == MovedEnd(cmd)
         IN  /\ Shaped(r) /\ n.netns \subseteq r.netns
             /\ cmd.op \notin Moves => \A d \in Devices(r) : d \in Devices(n) \/ d[1] = Host
             /\ cmd.op \notin Moves => Devices(n) \subseteq Devices(r)
             /\ cmd.op \in Moves =>
                  /\ e[1] \in n.netns
                  /\ \A d : d \in Devices(r) <=>
                       d = e \/ (d \in Devices(n) /\ d # <<Host, e[2]>>)
<1> DEFINE r == Result(c, n, cmd)
           e == MovedEnd(cmd)
<1>1. CASE cmd.op = "create"
  <2> DEFINE a == cmd.arg.name
             x == cmd.arg.forwarding
  <2>1. r = Create(n, a, x)
    BY <1>1 DEF Result, Moves, Create
  <2> HIDE DEF r, e, a, x
  <2>2. Shaped(r) /\ r.netns = n.netns \union {a} /\ r.veths = n.veths
    BY <2>1, CreateEffects
  <2>3. Devices(r) = Devices(n)
    BY <2>2 DEF Devices
  <2> QED BY <1>1, <2>2, <2>3 DEF r, e, Moves
<1>2. CASE cmd.op = "veth"
  <2>1. r = LinkAdd(n, cmd.arg.f.name, cmd.arg.f.peerName)
    BY <1>2 DEF Result, Moves
  <2> HIDE DEF r, e
  <2>2. /\ Shaped(r) /\ r.netns = n.netns
        /\ Devices(r) = Devices(n) \union {<<Host, cmd.arg.f.name>>, <<Host, cmd.arg.f.peerName>>}
    BY <2>1, LinkEffects
  <2> QED BY <1>2, <2>2 DEF r, e, Moves
<1>3. CASE cmd.op \in Moves
  <2>1. r = LinkMove(n, e[2], e[1]) /\ CanLinkMove(n, e[2], e[1])
    BY <1>3 DEF Result, Possible, Moves
  <2> HIDE DEF r, e
  <2>2. /\ Shaped(r) /\ r.netns = n.netns
        /\ Devices(r) = {IF d = <<Host, e[2]>> THEN <<e[1], e[2]>> ELSE d : d \in Devices(n)}
    BY <2>1, LinkEffects
  <2>3. e = <<e[1], e[2]>>
    BY <1>3 DEF e, MovedEnd, End1, End2
  <2>4. e[1] \in n.netns /\ <<Host, e[2]>> \in Devices(n)
    BY <2>1 DEF CanLinkMove
  <2>5. \A d : d \in Devices(r) <=> d = e \/ (d \in Devices(n) /\ d # <<Host, e[2]>>)
    BY <2>2, <2>3, <2>4
  <2> QED BY <1>3, <2>2, <2>4, <2>5 DEF r, e
<1>4. CASE cmd.op \in {"addr", "up", "route"}
  <2>1. SameLinks(r, n)
    <3>1. CASE cmd.op = "addr"
      <4>1. r = AddrAdd(n, End1(cmd.arg))
        BY <3>1 DEF Result, Moves
      <4> QED BY <4>1, Effects
    <3>2. CASE cmd.op = "up"
      <4>1. r = LinkUp(n, End1(cmd.arg))
        BY <3>2 DEF Result, Moves
      <4> QED BY <4>1, Effects
    <3>3. CASE cmd.op = "route"
      <4> DEFINE d == (CHOOSE h \in Egress(c, n, cmd.arg) : TRUE).f.name
      <4>1. r = RouteAdd(n, cmd.arg.ns, cmd.arg.r.target, d)
        BY <3>3 DEF Result, Moves
      <4> HIDE DEF r, d
      <4> QED BY <4>1, Effects
    <3> QED BY <1>4, <3>1, <3>2, <3>3
  <2> HIDE DEF r, e
  <2>2. Shaped(r) /\ r.netns = n.netns /\ r.veths = n.veths
    BY <2>1 DEF SameLinks
  <2>3. Devices(r) = Devices(n)
    BY <2>2 DEF Devices
  <2> QED BY <1>4, <2>2, <2>3 DEF r, e, Moves
<1> QED BY <1>1, <1>2, <1>3, <1>4 DEF CommandOps, Moves

LEMMA CommandAnchored ==
  ASSUME NEW c, NEW n, Shaped(n), Anchored(n), NEW cmd, cmd.op \in CommandOps,
         Possible(c, n, cmd)
  PROVE  Shaped(Result(c, n, cmd)) /\ Anchored(Result(c, n, cmd))
<1>1. Shaped(Result(c, n, cmd)) /\ n.netns \subseteq Result(c, n, cmd).netns
  BY CommandEffects
<1>2. CASE cmd.op \in Moves
  <2>1. /\ MovedEnd(cmd)[1] \in n.netns
        /\ \A d : d \in Devices(Result(c, n, cmd)) => d = MovedEnd(cmd) \/ d \in Devices(n)
    BY <1>2, CommandEffects
  <2> QED BY <1>1, <2>1 DEF Anchored
<1>3. CASE cmd.op \notin Moves
  <2>1. \A d \in Devices(Result(c, n, cmd)) : d \in Devices(n) \/ d[1] = Host
    BY <1>3, CommandEffects
  <2> QED BY <1>1, <2>1 DEF Anchored
<1> QED BY <1>2, <1>3

-----------------------------------------------------------------------------
(***************************************************************************)
(* teardown() and build() command by command.                              *)
(***************************************************************************)

\* f[k] is what the first k commands leave.
Runs(f, c, n, cmds, N) ==
  /\ f[0] = [net |-> n, ok |-> TRUE]
  /\ \A k \in 1..N : f[k] = Run(c, f[k - 1], cmds[k])

RunsTo(f, c, z, cmds, N) ==
  f = [k \in 0..N |-> IF k = 0 THEN z ELSE Run(c, f[k - 1], cmds[k])]

LEMMA RunsExists ==
  ASSUME NEW c, NEW z, NEW cmds, NEW N \in Nat
  PROVE  \E f : RunsTo(f, c, z, cmds, N)
<1> DEFINE P(f, m) == f = [k \in 0..m |-> IF k = 0 THEN z ELSE Run(c, f[k - 1], cmds[k])]
           T == {m \in Nat : \E f : P(f, m)}
<1>1. 0 \in T
  <2>1. P([k \in 0..0 |-> z], 0)
    OBVIOUS
  <2> QED BY <2>1
<1>2. ASSUME NEW m \in Nat, m \in T PROVE m + 1 \in T
  <2>1. PICK f : P(f, m)
    BY <1>2
  <2> DEFINE g == [k \in 0..(m + 1) |-> IF k <= m THEN f[k] ELSE Run(c, f[m], cmds[m + 1])]
  <2>2. \A k \in 0..(m + 1) : g[k] = IF k = 0 THEN z ELSE Run(c, g[k - 1], cmds[k])
    <3> SUFFICES ASSUME NEW k \in 0..(m + 1)
                 PROVE  g[k] = IF k = 0 THEN z ELSE Run(c, g[k - 1], cmds[k])
      OBVIOUS
    <3>1. CASE k <= m
      <4>1. k \in 0..m /\ (k # 0 => k - 1 \in 0..m /\ k - 1 \in 0..(m + 1) /\ k - 1 <= m)
        BY <3>1
      <4>2. f[k] = IF k = 0 THEN z ELSE Run(c, f[k - 1], cmds[k])
        BY <2>1, <4>1
      <4>3. g[k] = f[k] /\ (k # 0 => g[k - 1] = f[k - 1])
        BY <4>1
      <4> QED BY <4>2, <4>3
    <3>2. CASE k = m + 1
      <4>1. k # 0 /\ k - 1 = m /\ ~(k <= m) /\ m \in 0..(m + 1)
        BY <3>2
      <4>2. g[k] = Run(c, f[m], cmds[k]) /\ g[k - 1] = f[m]
        BY <3>2, <4>1
      <4> QED BY <4>1, <4>2
    <3>3. k <= m \/ k = m + 1
      OBVIOUS
    <3> QED BY <3>1, <3>2, <3>3
  <2>3. g = [k \in 0..(m + 1) |-> g[k]]
    OBVIOUS
  <2> HIDE DEF g
  <2>4. P(g, m + 1)
    BY <2>2, <2>3
  <2> QED BY <2>4
<1> HIDE DEF T, P
<1>3. \A m \in Nat : m \in T
  BY <1>1, <1>2, SetInduction
<1> QED BY <1>3 DEF T, P, RunsTo

LEMMA RanIs ==
  ASSUME NEW c, NEW n, NEW cmds, Len(cmds) \in Nat
  PROVE  \E f : Runs(f, c, n, cmds, Len(cmds)) /\ Ran(c, n, cmds) = f[Len(cmds)]
<1> DEFINE N == Len(cmds)
           z == [net |-> n, ok |-> TRUE]
           f == CHOOSE h : RunsTo(h, c, z, cmds, N)
<1>1. Ran(c, n, cmds) = f[N]
  BY DEF Ran, RunsTo
<1>2. RunsTo(f, c, z, cmds, N)
  <2> HIDE DEF z
  <2>1. \E h : RunsTo(h, c, z, cmds, N)
    BY RunsExists
  <2> QED BY <2>1, Zenon
<1> HIDE DEF f, N, z
<1>3. N \in Nat
  BY DEF N
<1>4. f[0] = z
  <2>1. 0 \in 0..N
    BY <1>3
  <2> QED BY <1>2, <2>1 DEF RunsTo
<1>5. \A k \in 1..N : f[k] = Run(c, f[k - 1], cmds[k])
  <2>1. \A k \in 1..N : k \in 0..N /\ k # 0
    BY <1>3
  <2> QED BY <1>2, <2>1 DEF RunsTo
<1> QED BY <1>1, <1>4, <1>5 DEF Runs, N, z

\* A build leaves the ends of links on the root stack or in a namespace.
LEMMA RanAnchored ==
  ASSUME NEW c, NEW n, Shaped(n), Anchored(n), NEW cmds, Len(cmds) \in Nat,
         \A k \in 1..Len(cmds) : cmds[k].op \in CommandOps
  PROVE  Shaped(Ran(c, n, cmds).net) /\ Anchored(Ran(c, n, cmds).net)
<1> DEFINE N == Len(cmds)
<1>1. PICK f : Runs(f, c, n, cmds, N) /\ Ran(c, n, cmds) = f[N]
  BY RanIs
<1> DEFINE Good(k) == Shaped(f[k].net) /\ Anchored(f[k].net)
           T == {k \in Nat : k <= N => Good(k)}
<1>2. 0 \in T
  BY <1>1 DEF Runs
<1>3. ASSUME NEW k \in Nat, k \in T PROVE k + 1 \in T
  <2> SUFFICES ASSUME k + 1 <= N PROVE Good(k + 1)
    OBVIOUS
  <2> DEFINE m == f[k].net
             cmd == cmds[k + 1]
             r == Result(c, m, cmd)
  <2>1. Shaped(m) /\ Anchored(m)
    BY <1>3
  <2>2. k + 1 \in 1..N /\ (k + 1) - 1 = k /\ cmd.op \in CommandOps
    OBVIOUS
  <2>3. f[k + 1] = Run(c, f[k], cmd)
    BY <1>1, <2>2 DEF Runs
  <2>4. CASE f[k].ok /\ Possible(c, m, cmd)
    <3>1. f[k + 1].net = r
      BY <2>3, <2>4 DEF Run
    <3> QED BY <2>1, <2>2, <2>4, <3>1, CommandAnchored
  <2>5. CASE ~(f[k].ok /\ Possible(c, m, cmd))
    <3>1. f[k + 1].net = m
      BY <2>3, <2>5 DEF Run
    <3> QED BY <2>1, <3>1
  <2> QED BY <2>4, <2>5
<1> HIDE DEF T
<1>4. N \in T
  BY <1>2, <1>3, SetInduction
<1> QED BY <1>1, <1>4 DEF T

LEMMA DeletesExists ==
  ASSUME NEW c, NEW n, NEW N \in Nat
  PROVE  \E f : f = [j \in 0..N |-> IF j = 0 THEN n ELSE Delete(f[j - 1], c.namespaces[j])]
<1> DEFINE P(f, m) == f = [j \in 0..m |-> IF j = 0 THEN n ELSE Delete(f[j - 1], c.namespaces[j])]
           T == {m \in Nat : \E f : P(f, m)}
<1>1. 0 \in T
  <2>1. P([k \in 0..0 |-> n], 0)
    OBVIOUS
  <2> QED BY <2>1
<1>2. ASSUME NEW m \in Nat, m \in T PROVE m + 1 \in T
  <2>1. PICK f : P(f, m)
    BY <1>2
  <2> DEFINE g == [k \in 0..(m + 1) |-> IF k <= m THEN f[k] ELSE Delete(f[m], c.namespaces[m + 1])]
  <2>2. \A k \in 0..(m + 1) : g[k] = IF k = 0 THEN n ELSE Delete(g[k - 1], c.namespaces[k])
    <3> SUFFICES ASSUME NEW k \in 0..(m + 1)
                 PROVE  g[k] = IF k = 0 THEN n ELSE Delete(g[k - 1], c.namespaces[k])
      OBVIOUS
    <3>1. CASE k <= m
      <4>1. k \in 0..m /\ (k # 0 => k - 1 \in 0..m /\ k - 1 \in 0..(m + 1) /\ k - 1 <= m)
        BY <3>1
      <4>2. f[k] = IF k = 0 THEN n ELSE Delete(f[k - 1], c.namespaces[k])
        BY <2>1, <4>1
      <4>3. g[k] = f[k] /\ (k # 0 => g[k - 1] = f[k - 1])
        BY <4>1
      <4> QED BY <4>2, <4>3
    <3>2. CASE k = m + 1
      <4>1. k # 0 /\ k - 1 = m /\ ~(k <= m) /\ m \in 0..(m + 1)
        BY <3>2
      <4>2. g[k] = Delete(f[m], c.namespaces[k]) /\ g[k - 1] = f[m]
        BY <3>2, <4>1
      <4> QED BY <4>1, <4>2
    <3>3. k <= m \/ k = m + 1
      OBVIOUS
    <3> QED BY <3>1, <3>2, <3>3
  <2>3. g = [k \in 0..(m + 1) |-> g[k]]
    OBVIOUS
  <2> HIDE DEF g
  <2>4. P(g, m + 1)
    BY <2>2, <2>3
  <2> QED BY <2>4
<1> HIDE DEF T, P
<1>3. \A m \in Nat : m \in T
  BY <1>1, <1>2, SetInduction
<1> QED BY <1>3 DEF T, P

\* After teardown() of the first N namespaces none of them is there.
LEMMA DeletedIs ==
  ASSUME NEW c, NEW n, Shaped(n), Anchored(n), NEW N \in Nat
  PROVE  /\ Shaped(Deleted(c, n, N)) /\ Anchored(Deleted(c, n, N))
         /\ \A j \in 1..N : c.namespaces[j].name \notin Deleted(c, n, N).netns
<1> DEFINE f == CHOOSE h : h = [j \in 0..N |-> IF j = 0 THEN n
                                               ELSE Delete(h[j - 1], c.namespaces[j])]
<1>1. Deleted(c, n, N) = f[N]
  BY DEF Deleted
<1>2. f = [j \in 0..N |-> IF j = 0 THEN n ELSE Delete(f[j - 1], c.namespaces[j])]
  BY DeletesExists
<1> HIDE DEF f
<1> DEFINE Good(k) == /\ Shaped(f[k]) /\ Anchored(f[k])
                      /\ \A j \in 1..k : c.namespaces[j].name \notin f[k].netns
           T == {k \in Nat : k <= N => Good(k)}
<1>3. 0 \in T
  <2>1. f[0] = n
    BY <1>2
  <2> QED BY <2>1
<1>4. ASSUME NEW k \in Nat, k \in T PROVE k + 1 \in T
  <2> SUFFICES ASSUME k + 1 <= N PROVE Good(k + 1)
    OBVIOUS
  <2> DEFINE ns == c.namespaces[k + 1]
  <2>1. Good(k)
    BY <1>4
  <2>2. f[k + 1] = Delete(f[k], ns)
    <3>1. k + 1 \in 0..N /\ k + 1 # 0 /\ (k + 1) - 1 = k
      OBVIOUS
    <3> QED BY <1>2, <3>1
  <2>3. /\ Shaped(f[k + 1]) /\ Anchored(f[k + 1])
        /\ f[k + 1].netns = f[k].netns \ {ns.name}
    <3>1. Shaped(f[k]) /\ Anchored(f[k])
      BY <2>1
    <3> HIDE DEF ns
    <3>2. /\ Shaped(Delete(f[k], ns)) /\ Anchored(Delete(f[k], ns))
          /\ Delete(f[k], ns).netns = f[k].netns \ {ns.name}
      BY <3>1, DeleteEffects
    <3> QED BY <2>2, <3>2
  <2>4. \A j \in 1..(k + 1) : j \in 1..k \/ j = k + 1
    OBVIOUS
  <2> QED BY <2>1, <2>3, <2>4
<1> HIDE DEF T
<1>5. N \in T
  BY <1>3, <1>4, SetInduction
<1> QED BY <1>1, <1>5 DEF T

-----------------------------------------------------------------------------
(***************************************************************************)
(* The commands of build().                                                *)
(***************************************************************************)
LinkCmds(c) ==
  {x \in [op : {"veth", "move1", "move2"}, arg : ElementType] :
     x.arg \in ToSet(Ifaces(c)) /\ IsVeth(x.arg)}

OtherCmds ==
  [op : {"create"}, arg : NamespaceType] \union [op : {"addr", "up"}, arg : ElementType]
    \union [op : {"route"}, arg : [ns : Text, r : RouteType]]

LEMMA LinkCommandsAre ==
  ASSUME NEW c \in FileType
  PROVE  /\ LinkCommands(c) \in Seq(LinkCmds(c))
         /\ \A i \in 1..Len(Ifaces(c)) : NewVeth(c, i) =>
              \A mv \in Moves : \E k \in 1..Len(LinkCommands(c)) :
                LinkCommands(c)[k] = [op |-> mv, arg |-> Ifaces(c)[i]]
<1> DEFINE es == Ifaces(c)
           three(i) == [k \in 1..3 |-> [op |-> <<"veth", "move1", "move2">>[k], arg |-> es[i]]]
           piece(i) == IF NewVeth(c, i) THEN three(i) ELSE <<>>
           seqs == [i \in 1..Len(es) |-> piece(i)]
<1>1. /\ Len(es) \in Nat
      /\ \A i \in 1..Len(es) : es[i] \in ElementType /\ es[i] \in ToSet(es)
  BY IfacesAre, Elements
<1>2. LinkCommands(c) = FlattenSeq(seqs)
  BY DEF LinkCommands
<1>3. ASSUME NEW i \in 1..Len(es), NewVeth(c, i)
      PROVE  /\ three(i) \in Seq(LinkCmds(c)) /\ Len(three(i)) = 3
             /\ \A k \in 1..3 :
                  three(i)[k] = [op |-> <<"veth", "move1", "move2">>[k], arg |-> es[i]]
  <2>1. IsVeth(es[i])
    BY <1>3 DEF NewVeth
  <2>2. \A k \in 1..3 : <<"veth", "move1", "move2">>[k] \in {"veth", "move1", "move2"}
    OBVIOUS
  <2> HIDE DEF es
  <2>3. \A k \in 1..3 : [op |-> <<"veth", "move1", "move2">>[k], arg |-> es[i]] \in LinkCmds(c)
    BY <1>1, <2>1, <2>2 DEF LinkCmds, es
  <2> QED BY <2>3, IsASeq
<1>4. \A i \in 1..Len(es) : piece(i) \in Seq(LinkCmds(c))
  <2> HIDE DEF es, three
  <2>1. <<>> \in Seq(LinkCmds(c))
    BY EmptySeq
  <2> QED BY <1>3, <2>1
<1>5. /\ seqs \in Seq(Seq(LinkCmds(c))) /\ Len(seqs) = Len(es)
      /\ \A i \in 1..Len(es) : seqs[i] = piece(i)
  <2> HIDE DEF es, piece
  <2> QED BY <1>1, <1>4, IsASeq
<1> HIDE DEF seqs
<1>6. PICK off : Lays(off, seqs, FlattenSeq(seqs))
  BY <1>5, Flattened
<1>7. \A i \in 1..Len(es) : \A j \in 1..Len(seqs[i]) :
        /\ off[i - 1] + j \in 1..Len(FlattenSeq(seqs))
        /\ FlattenSeq(seqs)[off[i - 1] + j] = seqs[i][j]
  BY <1>5, <1>6, Zenon DEF Lays
<1>8. ASSUME NEW i \in 1..Len(es), NewVeth(c, i), NEW mv \in Moves
      PROVE  \E k \in 1..Len(LinkCommands(c)) : LinkCommands(c)[k] = [op |-> mv, arg |-> es[i]]
  <2>1. seqs[i] = three(i)
    BY <1>5, <1>8
  <2>2. PICK j \in 1..3 : <<"veth", "move1", "move2">>[j] = mv
    <3>1. CASE mv = "move1"
      <4>1. <<"veth", "move1", "move2">>[2] = mv /\ 2 \in 1..3
        BY <3>1
      <4> QED BY <4>1
    <3>2. CASE mv = "move2"
      <4>1. <<"veth", "move1", "move2">>[3] = mv /\ 3 \in 1..3
        BY <3>2
      <4> QED BY <4>1
    <3> QED BY <3>1, <3>2 DEF Moves
  <2>3. three(i)[j] = [op |-> mv, arg |-> es[i]] /\ Len(three(i)) = 3
    BY <1>3, <1>8, <2>2
  <2> HIDE DEF es, three
  <2>4. /\ off[i - 1] + j \in 1..Len(FlattenSeq(seqs))
        /\ FlattenSeq(seqs)[off[i - 1] + j] = [op |-> mv, arg |-> es[i]]
    BY <1>7, <2>1, <2>3
  <2> QED BY <1>2, <2>4
<1>9. LinkCommands(c) \in Seq(LinkCmds(c))
  BY <1>2, <1>5, Flattened
<1> QED BY <1>8, <1>9

LEMMA AddressCommandsAre ==
  ASSUME NEW c \in FileType
  PROVE  AddressCommands(c) \in Seq(OtherCmds)
<1> DEFINE es == Ifaces(c)
           a(i) == IF es[i].f.ip = Absent THEN <<>> ELSE <<[op |-> "addr", arg |-> es[i]]>>
           u(i) == <<[op |-> "up", arg |-> es[i]]>>
           piece(i) == a(i) \o u(i)
           seqs == [i \in 1..Len(es) |-> piece(i)]
<1>1. Len(es) \in Nat /\ \A i \in 1..Len(es) : es[i] \in ElementType
  BY IfacesAre, Elements
<1>2. AddressCommands(c) = FlattenSeq(seqs)
  BY DEF AddressCommands
<1>3. ASSUME NEW i \in 1..Len(es) PROVE piece(i) \in Seq(OtherCmds)
  <2>1. es[i] \in ElementType
    BY <1>1
  <2> HIDE DEF es
  <2>2. [op |-> "addr", arg |-> es[i]] \in OtherCmds /\ [op |-> "up", arg |-> es[i]] \in OtherCmds
    BY <2>1 DEF OtherCmds
  <2>3. a(i) \in Seq(OtherCmds)
    <3>1. <<[op |-> "addr", arg |-> es[i]]>> \in Seq(OtherCmds) /\ <<>> \in Seq(OtherCmds)
      BY <2>2, One, EmptySeq
    <3> QED BY <3>1
  <2>4. u(i) \in Seq(OtherCmds)
    BY <2>2, One
  <2> HIDE DEF a, u
  <2> QED BY <2>3, <2>4, ConcatProperties
<1>4. seqs \in Seq(Seq(OtherCmds))
  <2> HIDE DEF es, piece
  <2> QED BY <1>1, <1>3, IsASeq
<1> HIDE DEF seqs
<1> QED BY <1>2, <1>4, Flattened

LEMMA RouteCommandsAre ==
  ASSUME NEW c \in FileType
  PROVE  RouteCommands(c) \in Seq(OtherCmds)
<1> DEFINE N == Len(c.namespaces)
           L(n) == Len(c.namespaces[n].routes)
           cmd(n, i) == [op |-> "route",
                         arg |-> [ns |-> c.namespaces[n].name, r |-> c.namespaces[n].routes[i]]]
           piece(n) == [i \in 1..L(n) |-> cmd(n, i)]
           seqs == [n \in 1..N |-> piece(n)]
<1>1. N \in Nat
  BY FileParts
<1>2. RouteCommands(c) = FlattenSeq(seqs)
  BY DEF RouteCommands
<1>3. ASSUME NEW n \in 1..N PROVE piece(n) \in Seq(OtherCmds)
  <2>1. /\ c.namespaces[n].routes \in Seq(RouteType) /\ c.namespaces[n].name \in Text
        /\ L(n) \in Nat
    BY FileParts
  <2>2. \A i \in 1..L(n) : cmd(n, i) \in OtherCmds
    <3>1. \A i \in 1..L(n) : c.namespaces[n].routes[i] \in RouteType
      BY <2>1, Elements
    <3> QED BY <2>1, <3>1 DEF OtherCmds
  <2> HIDE DEF L, cmd
  <2> QED BY <2>1, <2>2, IsASeq
<1>4. seqs \in Seq(Seq(OtherCmds))
  <2> HIDE DEF N, piece
  <2> QED BY <1>1, <1>3, IsASeq
<1> HIDE DEF seqs
<1> QED BY <1>2, <1>4, Flattened

LEMMA NamespaceCommandsAre ==
  ASSUME NEW c \in FileType
  PROVE  NamespaceCommands(c) \in Seq(OtherCmds)
<1> DEFINE N == Len(c.namespaces)
           cmd(n) == [op |-> "create", arg |-> c.namespaces[n]]
<1>1. N \in Nat /\ \A n \in 1..N : c.namespaces[n] \in NamespaceType
  BY FileParts
<1>2. \A n \in 1..N : cmd(n) \in OtherCmds
  BY <1>1 DEF OtherCmds
<1>3. NamespaceCommands(c) = [n \in 1..N |-> cmd(n)]
  BY DEF NamespaceCommands
<1> HIDE DEF N, cmd
<1> QED BY <1>1, <1>2, <1>3, IsASeq

\* The commands; an end of a link that the file declares is moved by one of them.
LEMMA CommandsAre ==
  ASSUME NEW c \in FileType
  PROVE  /\ Commands(c) \in Seq(LinkCmds(c) \union OtherCmds)
         /\ \A k \in 1..Len(LinkCommands(c)) : \E m \in 1..Len(Commands(c)) :
              Commands(c)[m] = LinkCommands(c)[k]
<1> DEFINE S == LinkCmds(c) \union OtherCmds
           a == NamespaceCommands(c)
           l == LinkCommands(c)
           d == AddressCommands(c)
           r == RouteCommands(c)
<1>1. a \in Seq(S) /\ l \in Seq(S) /\ d \in Seq(S) /\ r \in Seq(S)
  <2>1. Seq(LinkCmds(c)) \subseteq Seq(S) /\ Seq(OtherCmds) \subseteq Seq(S)
    BY SeqMonotonic
  <2> QED BY <2>1, LinkCommandsAre, AddressCommandsAre, RouteCommandsAre, NamespaceCommandsAre
<1>2. Commands(c) = ((a \o l) \o d) \o r
  BY DEF Commands
<1> HIDE DEF S, a, l, d, r
<1>3. /\ a \o l \in Seq(S) /\ Len(a \o l) = Len(a) + Len(l) /\ Len(a) \in Nat /\ Len(l) \in Nat
      /\ \A k \in 1..Len(l) : (a \o l)[Len(a) + k] = l[k]
  BY <1>1, Concats
<1> DEFINE x == a \o l
<1> HIDE DEF x
<1>4. /\ x \o d \in Seq(S) /\ Len(x \o d) = Len(x) + Len(d) /\ Len(d) \in Nat
      /\ \A k \in 1..Len(x) : (x \o d)[k] = x[k]
  BY <1>1, <1>3, Concats DEF x
<1> DEFINE y == x \o d
<1> HIDE DEF y
<1>5. /\ y \o r \in Seq(S) /\ Len(y \o r) = Len(y) + Len(r) /\ Len(r) \in Nat
      /\ \A k \in 1..Len(y) : (y \o r)[k] = y[k]
  BY <1>1, <1>4, Concats DEF y
<1>6. Commands(c) = y \o r
  BY <1>2 DEF x, y
<1>7. ASSUME NEW k \in 1..Len(l)
      PROVE  \E m \in 1..Len(Commands(c)) : Commands(c)[m] = l[k]
  <2>1. Len(x) = Len(a) + Len(l) /\ Len(y) = Len(x) + Len(d)
    BY <1>3, <1>4 DEF x, y
  <2>2. Len(a) + k \in 1..Len(x) /\ Len(a) + k \in 1..Len(y) /\ Len(a) + k \in 1..Len(y \o r)
    BY <1>3, <1>4, <1>5, <2>1
  <2>3. (y \o r)[Len(a) + k] = y[Len(a) + k] /\ y[Len(a) + k] = x[Len(a) + k]
        /\ x[Len(a) + k] = l[k]
    BY <1>3, <1>4, <1>5, <2>2 DEF x, y
  <2> QED BY <1>6, <2>2, <2>3
<1> QED BY <1>5, <1>6, <1>7 DEF S, l

LEMMA LinksAreMoved ==
  ASSUME NEW c \in FileType, NEW d \in UNION Links(c)
  PROVE  \E m \in 1..Len(Commands(c)) :
           Commands(c)[m].op \in Moves /\ MovedEnd(Commands(c)[m]) = d
<1> DEFINE es == Ifaces(c)
<1>1. PICK e \in ToSet(es) : IsVeth(e) /\ d \in Pair(e)
  BY DEF Links
<1>2. Len(es) \in Nat /\ \E k \in 1..Len(es) : e = es[k]
  BY IfacesAre, Elements
<1> DEFINE T == {j \in 1..Len(es) : IsVeth(es[j]) /\ Pair(es[j]) = Pair(e)}
<1>3. T \in SUBSET Nat /\ T # {}
  BY <1>1, <1>2
<1>4. PICK i \in T : \A j \in T : i <= j
  <2> HIDE DEF T
  <2> QED BY <1>3, LeastNumber
<1>5. i \in 1..Len(es) /\ IsVeth(es[i]) /\ Pair(es[i]) = Pair(e)
  OBVIOUS
<1>6. NewVeth(c, i)
  <2>1. ASSUME NEW j \in 1..(i - 1), IsVeth(es[j]) PROVE Pair(es[j]) # Pair(es[i])
    <3>1. j \in 1..Len(es) /\ ~(i <= j)
      BY <1>2, <1>5
    <3> QED BY <1>4, <1>5, <2>1, <3>1
  <2> QED BY <1>5, <2>1 DEF NewVeth
<1>7. PICK mv \in Moves : d = IF mv = "move1" THEN End1(es[i]) ELSE End2(es[i])
  <2>1. d = End1(es[i]) \/ d = End2(es[i])
    BY <1>1, <1>5 DEF Pair
  <2> QED BY <2>1 DEF Moves
<1>8. PICK k \in 1..Len(LinkCommands(c)) : LinkCommands(c)[k] = [op |-> mv, arg |-> es[i]]
  BY <1>5, <1>6, LinkCommandsAre
<1>9. PICK m \in 1..Len(Commands(c)) : Commands(c)[m] = LinkCommands(c)[k]
  BY CommandsAre
<1>10. Commands(c)[m].op = mv /\ Commands(c)[m].arg = es[i]
  BY <1>8, <1>9
<1> HIDE DEF es, T
<1>11. MovedEnd(Commands(c)[m]) = d
  BY <1>7, <1>10 DEF MovedEnd
<1> QED BY <1>10, <1>11

\* Every end that build() moves is an end of a link of the file, and goes to a
\* namespace of the file.
LEMMA MovedIsOfFile ==
  ASSUME NEW c \in FileType, Fine(c), NEW cmd \in LinkCmds(c) \union OtherCmds, cmd.op \in Moves
  PROVE  MovedEnd(cmd) \in UNION Links(c) /\ MovedEnd(cmd)[1] \in NamesOf(c)
<1> DEFINE e == cmd.arg
<1>1. cmd \in LinkCmds(c)
  BY DEF OtherCmds, Moves
<1>2. e \in ToSet(Ifaces(c)) /\ IsVeth(e)
  BY <1>1 DEF LinkCmds
<1>3. MovedEnd(cmd) = End1(e) \/ MovedEnd(cmd) = End2(e)
  BY DEF MovedEnd
<1>4. MovedEnd(cmd) \in Pair(e) /\ Pair(e) \in Links(c)
  BY <1>2, <1>3 DEF Pair, Links
<1>5. PICK n \in 1..Len(c.namespaces) :
        \E i \in 1..Len(c.namespaces[n].interfaces) : e = Element(c, n, i)
  BY <1>2, IfacesAre
<1>6. PICK i \in 1..Len(c.namespaces[n].interfaces) : e = Element(c, n, i)
  BY <1>5
<1>7. /\ e.ns = c.namespaces[n].name /\ e.f.peerNs \in NamesOf(c) \union {Absent}
      /\ e.f.peerNs # Absent
  BY <1>2, <1>6 DEF Element, Fine, IsVeth
<1>8. End1(e)[1] \in NamesOf(c) /\ End2(e)[1] \in NamesOf(c)
  BY <1>7 DEF End1, End2, NamesOf
<1> QED BY <1>3, <1>4, <1>8

\* A build() that returns leaves, in the file's namespaces, the file's links.
LEMMA BuiltIsFile ==
  ASSUME NEW c \in FileType, Fine(c), NEW n, Shaped(n), Anchored(n),
         \A x \in NamesOf(c) : x \notin n.netns,
         Ran(c, n, Commands(c)).ok
  PROVE  {d \in Devices(Ran(c, n, Commands(c)).net) : d[1] \in NamesOf(c)} = UNION Links(c)
<1> DEFINE cmds == Commands(c)
           N == Len(cmds)
           S == LinkCmds(c) \union OtherCmds
<1>1. cmds \in Seq(S) /\ N \in Nat /\ \A k \in 1..N : cmds[k] \in S
  BY CommandsAre, Elements
<1>2. \A k \in 1..N : cmds[k].op \in CommandOps
  BY <1>1 DEF LinkCmds, OtherCmds, CommandOps
<1>3. Host \notin NamesOf(c)
  BY FileParts DEF NamesOf
<1> HIDE DEF cmds, S
<1>4. PICK f : Runs(f, c, n, cmds, N) /\ Ran(c, n, cmds) = f[N]
  BY <1>1, RanIs
<1> DEFINE Good(k) ==
             /\ Shaped(f[k].net)
             /\ f[k].ok =>
                  /\ \A d \in Devices(f[k].net) : d[1] \in NamesOf(c) => d \in UNION Links(c)
                  /\ \A j \in 1..k : cmds[j].op \in Moves => MovedEnd(cmds[j]) \in Devices(f[k].net)
           T == {k \in Nat : k <= N => Good(k)}
<1>5. 0 \in T
  <2>1. f[0].net = n
    BY <1>4 DEF Runs
  <2>2. \A d \in Devices(n) : d[1] \notin NamesOf(c)
    BY <1>3 DEF Anchored
  <2> QED BY <2>1, <2>2
<1>6. ASSUME NEW k \in Nat, k \in T PROVE k + 1 \in T
  <2> SUFFICES ASSUME k + 1 <= N PROVE Good(k + 1)
    OBVIOUS
  <2> DEFINE m == f[k].net
             cmd == cmds[k + 1]
             r == Result(c, m, cmd)
             e == MovedEnd(cmd)
  <2>1. Good(k)
    BY <1>6
  <2>2. k + 1 \in 1..N /\ (k + 1) - 1 = k
    OBVIOUS
  <2>3. f[k + 1] = Run(c, f[k], cmd)
    BY <1>4, <2>2 DEF Runs
  <2>4. CASE f[k].ok /\ Possible(c, m, cmd)
    <3>1. f[k + 1].net = r
      BY <2>3, <2>4 DEF Run
    <3>2. /\ \A d \in Devices(m) : d[1] \in NamesOf(c) => d \in UNION Links(c)
          /\ \A j \in 1..k : cmds[j].op \in Moves => MovedEnd(cmds[j]) \in Devices(m)
      BY <2>1, <2>4
    <3>3. \A j \in 1..k : cmds[j].op \in Moves => MovedEnd(cmds[j])[1] \in NamesOf(c)
      <4>1. \A j \in 1..k : cmds[j] \in S
        BY <1>1, <2>2
      <4> QED BY <4>1, MovedIsOfFile DEF S
    <3>4. \A j \in 1..(k + 1) : j \in 1..k \/ j = k + 1
      OBVIOUS
    <3>5. Shaped(r)
      BY <1>2, <2>1, <2>2, <2>4, CommandEffects
    <3>6. CASE cmd.op \notin Moves
      <4>1. /\ \A d \in Devices(r) : d \in Devices(m) \/ d[1] = Host
            /\ Devices(m) \subseteq Devices(r)
        BY <1>2, <2>1, <2>2, <2>4, <3>6, CommandEffects
      <4> HIDE DEF m, r
      <4>2. \A d \in Devices(r) : d[1] \in NamesOf(c) => d \in UNION Links(c)
        BY <1>3, <3>2, <4>1
      <4>3. \A j \in 1..(k + 1) : cmds[j].op \in Moves => MovedEnd(cmds[j]) \in Devices(r)
        BY <3>2, <3>4, <3>6, <4>1
      <4> QED BY <3>1, <3>5, <4>2, <4>3
    <3>7. CASE cmd.op \in Moves
      <4>1. e \in UNION Links(c) /\ e[1] \in NamesOf(c)
        BY <1>1, <2>2, <3>7, MovedIsOfFile DEF S
      <4>2. \A d : d \in Devices(r) <=> d = e \/ (d \in Devices(m) /\ d # <<Host, e[2]>>)
        <5>1. cmd.op \in CommandOps /\ Shaped(m) /\ Possible(c, m, cmd)
          BY <1>2, <2>1, <2>2, <2>4
        <5> HIDE DEF m, cmd
        <5>2. cmd.op \in Moves => \A d : d \in Devices(r)
                <=> d = MovedEnd(cmd) \/ (d \in Devices(m) /\ d # <<Host, MovedEnd(cmd)[2]>>)
          BY <5>1, CommandEffects, Zenon
        <5> QED BY <3>7, <5>2
      <4> HIDE DEF m, r
      <4>3. \A d \in Devices(r) : d[1] \in NamesOf(c) => d \in UNION Links(c)
        BY <3>2, <4>1, <4>2
      <4>4. \A j \in 1..(k + 1) : cmds[j].op \in Moves => MovedEnd(cmds[j]) \in Devices(r)
        <5>1. ASSUME NEW j \in 1..k, cmds[j].op \in Moves PROVE MovedEnd(cmds[j]) \in Devices(r)
          <6>1. MovedEnd(cmds[j]) # <<Host, e[2]>>
            BY <1>3, <3>3, <5>1
          <6> QED BY <3>2, <4>2, <5>1, <6>1
        <5>2. MovedEnd(cmds[k + 1]) \in Devices(r)
          BY <4>2
        <5> QED BY <3>4, <5>1, <5>2
      <4> QED BY <3>1, <3>5, <4>3, <4>4
    <3> QED BY <3>6, <3>7
  <2>5. CASE ~(f[k].ok /\ Possible(c, m, cmd))
    <3>1. f[k + 1].net = m /\ f[k + 1].ok = FALSE
      BY <2>3, <2>5 DEF Run
    <3> QED BY <2>1, <3>1
  <2> QED BY <2>4, <2>5
<1> HIDE DEF T
<1>7. Good(N)
  <2>1. N \in T
    BY <1>1, <1>5, <1>6, SetInduction
  <2> QED BY <1>1, <2>1 DEF T
<1>8. f[N].ok
  BY <1>4 DEF cmds
<1>9. ASSUME NEW d \in UNION Links(c)
      PROVE  d \in Devices(f[N].net) /\ d[1] \in NamesOf(c)
  <2>1. PICK m \in 1..N : cmds[m].op \in Moves /\ MovedEnd(cmds[m]) = d
    BY LinksAreMoved DEF cmds
  <2>2. d[1] \in NamesOf(c)
    BY <1>1, <2>1, MovedIsOfFile DEF S
  <2> QED BY <1>7, <1>8, <2>1, <2>2
<1>10. {d \in Devices(f[N].net) : d[1] \in NamesOf(c)} = UNION Links(c)
  BY <1>7, <1>8, <1>9
<1> QED BY <1>4, <1>10 DEF cmds

-----------------------------------------------------------------------------
(***************************************************************************)
(* The laboratory over the programs: OnlyTheFile.                          *)
(***************************************************************************)
LEMMA NodeChecked ==
  ASSUME NEW v \in VpnFileType, NEW k \in 1..Len(v.nodes)
  PROVE  VpnNodeChecks(v, k) \in Seq(Errors)
<1> DEFINE node == v.nodes[k]
           pair == <<Check(node.ip = Bad, "VPNInvalidCIDRError"),
                     Check(node.port = Bad, "VPNConfigurationError")>>
           peers == [i \in 1..Len(node.peers) |-> VpnPeerChecks(v, node.peers[i])]
           routes == [j \in 1..Len(node.routes) |->
                        Check(node.routes[j].target = Bad, "VPNInvalidCIDRError")]
<1>1. Len(node.peers) \in Nat /\ Len(node.routes) \in Nat
  <2>1. v.nodes \in Seq(NodeType)
    BY DEF VpnFileType
  <2>2. node \in NodeType
    BY <2>1, Elements
  <2>3. node.peers \in Seq(PeerType) /\ node.routes \in Seq(RouteType)
    BY <2>2 DEF NodeType
  <2> QED BY <2>3, Elements
<1>2. pair \in Seq(Errors)
  <2>1. /\ Check(node.ip = Bad, "VPNInvalidCIDRError") \in Errors
        /\ Check(node.port = Bad, "VPNConfigurationError") \in Errors
    BY DEF Check, Errors
  <2> QED BY <2>1, Two
<1>3. \A p : VpnPeerChecks(v, p) \in Seq(Errors)
  <2> SUFFICES ASSUME NEW p PROVE VpnPeerChecks(v, p) \in Seq(Errors)
    OBVIOUS
  <2>1. /\ Check(p.target \notin VpnNames(v), "VPNPeerResolutionError") \in Errors
        /\ Check(p.allowed = Bad, "VPNInvalidCIDRError") \in Errors
        /\ Check(p.endpoint = Bad, "VPNInvalidEndpointError") \in Errors
    BY DEF Check, Errors
  <2> QED BY <2>1, Three DEF VpnPeerChecks
<1>4. \A j \in 1..Len(node.routes) :
        Check(node.routes[j].target = Bad, "VPNInvalidCIDRError") \in Errors
  BY DEF Check, Errors
<1>5. VpnNodeChecks(v, k) = (pair \o FlattenSeq(peers)) \o routes
  BY DEF VpnNodeChecks
<1>6. peers \in Seq(Seq(Errors)) /\ routes \in Seq(Errors)
  <2> HIDE DEF node
  <2> QED BY <1>1, <1>3, <1>4, IsASeq
<1> HIDE DEF node, pair, peers, routes
<1>7. FlattenSeq(peers) \in Seq(Errors)
  BY <1>6, OkFlattened
<1>8. pair \o FlattenSeq(peers) \in Seq(Errors)
  BY <1>2, <1>7, OkJoined
<1> QED BY <1>5, <1>6, <1>8, OkJoined

\* load() of lab/vpn/config.py ends as one of its errors, or well.
LEMMA VpnFileChecked ==
  ASSUME NEW v \in VpnFileType
  PROVE  Loaded(v) # "built" /\ Loaded(v) # "deployed"
<1> DEFINE seqs == [k \in 1..Len(v.nodes) |-> VpnNodeChecks(v, k)]
<1>1. Len(v.nodes) \in Nat
  <2>1. v.nodes \in Seq(NodeType)
    BY DEF VpnFileType
  <2> QED BY <2>1, Elements
<1>2. seqs \in Seq(Seq(Errors))
  BY <1>1, NodeChecked, IsASeq
<1>3. VpnVerdict(v) = First(FlattenSeq(seqs))
  BY DEF VpnVerdict
<1> HIDE DEF seqs
<1>4. VpnVerdict(v) \in Errors
  BY <1>2, <1>3, OkFlattened, FirstIs
<1>5. v.shape \in Shapes
  BY DEF VpnFileType
<1> QED BY <1>4, <1>5 DEF Loaded, Errors, Shapes

LEMMA CommandsDone ==
  ASSUME NEW c \in FileType
  PROVE  Len(Commands(c)) \in Nat /\ \A k \in 1..Len(Commands(c)) : Commands(c)[k].op \in CommandOps
<1>1. Commands(c) \in Seq(LinkCmds(c) \union OtherCmds)
  BY CommandsAre
<1>2. \A x \in LinkCmds(c) \union OtherCmds : x.op \in CommandOps
  BY DEF LinkCmds, OtherCmds, CommandOps
<1> QED BY <1>1, <1>2, Elements

\* A link has its ends on the root stack or in a namespace that exists, a
\* build starts without the file's namespaces, and ends with its links in them.
NetInv ==
  /\ Shaped(net) /\ Anchored(net)
  /\ step = "build" => \A x \in NamesOf(config) : x \notin net.netns
  /\ OnlyTheFile

LEMMA NetInit == VpnInit => NetInv
<1> SUFFICES ASSUME VpnInit PROVE NetInv
  OBVIOUS
<1>1. net = EmptyNet /\ step = "none" /\ outcome = "none"
  BY DEF VpnInit, Init
<1>2. Shaped(net)
  BY <1>1 DEF Shaped, EmptyNet
<1>3. Anchored(net)
  BY <1>1 DEF Anchored, Devices, EmptyNet
<1> QED BY <1>1, <1>2, <1>3 DEF NetInv, OnlyTheFile

LEMMA NetTeardown ==
  ASSUME FilesInv, NetInv, Teardown
  PROVE  NetInv'
<1>1. config' = config /\ outcome' # "built"
  BY DEF Teardown, Exit, FilesInv
<1>2. config \in FileType /\ Len(config.namespaces) \in Nat
  BY FileParts DEF FilesInv
<1>3. net' = Deleted(config, net, Len(config.namespaces))
  BY DEF Teardown
<1>4. /\ Shaped(net') /\ Anchored(net')
      /\ \A j \in 1..Len(config.namespaces) : config.namespaces[j].name \notin net'.netns
  BY <1>2, <1>3, DeletedIs DEF NetInv
<1>5. \A x \in NamesOf(config) : x \notin net'.netns
  BY <1>4 DEF NamesOf
<1> QED BY <1>1, <1>4, <1>5 DEF NetInv, OnlyTheFile, Shaped, Anchored

LEMMA NetBuild ==
  ASSUME FilesInv, NetInv, Build
  PROVE  NetInv'
<1> DEFINE end == Ran(config, net, Commands(config))
<1>1. /\ config' = config /\ step' = "none" /\ net' = end.net
      /\ outcome' = "built" => end.ok
  BY DEF Build, Exit
<1>2. config \in FileType /\ Fine(config) /\ \A x \in NamesOf(config) : x \notin net.netns
  BY DEF FilesInv, NetInv, Build
<1>3. Shaped(end.net) /\ Anchored(end.net)
  BY <1>2, CommandsDone, RanAnchored DEF NetInv
<1>4. end.ok => {d \in Devices(end.net) : d[1] \in NamesOf(config)} = UNION Links(config)
  BY <1>2, BuiltIsFile DEF NetInv
<1> HIDE DEF end
<1> QED BY <1>1, <1>3, <1>4 DEF NetInv, OnlyTheFile, Shaped, Anchored

LEMMA NetKill ==
  ASSUME FilesInv, NetInv, Kill
  PROVE  NetInv'
<1>1. config' = config /\ step' = "none" /\ outcome' = "killed"
  BY DEF Kill, Exit
<1>2. config \in FileType /\ Len(config.namespaces) \in Nat
  BY FileParts DEF FilesInv
<1>3. CASE step = "teardown"
  <2>1. PICK k \in 0..Len(config.namespaces) : net' = Deleted(config, net, k)
    BY <1>3 DEF Kill
  <2>2. k \in Nat
    BY <1>2
  <2>3. Shaped(net') /\ Anchored(net')
    BY <2>1, <2>2, DeletedIs DEF NetInv
  <2> QED BY <1>1, <2>3 DEF NetInv, OnlyTheFile, Shaped, Anchored
<1>4. CASE step # "teardown"
  <2> DEFINE cmds == Commands(config)
  <2>1. PICK k \in 0..Len(cmds) : net' = Ran(config, net, SubSeq(cmds, 1, k)).net
    BY <1>4 DEF Kill
  <2>2. Len(cmds) \in Nat /\ \A j \in 1..Len(cmds) : cmds[j].op \in CommandOps
    BY <1>2, CommandsDone
  <2>3. /\ Len(SubSeq(cmds, 1, k)) \in Nat
        /\ \A j \in 1..Len(SubSeq(cmds, 1, k)) : SubSeq(cmds, 1, k)[j].op \in CommandOps
    <3>1. cmds \in Seq(LinkCmds(config) \union OtherCmds)
      BY <1>2, CommandsAre
    <3> HIDE DEF cmds
    <3>2. \A j \in 1..k : j \in 1..Len(cmds)
      BY <2>2
    <3>3. /\ Len(SubSeq(cmds, 1, k)) = k
          /\ \A j \in 1..k : SubSeq(cmds, 1, k)[j] = cmds[j]
      BY <2>2, <3>1, <3>2, SubSeqProperties
    <3> QED BY <2>2, <3>2, <3>3
  <2>4. Shaped(net') /\ Anchored(net')
    <3> DEFINE some == SubSeq(cmds, 1, k)
    <3>1. Len(some) \in Nat /\ \A j \in 1..Len(some) : some[j].op \in CommandOps
      BY <2>3
    <3>2. net' = Ran(config, net, some).net
      BY <2>1
    <3> HIDE DEF some, cmds
    <3> QED BY <3>1, <3>2, RanAnchored DEF NetInv
  <2> QED BY <1>1, <2>4 DEF NetInv, OnlyTheFile, Shaped, Anchored
<1> QED BY <1>3, <1>4

LEMMA NetNext ==
  ASSUME FilesInv, NetInv, [VpnNext]_vvars
  PROVE  NetInv'
<1>1. CASE Teardown /\ LabStep
  BY <1>1, NetTeardown
<1>2. CASE Build /\ LabStep
  BY <1>2, NetBuild
<1>3. CASE Kill /\ LabStep
  BY <1>3, NetKill
<1>4. CASE Start /\ LabStep
  BY <1>4 DEF NetInv, OnlyTheFile, Shaped, Anchored, Start
<1>5. CASE Load /\ LabStep
  <2>1. Verdict(file) # "built"
    BY FileChecked DEF FilesInv, Errors
  <2>2. net' = net /\ outcome' # "built" /\ step' # "build"
    BY <1>5, <2>1 DEF Load, Exit, FilesInv
  <2> QED BY <2>2 DEF NetInv, OnlyTheFile, Shaped, Anchored
<1>6. CASE Edit /\ LabStep
  BY <1>6 DEF NetInv, OnlyTheFile, Shaped, Anchored, Edit
<1>7. CASE StartDemo
  BY <1>7 DEF NetInv, OnlyTheFile, Shaped, Anchored, StartDemo
<1>8. CASE LoadVpn
  <2>1. Loaded(vfile) # "built"
    BY VpnFileChecked DEF FilesInv
  <2>2. net' = net /\ outcome' # "built" /\ step' # "build"
    BY <1>8, <2>1 DEF LoadVpn, Exit, FilesInv
  <2> QED BY <2>2 DEF NetInv, OnlyTheFile, Shaped, Anchored
<1>9. CASE Deploy
  BY <1>9 DEF NetInv, OnlyTheFile, Shaped, Anchored, Deploy, Exit
<1>10. CASE KillDemo
  BY <1>10 DEF NetInv, OnlyTheFile, Shaped, Anchored, KillDemo, Exit
<1>11. CASE EditVpn
  BY <1>11 DEF NetInv, OnlyTheFile, Shaped, Anchored, EditVpn
<1>12. CASE UNCHANGED vvars
  BY <1>12 DEF NetInv, OnlyTheFile, Shaped, Anchored, vvars, vars
<1> QED BY <1>1, <1>2, <1>3, <1>4, <1>5, <1>6, <1>7, <1>8, <1>9, <1>10, <1>11, <1>12
        DEF VpnNext, LabStep, Next

\* What run_lab.py leaves after a build that succeeded is what topology.yaml
\* said, and nothing of what was there before (lab/run_lab.py, main).
THEOREM BuiltIsOnlyTheFile == VpnSpec => []OnlyTheFile
<1>1. FilesInv /\ NetInv /\ [VpnNext]_vvars => NetInv'
  BY NetNext
<1>2. NetInv => OnlyTheFile
  BY DEF NetInv
<1> QED BY <1>1, <1>2, NetInit, FilesAlways, PTL DEF VpnSpec

-----------------------------------------------------------------------------
(***************************************************************************)
(* deploy() command by command.                                            *)
(***************************************************************************)

\* f[k] is what the first k commands leave of the tunnel.
DeployRuns(f, v, t, cmds, N) ==
  /\ f[0] = [tun |-> t, ok |-> TRUE]
  /\ \A k \in 1..N : f[k] = DeployRun(v, f[k - 1], cmds[k])

DeployRunsTo(f, v, z, cmds, N) ==
  f = [k \in 0..N |-> IF k = 0 THEN z ELSE DeployRun(v, f[k - 1], cmds[k])]

LEMMA DeployRunsExists ==
  ASSUME NEW v, NEW z, NEW cmds, NEW N \in Nat
  PROVE  \E f : DeployRunsTo(f, v, z, cmds, N)
<1> DEFINE P(f, m) == f = [k \in 0..m |-> IF k = 0 THEN z ELSE DeployRun(v, f[k - 1], cmds[k])]
           T == {m \in Nat : \E f : P(f, m)}
<1>1. 0 \in T
  <2>1. P([k \in 0..0 |-> z], 0)
    OBVIOUS
  <2> QED BY <2>1
<1>2. ASSUME NEW m \in Nat, m \in T PROVE m + 1 \in T
  <2>1. PICK f : P(f, m)
    BY <1>2
  <2> DEFINE g == [k \in 0..(m + 1) |-> IF k <= m THEN f[k] ELSE DeployRun(v, f[m], cmds[m + 1])]
  <2>2. \A k \in 0..(m + 1) : g[k] = IF k = 0 THEN z ELSE DeployRun(v, g[k - 1], cmds[k])
    <3> SUFFICES ASSUME NEW k \in 0..(m + 1)
                 PROVE  g[k] = IF k = 0 THEN z ELSE DeployRun(v, g[k - 1], cmds[k])
      OBVIOUS
    <3>1. CASE k <= m
      <4>1. k \in 0..m /\ (k # 0 => k - 1 \in 0..m /\ k - 1 \in 0..(m + 1) /\ k - 1 <= m)
        BY <3>1
      <4>2. f[k] = IF k = 0 THEN z ELSE DeployRun(v, f[k - 1], cmds[k])
        BY <2>1, <4>1
      <4>3. g[k] = f[k] /\ (k # 0 => g[k - 1] = f[k - 1])
        BY <4>1
      <4> QED BY <4>2, <4>3
    <3>2. CASE k = m + 1
      <4>1. k # 0 /\ k - 1 = m /\ ~(k <= m) /\ m \in 0..(m + 1)
        BY <3>2
      <4>2. g[k] = DeployRun(v, f[m], cmds[k]) /\ g[k - 1] = f[m]
        BY <3>2, <4>1
      <4> QED BY <4>1, <4>2
    <3>3. k <= m \/ k = m + 1
      OBVIOUS
    <3> QED BY <3>1, <3>2, <3>3
  <2>3. g = [k \in 0..(m + 1) |-> g[k]]
    OBVIOUS
  <2> HIDE DEF g
  <2>4. P(g, m + 1)
    BY <2>2, <2>3
  <2> QED BY <2>4
<1> HIDE DEF T, P
<1>3. \A m \in Nat : m \in T
  BY <1>1, <1>2, SetInduction
<1> QED BY <1>3 DEF T, P, DeployRunsTo

LEMMA DeployRanIs ==
  ASSUME NEW v, NEW t, NEW cmds, Len(cmds) \in Nat
  PROVE  \E f : DeployRuns(f, v, t, cmds, Len(cmds)) /\ DeployRan(v, t, cmds) = f[Len(cmds)]
<1> DEFINE N == Len(cmds)
           z == [tun |-> t, ok |-> TRUE]
           f == CHOOSE h : DeployRunsTo(h, v, z, cmds, N)
<1>1. DeployRan(v, t, cmds) = f[N]
  BY DEF DeployRan, DeployRunsTo
<1>2. DeployRunsTo(f, v, z, cmds, N)
  <2> HIDE DEF z
  <2>1. \E h : DeployRunsTo(h, v, z, cmds, N)
    BY DeployRunsExists
  <2> QED BY <2>1, Zenon
<1> HIDE DEF f, N, z
<1>3. N \in Nat
  BY DEF N
<1>4. f[0] = z
  <2>1. 0 \in 0..N
    BY <1>3
  <2> QED BY <1>2, <2>1 DEF DeployRunsTo
<1>5. \A k \in 1..N : f[k] = DeployRun(v, f[k - 1], cmds[k])
  <2>1. \A k \in 1..N : k \in 0..N /\ k # 0
    BY <1>3
  <2> QED BY <1>2, <2>1 DEF DeployRunsTo
<1> QED BY <1>1, <1>4, <1>5 DEF DeployRuns, N, z

DeployCmds ==
  [op : {"genkey", "create", "setconf", "addr", "mtu", "up"}, node : NodeType]
    \union [op : {"route"}, node : NodeType, r : RouteType]

LEMMA Nodes ==
  ASSUME NEW v \in VpnFileType
  PROVE  /\ Len(v.nodes) \in Nat /\ ToSet(v.nodes) = {v.nodes[k] : k \in 1..Len(v.nodes)}
         /\ \A k \in 1..Len(v.nodes) :
              /\ v.nodes[k] \in NodeType
              /\ v.nodes[k].routes \in Seq(RouteType) /\ Len(v.nodes[k].routes) \in Nat
<1>1. v.nodes \in Seq(NodeType)
  BY DEF VpnFileType
<1>2. \A node \in NodeType : node.routes \in Seq(RouteType)
  BY DEF NodeType
<1> QED BY <1>1, <1>2, Elements

\* WireGuardManager's commands: every node's interface is configured, right
\* after it was created.
LEMMA LinkStepsAre ==
  ASSUME NEW v \in VpnFileType
  PROVE  LET l == FlattenSeq([k \in 1..Len(v.nodes) |->
                    [s \in 1..5 |-> [op |-> LinkSteps[s], node |-> v.nodes[k]]]])
         IN  /\ l \in Seq(DeployCmds)
             /\ \A k \in 1..Len(v.nodes) : \E m \in 1..Len(l) :
                  l[m] = [op |-> "setconf", node |-> v.nodes[k]]
             /\ \A m \in 1..Len(l) : l[m].op = "setconf" =>
                  m - 1 \in 1..Len(l) /\ l[m - 1] = [op |-> "create", node |-> l[m].node]
<1> DEFINE N == Len(v.nodes)
           piece(k) == [s \in 1..5 |-> [op |-> LinkSteps[s], node |-> v.nodes[k]]]
           seqs == [k \in 1..N |-> piece(k)]
           l == FlattenSeq(seqs)
<1>1. N \in Nat /\ \A k \in 1..N : v.nodes[k] \in NodeType
  BY Nodes
<1>2. /\ LinkSteps[1] = "create" /\ LinkSteps[2] = "setconf" /\ LinkSteps[3] = "addr"
      /\ LinkSteps[4] = "mtu" /\ LinkSteps[5] = "up"
      /\ \A s \in 1..5 : LinkSteps[s] \in {"create", "setconf", "addr", "mtu", "up"}
      /\ \A s \in 1..5 : LinkSteps[s] = "setconf" => s = 2
  BY DEF LinkSteps
<1>3. ASSUME NEW k \in 1..N
      PROVE  /\ piece(k) \in Seq(DeployCmds) /\ Len(piece(k)) = 5
             /\ \A s \in 1..5 : piece(k)[s] = [op |-> LinkSteps[s], node |-> v.nodes[k]]
  <2>1. \A s \in 1..5 : [op |-> LinkSteps[s], node |-> v.nodes[k]] \in DeployCmds
    BY <1>1, <1>2 DEF DeployCmds
  <2> QED BY <2>1, IsASeq
<1>4. /\ seqs \in Seq(Seq(DeployCmds)) /\ Len(seqs) = N
      /\ \A k \in 1..N : seqs[k] = piece(k)
  <2> HIDE DEF N, piece
  <2>1. \A k \in 1..N : piece(k) \in Seq(DeployCmds)
    BY <1>3
  <2>2. seqs \in Seq(Seq(DeployCmds))
    BY <1>1, <2>1, IsASeq
  <2> QED BY <1>1, <2>2
<1> HIDE DEF N, piece, seqs
<1>5. l \in Seq(DeployCmds)
  BY <1>4, Flattened
<1>6. PICK off : Lays(off, seqs, l)
  BY <1>4, Flattened
<1> HIDE DEF l
<1>7. \A k \in 1..N : \A s \in 1..Len(seqs[k]) :
        off[k - 1] + s \in 1..Len(l) /\ l[off[k - 1] + s] = seqs[k][s]
  BY <1>4, <1>6, Zenon DEF Lays
<1>8. \A m \in 1..Len(l) : \E k \in 1..N : \E s \in 1..Len(seqs[k]) : m = off[k - 1] + s
  BY <1>4, <1>6, Zenon DEF Lays
<1>9. \A k \in 1..N : \A s \in 1..5 :
        /\ off[k - 1] + s \in 1..Len(l)
        /\ l[off[k - 1] + s] = [op |-> LinkSteps[s], node |-> v.nodes[k]]
  <2> SUFFICES ASSUME NEW k \in 1..N, NEW s \in 1..5
               PROVE  /\ off[k - 1] + s \in 1..Len(l)
                      /\ l[off[k - 1] + s] = [op |-> LinkSteps[s], node |-> v.nodes[k]]
    OBVIOUS
  <2>1. seqs[k] = piece(k)
    BY <1>4
  <2>2. Len(seqs[k]) = 5 /\ seqs[k][s] = [op |-> LinkSteps[s], node |-> v.nodes[k]]
    BY <1>3, <2>1
  <2> QED BY <1>7, <2>2
<1>10. \A m \in 1..Len(l) : \E k \in 1..N : \E s \in 1..5 : m = off[k - 1] + s
  <2>1. \A k \in 1..N : Len(piece(k)) = 5
    BY <1>3
  <2>2. \A k \in 1..N : Len(seqs[k]) = 5
    BY <1>4, <2>1
  <2> QED BY <1>8, <2>2
<1>11. \A k \in 1..N : \E m \in 1..Len(l) : l[m] = [op |-> "setconf", node |-> v.nodes[k]]
  <2>1. 2 \in 1..5
    OBVIOUS
  <2> QED BY <1>2, <1>9, <2>1
<1>12. ASSUME NEW m \in 1..Len(l), l[m].op = "setconf"
       PROVE  m - 1 \in 1..Len(l) /\ l[m - 1] = [op |-> "create", node |-> l[m].node]
  <2>1. PICK k \in 1..N : \E s \in 1..5 : m = off[k - 1] + s
    BY <1>10
  <2>2. PICK s \in 1..5 : m = off[k - 1] + s
    BY <2>1
  <2>3. l[m] = [op |-> LinkSteps[s], node |-> v.nodes[k]]
    BY <1>9, <2>2
  <2>4. s = 2 /\ l[m].node = v.nodes[k]
    BY <1>2, <1>12, <2>3
  <2>5. /\ off[k - 1] + 1 \in 1..Len(l)
        /\ l[off[k - 1] + 1] = [op |-> "create", node |-> v.nodes[k]]
    <3>1. 1 \in 1..5
      OBVIOUS
    <3> QED BY <1>2, <1>9, <3>1
  <2>6. m - 1 = off[k - 1] + 1
    <3>1. off[k - 1] \in Nat
      <4>1. off \in [0..Len(seqs) -> Nat]
        BY <1>6, Zenon DEF Lays
      <4>2. k - 1 \in 0..Len(seqs)
        <5>1. Len(seqs) = N /\ N \in Nat
          BY <1>1, <1>4
        <5> QED BY <5>1
      <4> QED BY <4>1, <4>2
    <3> QED BY <2>2, <2>4, <3>1
  <2> QED BY <2>4, <2>5, <2>6
<1> QED BY <1>5, <1>11, <1>12 DEF l, seqs, piece, N

\* deploy() makes keys for every node and configures every node's interface,
\* right after it was created.
LEMMA DeployCommandsAre ==
  ASSUME NEW v \in VpnFileType
  PROVE  LET cmds == DeployCommands(v)
         IN  /\ cmds \in Seq(DeployCmds) /\ Len(cmds) \in Nat
             /\ \A k \in 1..Len(v.nodes) : \E m \in 1..Len(cmds) :
                  cmds[m] = [op |-> "genkey", node |-> v.nodes[k]]
             /\ \A k \in 1..Len(v.nodes) : \E m \in 1..Len(cmds) :
                  cmds[m] = [op |-> "setconf", node |-> v.nodes[k]]
             /\ \A m \in 1..Len(cmds) : cmds[m].op = "setconf" =>
                  m - 1 \in 1..Len(cmds) /\ cmds[m - 1] = [op |-> "create", node |-> cmds[m].node]
<1> DEFINE N == Len(v.nodes)
           g == [k \in 1..N |-> [op |-> "genkey", node |-> v.nodes[k]]]
           l == FlattenSeq([k \in 1..N |->
                  [s \in 1..5 |-> [op |-> LinkSteps[s], node |-> v.nodes[k]]]])
           cmd(k, j) == [op |-> "route", node |-> v.nodes[k], r |-> v.nodes[k].routes[j]]
           piece(k) == [j \in 1..Len(v.nodes[k].routes) |-> cmd(k, j)]
           r == FlattenSeq([k \in 1..N |-> piece(k)])
           cmds == DeployCommands(v)
<1>1. /\ N \in Nat
      /\ \A k \in 1..N : /\ v.nodes[k] \in NodeType
                         /\ v.nodes[k].routes \in Seq(RouteType)
                         /\ Len(v.nodes[k].routes) \in Nat
  BY Nodes
<1>2. /\ g \in Seq(DeployCmds) /\ Len(g) = N
      /\ \A k \in 1..N : g[k] = [op |-> "genkey", node |-> v.nodes[k]]
  <2>1. \A k \in 1..N : [op |-> "genkey", node |-> v.nodes[k]] \in DeployCmds
    BY <1>1 DEF DeployCmds
  <2> HIDE DEF N
  <2> QED BY <1>1, <2>1, IsASeq
<1>3. /\ l \in Seq(DeployCmds)
      /\ \A k \in 1..N : \E m \in 1..Len(l) : l[m] = [op |-> "setconf", node |-> v.nodes[k]]
      /\ \A m \in 1..Len(l) : l[m].op = "setconf" =>
           m - 1 \in 1..Len(l) /\ l[m - 1] = [op |-> "create", node |-> l[m].node]
  BY LinkStepsAre, Zenon
<1>4. r \in Seq(DeployCmds)
  <2>1. ASSUME NEW k \in 1..N PROVE piece(k) \in Seq(DeployCmds)
    <3>1. \A j \in 1..Len(v.nodes[k].routes) : v.nodes[k].routes[j] \in RouteType
      BY <1>1, Elements
    <3>2. \A j \in 1..Len(v.nodes[k].routes) : cmd(k, j) \in DeployCmds
      BY <1>1, <3>1 DEF DeployCmds
    <3>3. Len(v.nodes[k].routes) \in Nat
      BY <1>1
    <3> HIDE DEF cmd
    <3> QED BY <3>2, <3>3, IsASeq
  <2>2. [k \in 1..N |-> piece(k)] \in Seq(Seq(DeployCmds))
    <3> HIDE DEF N, piece
    <3> QED BY <1>1, <2>1, IsASeq
  <2> QED BY <2>2, Flattened
<1>5. \A j \in 1..Len(r) : r[j].op = "route"
  <2> DEFINE seqs == [k \in 1..N |-> piece(k)]
  <2>1. ASSUME NEW k \in 1..N
        PROVE  /\ piece(k) \in Seq({x \in DeployCmds : x.op = "route"})
    <3>1. \A j \in 1..Len(v.nodes[k].routes) : v.nodes[k].routes[j] \in RouteType
      BY <1>1, Elements
    <3>2. \A j \in 1..Len(v.nodes[k].routes) : cmd(k, j) \in {x \in DeployCmds : x.op = "route"}
      BY <1>1, <3>1 DEF DeployCmds
    <3>3. Len(v.nodes[k].routes) \in Nat
      BY <1>1
    <3> HIDE DEF cmd
    <3> QED BY <3>2, <3>3, IsASeq
  <2>2. seqs \in Seq(Seq({x \in DeployCmds : x.op = "route"}))
    <3> HIDE DEF N, piece
    <3> QED BY <1>1, <2>1, IsASeq
  <2>3. r \in Seq({x \in DeployCmds : x.op = "route"})
    BY <2>2, Flattened
  <2> HIDE DEF r
  <2> QED BY <2>3, Elements
<1>6. cmds = (g \o l) \o r
  BY DEF DeployCommands
<1> HIDE DEF N, g, l, r, cmds
<1> DEFINE x == g \o l
<1>7. /\ x \in Seq(DeployCmds) /\ Len(x) = Len(g) + Len(l) /\ Len(g) \in Nat /\ Len(l) \in Nat
      /\ \A k \in 1..Len(g) : x[k] = g[k]
      /\ \A k \in 1..Len(l) : x[Len(g) + k] = l[k]
  <2>1. g \in Seq(DeployCmds) /\ l \in Seq(DeployCmds)
    BY <1>2, <1>3
  <2> QED BY <2>1, Concats
<1>8. cmds = x \o r
  BY <1>6
<1> HIDE DEF x
<1>9. /\ cmds \in Seq(DeployCmds) /\ Len(cmds) = Len(x) + Len(r) /\ Len(r) \in Nat
      /\ \A k \in 1..Len(x) : cmds[k] = x[k]
      /\ \A k \in 1..Len(r) : cmds[Len(x) + k] = r[k]
  <2>1. x \in Seq(DeployCmds) /\ r \in Seq(DeployCmds)
    BY <1>4, <1>7
  <2> QED BY <1>8, <2>1, Concats
<1>10. Len(cmds) \in Nat
  BY <1>7, <1>9
<1>11. \A k \in 1..Len(g) : k \in 1..Len(cmds) /\ cmds[k] = g[k]
  BY <1>7, <1>9
<1>12. \A k \in 1..Len(l) : Len(g) + k \in 1..Len(cmds) /\ cmds[Len(g) + k] = l[k]
  <2>1. \A k \in 1..Len(l) : Len(g) + k \in 1..Len(x) /\ Len(g) + k \in 1..Len(cmds)
    BY <1>7, <1>9
  <2>2. \A k \in 1..Len(l) : cmds[Len(g) + k] = x[Len(g) + k]
    BY <1>9, <2>1
  <2>3. \A k \in 1..Len(l) : x[Len(g) + k] = l[k]
    BY <1>7
  <2> QED BY <2>1, <2>2, <2>3
<1>13. \A m \in 1..Len(cmds) : \/ m \in 1..Len(g)
                               \/ m - Len(g) \in 1..Len(l)
                               \/ m - Len(x) \in 1..Len(r)
  BY <1>7, <1>9
<1>14. \A k \in 1..N : \E m \in 1..Len(cmds) : cmds[m] = [op |-> "genkey", node |-> v.nodes[k]]
  <2>1. \A k \in 1..N : k \in 1..Len(g) /\ g[k] = [op |-> "genkey", node |-> v.nodes[k]]
    BY <1>2
  <2>2. \A k \in 1..N : k \in 1..Len(cmds) /\ cmds[k] = g[k]
    BY <1>11, <2>1
  <2> QED BY <2>1, <2>2
<1>15. \A k \in 1..N : \E m \in 1..Len(cmds) : cmds[m] = [op |-> "setconf", node |-> v.nodes[k]]
  <2> SUFFICES ASSUME NEW k \in 1..N
               PROVE  \E m \in 1..Len(cmds) : cmds[m] = [op |-> "setconf", node |-> v.nodes[k]]
    OBVIOUS
  <2>1. PICK m \in 1..Len(l) : l[m] = [op |-> "setconf", node |-> v.nodes[k]]
    BY <1>3
  <2>2. Len(g) + m \in 1..Len(cmds) /\ cmds[Len(g) + m] = l[m]
    BY <1>12
  <2> QED BY <2>1, <2>2
<1>16. ASSUME NEW m \in 1..Len(cmds), cmds[m].op = "setconf"
       PROVE  m - 1 \in 1..Len(cmds) /\ cmds[m - 1] = [op |-> "create", node |-> cmds[m].node]
  <2>1. m \notin 1..Len(g)
    <3>1. m \in 1..Len(g) => cmds[m].op = "genkey"
      BY <1>2, <1>11
    <3> QED BY <1>16, <3>1
  <2>2. m - Len(x) \notin 1..Len(r)
    <3>1. Len(x) + (m - Len(x)) = m
      BY <1>7
    <3>2. m - Len(x) \in 1..Len(r) => cmds[m].op = "route"
      BY <1>5, <1>9, <3>1
    <3> QED BY <1>16, <3>2
  <2> DEFINE k == m - Len(g)
  <2>3. k \in 1..Len(l)
    BY <1>13, <2>1, <2>2
  <2>4. Len(g) + k = m /\ Len(g) + (k - 1) = m - 1
    BY <1>7
  <2> HIDE DEF k
  <2>5. cmds[m] = l[k]
    BY <1>12, <2>3, <2>4
  <2>6. k - 1 \in 1..Len(l) /\ l[k - 1] = [op |-> "create", node |-> l[k].node]
    BY <1>3, <1>16, <2>3, <2>5
  <2> QED BY <1>12, <2>4, <2>5, <2>6
<1> QED BY <1>9, <1>10, <1>14, <1>15, <1>16 DEF cmds, N

TunnelShaped(t) ==
  t = [ifs |-> t.ifs, addrs |-> t.addrs, ups |-> t.ups, routes |-> t.routes]

\* An interface as the file has it.
AsConfigured(node) == <<Device(node), KeyOf(node.ns), PeerKeys(node)>>

LEMMA DeployEffects ==
  ASSUME NEW t, TunnelShaped(t), NEW cmd
  PROVE  /\ TunnelShaped(Deployed(t, cmd))
         /\ cmd.op = "create" =>
              Deployed(t, cmd).ifs = t.ifs \union {<<Device(cmd.node), "none", {}>>}
         /\ cmd.op = "setconf" =>
              Deployed(t, cmd).ifs = {x \in t.ifs : x[1] # Device(cmd.node)}
                                       \union {AsConfigured(cmd.node)}
         /\ cmd.op \notin {"create", "setconf"} => Deployed(t, cmd).ifs = t.ifs
<1> DEFINE r == Deployed(t, cmd)
           d == Device(cmd.node)
<1>1. CASE cmd.op = "create"
  <2>1. r = [t EXCEPT !.ifs = t.ifs \union {<<d, "none", {}>>}]
    BY <1>1 DEF Deployed, TunnelShaped
  <2> HIDE DEF r, d
  <2>2. TunnelShaped(r) /\ r.ifs = t.ifs \union {<<d, "none", {}>>}
    BY <2>1 DEF TunnelShaped
  <2> QED BY <1>1, <2>2 DEF r, d
<1>2. CASE cmd.op = "setconf"
  <2> DEFINE i == {x \in t.ifs : x[1] # d} \union {AsConfigured(cmd.node)}
  <2>1. r = [t EXCEPT !.ifs = i]
    <3>1. d[1] = cmd.node.ns
      BY DEF Device
    <3> QED BY <1>2, <3>1, Zenon DEF Deployed, AsConfigured
  <2> HIDE DEF r, d, i
  <2>2. TunnelShaped(r) /\ r.ifs = i
    BY <2>1 DEF TunnelShaped
  <2> QED BY <1>2, <2>2 DEF r, d, i
<1>3. CASE cmd.op = "addr"
  <2> DEFINE i == t.addrs \union {<<d, cmd.node.ip>>}
  <2>1. r = [t EXCEPT !.addrs = i]
    BY <1>3 DEF Deployed, TunnelShaped
  <2> HIDE DEF r, i
  <2>2. TunnelShaped(r) /\ r.ifs = t.ifs
    BY <2>1 DEF TunnelShaped
  <2> QED BY <1>3, <2>2 DEF r
<1>4. CASE cmd.op = "up"
  <2> DEFINE i == t.ups \union {<<d, cmd.node.port>>}
  <2>1. r = [t EXCEPT !.ups = i]
    BY <1>4 DEF Deployed, TunnelShaped
  <2> HIDE DEF r, i
  <2>2. TunnelShaped(r) /\ r.ifs = t.ifs
    BY <2>1 DEF TunnelShaped
  <2> QED BY <1>4, <2>2 DEF r
<1>5. CASE cmd.op = "route"
  <2> DEFINE i == t.routes \union {<<d[1], cmd.r.target>>}
  <2>1. r = [t EXCEPT !.routes = i]
    BY <1>5 DEF Deployed, TunnelShaped
  <2> HIDE DEF r, i
  <2>2. TunnelShaped(r) /\ r.ifs = t.ifs
    BY <2>1 DEF TunnelShaped
  <2> QED BY <1>5, <2>2 DEF r
<1>6. CASE cmd.op \notin {"create", "setconf", "addr", "up", "route"}
  <2>1. r = t
    BY <1>6 DEF Deployed
  <2> QED BY <1>6, <2>1
<1> QED BY <1>1, <1>2, <1>3, <1>4, <1>5, <1>6

LEMMA DeployShaped ==
  ASSUME NEW v, NEW t, TunnelShaped(t), NEW cmds, Len(cmds) \in Nat
  PROVE  TunnelShaped(DeployRan(v, t, cmds).tun)
<1> DEFINE N == Len(cmds)
<1>1. PICK f : DeployRuns(f, v, t, cmds, N) /\ DeployRan(v, t, cmds) = f[N]
  BY DeployRanIs
<1> DEFINE T == {k \in Nat : k <= N => TunnelShaped(f[k].tun)}
<1>2. 0 \in T
  <2>1. f[0].tun = t
    BY <1>1 DEF DeployRuns
  <2> QED BY <2>1
<1>3. ASSUME NEW k \in Nat, k \in T PROVE k + 1 \in T
  <2> SUFFICES ASSUME k + 1 <= N PROVE TunnelShaped(f[k + 1].tun)
    OBVIOUS
  <2>1. TunnelShaped(f[k].tun)
    BY <1>3
  <2>2. k + 1 \in 1..N /\ (k + 1) - 1 = k
    OBVIOUS
  <2>3. f[k + 1] = DeployRun(v, f[k], cmds[k + 1])
    BY <1>1, <2>2 DEF DeployRuns
  <2>4. f[k + 1].tun \in {f[k].tun, Deployed(f[k].tun, cmds[k + 1])}
    BY <2>3 DEF DeployRun
  <2>5. TunnelShaped(Deployed(f[k].tun, cmds[k + 1]))
    BY <2>1, DeployEffects
  <2> QED BY <2>1, <2>4, <2>5
<1> HIDE DEF T
<1>4. N \in T
  BY <1>2, <1>3, SetInduction
<1> QED BY <1>1, <1>4 DEF T

\* A deploy() that returns leaves every interface as the file has it, in
\* namespaces that exist: none is configured twice, because each is created
\* first, and that fails for one that is there.
LEMMA DeployedIsOfFile ==
  ASSUME NEW v \in VpnFileType, NEW t, TunnelShaped(t), DeployRan(v, t, DeployCommands(v)).ok
  PROVE  /\ VpnNames(v) \subseteq net.netns
         /\ \A k \in 1..Len(v.nodes) :
              AsConfigured(v.nodes[k]) \in DeployRan(v, t, DeployCommands(v)).tun.ifs
<1> DEFINE cmds == DeployCommands(v)
           N == Len(cmds)
           Set(j) == cmds[j].op = "setconf"
           dev(j) == Device(cmds[j].node)
<1>1. /\ N \in Nat
      /\ \A k \in 1..Len(v.nodes) : \E m \in 1..N :
           cmds[m] = [op |-> "genkey", node |-> v.nodes[k]]
      /\ \A k \in 1..Len(v.nodes) : \E m \in 1..N :
           cmds[m] = [op |-> "setconf", node |-> v.nodes[k]]
      /\ \A m \in 1..N : cmds[m].op = "setconf" =>
           m - 1 \in 1..N /\ cmds[m - 1] = [op |-> "create", node |-> cmds[m].node]
  BY DeployCommandsAre
<1>2. DeployRan(v, t, cmds).ok
  OBVIOUS
<1> HIDE DEF cmds
<1>3. PICK f : DeployRuns(f, v, t, cmds, N) /\ DeployRan(v, t, cmds) = f[N]
  BY <1>1, DeployRanIs
<1> DEFINE Keys(k) == \A j \in 1..k : cmds[j].op = "genkey" => cmds[j].node.ns \in net.netns
           Confs(k) == \A j \in 1..k : Set(j) => AsConfigured(cmds[j].node) \in f[k].tun.ifs
           Fresh(k) == k # 0 /\ cmds[k].op = "create" =>
                         \A j \in 1..k : Set(j) => dev(j) # dev(k)
           Good(k) == /\ TunnelShaped(f[k].tun)
                      /\ f[k].ok => Keys(k) /\ Confs(k) /\ Fresh(k)
           T == {k \in Nat : k <= N => Good(k)}
<1>4. 0 \in T
  <2>1. f[0].tun = t
    BY <1>3 DEF DeployRuns
  <2> QED BY <2>1
<1>5. ASSUME NEW k \in Nat, k \in T PROVE k + 1 \in T
  <2> SUFFICES ASSUME k + 1 <= N PROVE Good(k + 1)
    OBVIOUS
  <2> DEFINE s == f[k].tun
             cmd == cmds[k + 1]
             r == Deployed(s, cmd)
  <2>1. Good(k)
    BY <1>5
  <2>2. k + 1 \in 1..N /\ (k + 1) - 1 = k
    OBVIOUS
  <2>3. f[k + 1] = DeployRun(v, f[k], cmd)
    BY <1>3, <2>2 DEF DeployRuns
  <2>4. \A j \in 1..(k + 1) : j \in 1..k \/ j = k + 1
    OBVIOUS
  <2>5. CASE f[k].ok /\ CanDeploy(v, s, cmd)
    <3>1. f[k + 1].tun = r
      BY <2>3, <2>5 DEF DeployRun
    <3>2. TunnelShaped(s) /\ Keys(k) /\ Confs(k) /\ Fresh(k)
      BY <2>1, <2>5
    <3>3. /\ TunnelShaped(r)
          /\ cmd.op = "create" => r.ifs = s.ifs \union {<<Device(cmd.node), "none", {}>>}
          /\ cmd.op = "setconf" =>
               r.ifs = {x \in s.ifs : x[1] # Device(cmd.node)} \union {AsConfigured(cmd.node)}
          /\ cmd.op \notin {"create", "setconf"} => r.ifs = s.ifs
      <4> HIDE DEF s, cmd, Keys, Confs, Fresh
      <4> QED BY <3>2, DeployEffects
    <3>4. Keys(k + 1)
      <4>1. cmd.op = "genkey" => cmd.node.ns \in net.netns
        BY <2>5 DEF CanDeploy
      <4> QED BY <2>4, <3>2, <4>1
    <3>5. Confs(k + 1)
      <4>1. ASSUME NEW j \in 1..k, Set(j) PROVE AsConfigured(cmds[j].node) \in r.ifs
        <5>1. AsConfigured(cmds[j].node) \in s.ifs
          BY <3>2, <4>1
        <5>2. AsConfigured(cmds[j].node)[1] = dev(j)
          BY DEF AsConfigured
        <5>3. cmd.op = "setconf" => dev(j) # Device(cmd.node)
          <6> SUFFICES ASSUME cmd.op = "setconf" PROVE dev(j) # Device(cmd.node)
            OBVIOUS
          <6>1. k \in 1..N /\ cmds[k] = [op |-> "create", node |-> cmd.node]
            BY <1>1, <2>2
          <6>2. k # 0 /\ cmds[k].op = "create" /\ dev(k) = Device(cmd.node)
            BY <6>1
          <6> QED BY <3>2, <4>1, <6>2
        <5> HIDE DEF r, s, cmd, dev
        <5>4. CASE cmd.op = "setconf"
          BY <3>3, <5>1, <5>2, <5>3, <5>4
        <5>5. CASE cmd.op # "setconf"
          BY <3>3, <5>1, <5>5
        <5> QED BY <5>4, <5>5
      <4>2. Set(k + 1) => AsConfigured(cmds[k + 1].node) \in r.ifs
        BY <3>3
      <4> HIDE DEF r
      <4> QED BY <2>4, <3>1, <4>1, <4>2
    <3>6. Fresh(k + 1)
      <4> SUFFICES ASSUME cmd.op = "create", NEW j \in 1..(k + 1), Set(j)
                   PROVE  dev(j) # Device(cmd.node)
        OBVIOUS
      <4>1. j \in 1..k
        BY <2>4
      <4>2. AsConfigured(cmds[j].node) \in s.ifs
        BY <3>2, <4>1
      <4>3. dev(j) \in WgDevices(s)
        BY <4>2 DEF WgDevices, AsConfigured
      <4>4. Device(cmd.node) \notin WgDevices(s)
        BY <2>5 DEF CanDeploy
      <4> QED BY <4>3, <4>4
    <3> HIDE DEF Keys, Confs, Fresh
    <3> QED BY <3>1, <3>3, <3>4, <3>5, <3>6
  <2>6. CASE ~(f[k].ok /\ CanDeploy(v, s, cmd))
    <3>1. f[k + 1].tun = s /\ f[k + 1].ok = FALSE
      BY <2>3, <2>6 DEF DeployRun
    <3> QED BY <2>1, <3>1
  <2> QED BY <2>5, <2>6
<1> HIDE DEF T
<1>6. N \in T
  BY <1>1, <1>4, <1>5, SetInduction
<1>7. f[N].ok
  BY <1>2, <1>3
<1>8. Keys(N) /\ Confs(N)
  BY <1>1, <1>6, <1>7 DEF T
<1>9. VpnNames(v) \subseteq net.netns
  <2>1. ASSUME NEW k \in 1..Len(v.nodes) PROVE v.nodes[k].ns \in net.netns
    <3>1. PICK m \in 1..N : cmds[m] = [op |-> "genkey", node |-> v.nodes[k]]
      BY <1>1
    <3> QED BY <1>8, <3>1
  <2> QED BY <2>1 DEF VpnNames
<1>10. ASSUME NEW k \in 1..Len(v.nodes) PROVE AsConfigured(v.nodes[k]) \in f[N].tun.ifs
  <2>1. PICK m \in 1..N : cmds[m] = [op |-> "setconf", node |-> v.nodes[k]]
    BY <1>1
  <2>2. Set(m) /\ cmds[m].node = v.nodes[k]
    BY <2>1
  <2> QED BY <1>8, <2>2
<1> QED BY <1>3, <1>9, <1>10 DEF cmds

-----------------------------------------------------------------------------
(***************************************************************************)
(* The tunnel over the programs: TunnelIsOfFile.                           *)
(***************************************************************************)

\* v's peers hold each other's keys in t.
Meets(v, t) ==
  \A a, b \in ToSet(v.nodes) :
    (\E i \in 1..Len(a.peers) : a.peers[i].target = b.ns) /\ a.ns # b.ns =>
      \E x, y \in t.ifs : x[1] = Device(a) /\ y[1] = Device(b) /\ y[2] \in x[3]

TunnelInv ==
  /\ TunnelShaped(tun)
  /\ outcome = "deployed" => VpnNames(vpn) \subseteq net.netns /\ Meets(vpn, tun)

LEMMA DeployedMeets ==
  ASSUME NEW v \in VpnFileType, NEW t, TunnelShaped(t), DeployRan(v, t, DeployCommands(v)).ok
  PROVE  Meets(v, DeployRan(v, t, DeployCommands(v)).tun)
<1> DEFINE r == DeployRan(v, t, DeployCommands(v)).tun
<1>1. \A k \in 1..Len(v.nodes) : AsConfigured(v.nodes[k]) \in r.ifs
  BY DeployedIsOfFile
<1>2. \A a \in ToSet(v.nodes) : AsConfigured(a) \in r.ifs
  BY <1>1, Nodes
<1> HIDE DEF r
<1>3. ASSUME NEW a \in ToSet(v.nodes), NEW b \in ToSet(v.nodes),
             NEW i \in 1..Len(a.peers), a.peers[i].target = b.ns, a.ns # b.ns
      PROVE  \E x, y \in r.ifs : x[1] = Device(a) /\ y[1] = Device(b) /\ y[2] \in x[3]
  <2>1. KeyOf(b.ns) \in PeerKeys(a)
    <3>1. KeyOf(b.ns) # KeyOf(a.ns)
      BY <1>3 DEF KeyOf
    <3>2. KeyOf(b.ns) \in {KeyOf(a.peers[j].target) : j \in 1..Len(a.peers)}
      BY <1>3
    <3> QED BY <3>1, <3>2 DEF PeerKeys
  <2>2. /\ AsConfigured(a)[1] = Device(a) /\ AsConfigured(a)[3] = PeerKeys(a)
        /\ AsConfigured(b)[1] = Device(b) /\ AsConfigured(b)[2] = KeyOf(b.ns)
    BY DEF AsConfigured
  <2> QED BY <1>2, <2>1, <2>2
<1> QED BY <1>3 DEF Meets, r

\* What stays of a tunnel when its namespaces stay.
LEMMA TunnelKept ==
  ASSUME NEW v \in VpnFileType, NEW t, NEW S, VpnNames(v) \subseteq S, Meets(v, t)
  PROVE  Meets(v, TunnelIn(t, S))
<1> DEFINE r == TunnelIn(t, S)
<1>1. r.ifs = {x \in t.ifs : x[1][1] \in S}
  BY DEF TunnelIn
<1> HIDE DEF r
<1>2. \A a \in ToSet(v.nodes) : Device(a)[1] \in S
  BY Nodes DEF VpnNames, Device
<1> QED BY <1>1, <1>2 DEF Meets, r

LEMMA TunnelInit == VpnInit => TunnelInv
<1> SUFFICES ASSUME VpnInit PROVE TunnelInv
  OBVIOUS
<1>1. tun = NoTunnel /\ outcome = "none"
  BY DEF VpnInit, Init
<1> QED BY <1>1 DEF TunnelInv, TunnelShaped, NoTunnel

LEMMA TunnelPrimed ==
  ASSUME TunnelShaped(tun'),
         outcome' = "deployed" => VpnNames(vpn') \subseteq net'.netns /\ Meets(vpn', tun')
  PROVE  TunnelInv'
BY ZenonT(40) DEF TunnelInv, TunnelShaped, Meets, VpnNames, Device

LEMMA TunnelNext ==
  ASSUME FilesInv, TunnelInv, [VpnNext]_vvars
  PROVE  TunnelInv'
<1>1. CASE LabStep
  <2>1. TunnelShaped(tun')
    BY <1>1 DEF LabStep, TunnelIn, TunnelShaped
  <2>2. CASE outcome' # "deployed"
    BY <2>1, <2>2, TunnelPrimed
  <2>3. CASE outcome' = "deployed"
    <3>1. Verdict(file) # "deployed"
      BY FileChecked DEF FilesInv, Errors
    <3>2. ~Start /\ ~Load /\ ~Teardown /\ ~Build /\ ~Kill
      BY <2>3, <3>1 DEF FilesInv, Start, Load, Teardown, Build, Kill, Exit
    <3>3. Edit
      BY <1>1, <3>2 DEF LabStep, Next
    <3>4. outcome = "deployed" /\ net' = net /\ vpn' = vpn /\ tun' = TunnelIn(tun, net.netns)
      BY <1>1, <2>3, <3>3 DEF LabStep, Edit
    <3>5. VpnNames(vpn) \subseteq net.netns /\ Meets(vpn, tun) /\ vpn \in VpnFileType
      BY <3>4 DEF TunnelInv, FilesInv
    <3>6. Meets(vpn, tun')
      BY <3>4, <3>5, TunnelKept
    <3>7. VpnNames(vpn') \subseteq net'.netns /\ Meets(vpn', tun')
      BY <3>4, <3>5, <3>6
    <3> QED BY <2>1, <3>7, TunnelPrimed
  <2> QED BY <2>2, <2>3
<1>2. CASE StartDemo
  <2>1. tun' = tun /\ outcome' # "deployed" /\ TunnelShaped(tun)
    BY <1>2 DEF TunnelInv, StartDemo
  <2>2. TunnelShaped(tun')
    BY <2>1
  <2> QED BY <2>1, <2>2, TunnelPrimed
<1>3. CASE LoadVpn
  <2>1. Loaded(vfile) # "deployed"
    BY VpnFileChecked DEF FilesInv
  <2>2. tun' = tun /\ outcome' # "deployed" /\ TunnelShaped(tun)
    BY <1>3, <2>1 DEF LoadVpn, Exit, FilesInv, TunnelInv
  <2>3. TunnelShaped(tun')
    BY <2>2
  <2> QED BY <2>2, <2>3, TunnelPrimed
<1>4. CASE Deploy
  <2> DEFINE end == DeployRan(vpn, tun, DeployCommands(vpn))
  <2>1. /\ net' = net /\ vpn' = vpn /\ tun' = end.tun
        /\ outcome' = "deployed" => end.ok
    BY <1>4 DEF Deploy, Exit
  <2>2. vpn \in VpnFileType /\ TunnelShaped(tun)
    BY DEF FilesInv, TunnelInv
  <2>3. TunnelShaped(end.tun)
    BY <2>2, DeployCommandsAre, DeployShaped
  <2>4. end.ok => VpnNames(vpn) \subseteq net.netns /\ Meets(vpn, end.tun)
    BY <2>2, DeployedIsOfFile, DeployedMeets
  <2> HIDE DEF end
  <2>5. TunnelShaped(tun')
    BY <2>1, <2>3
  <2>6. outcome' = "deployed" => VpnNames(vpn') \subseteq net'.netns /\ Meets(vpn', tun')
    BY <2>1, <2>4
  <2> QED BY <2>5, <2>6, TunnelPrimed
<1>5. CASE KillDemo
  <2> DEFINE cmds == DeployCommands(vpn)
  <2>1. PICK k \in 0..Len(cmds) : tun' = DeployRan(vpn, tun, SubSeq(cmds, 1, k)).tun
    BY <1>5 DEF KillDemo
  <2>2. cmds \in Seq(DeployCmds) /\ Len(cmds) \in Nat
    BY DeployCommandsAre DEF FilesInv
  <2> DEFINE some == SubSeq(cmds, 1, k)
  <2>3. Len(some) \in Nat
    <3> HIDE DEF cmds
    <3>1. \A j \in 1..k : j \in 1..Len(cmds)
      BY <2>2
    <3> QED BY <2>2, <3>1, SubSeqProperties
  <2>4. tun' = DeployRan(vpn, tun, some).tun
    BY <2>1
  <2> HIDE DEF some, cmds
  <2>5. TunnelShaped(tun')
    BY <2>3, <2>4, DeployShaped DEF TunnelInv
  <2>6. outcome' # "deployed"
    BY <1>5 DEF KillDemo, Exit
  <2> QED BY <2>5, <2>6, TunnelPrimed
<1>6. CASE EditVpn \/ UNCHANGED vvars
  <2>1. tun' = tun /\ outcome' = outcome /\ net' = net /\ vpn' = vpn
    BY <1>6 DEF EditVpn, vvars, vars
  <2>2. /\ TunnelShaped(tun)
        /\ outcome = "deployed" => VpnNames(vpn) \subseteq net.netns /\ Meets(vpn, tun)
    BY DEF TunnelInv
  <2>3. TunnelShaped(tun')
    BY <2>1, <2>2
  <2>4. outcome' = "deployed" => VpnNames(vpn') \subseteq net'.netns /\ Meets(vpn', tun')
    BY <2>1, <2>2
  <2> QED BY <2>3, <2>4, TunnelPrimed
<1> QED BY <1>1, <1>2, <1>3, <1>4, <1>5, <1>6 DEF VpnNext

\* The tunnel a successful deploy() leaves connects the nodes that name each
\* other, however often the files were edited, deployments failed or programs
\* were killed before (lab/vpn/manager.py, deploy).
THEOREM DeployedTunnelIsOfFile == VpnSpec => []TunnelIsOfFile
<1>1. FilesInv /\ TunnelInv /\ [VpnNext]_vvars => TunnelInv'
  BY TunnelNext
<1>2. TunnelInv => TunnelIsOfFile
  BY DEF TunnelInv, TunnelIsOfFile, Meets
<1> QED BY <1>1, <1>2, TunnelInit, FilesAlways, PTL DEF VpnSpec
=============================================================================
