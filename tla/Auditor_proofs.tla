--------------------------- MODULE Auditor_proofs ---------------------------
(***************************************************************************)
(* Proofs about the auditor: the control-flow analysis, for every program, *)
(* every set of blocks and every cap on the passes; the detector engine,   *)
(* for all audits, rules and names; and the two in one run.  The           *)
(* references of ControlFlow say with closed sets of blocks what is        *)
(* usually said with paths, so that no proof needs an induction over paths.*)
(***************************************************************************)
EXTENDS Auditor, FiniteSetTheorems, TLAPS

(* Natural numbers, without a theorem that takes a predicate: a set of     *)
(* them that is not empty has a least member, so a set that has 0 and      *)
(* every successor has them all.                                           *)
LEMMA LeastOf ==
    ASSUME NEW T \in SUBSET Nat, T # {}
    PROVE  \E m \in T : \A k \in T : m <= k
<1> DEFINE U == {0 .. k : k \in T}
           Below == StrictSubsetOrdering(Nat)
<1>0. ASSUME NEW a \in SUBSET Nat, NEW b \in SUBSET Nat, a \subseteq b, a # b
      PROVE  <<a, b>> \in Below
  BY <1>0 DEF StrictSubsetOrdering
<1>1. U # {} /\ U \subseteq FiniteSubsetsOf(Nat)
  <2>1. ASSUME NEW k \in T PROVE 0 .. k \in FiniteSubsetsOf(Nat)
    <3>1. k \in Int /\ 0 \in Int /\ 0 .. k \subseteq Nat
      BY SMT
    <3> QED
      BY <3>1, FS_Interval DEF FiniteSubsetsOf
  <2> QED
    BY <2>1
<1>2. PICK u \in U : \A v \in U : ~ (<<v, u>> \in Below)
  <2> HIDE DEF U, Below
  <2>1. IsWellFoundedOn(Below, FiniteSubsetsOf(Nat))
    BY FS_StrictSubsetOrderingWellFounded DEF Below
  <2> QED
    BY <1>1, <2>1, WFMin
<1>3. PICK m \in T : u = 0 .. m
  OBVIOUS
<1>4. ASSUME NEW k \in T, k < m PROVE FALSE
  <2>1. 0 .. k \subseteq 0 .. m /\ 0 .. k # 0 .. m /\ 0 .. k \in U
    BY <1>4
  <2>2. 0 .. k \in SUBSET Nat /\ 0 .. m \in SUBSET Nat
    BY SMT
  <2>3. <<0 .. k, 0 .. m>> \in Below
    BY <2>1, <2>2, <1>0
  <2> HIDE DEF Below, U
  <2> QED
    BY <1>2, <1>3, <2>1, <2>3
<1> QED
  BY <1>4

LEMMA SetInduction ==
    ASSUME NEW S, 0 \in S, \A n \in Nat : n \in S => n + 1 \in S
    PROVE  Nat \subseteq S
<1> SUFFICES ASSUME Nat \ S # {} PROVE FALSE
  OBVIOUS
<1>1. PICK m \in Nat \ S : \A k \in Nat \ S : m <= k
  BY LeastOf
<1>2. m # 0 /\ m - 1 \in Nat /\ m - 1 \in S
  BY <1>1, SMT
<1> QED
  BY <1>1, <1>2
-----------------------------------------------------------------------------
(* Basic blocks. *)
Unscanned == [done |-> <<>>, first |-> 1]
ScanStep(p, s, i) == Flush(p, Cut(p, s, i), i)

(* The state after each of the first n instructions. *)
IsScan(p, f, n) ==
    /\ f[0] = Unscanned
    /\ \A i \in 1 .. n : f[i] = ScanStep(p, f[i - 1], i)

LEMMA ScanExists ==
    ASSUME NEW p, NEW n \in Nat
    PROVE  \E f : IsScan(p, f, n)
<1> DEFINE S == {m \in Nat : \E f : IsScan(p, f, m)}
<1>1. 0 \in S
  <2>1. IsScan(p, [i \in {0} |-> Unscanned], 0)
    BY DEF IsScan
  <2> QED
    BY <2>1
<1>2. ASSUME NEW m \in Nat, m \in S PROVE m + 1 \in S
  <2>1. PICK f : IsScan(p, f, m)
    BY <1>2
  <2> DEFINE g == [i \in 0 .. m + 1 |-> IF i = m + 1 THEN ScanStep(p, f[m], m + 1) ELSE f[i]]
  <2>2. \A i \in 0 .. m : g[i] = f[i]
    BY SMT
  <2>3. g[m + 1] = ScanStep(p, f[m], m + 1)
    BY SMT
  <2> HIDE DEF g
  <2>4. ASSUME NEW i \in 1 .. m + 1 PROVE g[i] = ScanStep(p, g[i - 1], i)
    <3>1. CASE i = m + 1
      <4>1. i - 1 = m /\ m \in 0 .. m
        BY <3>1
      <4> QED
        BY <2>2, <2>3, <3>1, <4>1
    <3>2. CASE i # m + 1
      <4>1. i \in 1 .. m /\ i \in 0 .. m /\ i - 1 \in 0 .. m
        BY <3>2
      <4> QED
        BY <2>1, <2>2, <4>1 DEF IsScan
    <3> QED
      BY <3>1, <3>2
  <2>5. g[0] = Unscanned
    BY <2>1, <2>2 DEF IsScan
  <2> QED
    BY <2>4, <2>5 DEF IsScan
<1> HIDE DEF S
<1>3. n \in S
  BY <1>1, <1>2, SetInduction
<1> QED
  BY <1>3 DEF S

LEMMA ScanIsScan ==
    ASSUME NEW p, Len(p) \in Nat
    PROVE  IsScan(p, Scan(p), Len(p))
<1> DEFINE P(g) == g = [i \in 0 .. Len(p) |-> IF i = 0 THEN [done |-> <<>>, first |-> 1]
                     ELSE Flush(p, Cut(p, g[i - 1], i), i)]
<1>1. Scan(p) = CHOOSE g : P(g)
  BY DEF Scan
<1>2. PICK f : IsScan(p, f, Len(p))
  BY ScanExists
<1> DEFINE g == [i \in 0 .. Len(p) |-> f[i]]
<1>3. P(g)
  <2>1. ASSUME NEW i \in 0 .. Len(p)
        PROVE  g[i] = IF i = 0 THEN [done |-> <<>>, first |-> 1]
                               ELSE Flush(p, Cut(p, g[i - 1], i), i)
    <3>1. CASE i = 0
      BY <1>2, <3>1 DEF IsScan, Unscanned
    <3>2. CASE i # 0
      <4>1. i \in 1 .. Len(p) /\ i - 1 \in 0 .. Len(p)
        BY <3>2
      <4> QED
        BY <1>2, <3>2, <4>1 DEF IsScan, ScanStep
    <3> QED
      BY <3>1, <3>2
  <2> HIDE DEF g
  <2>2. g = [i \in 0 .. Len(p) |-> g[i]]
    BY DEF g
  <2> QED
    BY <2>1, <2>2
<1> HIDE DEF P, g
<1>4. P(Scan(p))
  BY <1>1, <1>3
<1>5. Scan(p)[0] = Unscanned
  BY <1>4 DEF P, Unscanned
<1>6. ASSUME NEW i \in 1 .. Len(p) PROVE Scan(p)[i] = ScanStep(p, Scan(p)[i - 1], i)
  <2>1. i \in 0 .. Len(p) /\ i # 0
    OBVIOUS
  <2> QED
    BY <1>4, <2>1 DEF P, ScanStep
<1> QED
  BY <1>5, <1>6 DEF IsScan
-----------------------------------------------------------------------------
Extent == [first : Nat \ {0}, last : Nat \ {0}]

(* The blocks lie one after the other and cover the instructions 1 to n.   *)
Tiles(bs, n) ==
    /\ bs \in Seq(Extent)
    /\ \A k \in DOMAIN bs : bs[k].first <= bs[k].last /\ bs[k].last <= n
    /\ \A j, k \in DOMAIN bs : j < k => bs[j].last < bs[k].first
    /\ \A i \in 1 .. n : \E k \in DOMAIN bs : i \in bs[k].first .. bs[k].last

(* Control enters at the first instruction and leaves at the last.         *)
NoJumpdest(p, from, to) == \A i \in from .. to : p[i].op # "JUMPDEST"
NoTerminator(p, from, to) == \A i \in from .. to : p[i].op \notin BlockTerminators
Whole(p, b) == NoJumpdest(p, b.first + 1, b.last) /\ NoTerminator(p, b.first, b.last - 1)
Blocked(p, bs, n) == Tiles(bs, n) /\ \A k \in DOMAIN bs : Whole(p, bs[k])

(* What is complete after i instructions, and what is begun.               *)
ScanInv(p, s, i) ==
    /\ s.first \in 1 .. i + 1
    /\ Blocked(p, s.done, s.first - 1)
    /\ NoJumpdest(p, s.first + 1, i)
    /\ NoTerminator(p, s.first, i)

LEMMA AppendTile ==
    ASSUME NEW p, NEW bs, NEW m \in Nat, NEW n \in Nat, m < n, Blocked(p, bs, m),
           Whole(p, Block(m + 1, n))
    PROVE  Blocked(p, Append(bs, Block(m + 1, n)), n)
<1> DEFINE b == Block(m + 1, n)
           cs == Append(bs, b)
<1>1. b \in Extent /\ b.first = m + 1 /\ b.last = n
  BY DEF Block, Extent
<1>2. bs \in Seq(Extent) /\ Len(bs) \in Nat /\ DOMAIN bs = 1 .. Len(bs)
  BY DEF Blocked, Tiles
<1> HIDE DEF b
<1>3. /\ cs \in Seq(Extent) /\ DOMAIN cs = 1 .. Len(bs) + 1
      /\ \A k \in 1 .. Len(bs) : cs[k] = bs[k]
      /\ cs[Len(bs) + 1] = b
  BY <1>1, <1>2
<1> HIDE DEF cs
<1>4. \A k \in DOMAIN bs : bs[k].first \in Nat /\ bs[k].last \in Nat
  <2>1. \A k \in DOMAIN bs : bs[k] \in Extent
    BY <1>2
  <2> QED
    BY <2>1 DEF Extent
<1>5. ASSUME NEW k \in DOMAIN cs
      PROVE  cs[k].first <= cs[k].last /\ cs[k].last <= n /\ Whole(p, cs[k])
  <2>1. CASE k \in DOMAIN bs
    BY <1>2, <1>3, <1>4, <2>1 DEF Blocked, Tiles
  <2>2. CASE k = Len(bs) + 1
    BY <1>1, <1>3, <2>2 DEF b
  <2> QED
    BY <1>2, <1>3, <2>1, <2>2
<1>6. ASSUME NEW j \in DOMAIN cs, NEW k \in DOMAIN cs, j < k
      PROVE  cs[j].last < cs[k].first
  <2>1. j \in DOMAIN bs
    BY <1>2, <1>3, <1>6
  <2>2. CASE k \in DOMAIN bs
    BY <1>2, <1>3, <1>6, <2>1, <2>2 DEF Blocked, Tiles
  <2>3. CASE k = Len(bs) + 1
    <3>1. bs[j].last <= m
      BY <2>1 DEF Blocked, Tiles
    <3> QED
      BY <1>1, <1>2, <1>3, <1>4, <2>1, <2>3, <3>1
  <2> QED
    BY <1>2, <1>3, <2>2, <2>3
<1>7. ASSUME NEW i \in 1 .. n
      PROVE  \E k \in DOMAIN cs : i \in cs[k].first .. cs[k].last
  <2>1. CASE i \in 1 .. m
    <3>1. PICK k \in DOMAIN bs : i \in bs[k].first .. bs[k].last
      BY <2>1 DEF Blocked, Tiles
    <3> QED
      BY <1>2, <1>3, <3>1
  <2>2. CASE i \notin 1 .. m
    <3>1. i \in cs[Len(bs) + 1].first .. cs[Len(bs) + 1].last
      BY <1>1, <1>3, <2>2
    <3> QED
      BY <1>2, <1>3, <3>1
  <2> QED
    BY <2>1, <2>2
<1>8. Tiles(cs, n) /\ \A k \in DOMAIN cs : Whole(p, cs[k])
  BY <1>3, <1>5, <1>6, <1>7 DEF Tiles
<1> QED
  BY <1>8 DEF Blocked, cs, b

LEMMA ScanStepKeeps ==
    ASSUME NEW p, NEW s, NEW i \in Nat \ {0}, ScanInv(p, s, i - 1)
    PROVE  ScanInv(p, ScanStep(p, s, i), i)
<1>1. /\ s.first \in Nat \ {0} /\ s.first <= i
      /\ Blocked(p, s.done, s.first - 1)
      /\ NoJumpdest(p, s.first + 1, i - 1)
      /\ NoTerminator(p, s.first, i - 1)
  BY DEF ScanInv
<1> DEFINE t == Cut(p, s, i)
<1>2. /\ t.first \in Nat \ {0} /\ t.first <= i
      /\ Blocked(p, t.done, t.first - 1)
      /\ NoJumpdest(p, t.first + 1, i)
      /\ NoTerminator(p, t.first, i - 1)
  <2>1. CASE p[i].op = "JUMPDEST" /\ s.first < i
    <3>1. t.done = Append(s.done, Block(s.first, i - 1)) /\ t.first = i
      BY <2>1 DEF Cut
    <3>2. Whole(p, Block(s.first - 1 + 1, i - 1))
      BY <1>1, <2>1 DEF Whole, NoJumpdest, NoTerminator, Block
    <3>3. s.first - 1 \in Nat /\ i - 1 \in Nat /\ s.first - 1 < i - 1 /\ s.first - 1 + 1 = s.first
      BY <1>1, <2>1
    <3>4. Blocked(p, t.done, i - 1)
      BY <1>1, <3>1, <3>2, <3>3, AppendTile
    <3> QED
      BY <1>1, <3>1, <3>4 DEF NoJumpdest, NoTerminator
  <2>2. CASE ~ (p[i].op = "JUMPDEST" /\ s.first < i)
    <3>1. t = s
      BY <2>2 DEF Cut
    <3>2. NoJumpdest(p, s.first + 1, i)
      BY <1>1, <2>2 DEF NoJumpdest
    <3> QED
      BY <1>1, <3>1, <3>2
  <2> QED
    BY <2>1, <2>2
<1> HIDE DEF t
<1>3. CASE p[i].op \in BlockTerminators
  <2> DEFINE u == Flush(p, t, i)
  <2>1. u.done = Append(t.done, Block(t.first, i)) /\ u.first = i + 1
    BY <1>3 DEF Flush
  <2>2. Whole(p, Block(t.first - 1 + 1, i))
    BY <1>2 DEF Whole, NoJumpdest, NoTerminator, Block
  <2>3. t.first - 1 \in Nat /\ t.first - 1 < i /\ t.first - 1 + 1 = t.first
    BY <1>2
  <2>4. Blocked(p, u.done, i)
    BY <1>2, <2>1, <2>2, <2>3, AppendTile
  <2> QED
    BY <2>1, <2>4 DEF ScanInv, ScanStep, NoJumpdest, NoTerminator, t
<1>4. CASE p[i].op \notin BlockTerminators
  <2>1. Flush(p, t, i) = t
    BY <1>4 DEF Flush
  <2>2. NoTerminator(p, t.first, i)
    BY <1>2, <1>4 DEF NoTerminator
  <2> QED
    BY <1>2, <2>1, <2>2 DEF ScanInv, ScanStep, t
<1> QED
  BY <1>3, <1>4

LEMMA ScanKeeps ==
    ASSUME NEW p, Len(p) \in Nat, NEW i \in 0 .. Len(p)
    PROVE  ScanInv(p, Scan(p)[i], i)
<1> DEFINE S == {k \in Nat : k <= Len(p) => ScanInv(p, Scan(p)[k], k)}
<1>1. 0 \in S
  <2>1. Blocked(p, <<>>, 0)
    BY DEF Blocked, Tiles
  <2> QED
    BY <2>1, ScanIsScan DEF IsScan, Unscanned, ScanInv, NoJumpdest, NoTerminator
<1>2. ASSUME NEW k \in Nat, k \in S PROVE k + 1 \in S
  <2> SUFFICES ASSUME k + 1 <= Len(p) PROVE ScanInv(p, Scan(p)[k + 1], k + 1)
    OBVIOUS
  <2>1. ScanInv(p, Scan(p)[k + 1 - 1], k + 1 - 1)
    BY <1>2
  <2>2. Scan(p)[k + 1] = ScanStep(p, Scan(p)[k + 1 - 1], k + 1)
    BY ScanIsScan DEF IsScan
  <2> QED
    BY <2>1, <2>2, ScanStepKeeps
<1> HIDE DEF S
<1>3. i \in S
  BY <1>1, <1>2, SetInduction
<1> QED
  BY <1>3 DEF S

LEMMA BuildTiles ==
    ASSUME NEW p, Len(p) \in Nat
    PROVE  Blocked(p, Build(p), Len(p))
<1> DEFINE n == Len(p)
           s == Scan(p)[n]
<1>1. ScanInv(p, s, n)
  BY ScanKeeps
<1>2. Build(p) = IF s.first <= n THEN Append(s.done, Block(s.first, n)) ELSE s.done
  BY DEF Build
<1> HIDE DEF s
<1>3. CASE s.first <= n
  <2>1. Whole(p, Block(s.first - 1 + 1, n)) /\ s.first - 1 \in Nat /\ s.first - 1 < n
        /\ s.first - 1 + 1 = s.first
    BY <1>1, <1>3 DEF ScanInv, Whole, NoJumpdest, NoTerminator, Block
  <2> QED
    BY <1>1, <1>2, <1>3, <2>1, AppendTile DEF ScanInv
<1>4. CASE ~ (s.first <= n)
  <2>1. s.first - 1 = n
    BY <1>1, <1>4 DEF ScanInv
  <2> QED
    BY <1>1, <1>2, <1>4, <2>1 DEF ScanInv
<1> QED
  BY <1>3, <1>4

LEMMA TwoBlocks ==
    ASSUME NEW p, NEW n \in Nat, NEW bs, Tiles(bs, n), NEW i,
           NEW j \in DOMAIN bs, NEW k \in DOMAIN bs,
           i \in bs[j].first .. bs[j].last, i \in bs[k].first .. bs[k].last
    PROVE  j = k
<1>1. /\ DOMAIN bs = 1 .. Len(bs) /\ Len(bs) \in Nat
      /\ bs[j] \in Extent /\ bs[k] \in Extent
  BY DEF Tiles
<1>2. ~ (j < k) /\ ~ (k < j)
  BY <1>1 DEF Tiles, Extent
<1> QED
  BY <1>1, <1>2

LEMMA BlockOfHas ==
    ASSUME NEW p, Len(p) \in Nat, NEW i \in 1 .. Len(p)
    PROVE  LET bs == Build(p) IN
           /\ BlockOf(bs, i) \in 1 .. Len(bs)
           /\ bs[BlockOf(bs, i)] \in Extent
           /\ i \in bs[BlockOf(bs, i)].first .. bs[BlockOf(bs, i)].last
           /\ Whole(p, bs[BlockOf(bs, i)])
           /\ \A k \in 1 .. Len(bs) : i \in bs[k].first .. bs[k].last => k = BlockOf(bs, i)
<1> DEFINE bs == Build(p)
<1>1. Blocked(p, bs, Len(p))
  BY BuildTiles
<1> HIDE DEF bs
<1>2. DOMAIN bs = 1 .. Len(bs) /\ bs \in Seq(Extent)
  BY <1>1 DEF Blocked, Tiles
<1>3. \E k \in 1 .. Len(bs) : i \in bs[k].first .. bs[k].last
  BY <1>1, <1>2 DEF Blocked, Tiles
<1>4. BlockOf(bs, i) \in 1 .. Len(bs)
      /\ i \in bs[BlockOf(bs, i)].first .. bs[BlockOf(bs, i)].last
  BY <1>3 DEF BlockOf
<1>5. Whole(p, bs[BlockOf(bs, i)]) /\ bs[BlockOf(bs, i)] \in Extent
  BY <1>1, <1>2, <1>4 DEF Blocked
<1>6. \A k \in 1 .. Len(bs) : i \in bs[k].first .. bs[k].last => k = BlockOf(bs, i)
  BY <1>1, <1>2, <1>4, TwoBlocks DEF Blocked
<1> QED
  BY <1>4, <1>5, <1>6 DEF bs

LEMMA EdgesCover ==
    ASSUME NEW p \in Seq(Instruction), NEW i \in 1 .. Len(p), NEW j \in After(p, i)
    PROVE  LET bs == Build(p) IN
           \/ j = i + 1 /\ BlockOf(bs, j) = BlockOf(bs, i)
           \/ /\ j = bs[BlockOf(bs, j)].first
              /\ <<BlockOf(bs, i) - 1, BlockOf(bs, j) - 1>> \in EdgesPython(p)
<1> DEFINE bs == Build(p)
           k == BlockOf(bs, i)
           m == BlockOf(bs, j)
<1>1. Len(p) \in Nat /\ i \in Nat /\ j \in 1 .. Len(p)
  BY DEF After
<1>2. Blocked(p, bs, Len(p))
  BY <1>1, BuildTiles
<1>3. EdgesPython(p) =
        {e \in (0 .. Len(bs) - 1) \X (0 .. Len(bs) - 1) :
            \/ IsResolved(p, bs[e[1] + 1].last) /\ bs[e[2] + 1].first = p[bs[e[1] + 1].last].target
            \/ FallsThrough(p, bs[e[1] + 1].last) /\ e[2] = e[1] + 1}
  BY DEF EdgesPython
<1>4. /\ k \in 1 .. Len(bs) /\ i \in bs[k].first .. bs[k].last
      /\ bs[k] \in Extent /\ Whole(p, bs[k])
      /\ \A l \in 1 .. Len(bs) : i \in bs[l].first .. bs[l].last => l = k
  BY <1>1, BlockOfHas
<1>5. /\ m \in 1 .. Len(bs) /\ j \in bs[m].first .. bs[m].last
      /\ bs[m] \in Extent /\ Whole(p, bs[m])
      /\ \A l \in 1 .. Len(bs) : j \in bs[l].first .. bs[l].last => l = m
  BY <1>1, BlockOfHas
<1> HIDE DEF bs, k, m
<1>6. /\ DOMAIN bs = 1 .. Len(bs) /\ Len(bs) \in Nat
      /\ \A l \in 1 .. Len(bs) : bs[l] \in Extent
  BY <1>2 DEF Blocked, Tiles
<1>7. ASSUME i # bs[k].last PROVE p[i].op \notin BlockTerminators /\ j = i + 1 /\ m = k
  <2>1. i \in bs[k].first .. bs[k].last - 1
    BY <1>1, <1>4, <1>7 DEF Extent
  <2>2. p[i].op \notin BlockTerminators
    BY <1>4, <2>1 DEF Whole, NoTerminator
  <2>3. j = i + 1
    BY <2>2 DEF After, IsResolved, BlockTerminators
  <2>4. j \in bs[k].first .. bs[k].last
    BY <1>1, <1>4, <2>1, <2>3 DEF Extent
  <2> QED
    BY <1>4, <1>5, <2>2, <2>3, <2>4
<1>8. ASSUME i = bs[k].last, FallsThrough(p, i), j = i + 1
      PROVE  m = k + 1 /\ j = bs[m].first
  <2>1. k < m
    <3>1. k # m
      BY <1>1, <1>4, <1>5, <1>8 DEF Extent
    <3>2. ~ (m < k)
      <4>1. m < k => bs[m].last < bs[k].first
        BY <1>2, <1>4, <1>5, <1>6 DEF Blocked, Tiles
      <4> QED
        BY <1>1, <1>4, <1>5, <1>8, <4>1 DEF Extent
    <3> QED
      BY <1>4, <1>5, <1>6, <3>1, <3>2
  <2>2. bs[k].last < bs[m].first
    BY <1>2, <1>4, <1>5, <1>6, <2>1 DEF Blocked, Tiles
  <2>3. j = bs[m].first
    BY <1>1, <1>4, <1>5, <1>8, <2>2 DEF Extent
  <2>4. ~ (k + 1 < m)
    <3> SUFFICES ASSUME k + 1 < m PROVE FALSE
      OBVIOUS
    <3>1. k + 1 \in 1 .. Len(bs)
      BY <1>4, <1>5, <1>6
    <3>2. bs[k].last < bs[k + 1].first /\ bs[k + 1].last < bs[m].first
      <4>1. k < k + 1 /\ {k, k + 1, m} \subseteq DOMAIN bs
        BY <1>4, <1>5, <1>6, <3>1
      <4> QED
        BY <1>2, <4>1 DEF Blocked, Tiles
    <3>3. bs[k + 1].first <= bs[k + 1].last
      BY <1>2, <1>6, <3>1 DEF Blocked, Tiles
    <3> QED
      BY <1>1, <1>4, <1>5, <1>6, <1>8, <2>3, <3>1, <3>2, <3>3 DEF Extent
  <2> QED
    BY <1>4, <1>5, <1>6, <2>1, <2>3, <2>4
<1>9. ASSUME i = bs[k].last, IsResolved(p, i), j = p[i].target
      PROVE  j = bs[m].first
  <2>1. p[j].op = "JUMPDEST"
    BY <1>9 DEF IsResolved
  <2>2. ~ (j \in bs[m].first + 1 .. bs[m].last)
    BY <1>5, <2>1 DEF Whole, NoJumpdest
  <2> QED
    BY <1>1, <1>5, <2>2 DEF Extent
<1>10. CASE i = bs[k].last
  <2> DEFINE e == <<k - 1, m - 1>>
  <2>1. /\ e \in (0 .. Len(bs) - 1) \X (0 .. Len(bs) - 1)
        /\ e[1] + 1 = k /\ e[2] + 1 = m
    BY <1>4, <1>5, <1>6
  <2>2. j = bs[m].first
        /\ \/ IsResolved(p, bs[k].last) /\ bs[m].first = p[bs[k].last].target
           \/ FallsThrough(p, bs[k].last) /\ e[2] = e[1] + 1
    <3>1. (FallsThrough(p, i) /\ j = i + 1) \/ (IsResolved(p, i) /\ j = p[i].target)
      BY DEF After
    <3>2. CASE FallsThrough(p, i) /\ j = i + 1
      BY <1>4, <1>6, <1>8, <1>10, <3>2
    <3>3. CASE IsResolved(p, i) /\ j = p[i].target
      BY <1>9, <1>10, <3>3
    <3> QED
      BY <3>1, <3>2, <3>3
  <2> HIDE DEF e
  <2>3. e \in EdgesPython(p)
    BY <1>3, <2>1, <2>2
  <2> QED
    BY <2>2, <2>3 DEF e, bs, k, m
<1> QED
  BY <1>7, <1>10 DEF bs, k, m

(* A set of blocks that has the entry and is closed under the edges has    *)
(* every instruction that can be executed.                                 *)
LEMMA ClosedBlocksExecuted ==
    ASSUME NEW p \in Seq(Instruction), NEW R, 0 \in R,
           \A e \in EdgesPython(p) : e[1] \in R => e[2] \in R,
           NEW i \in Executable(p)
    PROVE  BlockOf(Build(p), i) - 1 \in R
<1> DEFINE bs == Build(p)
           X == {a \in 1 .. Len(p) : BlockOf(bs, a) - 1 \in R}
<1>1. i \in 1 .. Len(p) /\ Len(p) \in Nat /\ 1 \in 1 .. Len(p)
  BY DEF Executable
<1>2. 1 \in X
  <2> DEFINE k == BlockOf(bs, 1)
  <2>1. Tiles(bs, Len(p)) /\ k \in 1 .. Len(bs) /\ 1 \in bs[k].first .. bs[k].last
    BY <1>1, BuildTiles, BlockOfHas DEF Blocked
  <2> HIDE DEF bs, k
  <2>2. DOMAIN bs = 1 .. Len(bs) /\ Len(bs) \in Nat /\ 1 \in DOMAIN bs
        /\ bs[1] \in Extent /\ bs[k] \in Extent
    BY <2>1 DEF Tiles
  <2>3. ~ (1 < k)
    <3>1. 1 < k => bs[1].last < bs[k].first
      BY <2>1, <2>2 DEF Tiles
    <3> QED
      BY <2>1, <2>2, <3>1 DEF Extent
  <2>4. k - 1 = 0
    BY <2>1, <2>2, <2>3
  <2> QED
    BY <1>1, <2>4 DEF bs, k
<1>3. ASSUME NEW a \in X, NEW j \in After(p, a) PROVE j \in X
  <2>1. a \in 1 .. Len(p) /\ BlockOf(bs, a) - 1 \in R /\ j \in 1 .. Len(p)
    BY DEF After
  <2>2. \/ BlockOf(bs, j) = BlockOf(bs, a)
        \/ <<BlockOf(bs, a) - 1, BlockOf(bs, j) - 1>> \in EdgesPython(p)
    BY <2>1, EdgesCover
  <2> HIDE DEF bs
  <2>3. CASE BlockOf(bs, j) = BlockOf(bs, a)
    BY <2>1, <2>3
  <2>4. CASE <<BlockOf(bs, a) - 1, BlockOf(bs, j) - 1>> \in EdgesPython(p)
    <3> DEFINE e == <<BlockOf(bs, a) - 1, BlockOf(bs, j) - 1>>
    <3>1. e \in EdgesPython(p) /\ e[1] = BlockOf(bs, a) - 1 /\ e[2] = BlockOf(bs, j) - 1
      BY <2>4
    <3> HIDE DEF e
    <3>2. BlockOf(bs, j) - 1 \in R
      BY <2>1, <3>1
    <3> QED
      BY <2>1, <3>2
  <2> QED
    BY <2>2, <2>3, <2>4
<1> HIDE DEF X
<1>4. i \in X
  <2>1. X \in SUBSET (1 .. Len(p))
    BY DEF X
  <2> QED
    BY <1>2, <1>3, <2>1 DEF Executable
<1> QED
  BY <1>4 DEF X
-----------------------------------------------------------------------------
Later == {"doms", "loops", "done"}

(* What the search for reachable blocks keeps: it never leaves a closed    *)
(* set that has the entry, and what it found is closed but for its queue.  *)
ReachInv ==
    /\ phase = "build" => reached = {}
    /\ phase # "build" =>
        /\ phase \in Later => queue = {}
        /\ Entry \in reached \cup queue
        /\ \A n \in reached : succ[n] \subseteq reached \cup queue
        /\ \A S \in SUBSET Blocks :
               Entry \in S /\ ClosedAvoiding(S, {}) => reached \cup queue \subseteq S

(* The set of n is what its predecessors give it. *)
Fixed(n) == Pred(n) \cap reached = {} \/ doms[n] = NewDom(n)

DomInv ==
    phase \in Later =>
        /\ doms[Entry] = {Entry}
        /\ todo \subseteq reached \ {Entry}
        /\ phase # "doms" => todo = {}
        /\ \A n \in reached : \A d \in Blocks : Dominates(d, n) => d \in doms[n]
        /\ ~changed => \A n \in reached \ ({Entry} \cup todo) : Fixed(n)

(* Where d is known not to dominate.  It is known of a block for a reason, *)
(* its predecessor, so that it is never forgotten; and each pass that does *)
(* not find all there is learns of one block more.                         *)
Without(d) == {m \in reached : d \notin doms[m]}
Supported(d) ==
    \A m \in Without(d) \ {Entry} : m # d /\ Pred(m) \cap Without(d) # {}
NextWithout(d) ==
    \E n \in todo \ {d} : n \notin Without(d) /\ Pred(n) \cap Without(d) # {}
Learns(d) ==
    \/ ClosedAvoiding(Without(d), {d})
    \/ Cardinality(Without(d)) >= iter + 1
    \/ Cardinality(Without(d)) >= iter /\ NextWithout(d)

PassInv ==
    phase \in Later =>
        /\ phase # "doms" => ~changed \/ iter = MaxIter
        /\ \A n \in Blocks : doms[n] \subseteq reached
        /\ \A d \in reached \ {Entry} : Supported(d) /\ Learns(d)

BackEdge(e) == e[1] \in reached /\ e[2] \in succ[e[1]] /\ e[2] \in doms[e[1]]

(* Before the loops there are none; the loop that is being computed has    *)
(* everything but the predecessors of its worklist, and nothing foreign.   *)
LoopInv ==
    /\ phase \notin {"loops", "done"} =>
           pending = {} /\ open = {} /\ loops = {}
    /\ open = {} => work = {}
    /\ \A e \in pending \cup open : BackEdge(e)
    /\ \A e \in open :
           /\ {e[1], e[2]} \subseteq body
           /\ work \subseteq body \ {e[2]}
           /\ \A a \in body \ (work \cup {e[2]}) : Pred(a) \subseteq body
           /\ \A S \in SUBSET Blocks :
                  e[1] \in S /\ (\A a \in S \ {e[2]} : Pred(a) \subseteq S)
                      => body \subseteq S \cup {e[2]}
    /\ \A l \in loops :
           /\ BackEdge(<<l.tail, l.header>>)
           /\ l.body = NaturalLoop(l.header, l.tail)

(* Every back edge has its loop or has it yet to come. *)
HasLoop(t, h) == \E l \in loops : l.header = h /\ l.tail = t
FoundInv ==
    /\ \A e, f \in open : e = f
    /\ phase = "done" => pending = {} /\ open = {}
    /\ phase \in {"loops", "done"} =>
           \A t \in reached : \A h \in succ[t] \cap doms[t] :
               <<t, h>> \in pending \cup open \/ HasLoop(t, h)

CodeInv == phase = "build" => code \in Programs

Inv == TypeOK /\ CodeInv /\ ReachInv /\ DomInv /\ PassInv /\ LoopInv /\ FoundInv
-----------------------------------------------------------------------------
(* Types. *)
LEMMA InitTypes == Init => TypeOK
  BY ControlFlowAssumption DEF Init, TypeOK, Phases, Loop

LEMMA NextTypes == TypeOK /\ [Next]_vars => TypeOK'
<1> SUFFICES ASSUME TypeOK, [Next]_vars PROVE TypeOK'
  OBVIOUS
<1> USE DEF TypeOK, Phases, graphVars, domVars, loopVars
<1>1. CASE BuildBlocks
  BY <1>1, ControlFlowAssumption DEF BuildBlocks, Successors, Entry
<1>2. CASE StartDominators
  BY <1>2, ControlFlowAssumption DEF StartDominators, Entry
<1>3. CASE NextPass
  BY <1>3, ControlFlowAssumption DEF NextPass
<1>4. CASE StartLoops
  <2>1. pending' \subseteq Blocks \X Blocks
    BY <1>4 DEF StartLoops
  <2> QED
    BY <1>4, <2>1 DEF StartLoops
<1>5. CASE Finish
  BY <1>5 DEF Finish
<1>6. ASSUME NEW n \in Blocks, Visit(n) PROVE TypeOK'
  BY <1>6 DEF Visit
<1>7. ASSUME NEW n \in Blocks, Refine(n) PROVE TypeOK'
  <2>1. NewDom(n) \in SUBSET Blocks
    BY DEF NewDom
  <2> QED
    BY <1>7, <2>1 DEF Refine
<1>8. ASSUME NEW n \in Blocks, Grow(n) PROVE TypeOK'
  BY <1>8 DEF Grow, Pred
<1>9. ASSUME NEW e \in Blocks \X Blocks, OpenLoop(e) PROVE TypeOK'
  BY <1>9 DEF OpenLoop
<1>10. ASSUME NEW e \in Blocks \X Blocks, CloseLoop(e) PROVE TypeOK'
  BY <1>10 DEF CloseLoop, Loop
<1>11. CASE UNCHANGED vars
  BY <1>11 DEF vars
<1> QED
  BY <1>1, <1>2, <1>3, <1>4, <1>5, <1>6, <1>7, <1>8, <1>9, <1>10, <1>11 DEF Next

(* Types of the analysis: the cap on the passes included. *)
THEOREM AnalysisTypes == Spec => []TypeOK
  BY InitTypes, NextTypes, PTL DEF Spec
-----------------------------------------------------------------------------
(* Reachability. *)
LEMMA InitReach == Init => ReachInv
  BY DEF Init, ReachInv

LEMMA NextReach == TypeOK /\ ReachInv /\ [Next]_vars => ReachInv'
<1> SUFFICES ASSUME TypeOK, ReachInv, [Next]_vars PROVE ReachInv'
  OBVIOUS
<1> USE DEF graphVars, domVars, loopVars
<1>1. CASE BuildBlocks
  <2>1. /\ phase' = "reach" /\ reached' = {} /\ queue' = {Entry}
    BY <1>1 DEF BuildBlocks, ReachInv
  <2> QED
    BY <2>1 DEF ReachInv, Later
<1>2. ASSUME NEW n \in Blocks, Visit(n) PROVE ReachInv'
  <2>1. /\ phase = "reach" /\ phase' = "reach" /\ succ' = succ
        /\ reached' \cup queue' = reached \cup queue \cup succ[n]
        /\ reached' = reached \cup {n}
        /\ n \in queue
    BY <1>2 DEF Visit, TypeOK
  <2>2. ASSUME NEW S \in SUBSET Blocks, Entry \in S, ClosedAvoiding(S, {})
        PROVE  reached' \cup queue' \subseteq S
    <3>1. reached \cup queue \subseteq S
      BY <2>1, <2>2 DEF ReachInv
    <3> QED
      BY <2>1, <2>2, <3>1 DEF ClosedAvoiding
  <2>3. \A S \in SUBSET Blocks : ClosedAvoiding(S, {})' = ClosedAvoiding(S, {})
    BY <2>1 DEF ClosedAvoiding
  <2> QED
    BY <2>1, <2>2, <2>3 DEF ReachInv, Later
<1>3. ASSUME UNCHANGED graphVars, phase # "build", phase' # "build",
             phase' \in Later => queue = {}
      PROVE  ReachInv'
  BY <1>3 DEF ReachInv, ClosedAvoiding
<1>4. CASE StartDominators
  BY <1>3, <1>4 DEF StartDominators, Later
<1>5. CASE NextPass \/ StartLoops \/ Finish
  BY <1>3, <1>5 DEF NextPass, StartLoops, Finish, Later, ReachInv
<1>6. ASSUME NEW n \in Blocks, Refine(n) \/ Grow(n) PROVE ReachInv'
  <2>1. phase' = phase /\ UNCHANGED graphVars
    BY <1>6 DEF Refine, Grow
  <2> QED
    BY <2>1 DEF ReachInv, ClosedAvoiding
<1>7. ASSUME NEW e \in Blocks \X Blocks, OpenLoop(e) \/ CloseLoop(e) PROVE ReachInv'
  <2>1. phase' = phase /\ UNCHANGED graphVars
    BY <1>7 DEF OpenLoop, CloseLoop
  <2> QED
    BY <2>1 DEF ReachInv, ClosedAvoiding
<1>8. CASE UNCHANGED vars
  BY <1>8 DEF vars, ReachInv, ClosedAvoiding
<1> QED
  BY <1>1, <1>2, <1>4, <1>5, <1>6, <1>7, <1>8 DEF Next

(* After the search, what it found is closed and is what is reachable. *)
LEMMA ReachedClosed ==
    ASSUME ReachInv, phase # "build", queue = {}
    PROVE  /\ Entry \in reached
           /\ \A n \in reached : succ[n] \subseteq reached
           /\ \A S \in SUBSET Blocks :
                  Entry \in S /\ ClosedAvoiding(S, {}) => reached \subseteq S
  BY DEF ReachInv

(* The worklist is empty from then on. *)
LEMMA QueueEmpty ==
    ASSUME ReachInv, phase \in Later
    PROVE  phase # "build" /\ queue = {}
  BY DEF ReachInv, Later

LEMMA ReachedIsReachable ==
    ASSUME TypeOK, ReachInv, phase \in Later
    PROVE  reached = {n \in Blocks : Reachable(n)}
<1>1. ASSUME NEW n \in reached PROVE n \in Blocks /\ Reachable(n)
  BY <1>1, QueueEmpty, ReachedClosed DEF Reachable, TypeOK
<1>2. ASSUME NEW n \in Blocks, Reachable(n) PROVE n \in reached
  <2>1. reached \in SUBSET Blocks /\ Entry \in reached /\ ClosedAvoiding(reached, {})
    BY QueueEmpty, ReachedClosed DEF TypeOK, ClosedAvoiding
  <2> QED
    BY <1>2, <2>1 DEF Reachable
<1> QED
  BY <1>1, <1>2
-----------------------------------------------------------------------------
(* Dominators. *)
LEMMA DominatorReached ==
    ASSUME TypeOK, ReachInv, phase # "build", queue = {},
           NEW n \in reached, NEW d \in Blocks, Dominates(d, n)
    PROVE  d \in reached
<1> SUFFICES ASSUME d \notin reached PROVE FALSE
  OBVIOUS
<1>1. PICK S \in SUBSET Blocks :
          (d = Entry \/ Entry \in S) /\ ClosedAvoiding(S, {d}) /\ n \notin S
  BY DEF Dominates
<1>2. Entry \in S \cap reached
  BY <1>1, ReachedClosed
<1>3. ClosedAvoiding(S \cap reached, {})
  BY <1>1, ReachedClosed DEF ClosedAvoiding
<1>4. S \cap reached \in SUBSET Blocks
  OBVIOUS
<1>5. reached \subseteq S
  BY <1>2, <1>3, <1>4, ReachedClosed
<1> QED
  BY <1>1, <1>5

LEMMA EntryDominator ==
    ASSUME NEW d \in Blocks, Dominates(d, Entry)
    PROVE  d = Entry
  BY DEF Dominates

(* The dominators of a block dominate its predecessors. *)
LEMMA PredecessorDominated ==
    ASSUME TypeOK, NEW n \in Blocks, NEW p \in Pred(n),
           NEW d \in Blocks, Dominates(d, n), d # n
    PROVE  Dominates(d, p)
<1>1. PICK S \in SUBSET Blocks :
          (d = Entry \/ Entry \in S) /\ ClosedAvoiding(S, {d}) /\ n \notin S
  BY DEF Dominates
<1>2. p \notin S
  BY <1>1 DEF ClosedAvoiding, Pred
<1> QED
  BY <1>1, <1>2 DEF Dominates

LEMMA NextDom == TypeOK /\ ReachInv /\ DomInv /\ [Next]_vars => DomInv'
<1> SUFFICES ASSUME TypeOK, ReachInv, DomInv, [Next]_vars PROVE DomInv'
  OBVIOUS
<1> USE DEF graphVars, domVars, loopVars
<1>1. ASSUME succ' = succ
      PROVE  \A d, n : Dominates(d, n)' = Dominates(d, n)
  BY <1>1 DEF Dominates, ClosedAvoiding
<1>2. ASSUME UNCHANGED <<succ, reached, doms>>
      PROVE  \A n : Fixed(n)' = Fixed(n)
  BY <1>2 DEF Fixed, Pred, NewDom
<1>3. ASSUME UNCHANGED graphVars, UNCHANGED domVars, phase \in Later,
             phase' = phase \/ (phase # "doms" /\ phase' # "doms")
      PROVE  DomInv'
  BY <1>1, <1>2, <1>3 DEF DomInv
<1>4. CASE BuildBlocks
  BY <1>4 DEF BuildBlocks, DomInv, Later
<1>5. ASSUME NEW n \in Blocks, Visit(n) PROVE DomInv'
  BY <1>5 DEF Visit, DomInv, Later
<1>6. CASE StartDominators
  <2>1. /\ phase = "reach" /\ queue = {} /\ phase' = "doms"
        /\ UNCHANGED graphVars
        /\ todo' = reached \ {Entry} /\ changed' = FALSE
        /\ doms' = [b \in Blocks |->
               {d \in reached : b \in reached /\ (b = Entry => d = Entry)}]
    BY <1>6 DEF StartDominators
  <2>3. Entry \in reached
    BY <2>1 DEF ReachInv
  <2>4. doms'[Entry] = {Entry}
    BY <2>1, <2>3, ControlFlowAssumption DEF Entry
  <2>5. ASSUME NEW n \in reached, NEW d \in Blocks, Dominates(d, n)
        PROVE  d \in doms'[n]
    <3>2. d \in reached
      BY <2>1, <2>5, DominatorReached
    <3>3. n = Entry => d = Entry
      BY <2>5, EntryDominator
    <3> QED
      BY <2>1, <3>2, <3>3 DEF TypeOK
  <2> QED
    BY <1>1, <2>1, <2>4, <2>5 DEF DomInv, Later
<1>7. ASSUME NEW n \in Blocks, Refine(n) PROVE DomInv'
  <2>1. /\ phase = "doms" /\ phase' = "doms" /\ n \in todo
        /\ UNCHANGED graphVars /\ todo' = todo \ {n}
        /\ doms' = IF Pred(n) \cap reached = {} THEN doms
                   ELSE [doms EXCEPT ![n] = NewDom(n)]
        /\ changed' = (changed \/ doms' # doms)
    BY <1>7 DEF Refine
  <2>2. n \in reached \ {Entry} /\ phase \in Later
    BY <2>1 DEF DomInv, Later
  <2>3. ASSUME NEW d \in Blocks, Dominates(d, n) PROVE d \in NewDom(n)
    <3>1. d \in reached
      BY <2>2, <2>3, QueueEmpty, DominatorReached
    <3>2. ASSUME d # n, NEW p \in Pred(n) \cap reached PROVE d \in doms[p]
      <4>1. Dominates(d, p)
        BY <2>3, <3>2, PredecessorDominated
      <4> QED
        BY <2>2, <3>2, <4>1 DEF DomInv
    <3> QED
      BY <3>1, <3>2 DEF NewDom
  <2>4. ASSUME NEW m \in reached, NEW d \in Blocks, Dominates(d, m)
        PROVE  d \in doms'[m]
    <3>1. d \in doms[m]
      BY <2>2, <2>4 DEF DomInv
    <3> QED
      BY <2>1, <2>3, <2>4, <3>1 DEF TypeOK
  <2>5. doms'[Entry] = {Entry}
    BY <2>1, <2>2 DEF DomInv, TypeOK
  <2>6. ASSUME ~changed', NEW m \in reached \ ({Entry} \cup todo')
        PROVE  Fixed(m)'
    <3>1. ~changed /\ doms' = doms
      BY <2>1, <2>6
    <3>2. CASE m = n
      BY <2>1, <3>1, <3>2 DEF Fixed, Pred, NewDom, TypeOK
    <3>3. CASE m # n
      BY <1>2, <2>1, <2>2, <2>6, <3>1, <3>3 DEF DomInv
    <3> QED
      BY <3>2, <3>3
  <2> QED
    BY <1>1, <2>1, <2>2, <2>4, <2>5, <2>6 DEF DomInv
<1>8. CASE NextPass
  <2>1. /\ phase = "doms" /\ phase' = "doms"
        /\ UNCHANGED <<succ, reached, queue, doms>>
        /\ todo' = reached \ {Entry}
    BY <1>8 DEF NextPass
  <2> QED
    BY <1>1, <2>1 DEF DomInv, Later
<1>9. CASE StartLoops
  <2>1. /\ phase = "doms" /\ phase' = "loops" /\ todo = {}
        /\ UNCHANGED <<succ, reached, queue, doms, todo, changed>>
    BY <1>9 DEF StartLoops
  <2> QED
    BY <1>1, <1>2, <2>1 DEF DomInv, Later
<1>10. CASE Finish
  BY <1>3, <1>10 DEF Finish, Later
<1>11. ASSUME NEW n \in Blocks, Grow(n) PROVE DomInv'
  <2>1. phase' = phase /\ UNCHANGED graphVars /\ UNCHANGED domVars
    BY <1>11 DEF Grow
  <2> QED
    BY <1>3, <2>1 DEF DomInv
<1>12. ASSUME NEW e \in Blocks \X Blocks, OpenLoop(e) \/ CloseLoop(e) PROVE DomInv'
  <2>1. phase' = phase /\ UNCHANGED graphVars /\ UNCHANGED domVars
    BY <1>12 DEF OpenLoop, CloseLoop
  <2> QED
    BY <1>3, <2>1 DEF DomInv
<1>13. CASE UNCHANGED vars
  <2>1. phase' = phase /\ UNCHANGED graphVars /\ UNCHANGED domVars
    BY <1>13 DEF vars
  <2> QED
    BY <1>3, <2>1 DEF DomInv
<1> QED
  BY <1>4, <1>5, <1>6, <1>7, <1>8, <1>9, <1>10, <1>11, <1>12, <1>13 DEF Next

(* The passes. *)
LEMMA NextPasses == TypeOK /\ ReachInv /\ DomInv /\ PassInv /\ [Next]_vars => PassInv'
<1> SUFFICES ASSUME TypeOK, ReachInv, DomInv, PassInv, [Next]_vars PROVE PassInv'
  OBVIOUS
<1> USE DEF graphVars, domVars, loopVars
<1>0. IsFiniteSet(reached) /\ IsFiniteSet(reached')
  <2>1. reached \subseteq Blocks /\ reached' \subseteq Blocks
    BY NextTypes DEF TypeOK
  <2> QED
    BY <2>1, ControlFlowAssumption, FS_Subset
<1>1. ASSUME UNCHANGED graphVars, UNCHANGED domVars, phase \in Later,
             phase' = phase \/ (phase # "doms" /\ phase' # "doms")
      PROVE  PassInv'
  BY <1>1 DEF PassInv, Supported, Learns, NextWithout, Without, ClosedAvoiding, Pred
<1>2. CASE BuildBlocks
  BY <1>2 DEF BuildBlocks, PassInv, Later
<1>3. ASSUME NEW n \in Blocks, Visit(n) PROVE PassInv'
  BY <1>3 DEF Visit, PassInv, Later
<1>4. CASE StartDominators
  <2>1. /\ phase = "reach" /\ queue = {} /\ phase' = "doms"
        /\ UNCHANGED graphVars
        /\ todo' = reached \ {Entry} /\ iter' = 1
        /\ doms' = [b \in Blocks |->
               {d \in reached : b \in reached /\ (b = Entry => d = Entry)}]
    BY <1>4 DEF StartDominators
  <2>2. Entry \in reached /\ \A n \in reached : succ[n] \subseteq reached
    BY <2>1, ReachedClosed
  <2>3. ASSUME NEW d \in reached \ {Entry} PROVE Supported(d)' /\ Learns(d)'
    <3>1. Without(d)' = {Entry}
      BY <2>1, <2>2 DEF Without, TypeOK
    <3>2. Supported(d)'
      BY <3>1 DEF Supported
    <3>3. Cardinality(Without(d)') >= iter'
      <4>1. Cardinality({Entry}) = 1
        BY FS_Singleton
      <4> QED
        BY <2>1, <3>1, <4>1
    <3>4. ClosedAvoiding(Without(d), {d})' \/ NextWithout(d)'
      <4> SUFFICES ASSUME ~ NextWithout(d)' PROVE ClosedAvoiding(Without(d), {d})'
        OBVIOUS
      <4>1. ASSUME NEW n \in succ[Entry] \ {d}, n # Entry PROVE FALSE
        <5>1. n \in todo' \ {d} /\ n \notin Without(d)' /\ Entry \in Pred(n)'
          BY <2>1, <2>2, <3>1, <4>1, ControlFlowAssumption DEF Pred, Entry, TypeOK
        <5> QED
          BY <3>1, <5>1 DEF NextWithout
      <4> QED
        BY <2>1, <3>1, <4>1 DEF ClosedAvoiding
    <3> QED
      BY <3>2, <3>3, <3>4 DEF Learns
  <2>4. \A n \in Blocks : doms'[n] \subseteq reached'
    BY <2>1
  <2> QED
    BY <2>1, <2>3, <2>4 DEF PassInv
<1>5. ASSUME NEW n \in Blocks, Refine(n) PROVE PassInv'
  <2>1. /\ phase = "doms" /\ phase' = "doms" /\ n \in todo
        /\ UNCHANGED graphVars /\ UNCHANGED iter /\ todo' = todo \ {n}
        /\ doms' = IF Pred(n) \cap reached = {} THEN doms
                   ELSE [doms EXCEPT ![n] = NewDom(n)]
    BY <1>5 DEF Refine
  <2>2. n \in reached \ {Entry} /\ phase \in Later /\ doms[Entry] = {Entry}
    BY <2>1 DEF DomInv, Later
  <2>3. \A a : Pred(a)' = Pred(a)
    BY <2>1 DEF Pred
  <2>4. \A a \in Blocks : doms'[a] \subseteq reached'
    <3>1. NewDom(n) \subseteq reached /\ \A a \in Blocks : doms[a] \subseteq reached
      BY <2>2 DEF NewDom, PassInv
    <3> QED
      BY <2>1, <3>1 DEF TypeOK
  <2>5. ASSUME NEW d \in reached \ {Entry} PROVE Supported(d)' /\ Learns(d)'
    <3> DEFINE U == Without(d)
    <3>1. Supported(d) /\ Learns(d) /\ U \subseteq reached
      BY <2>2 DEF PassInv, Without
    <3>2. \A m \in reached : m # n => (m \in U' <=> m \in U)
      BY <2>1 DEF Without, TypeOK
    <3>3. n \in U' <=> n \in U \/ (n # d /\ Pred(n) \cap U # {})
      <4>1. CASE Pred(n) \cap reached = {}
        BY <2>1, <3>1, <4>1 DEF Without
      <4>2. CASE Pred(n) \cap reached # {}
        <5>1. doms'[n] = NewDom(n)
          BY <2>1, <4>2 DEF TypeOK
        <5>2. n \in U' <=> n # d /\ Pred(n) \cap U # {}
          BY <2>1, <2>2, <5>1 DEF NewDom, Without
        <5>3. n \in U => n # d /\ Pred(n) \cap U # {}
          BY <2>2, <3>1 DEF Supported
        <5> QED
          BY <5>2, <5>3
      <4> QED
        BY <4>1, <4>2
    <3>4. U' \subseteq reached
      BY <2>1 DEF Without
    <3> HIDE DEF U
    <3>5. U \subseteq U'
      BY <3>1, <3>2, <3>3
    <3>6. Supported(d)'
      BY <2>2, <2>3, <3>1, <3>2, <3>3, <3>4, <3>5 DEF Supported, U
    <3>7. /\ IsFiniteSet(U) /\ IsFiniteSet(U') /\ Cardinality(U) \in Nat
          /\ Cardinality(U') \in Nat /\ Cardinality(U) <= Cardinality(U')
      BY <1>0, <3>1, <3>4, <3>5, FS_Subset, FS_CardinalityType
    <3>8. iter \in Nat
      BY DEF TypeOK
    <3>9. CASE Cardinality(U) >= iter + 1
      BY <2>1, <3>6, <3>7, <3>8, <3>9 DEF Learns, U
    <3>10. CASE ClosedAvoiding(U, {d})
      <4>1. n \in U' => n \in U
        <5> SUFFICES ASSUME n # d, NEW q \in Pred(n) \cap U PROVE n \in U
          BY <3>3
        <5> QED
          BY <3>10 DEF ClosedAvoiding, Pred
      <4>2. U' = U
        <5>1. ASSUME NEW m \in U' PROVE m \in U
          <6>1. m \in reached
            BY <3>4, <5>1
          <6> QED
            BY <3>2, <4>1, <5>1, <6>1
        <5> QED
          BY <3>5, <5>1
      <4> QED
        BY <2>1, <3>6, <3>10, <4>2 DEF Learns, U, ClosedAvoiding
    <3>11. CASE Cardinality(U) >= iter /\ NextWithout(d)
      <4>1. PICK w \in todo \ {d} : w \notin U /\ Pred(w) \cap U # {}
        BY <3>11 DEF NextWithout, U
      <4>2. CASE w = n
        <5>1. n \in U' /\ n \notin U
          BY <3>3, <4>1, <4>2
        <5>2. Cardinality(U \cup {n}) = Cardinality(U) + 1
          BY <3>7, <5>1, FS_AddElement
        <5>3. Cardinality(U \cup {n}) <= Cardinality(U')
          BY <3>5, <3>7, <5>1, FS_Subset
        <5>4. Cardinality(U') >= iter + 1
          BY <3>7, <3>8, <3>11, <5>2, <5>3
        <5> QED
          BY <2>1, <3>6, <5>4 DEF Learns, U
      <4>3. CASE w # n
        <5>1. w \in todo' \ {d} /\ w \in reached
          BY <2>1, <2>2, <4>1, <4>3 DEF DomInv
        <5>2. w \notin U' /\ Pred(w)' \cap U' # {}
          BY <2>3, <3>2, <3>5, <4>1, <4>3, <5>1
        <5>3. NextWithout(d)'
          BY <5>1, <5>2 DEF NextWithout, U
        <5>4. Cardinality(U') >= iter
          BY <3>7, <3>8, <3>11
        <5> QED
          BY <2>1, <3>6, <5>3, <5>4 DEF Learns, U
      <4> QED
        BY <4>2, <4>3
    <3> QED
      BY <3>1, <3>9, <3>10, <3>11 DEF Learns, U
  <2> QED
    BY <2>1, <2>4, <2>5 DEF PassInv
<1>6. CASE NextPass
  <2>1. /\ phase = "doms" /\ phase' = "doms" /\ todo = {}
        /\ UNCHANGED <<succ, reached, queue, doms>>
        /\ todo' = reached \ {Entry} /\ iter' = iter + 1
    BY <1>6 DEF NextPass
  <2>2. phase \in Later /\ doms[Entry] = {Entry}
    BY <2>1 DEF DomInv, Later
  <2>3. Entry \in reached /\ \A m \in reached : succ[m] \subseteq reached
    BY <2>2, QueueEmpty, ReachedClosed
  <2>4. ASSUME NEW d \in reached \ {Entry} PROVE Supported(d)' /\ Learns(d)'
    <3> DEFINE U == Without(d)
    <3>1. U' = U /\ (\A a : Pred(a)' = Pred(a)) /\ U \subseteq reached /\ Entry \in U
      BY <2>1, <2>2, <2>3 DEF Without, Pred
    <3>2. Supported(d) /\ Learns(d)
      BY <2>2 DEF PassInv
    <3>3. ~ NextWithout(d)
      BY <2>1 DEF NextWithout
    <3>4. Supported(d)'
      BY <3>1, <3>2 DEF Supported
    <3>5. ClosedAvoiding(U, {d}) \/ Cardinality(U') >= iter'
      BY <2>1, <3>1, <3>2, <3>3 DEF Learns
    <3>6. ClosedAvoiding(U, {d})' \/ NextWithout(d)'
      <4> SUFFICES ASSUME ~ NextWithout(d)' PROVE ClosedAvoiding(U, {d})'
        OBVIOUS
      <4>1. ASSUME NEW a \in U, NEW b \in succ[a] \ {d}, b \notin U PROVE FALSE
        <5>1. b \in todo' \ {d} /\ a \in Pred(b)
          BY <2>1, <2>3, <3>1, <4>1 DEF Pred, TypeOK
        <5> QED
          BY <3>1, <4>1, <5>1 DEF NextWithout
      <4> QED
        BY <2>1, <3>1, <4>1 DEF ClosedAvoiding
    <3> QED
      BY <2>1, <3>1, <3>4, <3>5, <3>6 DEF Learns, ClosedAvoiding
  <2> QED
    BY <2>1, <2>2, <2>4 DEF PassInv
<1>7. CASE StartLoops
  BY <1>7 DEF StartLoops, PassInv, Later, Supported, Learns, NextWithout, Without,
              ClosedAvoiding, Pred
<1>8. CASE Finish
  BY <1>1, <1>8 DEF Finish, Later
<1>9. ASSUME NEW n \in Blocks, Grow(n) PROVE PassInv'
  <2>1. phase' = phase /\ UNCHANGED graphVars /\ UNCHANGED domVars
    BY <1>9 DEF Grow
  <2> QED
    BY <1>1, <2>1 DEF PassInv
<1>10. ASSUME NEW e \in Blocks \X Blocks, OpenLoop(e) \/ CloseLoop(e) PROVE PassInv'
  <2>1. phase' = phase /\ UNCHANGED graphVars /\ UNCHANGED domVars
    BY <1>10 DEF OpenLoop, CloseLoop
  <2> QED
    BY <1>1, <2>1 DEF PassInv
<1>11. CASE UNCHANGED vars
  <2>1. phase' = phase /\ UNCHANGED graphVars /\ UNCHANGED domVars
    BY <1>11 DEF vars
  <2> QED
    BY <1>1, <2>1 DEF PassInv
<1> QED
  BY <1>2, <1>3, <1>4, <1>5, <1>6, <1>7, <1>8, <1>9, <1>10, <1>11 DEF Next

(* When the cap ends the iteration in a small graph, nothing is missing:   *)
(* d dominates every block but those, or they are closed avoiding d.       *)
LEMMA CapIsEnough ==
    ASSUME TypeOK, ReachInv, DomInv, PassInv, phase \in {"loops", "done"}, iter = MaxIter,
           Cardinality(reached) <= MaxIter + 2, NEW d \in reached \ {Entry}
    PROVE  ClosedAvoiding(Without(d), {d})
<1>1. phase \in Later /\ todo = {} /\ doms[Entry] = {Entry}
  BY DEF Later, DomInv
<1>2. Supported(d) /\ Learns(d)
  BY <1>1 DEF PassInv
<1>3. CASE Cardinality(Without(d)) >= MaxIter + 1
  <2> DEFINE U == Without(d)
             R == reached \ {d}
  <2>1. d \notin U /\ U \subseteq R
    BY <1>2 DEF Supported, Without
  <2>2. IsFiniteSet(reached)
    BY ControlFlowAssumption, FS_Subset DEF TypeOK
  <2>3. IsFiniteSet(R) /\ Cardinality(R) = Cardinality(reached) - 1
    BY <2>2, FS_RemoveElement
  <2>4. Cardinality(reached) \in Nat /\ Cardinality(U) \in Nat /\ MaxIter \in Nat
    BY <2>1, <2>2, <2>3, FS_Subset, FS_CardinalityType, ControlFlowAssumption
  <2>5. Cardinality(U) <= Cardinality(R) /\ (Cardinality(U) = Cardinality(R) => U = R)
    BY <2>1, <2>3, FS_Subset
  <2>6. U = R
    BY <1>3, <2>3, <2>4, <2>5
  <2>7. \A a \in reached : succ[a] \subseteq reached
    BY <1>1, QueueEmpty, ReachedClosed
  <2> QED
    BY <2>6, <2>7 DEF ClosedAvoiding
<1>4. CASE ~ (Cardinality(Without(d)) >= MaxIter + 1)
  BY <1>1, <1>2, <1>4 DEF Learns, NextWithout
<1> QED
  BY <1>3, <1>4

(* What the iteration leaves when it was long enough. *)
LEMMA ConvergedIsExact ==
    ASSUME TypeOK, ReachInv, DomInv, PassInv, Converged,
           NEW n \in reached, NEW d \in Blocks, d \in doms[n]
    PROVE  Dominates(d, n)
<1>1. phase \in Later /\ todo = {} /\ (~changed \/ iter = MaxIter)
  BY DEF Converged, Later, DomInv, PassInv
<1>2. CASE d = Entry
  <2>1. {} \in SUBSET Blocks /\ ClosedAvoiding({}, {d}) /\ n \notin {}
    BY DEF ClosedAvoiding
  <2> QED
    BY <1>2, <2>1 DEF Dominates
<1>3. CASE d # Entry
  <2> DEFINE S == Without(d)
  <2>1. Entry \in S
    BY <1>1, <1>3, QueueEmpty, ReachedClosed DEF DomInv, Without
  <2>2. ASSUME ~changed, NEW a \in S, NEW b \in succ[a], b # d PROVE b \in S
    <3>1. a \in reached /\ d \notin doms[a] /\ b \in reached
      BY <1>1, <2>2, QueueEmpty, ReachedClosed DEF Without
    <3>2. CASE b = Entry
      BY <2>1, <3>2
    <3>3. CASE b # Entry
      <4>1. a \in Pred(b) \cap reached
        BY <2>2, <3>1 DEF Pred, TypeOK
      <4>2. doms[b] = NewDom(b)
        BY <1>1, <2>2, <3>1, <3>3, <4>1 DEF DomInv, Fixed
      <4> QED
        BY <2>2, <3>1, <4>1, <4>2 DEF NewDom, Without
    <3> QED
      BY <3>2, <3>3
  <2>3. ClosedAvoiding(S, {d})
    <3>1. CASE ~changed
      BY <2>2, <3>1 DEF ClosedAvoiding
    <3>2. CASE changed
      <4>1. d \in reached
        BY <1>1 DEF PassInv, TypeOK
      <4> QED
        BY <1>1, <1>3, <3>2, <4>1, CapIsEnough DEF Converged
    <3> QED
      BY <3>1, <3>2
  <2>4. S \in SUBSET Blocks /\ n \notin S
    BY DEF Without, TypeOK
  <2> QED
    BY <2>1, <2>3, <2>4 DEF Dominates
<1> QED
  BY <1>2, <1>3
-----------------------------------------------------------------------------
(* Loops. *)
LEMMA InitLoop == Init => LoopInv
  BY DEF Init, LoopInv

LEMMA NextLoop == TypeOK /\ ReachInv /\ LoopInv /\ [Next]_vars => LoopInv'
<1> SUFFICES ASSUME TypeOK, ReachInv, LoopInv, [Next]_vars PROVE LoopInv'
  OBVIOUS
<1> USE DEF graphVars, domVars, loopVars
<1>1. ASSUME succ' = succ
      PROVE  /\ \A a : Pred(a)' = Pred(a)
             /\ \A h, t : NaturalLoop(h, t)' = NaturalLoop(h, t)
  BY <1>1 DEF Pred, NaturalLoop
<1>2. ASSUME UNCHANGED <<succ, reached, doms>>
      PROVE  \A e : BackEdge(e)' = BackEdge(e)
  BY <1>2 DEF BackEdge
<1>3. ASSUME UNCHANGED loopVars, phase \notin {"loops", "done"},
             phase' \notin {"loops", "done"}
      PROVE  LoopInv'
  BY <1>3 DEF LoopInv
<1>4. CASE BuildBlocks
  BY <1>3, <1>4 DEF BuildBlocks
<1>5. CASE StartDominators \/ NextPass
  BY <1>3, <1>5 DEF StartDominators, NextPass
<1>6. ASSUME NEW n \in Blocks, Visit(n) \/ Refine(n) PROVE LoopInv'
  BY <1>3, <1>6 DEF Visit, Refine
<1>7. CASE StartLoops
  <2>1. /\ phase = "doms" /\ phase' = "loops"
        /\ UNCHANGED <<succ, reached, doms, open, work, loops>>
        /\ pending' = {e \in reached \X Blocks :
                           e[2] \in succ[e[1]] /\ e[2] \in doms[e[1]]}
    BY <1>7 DEF StartLoops
  <2>2. open = {} /\ loops = {} /\ work = {}
    BY <2>1 DEF LoopInv
  <2>3. \A e \in pending' : BackEdge(e)
    BY <2>1 DEF BackEdge
  <2> QED
    BY <1>2, <2>1, <2>2, <2>3 DEF LoopInv
<1>8. CASE Finish
  <2>1. /\ phase = "loops" /\ phase' = "done" /\ open = {} /\ pending = {}
        /\ UNCHANGED <<succ, reached, doms, pending, open, body, work, loops>>
    BY <1>8 DEF Finish
  <2> QED
    BY <1>1, <1>2, <2>1 DEF LoopInv
<1>9. ASSUME NEW e \in Blocks \X Blocks, OpenLoop(e) PROVE LoopInv'
  <2>1. /\ phase = "loops" /\ phase' = "loops" /\ e \in pending
        /\ UNCHANGED <<succ, reached, doms, loops>>
        /\ pending' = pending \ {e} /\ open' = {e}
        /\ body' = {e[1], e[2]} /\ work' = {e[1]} \ {e[2]}
    BY <1>9 DEF OpenLoop
  <2>2. \A f \in pending' \cup open' : BackEdge(f)'
    BY <1>2, <2>1 DEF LoopInv
  <2> QED
    BY <1>1, <1>2, <2>1, <2>2 DEF LoopInv
<1>10. ASSUME NEW n \in Blocks, Grow(n) PROVE LoopInv'
  <2>1. /\ n \in work /\ UNCHANGED <<phase, succ, reached, doms, pending, open, loops>>
        /\ body' = body \cup Pred(n)
        /\ work' = (work \ {n}) \cup (Pred(n) \ body)
    BY <1>10 DEF Grow
  <2>2. phase \in {"loops", "done"} /\ open # {}
    BY <2>1 DEF LoopInv
  <2>3. ASSUME NEW e \in open
        PROVE  /\ {e[1], e[2]} \subseteq body'
               /\ work' \subseteq body' \ {e[2]}
               /\ \A a \in body' \ (work' \cup {e[2]}) : Pred(a) \subseteq body'
               /\ \A S \in SUBSET Blocks :
                      e[1] \in S /\ (\A a \in S \ {e[2]} : Pred(a) \subseteq S)
                          => body' \subseteq S \cup {e[2]}
    <3>1. /\ {e[1], e[2]} \subseteq body
          /\ work \subseteq body \ {e[2]}
          /\ \A a \in body \ (work \cup {e[2]}) : Pred(a) \subseteq body
          /\ \A S \in SUBSET Blocks :
                 e[1] \in S /\ (\A a \in S \ {e[2]} : Pred(a) \subseteq S)
                     => body \subseteq S \cup {e[2]}
      BY <2>3 DEF LoopInv
    <3>2. ASSUME NEW a \in body' \ (work' \cup {e[2]}) PROVE Pred(a) \subseteq body'
      BY <2>1, <3>1
    <3>3. ASSUME NEW S \in SUBSET Blocks, e[1] \in S,
                 \A a \in S \ {e[2]} : Pred(a) \subseteq S
          PROVE  body' \subseteq S \cup {e[2]}
      <4>1. body \subseteq S \cup {e[2]} /\ n \in S \ {e[2]}
        BY <2>1, <3>1, <3>3
      <4> QED
        BY <2>1, <3>3, <4>1
    <3> QED
      BY <2>1, <3>1, <3>2, <3>3
  <2> QED
    BY <1>1, <1>2, <2>1, <2>2, <2>3 DEF LoopInv
<1>11. ASSUME NEW e \in Blocks \X Blocks, CloseLoop(e) PROVE LoopInv'
  <2>1. /\ e \in open /\ work = {}
        /\ UNCHANGED <<phase, succ, reached, doms, pending, work>>
        /\ loops' = loops \cup {[header |-> e[2], tail |-> e[1], body |-> body]}
        /\ open' = {}
    BY <1>11 DEF CloseLoop
  <2>2. phase \in {"loops", "done"}
    BY <2>1 DEF LoopInv
  <2>3. /\ BackEdge(e)
        /\ {e[1], e[2]} \subseteq body
        /\ \A a \in body \ {e[2]} : Pred(a) \subseteq body
        /\ \A S \in SUBSET Blocks :
               e[1] \in S /\ (\A a \in S \ {e[2]} : Pred(a) \subseteq S)
                   => body \subseteq S \cup {e[2]}
    BY <2>1 DEF LoopInv
  <2>4. body = NaturalLoop(e[2], e[1])
    <3>1. body \subseteq NaturalLoop(e[2], e[1])
      BY <2>3 DEF NaturalLoop, TypeOK
    <3>2. NaturalLoop(e[2], e[1]) \subseteq body
      BY <2>3 DEF NaturalLoop, TypeOK
    <3> QED
      BY <3>1, <3>2
  <2>5. BackEdge(<<e[1], e[2]>>)
    BY <2>3 DEF BackEdge
  <2> DEFINE new == [header |-> e[2], tail |-> e[1], body |-> body]
  <2>6. new.header = e[2] /\ new.tail = e[1] /\ new.body = body
    OBVIOUS
  <2>7. \A l \in loops' : /\ BackEdge(<<l.tail, l.header>>)
                          /\ l.body = NaturalLoop(l.header, l.tail)
    <3> HIDE DEF new
    <3>1. loops' = loops \cup {new}
      BY <2>1 DEF new
    <3> QED
      BY <2>4, <2>5, <2>6, <3>1 DEF LoopInv
  <2> QED
    BY <1>1, <1>2, <2>1, <2>2, <2>7 DEF LoopInv
<1>12. CASE UNCHANGED vars
  BY <1>1, <1>2, <1>12 DEF vars, LoopInv
<1> QED
  BY <1>4, <1>5, <1>6, <1>7, <1>8, <1>9, <1>10, <1>11, <1>12 DEF Next

LEMMA NextFound == TypeOK /\ LoopInv /\ FoundInv /\ [Next]_vars => FoundInv'
<1> SUFFICES ASSUME TypeOK, LoopInv, FoundInv, [Next]_vars PROVE FoundInv'
  OBVIOUS
<1> USE DEF graphVars, domVars, loopVars
<1>1. ASSUME phase' \notin {"loops", "done"}, open' = open PROVE FoundInv'
  BY <1>1 DEF FoundInv
<1>2. CASE BuildBlocks \/ StartDominators \/ NextPass
  BY <1>1, <1>2 DEF BuildBlocks, StartDominators, NextPass
<1>3. ASSUME NEW n \in Blocks, Visit(n) \/ Refine(n) PROVE FoundInv'
  BY <1>1, <1>3 DEF Visit, Refine
<1>4. CASE StartLoops
  <2>1. /\ phase' = "loops" /\ UNCHANGED <<succ, reached, doms, open>>
        /\ \A t \in reached, h \in Blocks :
               h \in succ[t] /\ h \in doms[t] => <<t, h>> \in pending'
    BY <1>4 DEF StartLoops
  <2>2. \A t \in reached : succ[t] \subseteq Blocks
    BY DEF TypeOK
  <2> QED
    BY <2>1, <2>2 DEF FoundInv
<1>5. CASE Finish
  BY <1>5 DEF Finish, FoundInv, HasLoop
<1>6. ASSUME NEW e \in Blocks \X Blocks, OpenLoop(e) PROVE FoundInv'
  <2>1. /\ phase = "loops" /\ phase' = "loops" /\ open = {} /\ e \in pending
        /\ UNCHANGED <<succ, reached, doms, loops>>
        /\ open' = {e} /\ pending' \cup open' = pending \cup open
    BY <1>6 DEF OpenLoop
  <2> QED
    BY <2>1 DEF FoundInv, HasLoop
<1>7. ASSUME NEW n \in Blocks, Grow(n) PROVE FoundInv'
  BY <1>7 DEF Grow, FoundInv, HasLoop
<1>8. ASSUME NEW e \in Blocks \X Blocks, CloseLoop(e) PROVE FoundInv'
  <2> DEFINE new == [header |-> e[2], tail |-> e[1], body |-> body]
  <2>1. /\ e \in open /\ open' = {} /\ UNCHANGED <<phase, succ, reached, doms, pending>>
        /\ loops' = loops \cup {new}
    BY <1>8 DEF CloseLoop
  <2>2. new.header = e[2] /\ new.tail = e[1]
    OBVIOUS
  <2> HIDE DEF new
  <2>3. open = {e}
    BY <2>1 DEF FoundInv
  <2>4. ASSUME NEW t \in reached, NEW h \in succ[t] \cap doms[t],
               phase \in {"loops", "done"}
        PROVE  <<t, h>> \in pending' \cup open' \/ HasLoop(t, h)'
    <3>1. CASE <<t, h>> \in pending \/ HasLoop(t, h)
      BY <2>1, <3>1 DEF HasLoop
    <3>2. CASE <<t, h>> \in open
      <4>1. t = e[1] /\ h = e[2]
        BY <2>3, <3>2
      <4> QED
        BY <2>1, <2>2, <4>1 DEF HasLoop
    <3> QED
      BY <2>4, <3>1, <3>2 DEF FoundInv
  <2> QED
    BY <2>1, <2>4 DEF FoundInv
<1>9. CASE UNCHANGED vars
  BY <1>9 DEF vars, FoundInv, HasLoop
<1> QED
  BY <1>2, <1>3, <1>4, <1>5, <1>6, <1>7, <1>8, <1>9 DEF Next

(* What dominates the tail of a loop and is its header dominates the body. *)
LEMMA HeaderDominates ==
    ASSUME TypeOK, NEW h \in Blocks, NEW t \in Blocks, Dominates(h, t),
           NEW n \in NaturalLoop(h, t)
    PROVE  Dominates(h, n)
<1>1. n \in Blocks
  BY DEF NaturalLoop
<1>2. PICK S \in SUBSET Blocks :
          (h = Entry \/ Entry \in S) /\ ClosedAvoiding(S, {h}) /\ t \notin S
  BY DEF Dominates
<1>3. CASE n # h
  <2> DEFINE U == Blocks \ S
  <2>1. t \in U /\ \A a \in U \ {h} : Pred(a) \subseteq U
    BY <1>2 DEF ClosedAvoiding, Pred
  <2>2. n \in U
    BY <1>3, <2>1 DEF NaturalLoop
  <2> QED
    BY <1>2, <2>2 DEF Dominates
<1>4. CASE n = h
  <2>1. /\ S \ {h} \in SUBSET Blocks
        /\ h = Entry \/ Entry \in S \ {h}
        /\ ClosedAvoiding(S \ {h}, {h})
        /\ n \notin S \ {h}
    BY <1>2, <1>4 DEF ClosedAvoiding
  <2> QED
    BY <2>1 DEF Dominates
<1> QED
  BY <1>3, <1>4

(* Two reachable blocks do not dominate each other. *)
LEMMA DominanceAntisymmetric ==
    ASSUME TypeOK, ReachInv, phase # "build", queue = {},
           NEW a \in reached, NEW b \in reached,
           Dominates(a, b), Dominates(b, a)
    PROVE  a = b
<1> SUFFICES ASSUME a # b PROVE FALSE
  OBVIOUS
<1>1. PICK S \in SUBSET Blocks :
          (a = Entry \/ Entry \in S) /\ ClosedAvoiding(S, {a}) /\ b \notin S
  BY DEF Dominates
<1>2. PICK T \in SUBSET Blocks :
          (b = Entry \/ Entry \in T) /\ ClosedAvoiding(T, {b}) /\ a \notin T
  BY DEF Dominates
<1>3. Entry \in S \cap T
  BY <1>1, <1>2
<1>4. ClosedAvoiding(S \cap T, {})
  <2> SUFFICES ASSUME NEW c \in S \cap T, NEW e \in succ[c] PROVE e \in S \cap T
    BY DEF ClosedAvoiding
  <2>1. e # a => e \in S
    BY <1>1 DEF ClosedAvoiding
  <2>2. e # b => e \in T
    BY <1>2 DEF ClosedAvoiding
  <2> QED
    BY <1>1, <1>2, <2>1, <2>2
<1>5. S \cap T \in SUBSET Blocks
  OBVIOUS
<1>6. reached \subseteq S \cap T
  BY <1>3, <1>4, <1>5, ReachedClosed
<1> QED
  BY <1>2, <1>6

(* A natural loop has its tail and, but for its header, all predecessors. *)
LEMMA NaturalLoopClosed ==
    ASSUME TypeOK, NEW h \in Blocks, NEW t \in Blocks
    PROVE  /\ h \in NaturalLoop(h, t) /\ t \in NaturalLoop(h, t)
           /\ NaturalLoop(h, t) \in SUBSET Blocks
           /\ \A a \in NaturalLoop(h, t) \ {h} : Pred(a) \subseteq NaturalLoop(h, t)
           /\ \A S \in SUBSET Blocks :
                  t \in S /\ (\A a \in S \ {h} : Pred(a) \subseteq S)
                      => NaturalLoop(h, t) \subseteq S \cup {h}
<1>1. ASSUME NEW a \in NaturalLoop(h, t) \ {h}, NEW p \in Pred(a)
      PROVE  p \in NaturalLoop(h, t)
  <2>1. p \in Blocks
    BY DEF Pred
  <2>2. ASSUME NEW S \in SUBSET Blocks, t \in S, \A x \in S \ {h} : Pred(x) \subseteq S
        PROVE  p \in S
    <3>1. a \in S
      BY <2>2 DEF NaturalLoop
    <3> QED
      BY <2>2, <3>1
  <2> QED
    BY <2>1, <2>2 DEF NaturalLoop
<1>2. \A S \in SUBSET Blocks :
          t \in S /\ (\A a \in S \ {h} : Pred(a) \subseteq S)
              => NaturalLoop(h, t) \subseteq S \cup {h}
  BY DEF NaturalLoop
<1>3. t \in NaturalLoop(h, t)
  BY DEF NaturalLoop
<1>4. h \in NaturalLoop(h, t) /\ NaturalLoop(h, t) \in SUBSET Blocks
  BY DEF NaturalLoop
<1> QED
  BY <1>1, <1>2, <1>3, <1>4

(* Of two loops that share a reachable block, one whose header is not in   *)
(* the other has the other within it.                                      *)
LEMMA OtherWithin ==
    ASSUME TypeOK, ReachInv, phase # "build", queue = {},
           NEW h \in Blocks, NEW t \in Blocks,
           NEW k \in reached, NEW u \in reached,
           k \in succ[u], Dominates(k, u),
           h # k, h \notin NaturalLoop(k, u),
           NEW x \in reached, x \in NaturalLoop(h, t), x \in NaturalLoop(k, u)
    PROVE  NaturalLoop(k, u) \subseteq NaturalLoop(h, t)
<1> DEFINE L == NaturalLoop(h, t)
           M == NaturalLoop(k, u)
<1>1. /\ h \in L /\ t \in L /\ L \in SUBSET Blocks
      /\ \A a \in L \ {h} : Pred(a) \subseteq L
  BY NaturalLoopClosed
<1>2. /\ k \in Blocks /\ u \in Blocks
      /\ k \in M /\ u \in M /\ M \in SUBSET Blocks
      /\ \A a \in M \ {k} : Pred(a) \subseteq M
      /\ \A S \in SUBSET Blocks :
             u \in S /\ (\A a \in S \ {k} : Pred(a) \subseteq S) => M \subseteq S \cup {k}
  BY NaturalLoopClosed DEF TypeOK
<1>3. \A n \in M : Dominates(k, n)
  BY <1>2, HeaderDominates
<1>4. x \in L /\ x \in M /\ h \notin M
  OBVIOUS
<1> SUFFICES M \subseteq L
  OBVIOUS
<1> HIDE DEF L, M
<1>5. k \in L
  <2> SUFFICES ASSUME k \notin L PROVE FALSE
    OBVIOUS
  <2> DEFINE S == Blocks \ (L \cap M)
  <2>1. ClosedAvoiding(S, {})
    <3> SUFFICES ASSUME NEW a \in S, NEW b \in succ[a], b \in L \cap M PROVE FALSE
      BY DEF ClosedAvoiding, TypeOK
    <3>1. a \in Pred(b)
      BY DEF Pred, TypeOK
    <3>2. b # h /\ b # k
      BY <1>4
    <3> QED
      BY <1>1, <1>2, <3>1, <3>2
  <2>2. Entry \in S
    <3> SUFFICES ASSUME Entry \in L \cap M PROVE FALSE
      BY ControlFlowAssumption DEF Entry
    <3>1. k = Entry
      BY <1>2, <1>3, EntryDominator
    <3> QED
      BY <3>1
  <2>3. reached \subseteq S
    BY <2>1, <2>2, ReachedClosed
  <2> QED
    BY <1>4, <2>3
<1>6. u \in L
  BY <1>1, <1>2, <1>5 DEF Pred
<1>7. \A a \in (L \cap M) \ {k} : Pred(a) \subseteq L \cap M
  BY <1>1, <1>2, <1>4
<1>8. M \subseteq (L \cap M) \cup {k}
  BY <1>1, <1>2, <1>6, <1>7
<1> QED
  BY <1>5, <1>8

LEMMA InvNested ==
    ASSUME Inv, Converged
    PROVE  /\ \A l \in loops :
                  /\ l.body = NaturalLoop(l.header, l.tail)
                  /\ \A n \in l.body \cap reached : Dominates(l.header, n)
           /\ \A l, m \in loops :
                  l.header # m.header =>
                      \/ (l.body \cap m.body \cap reached) = {}
                      \/ l.body \cap reached \subseteq m.body
                      \/ m.body \cap reached \subseteq l.body
<1>1. phase # "build" /\ queue = {} /\ phase \in Later
  BY QueueEmpty DEF Inv, Converged, Later
<1>2. ASSUME NEW l \in loops
      PROVE  /\ l.header \in reached /\ l.tail \in reached
             /\ l.header \in succ[l.tail]
             /\ l.body = NaturalLoop(l.header, l.tail)
             /\ Dominates(l.header, l.tail)
  <2>1. /\ l.tail \in reached /\ l.header \in succ[l.tail] /\ l.header \in doms[l.tail]
        /\ l.body = NaturalLoop(l.header, l.tail)
        /\ l.header \in Blocks
    BY DEF Inv, LoopInv, BackEdge, TypeOK, Loop
  <2>2. l.header \in reached
    BY <1>1, <2>1, ReachedClosed DEF Inv
  <2>3. Dominates(l.header, l.tail)
    BY <2>1, ConvergedIsExact DEF Inv
  <2> QED
    BY <2>1, <2>2, <2>3
<1>3. reached \in SUBSET Blocks
  BY DEF Inv, TypeOK
<1>4. ASSUME NEW l \in loops, NEW n \in l.body \cap reached
      PROVE  Dominates(l.header, n)
  BY <1>2, <1>3, <1>4, HeaderDominates DEF Inv
<1>5. ASSUME NEW l \in loops, NEW m \in loops, l.header # m.header
      PROVE  \/ (l.body \cap m.body \cap reached) = {}
             \/ l.body \cap reached \subseteq m.body
             \/ m.body \cap reached \subseteq l.body
  <2> SUFFICES ASSUME NEW x \in reached, x \in l.body, x \in m.body
               PROVE  l.body \subseteq m.body \/ m.body \subseteq l.body
    OBVIOUS
  <2>1. CASE l.header \notin m.body
    BY <1>1, <1>2, <1>3, <1>5, <2>1, OtherWithin DEF Inv
  <2>2. CASE m.header \notin l.body
    BY <1>1, <1>2, <1>3, <1>5, <2>2, OtherWithin DEF Inv
  <2>3. CASE l.header \in m.body /\ m.header \in l.body
    <3>1. Dominates(l.header, m.header) /\ Dominates(m.header, l.header)
      BY <1>2, <1>4, <2>3
    <3> QED
      BY <1>1, <1>2, <1>5, <3>1, DominanceAntisymmetric DEF Inv
  <2> QED
    BY <2>1, <2>2, <2>3
<1> QED
  BY <1>2, <1>4, <1>5

LEMMA InvNests ==
    ASSUME Inv
    PROVE  LoopsNest
<1>1. ASSUME phase = "done", NEW t \in reached, NEW h \in succ[t], Dominates(h, t)
      PROVE  HasLoop(t, h)
  <2>1. h \in Blocks
    BY DEF Inv, TypeOK
  <2>2. h \in doms[t]
    BY <1>1, <2>1 DEF Inv, DomInv, Later
  <2> QED
    BY <1>1, <2>2 DEF Inv, FoundInv
<1> QED
  BY <1>1, InvNested DEF LoopsNest, HasLoop
-----------------------------------------------------------------------------
LEMMA NextCode == CodeInv /\ TypeOK /\ [Next]_vars => CodeInv'
  BY DEF CodeInv, TypeOK, Phases, Next, vars, BuildBlocks, Visit, StartDominators, Refine,
         NextPass, StartLoops, OpenLoop, Grow, CloseLoop, Finish

LEMMA InitInv == Init => Inv
  BY InitTypes, InitReach, InitLoop DEF Inv, Init, CodeInv, DomInv, PassInv, FoundInv, Later

LEMMA NextInv == Inv /\ [Next]_vars => Inv'
  BY NextTypes, NextCode, NextReach, NextDom, NextPasses, NextLoop, NextFound DEF Inv

(* The strengthening that the properties of the analysis follow from. *)
THEOREM Invariance == Spec => []Inv
  BY InitInv, NextInv, PTL DEF Spec

LEMMA InvSound == Inv => DominatorsSound
  BY DEF Inv, DomInv, DominatorsSound, Later

LEMMA InvExact ==
    ASSUME Inv
    PROVE  DominatorsExact
<1> SUFFICES ASSUME Converged PROVE DominatorsExact
  BY DEF DominatorsExact
<1>1. phase \in Later
  BY DEF Converged, Later
<1>2. reached = {n \in Blocks : Reachable(n)}
  BY <1>1, ReachedIsReachable DEF Inv
<1>3. \A n \in reached : \A d \in Blocks : d \in doms[n] => Dominates(d, n)
  BY ConvergedIsExact DEF Inv
<1> QED
  BY <1>2, <1>3 DEF DominatorsExact

LEMMA InvCovers ==
    ASSUME CodeInv
    PROVE  EdgesCoverExecution
<1> SUFFICES ASSUME phase = "build",
                    NEW i \in 1 .. Len(code), NEW j \in After(code, i)
             PROVE  \/ j = i + 1 /\ BlockOf(Build(code), j) = BlockOf(Build(code), i)
                    \/ /\ j = Build(code)[BlockOf(Build(code), j)].first
                       /\ <<BlockOf(Build(code), i) - 1, BlockOf(Build(code), j) - 1>>
                              \in EdgesPython(code)
  BY DEF EdgesCoverExecution
<1>1. code \in Seq(Instruction)
  BY ControlFlowAssumption DEF CodeInv
<1> QED
  BY <1>1, EdgesCover

(* Whatever is executed next is in the same block or one edge away, for    *)
(* every program: Build cuts it into blocks that are entered at their      *)
(* first instruction and left at their last.                               *)
THEOREM Covers == Spec => []EdgesCoverExecution
<1>1. Inv => EdgesCoverExecution
  BY InvCovers DEF Inv
<1> QED
  BY <1>1, Invariance, PTL

(* Nothing that a run of the contract over pushed jumps can execute is     *)
(* missed by computeReachable, when the edges are those of the Python      *)
(* twin: what is executed is in a block that is reached.                   *)
ExecutedIsReached ==
    phase \in Later =>
        \A p \in Programs :
            succ = Successors(EdgesPython(p)) =>
                \A i \in Executable(p) : BlockOf(Build(p), i) - 1 \in reached

LEMMA InvExecuted ==
    ASSUME Inv
    PROVE  ExecutedIsReached
<1> SUFFICES ASSUME phase \in Later, NEW p \in Programs,
                    succ = Successors(EdgesPython(p)), NEW i \in Executable(p)
             PROVE  BlockOf(Build(p), i) - 1 \in reached
  BY DEF ExecutedIsReached
<1>1. p \in Seq(Instruction) /\ 0 .. Len(Build(p)) - 1 \subseteq Blocks
  BY ControlFlowAssumption
<1>2. Entry \in reached /\ \A n \in reached : succ[n] \subseteq reached
  BY QueueEmpty, ReachedClosed DEF Inv
<1>3. ASSUME NEW e \in EdgesPython(p), e[1] \in reached PROVE e[2] \in reached
  <2>1. e \in (0 .. Len(Build(p)) - 1) \X (0 .. Len(Build(p)) - 1)
    BY DEF EdgesPython
  <2>2. e[1] \in Blocks /\ e[2] \in Blocks /\ <<e[1], e[2]>> \in EdgesPython(p)
    BY <1>1, <2>1
  <2>3. e[2] \in succ[e[1]]
    BY <2>2 DEF Successors
  <2> QED
    BY <1>2, <1>3, <2>3
<1> QED
  BY <1>1, <1>2, <1>3, ClosedBlocksExecuted DEF Entry

THEOREM ReachesExecuted == Spec => []ExecutedIsReached
  BY InvExecuted, Invariance, PTL

(* No dominator is ever missing, in whatever order the passes take the     *)
(* blocks and wherever the cap cuts them.                                  *)
THEOREM Sound == Spec => []DominatorsSound
  BY InvSound, Invariance, PTL

(* An iteration that ends by itself has found the reachable blocks and     *)
(* their dominators, exactly.                                              *)
THEOREM Exact == Spec => []DominatorsExact
  BY InvExact, Invariance, PTL

(* Loops are natural, have one entry and are disjoint or nested. *)
THEOREM Nest == Spec => []LoopsNest
  BY InvNests, Invariance, PTL
-----------------------------------------------------------------------------
(* The detector engine. *)
Ready == {"idle", "rule", "functions"}
Checking == {"rule", "functions", "match"}

(* The engine's registers: a rule starts with nothing matched, and only a  *)
(* rule that passed its gates is matched, on an audit.                     *)
TurnInv ==
    /\ audit # Null => audit \in Audits
    /\ rules \in RuleLists \cup {<<>>}
    /\ turn \in Nat \ {0}
    /\ audit = Null => stage = "idle"
    /\ stage = "idle" => turn = 1 /\ findings = {}
    /\ stage \in Ready => matched = 0 /\ contexts = {}
    /\ stage \in {"functions", "match"} => turn \in DOMAIN rules
    /\ stage = "functions" => ~Stateful(Rule)
    /\ stage = "match" => Stateful(Rule) /\ Gates(Rule) /\ matched \in 0 .. Len(Rule.sequence)

IsMatch(c) ==
    /\ c = [bindings |-> c.bindings, rows |-> c.rows]
    /\ c.bindings = [n \in Names |-> c.bindings[n]]

(* What is kept are the chains, and each is kept with what its rows bind. *)
ChainInv ==
    stage = "match" =>
        /\ \A c \in contexts : IsMatch(c)
        /\ Rule.sequence # <<>> =>
               /\ {c.rows : c \in contexts} = Chains(Rule.sequence, matched)
               /\ \A c \in contexts : \A n \in Names :
                      StandsFor(Rule.sequence, c.rows, matched + 1, n, c.bindings[n])

(* A finding of a rule with a sequence is about an exposed contract, and   *)
(* the earlier rules that expose it have theirs.                           *)
ReportInv ==
    stage \in Checking =>
        /\ \A f \in findings :
               Stateful(f.rule) /\ f.rule.sequence # <<>> => Exposed(f.rule)
        /\ \A i \in 1 .. turn - 1 :
               Stateful(rules[i]) /\ rules[i].sequence # <<>> /\ Exposed(rules[i])
                   => \E f \in findings : f.rule = rules[i]
-----------------------------------------------------------------------------
LEMMA RuleTypes ==
  ASSUME rules \in RuleLists \cup {<<>>}, turn \in DOMAIN rules
  PROVE  Rule \in RuleFile
  BY EngineAssumption DEF Rule

(* The rows of a context and of a longer one. *)
LEMMA AppendRow ==
  ASSUME NEW m \in Nat, NEW R, NEW w \in [1 .. m -> R], NEW x \in R
  PROVE  /\ Append(w, x) \in [1 .. m + 1 -> R]
         /\ \A i \in 1 .. m : Append(w, x)[i] = w[i]
         /\ Append(w, x)[m + 1] = x
  <1>1. w \in Seq(R) /\ Len(w) = m
    OBVIOUS
  <1>2. Append(w, x) \in Seq(R) /\ Len(Append(w, x)) = m + 1
    BY <1>1
  <1>3. Append(w, x)[m + 1] = x /\ \A i \in 1 .. m : Append(w, x)[i] = w[i]
    BY <1>1
  <1>4. Append(w, x) \in [1 .. Len(Append(w, x)) -> R]
    <2>. DEFINE v == Append(w, x)
    <2>1. v \in Seq(R)
      BY <1>2
    <2>. HIDE DEF v
    <2>2. v \in [1 .. Len(v) -> R]
      BY <2>1
    <2>. QED  BY <2>2 DEF v
  <1>. QED  BY <1>2, <1>3, <1>4

LEMMA SplitRows ==
  ASSUME NEW m \in Nat, NEW R, NEW v \in [1 .. m + 1 -> R]
  PROVE  /\ [i \in 1 .. m |-> v[i]] \in [1 .. m -> R]
         /\ v[m + 1] \in R
         /\ Append([i \in 1 .. m |-> v[i]], v[m + 1]) = v
  <1>. DEFINE w == [i \in 1 .. m |-> v[i]]
  <1>1. w \in [1 .. m -> R] /\ v[m + 1] \in R
    OBVIOUS
  <1>2. /\ Append(w, v[m + 1]) \in [1 .. m + 1 -> R]
        /\ \A i \in 1 .. m : Append(w, v[m + 1])[i] = w[i]
        /\ Append(w, v[m + 1])[m + 1] = v[m + 1]
    BY <1>1, AppendRow
  <1>3. \A i \in 1 .. m + 1 : Append(w, v[m + 1])[i] = v[i]
    <2>. TAKE i \in 1 .. m + 1
    <2>1. CASE i \in 1 .. m
      BY <2>1, <1>2
    <2>2. CASE i = m + 1
      BY <2>2, <1>2
    <2>. QED  BY <2>1, <2>2
  <1>. HIDE DEF w
  <1>4. Append(w, v[m + 1]) = v
    BY <1>2, <1>3
  <1>. QED  BY <1>1, <1>4 DEF w

(* What a name stands for at a step depends on the rows before it only. *)
LEMMA StandsForPrefix ==
  ASSUME NEW s, NEW v, NEW w, NEW m \in Nat, NEW i \in 1 .. m + 1, NEW name, NEW x,
         \A j \in 1 .. m : v[j] = w[j]
  PROVE  StandsFor(s, v, i, name, x) <=> StandsFor(s, w, i, name, x)
  BY DEF StandsFor

(* It stands for one value. *)
LEMMA StandsForUnique ==
  ASSUME NEW s, NEW w, NEW i \in Nat, NEW name, NEW x, NEW y,
         StandsFor(s, w, i, name, x), StandsFor(s, w, i, name, y)
  PROVE  x = y
  <1>1. CASE \A j \in 1 .. i - 1 : ~Binds(s[j], w[j], name)
    BY <1>1 DEF StandsFor
  <1>2. CASE \E j \in 1 .. i - 1 : Binds(s[j], w[j], name)
    <2>1. PICK j \in 1 .. i - 1 :
            /\ Binds(s[j], w[j], name)
            /\ w[j].holds[s[j].bind[name]] = x
            /\ \A k \in j + 1 .. i - 1 : ~Binds(s[k], w[k], name)
      BY <1>2 DEF StandsFor
    <2>2. PICK l \in 1 .. i - 1 :
            /\ Binds(s[l], w[l], name)
            /\ w[l].holds[s[l].bind[name]] = y
            /\ \A k \in l + 1 .. i - 1 : ~Binds(s[k], w[k], name)
      BY <1>2 DEF StandsFor
    <2>3. j = l
      BY <2>1, <2>2
    <2>. QED  BY <2>1, <2>2, <2>3
  <1>. QED  BY <1>1, <1>2

(* A step binds its names to what its row holds and no other name. *)
LEMMA StandsForStep ==
  ASSUME NEW s, NEW v, NEW m \in Nat, NEW name, NEW x,
         IF Binds(s[m + 1], v[m + 1], name)
         THEN x = v[m + 1].holds[s[m + 1].bind[name]]
         ELSE StandsFor(s, v, m + 1, name, x)
  PROVE  StandsFor(s, v, m + 2, name, x)
  <1>1. CASE Binds(s[m + 1], v[m + 1], name)
    <2>1. m + 1 \in 1 .. (m + 2) - 1 /\ (m + 1) + 1 .. (m + 2) - 1 = {}
      OBVIOUS
    <2>. QED  BY <1>1, <2>1 DEF StandsFor
  <1>2. CASE ~Binds(s[m + 1], v[m + 1], name)
    <2>1. StandsFor(s, v, m + 1, name, x)
      BY <1>2
    <2>2. CASE x = Null /\ \A j \in 1 .. (m + 1) - 1 : ~Binds(s[j], v[j], name)
      <3>1. \A j \in 1 .. (m + 2) - 1 : j \in 1 .. (m + 1) - 1 \/ j = m + 1
        OBVIOUS
      <3>. QED  BY <1>2, <2>2, <3>1 DEF StandsFor
    <2>3. CASE \E j \in 1 .. (m + 1) - 1 :
                 /\ Binds(s[j], v[j], name)
                 /\ v[j].holds[s[j].bind[name]] = x
                 /\ \A k \in j + 1 .. (m + 1) - 1 : ~Binds(s[k], v[k], name)
      <3>1. PICK j \in 1 .. (m + 1) - 1 :
                 /\ Binds(s[j], v[j], name)
                 /\ v[j].holds[s[j].bind[name]] = x
                 /\ \A k \in j + 1 .. (m + 1) - 1 : ~Binds(s[k], v[k], name)
        BY <2>3
      <3>2. j \in 1 .. (m + 2) - 1
        OBVIOUS
      <3>3. \A k \in j + 1 .. (m + 2) - 1 : k \in j + 1 .. (m + 1) - 1 \/ k = m + 1
        OBVIOUS
      <3>. QED  BY <1>2, <3>1, <3>2, <3>3 DEF StandsFor
    <2>. QED  BY <2>1, <2>2, <2>3 DEF StandsFor
  <1>. QED  BY <1>1, <1>2
-----------------------------------------------------------------------------
EngineInv == TurnInv /\ ChainInv /\ ReportInv

LEMMA SameAudit ==
  ASSUME audit' = audit
  PROVE  /\ \A r : Gates(r)' <=> Gates(r)
         /\ \A s, n : Chains(s, n)' = Chains(s, n)
         /\ \A r : Exposed(r)' <=> Exposed(r)
  <1>1. \A r : Gates(r)' <=> Gates(r)
    BY DEF Gates, Tags, PathEffects, Effects, Rows
  <1>2. \A s, n : Chains(s, n)' = Chains(s, n)
    BY DEF Chains
  <1>3. \A r : Exposed(r)' <=> Exposed(r)
    BY <1>1, <1>2 DEF Exposed
  <1>. QED  BY <1>1, <1>2, <1>3

LEMMA InitEngine == CheckInit => EngineInv
  BY DEF CheckInit, EngineInv, TurnInv, ChainInv, ReportInv, Ready, Checking

LEMMA AtRuleTurn == TurnInv /\ AtRule => turn \in DOMAIN rules
  <1>1. rules \in RuleLists \cup {<<>>} => rules \in Seq(RuleFile)
    <2>1. RuleLists \subseteq Seq(RuleFile)
      BY EngineAssumption
    <2>2. <<>> \in Seq(RuleFile)
      OBVIOUS
    <2>. QED  BY <2>1, <2>2
  <1>. QED  BY <1>1 DEF TurnInv, AtRule

LEMMA StepTurn ==
  ASSUME TurnInv, CheckNext
  PROVE  TurnInv'
  <1>1. ASSUME NEW a \in Audits, Obtain(a) PROVE TurnInv'
    BY <1>1 DEF TurnInv, Obtain, Ready, ruleVars
  <1>2. ASSUME NEW rs \in RuleLists, CheckAudit(rs) PROVE TurnInv'
    BY <1>2 DEF TurnInv, CheckAudit, Ready
  <1>3. CASE RejectRule
    BY <1>3 DEF TurnInv, RejectRule, AtRule, Ready
  <1>4. CASE BeginFunctions
    BY <1>4, AtRuleTurn DEF TurnInv, BeginFunctions, AtRule, Ready, Rule
  <1>5. CASE EndFunctions \/ MissGate \/ Judge
    BY <1>5, AtRuleTurn DEF TurnInv, EndFunctions, MissGate, Judge, NextRule, AtRule, Ready
  <1>6. CASE BeginMatch
    <2>1. turn \in DOMAIN rules /\ Rule \in RuleFile
      BY <1>6, AtRuleTurn, RuleTypes DEF TurnInv, BeginMatch
    <2>2. Len(Rule.sequence) \in Nat
      BY <2>1 DEF RuleFile
    <2>3. Rule' = Rule /\ Gates(Rule)' = Gates(Rule)
      BY <1>6, SameAudit DEF BeginMatch, Rule
    <2>. QED  BY <1>6, <2>1, <2>2, <2>3 DEF TurnInv, BeginMatch, AtRule, Ready
  <1>7. CASE MatchStep
    <2>1. turn \in DOMAIN rules /\ Rule \in RuleFile
      BY <1>7, RuleTypes DEF TurnInv, MatchStep
    <2>2. Len(Rule.sequence) \in Nat
      BY <2>1 DEF RuleFile
    <2>3. Rule' = Rule /\ Gates(Rule)' = Gates(Rule)
      <3>1. audit' = audit /\ Rule' = Rule
        BY <1>7 DEF MatchStep, Rule
      <3>. QED  BY <3>1 DEF Gates, Tags, PathEffects, Effects, Rows
    <2>. QED  BY <1>7, <2>1, <2>2, <2>3 DEF TurnInv, MatchStep, Ready
  <1>8. ASSUME NEW f \in audit.functions, stage = "functions", EvaluateFunction(f)
        PROVE  TurnInv'
    BY <1>8 DEF TurnInv, EvaluateFunction, Ready, Rule
  <1>. QED  BY <1>1, <1>2, <1>3, <1>4, <1>5, <1>6, <1>7, <1>8 DEF CheckNext, CheckStep
-----------------------------------------------------------------------------
(* The chains grow with the matches. *)
LEMMA MatchIsChain == \A rs : IsMatch(Match(rs))
  BY DEF IsMatch, Match

LEMMA ExtendIsMatch ==
  \A c, s, x : /\ IsMatch(Extend(c, s, x))
               /\ Extend(c, s, x).rows = Append(c.rows, x)
               /\ Extend(c, s, x).bindings = Bind(c.bindings, s, x)
  BY DEF IsMatch, Extend, Bind

LEMMA ExtendRows ==
  ASSUME NEW s, NEW m \in Nat, NEW c, c.rows \in Chains(s, m), NEW x \in audit.rows, NEW t
  PROVE  /\ Extend(c, t, x).rows \in [1 .. m + 1 -> audit.rows]
         /\ \A i \in 1 .. m : Extend(c, t, x).rows[i] = c.rows[i]
         /\ Extend(c, t, x).rows[m + 1] = x
  <1>. DEFINE w == c.rows
              R == audit.rows
  <1>1. w \in [1 .. m -> R]
    BY DEF Chains
  <1>2. Extend(c, t, x).rows = Append(w, x)
    BY ExtendIsMatch
  <1>3. x \in R
    OBVIOUS
  <1>. HIDE DEF w, R
  <1>4. /\ Append(w, x) \in [1 .. m + 1 -> R]
        /\ \A i \in 1 .. m : Append(w, x)[i] = w[i]
        /\ Append(w, x)[m + 1] = x
    BY <1>1, <1>3, AppendRow
  <1>. QED  BY <1>2, <1>4 DEF w, R

LEMMA BeginChains ==
  ASSUME TurnInv, BeginMatch
  PROVE  ChainInv'
  <1>1. \A c \in contexts' : IsMatch(c)
    BY MatchIsChain DEF BeginMatch, PredicateMatches
  <1>2. ASSUME Rule.sequence # <<>>
        PROVE  /\ contexts' = {Match(<<>>)} /\ matched' = 0
               /\ Match(<<>>).rows = <<>> /\ \A n \in Names : Match(<<>>).bindings[n] = Null
    BY <1>2 DEF BeginMatch, Match, TurnInv, AtRule, Ready
  <1>3. Chains(Rule.sequence, 0) = {<<>>}
    <2>1. [1 .. 0 -> audit.rows] = {<<>>}
      <3>1. \A w \in [1 .. 0 -> audit.rows] : w \in Seq(audit.rows) /\ Len(w) = 0
        OBVIOUS
      <3>2. \A w \in Seq(audit.rows) : Len(w) = 0 => w = <<>>
        OBVIOUS
      <3>3. <<>> \in [1 .. 0 -> audit.rows]
        OBVIOUS
      <3>. QED  BY <3>1, <3>2, <3>3
    <2>. QED  BY <2>1 DEF Chains
  <1>4. \A n : StandsFor(Rule.sequence, <<>>, 1, n, Null)
    BY DEF StandsFor
  <1>5. Rule' = Rule /\ Chains(Rule.sequence, 0)' = Chains(Rule.sequence, 0)
    BY SameAudit DEF BeginMatch, Rule
  <1>6. CASE Rule.sequence = <<>>
    BY <1>1, <1>5, <1>6 DEF ChainInv
  <1>7. CASE Rule.sequence # <<>>
    <2>1. {c.rows : c \in contexts'} = Chains(Rule.sequence, matched)'
      BY <1>2, <1>3, <1>5, <1>7
    <2>2. \A c \in contexts' : \A n \in Names :
              StandsFor(Rule'.sequence, c.rows, matched' + 1, n, c.bindings[n])
      BY <1>2, <1>4, <1>5, <1>7
    <2>. QED  BY <1>1, <1>5, <2>1, <2>2 DEF ChainInv
  <1>. QED  BY <1>6, <1>7

LEMMA GrowChains ==
  ASSUME TurnInv, ChainInv, MatchStep
  PROVE  ChainInv'
  <1>. DEFINE s == Rule.sequence
              m == matched
              R == audit.rows
  <1>1. /\ m \in Nat /\ m < Len(s) /\ s \in Seq(Step) /\ s # <<>> /\ matched' = m + 1
        /\ audit' = audit /\ Rule' = Rule /\ stage = "match"
    <2>1. Rule \in RuleFile
      BY RuleTypes DEF TurnInv, MatchStep
    <2>2. s \in Seq(Step)
      BY <2>1 DEF RuleFile
    <2>3. s # <<>>
      BY <2>2 DEF MatchStep, TurnInv
    <2>. QED  BY <2>2, <2>3 DEF MatchStep, TurnInv, Rule
  <1>2. /\ {c.rows : c \in contexts} = Chains(s, m)
        /\ \A c \in contexts : \A n \in Names : StandsFor(s, c.rows, m + 1, n, c.bindings[n])
    BY <1>1 DEF ChainInv
  <1>3. contexts' = UNION {Extensions(c, s[m + 1]) : c \in contexts}
    BY <1>1 DEF MatchStep
  <1>. HIDE DEF s, m, R
  (* An extension of a context is a chain, with what its rows bind. *)
  <1>4. ASSUME NEW c \in contexts, NEW y \in Extensions(c, s[m + 1])
        PROVE  /\ y.rows \in Chains(s, m + 1)
               /\ \A n \in Names : StandsFor(s, y.rows, m + 2, n, y.bindings[n])
    <2>1. PICK x \in Rows(s[m + 1].kind) :
            Meets(s[m + 1], c.bindings, x) /\ y = Extend(c, s[m + 1], x)
      BY DEF Extensions
    <2>2. x \in R /\ x.kind = s[m + 1].kind
      BY DEF Rows, R
    <2>3. c.rows \in Chains(s, m)
      BY <1>2
    <2>5. y.rows = Append(c.rows, x) /\ y.bindings = Bind(c.bindings, s[m + 1], x)
      BY <2>1, ExtendIsMatch
    <2>6. /\ y.rows \in [1 .. m + 1 -> R]
          /\ \A i \in 1 .. m : y.rows[i] = c.rows[i]
          /\ y.rows[m + 1] = x
      <3>1. m \in Nat
        BY <1>1
      <3>. QED  BY <2>1, <2>2, <2>3, <3>1, ExtendRows DEF R
    <2>7. \A i \in 1 .. m + 1 : \A n, v :
              StandsFor(s, y.rows, i, n, v) <=> StandsFor(s, c.rows, i, n, v)
      BY <1>1, <2>6, StandsForPrefix
    <2>8. ASSUME NEW i \in 1 .. m + 1
          PROVE  /\ y.rows[i].kind = s[i].kind
                 /\ s[i].mark \in y.rows[i].fits
                 /\ s[i].join \in Names => StandsFor(s, y.rows, i, s[i].join, y.rows[i].key)
      <3>1. CASE i \in 1 .. m
        BY <3>1, <2>3, <2>6, <2>7 DEF Chains
      <3>2. CASE i = m + 1
        BY <3>2, <1>2, <2>1, <2>2, <2>6, <2>7 DEF Meets
      <3>. QED  BY <1>1, <3>1, <3>2
    <2>9. y.rows \in Chains(s, m + 1)
      BY <2>6, <2>8 DEF Chains, R
    <2>10. ASSUME NEW n \in Names
           PROVE  StandsFor(s, y.rows, m + 2, n, y.bindings[n])
      <3>1. Binds(s[m + 1], y.rows[m + 1], n)
                => y.bindings[n] = y.rows[m + 1].holds[s[m + 1].bind[n]]
        BY <2>5, <2>6 DEF Bind
      <3>2. ~Binds(s[m + 1], y.rows[m + 1], n) => y.bindings[n] = c.bindings[n]
        BY <2>5, <2>6 DEF Bind
      <3>3. StandsFor(s, y.rows, m + 1, n, c.bindings[n])
        <4>1. m + 1 \in 1 .. m + 1
          BY <1>1
        <4>2. StandsFor(s, c.rows, m + 1, n, c.bindings[n])
          BY <1>2
        <4>. QED  BY <2>7, <4>1, <4>2
      <3>. QED  BY <1>1, <3>1, <3>2, <3>3, StandsForStep
    <2>. QED  BY <2>9, <2>10
  (* A longer chain is an extension of the context of its prefix. *)
  <1>5. ASSUME NEW w \in Chains(s, m + 1)
        PROVE  \E y \in contexts' : y.rows = w
    <2>. DEFINE u == [i \in 1 .. m |-> w[i]]
    <2>1. w \in [1 .. m + 1 -> R]
      BY DEF Chains, R
    <2>2. u \in [1 .. m -> R] /\ w[m + 1] \in R /\ Append(u, w[m + 1]) = w
      BY <1>1, <2>1, SplitRows
    <2>3. \A i \in 1 .. m : u[i] = w[i]
      OBVIOUS
    <2>. HIDE DEF u
    <2>4. \A i \in 1 .. m + 1 : \A n, v : StandsFor(s, w, i, n, v) <=> StandsFor(s, u, i, n, v)
      BY <1>1, <2>3, StandsForPrefix
    <2>5. \A i \in 1 .. m + 1 :
            /\ w[i].kind = s[i].kind
            /\ s[i].mark \in w[i].fits
            /\ s[i].join \in Names => StandsFor(s, w, i, s[i].join, w[i].key)
      BY DEF Chains
    <2>6. u \in Chains(s, m)
      <3>1. \A i \in 1 .. m : i \in 1 .. m + 1
        BY <1>1
      <3>. QED  BY <2>2, <2>3, <2>4, <2>5, <3>1 DEF Chains, R
    <2>7. PICK c \in contexts : c.rows = u
      BY <1>2, <2>6
    <2>8. w[m + 1] \in Rows(s[m + 1].kind)
      BY <1>1, <2>2, <2>5 DEF Rows, R
    <2>9. Meets(s[m + 1], c.bindings, w[m + 1])
      <3>1. ASSUME s[m + 1].join \in Names
            PROVE  w[m + 1].key = c.bindings[s[m + 1].join]
        <4>1. StandsFor(s, u, m + 1, s[m + 1].join, w[m + 1].key)
          BY <1>1, <2>4, <2>5, <3>1
        <4>2. StandsFor(s, u, m + 1, s[m + 1].join, c.bindings[s[m + 1].join])
          BY <1>2, <2>7, <3>1
        <4>. QED  BY <1>1, <4>1, <4>2, StandsForUnique
      <3>. QED  BY <1>1, <2>5, <3>1 DEF Meets
    <2>10. Extend(c, s[m + 1], w[m + 1]) \in Extensions(c, s[m + 1])
      BY <2>8, <2>9 DEF Extensions
    <2>11. Extend(c, s[m + 1], w[m + 1]).rows = w
      BY <2>2, <2>7, ExtendIsMatch
    <2>. QED  BY <1>3, <2>10, <2>11
  <1>6. \A y \in contexts' : IsMatch(y)
    BY <1>3, ExtendIsMatch DEF Extensions
  <1>7. {y.rows : y \in contexts'} = Chains(s, m + 1)
    BY <1>3, <1>4, <1>5
  <1>8. \A y \in contexts' : \A n \in Names : StandsFor(s, y.rows, m + 2, n, y.bindings[n])
    BY <1>3, <1>4
  <1>9. /\ Rule'.sequence = s /\ matched' + 1 = m + 2
        /\ Chains(Rule.sequence, matched)' = Chains(s, m + 1)
    BY <1>1 DEF s, m, Chains
  <1>. QED  BY <1>6, <1>7, <1>8, <1>9 DEF ChainInv

LEMMA StepChains ==
  ASSUME TurnInv, ChainInv, CheckNext
  PROVE  ChainInv'
  <1>1. ASSUME NEW a \in Audits, Obtain(a) PROVE ChainInv'
    BY <1>1 DEF TurnInv, ChainInv, Obtain, ruleVars
  <1>2. ASSUME NEW rs \in RuleLists, CheckAudit(rs) PROVE ChainInv'
    BY <1>2 DEF ChainInv, CheckAudit
  <1>3. CASE RejectRule \/ BeginFunctions \/ EndFunctions \/ MissGate \/ Judge
    BY <1>3 DEF ChainInv, RejectRule, BeginFunctions, EndFunctions, MissGate, Judge, NextRule
  <1>4. CASE BeginMatch
    BY <1>4, BeginChains
  <1>5. CASE MatchStep
    BY <1>5, GrowChains
  <1>6. ASSUME NEW f \in audit.functions, stage = "functions", EvaluateFunction(f)
        PROVE  ChainInv'
    BY <1>6 DEF ChainInv, EvaluateFunction
  <1>. QED  BY <1>1, <1>2, <1>3, <1>4, <1>5, <1>6 DEF CheckNext, CheckStep
-----------------------------------------------------------------------------
(* What a rule adds to the findings. *)
LEMMA UnguardedIff ==
  ASSUME NEW r, NEW c, NEW catalog
  PROVE  "suppress" \notin SequenceHit(r, c, catalog)
             <=> r.counter["suppress"] \cap (catalog \cup Guards(c)) = {}
  <1>1. "suppress" \in Classes /\ "suppress" # "review"
    BY DEF Classes
  <1>. QED  BY <1>1 DEF SequenceHit, Hit

LEMMA FunctionFindingRule ==
  \A r, f : \A g \in FunctionFinding(r, f) : g.rule = r
  BY DEF FunctionFinding, Finding

LEMMA SequenceFindingRule ==
  \A r, cs, catalog, coverage :
      /\ \A g \in SequenceFinding(r, cs, catalog, coverage) : g.rule = r
      /\ SequenceFinding(r, cs, catalog, coverage) # {}
             <=> \E c \in cs : "suppress" \notin SequenceHit(r, c, catalog)
  <1>. TAKE r, cs, catalog, coverage
  <1>1. \A g \in SequenceFinding(r, cs, catalog, coverage) : g.rule = r
    <2>1. \A hit : Finding(r, coverage, hit, r.witness, "contract").rule = r
      BY DEF Finding
    <2>. QED  BY <2>1, Zenon DEF SequenceFinding
  <1>2. SequenceFinding(r, cs, catalog, coverage) # {} <=> Unguarded(r, cs, catalog) # {}
    BY Zenon DEF SequenceFinding
  <1>. QED  BY <1>1, <1>2 DEF Unguarded

(* A match that is judged: the rule is reported if the contract is exposed. *)
LEMMA JudgedIffExposed ==
  ASSUME TurnInv, ChainInv, stage = "match", matched = Len(Rule.sequence),
         Rule.sequence # <<>>
  PROVE  SequenceFinding(Rule, contexts, audit.catalog, audit.coverage) # {}
             <=> Exposed(Rule)
  <1>. DEFINE s == Rule.sequence
              safe(w) == Rule.counter["suppress"] \cap
                             (audit.catalog \cup UNION {w[i].guards : i \in DOMAIN w}) = {}
  <1>1. SequenceFinding(Rule, contexts, audit.catalog, audit.coverage) # {}
            <=> \E c \in contexts : safe(c.rows)
    BY SequenceFindingRule, UnguardedIff DEF Guards
  <1>2. {c.rows : c \in contexts} = Chains(s, Len(s))
    BY DEF ChainInv
  <1>3. Exposed(Rule) <=> \E w \in Chains(s, Len(s)) : safe(w)
    BY DEF TurnInv, Exposed
  <1>. HIDE DEF s, safe
  <1>. QED  BY <1>1, <1>2, <1>3

LEMMA NextRuleReport ==
  ASSUME TurnInv, ReportInv, stage \in Checking, turn \in DOMAIN rules, NextRule,
         NEW found, findings' = findings \cup found,
         \A f \in found : f.rule = Rule,
         Stateful(Rule) /\ Rule.sequence # <<>> => (found # {} <=> Exposed(Rule))
  PROVE  ReportInv'
  <1>1. audit' = audit /\ rules' = rules /\ turn' = turn + 1 /\ turn \in Nat \ {0}
    BY DEF NextRule, TurnInv
  <1>2. \A r : Exposed(r)' <=> Exposed(r)
    BY <1>1, SameAudit
  <1>3. ASSUME NEW f \in findings', Stateful(f.rule), f.rule.sequence # <<>>
        PROVE  Exposed(f.rule)'
    BY <1>2, <1>3 DEF ReportInv
  <1>4. ASSUME NEW i \in 1 .. turn, Stateful(rules[i]), rules[i].sequence # <<>>,
               Exposed(rules[i])
        PROVE  \E f \in findings' : f.rule = rules[i]
    <2>1. CASE i = turn
      BY <1>4, <2>1 DEF Rule
    <2>2. CASE i \in 1 .. turn - 1
      BY <1>4, <2>2 DEF ReportInv
    <2>. QED  BY <1>1, <2>1, <2>2
  <1>5. 1 .. turn' - 1 = 1 .. turn
    BY <1>1
  <1>. QED  BY <1>1, <1>2, <1>3, <1>4, <1>5 DEF ReportInv, Stateful

LEMMA StepReport ==
  ASSUME EngineInv, CheckNext
  PROVE  ReportInv'
  <1>. USE DEF EngineInv
  <1>1. ASSUME NEW a \in Audits, Obtain(a) PROVE ReportInv'
    BY <1>1 DEF TurnInv, ReportInv, Obtain, ruleVars, Checking
  <1>2. ASSUME NEW rs \in RuleLists, CheckAudit(rs) PROVE ReportInv'
    BY <1>2 DEF TurnInv, ReportInv, CheckAudit
  <1>3. CASE RejectRule
    BY <1>3 DEF ReportInv, RejectRule, Checking
  <1>4. CASE BeginFunctions \/ BeginMatch \/ MatchStep
    <2>1. audit' = audit /\ UNCHANGED <<rules, turn, findings>> /\ stage \in Checking
      BY <1>4 DEF BeginFunctions, BeginMatch, MatchStep, AtRule, Checking
    <2>. QED  BY <2>1, SameAudit DEF ReportInv
  <1>5. CASE EndFunctions \/ MissGate
    <2>1. turn \in DOMAIN rules /\ stage \in Checking /\ NextRule /\ findings' = findings \cup {}
      BY <1>5, AtRuleTurn DEF EndFunctions, MissGate, TurnInv, AtRule, Checking
    <2>2. Stateful(Rule) /\ Rule.sequence # <<>> => ({} # {} <=> Exposed(Rule))
      BY <1>5 DEF EndFunctions, MissGate, TurnInv, Exposed
    <2>. QED  BY <2>1, <2>2, NextRuleReport
  <1>6. CASE Judge
    <2>. DEFINE found == SequenceFinding(Rule, contexts, audit.catalog, audit.coverage)
    <2>1. turn \in DOMAIN rules /\ stage \in Checking /\ NextRule
      BY <1>6 DEF Judge, TurnInv, Checking
    <2>2. findings' = findings \cup found /\ \A f \in found : f.rule = Rule
      BY <1>6, SequenceFindingRule DEF Judge
    <2>3. Rule.sequence # <<>> => (found # {} <=> Exposed(Rule))
      BY <1>6, JudgedIffExposed DEF Judge
    <2>. HIDE DEF found
    <2>. QED  BY <2>1, <2>2, <2>3, NextRuleReport
  <1>7. ASSUME NEW f \in audit.functions, stage = "functions", EvaluateFunction(f)
        PROVE  ReportInv'
    <2>1. /\ audit' = audit /\ UNCHANGED <<rules, turn>>
          /\ findings' = findings \cup FunctionFinding(Rule, f)
          /\ ~Stateful(Rule) /\ stage \in Checking
      BY <1>7 DEF EvaluateFunction, TurnInv, Checking
    <2>2. \A g \in FunctionFinding(Rule, f) : ~Stateful(g.rule)
      BY <2>1, FunctionFindingRule
    <2>. QED  BY <2>1, <2>2, SameAudit DEF ReportInv
  <1>. QED  BY <1>1, <1>2, <1>3, <1>4, <1>5, <1>6, <1>7 DEF CheckNext, CheckStep

LEMMA StepEngine == EngineInv /\ [CheckNext]_checkVars => EngineInv'
  <1>1. ASSUME EngineInv, CheckNext PROVE EngineInv'
    BY <1>1, StepTurn, StepChains, StepReport DEF EngineInv
  <1>2. ASSUME EngineInv, UNCHANGED checkVars PROVE EngineInv'
    <2>1. /\ audit' = audit
          /\ UNCHANGED <<rules, turn, stage, asked, matched, contexts, findings>>
      BY <1>2 DEF checkVars, ruleVars
    <2>2. Rule' = Rule /\ (Gates(Rule)' <=> Gates(Rule))
      BY <2>1 DEF Rule, Gates, Tags, PathEffects, Effects, Rows
    <2>3. \A s, n : Chains(s, n)' = Chains(s, n)
      BY <2>1, SameAudit
    <2>4. TurnInv'
      BY <1>2, <2>1, <2>2 DEF EngineInv, TurnInv, Ready
    <2>5. ChainInv'
      BY <1>2, <2>1 DEF EngineInv, ChainInv, Chains, Rule
    <2>6. ReportInv'
      BY <1>2, <2>1, SameAudit DEF EngineInv, ReportInv, Checking
    <2>. QED  BY <2>4, <2>5, <2>6 DEF EngineInv
  <1>. QED  BY <1>1, <1>2

THEOREM EngineKeeps == CheckSpec => []EngineInv
  <1>1. CheckInit => EngineInv
    BY InitEngine
  <1>2. EngineInv /\ [CheckNext]_checkVars => EngineInv'
    BY StepEngine
  <1>. QED  BY <1>1, <1>2, PTL DEF CheckSpec

LEMMA InvChains == EngineInv => MatchesAreChains
  BY DEF EngineInv, ChainInv, MatchesAreChains

(* Whatever the audits, the rules and their order, what is matched are     *)
(* exactly the chains.                                                     *)
THEOREM MatchedChains == CheckSpec => []MatchesAreChains
  BY InvChains, EngineKeeps, PTL

LEMMA InvReports ==
  ASSUME EngineInv
  PROVE  ReportedIffExposed
  <1>. SUFFICES ASSUME stage \in {"rule", "match", "functions"}, NEW i \in 1 .. turn - 1,
                       Stateful(rules[i]), rules[i].sequence # <<>>
                PROVE  (\E f \in findings : f.rule = rules[i]) <=> Exposed(rules[i])
    BY DEF ReportedIffExposed
  <1>1. stage \in Checking
    BY DEF Checking
  <1>. QED  BY <1>1 DEF EngineInv, ReportInv

(* A rule with a sequence is reported if and only if the contract is       *)
(* exposed to it.                                                          *)
THEOREM ReportsTheExposed == CheckSpec => []ReportedIffExposed
  BY InvReports, EngineKeeps, PTL
-----------------------------------------------------------------------------
(* The report as a whole.  What one rule is to say of an audit, without    *)
(* the engine's registers: of every function that matches, or of the       *)
(* chains of its sequence, or of what meets its predicates.                *)
MatchesOf(r) ==
    IF r.sequence = <<>> THEN PredicateMatches(r)
                         ELSE {Match(w) : w \in Chains(r.sequence, Len(r.sequence))}

Verdict(r) ==
    IF ~Stateful(r) THEN UNION {FunctionFinding(r, f) : f \in audit.functions}
    ELSE IF Gates(r) THEN SequenceFinding(r, MatchesOf(r), audit.catalog, audit.coverage)
    ELSE {}

(* The report is the sum of what its rules say.  So it is the same in      *)
(* whatever order rules are loaded and functions are asked, and no rule    *)
(* adds to, takes from or sees what another found; but one that is not     *)
(* valid, wherever it stands, leaves no report.                            *)
ReportIsSumOfRules ==
    /\ stage = "rule" /\ turn > Len(rules) =>
           /\ \A i \in DOMAIN rules : ValidRule(rules[i])
           /\ findings = UNION {Verdict(rules[i]) : i \in DOMAIN rules}
    /\ stage = "error" =>
           /\ \E i \in DOMAIN rules : ~ValidRule(rules[i])
           /\ findings = {}

(* What is reported so far. *)
Answered ==
    IF stage = "functions" THEN UNION {FunctionFinding(Rule, f) : f \in audit.functions \ asked}
                           ELSE {}

SumInv ==
    /\ stage \in Checking =>
           /\ \A i \in 1 .. turn - 1 : ValidRule(rules[i])
           /\ findings = (UNION {Verdict(rules[i]) : i \in 1 .. turn - 1}) \cup Answered
    /\ stage = "rule" => turn <= Len(rules) + 1
    /\ stage \in {"functions", "match"} => ValidRule(Rule)
    /\ stage = "functions" => asked \subseteq audit.functions
    /\ stage = "match" /\ Rule.sequence = <<>> => contexts = PredicateMatches(Rule)
    /\ stage = "error" => findings = {} /\ \E i \in DOMAIN rules : ~ValidRule(rules[i])

LEMMA RuleCount ==
  ASSUME rules \in RuleLists \cup {<<>>}
  PROVE  Len(rules) \in Nat /\ DOMAIN rules = 1 .. Len(rules)
  <1>1. rules \in Seq(RuleFile)
    <2>1. RuleLists \subseteq Seq(RuleFile)
      BY EngineAssumption
    <2>2. <<>> \in Seq(RuleFile)
      OBVIOUS
    <2>. QED  BY <2>1, <2>2
  <1>. QED  BY <1>1

(* Findings depend on the rows of the matches alone. *)
LEMMA SequenceFindingRows ==
  ASSUME NEW r, NEW cs, NEW ds, NEW catalog, NEW coverage,
         \A c \in cs : \E d \in ds : c.rows = d.rows,
         \A d \in ds : \E c \in cs : c.rows = d.rows
  PROVE  SequenceFinding(r, cs, catalog, coverage) = SequenceFinding(r, ds, catalog, coverage)
  <1>. DEFINE hit(c) == SequenceHit(r, c, catalog)
              all(es) == UNION {hit(e) : e \in es}
              made(es) == Finding(r, coverage, all(es), r.witness, "contract")
  <1>1. \A c, d : c.rows = d.rows => hit(c) = hit(d)
    BY DEF SequenceHit, Guards
  <1>2. \A c \in cs : \E d \in ds : hit(c) = hit(d)
    BY <1>1
  <1>3. \A d \in ds : \E c \in cs : hit(c) = hit(d)
    BY <1>1
  <1>4. all(cs) = all(ds)
    <2>. HIDE DEF hit
    <2>. QED  BY <1>2, <1>3
  <1>5. Unguarded(r, cs, catalog) = {} <=> Unguarded(r, ds, catalog) = {}
    BY <1>2, <1>3 DEF Unguarded
  <1>6. made(cs) = made(ds)
    BY <1>4
  <1>7. /\ SequenceFinding(r, cs, catalog, coverage) = {made(cs) : c \in Unguarded(r, cs, catalog)}
        /\ SequenceFinding(r, ds, catalog, coverage) = {made(ds) : c \in Unguarded(r, ds, catalog)}
    BY DEF SequenceFinding
  <1>. HIDE DEF made
  <1>. QED  BY <1>5, <1>6, <1>7

LEMMA SameVerdict ==
  ASSUME audit' = audit
  PROVE  \A r : Verdict(r)' = Verdict(r)
  <1>1. /\ \A r : Gates(r)' = Gates(r)
        /\ \A r : Chains(r.sequence, Len(r.sequence))' = Chains(r.sequence, Len(r.sequence))
    BY DEF Gates, Tags, PathEffects, Effects, Rows, Chains
  <1>2. \A r : PredicateMatches(r)' = PredicateMatches(r)
    BY DEF PredicateMatches, FittingSlots, FittingCalls, SlotEffects, Effects, Rows
  <1>3. \A r, f : FunctionFinding(r, f)' = FunctionFinding(r, f)
    BY DEF FunctionFinding, MatchesFunction, FunctionTags
  <1>4. \A r : MatchesOf(r)' = MatchesOf(r)
    BY <1>1, <1>2 DEF MatchesOf
  <1>. QED  BY <1>1, <1>3, <1>4 DEF Verdict, Stateful

LEMMA SameValid == \A r : ValidRule(r)' = ValidRule(r)
  BY DEF ValidRule, ValidSequence

LEMMA InitSum == CheckInit => SumInv
  BY DEF CheckInit, SumInv, Checking

(* A rule that has been evaluated adds its verdict. *)
LEMMA NextRuleSum ==
  ASSUME TurnInv, SumInv, stage \in Checking, turn \in DOMAIN rules, NextRule, ValidRule(Rule),
         findings' = (UNION {Verdict(rules[i]) : i \in 1 .. turn - 1}) \cup Verdict(Rule)
  PROVE  SumInv'
  <1>1. audit' = audit /\ rules' = rules /\ turn' = turn + 1 /\ turn \in Nat \ {0} /\ stage' = "rule"
    BY DEF NextRule, TurnInv
  <1>0. turn <= Len(rules)
    BY RuleCount DEF TurnInv
  <1>2. 1 .. turn' - 1 = (1 .. turn - 1) \cup {turn}
    BY <1>1
  <1>3. \A r : Verdict(r)' = Verdict(r)
    BY <1>1, SameVerdict
  <1>4. findings' = UNION {Verdict(rules[i]) : i \in (1 .. turn - 1) \cup {turn}}
    BY DEF Rule
  <1>5. findings' = ((UNION {Verdict(rules[i]) : i \in 1 .. turn - 1}) \cup Answered)'
    BY <1>1, <1>2, <1>3, <1>4 DEF Answered
  <1>6. \A i \in 1 .. turn' - 1 : ValidRule(rules'[i])
    BY <1>1, <1>2 DEF SumInv, Rule
  <1>. QED  BY <1>0, <1>1, <1>5, <1>6 DEF SumInv

LEMMA StepSum ==
  ASSUME TurnInv, ChainInv, SumInv, CheckNext
  PROVE  SumInv'
  <1>1. ASSUME NEW a \in Audits, Obtain(a) PROVE SumInv'
    BY <1>1 DEF TurnInv, SumInv, Obtain, ruleVars, Checking
  <1>2. ASSUME NEW rs \in RuleLists, CheckAudit(rs) PROVE SumInv'
    <2>1. findings' = {} /\ turn' = 1 /\ stage' = "rule"
      BY <1>2 DEF CheckAudit, TurnInv
    <2>2. rules' \in RuleLists \cup {<<>>}
      BY <1>2 DEF CheckAudit
    <2>3. Len(rules') \in Nat
      BY <2>2, EngineAssumption
    <2>. QED  BY <2>1, <2>3 DEF SumInv, Answered
  <1>3. CASE RejectRule
    BY <1>3, AtRuleTurn DEF RejectRule, SumInv, Checking, Rule
  <1>4. CASE BeginFunctions \/ BeginMatch \/ MatchStep
    <2>1. /\ audit' = audit /\ UNCHANGED <<rules, turn, findings>> /\ stage \in Checking
          /\ stage' \in Checking /\ Rule' = Rule /\ ValidRule(Rule) /\ stage # "functions"
      BY <1>4 DEF BeginFunctions, BeginMatch, MatchStep, AtRule, Checking, Rule, SumInv
    <2>2. \A r : Verdict(r)' = Verdict(r)
      BY <2>1, SameVerdict
    <2>3. Answered = {} /\ Answered' = {}
      BY <1>4, <2>1 DEF Answered, BeginFunctions, BeginMatch, MatchStep
    <2>4. findings' = ((UNION {Verdict(rules[i]) : i \in 1 .. turn - 1}) \cup Answered)'
      BY <2>1, <2>2, <2>3 DEF SumInv
    <2>5. stage' = "functions" => asked' \subseteq audit'.functions
      BY <1>4 DEF BeginFunctions, BeginMatch, MatchStep
    <2>6. stage' = "match" /\ Rule'.sequence = <<>> => contexts' = PredicateMatches(Rule)'
      <3>1. PredicateMatches(Rule)' = PredicateMatches(Rule)
        BY <2>1 DEF PredicateMatches, FittingSlots, FittingCalls, SlotEffects, Effects, Rows
      <3>2. ~ (MatchStep /\ Rule.sequence = <<>>)
        BY DEF MatchStep, TurnInv
      <3>. QED  BY <1>4, <2>1, <3>1, <3>2 DEF BeginFunctions, BeginMatch
    <2>7. \A i \in 1 .. turn' - 1 : ValidRule(rules[i])'
      BY <2>1, SameValid DEF SumInv
    <2>8. ValidRule(Rule)'
      BY <2>1, SameValid
    <2>9. stage' \notin {"rule", "error"}
      BY <1>4 DEF BeginFunctions, BeginMatch, MatchStep
    <2>. QED  BY <2>1, <2>4, <2>5, <2>6, <2>7, <2>8, <2>9 DEF SumInv
  <1>5. CASE EndFunctions
    <2>1. /\ turn \in DOMAIN rules /\ stage \in Checking /\ NextRule /\ findings' = findings
          /\ ~Stateful(Rule) /\ asked = {} /\ stage = "functions" /\ ValidRule(Rule)
      BY <1>5 DEF EndFunctions, TurnInv, Checking, SumInv
    <2>2. Answered = Verdict(Rule)
      BY <2>1 DEF Answered, Verdict
    <2>. QED  BY <2>1, <2>2, NextRuleSum DEF SumInv
  <1>6. CASE MissGate
    <2>1. /\ turn \in DOMAIN rules /\ stage \in Checking /\ NextRule /\ findings' = findings
          /\ Stateful(Rule) /\ ~Gates(Rule) /\ stage = "rule" /\ ValidRule(Rule)
      BY <1>6, AtRuleTurn DEF MissGate, AtRule, Checking
    <2>2. Answered = {} /\ Verdict(Rule) = {}
      BY <2>1 DEF Answered, Verdict
    <2>. QED  BY <2>1, <2>2, NextRuleSum DEF SumInv
  <1>7. CASE Judge
    <2>. DEFINE found == SequenceFinding(Rule, contexts, audit.catalog, audit.coverage)
    <2>1. /\ turn \in DOMAIN rules /\ stage \in Checking /\ NextRule /\ stage = "match"
          /\ findings' = findings \cup found /\ Stateful(Rule) /\ Gates(Rule) /\ ValidRule(Rule)
          /\ matched = Len(Rule.sequence)
      BY <1>7 DEF Judge, TurnInv, Checking, SumInv
    <2>2. {c.rows : c \in contexts} = {c.rows : c \in MatchesOf(Rule)}
      <3>1. CASE Rule.sequence = <<>>
        BY <2>1, <3>1 DEF SumInv, MatchesOf
      <3>2. CASE Rule.sequence # <<>>
        <4>1. {c.rows : c \in contexts} = Chains(Rule.sequence, Len(Rule.sequence))
          BY <2>1, <3>2 DEF ChainInv
        <4>2. \A w : Match(w).rows = w
          BY DEF Match
        <4>. QED  BY <3>2, <4>1, <4>2 DEF MatchesOf
      <3>. QED  BY <3>1, <3>2
    <2>3. SequenceFinding(Rule, MatchesOf(Rule), audit.catalog, audit.coverage) = found
      <3>. DEFINE ds == MatchesOf(Rule)
      <3>. HIDE DEF ds
      <3>1. /\ \A c \in contexts : \E d \in ds : c.rows = d.rows
            /\ \A d \in ds : \E c \in contexts : c.rows = d.rows
        BY <2>2 DEF ds
      <3>2. SequenceFinding(Rule, ds, audit.catalog, audit.coverage) = found
        BY <3>1, SequenceFindingRows
      <3>. QED  BY <3>2 DEF ds
    <2>. HIDE DEF found
    <2>4. Answered = {} /\ Verdict(Rule) = found
      BY <2>1, <2>3 DEF Answered, Verdict
    <2>. QED  BY <2>1, <2>4, NextRuleSum DEF SumInv
  <1>8. ASSUME NEW f \in audit.functions, stage = "functions", EvaluateFunction(f)
        PROVE  SumInv'
    <2>1. /\ audit' = audit /\ UNCHANGED <<rules, turn, stage>> /\ Rule' = Rule
          /\ findings' = findings \cup FunctionFinding(Rule, f)
          /\ asked' = asked \ {f} /\ stage \in Checking
      BY <1>8 DEF EvaluateFunction, Checking, Rule
    <2>2. \A r : Verdict(r)' = Verdict(r)
      BY <2>1, SameVerdict
    <2>3. \A g : FunctionFinding(Rule, g)' = FunctionFinding(Rule, g)
      BY <2>1 DEF FunctionFinding, MatchesFunction, FunctionTags
    <2>4. audit.functions \ asked' = (audit.functions \ asked) \cup {f}
      BY <2>1
    <2>5. Answered' = Answered \cup FunctionFinding(Rule, f)
      BY <1>8, <2>1, <2>3, <2>4 DEF Answered
    <2>6. findings' = ((UNION {Verdict(rules[i]) : i \in 1 .. turn - 1}) \cup Answered)'
      BY <2>1, <2>2, <2>5 DEF SumInv
    <2>. QED  BY <1>8, <2>1, <2>6 DEF SumInv, ValidRule, ValidSequence
  <1>. QED  BY <1>1, <1>2, <1>3, <1>4, <1>5, <1>6, <1>7, <1>8 DEF CheckNext, CheckStep

(* For any audit and any list of rules the report is the union of what     *)
(* each rule has to say on its own (CheckAudit, Run).                      *)
THEOREM ReportsAddUp == CheckSpec => []ReportIsSumOfRules
  <1>1. CheckInit => EngineInv /\ SumInv
    BY InitEngine, InitSum
  <1>2. EngineInv /\ SumInv /\ [CheckNext]_checkVars => EngineInv' /\ SumInv'
    <2>1. EngineInv /\ SumInv /\ CheckNext => SumInv'
      BY StepSum DEF EngineInv
    <2>2. SumInv /\ UNCHANGED checkVars => SumInv'
      <3>. SUFFICES ASSUME SumInv, UNCHANGED checkVars PROVE SumInv'
        OBVIOUS
      <3>1. /\ audit' = audit /\ Rule' = Rule
            /\ UNCHANGED <<rules, turn, stage, asked, matched, contexts, findings>>
        BY DEF checkVars, ruleVars, Rule
      <3>2. \A r : Verdict(r)' = Verdict(r)
        BY <3>1, SameVerdict
      <3>3. \A g : FunctionFinding(Rule, g)' = FunctionFinding(Rule, g)
        BY <3>1 DEF FunctionFinding, MatchesFunction, FunctionTags
      <3>4. PredicateMatches(Rule)' = PredicateMatches(Rule)
        BY <3>1 DEF PredicateMatches, FittingSlots, FittingCalls, SlotEffects, Effects, Rows
      <3>5. Answered' = Answered
        <4>1. asked' = asked /\ stage' = stage
          BY <3>1
        <4>. QED  BY <3>1, <3>3, <4>1 DEF Answered
      <3>6. findings' = ((UNION {Verdict(rules[i]) : i \in 1 .. turn - 1}) \cup Answered)'
                <=> findings = (UNION {Verdict(rules[i]) : i \in 1 .. turn - 1}) \cup Answered
        BY <3>1, <3>2, <3>5
      <3>. QED  BY <3>1, <3>4, <3>6, SameValid DEF SumInv, Checking
    <2>. QED  BY <2>1, <2>2, StepEngine
  <1>3. EngineInv /\ SumInv => ReportIsSumOfRules
    <2>. SUFFICES ASSUME EngineInv, SumInv, stage = "rule", turn > Len(rules)
                  PROVE  /\ \A i \in DOMAIN rules : ValidRule(rules[i])
                         /\ findings = UNION {Verdict(rules[i]) : i \in DOMAIN rules}
      BY DEF SumInv, ReportIsSumOfRules
    <2>1. 1 .. turn - 1 = DOMAIN rules
      BY RuleCount DEF EngineInv, TurnInv, SumInv
    <2>. QED  BY <2>1 DEF SumInv, Answered, Checking
  <1>. QED  BY <1>1, <1>2, <1>3, PTL DEF CheckSpec
-----------------------------------------------------------------------------
(* More evidence, or less coverage, gives no stronger status or severity.  *)
LEMMA StatusNeverRises ==
  ASSUME NEW r, NEW covered \in BOOLEAN, NEW less \in BOOLEAN, NEW hit, NEW more, NEW w \in BOOLEAN,
         StatusRank(r.status) > 0, less => covered, hit \subseteq more
  PROVE  StatusRank(StatusFor(r, less, more, w)) <= StatusRank(StatusFor(r, covered, hit, w))
  <1>. DEFINE before == StatusFor(r, covered, hit, w)
              after == StatusFor(r, less, more, w)
  <1>1. StatusRank(r.status) \in 1 .. 3 /\ \A s : StatusRank(s) \in 0 .. 3
    BY DEF StatusRank
  <1>2. /\ StatusRank("analysis_inconclusive") = 0
        /\ StatusRank("suppressed_by_counter_evidence") = 0
        /\ StatusRank("suspicious_behavior") = 1
    BY DEF StatusRank
  <1>3. CASE ~less \/ "suppress" \in more \/ "inconclusive" \in more
    <2>1. after \in {"analysis_inconclusive", "suppressed_by_counter_evidence"}
      BY <1>3 DEF StatusFor
    <2>. HIDE DEF after, before
    <2>2. StatusRank(after) = 0 /\ StatusRank(before) \in 0 .. 3
      BY <1>1, <1>2, <2>1
    <2>3. StatusRank(after) <= StatusRank(before)
      BY <2>2
    <2>. QED  BY <2>3 DEF after, before
  <1>4. CASE less /\ "suppress" \notin more /\ "inconclusive" \notin more
    <2>1. /\ before = IF hit = {} /\ (w \/ r.status \in {"probable_vulnerability",
                                                         "confirmed_vulnerability"})
                      THEN r.status ELSE "suspicious_behavior"
          /\ after = IF more = {} /\ (w \/ r.status \in {"probable_vulnerability",
                                                         "confirmed_vulnerability"})
                     THEN r.status ELSE "suspicious_behavior"
      BY <1>4 DEF StatusFor
    <2>2. more = {} => hit = {}
      OBVIOUS
    <2>. HIDE DEF after, before
    <2>3. StatusRank(after) <= StatusRank(before)
      BY <1>1, <1>2, <2>1, <2>2
    <2>. QED  BY <2>3 DEF after, before
  <1>. QED  BY <1>3, <1>4

LEMMA SeverityNeverRises ==
  ASSUME NEW r, NEW covered \in BOOLEAN, NEW less \in BOOLEAN, NEW hit, NEW more,
         r.severity \in {"critical", "high"}, less => covered, hit \subseteq more
  PROVE  SeverityRank(SeverityFor(r, less, more)) <= SeverityRank(SeverityFor(r, covered, hit))
  BY DEF SeverityRank, SeverityFor

(* A report on contexts of which each has a counterpart in other contexts  *)
(* with no more guards, and that have no more than its catalog.            *)
LEMMA ReportNeverStronger ==
  ASSUME NEW r \in RuleFile, NEW cs, NEW ds, NEW some, NEW all,
         NEW coverage \in Nat, NEW less \in Nat,
         StatusRank(r.status) > 0, some \subseteq all, less <= coverage,
         \A d \in ds : \E c \in cs : Guards(c) \subseteq Guards(d),
         \A c \in cs : \E d \in ds : Guards(c) \subseteq Guards(d)
  PROVE  NoStronger(SequenceFinding(r, ds, all, less),
                    SequenceFinding(r, cs, some, coverage), r)
  <1>. DEFINE hit == UNION {SequenceHit(r, c, some) : c \in cs}
              more == UNION {SequenceHit(r, d, all) : d \in ds}
              f == Finding(r, less, more, r.witness, "contract")
              g == Finding(r, coverage, hit, r.witness, "contract")
  <1>1. \A c, d : Guards(c) \subseteq Guards(d) => SequenceHit(r, c, some) \subseteq SequenceHit(r, d, all)
    BY DEF SequenceHit, Hit
  <1>2. hit \subseteq more
    <2>1. ASSUME NEW c \in cs, NEW h \in SequenceHit(r, c, some) PROVE h \in more
      <3>1. PICK d \in ds : Guards(c) \subseteq Guards(d)
        OBVIOUS
      <3>2. h \in SequenceHit(r, d, all)
        BY <1>1, <3>1
      <3>. QED  BY <3>2
    <2>. QED  BY <2>1
  <1>3. \A h \in SequenceFinding(r, ds, all, less) : h = f
    BY DEF SequenceFinding
  <1>4. SequenceFinding(r, ds, all, less) # {} => g \in SequenceFinding(r, cs, some, coverage)
    <2>1. ASSUME NEW d \in Unguarded(r, ds, all) PROVE \E c \in cs : c \in Unguarded(r, cs, some)
      BY <1>1 DEF Unguarded
    <2>. QED  BY <2>1 DEF SequenceFinding
  <1>5. /\ f.status = StatusFor(r, Covered(r, less), more, r.witness)
        /\ g.status = StatusFor(r, Covered(r, coverage), hit, r.witness)
        /\ f.severity = SeverityFor(r, Covered(r, less), more)
        /\ g.severity = SeverityFor(r, Covered(r, coverage), hit)
    BY DEF Finding
  <1>6. /\ Covered(r, less) \in BOOLEAN /\ Covered(r, coverage) \in BOOLEAN
        /\ Covered(r, less) => Covered(r, coverage)
        /\ r.witness \in BOOLEAN
    BY DEF Covered, RuleFile
  <1>. HIDE DEF hit, more, f, g
  <1>7. StatusRank(f.status) <= StatusRank(g.status)
    BY <1>2, <1>5, <1>6, StatusNeverRises
  <1>8. r.severity \in {"critical", "high"} => SeverityRank(f.severity) <= SeverityRank(g.severity)
    BY <1>2, <1>5, <1>6, SeverityNeverRises
  <1>. QED  BY <1>3, <1>4, <1>7, <1>8 DEF NoStronger

(* A guard more at a row of some contexts. *)
LEMMA GuardedMatches ==
  ASSUME NEW cs, NEW x, NEW t, \A c \in cs : IsMatch(c), x \in Row
  PROVE  /\ \A d \in Guarded(cs, x, t) : \E c \in cs : Guards(c) \subseteq Guards(d)
         /\ \A c \in cs : \E d \in Guarded(cs, x, t) : Guards(c) \subseteq Guards(d)
  <1>. DEFINE guard(y) == IF y = x THEN [y EXCEPT !.guards = @ \cup {t}] ELSE y
              with(c) == [c EXCEPT !.rows = [i \in DOMAIN c.rows |-> guard(c.rows[i])]]
  <1>1. \A y : y.guards \subseteq guard(y).guards
    BY DEF Row
  <1>2. ASSUME NEW c \in cs PROVE Guards(c) \subseteq Guards(with(c))
    <2>1. c = [bindings |-> c.bindings, rows |-> c.rows]
      BY DEF IsMatch
    <2>2. with(c).rows = [i \in DOMAIN c.rows |-> guard(c.rows[i])]
      BY <2>1
    <2>. HIDE DEF with, guard
    <2>. QED  BY <1>1, <2>2 DEF Guards
  <1>3. Guarded(cs, x, t) = {with(c) : c \in cs}
    BY DEF Guarded
  <1>. HIDE DEF with
  <1>. QED  BY <1>2, <1>3

LEMMA InvWeakens ==
  ASSUME EngineInv
  PROVE  EvidenceNeverPromotes
  <1>. SUFFICES ASSUME stage = "match", matched = Len(Rule.sequence), StatusRank(Rule.status) > 0
                PROVE  EvidenceNeverPromotes
    BY DEF EvidenceNeverPromotes
  <1>1. Rule \in RuleFile /\ audit \in Audit /\ \A c \in contexts : IsMatch(c)
    BY EngineAssumption, RuleTypes DEF EngineInv, TurnInv, ChainInv
  <1>2. audit.rows \subseteq Row /\ audit.coverage \in Nat
    BY <1>1 DEF Audit
  <1>3. ASSUME NEW t
        PROVE  NoStronger(SequenceFinding(Rule, contexts, audit.catalog \cup {t}, audit.coverage),
                          SequenceFinding(Rule, contexts, audit.catalog, audit.coverage), Rule)
    BY <1>1, <1>2, ReportNeverStronger
  <1>4. ASSUME NEW t, NEW x \in audit.rows
        PROVE  NoStronger(SequenceFinding(Rule, Guarded(contexts, x, t), audit.catalog, audit.coverage),
                          SequenceFinding(Rule, contexts, audit.catalog, audit.coverage), Rule)
    BY <1>1, <1>2, GuardedMatches, ReportNeverStronger
  <1>5. ASSUME NEW less \in 0 .. audit.coverage
        PROVE  NoStronger(SequenceFinding(Rule, contexts, audit.catalog, less),
                          SequenceFinding(Rule, contexts, audit.catalog, audit.coverage), Rule)
    BY <1>1, <1>2, ReportNeverStronger
  <1>. QED  BY <1>3, <1>4, <1>5 DEF EvidenceNeverPromotes

(* Evidence against a finding never makes it stronger.                     *)
THEOREM EvidenceOnlyWeakens == CheckSpec => []EvidenceNeverPromotes
  BY InvWeakens, EngineKeeps, PTL
-----------------------------------------------------------------------------
(* The program: analysis first, then the engine. *)
AuditorInv ==
    /\ phase # "returned" => Inv
    /\ phase = "returned" => open = {} /\ work = {}
    /\ EngineInv

LEMMA AuditorNextEngine == AuditorNext => [CheckNext]_checkVars
  BY DEF AuditorNext, BuildBehavior, CheckNext

(* What the program does with an audit is a run of the engine. *)
THEOREM RunsTheEngine == AuditorSpec => CheckSpec
  <1>1. AuditorInit => CheckInit
    BY DEF AuditorInit
  <1>2. [AuditorNext]_<<vars, checkVars>> => [CheckNext]_checkVars
    BY AuditorNextEngine
  <1>. QED  BY <1>1, <1>2, PTL DEF AuditorSpec, CheckSpec

LEMMA StepAuditor == AuditorInv /\ [AuditorNext]_<<vars, checkVars>> => AuditorInv'
  <1>. SUFFICES ASSUME AuditorInv, [AuditorNext]_<<vars, checkVars>>
                PROVE  AuditorInv'
    OBVIOUS
  <1>1. EngineInv'
    BY AuditorNextEngine, StepEngine DEF AuditorInv
  <1>2. /\ phase' # "returned" => Inv'
        /\ phase' = "returned" => open' = {} /\ work' = {}
    <2>1. CASE Next
      <3>1. CASE phase = "returned"
        BY <2>1, <3>1 DEF AuditorInv, Next, BuildBlocks, StartDominators, NextPass, StartLoops,
           Finish, Visit, Refine, Grow, OpenLoop, CloseLoop
      <3>2. CASE phase # "returned"
        <4>1. Inv'
          BY <2>1, <3>2, NextInv DEF AuditorInv
        <4>2. phase' # "returned"
          BY <4>1 DEF Inv, TypeOK, Phases
        <4>. QED  BY <4>1, <4>2
      <3>. QED  BY <3>1, <3>2
    <2>2. ASSUME NEW a \in Audits, BuildBehavior(a)
          PROVE  phase' = "returned" /\ open' = {} /\ work' = {}
      BY <2>2 DEF BuildBehavior
    <2>3. CASE UNCHANGED vars
      <3>1. /\ phase' = phase /\ open' = open /\ work' = work
        BY <2>3 DEF vars, loopVars
      <3>2. phase # "returned" => Inv'
        BY <2>3, NextInv DEF AuditorInv
      <3>. QED  BY <3>1, <3>2 DEF AuditorInv
    <2>. QED  BY <2>1, <2>2, <2>3 DEF AuditorNext
  <1>. QED  BY <1>1, <1>2 DEF AuditorInv

(* In the program as a whole the analysis and the engine keep what each    *)
(* promises.                                                               *)
THEOREM AuditorKeepsBoth ==
    AuditorSpec => [](/\ EdgesCoverExecution
                      /\ DominatorsSound /\ DominatorsExact /\ LoopsNest
                      /\ MatchesAreChains /\ ReportedIffExposed /\ EvidenceNeverPromotes)
  <1>1. AuditorInit => AuditorInv
    <2>1. Init => phase # "returned"
      BY DEF Init
    <2>. QED  BY <2>1, InitInv, InitEngine DEF AuditorInit, AuditorInv
  <1>2. AuditorInv /\ [AuditorNext]_<<vars, checkVars>> => AuditorInv'
    BY StepAuditor
  <1>3. AuditorInv => /\ EdgesCoverExecution
                      /\ DominatorsSound /\ DominatorsExact /\ LoopsNest
                      /\ MatchesAreChains /\ ReportedIffExposed /\ EvidenceNeverPromotes
    <2>1. phase # "returned" /\ AuditorInv => /\ EdgesCoverExecution
                                              /\ DominatorsSound /\ DominatorsExact /\ LoopsNest
      BY InvCovers, InvSound, InvExact, InvNests DEF AuditorInv, Inv
    <2>2. phase = "returned" => /\ EdgesCoverExecution
                                /\ DominatorsSound /\ DominatorsExact /\ LoopsNest
      BY DEF EdgesCoverExecution, DominatorsSound, DominatorsExact, LoopsNest, Converged
    <2>3. AuditorInv => MatchesAreChains /\ ReportedIffExposed /\ EvidenceNeverPromotes
      BY InvChains, InvReports, InvWeakens DEF AuditorInv
    <2>. QED  BY <2>1, <2>2, <2>3
  <1>. QED  BY <1>1, <1>2, <1>3, PTL DEF AuditorSpec
=============================================================================
