----------------------------- MODULE SharingProofs -----------------------------
(***************************************************************************)
(* Proofs about what is shared among members and rebuilt from shares: the  *)
(* verifiers of the beacon seat one committee in a round, and the share    *)
(* files of a ceremony that ended give the seeds of its authorities back,  *)
(* for every field the shares are in, every threshold and number of        *)
(* shares, every dealing and every polynomial that may be drawn.           *)
(*                                                                         *)
(* Both rest on lemmas about the operators of Shamir, which are folds: a   *)
(* fold over a sequence has the value a chain of steps leads to, whichever *)
(* function CHOOSE takes.  From the assumption that no product is zero     *)
(* unless a factor is follow the laws of a field, that gf_inv inverts      *)
(* (Fermat's theorem) and that lagrange_at_zero interpolates (by divided   *)
(* differences).                                                           *)
(***************************************************************************)
EXTENDS Beacon, Ceremony, FiniteSetTheorems, SequenceTheorems, WellFoundedInduction, TLAPS

\* Induction over the numbers, as a fact about a set of them: the least that is left
\* out would follow one that is not.
LEMMA FromZeroUp ==
  ASSUME NEW T \in SUBSET Nat, 0 \in T, \A n \in T : n + 1 \in T
  PROVE  T = Nat
<1> SUFFICES ASSUME NEW m \in Nat, m \notin T PROVE FALSE
  OBVIOUS
<1> DEFINE U == Nat \ T
<1>1. PICK x \in U : \A y \in U : ~ << y, x >> \in OpToRel(<, Nat)
  BY NatLessThanWellFounded, WFMin
<1>2. x \in Nat /\ x # 0 /\ x - 1 \in Nat
  OBVIOUS
<1>3. << x - 1, x >> \in OpToRel(<, Nat)
  <2>1. << x - 1, x >> \in Nat \X Nat /\ << x - 1, x >>[1] = x - 1 /\ << x - 1, x >>[2] = x
    BY <1>2
  <2>2. << x - 1, x >> \in OpToRel(<, Nat)
        <=> << x - 1, x >> \in Nat \X Nat /\ << x - 1, x >>[1] < << x - 1, x >>[2]
    BY Zenon DEF OpToRel
  <2>3. x - 1 < x
    BY <1>2
  <2> QED
    BY <2>1, <2>2, <2>3, Zenon
<1>4. x - 1 \in T
  BY <1>1, <1>2, <1>3
<1>5. (x - 1) + 1 = x
  BY <1>2
<1>6. x \in T
  BY <1>4, <1>5
<1> QED
  BY <1>6

-----------------------------------------------------------------------------
\* C names, for each part of S that is not empty, the element a fold takes next.
Picks(C, S) == \A s \in SUBSET S : s # {} => C[s] \in s

\* What a fold of F makes of a set, from what it makes of smaller ones.
FoldStep(g, C, F, base, s) == IF s = {} THEN base ELSE F[C[s]][g[s \ {C[s]}]]

Parts(S, n) == {s \in SUBSET S : Cardinality(s) <= n}

FoldsUpTo(C, F, base, S, V, n) ==
  \E g \in [Parts(S, n) -> V] : \A s \in Parts(S, n) : g[s] = FoldStep(g, C, F, base, s)

LEMMA Smaller ==
  ASSUME NEW S, IsFiniteSet(S), NEW C, Picks(C, S), NEW s \in SUBSET S, s # {}
  PROVE  /\ C[s] \in S /\ s \ {C[s]} \in SUBSET S
         /\ Cardinality(s) \in Nat \ {0}
         /\ Cardinality(s \ {C[s]}) = Cardinality(s) - 1
<1>1. C[s] \in s
  BY DEF Picks
<1>2. IsFiniteSet(s)
  BY FS_Subset
<1>3. Cardinality(s) \in Nat /\ Cardinality(s) # 0
  BY <1>2, FS_CardinalityType, FS_EmptySet
<1> QED
  BY <1>1, <1>2, <1>3, FS_RemoveElement

LEMMA NoPartsButEmpty ==
  ASSUME NEW S, IsFiniteSet(S)
  PROVE  Parts(S, 0) = {{}}
<1>1. ASSUME NEW s \in SUBSET S, s # {} PROVE ~ Cardinality(s) <= 0
  <2>1. IsFiniteSet(s)
    BY FS_Subset
  <2>2. Cardinality(s) \in Nat /\ Cardinality(s) # 0
    BY <1>1, <2>1, FS_CardinalityType, FS_EmptySet
  <2> QED
    BY <2>2
<1> QED
  BY <1>1, FS_EmptySet DEF Parts

LEMMA AllParts ==
  ASSUME NEW S, IsFiniteSet(S)
  PROVE  \E n \in Nat : Parts(S, n) = SUBSET S
<1>1. PICK n \in Nat : n = Cardinality(S)
  BY FS_CardinalityType
<1> QED
  BY <1>1, FS_Subset DEF Parts

LEMMA FoldsExistUpTo ==
  ASSUME NEW S, IsFiniteSet(S), NEW V, NEW base \in V, NEW C, Picks(C, S), NEW F \in [S -> [V -> V]]
  PROVE  \A n \in Nat : FoldsUpTo(C, F, base, S, V, n)
<1> DEFINE T == {n \in Nat : FoldsUpTo(C, F, base, S, V, n)}
<1>1. 0 \in T
  <2>1. \A s \in Parts(S, 0) : s = {}
    BY NoPartsButEmpty
  <2> DEFINE g == [s \in Parts(S, 0) |-> base]
  <2>2. g \in [Parts(S, 0) -> V] /\ \A s \in Parts(S, 0) : g[s] = FoldStep(g, C, F, base, s)
    BY <2>1 DEF FoldStep
  <2> QED
    BY <2>2 DEF FoldsUpTo
<1>2. ASSUME NEW n \in T
      PROVE  n + 1 \in T
  <2> DEFINE A == Parts(S, n)
             B == Parts(S, n + 1)
  <2>1. PICK g \in [A -> V] : \A s \in A : g[s] = FoldStep(g, C, F, base, s)
    BY DEF FoldsUpTo
  <2>2. \A s \in SUBSET S : Cardinality(s) \in Nat
    BY FS_Subset, FS_CardinalityType
  <2>3. A \subseteq B
    BY <2>2 DEF Parts
  <2>4. \A s \in B : s # {} => C[s] \in S /\ s \ {C[s]} \in A
    BY Smaller DEF Parts
  <2> HIDE DEF A, B
  <2> DEFINE h == [s \in B |-> FoldStep(g, C, F, base, s)]
  <2>5. \A s \in B : FoldStep(g, C, F, base, s) \in V
    BY <2>1, <2>4 DEF FoldStep
  <2>6. h \in [B -> V]
    BY <2>5
  <2>7. \A s \in A : h[s] = g[s]
    BY <2>1, <2>3
  <2>8. ASSUME NEW s \in B
        PROVE  h[s] = FoldStep(h, C, F, base, s)
    <3>1. h[s] = FoldStep(g, C, F, base, s)
      OBVIOUS
    <3> HIDE DEF h
    <3>2. s # {} => h[s \ {C[s]}] = g[s \ {C[s]}]
      BY <2>4, <2>7
    <3> QED
      BY <3>1, <3>2 DEF FoldStep
  <2> HIDE DEF h
  <2>9. FoldsUpTo(C, F, base, S, V, n + 1)
    BY <2>6, <2>8 DEF FoldsUpTo, B
  <2> QED
    BY <2>9
<1> HIDE DEF T
<1>3. T = Nat
  <2>1. T \subseteq Nat
    BY DEF T
  <2> QED
    BY <1>1, <1>2, <2>1, FromZeroUp
<1> QED
  BY <1>3 DEF T

\* g is what the fold makes of each part of S.
Folding(g, C, F, base, S, V) ==
  /\ g \in [SUBSET S -> V]
  /\ \A s \in SUBSET S : g[s] = FoldStep(g, C, F, base, s)

\* The function that a fold over a finite set is defined by exists.
LEMMA FoldsExist ==
  ASSUME NEW S, IsFiniteSet(S), NEW V, NEW base \in V, NEW C, Picks(C, S), NEW F \in [S -> [V -> V]]
  PROVE  \E g : Folding(g, C, F, base, S, V)
<1>1. PICK n \in Nat : Parts(S, n) = SUBSET S
  BY AllParts
<1>2. FoldsUpTo(C, F, base, S, V, n)
  BY FoldsExistUpTo
<1> QED
  BY <1>1, <1>2 DEF FoldsUpTo, Folding

\* What is made of a part stays in V, as far as it was in V for the part without the
\* element taken.
Stays(h, C, S, V) ==
  \A s \in SUBSET S : (s = {} \/ h[s \ {C[s]}] \in V) => h[s] \in V

LEMMA FoldStays ==
  ASSUME NEW S, IsFiniteSet(S), NEW V, NEW C, Picks(C, S), NEW h, Stays(h, C, S, V)
  PROVE  \A s \in SUBSET S : h[s] \in V
<1>1. PICK n \in Nat : Parts(S, n) = SUBSET S
  BY AllParts
<1> DEFINE T == {k \in Nat : \A s \in Parts(S, k) : h[s] \in V}
<1>2. 0 \in T
  <2>1. \A s \in Parts(S, 0) : s = {}
    BY NoPartsButEmpty
  <2>2. h[{}] \in V
    BY DEF Stays
  <2> QED
    BY <2>1, <2>2
<1>3. ASSUME NEW k \in T
      PROVE  k + 1 \in T
  <2> SUFFICES ASSUME NEW s \in Parts(S, k + 1) PROVE h[s] \in V
    OBVIOUS
  <2>1. s = {} \/ s \ {C[s]} \in Parts(S, k)
    BY Smaller DEF Parts
  <2>2. s \in SUBSET S
    BY DEF Parts
  <2> QED
    BY <2>1, <2>2 DEF Stays
<1> HIDE DEF T
<1>4. T = Nat
  <2>1. T \subseteq Nat
    BY DEF T
  <2> QED
    BY <1>2, <1>3, <2>1, FromZeroUp
<1> QED
  BY <1>1, <1>4 DEF T

-----------------------------------------------------------------------------
\* a doubled 0 to W - 1 times, as gf_mul computes it.
TimesOf(a) == CHOOSE t : t = [i \in 0 .. W - 1 |-> IF i = 0 THEN a ELSE Double(t[i - 1])]

\* gf_mul at one bit of b.
ProductStep(p, i, b, t) == IF i - 1 \in b THEN GfAdd(p, t[i - 1]) ELSE p

LEMMA ProductIsFold ==
  ASSUME NEW a, NEW b
  PROVE  LET q == [i \in 1 .. W |-> i]
             h == CHOOSE h : h = [s \in SUBSET DOMAIN q |->
                    IF s = {} THEN {} ELSE ProductStep(h[s \ {Max(s)}], q[Max(s)], b, TimesOf(a))]
         IN  Product(a, b) = h[DOMAIN q]
BY Zenon DEF Product, FoldLeft, MapThenFoldSet, ProductStep, TimesOf

LEMMA EvalPolyIsFold ==
  ASSUME NEW c, NEW x
  PROVE  LET h == CHOOSE h : h = [s \in SUBSET DOMAIN c |->
                    IF s = {} THEN {} ELSE GfAdd(GfMul(h[s \ {Min(s)}], x), c[Min(s)])]
         IN  EvalPoly(c, x) = h[DOMAIN c]
BY Zenon DEF EvalPoly, FoldRight, MapThenFoldSet

\* How many seats are drawn.
Taken == IF Seats < Len(Pool) THEN Seats ELSE Len(Pool)

LEMMA CommitteeIsFold ==
  ASSUME NEW value
  PROVE  LET q == [i \in 1 .. Taken |-> i]
             h == CHOOSE h : h = [s \in SUBSET DOMAIN q |->
                    IF s = {} THEN Pool
                    ELSE Swap(h[s \ {Max(s)}], q[Max(s)], Seat(value, q[Max(s)], Len(Pool)))]
         IN  Committee(value) = SubSeq(h[DOMAIN q], 1, Taken)
BY Zenon DEF Committee, FoldLeft, MapThenFoldSet, Taken

-----------------------------------------------------------------------------
\* A set of numbers up to n has a greatest and a least.
LEMMA HasEnds ==
  ASSUME NEW n \in Nat, NEW s \in SUBSET (1 .. n), s # {}
  PROVE  Max(s) \in s /\ Min(s) \in s
<1> DEFINE T == {k \in Nat : \A u \in SUBSET (1 .. k) : u # {} =>
                   /\ \E x \in u : \A y \in u : x >= y
                   /\ \E x \in u : \A y \in u : x <= y}
<1>1. 0 \in T
  <2>1. \A u \in SUBSET (1 .. 0) : u = {}
    OBVIOUS
  <2> QED
    BY <2>1
<1>2. ASSUME NEW k \in T
      PROVE  k + 1 \in T
  <2> SUFFICES ASSUME NEW u \in SUBSET (1 .. k + 1), u # {}
               PROVE  /\ \E x \in u : \A y \in u : x >= y
                      /\ \E x \in u : \A y \in u : x <= y
    OBVIOUS
  <2> DEFINE w == u \ {k + 1}
  <2>1. w \in SUBSET (1 .. k) /\ k \in Nat
    OBVIOUS
  <2>2. CASE w = {}
    <3>1. u = {k + 1}
      BY <2>2
    <3> QED
      BY <3>1
  <2>3. CASE w # {}
    <3>1. PICK x \in w : \A y \in w : x >= y
      BY <2>1, <2>3
    <3>2. PICK z \in w : \A y \in w : z <= y
      BY <2>1, <2>3
    <3>3. \A y \in u : z <= y
      BY <2>1, <3>2
    <3>4. \E m \in u : \A y \in u : m >= y
      <4>1. CASE k + 1 \in u
        <5>1. \A y \in u : k + 1 >= y
          BY <2>1
        <5> QED
          BY <4>1, <5>1
      <4>2. CASE k + 1 \notin u
        <5>1. w = u
          BY <4>2
        <5> QED
          BY <3>1, <5>1
      <4> QED
        BY <4>1, <4>2
    <3> QED
      BY <3>2, <3>3, <3>4
  <2> QED
    BY <2>2, <2>3
<1> HIDE DEF T
<1>3. T = Nat
  <2>1. T \subseteq Nat
    BY DEF T
  <2> QED
    BY <1>1, <1>2, <2>1, FromZeroUp
<1>4. (\E x \in s : \A y \in s : x >= y) /\ (\E x \in s : \A y \in s : x <= y)
  BY <1>3 DEF T
<1> QED
  BY <1>4 DEF Max, Min

LastOf(n) == [s \in SUBSET (1 .. n) |-> Max(s)]
FirstOf(n) == [s \in SUBSET (1 .. n) |-> Min(s)]

LEMMA EndsPicked ==
  ASSUME NEW n \in Nat
  PROVE  /\ IsFiniteSet(1 .. n)
         /\ Picks(LastOf(n), 1 .. n) /\ Picks(FirstOf(n), 1 .. n)
<1>1. IsFiniteSet(1 .. n)
  BY FS_Interval
<1>2. \A s \in SUBSET (1 .. n) : s # {} => LastOf(n)[s] \in s /\ FirstOf(n)[s] \in s
  BY HasEnds DEF LastOf, FirstOf
<1> QED
  BY <1>1, <1>2 DEF Picks

-----------------------------------------------------------------------------
LEMMA SumInByte ==
  ASSUME NEW a \in Byte, NEW b \in Byte
  PROVE  GfAdd(a, b) \in Byte
BY DEF Byte, GfAdd

LEMMA DoubleInByte ==
  ASSUME NEW a \in Byte
  PROVE  Double(a) \in Byte
<1> DEFINE shifted == {i + 1 : i \in a \ {W - 1}}
<1>1. W \in Nat \ {0} /\ Irred \in Byte
  BY ShamirAssumption
<1>2. shifted \in Byte
  BY <1>1 DEF Byte
<1>3. Double(a) = IF W - 1 \in a THEN GfAdd(shifted, Irred) ELSE shifted
  BY DEF Double
<1> HIDE DEF shifted
<1> QED
  BY <1>1, <1>2, <1>3, SumInByte

LEMMA LastOfAll ==
  ASSUME NEW n \in Nat, NEW i \in 1 .. n
  PROVE  LastOf(n)[1 .. i] = i /\ (1 .. i) \ {i} = 1 .. i - 1
<1>1. 1 .. i \in SUBSET (1 .. n) /\ i \in 1 .. i /\ (1 .. i) \ {i} = 1 .. i - 1
  OBVIOUS
<1>2. Max(1 .. i) = i
  BY DEF Max
<1> QED
  BY <1>1, <1>2 DEF LastOf

\* The doubled values of gf_mul: bytes, each the double of the one before.
LEMMA TimesAreBytes ==
  ASSUME NEW a \in Byte
  PROVE  /\ \A i \in 0 .. W - 1 : TimesOf(a)[i] \in Byte
         /\ TimesOf(a)[0] = a
         /\ \A i \in 1 .. W - 1 : TimesOf(a)[i] = Double(TimesOf(a)[i - 1])
<1> DEFINE n == W - 1
           S == 1 .. n
           F == [i \in S |-> [y \in Byte |-> Double(y)]]
<1>1. W \in Nat \ {0} /\ n \in Nat
  BY ShamirAssumption
<1>2. F \in [S -> [Byte -> Byte]] /\ \A i \in S, y \in Byte : F[i][y] = Double(y)
  <2>1. \A y \in Byte : Double(y) \in Byte
    BY DoubleInByte
  <2> QED
    BY <2>1
<1>3. IsFiniteSet(S) /\ Picks(LastOf(n), S)
  BY <1>1, EndsPicked
<1> HIDE DEF F
<1>4. PICK g : Folding(g, LastOf(n), F, a, S, Byte)
  <2>1. F \in [S -> [Byte -> Byte]]
    BY <1>2
  <2> HIDE DEF S
  <2> QED
    BY <1>3, <2>1, FoldsExist
<1>5. /\ g \in [SUBSET S -> Byte]
       /\ \A s \in SUBSET S : g[s] = FoldStep(g, LastOf(n), F, a, s)
  BY <1>4 DEF Folding
<1> DEFINE t == [i \in 0 .. W - 1 |-> g[1 .. i]]
           is(u) == u = [i \in 0 .. W - 1 |-> IF i = 0 THEN a ELSE Double(u[i - 1])]
<1>6. is(t)
  <2> SUFFICES ASSUME NEW i \in 0 .. W - 1
               PROVE  t[i] = IF i = 0 THEN a ELSE Double(t[i - 1])
    OBVIOUS
  <2>1. t[i] = g[1 .. i] /\ 1 .. i \in SUBSET S
    BY <1>1
  <2>2. g[1 .. i] = FoldStep(g, LastOf(n), F, a, 1 .. i)
    BY <1>5, <2>1
  <2>3. CASE i = 0
    <3>1. 1 .. i = {}
      BY <2>3
    <3> QED
      BY <2>1, <2>2, <2>3, <3>1 DEF FoldStep
  <2>4. CASE i # 0
    <3>1. i \in S /\ i - 1 \in 0 .. W - 1 /\ 1 .. i # {}
      <4>1. i \in 1 .. W - 1 /\ i - 1 \in 0 .. W - 1
        BY <1>1, <2>4
      <4>2. 1 \in 1 .. i
        BY <4>1
      <4> QED
        BY <4>1, <4>2
    <3>2. LastOf(n)[1 .. i] = i /\ (1 .. i) \ {i} = 1 .. i - 1
      BY <1>1, <3>1, LastOfAll
    <3>3. g[1 .. i] = F[i][g[1 .. i - 1]]
      BY <2>2, <3>1, <3>2 DEF FoldStep
    <3>4. 1 .. i - 1 \in SUBSET S /\ t[i - 1] = g[1 .. i - 1]
      <4>1. 1 .. i - 1 \in SUBSET (1 .. W - 1)
        BY <1>1
      <4> QED
        BY <3>1, <4>1
    <3>5. g[1 .. i - 1] \in Byte
      BY <1>5, <3>4
    <3>6. t[i] = Double(t[i - 1])
      BY <1>2, <2>1, <3>1, <3>3, <3>4, <3>5
    <3> QED
      BY <2>4, <3>6
  <2> QED
    BY <2>3, <2>4
<1> HIDE DEF t
<1> DEFINE u == TimesOf(a)
<1>7. is(u)
  BY <1>6 DEF TimesOf
<1> HIDE DEF u
<1> DEFINE T == {i \in Nat : i < W => u[i] \in Byte}
<1>8. 0 \in T
  <2>1. u[0] = a
    BY <1>1, <1>7
  <2> QED
    BY <2>1
<1>9. ASSUME NEW i \in T PROVE i + 1 \in T
  <2> SUFFICES ASSUME i + 1 < W PROVE u[i + 1] \in Byte
    OBVIOUS
  <2>1. i \in Nat /\ u[i] \in Byte
    BY <1>1
  <2>2. i + 1 \in 0 .. W - 1 /\ i + 1 # 0 /\ (i + 1) - 1 = i
    BY <1>1, <2>1
  <2>3. u[i + 1] = Double(u[i])
    BY <1>7, <2>2
  <2> QED
    BY <2>1, <2>3, DoubleInByte
<1> HIDE DEF T
<1>10. T = Nat
  <2>1. T \subseteq Nat
    BY DEF T
  <2> QED
    BY <1>8, <1>9, <2>1, FromZeroUp
<1>11. \A i \in 0 .. W - 1 : u[i] \in Byte
  BY <1>1, <1>10 DEF T
<1>12. u[0] = a /\ \A i \in 1 .. W - 1 : u[i] = Double(u[i - 1])
  BY <1>1, <1>7
<1> QED
  BY <1>11, <1>12 DEF u

\* h is what gf_mul makes of each set of bits.
Multiplies(h, a, b) ==
  /\ h \in [SUBSET (1 .. W) -> Byte] /\ Product(a, b) = h[1 .. W]
  /\ \A s \in SUBSET (1 .. W) :
       h[s] = IF s = {} THEN {}
              ELSE ProductStep(h[s \ {LastOf(W)[s]}], LastOf(W)[s], b, TimesOf(a))

LEMMA ProductFolds ==
  ASSUME NEW a \in Byte, NEW b \in Byte
  PROVE  \E h : Multiplies(h, a, b)
<1> DEFINE S == 1 .. W
           t == TimesOf(a)
           F == [i \in S |-> [p \in Byte |-> ProductStep(p, i, b, t)]]
           q == [i \in S |-> i]
           is(h) == h = [s \in SUBSET S |-> IF s = {} THEN {}
                           ELSE ProductStep(h[s \ {Max(s)}], q[Max(s)], b, t)]
<1>1. W \in Nat \ {0} /\ \A i \in 0 .. W - 1 : t[i] \in Byte
  BY ShamirAssumption, TimesAreBytes
<1> HIDE DEF t
<1>2. \A i \in S, p \in Byte : ProductStep(p, i, b, t) \in Byte
  BY <1>1, SumInByte DEF ProductStep
<1>3. F \in [S -> [Byte -> Byte]] /\ \A i \in S, p \in Byte : F[i][p] = ProductStep(p, i, b, t)
  BY <1>2
<1>4. IsFiniteSet(S) /\ Picks(LastOf(W), S)
  BY <1>1, EndsPicked
<1> HIDE DEF F
<1>5. {} \in Byte
  BY DEF Byte
<1>6. PICK g : Folding(g, LastOf(W), F, {}, S, Byte)
  <2>1. F \in [S -> [Byte -> Byte]]
    BY <1>3
  <2> HIDE DEF S
  <2> QED
    BY <1>4, <1>5, <2>1, FoldsExist
<1>7. /\ g \in [SUBSET S -> Byte]
       /\ \A s \in SUBSET S : g[s] = FoldStep(g, LastOf(W), F, {}, s)
  BY <1>6 DEF Folding
<1>8. \A s \in SUBSET S : s # {} => /\ LastOf(W)[s] = Max(s) /\ Max(s) \in S
                                    /\ q[Max(s)] = Max(s) /\ s \ {Max(s)} \in SUBSET S
  <2> SUFFICES ASSUME NEW s \in SUBSET S, s # {}
               PROVE  /\ LastOf(W)[s] = Max(s) /\ Max(s) \in S
                      /\ q[Max(s)] = Max(s) /\ s \ {Max(s)} \in SUBSET S
    OBVIOUS
  <2>1. LastOf(W)[s] = Max(s) /\ Max(s) \in s
    BY <1>1, HasEnds DEF LastOf
  <2> QED
    BY <2>1
<1>9. is(g)
  <2> SUFFICES ASSUME NEW s \in SUBSET S
               PROVE  g[s] = IF s = {} THEN {} ELSE ProductStep(g[s \ {Max(s)}], q[Max(s)], b, t)
    BY <1>7
  <2>1. g[s] = FoldStep(g, LastOf(W), F, {}, s)
    BY <1>7
  <2>2. CASE s = {}
    BY <2>1, <2>2 DEF FoldStep
  <2>3. CASE s # {}
    <3>1. g[s] = F[Max(s)][g[s \ {Max(s)}]]
      BY <1>8, <2>1, <2>3 DEF FoldStep
    <3>2. Max(s) \in S /\ g[s \ {Max(s)}] \in Byte /\ q[Max(s)] = Max(s)
      BY <1>7, <1>8, <2>3
    <3>3. g[s] = ProductStep(g[s \ {Max(s)}], q[Max(s)], b, t)
      BY <1>3, <3>1, <3>2
    <3> QED
      BY <2>3, <3>3
  <2> QED
    BY <2>2, <2>3
<1> DEFINE h == CHOOSE h : is(h)
<1>10. is(h)
  BY <1>9
<1>11. Product(a, b) = h[S]
  <2>1. DOMAIN q = S
    OBVIOUS
  <2> QED
    BY <2>1, ProductIsFold DEF t
<1> HIDE DEF h
<1>12. \A s \in SUBSET S :
         h[s] = IF s = {} THEN {} ELSE ProductStep(h[s \ {LastOf(W)[s]}], LastOf(W)[s], b, t)
  <2> SUFFICES ASSUME NEW s \in SUBSET S
               PROVE  h[s] = IF s = {} THEN {}
                             ELSE ProductStep(h[s \ {LastOf(W)[s]}], LastOf(W)[s], b, t)
    OBVIOUS
  <2>1. h[s] = IF s = {} THEN {} ELSE ProductStep(h[s \ {Max(s)}], q[Max(s)], b, t)
    BY <1>10
  <2> HIDE DEF q
  <2> QED
    BY <1>8, <2>1
<1>13. Stays(h, LastOf(W), S, Byte)
  <2> SUFFICES ASSUME NEW s \in SUBSET S, s = {} \/ h[s \ {LastOf(W)[s]}] \in Byte
               PROVE  h[s] \in Byte
    BY DEF Stays
  <2>1. CASE s = {}
    BY <1>5, <1>12, <2>1
  <2>2. CASE s # {}
    <3>1. LastOf(W)[s] \in S
      <4> HIDE DEF S, q
      <4> QED
        BY <1>8, <2>2
    <3>2. h[s] = ProductStep(h[s \ {LastOf(W)[s]}], LastOf(W)[s], b, t)
      BY <1>12, <2>2
    <3> QED
      BY <1>2, <2>2, <3>1, <3>2
  <2> QED
    BY <2>1, <2>2
<1>14. h \in [SUBSET S -> Byte]
  <2>1. \A s \in SUBSET S : h[s] \in Byte
    BY <1>4, <1>13, FoldStays
  <2> QED
    BY <1>10, <2>1
<1> QED
  BY <1>11, <1>12, <1>14 DEF Multiplies, t

LEMMA ProductInByte ==
  ASSUME NEW a \in Byte, NEW b \in Byte
  PROVE  GfMul(a, b) = Product(a, b) /\ GfMul(a, b) \in Byte
<1>1. PICK h : Multiplies(h, a, b)
  BY ProductFolds
<1>2. Product(a, b) \in Byte
  <2> DEFINE S == 1 .. W
  <2>1. h \in [SUBSET S -> Byte] /\ Product(a, b) = h[S]
    BY <1>1 DEF Multiplies
  <2> HIDE DEF S
  <2> QED
    BY <2>1
<1>3. Products[a, b] = Product(a, b)
  BY DEF Products
<1> QED
  BY <1>2, <1>3 DEF GfMul

\* gf_mul at one bit, of a sum.
LEMMA StepDistributes ==
  ASSUME NEW b \in Byte, NEW c \in Byte, NEW p \in Byte, NEW q \in Byte, NEW i, NEW t
  PROVE  ProductStep(GfAdd(p, q), i, GfAdd(b, c), t)
           = GfAdd(ProductStep(p, i, b, t), ProductStep(q, i, c, t))
BY DEF ProductStep, GfAdd

\* A product with a sum is the sum of the products.
LEMMA Distributes ==
  ASSUME NEW a \in Byte, NEW b \in Byte, NEW c \in Byte
  PROVE  GfMul(a, GfAdd(b, c)) = GfAdd(GfMul(a, b), GfMul(a, c))
<1> DEFINE S == 1 .. W
           t == TimesOf(a)
           d == GfAdd(b, c)
<1>1. W \in Nat /\ \A i \in 0 .. W - 1 : t[i] \in Byte
  BY ShamirAssumption, TimesAreBytes
<1>2. IsFiniteSet(S) /\ Picks(LastOf(W), S)
  BY <1>1, EndsPicked
<1>3. d \in Byte
  BY SumInByte
<1>4. PICK f : Multiplies(f, a, b)
  BY ProductFolds
<1>5. PICK g : Multiplies(g, a, c)
  BY ProductFolds
<1>6. PICK h : Multiplies(h, a, d)
  BY <1>3, ProductFolds
<1>7. ASSUME NEW s \in SUBSET S, s # {} => h[s \ {LastOf(W)[s]}]
                                          = GfAdd(f[s \ {LastOf(W)[s]}], g[s \ {LastOf(W)[s]}])
      PROVE  h[s] = GfAdd(f[s], g[s])
  <2>1. CASE s = {}
    <3>1. f[s] = {} /\ g[s] = {} /\ h[s] = {}
      BY <1>4, <1>5, <1>6, <2>1 DEF Multiplies
    <3> QED
      BY <3>1 DEF GfAdd
  <2>2. CASE s # {}
    <3> DEFINE i == LastOf(W)[s]
               r == s \ {i}
    <3>1. /\ f[s] = ProductStep(f[r], i, b, t)
          /\ g[s] = ProductStep(g[r], i, c, t)
          /\ h[s] = ProductStep(h[r], i, d, t)
      BY <1>4, <1>5, <1>6, <2>2 DEF Multiplies
    <3>2. f[r] \in Byte /\ g[r] \in Byte
      <4>1. r \in SUBSET S
        OBVIOUS
      <4> HIDE DEF r
      <4> QED
        BY <1>4, <1>5, <4>1 DEF Multiplies
    <3>3. h[r] = GfAdd(f[r], g[r])
      BY <1>7, <2>2
    <3> HIDE DEF r, i, t
    <3> QED
      BY <3>1, <3>2, <3>3, StepDistributes
  <2> QED
    BY <2>1, <2>2
<1> DEFINE u == [s \in SUBSET S |-> IF h[s] = GfAdd(f[s], g[s]) THEN 1 ELSE 0]
<1>8. Stays(u, LastOf(W), S, {1})
  <2> SUFFICES ASSUME NEW s \in SUBSET S, s = {} \/ u[s \ {LastOf(W)[s]}] \in {1}
               PROVE  u[s] \in {1}
    BY DEF Stays
  <2>1. s # {} => h[s \ {LastOf(W)[s]}] = GfAdd(f[s \ {LastOf(W)[s]}], g[s \ {LastOf(W)[s]}])
    <3> SUFFICES ASSUME s # {}
                 PROVE  h[s \ {LastOf(W)[s]}]
                          = GfAdd(f[s \ {LastOf(W)[s]}], g[s \ {LastOf(W)[s]}])
      OBVIOUS
    <3> DEFINE r == s \ {LastOf(W)[s]}
    <3>1. r \in SUBSET S /\ u[r] \in {1}
      OBVIOUS
    <3> HIDE DEF r
    <3>2. h[r] = GfAdd(f[r], g[r])
      BY <3>1
    <3> QED
      BY <3>2 DEF r
  <2> QED
    BY <1>7, <2>1
<1>9. u[S] \in {1}
  <2>1. S \in SUBSET S
    OBVIOUS
  <2> HIDE DEF u, S
  <2> QED
    BY <1>2, <1>8, <2>1, FoldStays
<1>10. h[S] = GfAdd(f[S], g[S])
  BY <1>9
<1>11. Product(a, d) = h[S] /\ Product(a, b) = f[S] /\ Product(a, c) = g[S]
  BY <1>4, <1>5, <1>6 DEF Multiplies
<1>12. GfMul(a, d) = Product(a, d) /\ GfMul(a, b) = Product(a, b) /\ GfMul(a, c) = Product(a, c)
  BY <1>3, ProductInByte
<1> QED
  BY <1>10, <1>11, <1>12

\* A factor that is not zero can be taken away.
LEMMA Cancels ==
  ASSUME NEW a \in Byte, NEW b \in Byte, NEW c \in Byte, a # {}, GfMul(a, b) = GfMul(a, c)
  PROVE  b = c
<1>1. GfAdd(b, c) \in Byte
  BY SumInByte
<1>2. GfMul(a, GfAdd(b, c)) = {}
  <2>1. \A x : GfAdd(x, x) = {}
    BY DEF GfAdd
  <2> QED
    BY <2>1, Distributes
<1>3. GfAdd(b, c) = {}
  BY <1>1, <1>2, ShamirAssumption
<1> QED
  BY <1>3 DEF GfAdd

-----------------------------------------------------------------------------
\* h is what eval_poly makes of each set of coefficients.
Evaluates(h, c, x, n) ==
  /\ h \in [SUBSET (1 .. n) -> Byte] /\ EvalPoly(c, x) = h[1 .. n] /\ h[{}] = {}
  /\ \A s \in SUBSET (1 .. n) :
       s # {} => h[s] = GfAdd(GfMul(h[s \ {Min(s)}], x), c[Min(s)])

LEMMA EvalFolds ==
  ASSUME NEW n \in Nat, NEW c \in [1 .. n -> Byte], NEW x \in Byte
  PROVE  \E h : Evaluates(h, c, x, n)
<1> DEFINE S == 1 .. n
           C == FirstOf(n)
           Step(i, y) == GfAdd(GfMul(y, x), c[i])
           F == [i \in S |-> [y \in Byte |-> Step(i, y)]]
           is(h) == h = [s \in SUBSET S |-> IF s = {} THEN {} ELSE Step(Min(s), h[s \ {Min(s)}])]
<1>1. IsFiniteSet(S) /\ Picks(C, S)
  BY EndsPicked
<1>2. \A s \in SUBSET S : s # {} => C[s] = Min(s) /\ Min(s) \in S /\ s \ {Min(s)} \in SUBSET S
  <2> SUFFICES ASSUME NEW s \in SUBSET S, s # {}
               PROVE  C[s] = Min(s) /\ Min(s) \in S /\ s \ {Min(s)} \in SUBSET S
    OBVIOUS
  <2>1. C[s] = Min(s) /\ Min(s) \in s
    BY HasEnds DEF FirstOf
  <2> QED
    BY <2>1
<1>3. {} \in Byte
  BY DEF Byte
<1>4. \A i \in S, y \in Byte : Step(i, y) \in Byte
  <2> SUFFICES ASSUME NEW i \in S, NEW y \in Byte PROVE Step(i, y) \in Byte
    OBVIOUS
  <2>1. GfMul(y, x) \in Byte /\ c[i] \in Byte
    BY ProductInByte
  <2> QED
    BY <2>1, SumInByte
<1>5. EvalPoly(c, x) = (CHOOSE h : is(h))[S]
  <2>1. DOMAIN c = S
    OBVIOUS
  <2> QED
    BY <2>1, EvalPolyIsFold
<1> HIDE DEF Step, C, S
<1>6. F \in [S -> [Byte -> Byte]] /\ \A i \in S, y \in Byte : F[i][y] = Step(i, y)
  BY <1>4
<1> HIDE DEF F
<1>7. PICK g : Folding(g, C, F, {}, S, Byte)
  <2>1. F \in [S -> [Byte -> Byte]]
    BY <1>6
  <2> QED
    BY <1>1, <1>3, <2>1, FoldsExist
<1>8. is(g)
  <2>1. g \in [SUBSET S -> Byte] /\ \A s \in SUBSET S : g[s] = FoldStep(g, C, F, {}, s)
    BY <1>7 DEF Folding
  <2> SUFFICES ASSUME NEW s \in SUBSET S
               PROVE  g[s] = IF s = {} THEN {} ELSE Step(Min(s), g[s \ {Min(s)}])
    BY <2>1
  <2>2. g[s] = FoldStep(g, C, F, {}, s)
    BY <2>1
  <2>3. CASE s = {}
    BY <2>2, <2>3 DEF FoldStep
  <2>4. CASE s # {}
    <3>1. g[s] = F[Min(s)][g[s \ {Min(s)}]]
      BY <1>2, <2>2, <2>4 DEF FoldStep
    <3>2. Min(s) \in S /\ g[s \ {Min(s)}] \in Byte
      BY <1>2, <2>1, <2>4
    <3> QED
      BY <1>6, <2>4, <3>1, <3>2
  <2> QED
    BY <2>3, <2>4
<1> DEFINE h == CHOOSE h : is(h)
<1>9. is(h)
  BY <1>8
<1>10. EvalPoly(c, x) = h[S]
  BY <1>5
<1> HIDE DEF h
<1>11. Stays(h, C, S, Byte)
  <2> SUFFICES ASSUME NEW s \in SUBSET S, s = {} \/ h[s \ {C[s]}] \in Byte
               PROVE  h[s] \in Byte
    BY DEF Stays
  <2>1. h[s] = IF s = {} THEN {} ELSE Step(Min(s), h[s \ {Min(s)}])
    BY <1>9
  <2>2. CASE s = {}
    BY <1>3, <2>1, <2>2
  <2>3. CASE s # {}
    <3>1. Min(s) \in S /\ C[s] = Min(s)
      BY <1>2, <2>3
    <3>2. h[s \ {Min(s)}] \in Byte
      BY <2>3, <3>1
    <3>3. h[s] = Step(Min(s), h[s \ {Min(s)}])
      BY <2>1, <2>3
    <3> QED
      BY <1>4, <3>1, <3>2, <3>3
  <2> QED
    BY <2>2, <2>3
<1>12. \A s \in SUBSET S : h[s] \in Byte
  BY <1>1, <1>11, FoldStays
<1>13. h \in [SUBSET S -> Byte] /\ h[{}] = {}
  BY <1>9, <1>12
<1>14. \A s \in SUBSET S : s # {} => h[s] = Step(Min(s), h[s \ {Min(s)}])
  BY <1>9
<1>15. Evaluates(h, c, x, n)
  BY <1>10, <1>13, <1>14 DEF Evaluates, S, Step
<1> QED
  BY <1>15

\* A polynomial over bytes has bytes for values.
LEMMA ValueInByte ==
  ASSUME NEW n \in Nat, NEW c \in [1 .. n -> Byte], NEW x \in Byte
  PROVE  EvalPoly(c, x) \in Byte
<1> DEFINE S == 1 .. n
<1>1. PICK h : Evaluates(h, c, x, n)
  BY EvalFolds
<1>2. h \in [SUBSET S -> Byte] /\ EvalPoly(c, x) = h[S]
  BY <1>1 DEF Evaluates
<1> HIDE DEF S
<1> QED
  BY <1>2

-----------------------------------------------------------------------------
\* The pool in any order.
Orders == {q \in [1 .. Len(Pool) -> Range(Pool)] : IsInjective(q)}

LEMMA PoolInOrder == Pool \in Orders /\ Len(Pool) \in Nat
<1>1. Pool \in Seq(Range(Pool)) /\ IsInjective(Pool)
  BY BeaconAssumption
<1>2. Len(Pool) \in Nat /\ Pool \in [1 .. Len(Pool) -> Range(Pool)]
  BY <1>1, LenProperties
<1> QED
  BY <1>1, <1>2 DEF Orders

LEMMA SwapKeepsOrders ==
  ASSUME NEW q \in Orders, NEW i \in 1 .. Len(Pool), NEW j \in 1 .. Len(Pool)
  PROVE  Swap(q, i, j) \in Orders
<1> DEFINE n == Len(Pool)
           u == Swap(q, i, j)
<1>1. q \in [1 .. n -> Range(Pool)] /\ \A a, b \in 1 .. n : q[a] = q[b] => a = b
  BY DEF Orders, IsInjective
<1>2. u \in [1 .. n -> Range(Pool)]
  BY <1>1 DEF Swap
<1>3. \A a \in 1 .. n : u[a] = IF a = j THEN q[i] ELSE IF a = i THEN q[j] ELSE q[a]
  BY <1>1 DEF Swap
<1> HIDE DEF u, n
<1>4. \A a, b \in 1 .. n : u[a] = u[b] => a = b
  BY <1>1, <1>3 DEF n
<1>5. IsInjective(u)
  BY <1>2, <1>4 DEF IsInjective
<1> QED
  BY <1>2, <1>5 DEF Orders, n, u

LEMMA SeatInPool ==
  ASSUME NEW value \in Byte, NEW i \in 1 .. Len(Pool)
  PROVE  Seat(value, i, Len(Pool)) \in 1 .. Len(Pool)
<1>1. Len(Pool) \in Nat
  BY PoolInOrder
<1>2. Draws[value, i] \in Nat
  <2> DEFINE D == Byte \X (1 .. Len(Pool))
  <2>1. << value, i >> \in D
    OBVIOUS
  <2>2. Draws \in [D -> Nat]
    BY BeaconAssumption
  <2> HIDE DEF D
  <2> QED
    BY <2>1, <2>2
<1> DEFINE d == Draws[value, i]
           m == Len(Pool) - i + 1
<1>3. m \in Nat \ {0}
  BY <1>1
<1> HIDE DEF d, m
<1>4. d % m \in 0 .. m - 1
  <2>1. d \in Nat
    BY <1>2 DEF d
  <2> QED
    BY <1>3, <2>1
<1>5. Seat(value, i, Len(Pool)) = i + (d % m)
  BY DEF Seat, d, m
<1>6. i + (d % m) \in 1 .. Len(Pool)
  BY <1>1, <1>4 DEF m
<1> QED
  BY <1>5, <1>6

\* committee_from_randomness seats each relay of the pool at most once.
LEMMA SeatedOnce ==
  ASSUME NEW value \in Byte
  PROVE  IsInjective(Committee(value))
<1> DEFINE S == 1 .. Taken
           C == LastOf(Taken)
           q == [i \in 1 .. Taken |-> i]
           Step(p, i) == Swap(p, i, Seat(value, i, Len(Pool)))
           F == [i \in S |-> [p \in Orders |-> Step(p, i)]]
           is(h) == h = [s \in SUBSET S |-> IF s = {} THEN Pool ELSE Step(h[s \ {Max(s)}], q[Max(s)])]
<1>1. Taken \in Nat /\ Taken <= Len(Pool) /\ Len(Pool) \in Nat /\ Pool \in Orders
  BY PoolInOrder, BeaconAssumption DEF Taken
<1>2. IsFiniteSet(S) /\ Picks(C, S)
  BY <1>1, EndsPicked
<1>3. \A s \in SUBSET S : s # {} => /\ C[s] = Max(s) /\ Max(s) \in S /\ q[Max(s)] = Max(s)
                                    /\ s \ {Max(s)} \in SUBSET S
  <2> SUFFICES ASSUME NEW s \in SUBSET S, s # {}
               PROVE  /\ C[s] = Max(s) /\ Max(s) \in S /\ q[Max(s)] = Max(s)
                      /\ s \ {Max(s)} \in SUBSET S
    OBVIOUS
  <2>1. C[s] = Max(s) /\ Max(s) \in s
    BY <1>1, HasEnds DEF LastOf
  <2> QED
    BY <2>1
<1>4. \A i \in S, p \in Orders : Step(p, i) \in Orders
  <2> SUFFICES ASSUME NEW i \in S, NEW p \in Orders PROVE Step(p, i) \in Orders
    OBVIOUS
  <2>1. i \in 1 .. Len(Pool)
    BY <1>1
  <2> QED
    BY <2>1, SeatInPool, SwapKeepsOrders
<1>5. Committee(value) = SubSeq((CHOOSE h : is(h))[S], 1, Taken)
  <2>1. DOMAIN q = S
    OBVIOUS
  <2> QED
    BY <2>1, CommitteeIsFold
<1> HIDE DEF Step, C, S, q
<1>6. F \in [S -> [Orders -> Orders]] /\ \A i \in S, p \in Orders : F[i][p] = Step(p, i)
  BY <1>4
<1> HIDE DEF F
<1>7. PICK g : Folding(g, C, F, Pool, S, Orders)
  <2>1. F \in [S -> [Orders -> Orders]]
    BY <1>6
  <2> QED
    BY <1>1, <1>2, <2>1, FoldsExist
<1>8. is(g)
  <2>1. g \in [SUBSET S -> Orders] /\ \A s \in SUBSET S : g[s] = FoldStep(g, C, F, Pool, s)
    BY <1>7 DEF Folding
  <2> SUFFICES ASSUME NEW s \in SUBSET S
               PROVE  g[s] = IF s = {} THEN Pool ELSE Step(g[s \ {Max(s)}], q[Max(s)])
    BY <2>1
  <2>2. g[s] = FoldStep(g, C, F, Pool, s)
    BY <2>1
  <2>3. CASE s = {}
    BY <2>2, <2>3 DEF FoldStep
  <2>4. CASE s # {}
    <3>1. g[s] = F[Max(s)][g[s \ {Max(s)}]]
      BY <1>3, <2>2, <2>4 DEF FoldStep
    <3>2. Max(s) \in S /\ g[s \ {Max(s)}] \in Orders /\ q[Max(s)] = Max(s)
      BY <1>3, <2>1, <2>4
    <3> QED
      BY <1>6, <2>4, <3>1, <3>2
  <2> QED
    BY <2>3, <2>4
<1> DEFINE h == CHOOSE h : is(h)
<1>9. is(h)
  BY <1>8
<1>10. Committee(value) = SubSeq(h[S], 1, Taken)
  BY <1>5
<1> HIDE DEF h
<1>11. Stays(h, C, S, Orders)
  <2> SUFFICES ASSUME NEW s \in SUBSET S, s = {} \/ h[s \ {C[s]}] \in Orders
               PROVE  h[s] \in Orders
    BY DEF Stays
  <2>1. h[s] = IF s = {} THEN Pool ELSE Step(h[s \ {Max(s)}], q[Max(s)])
    BY <1>9
  <2>2. CASE s = {}
    BY <1>1, <2>1, <2>2
  <2>3. CASE s # {}
    <3>1. Max(s) \in S /\ C[s] = Max(s) /\ q[Max(s)] = Max(s)
      BY <1>3, <2>3
    <3>2. h[s \ {Max(s)}] \in Orders
      BY <2>3, <3>1
    <3>3. h[s] = Step(h[s \ {Max(s)}], Max(s))
      BY <2>1, <2>3, <3>1
    <3> QED
      BY <1>4, <3>1, <3>2, <3>3
  <2> QED
    BY <2>2, <2>3
<1>12. h[S] \in Orders
  <2>1. \A s \in SUBSET S : h[s] \in Orders
    BY <1>2, <1>11, FoldStays
  <2> QED
    BY <2>1
<1> DEFINE o == h[S]
           com == SubSeq(o, 1, Taken)
<1>13. o \in [1 .. Len(Pool) -> Range(Pool)] /\ \A a, b \in 1 .. Len(Pool) : o[a] = o[b] => a = b
  BY <1>12 DEF Orders, IsInjective
<1> HIDE DEF o
<1>14. DOMAIN com = 1 .. Taken /\ \A a \in 1 .. Taken : com[a] = o[a]
  <2>1. o \in Seq(Range(Pool)) /\ Len(o) = Len(Pool)
    BY <1>1, <1>13
  <2> QED
    BY <1>1, <2>1
<1>15. \A a, b \in DOMAIN com : com[a] = com[b] => a = b
  BY <1>1, <1>13, <1>14
<1> QED
  BY <1>10, <1>15 DEF IsInjective, o

-----------------------------------------------------------------------------
\* What a verifier holds for a participant is a share that participant made, of this
\* round or of another it has signed, or garbage.
Made(x, i) ==
  x \in {NoShare, Garbage} \/ \E q \in Round : q < signed[i] /\ x = Sign(i, q)

HeldMade == \A v \in Collector, r \in Round, i \in Member : Made(held[v][r][i], i)

BeaconInv ==
  /\ group \in Byte /\ sk \in [Member -> Byte \ {{}}] /\ signed \in [Member -> Nat]
  /\ held \in [Collector -> [Round -> [Member -> Byte \cup {NoShare, Garbage}]]]
  /\ HeldMade

LEMMA PointInByte ==
  ASSUME NEW r \in Round
  PROVE  RoundMessage(r) \in Byte
BY DEF RoundMessage, Bits, Byte

LEMMA SignInByte ==
  ASSUME NEW i \in Member, NEW r \in Round, sk[i] \in Byte
  PROVE  Sign(i, r) \in Byte
BY PointInByte, ProductInByte DEF Sign

LEMMA BeaconInvInit ==
  ASSUME BeaconInit
  PROVE  BeaconInv
<1>1. PICK c \in Dealings :
        /\ \A i \in Member : KeyShare(c, i) # {}
        /\ group = c[1] /\ sk = [i \in Member |-> KeyShare(c, i)]
  BY DEF BeaconInit
<1>2. c \in [1 .. Threshold -> Byte] /\ Threshold \in Nat \ {0}
  BY BeaconAssumption
<1>3. group \in Byte
  <2>1. 1 \in 1 .. Threshold
    BY <1>2
  <2> QED
    BY <1>1, <1>2, <2>1
<1>4. \A i \in Member : KeyShare(c, i) \in Byte
  <2> SUFFICES ASSUME NEW i \in Member PROVE KeyShare(c, i) \in Byte
    OBVIOUS
  <2>1. Bits(i + 1) \in Byte
    BY DEF Bits, Byte
  <2>2. KeyShare(c, i) = EvalPoly(c, Bits(i + 1))
    BY DEF KeyShare
  <2> QED
    BY <1>2, <2>1, <2>2, ValueInByte
<1>5. sk \in [Member -> Byte \ {{}}]
  BY <1>1, <1>4
<1>6. /\ signed = [i \in Member |-> 0]
      /\ held = [v \in Collector |-> [r \in Round |-> [i \in Member |-> NoShare]]]
  BY DEF BeaconInit
<1> QED
  BY <1>3, <1>5, <1>6 DEF BeaconInv, HeldMade, Made

\* A round more that is signed leaves what was made made.
LEMMA SignKeeps ==
  ASSUME BeaconInv, NEW i \in Member, SignRound(i)
  PROVE  BeaconInv'
<1>1. /\ signed' = [signed EXCEPT ![i] = @ + 1] /\ signed \in [Member -> Nat]
      /\ group' = group /\ sk' = sk /\ held' = held
  BY DEF SignRound, BeaconInv
<1>2. signed' \in [Member -> Nat] /\ \A j \in Member : signed[j] <= signed'[j]
  BY <1>1
<1>3. HeldMade'
  <2> SUFFICES ASSUME NEW v \in Collector, NEW r \in Round, NEW j \in Member
               PROVE  Made(held[v][r][j], j)'
    BY DEF HeldMade
  <2>1. Made(held[v][r][j], j)
    BY DEF BeaconInv, HeldMade
  <2>2. ASSUME NEW q \in Round, q < signed[j], held[v][r][j] = Sign(j, q)
        PROVE  q < signed'[j] /\ held'[v][r][j] = Sign(j, q)'
    <3>1. q \in Nat
      BY BeaconAssumption DEF Round
    <3>2. q < signed'[j]
      BY <1>1, <1>2, <2>2, <3>1
    <3> QED
      BY <1>1, <2>2, <3>2 DEF Sign
  <2> QED
    BY <1>1, <2>1, <2>2 DEF Made
<1> QED
  BY <1>1, <1>2, <1>3 DEF BeaconInv

\* What a step puts in place of what was held is made as well.
LEMMA HeldChanges ==
  ASSUME BeaconInv, UNCHANGED << group, sk, signed >>,
         held' \in [Collector -> [Round -> [Member -> Byte \cup {NoShare, Garbage}]]],
         \A v \in Collector, r \in Round, i \in Member :
           held'[v][r][i] = held[v][r][i] \/ Made(held'[v][r][i], i)
  PROVE  BeaconInv'
<1>1. HeldMade'
  <2> SUFFICES ASSUME NEW v \in Collector, NEW r \in Round, NEW i \in Member
               PROVE  Made(held[v][r][i], i)'
    BY DEF HeldMade
  <2>1. Made(held'[v][r][i], i)
    BY DEF BeaconInv, HeldMade
  <2> QED
    BY <2>1 DEF Made, Sign
<1> QED
  BY <1>1 DEF BeaconInv

LEMMA AddKeeps ==
  ASSUME BeaconInv, NEW v \in Collector, NEW r \in Round, NEW i \in Member, NEW share,
         AddShare(v, r, i, share), Made(share, i)
  PROVE  BeaconInv'
<1> DEFINE V == Byte \cup {NoShare, Garbage}
<1>1. /\ held' = [held EXCEPT ![v][r][i] = share] /\ UNCHANGED << group, sk, signed >>
      /\ held \in [Collector -> [Round -> [Member -> V]]]
  BY DEF AddShare, BeaconInv
<1>2. share \in V
  BY SignInByte DEF Made, BeaconInv
<1> HIDE DEF V
<1>3. held' \in [Collector -> [Round -> [Member -> V]]]
  BY <1>1, <1>2
<1>4. \A w \in Collector, q \in Round, j \in Member :
        held'[w][q][j] = IF w = v /\ q = r /\ j = i THEN share ELSE held[w][q][j]
  BY <1>1
<1>5. \A w \in Collector, q \in Round, j \in Member :
        held'[w][q][j] = held[w][q][j] \/ Made(held'[w][q][j], j)
  BY <1>4
<1> QED
  BY <1>1, <1>3, <1>5, HeldChanges DEF V

LEMMA BuildKeeps ==
  ASSUME BeaconInv, NEW v \in Collector, NEW r \in Round, NEW I \in SUBSET Member,
         BuildForRound(v, r, I)
  PROVE  BeaconInv'
<1> DEFINE V == Byte \cup {NoShare, Garbage}
           new == [i \in Member |-> IF i \in I THEN Sign(i, r) ELSE NoShare]
<1>1. /\ held' = [held EXCEPT ![v][r] = new] /\ UNCHANGED << group, sk, signed >>
      /\ held \in [Collector -> [Round -> [Member -> V]]] /\ \A i \in I : r < signed[i]
  BY DEF BuildForRound, BeaconInv
<1>2. \A i \in Member : Made(new[i], i)
  BY <1>1 DEF Made
<1>3. new \in [Member -> V]
  BY SignInByte DEF BeaconInv
<1> HIDE DEF V, new
<1>4. held' \in [Collector -> [Round -> [Member -> V]]]
  BY <1>1, <1>3
<1>5. \A w \in Collector, q \in Round, j \in Member :
        held'[w][q][j] = IF w = v /\ q = r THEN new[j] ELSE held[w][q][j]
  BY <1>1
<1>6. \A w \in Collector, q \in Round, j \in Member :
        held'[w][q][j] = held[w][q][j] \/ Made(held'[w][q][j], j)
  BY <1>2, <1>5
<1> QED
  BY <1>1, <1>4, <1>6, HeldChanges DEF V

LEMMA BeaconInvNext ==
  ASSUME BeaconInv, [BeaconNext]_beaconVars
  PROVE  BeaconInv'
<1>1. CASE \E i \in Member : SignRound(i)
  BY <1>1, SignKeeps
<1>2. ASSUME NEW v \in Collector, NEW r \in Round, NEW i \in Member, NEW q \in Round,
             q < signed[i], AddShare(v, r, i, Sign(i, q))
      PROVE  BeaconInv'
  <2>1. Made(Sign(i, q), i)
    BY <1>2 DEF Made
  <2> QED
    BY <1>2, <2>1, AddKeeps
<1>3. ASSUME NEW v \in Collector, NEW r \in Round, NEW i \in Member, AddShare(v, r, i, Garbage)
      PROVE  BeaconInv'
  <2>1. Made(Garbage, i)
    BY DEF Made
  <2> QED
    BY <1>3, <2>1, AddKeeps
<1>4. CASE \E v \in Collector, r \in Round, I \in SUBSET Member : BuildForRound(v, r, I)
  BY <1>4, BuildKeeps
<1>5. CASE UNCHANGED beaconVars
  BY <1>5 DEF beaconVars, BeaconInv, HeldMade, Made, Sign
<1> QED
  BY <1>1, <1>2, <1>3, <1>4, <1>5 DEF BeaconNext

-----------------------------------------------------------------------------
\* A round with a value: every share held for it verified, they are enough, and the
\* value is the group's signature, whichever of them were combined.
LEMMA ValueIs ==
  ASSUME NEW v \in Collector, NEW r \in Round, RandomnessResult(v, r) # Nothing
  PROVE  /\ RandomnessResult(v, r) = GfMul(group, RoundMessage(r))
         /\ \A i \in Holders(v, r) : held[v][r][i] = Sign(i, r)
         /\ Cardinality(Holders(v, r)) >= Threshold
BY DEF RandomnessResult, ShareVerifies, EnoughShares

\* A share that verifies for a round was made by signing that very round.
LEMMA VerifiedMeansSigned ==
  ASSUME BeaconInv, NEW r \in Round, NEW i \in Member, Made(Sign(i, r), i), Sign(i, r) # NoShare
  PROVE  r < signed[i]
<1>1. sk[i] \in Byte /\ sk[i] # {}
  BY DEF BeaconInv
<1>2. Sign(i, r) \in Byte
  BY <1>1, SignInByte
<1>3. Sign(i, r) # Garbage
  BY <1>2, BeaconAssumption
<1>4. PICK q \in Round : q < signed[i] /\ Sign(i, r) = Sign(i, q)
  BY <1>3 DEF Made
<1>5. RoundMessage(r) = RoundMessage(q)
  <2>1. GfMul(sk[i], RoundMessage(r)) = GfMul(sk[i], RoundMessage(q))
    BY <1>4 DEF Sign
  <2>2. RoundMessage(r) \in Byte /\ RoundMessage(q) \in Byte
    BY PointInByte
  <2> QED
    BY <1>1, <2>1, <2>2, Cancels
<1>6. r = q
  BY <1>5, BeaconAssumption DEF RoundMessage
<1> QED
  BY <1>4, <1>6

LEMMA InvMeansOne ==
  ASSUME BeaconInv
  PROVE  OneCommittee
<1> SUFFICES ASSUME NEW v \in Collector, NEW r \in Round, RandomnessResult(v, r) # Nothing
             PROVE  /\ Cardinality({i \in Member : r < signed[i]}) >= Threshold
                    /\ IsInjective(Committee(RandomnessResult(v, r)))
                    /\ \A w \in Collector :
                         RandomnessResult(w, r) # Nothing =>
                           Committee(RandomnessResult(w, r)) = Committee(RandomnessResult(v, r))
  BY DEF OneCommittee
<1>1. /\ RandomnessResult(v, r) = GfMul(group, RoundMessage(r))
      /\ \A i \in Holders(v, r) : held[v][r][i] = Sign(i, r)
      /\ Cardinality(Holders(v, r)) >= Threshold
  BY ValueIs
<1>2. Cardinality({i \in Member : r < signed[i]}) >= Threshold
  <2> DEFINE H == Holders(v, r)
             U == {i \in Member : r < signed[i]}
  <2>1. \A i \in H : i \in U
    <3> SUFFICES ASSUME NEW i \in H PROVE i \in Member /\ r < signed[i]
      OBVIOUS
    <3>1. i \in Member /\ held[v][r][i] # NoShare
      BY DEF Holders
    <3>2. Made(held[v][r][i], i)
      BY <3>1 DEF BeaconInv, HeldMade
    <3>3. held[v][r][i] = Sign(i, r)
      BY <1>1
    <3> QED
      BY <3>1, <3>2, <3>3, VerifiedMeansSigned
  <2>2. IsFiniteSet(U)
    BY BeaconAssumption, FS_Subset
  <2>3. H \subseteq U
    BY <2>1
  <2> HIDE DEF H, U
  <2>4. Cardinality(H) <= Cardinality(U) /\ IsFiniteSet(H)
    BY <2>2, <2>3, FS_Subset
  <2>5. Cardinality(H) \in Nat /\ Cardinality(U) \in Nat /\ Threshold \in Nat
    BY <2>2, <2>4, FS_CardinalityType, BeaconAssumption
  <2>6. Cardinality(H) >= Threshold
    BY <1>1 DEF H
  <2>7. Cardinality(U) >= Threshold
    BY <2>4, <2>5, <2>6
  <2> QED
    BY <2>7 DEF U
<1>3. IsInjective(Committee(RandomnessResult(v, r)))
  <2>1. group \in Byte /\ RoundMessage(r) \in Byte
    BY PointInByte DEF BeaconInv
  <2>2. RandomnessResult(v, r) \in Byte
    BY <1>1, <2>1, ProductInByte
  <2> QED
    BY <2>2, SeatedOnce
<1>4. \A w \in Collector : RandomnessResult(w, r) # Nothing =>
                           RandomnessResult(w, r) = RandomnessResult(v, r)
  BY <1>1, ValueIs
<1> QED
  BY <1>2, <1>3, <1>4

\* No round has a value before T participants signed that very round, and whichever
\* shares reached them, in whichever order, verifiers with a value for a round seat the
\* same committee, each relay once (ThresholdBeacon::add_shares, randomness_result,
\* committee_from_randomness).
THEOREM CommitteesAlwaysAgree == BeaconSpec => []OneCommittee
<1>1. BeaconInit => BeaconInv
  BY BeaconInvInit
<1>2. BeaconInv /\ [BeaconNext]_beaconVars => BeaconInv'
  BY BeaconInvNext
<1>3. BeaconInv => OneCommittee
  BY InvMeansOne
<1> QED
  BY <1>1, <1>2, <1>3, PTL DEF BeaconSpec

\* gf_mul bit by bit.
LEMMA ProductSteps ==
  ASSUME NEW a \in Byte, NEW b \in Byte
  PROVE  \E x \in [0 .. W -> Byte] :
           /\ x[0] = {} /\ GfMul(a, b) = x[W]
           /\ \A i \in 1 .. W : x[i] = ProductStep(x[i - 1], i, b, TimesOf(a))
<1>1. PICK h : Multiplies(h, a, b)
  BY ProductFolds
<1>2. W \in Nat
  BY ShamirAssumption
<1> DEFINE x == [i \in 0 .. W |-> h[1 .. i]]
<1>3. \A i \in 0 .. W : 1 .. i \in SUBSET (1 .. W)
  BY <1>2
<1>4. x \in [0 .. W -> Byte]
  BY <1>1, <1>3 DEF Multiplies
<1>5. x[0] = {}
  <2>1. 1 .. 0 = {} /\ x[0] = h[1 .. 0]
    BY <1>2
  <2> QED
    BY <1>1, <1>3, <2>1 DEF Multiplies
<1>6. GfMul(a, b) = x[W]
  <2>1. x[W] = h[1 .. W]
    BY <1>2
  <2> QED
    BY <1>1, <2>1, ProductInByte DEF Multiplies
<1>7. ASSUME NEW i \in 1 .. W
      PROVE  x[i] = ProductStep(x[i - 1], i, b, TimesOf(a))
  <2>1. LastOf(W)[1 .. i] = i /\ (1 .. i) \ {i} = 1 .. i - 1
    BY <1>2, LastOfAll
  <2>2. 1 .. i # {}
    <3>1. 1 \in 1 .. i
      BY <1>2
    <3> QED
      BY <3>1
  <2>3. h[1 .. i] = ProductStep(h[1 .. i - 1], i, b, TimesOf(a))
    BY <1>1, <1>2, <1>3, <2>1, <2>2 DEF Multiplies
  <2>4. x[i] = h[1 .. i] /\ x[i - 1] = h[1 .. i - 1]
    BY <1>2
  <2> QED
    BY <2>3, <2>4
<1> HIDE DEF x
<1> QED
  BY <1>4, <1>5, <1>6, <1>7

-----------------------------------------------------------------------------
\* Sums of bytes.
LEMMA SumLaws ==
  /\ \A a, b : GfAdd(a, b) = GfAdd(b, a)
  /\ \A a, b, c : GfAdd(a, GfAdd(b, c)) = GfAdd(GfAdd(a, b), c)
  /\ \A a : GfAdd(a, {}) = a /\ GfAdd({}, a) = a /\ GfAdd(a, a) = {}
  /\ \A a, b : GfAdd(a, b) = {} => a = b
BY DEF GfAdd

\* The sum of two sums, by parts.
LEMMA SumOfSums ==
  ASSUME NEW a, NEW b, NEW c, NEW d
  PROVE  GfAdd(GfAdd(a, b), GfAdd(c, d)) = GfAdd(GfAdd(a, c), GfAdd(b, d))
BY DEF GfAdd

Additive(f) == \A a, b \in Byte : f[GfAdd(a, b)] = GfAdd(f[a], f[b])

\* What is additive is known by what it makes of single bits.
LEMMA AgreeOnBits ==
  ASSUME NEW f \in [Byte -> Byte], NEW g \in [Byte -> Byte], Additive(f), Additive(g),
         \A i \in 0 .. W - 1 : f[{i}] = g[{i}]
  PROVE  \A a \in Byte : f[a] = g[a]
<1>1. W \in Nat \ {0} /\ {} \in Byte
  BY ShamirAssumption DEF Byte
<1>2. f[{}] = {} /\ g[{}] = {}
  <2>1. GfAdd({}, {}) = {}
    BY SumLaws
  <2>2. f[{}] = GfAdd(f[{}], f[{}]) /\ g[{}] = GfAdd(g[{}], g[{}])
    BY <1>1, <2>1 DEF Additive
  <2> QED
    BY <2>2, SumLaws
<1> DEFINE T == {n \in Nat : n <= W => \A a \in SUBSET (0 .. n - 1) : f[a] = g[a]}
<1>3. 0 \in T
  <2>1. \A a \in SUBSET (0 .. 0 - 1) : a = {}
    OBVIOUS
  <2> QED
    BY <1>2, <2>1
<1>4. ASSUME NEW n \in T PROVE n + 1 \in T
  <2>1. n \in Nat /\ n + 1 \in Nat /\ (n + 1) - 1 = n
    OBVIOUS
  <2> SUFFICES ASSUME n + 1 <= W, NEW a \in SUBSET (0 .. (n + 1) - 1)
               PROVE  f[a] = g[a]
    BY <2>1
  <2>2. n \in 0 .. W - 1 /\ n <= W
    BY <1>1, <2>1
  <2> DEFINE r == a \ {n}
  <2>3. r \in SUBSET (0 .. n - 1) /\ r \in Byte /\ {n} \in Byte
    BY <1>1, <2>1, <2>2 DEF Byte
  <2>4. f[r] = g[r]
    BY <2>2, <2>3
  <2>5. CASE n \in a
    <3>1. a = GfAdd(r, {n})
      BY <2>5 DEF GfAdd
    <3> HIDE DEF r
    <3> QED
      BY <2>2, <2>3, <2>4, <3>1 DEF Additive
  <2>6. CASE n \notin a
    <3>1. r = a
      BY <2>6
    <3> QED
      BY <2>4, <3>1
  <2> QED
    BY <2>5, <2>6
<1> HIDE DEF T
<1>5. T = Nat
  <2>1. T \subseteq Nat
    BY DEF T
  <2> QED
    BY <1>3, <1>4, <2>1, FromZeroUp
<1>6. W \in T
  BY <1>1, <1>5
<1> QED
  BY <1>1, <1>6 DEF T, Byte

-----------------------------------------------------------------------------
LEMMA DoubleAdds ==
  ASSUME NEW a \in Byte, NEW b \in Byte
  PROVE  Double(GfAdd(a, b)) = GfAdd(Double(a), Double(b))
<1> DEFINE up(c) == {i + 1 : i \in c \ {W - 1}}
<1>1. W \in Nat /\ \A c \in Byte : c \subseteq Int
  BY ShamirAssumption DEF Byte
<1>2. up(GfAdd(a, b)) = GfAdd(up(a), up(b))
  <2>1. ASSUME NEW x PROVE x \in up(GfAdd(a, b)) <=> x \in GfAdd(up(a), up(b))
    <3>1. \A c \in {a, b, GfAdd(a, b)} : x \in up(c) <=> x \in Int /\ x - 1 \in c \ {W - 1}
      <4> SUFFICES ASSUME NEW c \in {a, b, GfAdd(a, b)}
                   PROVE  x \in up(c) <=> x \in Int /\ x - 1 \in c \ {W - 1}
        OBVIOUS
      <4>1. c \subseteq Int
        BY <1>1, SumInByte
      <4>2. ASSUME NEW i \in c \ {W - 1}, x = i + 1 PROVE x \in Int /\ x - 1 \in c \ {W - 1}
        BY <4>1, <4>2
      <4>3. ASSUME x \in Int, x - 1 \in c \ {W - 1} PROVE x \in up(c)
        <5>1. x = (x - 1) + 1
          BY <4>3
        <5> QED
          BY <4>3, <5>1
      <4> QED
        BY <4>2, <4>3
    <3> HIDE DEF up
    <3> QED
      BY <3>1 DEF GfAdd
  <2> QED
    BY <2>1
<1>3. \A c : Double(c) = IF W - 1 \in c THEN GfAdd(up(c), Irred) ELSE up(c)
  BY DEF Double
<1>4. W - 1 \in GfAdd(a, b) <=> ~(W - 1 \in a <=> W - 1 \in b)
  BY DEF GfAdd
<1> HIDE DEF up
<1> QED
  BY <1>2, <1>3, <1>4 DEF GfAdd

LEMMA TimesAdd ==
  ASSUME NEW a \in Byte, NEW b \in Byte
  PROVE  \A i \in 0 .. W - 1 : TimesOf(GfAdd(a, b))[i] = GfAdd(TimesOf(a)[i], TimesOf(b)[i])
<1> DEFINE u == TimesOf(a)
           v == TimesOf(b)
           w == TimesOf(GfAdd(a, b))
           T == {n \in Nat : n < W => w[n] = GfAdd(u[n], v[n])}
<1>1. W \in Nat /\ GfAdd(a, b) \in Byte
  BY ShamirAssumption, SumInByte
<1>2. /\ u[0] = a /\ v[0] = b /\ w[0] = GfAdd(a, b)
      /\ \A i \in 0 .. W - 1 : u[i] \in Byte /\ v[i] \in Byte
      /\ \A i \in 1 .. W - 1 : /\ u[i] = Double(u[i - 1]) /\ v[i] = Double(v[i - 1])
                               /\ w[i] = Double(w[i - 1])
  BY <1>1, TimesAreBytes
<1> HIDE DEF u, v, w
<1>3. 0 \in T
  BY <1>2
<1>4. ASSUME NEW n \in T PROVE n + 1 \in T
  <2>1. n \in Nat /\ n + 1 \in Nat /\ (n + 1) - 1 = n
    OBVIOUS
  <2> SUFFICES ASSUME n + 1 < W PROVE w[n + 1] = GfAdd(u[n + 1], v[n + 1])
    BY <2>1
  <2>2. n + 1 \in 1 .. W - 1 /\ n \in 0 .. W - 1 /\ w[n] = GfAdd(u[n], v[n])
    BY <1>1, <2>1
  <2>3. u[n + 1] = Double(u[n]) /\ v[n + 1] = Double(v[n]) /\ w[n + 1] = Double(w[n])
    BY <1>2, <2>1, <2>2
  <2> QED
    BY <1>2, <2>2, <2>3, DoubleAdds
<1> HIDE DEF T
<1>5. T = Nat
  <2>1. T \subseteq Nat
    BY DEF T
  <2> QED
    BY <1>3, <1>4, <2>1, FromZeroUp
<1> QED
  BY <1>1, <1>5 DEF T, u, v, w

LEMMA DistributesLeft ==
  ASSUME NEW a \in Byte, NEW b \in Byte, NEW c \in Byte
  PROVE  GfMul(GfAdd(a, b), c) = GfAdd(GfMul(a, c), GfMul(b, c))
<1> DEFINE u == TimesOf(a)
           v == TimesOf(b)
           w == TimesOf(GfAdd(a, b))
<1>1. W \in Nat /\ GfAdd(a, b) \in Byte
  BY ShamirAssumption, SumInByte
<1>2. \A i \in 0 .. W - 1 : w[i] = GfAdd(u[i], v[i])
  BY TimesAdd
<1>3. PICK x \in [0 .. W -> Byte] :
        /\ x[0] = {} /\ GfMul(a, c) = x[W]
        /\ \A i \in 1 .. W : x[i] = ProductStep(x[i - 1], i, c, u)
  BY ProductSteps
<1>4. PICK y \in [0 .. W -> Byte] :
        /\ y[0] = {} /\ GfMul(b, c) = y[W]
        /\ \A i \in 1 .. W : y[i] = ProductStep(y[i - 1], i, c, v)
  BY ProductSteps
<1>5. PICK z \in [0 .. W -> Byte] :
        /\ z[0] = {} /\ GfMul(GfAdd(a, b), c) = z[W]
        /\ \A i \in 1 .. W : z[i] = ProductStep(z[i - 1], i, c, w)
  BY <1>1, ProductSteps
<1> HIDE DEF u, v, w
<1> DEFINE T == {n \in Nat : n <= W => z[n] = GfAdd(x[n], y[n])}
<1>6. 0 \in T
  BY <1>3, <1>4, <1>5, SumLaws
<1>7. ASSUME NEW n \in T PROVE n + 1 \in T
  <2>1. n \in Nat /\ n + 1 \in Nat /\ (n + 1) - 1 = n
    OBVIOUS
  <2> SUFFICES ASSUME n + 1 <= W PROVE z[n + 1] = GfAdd(x[n + 1], y[n + 1])
    BY <2>1
  <2>2. n + 1 \in 1 .. W /\ n \in 0 .. W - 1 /\ z[n] = GfAdd(x[n], y[n])
    BY <1>1, <2>1
  <2>3. /\ x[n + 1] = ProductStep(x[n], n + 1, c, u) /\ y[n + 1] = ProductStep(y[n], n + 1, c, v)
        /\ z[n + 1] = ProductStep(z[n], n + 1, c, w)
    BY <1>3, <1>4, <1>5, <2>1, <2>2
  <2>4. w[n] = GfAdd(u[n], v[n])
    BY <1>2, <2>2
  <2>5. CASE n \in c
    <3>1. z[n + 1] = GfAdd(GfAdd(x[n], y[n]), GfAdd(u[n], v[n]))
      BY <2>1, <2>2, <2>3, <2>4, <2>5 DEF ProductStep
    <3>2. x[n + 1] = GfAdd(x[n], u[n]) /\ y[n + 1] = GfAdd(y[n], v[n])
      BY <2>1, <2>3, <2>5 DEF ProductStep
    <3> QED
      BY <3>1, <3>2, SumOfSums
  <2>6. CASE n \notin c
    BY <2>1, <2>2, <2>3, <2>6 DEF ProductStep
  <2> QED
    BY <2>5, <2>6
<1> HIDE DEF T
<1>8. T = Nat
  <2>1. T \subseteq Nat
    BY DEF T
  <2> QED
    BY <1>6, <1>7, <2>1, FromZeroUp
<1>9. W \in T
  BY <1>1, <1>8
<1> QED
  BY <1>3, <1>4, <1>5, <1>1, <1>9 DEF T

\* A product with a single bit is one of the doubled values.
LEMMA TimesOneBit ==
  ASSUME NEW a \in Byte, NEW j \in 0 .. W - 1
  PROVE  {j} \in Byte /\ GfMul(a, {j}) = TimesOf(a)[j]
<1> DEFINE t == TimesOf(a)
<1>1. W \in Nat /\ {j} \in Byte
  BY ShamirAssumption DEF Byte
<1>2. t[j] \in Byte
  BY TimesAreBytes
<1>3. PICK x \in [0 .. W -> Byte] :
        /\ x[0] = {} /\ GfMul(a, {j}) = x[W]
        /\ \A i \in 1 .. W : x[i] = ProductStep(x[i - 1], i, {j}, t)
  BY <1>1, ProductSteps
<1> HIDE DEF t
<1> DEFINE T == {n \in Nat : n <= W => x[n] = IF n <= j THEN {} ELSE t[j]}
<1>4. 0 \in T
  BY <1>3
<1>5. ASSUME NEW n \in T PROVE n + 1 \in T
  <2>1. n \in Nat /\ n + 1 \in Nat /\ (n + 1) - 1 = n
    OBVIOUS
  <2> SUFFICES ASSUME n + 1 <= W PROVE x[n + 1] = IF n + 1 <= j THEN {} ELSE t[j]
    BY <2>1
  <2>2. n + 1 \in 1 .. W /\ x[n] = IF n <= j THEN {} ELSE t[j]
    BY <1>1, <2>1
  <2>3. x[n + 1] = ProductStep(x[n], n + 1, {j}, t)
    BY <1>3, <2>1, <2>2
  <2>4. CASE n = j
    <3>1. x[n + 1] = GfAdd({}, t[j])
      BY <2>1, <2>2, <2>3, <2>4 DEF ProductStep
    <3>2. ~ (n + 1 <= j)
      BY <2>1, <2>4
    <3> QED
      BY <3>1, <3>2, SumLaws
  <2>5. CASE n # j
    <3>1. x[n + 1] = x[n]
      BY <2>1, <2>3, <2>5 DEF ProductStep
    <3>2. n + 1 <= j <=> n <= j
      BY <2>1, <2>5
    <3> QED
      BY <2>2, <3>1, <3>2
  <2> QED
    BY <2>4, <2>5
<1> HIDE DEF T
<1>6. T = Nat
  <2>1. T \subseteq Nat
    BY DEF T
  <2> QED
    BY <1>4, <1>5, <2>1, FromZeroUp
<1>7. W \in T /\ ~ (W <= j)
  BY <1>1, <1>6
<1> QED
  BY <1>1, <1>3, <1>7 DEF T, t

LEMMA TimesOfDouble ==
  ASSUME NEW a \in Byte
  PROVE  \A i \in 0 .. W - 1 : TimesOf(Double(a))[i] = Double(TimesOf(a)[i])
<1> DEFINE u == TimesOf(a)
           v == TimesOf(Double(a))
           T == {n \in Nat : n < W => v[n] = Double(u[n])}
<1>1. W \in Nat /\ Double(a) \in Byte
  BY ShamirAssumption, DoubleInByte
<1>2. /\ u[0] = a /\ v[0] = Double(a)
      /\ \A i \in 1 .. W - 1 : u[i] = Double(u[i - 1]) /\ v[i] = Double(v[i - 1])
  BY <1>1, TimesAreBytes
<1> HIDE DEF u, v
<1>3. 0 \in T
  BY <1>2
<1>4. ASSUME NEW n \in T PROVE n + 1 \in T
  <2>1. n \in Nat /\ n + 1 \in Nat /\ (n + 1) - 1 = n
    OBVIOUS
  <2> SUFFICES ASSUME n + 1 < W PROVE v[n + 1] = Double(u[n + 1])
    BY <2>1
  <2>2. n + 1 \in 1 .. W - 1 /\ v[n] = Double(u[n])
    BY <1>1, <2>1
  <2>3. u[n + 1] = Double(u[n]) /\ v[n + 1] = Double(v[n])
    BY <1>2, <2>1, <2>2
  <2> QED
    BY <2>2, <2>3
<1> HIDE DEF T
<1>5. T = Nat
  <2>1. T \subseteq Nat
    BY DEF T
  <2> QED
    BY <1>3, <1>4, <2>1, FromZeroUp
<1> QED
  BY <1>1, <1>5 DEF T, u, v

\* Doubling so often and so often again, in either order.
LEMMA TimesOfTimes ==
  ASSUME NEW a \in Byte, NEW j \in 0 .. W - 1
  PROVE  \A i \in 0 .. W - 1 : TimesOf(TimesOf(a)[i])[j] = TimesOf(TimesOf(a)[j])[i]
<1> DEFINE u == TimesOf(a)
           v == TimesOf(u[j])
           T == {n \in Nat : n < W => TimesOf(u[n])[j] = v[n]}
<1>1. W \in Nat
  BY ShamirAssumption
<1>2. /\ u[0] = a /\ \A i \in 0 .. W - 1 : u[i] \in Byte
      /\ \A i \in 1 .. W - 1 : u[i] = Double(u[i - 1])
  BY TimesAreBytes
<1>3. v[0] = u[j] /\ \A i \in 1 .. W - 1 : v[i] = Double(v[i - 1])
  BY <1>2, TimesAreBytes
<1>4. 0 \in T
  BY <1>2, <1>3
<1> HIDE DEF u, v
<1>5. ASSUME NEW n \in T PROVE n + 1 \in T
  <2>1. n \in Nat /\ n + 1 \in Nat /\ (n + 1) - 1 = n
    OBVIOUS
  <2> SUFFICES ASSUME n + 1 < W PROVE TimesOf(u[n + 1])[j] = v[n + 1]
    BY <2>1
  <2>2. n + 1 \in 1 .. W - 1 /\ TimesOf(u[n])[j] = v[n] /\ n \in 0 .. W - 1
    BY <1>1, <2>1
  <2>3. u[n + 1] = Double(u[n]) /\ v[n + 1] = Double(v[n]) /\ u[n] \in Byte
    BY <1>2, <1>3, <2>1, <2>2
  <2>4. TimesOf(Double(u[n]))[j] = Double(TimesOf(u[n])[j])
    BY <2>3, TimesOfDouble
  <2> QED
    BY <2>2, <2>3, <2>4
<1> HIDE DEF T
<1>6. T = Nat
  <2>1. T \subseteq Nat
    BY DEF T
  <2> QED
    BY <1>4, <1>5, <2>1, FromZeroUp
<1> QED
  BY <1>1, <1>6 DEF T, u, v

LEMMA TimesOfOne ==
  {0} \in Byte /\ \A i \in 0 .. W - 1 : TimesOf({0})[i] = {i}
<1> DEFINE u == TimesOf({0})
           T == {n \in Nat : n < W => u[n] = {n}}
<1>1. W \in Nat /\ {0} \in Byte
  BY ShamirAssumption DEF Byte
<1>2. u[0] = {0} /\ \A i \in 1 .. W - 1 : u[i] = Double(u[i - 1])
  BY <1>1, TimesAreBytes
<1> HIDE DEF u
<1>3. 0 \in T
  BY <1>2
<1>4. ASSUME NEW n \in T PROVE n + 1 \in T
  <2>1. n \in Nat /\ n + 1 \in Nat /\ (n + 1) - 1 = n
    OBVIOUS
  <2> SUFFICES ASSUME n + 1 < W PROVE u[n + 1] = {n + 1}
    BY <2>1
  <2>2. n + 1 \in 1 .. W - 1 /\ u[n] = {n} /\ W - 1 # n
    BY <1>1, <2>1
  <2>3. u[n + 1] = Double({n})
    BY <1>2, <2>1, <2>2
  <2>4. {i + 1 : i \in {n} \ {W - 1}} = {n + 1} /\ W - 1 \notin {n}
    BY <2>2
  <2> QED
    BY <2>3, <2>4 DEF Double
<1> HIDE DEF T
<1>5. T = Nat
  <2>1. T \subseteq Nat
    BY DEF T
  <2> QED
    BY <1>3, <1>4, <2>1, FromZeroUp
<1> QED
  BY <1>1, <1>5 DEF T, u

-----------------------------------------------------------------------------
\* gf_mul is the product of a field.
LEMMA OneMultiplies ==
  ASSUME NEW a \in Byte
  PROVE  GfMul(a, {0}) = a
<1>1. 0 \in 0 .. W - 1
  BY ShamirAssumption
<1> QED
  BY <1>1, TimesOneBit, TimesAreBytes

LEMMA BitsCommute ==
  ASSUME NEW i \in 0 .. W - 1, NEW j \in 0 .. W - 1
  PROVE  GfMul({i}, {j}) = GfMul({j}, {i})
<1> DEFINE u == TimesOf({0})
<1>1. u[i] = {i} /\ u[j] = {j} /\ {0} \in Byte /\ {i} \in Byte /\ {j} \in Byte
  BY TimesOfOne, TimesOneBit
<1>2. GfMul({i}, {j}) = TimesOf({i})[j] /\ GfMul({j}, {i}) = TimesOf({j})[i]
  BY <1>1, TimesOneBit
<1>3. TimesOf(u[i])[j] = TimesOf(u[j])[i]
  BY <1>1, TimesOfTimes
<1> HIDE DEF u
<1> QED
  BY <1>1, <1>2, <1>3

LEMMA Commutes ==
  ASSUME NEW a \in Byte, NEW b \in Byte
  PROVE  GfMul(a, b) = GfMul(b, a)
<1>1. ASSUME NEW c \in Byte, \A i \in 0 .. W - 1 : GfMul({i}, c) = GfMul(c, {i}), NEW d \in Byte
      PROVE  GfMul(d, c) = GfMul(c, d)
  <2> DEFINE f == [x \in Byte |-> GfMul(x, c)]
             g == [x \in Byte |-> GfMul(c, x)]
  <2>1. f \in [Byte -> Byte] /\ g \in [Byte -> Byte]
    BY ProductInByte
  <2>2. \A x, y \in Byte : GfAdd(x, y) \in Byte
    BY SumInByte
  <2>3. Additive(f)
    BY <2>2, DistributesLeft DEF Additive
  <2>4. Additive(g)
    BY <2>2, Distributes DEF Additive
  <2>5. \A i \in 0 .. W - 1 : {i} \in Byte
    BY TimesOneBit
  <2>6. \A i \in 0 .. W - 1 : f[{i}] = g[{i}]
    BY <1>1, <2>5
  <2> HIDE DEF f, g
  <2>7. f[d] = g[d]
    BY <2>1, <2>3, <2>4, <2>6, AgreeOnBits
  <2> QED
    BY <2>7 DEF f, g
<1>2. ASSUME NEW i \in 0 .. W - 1
      PROVE  \A x \in Byte : GfMul(x, {i}) = GfMul({i}, x)
  <2>1. {i} \in Byte /\ \A j \in 0 .. W - 1 : GfMul({j}, {i}) = GfMul({i}, {j})
    BY TimesOneBit, BitsCommute
  <2> QED
    BY <1>1, <2>1
<1>3. \A i \in 0 .. W - 1 : GfMul({i}, b) = GfMul(b, {i})
  BY <1>2
<1> QED
  BY <1>1, <1>3

LEMMA TimesDouble ==
  ASSUME NEW a \in Byte, NEW x \in Byte
  PROVE  GfMul(a, Double(x)) = Double(GfMul(a, x))
<1> DEFINE f == [y \in Byte |-> GfMul(Double(x), y)]
           g == [y \in Byte |-> Double(GfMul(x, y))]
<1>1. Double(x) \in Byte /\ \A y, z \in Byte : GfAdd(y, z) \in Byte
  BY DoubleInByte, SumInByte
<1>2. \A y \in Byte : GfMul(x, y) \in Byte /\ GfMul(Double(x), y) \in Byte
  BY <1>1, ProductInByte
<1>3. f \in [Byte -> Byte] /\ g \in [Byte -> Byte]
  BY <1>2, DoubleInByte
<1>4. Additive(f)
  BY <1>1, Distributes DEF Additive
<1>5. Additive(g)
  <2> SUFFICES ASSUME NEW y \in Byte, NEW z \in Byte
               PROVE  Double(GfMul(x, GfAdd(y, z))) = GfAdd(Double(GfMul(x, y)), Double(GfMul(x, z)))
    BY <1>1 DEF Additive
  <2>1. GfMul(x, GfAdd(y, z)) = GfAdd(GfMul(x, y), GfMul(x, z))
    BY Distributes
  <2> QED
    BY <1>2, <2>1, DoubleAdds
<1>6. ASSUME NEW i \in 0 .. W - 1
      PROVE  f[{i}] = g[{i}]
  <2>1. {i} \in Byte /\ GfMul(Double(x), {i}) = TimesOf(Double(x))[i] /\ GfMul(x, {i}) = TimesOf(x)[i]
    BY <1>1, TimesOneBit
  <2>2. TimesOf(Double(x))[i] = Double(TimesOf(x)[i])
    BY TimesOfDouble
  <2> QED
    BY <2>1, <2>2
<1> HIDE DEF f, g
<1>7. f[a] = g[a]
  BY <1>3, <1>4, <1>5, <1>6, AgreeOnBits
<1>8. GfMul(Double(x), a) = Double(GfMul(x, a))
  BY <1>7 DEF f, g
<1> QED
  BY <1>1, <1>8, Commutes

LEMMA Associates ==
  ASSUME NEW a \in Byte, NEW b \in Byte, NEW c \in Byte
  PROVE  GfMul(GfMul(a, b), c) = GfMul(a, GfMul(b, c))
<1> DEFINE u == TimesOf(b)
           v == TimesOf(GfMul(a, b))
           f == [x \in Byte |-> GfMul(GfMul(a, b), x)]
           g == [x \in Byte |-> GfMul(a, GfMul(b, x))]
           T == {n \in Nat : n < W => v[n] = GfMul(a, u[n])}
<1>1. W \in Nat /\ \A x, y \in Byte : GfAdd(x, y) \in Byte /\ GfMul(x, y) \in Byte
  BY ShamirAssumption, SumInByte, ProductInByte
<1>2. f \in [Byte -> Byte] /\ g \in [Byte -> Byte]
  BY <1>1
<1>3. Additive(f)
  BY <1>1, Distributes DEF Additive
<1>4. Additive(g)
  <2> SUFFICES ASSUME NEW y \in Byte, NEW z \in Byte
               PROVE  GfMul(a, GfMul(b, GfAdd(y, z))) = GfAdd(GfMul(a, GfMul(b, y)), GfMul(a, GfMul(b, z)))
    BY <1>1 DEF Additive
  <2>1. GfMul(b, GfAdd(y, z)) = GfAdd(GfMul(b, y), GfMul(b, z))
    BY Distributes
  <2> QED
    BY <1>1, <2>1, Distributes
<1>5. /\ u[0] = b /\ v[0] = GfMul(a, b) /\ \A i \in 0 .. W - 1 : u[i] \in Byte
      /\ \A i \in 1 .. W - 1 : u[i] = Double(u[i - 1]) /\ v[i] = Double(v[i - 1])
  BY <1>1, TimesAreBytes
<1> HIDE DEF u, v
<1>6. 0 \in T
  BY <1>5
<1>7. ASSUME NEW n \in T PROVE n + 1 \in T
  <2>1. n \in Nat /\ n + 1 \in Nat /\ (n + 1) - 1 = n
    OBVIOUS
  <2> SUFFICES ASSUME n + 1 < W PROVE v[n + 1] = GfMul(a, u[n + 1])
    BY <2>1
  <2>2. n + 1 \in 1 .. W - 1 /\ n \in 0 .. W - 1 /\ v[n] = GfMul(a, u[n])
    BY <1>1, <2>1
  <2>3. u[n + 1] = Double(u[n]) /\ v[n + 1] = Double(v[n]) /\ u[n] \in Byte
    BY <1>5, <2>1, <2>2
  <2> QED
    BY <2>2, <2>3, TimesDouble
<1> HIDE DEF T
<1>8. T = Nat
  <2>1. T \subseteq Nat
    BY DEF T
  <2> QED
    BY <1>6, <1>7, <2>1, FromZeroUp
<1>9. ASSUME NEW i \in 0 .. W - 1
      PROVE  f[{i}] = g[{i}]
  <2>1. i \in T /\ i < W
    BY <1>1, <1>8
  <2>2. v[i] = GfMul(a, u[i])
    BY <2>1 DEF T
  <2>3. {i} \in Byte /\ GfMul(GfMul(a, b), {i}) = v[i] /\ GfMul(b, {i}) = u[i]
    BY <1>1, TimesOneBit DEF u, v
  <2> QED
    BY <2>2, <2>3
<1> HIDE DEF f, g
<1>10. f[c] = g[c]
  BY <1>2, <1>3, <1>4, <1>9, AgreeOnBits
<1> QED
  BY <1>10 DEF f, g

\* x goes from base by one step of F after the other.
Chain(x, n, base, F, V) ==
  x \in [0 .. n -> V] /\ x[0] = base /\ \A i \in 1 .. n : x[i] = F[i][x[i - 1]]

\* h folds F over the numbers up to n, the greatest last.
LeftFolds(h, n, base, F, V) ==
  /\ h[{}] = base
  /\ \A s \in SUBSET (1 .. n) :
       (s # {} /\ h[s \ {Max(s)}] \in V) => h[s] = F[Max(s)][h[s \ {Max(s)}]]

LeftFolded(g, n, base, F, V) ==
  /\ g \in [SUBSET (1 .. n) -> V] /\ g[{}] = base
  /\ \A s \in SUBSET (1 .. n) : s # {} =>
       /\ Max(s) \in 1 .. n /\ g[s \ {Max(s)}] \in V
       /\ g[s] = F[Max(s)][g[s \ {Max(s)}]]

LEMMA LeftFoldsExist ==
  ASSUME NEW n \in Nat, NEW V, NEW base \in V, NEW F \in [1 .. n -> [V -> V]]
  PROVE  \E g : LeftFolded(g, n, base, F, V)
<1> DEFINE S == 1 .. n
<1>1. IsFiniteSet(S) /\ Picks(LastOf(n), S)
  BY EndsPicked
<1>2. PICK g : Folding(g, LastOf(n), F, base, S, V)
  <2>1. F \in [S -> [V -> V]]
    OBVIOUS
  <2> HIDE DEF S
  <2> QED
    BY <1>1, <2>1, FoldsExist
<1>3. g \in [SUBSET S -> V] /\ \A s \in SUBSET S : g[s] = FoldStep(g, LastOf(n), F, base, s)
  BY <1>2 DEF Folding
<1>4. ASSUME NEW s \in SUBSET S, s # {}
      PROVE  /\ Max(s) \in S /\ g[s \ {Max(s)}] \in V
             /\ g[s] = F[Max(s)][g[s \ {Max(s)}]]
  <2>1. LastOf(n)[s] = Max(s) /\ Max(s) \in s
    BY <1>4, HasEnds DEF LastOf
  <2>2. s \ {Max(s)} \in SUBSET S /\ Max(s) \in S
    BY <2>1
  <2> HIDE DEF S
  <2>3. g[s \ {Max(s)}] \in V
    BY <1>3, <2>2
  <2> QED
    BY <1>3, <1>4, <2>1, <2>2, <2>3 DEF FoldStep
<1>5. g[{}] = base
  <2>1. {} \in SUBSET S
    OBVIOUS
  <2> HIDE DEF S
  <2> QED
    BY <1>3, <2>1 DEF FoldStep
<1> QED
  BY <1>3, <1>4, <1>5 DEF LeftFolded

LEMMA FoldIsChain ==
  ASSUME NEW n \in Nat, NEW V, NEW base \in V, NEW F \in [1 .. n -> [V -> V]],
         NEW h, LeftFolds(h, n, base, F, V)
  PROVE  \E x : Chain(x, n, base, F, V) /\ x[n] = h[1 .. n]
<1> DEFINE x == [i \in 0 .. n |-> h[1 .. i]]
           T == {m \in Nat : m <= n => h[1 .. m] \in V}
<1>1. ASSUME NEW i \in 1 .. n
      PROVE  /\ h[1 .. i - 1] \in V => h[1 .. i] = F[i][h[1 .. i - 1]]
  <2>1. LastOf(n)[1 .. i] = i /\ (1 .. i) \ {i} = 1 .. i - 1
    BY LastOfAll
  <2>2. 1 .. i \in SUBSET (1 .. n) /\ 1 .. i # {}
    <3>1. 1 \in 1 .. i
      OBVIOUS
    <3> QED
      BY <3>1
  <2>3. Max(1 .. i) = i
    BY <2>1, <2>2 DEF LastOf
  <2> QED
    BY <2>1, <2>2, <2>3 DEF LeftFolds
<1>2. 1 .. 0 = {}
  OBVIOUS
<1>3. 0 \in T
  BY <1>2 DEF LeftFolds
<1>4. ASSUME NEW m \in T PROVE m + 1 \in T
  <2>1. m \in Nat /\ m + 1 \in Nat /\ (m + 1) - 1 = m
    OBVIOUS
  <2> SUFFICES ASSUME m + 1 <= n PROVE h[1 .. m + 1] \in V
    BY <2>1
  <2>2. m + 1 \in 1 .. n /\ h[1 .. m] \in V
    BY <2>1
  <2>3. h[1 .. m + 1] = F[m + 1][h[1 .. m]]
    BY <1>1, <2>1, <2>2
  <2> QED
    BY <2>2, <2>3
<1> HIDE DEF T
<1>5. T = Nat
  <2>1. T \subseteq Nat
    BY DEF T
  <2> QED
    BY <1>3, <1>4, <2>1, FromZeroUp
<1>6. \A i \in 0 .. n : h[1 .. i] \in V
  BY <1>5 DEF T
<1>7. x \in [0 .. n -> V] /\ x[n] = h[1 .. n]
  BY <1>6
<1>8. x[0] = base
  BY <1>2 DEF LeftFolds
<1>9. ASSUME NEW i \in 1 .. n PROVE x[i] = F[i][x[i - 1]]
  <2>1. i - 1 \in 0 .. n /\ i \in 0 .. n
    OBVIOUS
  <2>2. x[i] = h[1 .. i] /\ x[i - 1] = h[1 .. i - 1] /\ h[1 .. i - 1] \in V
    BY <1>6, <2>1
  <2> HIDE DEF x
  <2> QED
    BY <1>1, <2>2
<1> HIDE DEF x
<1> QED
  BY <1>7, <1>8, <1>9 DEF Chain

LEMMA ChainsExist ==
  ASSUME NEW n \in Nat, NEW V, NEW base \in V, NEW F \in [1 .. n -> [V -> V]]
  PROVE  \E x : Chain(x, n, base, F, V)
<1>1. PICK g : LeftFolded(g, n, base, F, V)
  BY LeftFoldsExist
<1>2. LeftFolds(g, n, base, F, V)
  BY <1>1 DEF LeftFolded, LeftFolds
<1> QED
  BY <1>2, FoldIsChain

-----------------------------------------------------------------------------
\* The products of the first of n factors.
ProductsUpTo(p, n, f) ==
  p \in [0 .. n -> Byte] /\ p[0] = {0} /\ \A i \in 1 .. n : p[i] = GfMul(p[i - 1], f[i])

ProductsOf(f, n) == CHOOSE p : ProductsUpTo(p, n, f)

LEMMA ProductsAre ==
  ASSUME NEW n \in Nat, NEW f \in [1 .. n -> Byte]
  PROVE  ProductsUpTo(ProductsOf(f, n), n, f)
<1> DEFINE F == [i \in 1 .. n |-> [y \in Byte |-> GfMul(y, f[i])]]
<1>1. {0} \in Byte
  BY TimesOfOne
<1>2. F \in [1 .. n -> [Byte -> Byte]] /\ \A i \in 1 .. n, y \in Byte : F[i][y] = GfMul(y, f[i])
  BY ProductInByte
<1> HIDE DEF F
<1>3. PICK p : Chain(p, n, {0}, F, Byte)
  BY <1>1, <1>2, ChainsExist
<1>4. ProductsUpTo(p, n, f)
  <2>1. p \in [0 .. n -> Byte] /\ p[0] = {0}
    BY <1>3 DEF Chain
  <2>2. ASSUME NEW i \in 1 .. n PROVE p[i] = GfMul(p[i - 1], f[i])
    <3>1. i - 1 \in 0 .. n
      OBVIOUS
    <3> QED
      BY <1>2, <1>3, <2>1, <3>1 DEF Chain
  <2> QED
    BY <2>1, <2>2 DEF ProductsUpTo
<1> QED
  BY <1>4 DEF ProductsOf

\* Powers of a, up to the number of bytes.
PowersOf(a) == ProductsOf([i \in 1 .. Cardinality(Byte) |-> a], Cardinality(Byte))

LEMMA BytesFinite ==
  /\ IsFiniteSet(Byte) /\ Cardinality(Byte) \in Nat /\ Cardinality(Byte) = 2 ^ W
<1>1. W \in Nat /\ IsFiniteSet(0 .. W - 1) /\ Cardinality(0 .. W - 1) = W
  <2>1. W \in Nat \ {0}
    BY ShamirAssumption
  <2> QED
    BY <2>1, FS_Interval
<1> QED
  BY <1>1, FS_SUBSET, FS_CardinalityType DEF Byte

LEMMA PowersAre ==
  ASSUME NEW a \in Byte
  PROVE  /\ PowersOf(a) \in [0 .. Cardinality(Byte) -> Byte] /\ PowersOf(a)[0] = {0}
         /\ \A i \in 1 .. Cardinality(Byte) : PowersOf(a)[i] = GfMul(PowersOf(a)[i - 1], a)
<1> DEFINE n == Cardinality(Byte)
           f == [i \in 1 .. n |-> a]
<1>1. n \in Nat
  BY BytesFinite
<1> HIDE DEF n
<1>2. f \in [1 .. n -> Byte] /\ \A i \in 1 .. n : f[i] = a
  OBVIOUS
<1> HIDE DEF f
<1>3. ProductsUpTo(ProductsOf(f, n), n, f)
  BY <1>1, <1>2, ProductsAre
<1> QED
  BY <1>2, <1>3 DEF ProductsUpTo, PowersOf, n, f

LEMMA ProductOfProducts ==
  ASSUME NEW a \in Byte, NEW b \in Byte, NEW c \in Byte, NEW d \in Byte
  PROVE  GfMul(GfMul(a, b), GfMul(c, d)) = GfMul(GfMul(a, c), GfMul(b, d))
<1>1. \A x, y \in Byte : GfMul(x, y) \in Byte
  BY ProductInByte
<1>2. GfMul(GfMul(a, b), GfMul(c, d)) = GfMul(a, GfMul(b, GfMul(c, d)))
  BY <1>1, Associates
<1>3. GfMul(b, GfMul(c, d)) = GfMul(GfMul(b, c), d)
  BY Associates
<1>4. GfMul(b, c) = GfMul(c, b)
  BY Commutes
<1>5. GfMul(GfMul(c, b), d) = GfMul(c, GfMul(b, d))
  BY Associates
<1>6. GfMul(a, GfMul(c, GfMul(b, d))) = GfMul(GfMul(a, c), GfMul(b, d))
  BY <1>1, Associates
<1> QED
  BY <1>2, <1>3, <1>4, <1>5, <1>6

\* g is the product of the members of a set, in whatever order they are taken.
SetProduct(g) ==
  /\ g \in [SUBSET Byte -> Byte] /\ g[{}] = {0}
  /\ \A s \in SUBSET Byte : \A x \in s : g[s] = GfMul(g[s \ {x}], x)

LEMMA SetProductExists == \E g : SetProduct(g)
<1> DEFINE C == [s \in SUBSET Byte |-> CHOOSE x : x \in s]
           F == [x \in Byte |-> [y \in Byte |-> GfMul(y, x)]]
<1>1. IsFiniteSet(Byte) /\ {0} \in Byte /\ \A x, y \in Byte : GfMul(x, y) \in Byte
  BY BytesFinite, TimesOfOne, ProductInByte
<1>2. Picks(C, Byte)
  BY DEF Picks
<1>3. F \in [Byte -> [Byte -> Byte]] /\ \A x, y \in Byte : F[x][y] = GfMul(y, x)
  BY <1>1
<1> HIDE DEF C, F
<1>4. PICK g : Folding(g, C, F, {0}, Byte, Byte)
  BY <1>1, <1>2, <1>3, FoldsExist
<1>5. g \in [SUBSET Byte -> Byte] /\ \A s \in SUBSET Byte : g[s] = FoldStep(g, C, F, {0}, s)
  BY <1>4 DEF Folding
<1>6. g[{}] = {0}
  BY <1>5 DEF FoldStep
<1>7. ASSUME NEW s \in SUBSET Byte, s # {}
      PROVE  C[s] \in s /\ g[s] = GfMul(g[s \ {C[s]}], C[s])
  <2>1. C[s] \in s
    BY <1>2, <1>7 DEF Picks
  <2>2. C[s] \in Byte /\ s \ {C[s]} \in SUBSET Byte
    BY <2>1
  <2>3. g[s \ {C[s]}] \in Byte
    BY <1>5, <2>2
  <2> QED
    BY <1>3, <1>5, <1>7, <2>1, <2>2, <2>3 DEF FoldStep
<1> DEFINE T == {n \in Nat : \A s \in Parts(Byte, n) : \A x \in s : g[s] = GfMul(g[s \ {x}], x)}
<1>8. 0 \in T
  <2>1. \A s \in Parts(Byte, 0) : s = {}
    BY <1>1, NoPartsButEmpty
  <2> QED
    BY <2>1
<1>9. ASSUME NEW n \in T PROVE n + 1 \in T
  <2> SUFFICES ASSUME NEW s \in Parts(Byte, n + 1), NEW x \in s PROVE g[s] = GfMul(g[s \ {x}], x)
    OBVIOUS
  <2> DEFINE p == C[s]
             r == s \ {p}
             t == s \ {x}
             u == (s \ {p}) \ {x}
  <2>1. s \in SUBSET Byte /\ s # {} /\ x \in Byte
    BY DEF Parts
  <2>2. p \in s /\ g[s] = GfMul(g[r], p)
    BY <1>7, <2>1
  <2>3. CASE p = x
    BY <2>2, <2>3
  <2>4. CASE p # x
    <3>1. r \in SUBSET Byte /\ t \in SUBSET Byte /\ u \in SUBSET Byte /\ p \in Byte
      BY <2>1, <2>2
    <3>2. r \in Parts(Byte, n) /\ t \in Parts(Byte, n)
      <4>1. IsFiniteSet(s)
        BY <1>1, <2>1, FS_Subset
      <4>2. Cardinality(r) = Cardinality(s) - 1 /\ Cardinality(t) = Cardinality(s) - 1
        BY <2>2, <4>1, FS_RemoveElement
      <4>3. Cardinality(s) \in Nat /\ Cardinality(s) <= n + 1 /\ n \in Nat
        BY <4>1, FS_CardinalityType DEF Parts
      <4> QED
        BY <3>1, <4>2, <4>3 DEF Parts
    <3>3. x \in r /\ p \in t /\ t \ {p} = u
      BY <2>2, <2>4
    <3>4. g[r] = GfMul(g[u], x) /\ g[t] = GfMul(g[u], p)
      BY <3>2, <3>3
    <3>5. g[u] \in Byte /\ g[t] \in Byte
      BY <1>5, <3>1
    <3> HIDE DEF p, r, t, u
    <3>6. GfMul(GfMul(g[u], x), p) = GfMul(g[u], GfMul(x, p)) /\ GfMul(x, p) = GfMul(p, x)
          /\ GfMul(GfMul(g[u], p), x) = GfMul(g[u], GfMul(p, x))
      BY <2>1, <3>1, <3>5, Associates, Commutes
    <3>7. g[s] = GfMul(g[t], x)
      BY <2>2, <3>4, <3>6
    <3> QED
      BY <3>7 DEF t
  <2> QED
    BY <2>3, <2>4
<1> HIDE DEF T
<1>10. T = Nat
  <2>1. T \subseteq Nat
    BY DEF T
  <2> QED
    BY <1>8, <1>9, <2>1, FromZeroUp
<1>11. PICK n \in Nat : Parts(Byte, n) = SUBSET Byte
  BY <1>1, AllParts
<1>12. \A s \in SUBSET Byte : \A x \in s : g[s] = GfMul(g[s \ {x}], x)
  BY <1>10, <1>11 DEF T
<1> QED
  BY <1>5, <1>6, <1>12 DEF SetProduct

-----------------------------------------------------------------------------
TimesAll(a, s) == {GfMul(a, x) : x \in s}

\* The product of the multiples of a.
LEMMA ProductOfMultiples ==
  ASSUME NEW a \in Byte, a # {}, NEW g, SetProduct(g)
  PROVE  \A s \in SUBSET Byte :
           /\ Cardinality(s) \in 0 .. Cardinality(Byte)
           /\ g[TimesAll(a, s)] = GfMul(PowersOf(a)[Cardinality(s)], g[s])
<1> DEFINE N == Cardinality(Byte)
           p == PowersOf(a)
           T == {n \in Nat : \A s \in SUBSET Byte :
                   Cardinality(s) = n => g[TimesAll(a, s)] = GfMul(p[n], g[s])}
<1>1. /\ N \in Nat /\ {0} \in Byte /\ \A x, y \in Byte : GfMul(x, y) \in Byte
      /\ \A s \in SUBSET Byte : IsFiniteSet(s) /\ Cardinality(s) \in Nat /\ Cardinality(s) <= N
  BY BytesFinite, TimesOfOne, ProductInByte, FS_Subset, FS_CardinalityType
<1>2. /\ p \in [0 .. N -> Byte] /\ p[0] = {0}
      /\ \A i \in 1 .. N : p[i] = GfMul(p[i - 1], a)
  BY PowersAre
<1>3. /\ g \in [SUBSET Byte -> Byte] /\ g[{}] = {0}
      /\ \A s \in SUBSET Byte : \A x \in s : g[s] = GfMul(g[s \ {x}], x)
  BY DEF SetProduct
<1> HIDE DEF N, p
<1>4. 0 \in T
  <2> SUFFICES ASSUME NEW s \in SUBSET Byte, Cardinality(s) = 0
               PROVE  g[TimesAll(a, s)] = GfMul(p[0], g[s])
    OBVIOUS
  <2>1. s = {}
    BY <1>1, FS_EmptySet
  <2>2. TimesAll(a, {}) = {}
    BY DEF TimesAll
  <2>3. GfMul({0}, {0}) = {0}
    BY <1>1, OneMultiplies
  <2> QED
    BY <1>2, <1>3, <2>1, <2>2, <2>3
<1>5. ASSUME NEW n \in T PROVE n + 1 \in T
  <2>1. n \in Nat /\ n + 1 \in Nat /\ (n + 1) - 1 = n
    OBVIOUS
  <2> SUFFICES ASSUME NEW s \in SUBSET Byte, Cardinality(s) = n + 1
               PROVE  g[TimesAll(a, s)] = GfMul(p[n + 1], g[s])
    BY <2>1
  <2>2. s # {}
    <3>1. IsFiniteSet(s) /\ n + 1 # 0
      BY <1>1, <2>1
    <3> QED
      BY <3>1, FS_EmptySet
  <2>3. PICK x \in s : TRUE
    BY <2>2
  <2> DEFINE r == s \ {x}
             ax == GfMul(a, x)
  <2>4. r \in SUBSET Byte /\ x \in Byte /\ ax \in Byte /\ Cardinality(r) = n
    BY <1>1, <2>1, FS_RemoveElement
  <2>5. g[TimesAll(a, r)] = GfMul(p[n], g[r])
    BY <2>4
  <2>6. TimesAll(a, s) \in SUBSET Byte /\ ax \in TimesAll(a, s)
    BY <1>1 DEF TimesAll
  <2>7. TimesAll(a, s) \ {ax} = TimesAll(a, r)
    <3>1. \A y \in s : GfMul(a, y) = GfMul(a, x) => y = x
      BY <2>4, Cancels
    <3> QED
      BY <3>1 DEF TimesAll
  <2>8. g[TimesAll(a, s)] = GfMul(g[TimesAll(a, s) \ {ax}], ax)
    BY <1>3, <2>6
  <2>9. g[s] = GfMul(g[r], x) /\ g[r] \in Byte
    BY <1>3, <2>4
  <2>10. n + 1 \in 1 .. N /\ n \in 0 .. N
    BY <1>1, <2>1
  <2>11. p[n + 1] = GfMul(p[n], a) /\ p[n] \in Byte
    BY <1>2, <2>1, <2>10
  <2> HIDE DEF r, ax
  <2>12. g[TimesAll(a, s)] = GfMul(GfMul(p[n], g[r]), ax)
    BY <2>5, <2>7, <2>8
  <2>13. GfMul(GfMul(p[n], g[r]), GfMul(a, x)) = GfMul(GfMul(p[n], a), GfMul(g[r], x))
    BY <2>4, <2>9, <2>11, ProductOfProducts
  <2> QED
    BY <2>9, <2>11, <2>12, <2>13 DEF ax
<1> HIDE DEF T
<1>6. T = Nat
  <2>1. T \subseteq Nat
    BY DEF T
  <2> QED
    BY <1>4, <1>5, <2>1, FromZeroUp
<1>7. ASSUME NEW s \in SUBSET Byte
      PROVE  g[TimesAll(a, s)] = GfMul(p[Cardinality(s)], g[s])
  <2>1. Cardinality(s) \in T
    BY <1>1, <1>6
  <2> QED
    BY <2>1 DEF T
<1> QED
  BY <1>1, <1>7 DEF p, N

NonZero == Byte \ {{}}

\* a permutes the bytes that are not zero.
LEMMA MultiplesAreAll ==
  ASSUME NEW a \in NonZero
  PROVE  TimesAll(a, NonZero) = NonZero
<1> DEFINE f == [x \in NonZero |-> GfMul(a, x)]
           M == TimesAll(a, NonZero)
<1>1. IsFiniteSet(NonZero) /\ Cardinality(NonZero) \in Nat
  BY BytesFinite, FS_Subset, FS_CardinalityType DEF NonZero
<1>2. M \subseteq NonZero
  <2> SUFFICES ASSUME NEW x \in NonZero PROVE GfMul(a, x) \in NonZero
    BY DEF TimesAll
  <2>1. GfMul(a, x) \in Byte
    BY ProductInByte DEF NonZero
  <2>2. GfMul(a, x) # {}
    BY ShamirAssumption DEF NonZero
  <2> QED
    BY <2>1, <2>2 DEF NonZero
<1>3. f \in Bijection(NonZero, M)
  <2>1. f \in Surjection(NonZero, M)
    BY DEF TimesAll, Surjection
  <2>2. \A x, y \in NonZero : GfMul(a, x) = GfMul(a, y) => x = y
    BY Cancels DEF NonZero
  <2>3. f \in Injection(NonZero, M)
    BY <2>2 DEF TimesAll, Injection, IsInjective
  <2> QED
    BY <2>1, <2>3 DEF Bijection
<1>4. Cardinality(M) = Cardinality(NonZero)
  BY <1>1, <1>3, FS_Bijection DEF ExistsBijection
<1> HIDE DEF M
<1>5. M = NonZero
  BY <1>1, <1>2, <1>4, FS_Subset
<1> QED
  BY <1>5 DEF M

\* Fermat's little theorem.
LEMMA PowersReturn ==
  ASSUME NEW a \in NonZero
  PROVE  Cardinality(Byte) - 1 \in Nat /\ PowersOf(a)[Cardinality(Byte) - 1] = {0}
<1> DEFINE N == Cardinality(Byte)
<1>1. PICK g : SetProduct(g)
  BY SetProductExists
<1>2. a \in Byte /\ a # {} /\ {} \in Byte /\ {0} \in Byte /\ NonZero \in SUBSET Byte
  BY TimesOfOne DEF NonZero, Byte
<1>3. N \in Nat /\ IsFiniteSet(Byte) /\ Cardinality(NonZero) = N - 1 /\ Cardinality(NonZero) \in Nat
  BY <1>2, BytesFinite, FS_RemoveElement, FS_CardinalityType DEF NonZero
<1>4. g[NonZero] = GfMul(PowersOf(a)[N - 1], g[NonZero])
  <2>1. g[TimesAll(a, NonZero)] = GfMul(PowersOf(a)[Cardinality(NonZero)], g[NonZero])
    BY <1>1, <1>2, ProductOfMultiples
  <2> QED
    BY <1>3, <2>1, MultiplesAreAll
<1>5. /\ g \in [SUBSET Byte -> Byte] /\ g[{}] = {0}
      /\ \A s \in SUBSET Byte : \A x \in s : g[s] = GfMul(g[s \ {x}], x)
  BY <1>1 DEF SetProduct
<1>6. g[NonZero] # {}
  <2> DEFINE T == {n \in Nat : \A s \in Parts(NonZero, n) : g[s] # {}}
  <2>1. IsFiniteSet(NonZero)
    BY BytesFinite, FS_Subset DEF NonZero
  <2>2. 0 \in T
    <3>1. \A s \in Parts(NonZero, 0) : s = {}
      BY <2>1, NoPartsButEmpty
    <3> QED
      BY <1>5, <3>1
  <2>3. ASSUME NEW n \in T PROVE n + 1 \in T
    <3> SUFFICES ASSUME NEW s \in Parts(NonZero, n + 1) PROVE g[s] # {}
      OBVIOUS
    <3>1. CASE s = {}
      BY <1>5, <3>1
    <3>2. CASE s # {}
      <4>1. PICK x \in s : TRUE
        BY <3>2
      <4>2. s \in SUBSET NonZero /\ s \ {x} \in SUBSET NonZero /\ x \in NonZero
        BY DEF Parts
      <4>3. Cardinality(s) \in Nat /\ Cardinality(s \ {x}) = Cardinality(s) - 1
        BY <2>1, <4>1, <4>2, FS_Subset, FS_RemoveElement, FS_CardinalityType
      <4>4. s \ {x} \in Parts(NonZero, n)
        BY <4>2, <4>3 DEF Parts
      <4>5. g[s \ {x}] # {} /\ g[s \ {x}] \in Byte /\ x \in Byte /\ x # {}
        BY <1>5, <4>2, <4>4 DEF NonZero
      <4>6. g[s] = GfMul(g[s \ {x}], x)
        BY <1>5, <4>1, <4>2 DEF NonZero
      <4> QED
        BY <4>5, <4>6, ShamirAssumption
    <3> QED
      BY <3>1, <3>2
  <2> HIDE DEF T
  <2>4. T = Nat
    <3>1. T \subseteq Nat
      BY DEF T
    <3> QED
      BY <2>2, <2>3, <3>1, FromZeroUp
  <2>5. PICK n \in Nat : Parts(NonZero, n) = SUBSET NonZero
    BY <2>1, AllParts
  <2> QED
    BY <2>4, <2>5 DEF T
<1>7. g[NonZero] \in Byte
  BY <1>2, <1>5
<1>8. PowersOf(a)[N - 1] \in Byte
  <2>1. PowersOf(a) \in [0 .. N -> Byte]
    BY <1>2, PowersAre
  <2> QED
    BY <1>3, <2>1
<1> HIDE DEF N
<1>9. GfMul(g[NonZero], PowersOf(a)[N - 1]) = GfMul(g[NonZero], {0})
  <2>1. GfMul(g[NonZero], {0}) = g[NonZero]
    BY <1>7, OneMultiplies
  <2> QED
    BY <1>4, <1>7, <1>8, <2>1, Commutes
<1>10. PowersOf(a)[N - 1] = {0}
  BY <1>2, <1>6, <1>7, <1>8, <1>9, Cancels
<1> QED
  BY <1>3, <1>10 DEF N

\* The powers of two.
Twos == [n \in Nat |-> 2 ^ n]

LEMMA TwosDouble ==
  /\ Twos[0] = 1 /\ Twos[1] = 2
  /\ \A n \in Nat : Twos[n] \in Nat \ {0} /\ Twos[n + 1] = Twos[n] + Twos[n]
<1> DEFINE Set(n) == 0 .. n - 1
<1>1. ASSUME NEW n \in Nat
      PROVE  IsFiniteSet(SUBSET Set(n)) /\ Cardinality(SUBSET Set(n)) = Twos[n] /\ Twos[n] \in Nat
  <2>1. IsFiniteSet(Set(n)) /\ Cardinality(Set(n)) = n
    BY FS_Interval
  <2>2. IsFiniteSet(SUBSET Set(n)) /\ Cardinality(SUBSET Set(n)) = 2 ^ n
    BY <2>1, FS_SUBSET
  <2>3. Cardinality(SUBSET Set(n)) \in Nat
    BY <2>2, FS_CardinalityType
  <2> HIDE DEF Set
  <2> QED
    BY <2>2, <2>3 DEF Twos
<1>2. Twos[0] = 1
  BY DEF Twos
<1>3. ASSUME NEW n \in Nat PROVE Twos[n + 1] = Twos[n] + Twos[n]
  <2> DEFINE A == SUBSET Set(n)
             B == {s \cup {n} : s \in A}
             f == [s \in A |-> s \cup {n}]
  <2>1. n + 1 \in Nat /\ n \notin Set(n) /\ Set(n + 1) = Set(n) \cup {n}
    OBVIOUS
  <2>2. f \in Bijection(A, B)
    <3>1. \A s, t \in A : s \cup {n} = t \cup {n} => s = t
      BY <2>1
    <3>2. f \in [A -> B]
      OBVIOUS
    <3>3. f \in Injection(A, B)
      BY <3>1, <3>2 DEF Injection, IsInjective
    <3>4. \A b \in B : \E s \in A : f[s] = b
      OBVIOUS
    <3>5. f \in Surjection(A, B)
      BY <3>2, <3>4 DEF Surjection
    <3> QED
      BY <3>3, <3>5 DEF Bijection
  <2>3. IsFiniteSet(A) /\ Cardinality(A) = Twos[n] /\ Twos[n] \in Nat
    BY <1>1
  <2>4. IsFiniteSet(B) /\ Cardinality(B) = Twos[n]
    BY <2>2, <2>3, FS_Bijection DEF ExistsBijection
  <2>5. A \cap B = {} /\ A \cup B = SUBSET Set(n + 1)
    <3> HIDE DEF Set
    <3>1. A \cap B = {}
      BY <2>1
    <3>2. ASSUME NEW s \in SUBSET Set(n + 1) PROVE s \in A \cup B
      <4>1. CASE n \in s
        <5>1. s \ {n} \in A /\ s = (s \ {n}) \cup {n}
          BY <2>1, <4>1
        <5> QED
          BY <5>1
      <4>2. CASE n \notin s
        BY <2>1, <4>2
      <4> QED
        BY <4>1, <4>2
    <3>3. A \cup B \subseteq SUBSET Set(n + 1)
      BY <2>1
    <3> QED
      BY <3>1, <3>2, <3>3
  <2>6. Cardinality({}) = 0 /\ Cardinality(SUBSET Set(n + 1)) = Twos[n + 1]
    BY <1>1, <2>1, FS_EmptySet
  <2> HIDE DEF A, B, Set
  <2>7. Cardinality(A \cup B) = Cardinality(A) + Cardinality(B) - Cardinality(A \cap B)
    BY <2>3, <2>4, FS_Union
  <2>8. Cardinality(A \cap B) = 0
    BY <2>5, <2>6
  <2>9. Cardinality(A \cup B) = Twos[n + 1]
    BY <2>5, <2>6
  <2> QED
    BY <2>3, <2>4, <2>7, <2>8, <2>9
<1>4. Twos[1] = 2
  BY <1>2, <1>3
<1>5. \A n \in Nat : Twos[n] # 0
  <2> DEFINE T == {n \in Nat : Twos[n] # 0}
  <2>1. 0 \in T
    BY <1>2
  <2>2. ASSUME NEW n \in T PROVE n + 1 \in T
    <3>1. n \in Nat /\ n + 1 \in Nat /\ Twos[n] # 0
      OBVIOUS
    <3>2. Twos[n] \in Nat /\ Twos[n + 1] = Twos[n] + Twos[n]
      BY <1>1, <1>3, <3>1
    <3> HIDE DEF T
    <3>3. Twos[n + 1] # 0
      BY <3>1, <3>2
    <3> QED
      BY <3>1, <3>3 DEF T
  <2> HIDE DEF T
  <2>3. T = Nat
    <3>1. T \subseteq Nat
      BY DEF T
    <3> QED
      BY <2>1, <2>2, <3>1, FromZeroUp
  <2> QED
    BY <2>3 DEF T
<1> QED
  BY <1>1, <1>2, <1>3, <1>4, <1>5

LEMMA TwosGrow ==
  ASSUME NEW n \in Nat, NEW i \in 0 .. n
  PROVE  Twos[i] <= Twos[n]
<1> DEFINE T == {m \in Nat : \A j \in 0 .. m : Twos[j] <= Twos[m]}
<1>1. 0 \in T
  BY TwosDouble
<1>2. ASSUME NEW m \in T PROVE m + 1 \in T
  <2> SUFFICES ASSUME NEW j \in 0 .. m + 1 PROVE Twos[j] <= Twos[m + 1]
    OBVIOUS
  <2>1. m \in Nat /\ m + 1 \in Nat /\ j \in Nat
    OBVIOUS
  <2>2. Twos[m] \in Nat /\ Twos[j] \in Nat /\ Twos[m + 1] = Twos[m] + Twos[m]
    BY <2>1, TwosDouble
  <2>3. CASE j = m + 1
    BY <2>2, <2>3
  <2>4. CASE j # m + 1
    <3>1. j \in 0 .. m
      BY <2>1, <2>4
    <3>2. Twos[j] <= Twos[m]
      BY <3>1
    <3> QED
      BY <2>2, <3>2
  <2> QED
    BY <2>3, <2>4
<1> HIDE DEF T
<1>3. T = Nat
  <2>1. T \subseteq Nat
    BY DEF T
  <2> QED
    BY <1>1, <1>2, <2>1, FromZeroUp
<1> QED
  BY <1>3 DEF T

-----------------------------------------------------------------------------
LEMMA PowersAdd ==
  ASSUME NEW a \in Byte, NEW m \in Nat, NEW n \in Nat, m + n <= Cardinality(Byte)
  PROVE  PowersOf(a)[m + n] = GfMul(PowersOf(a)[m], PowersOf(a)[n])
<1> DEFINE N == Cardinality(Byte)
           p == PowersOf(a)
           T == {k \in Nat : m + k <= N => p[m + k] = GfMul(p[m], p[k])}
<1>1. N \in Nat
  BY BytesFinite
<1>2. /\ p \in [0 .. N -> Byte] /\ p[0] = {0}
      /\ \A i \in 1 .. N : p[i] = GfMul(p[i - 1], a)
  BY PowersAre
<1> HIDE DEF N, p
<1>3. 0 \in T
  <2> SUFFICES ASSUME m + 0 <= N PROVE p[m + 0] = GfMul(p[m], p[0])
    OBVIOUS
  <2>1. m + 0 = m /\ m \in 0 .. N
    BY <1>1
  <2>2. GfMul(p[m], {0}) = p[m]
    BY <1>2, <2>1, OneMultiplies
  <2> QED
    BY <1>2, <2>1, <2>2
<1>4. ASSUME NEW k \in T PROVE k + 1 \in T
  <2>1. k \in Nat /\ k + 1 \in Nat /\ (k + 1) - 1 = k
    OBVIOUS
  <2> SUFFICES ASSUME m + (k + 1) <= N PROVE p[m + (k + 1)] = GfMul(p[m], p[k + 1])
    BY <2>1
  <2>2. /\ m + (k + 1) \in 1 .. N /\ (m + (k + 1)) - 1 = m + k /\ k + 1 \in 1 .. N
        /\ m \in 0 .. N /\ k \in 0 .. N /\ m + k <= N
    BY <1>1, <2>1
  <2>3. p[m + (k + 1)] = GfMul(p[m + k], a) /\ p[k + 1] = GfMul(p[k], a)
    BY <1>2, <2>1, <2>2
  <2>4. p[m + k] = GfMul(p[m], p[k])
    BY <2>2
  <2>5. p[m] \in Byte /\ p[k] \in Byte
    BY <1>2, <2>2
  <2> QED
    BY <2>3, <2>4, <2>5, Associates
<1> HIDE DEF T
<1>5. T = Nat
  <2>1. T \subseteq Nat
    BY DEF T
  <2> QED
    BY <1>3, <1>4, <2>1, FromZeroUp
<1>6. n \in T /\ m + n <= N
  BY <1>5 DEF N
<1> QED
  BY <1>6 DEF T, N, p

SquaresOf(a) ==
  CHOOSE t : t = [i \in 0 .. W - 1 |-> IF i = 0 THEN a ELSE GfMul(t[i - 1], t[i - 1])]

LEMMA InverseIsFold ==
  ASSUME NEW a \in Byte
  PROVE  LET q == [i \in 1 .. W - 1 |-> i]
             h == CHOOSE h : h = [s \in SUBSET DOMAIN q |->
                    IF s = {} THEN {0} ELSE GfMul(h[s \ {Max(s)}], SquaresOf(a)[q[Max(s)]])]
         IN  GfInv(a) = h[DOMAIN q]
BY Zenon DEF GfInv, Inverses, FoldLeft, MapThenFoldSet, SquaresOf

\* The squarings of gf_inv are powers.
LEMMA SquaresArePowers ==
  ASSUME NEW a \in Byte
  PROVE  \A i \in 0 .. W - 1 : /\ Twos[i] \in 0 .. Cardinality(Byte)
                               /\ SquaresOf(a)[i] = PowersOf(a)[Twos[i]]
                               /\ SquaresOf(a)[i] \in Byte
<1> DEFINE N == Cardinality(Byte)
           p == PowersOf(a)
           e == [i \in 0 .. W - 1 |-> p[Twos[i]]]
           is(u) == u = [i \in 0 .. W - 1 |-> IF i = 0 THEN a ELSE GfMul(u[i - 1], u[i - 1])]
<1>1. W \in Nat \ {0} /\ N \in Nat /\ N = Twos[W]
  BY ShamirAssumption, BytesFinite DEF Twos
<1>2. /\ p \in [0 .. N -> Byte] /\ p[0] = {0}
      /\ \A i \in 1 .. N : p[i] = GfMul(p[i - 1], a)
  BY PowersAre
<1>3. \A i, j \in Nat : i + j <= N => p[i + j] = GfMul(p[i], p[j])
  BY PowersAdd
<1> HIDE DEF N, p
<1>4. \A i \in 0 .. W : Twos[i] \in 0 .. N
  <2> SUFFICES ASSUME NEW i \in 0 .. W PROVE Twos[i] \in 0 .. N
    OBVIOUS
  <2>1. i \in Nat /\ W \in Nat
    BY <1>1
  <2>2. Twos[i] \in Nat /\ Twos[i] <= Twos[W]
    BY <2>1, TwosDouble, TwosGrow
  <2> QED
    BY <1>1, <2>2
<1>5. p[Twos[0]] = a
  <2>1. 1 \in 1 .. N
    <3>1. Twos[0] \in 0 .. N
      BY <1>1, <1>4
    <3> QED
      BY <1>1, <3>1, TwosDouble
  <2>2. p[1] = GfMul(p[1 - 1], a) /\ 1 - 1 = 0
    BY <1>2, <2>1
  <2>3. p[1] = GfMul({0}, a) /\ {0} \in Byte
    BY <1>2, <2>2, TimesOfOne
  <2> QED
    BY <2>3, TwosDouble, OneMultiplies, Commutes
<1>6. is(e)
  <2> SUFFICES ASSUME NEW i \in 0 .. W - 1
               PROVE  e[i] = IF i = 0 THEN a ELSE GfMul(e[i - 1], e[i - 1])
    OBVIOUS
  <2>1. CASE i = 0
    BY <1>5, <2>1
  <2>2. CASE i # 0
    <3>1. i - 1 \in Nat /\ i - 1 \in 0 .. W - 1 /\ i \in 0 .. W /\ (i - 1) + 1 = i
      BY <1>1, <2>2
    <3>2. Twos[i] = Twos[i - 1] + Twos[i - 1] /\ Twos[i] \in 0 .. N /\ Twos[i - 1] \in Nat
      BY <1>4, <3>1, TwosDouble
    <3>3. p[Twos[i - 1] + Twos[i - 1]] = GfMul(p[Twos[i - 1]], p[Twos[i - 1]])
      BY <1>1, <1>3, <3>2
    <3> QED
      BY <2>2, <3>1, <3>2, <3>3
  <2> QED
    BY <2>1, <2>2
<1> HIDE DEF e
<1> DEFINE t == CHOOSE t : is(t)
<1>7. is(t)
  BY <1>6
<1>8. t = SquaresOf(a)
  BY DEF SquaresOf
<1> HIDE DEF t
<1> DEFINE T == {n \in Nat : n < W => t[n] = p[Twos[n]]}
<1>9. 0 \in T
  <2>1. 0 \in 0 .. W - 1
    BY <1>1
  <2>2. t[0] = a
    BY <1>7, <2>1
  <2> QED
    BY <1>5, <2>2
<1>10. ASSUME NEW n \in T PROVE n + 1 \in T
  <2>1. n \in Nat /\ n + 1 \in Nat /\ (n + 1) - 1 = n
    OBVIOUS
  <2> SUFFICES ASSUME n + 1 < W PROVE t[n + 1] = p[Twos[n + 1]]
    BY <2>1
  <2>2. n + 1 \in 0 .. W - 1 /\ n + 1 # 0 /\ t[n] = p[Twos[n]] /\ n \in 0 .. W - 1
    BY <1>1, <2>1
  <2>3. t[n + 1] = GfMul(t[n], t[n])
    BY <1>7, <2>1, <2>2
  <2>4. e[n + 1] = GfMul(e[n], e[n])
    BY <1>6, <2>1, <2>2
  <2> QED
    BY <2>2, <2>3, <2>4 DEF e
<1> HIDE DEF T
<1>11. T = Nat
  <2>1. T \subseteq Nat
    BY DEF T
  <2> QED
    BY <1>9, <1>10, <2>1, FromZeroUp
<1>12. ASSUME NEW i \in 0 .. W - 1
       PROVE  t[i] = p[Twos[i]] /\ Twos[i] \in 0 .. N
  <2>1. i \in T /\ i < W /\ i \in 0 .. W
    BY <1>1, <1>11
  <2> QED
    BY <1>4, <2>1 DEF T
<1> QED
  BY <1>2, <1>8, <1>12 DEF p, N

\* gf_inv goes through the powers whose exponents are two less than powers of two.
LEMMA InverseChain ==
  ASSUME NEW a \in Byte
  PROVE  \E x : /\ x \in [0 .. W - 1 -> Byte] /\ x[0] = {0} /\ x[W - 1] = GfInv(a)
                /\ \A i \in 1 .. W - 1 : x[i] = GfMul(x[i - 1], SquaresOf(a)[i])
<1> DEFINE n == W - 1
           S == 1 .. n
           q == [i \in S |-> i]
           v == SquaresOf(a)
           F == [i \in S |-> [y \in Byte |-> GfMul(y, v[i])]]
           is(h) == h = [s \in SUBSET S |-> IF s = {} THEN {0} ELSE GfMul(h[s \ {Max(s)}], v[q[Max(s)]])]
<1>1. n \in Nat /\ \A i \in S : v[i] \in Byte
  BY ShamirAssumption, SquaresArePowers
<1>2. {0} \in Byte /\ \A x, y \in Byte : GfMul(x, y) \in Byte
  BY TimesOfOne, ProductInByte
<1>3. DOMAIN q = S
  OBVIOUS
<1>4. GfInv(a) = (CHOOSE h : is(h))[S]
  BY <1>3, InverseIsFold
<1> HIDE DEF v, n
<1>5. F \in [1 .. n -> [Byte -> Byte]] /\ \A i \in S, y \in Byte : F[i][y] = GfMul(y, v[i])
  BY <1>1, <1>2
<1>6. \A i \in S : q[i] = i
  OBVIOUS
<1> HIDE DEF F, q
<1>7. PICK g : LeftFolded(g, n, {0}, F, Byte)
  BY <1>1, <1>2, <1>5, LeftFoldsExist
<1>8. is(g)
  <2>1. /\ g \in [SUBSET S -> Byte] /\ g[{}] = {0}
        /\ \A s \in SUBSET S : s # {} =>
             /\ Max(s) \in S /\ g[s \ {Max(s)}] \in Byte
             /\ g[s] = F[Max(s)][g[s \ {Max(s)}]]
    BY <1>7 DEF LeftFolded
  <2> HIDE DEF S
  <2>2. ASSUME NEW s \in SUBSET S
        PROVE  g[s] = IF s = {} THEN {0} ELSE GfMul(g[s \ {Max(s)}], v[q[Max(s)]])
    BY <1>5, <1>6, <2>1
  <2> QED
    BY <2>1, <2>2
<1> DEFINE h == CHOOSE h : is(h)
<1>9. is(h) /\ GfInv(a) = h[S]
  BY <1>4, <1>8
<1> HIDE DEF h
<1>10. LeftFolds(h, n, {0}, F, Byte)
  <2>1. h[{}] = {0}
    BY <1>9
  <2>2. ASSUME NEW s \in SUBSET S, s # {}, h[s \ {Max(s)}] \in Byte
        PROVE  h[s] = F[Max(s)][h[s \ {Max(s)}]]
    <3>1. Max(s) \in S
      <4>1. Max(s) \in s
        BY <1>1, <2>2, HasEnds
      <4> QED
        BY <4>1
    <3>2. h[s] = GfMul(h[s \ {Max(s)}], v[q[Max(s)]])
      BY <1>9, <2>2
    <3> HIDE DEF S
    <3> QED
      BY <1>5, <1>6, <2>2, <3>1, <3>2
  <2> QED
    BY <2>1, <2>2 DEF LeftFolds
<1>11. PICK x : Chain(x, n, {0}, F, Byte) /\ x[n] = h[1 .. n]
  BY <1>1, <1>2, <1>5, <1>10, FoldIsChain
<1>12. x \in [0 .. n -> Byte] /\ x[0] = {0} /\ x[n] = GfInv(a)
  BY <1>9, <1>11 DEF Chain
<1>13. ASSUME NEW i \in S PROVE x[i] = GfMul(x[i - 1], v[i])
  <2>1. i - 1 \in 0 .. n
    BY <1>1
  <2>2. x[i] = F[i][x[i - 1]] /\ x[i - 1] \in Byte
    BY <1>11, <1>12, <2>1 DEF Chain
  <2> QED
    BY <1>5, <2>2
<1> QED
  BY <1>12, <1>13 DEF v, n

\* gf_inv inverts.
THEOREM Inverts ==
  ASSUME NEW a \in NonZero
  PROVE  /\ GfInv(a) \in Byte /\ GfMul(a, GfInv(a)) = {0} /\ GfMul(GfInv(a), a) = {0}
         /\ GfInv(a) # {}
<1> DEFINE N == Cardinality(Byte)
           p == PowersOf(a)
<1>1. a \in Byte /\ {0} \in Byte /\ a # {}
  BY TimesOfOne DEF NonZero
<1>2. W \in Nat \ {0} /\ N \in Nat /\ N = Twos[W]
  BY ShamirAssumption, BytesFinite DEF Twos
<1>3. /\ p \in [0 .. N -> Byte] /\ p[0] = {0}
      /\ \A i \in 1 .. N : p[i] = GfMul(p[i - 1], a)
  BY <1>1, PowersAre
<1>4. p[N - 1] = {0}
  BY PowersReturn
<1>5. \A i, j \in Nat : i + j <= N => p[i + j] = GfMul(p[i], p[j])
  BY <1>1, PowersAdd
<1>6. \A i \in 0 .. W - 1 : Twos[i] \in 0 .. N /\ SquaresOf(a)[i] = p[Twos[i]]
  BY <1>1, SquaresArePowers
<1>7. PICK x : /\ x \in [0 .. W - 1 -> Byte] /\ x[0] = {0} /\ x[W - 1] = GfInv(a)
               /\ \A i \in 1 .. W - 1 : x[i] = GfMul(x[i - 1], SquaresOf(a)[i])
  BY <1>1, InverseChain
<1> HIDE DEF N, p
<1>8. \A i \in Nat : /\ Twos[i] \in Nat \ {0} /\ Twos[i + 1] = Twos[i] + Twos[i]
                     /\ Twos[i + 1] - 2 \in Nat
  <2> SUFFICES ASSUME NEW i \in Nat
               PROVE  /\ Twos[i] \in Nat \ {0} /\ Twos[i + 1] = Twos[i] + Twos[i]
                      /\ Twos[i + 1] - 2 \in Nat
    OBVIOUS
  <2>1. Twos[i] \in Nat \ {0} /\ Twos[i + 1] = Twos[i] + Twos[i]
    BY TwosDouble
  <2> QED
    BY <2>1
<1>9. \A i \in 0 .. W : Twos[i] <= N
  BY <1>2, TwosGrow
<1> DEFINE T == {n \in Nat : n < W => x[n] = p[Twos[n + 1] - 2]}
<1>10. 0 \in T
  <2>1. Twos[0 + 1] - 2 = 0
    BY TwosDouble
  <2> QED
    BY <1>3, <1>7, <2>1
<1>11. ASSUME NEW n \in T PROVE n + 1 \in T
  <2>1. n \in Nat /\ n + 1 \in Nat /\ (n + 1) - 1 = n
    OBVIOUS
  <2> SUFFICES ASSUME n + 1 < W PROVE x[n + 1] = p[Twos[(n + 1) + 1] - 2]
    BY <2>1
  <2>2. /\ n + 1 \in 1 .. W - 1 /\ x[n] = p[Twos[n + 1] - 2] /\ n + 1 \in 0 .. W - 1
        /\ (n + 1) + 1 \in 0 .. W
    BY <1>2, <2>1
  <2>3. x[n + 1] = GfMul(x[n], p[Twos[n + 1]])
    BY <1>6, <1>7, <2>1, <2>2
  <2>4. /\ Twos[(n + 1) + 1] = Twos[n + 1] + Twos[n + 1] /\ Twos[(n + 1) + 1] <= N
        /\ Twos[n + 1] \in Nat /\ Twos[n + 1] - 2 \in Nat
    BY <1>8, <1>9, <2>1, <2>2
  <2>5. (Twos[n + 1] - 2) + Twos[n + 1] = Twos[(n + 1) + 1] - 2
    BY <2>4
  <2>6. (Twos[n + 1] - 2) + Twos[n + 1] <= N
    BY <1>2, <2>4
  <2>7. p[(Twos[n + 1] - 2) + Twos[n + 1]] = GfMul(p[Twos[n + 1] - 2], p[Twos[n + 1]])
    BY <1>5, <2>4, <2>6
  <2> QED
    BY <2>2, <2>3, <2>5, <2>7
<1> HIDE DEF T
<1>12. T = Nat
  <2>1. T \subseteq Nat
    BY DEF T
  <2> QED
    BY <1>10, <1>11, <2>1, FromZeroUp
<1>13. GfInv(a) = p[N - 2] /\ N - 2 \in Nat
  <2>1. W - 1 \in T /\ W - 1 < W /\ (W - 1) + 1 = W /\ W - 1 \in Nat
    BY <1>2, <1>12
  <2>2. x[W - 1] = p[Twos[W] - 2] /\ Twos[W] - 2 \in Nat
    BY <1>8, <2>1 DEF T
  <2> QED
    BY <1>2, <1>7, <2>2
<1>14. GfInv(a) \in Byte
  <2>1. N - 2 \in 0 .. N
    BY <1>2, <1>13
  <2> QED
    BY <1>3, <1>13, <2>1
<1>15. GfMul(GfInv(a), a) = {0}
  <2>1. N - 1 \in 1 .. N /\ (N - 1) - 1 = N - 2
    BY <1>2, <1>13
  <2>2. p[N - 1] = GfMul(p[N - 2], a)
    BY <1>3, <2>1
  <2> QED
    BY <1>4, <1>13, <2>2
<1>16. GfMul(a, GfInv(a)) = {0}
  BY <1>1, <1>14, <1>15, Commutes
<1>17. GfInv(a) # {}
  <2>1. GfMul(a, {}) = {}
    <3>1. {} \in Byte /\ GfAdd({}, {}) = {}
      BY DEF Byte, GfAdd
    <3>2. GfMul(a, GfAdd({}, {})) = GfAdd(GfMul(a, {}), GfMul(a, {}))
      BY <1>1, <3>1, Distributes
    <3> QED
      BY <3>1, <3>2, SumLaws
  <2> QED
    BY <1>16, <2>1
<1> QED
  BY <1>14, <1>15, <1>16, <1>17

LEMMA DivBounds ==
  ASSUME NEW x \in Nat, NEW m \in Nat \ {0}
  PROVE  x \div m \in Nat /\ m * (x \div m) <= x /\ x < m * (x \div m) + m
<1>1. x \div m \in Int /\ x % m \in 0 .. m - 1
  OBVIOUS
<1>2. x = m * (x \div m) + (x % m)
  OBVIOUS
<1>3. x \div m >= 0
  OBVIOUS
<1> QED
  BY <1>1, <1>2, <1>3

LEMMA DivOfHalf ==
  ASSUME NEW x \in Nat, NEW m \in Nat \ {0}
  PROVE  (x \div 2) \div m = x \div (m + m)
<1> DEFINE h == x \div 2
           q == h \div m
           k == x \div (m + m)
           P == m * q
           Q == m * k
<1>1. h \in Nat /\ 2 * h <= x /\ x < 2 * h + 2
  BY DivBounds
<1>2. q \in Nat /\ P <= h /\ h < P + m /\ P \in Nat
  BY <1>1, DivBounds
<1>3. m + m \in Nat \ {0} /\ (m + m) * k = Q + Q /\ k \in Nat /\ Q \in Nat
  <2>1. m + m \in Nat \ {0}
    OBVIOUS
  <2>2. k \in Nat
    BY <2>1, DivBounds
  <2> HIDE DEF k
  <2> QED
    BY <2>1, <2>2
<1>4. Q + Q <= x /\ x < Q + Q + m + m
  <2>1. (m + m) * k <= x /\ x < (m + m) * k + (m + m)
    BY <1>3, DivBounds
  <2> HIDE DEF k, Q
  <2> QED
    BY <1>3, <2>1
<1> HIDE DEF h, q, k
<1>5. \A a, b \in Nat : a < b => m * a + m <= m * b
  <2> SUFFICES ASSUME NEW a \in Nat, NEW b \in Nat, a < b PROVE m * a + m <= m * b
    OBVIOUS
  <2>1. PICK d \in Nat : b = a + 1 + d
    <3>1. b - a - 1 \in Nat /\ b = a + 1 + (b - a - 1)
      OBVIOUS
    <3> QED
      BY <3>1
  <2>2. m * (a + 1 + d) = m * a + m + m * d
    OBVIOUS
  <2>3. m * d \in Nat /\ m * a \in Nat
    OBVIOUS
  <2> QED
    BY <2>1, <2>2, <2>3
<1>6. (q < k => P + m <= Q) /\ (k < q => Q + m <= P)
  BY <1>2, <1>3, <1>5
<1> HIDE DEF P, Q
<1>7. ~ (q < k) /\ ~ (k < q)
  BY <1>1, <1>2, <1>3, <1>4, <1>6
<1> QED
  BY <1>2, <1>3, <1>7 DEF q, h, k

\* The digits of a number below 2^n tell it.
LEMMA DigitsTell ==
  ASSUME NEW n \in Nat, NEW x \in Nat, NEW y \in Nat, x < Twos[n], y < Twos[n],
         \A i \in 0 .. n - 1 : (x \div Twos[i]) % 2 = (y \div Twos[i]) % 2
  PROVE  x = y
<1> DEFINE Same(a, b, m) == \A i \in 0 .. m - 1 : (a \div Twos[i]) % 2 = (b \div Twos[i]) % 2
           T == {m \in Nat : \A a, b \in Nat : a < Twos[m] /\ b < Twos[m] /\ Same(a, b, m) => a = b}
<1>1. 0 \in T
  BY TwosDouble
<1>2. ASSUME NEW m \in T PROVE m + 1 \in T
  <2>1. m \in Nat /\ m + 1 \in Nat /\ Twos[m] \in Nat /\ Twos[m + 1] = Twos[m] + Twos[m]
    BY TwosDouble
  <2> SUFFICES ASSUME NEW a \in Nat, NEW b \in Nat, a < Twos[m + 1], b < Twos[m + 1],
                      Same(a, b, m + 1)
               PROVE  a = b
    BY <2>1
  <2> DEFINE ha == a \div 2
             hb == b \div 2
  <2>2. a = 2 * ha + (a % 2) /\ b = 2 * hb + (b % 2) /\ ha \in Nat /\ hb \in Nat
        /\ a % 2 \in 0 .. 1 /\ b % 2 \in 0 .. 1
    OBVIOUS
  <2>3. a % 2 = b % 2
    <3>1. 0 \in 0 .. (m + 1) - 1 /\ Twos[0] = 1
      BY <2>1, TwosDouble
    <3>2. (a \div 1) % 2 = (b \div 1) % 2
      BY <3>1
    <3> QED
      BY <3>2
  <2>4. ha < Twos[m] /\ hb < Twos[m]
    BY <2>1, <2>2
  <2>5. Same(ha, hb, m)
    <3> SUFFICES ASSUME NEW i \in 0 .. m - 1
                 PROVE  (ha \div Twos[i]) % 2 = (hb \div Twos[i]) % 2
      OBVIOUS
    <3>1. i \in Nat /\ i + 1 \in 0 .. (m + 1) - 1
      BY <2>1
    <3>2. Twos[i] \in Nat \ {0} /\ Twos[i + 1] = Twos[i] + Twos[i]
      BY <3>1, TwosDouble
    <3>3. ha \div Twos[i] = a \div Twos[i + 1] /\ hb \div Twos[i] = b \div Twos[i + 1]
      BY <3>2, DivOfHalf
    <3>4. (a \div Twos[i + 1]) % 2 = (b \div Twos[i + 1]) % 2
      BY <3>1
    <3> QED
      BY <3>3, <3>4
  <2> HIDE DEF ha, hb, Same
  <2>6. ha = hb
    BY <2>2, <2>4, <2>5
  <2> QED
    BY <2>2, <2>3, <2>6
<1> HIDE DEF T
<1>3. T = Nat
  <2>1. T \subseteq Nat
    BY DEF T
  <2> QED
    BY <1>1, <1>2, <2>1, FromZeroUp
<1> QED
  BY <1>3 DEF T

\* The numbers of the shares are different elements, none zero.
LEMMA BitsTell ==
  ASSUME NEW x \in Nat, NEW y \in Nat, x < 2 ^ W, y < 2 ^ W
  PROVE  /\ Bits(x) \in Byte
         /\ Bits(x) = Bits(y) => x = y
         /\ x # 0 => Bits(x) # {}
<1>1. W \in Nat /\ Twos[W] = 2 ^ W
  BY ShamirAssumption DEF Twos
<1>2. \A z \in Nat : Bits(z) = {i \in 0 .. W - 1 : (z \div Twos[i]) % 2 = 1}
  BY <1>1 DEF Bits, Twos
<1>3. \A z \in Nat, i \in 0 .. W - 1 : (z \div Twos[i]) % 2 \in {0, 1}
  <2> SUFFICES ASSUME NEW z \in Nat, NEW i \in 0 .. W - 1
               PROVE  (z \div Twos[i]) % 2 \in {0, 1}
    OBVIOUS
  <2>1. i \in Nat /\ Twos[i] \in Nat \ {0}
    BY <1>1, TwosDouble
  <2>2. z \div Twos[i] \in Nat
    BY <2>1, DivBounds
  <2> QED
    BY <2>2
<1>4. ASSUME NEW a \in Nat, NEW b \in Nat, a < 2 ^ W, b < 2 ^ W, Bits(a) = Bits(b)
      PROVE  a = b
  <2>1. \A i \in 0 .. W - 1 : (a \div Twos[i]) % 2 = 1 <=> (b \div Twos[i]) % 2 = 1
    BY <1>2, <1>4
  <2>2. \A i \in 0 .. W - 1 : (a \div Twos[i]) % 2 = (b \div Twos[i]) % 2
    BY <1>3, <2>1
  <2> QED
    BY <1>1, <1>4, <2>2, DigitsTell
<1>5. Bits(0) = {} /\ 0 < 2 ^ W
  <2>1. \A i \in 0 .. W - 1 : 0 \div Twos[i] = 0
    <3> SUFFICES ASSUME NEW i \in 0 .. W - 1 PROVE 0 \div Twos[i] = 0
      OBVIOUS
    <3>1. i \in Nat /\ Twos[i] \in Nat \ {0}
      BY <1>1, TwosDouble
    <3>2. 0 \div Twos[i] \in Nat /\ Twos[i] * (0 \div Twos[i]) <= 0
      BY <3>1, DivBounds
    <3> QED
      BY <3>1, <3>2
  <2>2. Twos[W] \in Nat \ {0}
    BY <1>1, TwosDouble
  <2>3. 0 < 2 ^ W
    BY <1>1, <2>2
  <2> QED
    BY <1>2, <2>1, <2>3
<1>6. Bits(x) \in Byte
  BY DEF Bits, Byte
<1> QED
  BY <1>4, <1>5, <1>6

LEMMA FieldLaws ==
  /\ {0} \in Byte /\ {} \in Byte
  /\ \A a, b \in Byte : GfAdd(a, b) \in Byte /\ GfMul(a, b) \in Byte /\ GfMul(a, b) = GfMul(b, a)
  /\ \A a, b, c \in Byte : GfMul(GfMul(a, b), c) = GfMul(a, GfMul(b, c))
  /\ \A a, b, c \in Byte : GfMul(a, GfAdd(b, c)) = GfAdd(GfMul(a, b), GfMul(a, c))
  /\ \A a \in Byte : GfMul(a, {0}) = a /\ GfMul({0}, a) = a /\ GfMul(a, {}) = {} /\ GfMul({}, a) = {}
<1>1. {0} \in Byte /\ {} \in Byte
  BY TimesOfOne DEF Byte
<1>2. \A a, b \in Byte : GfAdd(a, b) \in Byte /\ GfMul(a, b) \in Byte /\ GfMul(a, b) = GfMul(b, a)
  BY SumInByte, ProductInByte, Commutes
<1>3. \A a, b, c \in Byte : GfMul(GfMul(a, b), c) = GfMul(a, GfMul(b, c))
  BY Associates
<1>4. \A a, b, c \in Byte : GfMul(a, GfAdd(b, c)) = GfAdd(GfMul(a, b), GfMul(a, c))
  BY Distributes
<1>5. \A a \in Byte : GfMul(a, {0}) = a
  BY OneMultiplies
<1>6. ASSUME NEW a \in Byte PROVE GfMul(a, {}) = {}
  <2>1. GfAdd({}, {}) = {}
    BY SumLaws
  <2>2. GfMul(a, GfAdd({}, {})) = GfAdd(GfMul(a, {}), GfMul(a, {}))
    BY <1>1, <1>4
  <2> QED
    BY <2>1, <2>2, SumLaws
<1> QED
  BY <1>1, <1>2, <1>3, <1>4, <1>5, <1>6

LEMMA InverseOfProduct ==
  ASSUME NEW a \in NonZero, NEW b \in NonZero
  PROVE  GfMul(a, b) \in NonZero /\ GfInv(GfMul(a, b)) = GfMul(GfInv(a), GfInv(b))
<1> DEFINE c == GfMul(a, b)
           u == GfInv(a)
           v == GfInv(b)
<1>1. a \in Byte /\ b \in Byte /\ a # {} /\ b # {}
  BY DEF NonZero
<1>2. c \in Byte /\ c # {}
  BY <1>1, ProductInByte, ShamirAssumption
<1>3. u \in Byte /\ v \in Byte /\ GfMul(a, u) = {0} /\ GfMul(b, v) = {0}
  BY Inverts
<1>4. GfInv(c) \in Byte /\ GfMul(c, GfInv(c)) = {0}
  BY <1>2, Inverts DEF NonZero
<1>5. GfMul(c, GfMul(u, v)) = {0}
  <2>1. GfMul(GfMul(a, b), GfMul(u, v)) = GfMul(GfMul(a, u), GfMul(b, v))
    <3>1. u \in Byte /\ v \in Byte
      BY <1>3
    <3> HIDE DEF c, u, v
    <3> QED
      BY <1>1, <3>1, ProductOfProducts
  <2>2. {0} \in Byte /\ GfMul({0}, {0}) = {0}
    BY FieldLaws
  <2> HIDE DEF u, v
  <2> QED
    BY <1>3, <2>1, <2>2
<1>6. GfMul(u, v) \in Byte
  BY <1>3, ProductInByte
<1> HIDE DEF c, u, v
<1>7. GfInv(c) = GfMul(u, v)
  BY <1>2, <1>4, <1>5, <1>6, Cancels
<1> QED
  BY <1>2, <1>7 DEF c, u, v, NonZero

LEMMA DifferenceNonZero ==
  ASSUME NEW a \in Byte, NEW b \in Byte, a # b
  PROVE  GfAdd(a, b) \in NonZero
BY SumInByte, SumLaws DEF NonZero

-----------------------------------------------------------------------------
\* The sums of the first of n terms.
SumsUpTo(s, n, f) ==
  s \in [0 .. n -> Byte] /\ s[0] = {} /\ \A i \in 1 .. n : s[i] = GfAdd(s[i - 1], f[i])

SumsOf(f, n) == CHOOSE s : SumsUpTo(s, n, f)

LEMMA SumsAre ==
  ASSUME NEW n \in Nat, NEW f \in [1 .. n -> Byte]
  PROVE  SumsUpTo(SumsOf(f, n), n, f)
<1> DEFINE F == [i \in 1 .. n |-> [y \in Byte |-> GfAdd(y, f[i])]]
<1>1. {} \in Byte
  BY FieldLaws
<1>2. F \in [1 .. n -> [Byte -> Byte]] /\ \A i \in 1 .. n, y \in Byte : F[i][y] = GfAdd(y, f[i])
  BY SumInByte
<1> HIDE DEF F
<1>3. PICK p : Chain(p, n, {}, F, Byte)
  BY <1>1, <1>2, ChainsExist
<1>4. SumsUpTo(p, n, f)
  <2>1. p \in [0 .. n -> Byte] /\ p[0] = {}
    BY <1>3 DEF Chain
  <2>2. ASSUME NEW i \in 1 .. n PROVE p[i] = GfAdd(p[i - 1], f[i])
    <3>1. i - 1 \in 0 .. n
      OBVIOUS
    <3> QED
      BY <1>2, <1>3, <2>1, <3>1 DEF Chain
  <2> QED
    BY <2>1, <2>2 DEF SumsUpTo
<1> QED
  BY <1>4 DEF SumsOf

\* The sum of scaled terms of one kind and of another.
SumOfScaled(h, b, f, d, g, m) ==
  \A i \in 1 .. m : h[i] = GfAdd(GfMul(b, f[i]), GfMul(d, g[i]))

LEMMA SumsScale ==
  ASSUME NEW m \in Nat,
         NEW n \in Nat, NEW f \in [1 .. n -> Byte], NEW s, SumsUpTo(s, n, f), m <= n,
         NEW k \in Nat, NEW g \in [1 .. k -> Byte], NEW t, SumsUpTo(t, k, g), m <= k,
         NEW l \in Nat, NEW h, NEW u, SumsUpTo(u, l, h), m <= l,
         NEW b \in Byte, NEW d \in Byte, SumOfScaled(h, b, f, d, g, m)
  PROVE  u[m] = GfAdd(GfMul(b, s[m]), GfMul(d, t[m]))
<1> DEFINE T == {i \in Nat : i <= m => u[i] = GfAdd(GfMul(b, s[i]), GfMul(d, t[i]))}
<1>1. 0 \in T
  <2>1. s[0] = {} /\ t[0] = {} /\ u[0] = {}
    BY DEF SumsUpTo
  <2>2. GfMul(b, {}) = {} /\ GfMul(d, {}) = {} /\ GfAdd({}, {}) = {}
    BY FieldLaws, SumLaws
  <2> QED
    BY <2>1, <2>2
<1>2. ASSUME NEW i \in T PROVE i + 1 \in T
  <2>1. i \in Nat /\ i + 1 \in Nat /\ (i + 1) - 1 = i
    OBVIOUS
  <2> SUFFICES ASSUME i + 1 <= m PROVE u[i + 1] = GfAdd(GfMul(b, s[i + 1]), GfMul(d, t[i + 1]))
    BY <2>1
  <2>2. /\ i + 1 \in 1 .. m /\ i + 1 \in 1 .. n /\ i + 1 \in 1 .. k /\ i + 1 \in 1 .. l
        /\ i \in 0 .. n /\ i \in 0 .. k /\ i \in 0 .. l
        /\ u[i] = GfAdd(GfMul(b, s[i]), GfMul(d, t[i]))
    BY <2>1
  <2>3. /\ s[i + 1] = GfAdd(s[i], f[i + 1]) /\ t[i + 1] = GfAdd(t[i], g[i + 1])
        /\ u[i + 1] = GfAdd(u[i], h[i + 1])
    BY <2>1, <2>2 DEF SumsUpTo
  <2>4. h[i + 1] = GfAdd(GfMul(b, f[i + 1]), GfMul(d, g[i + 1]))
    BY <2>2 DEF SumOfScaled
  <2>5. s[i] \in Byte /\ f[i + 1] \in Byte /\ t[i] \in Byte /\ g[i + 1] \in Byte
    BY <2>2 DEF SumsUpTo
  <2>6. /\ GfMul(b, s[i + 1]) = GfAdd(GfMul(b, s[i]), GfMul(b, f[i + 1]))
        /\ GfMul(d, t[i + 1]) = GfAdd(GfMul(d, t[i]), GfMul(d, g[i + 1]))
    BY <2>3, <2>5, Distributes
  <2> QED
    BY <2>2, <2>3, <2>4, <2>6, SumOfSums
<1> HIDE DEF T
<1>3. T = Nat
  <2>1. T \subseteq Nat
    BY DEF T
  <2> QED
    BY <1>1, <1>2, <2>1, FromZeroUp
<1> QED
  BY <1>3 DEF T

LEMMA SumsAgree ==
  ASSUME NEW m \in Nat,
         NEW n \in Nat, NEW f, NEW s, SumsUpTo(s, n, f), m <= n,
         NEW k \in Nat, NEW g, NEW t, SumsUpTo(t, k, g), m <= k,
         \A i \in 1 .. m : f[i] = g[i]
  PROVE  s[m] = t[m]
<1> DEFINE T == {i \in Nat : i <= m => s[i] = t[i]}
<1>1. 0 \in T
  BY DEF SumsUpTo
<1>2. ASSUME NEW i \in T PROVE i + 1 \in T
  <2>1. i \in Nat /\ i + 1 \in Nat /\ (i + 1) - 1 = i
    OBVIOUS
  <2> SUFFICES ASSUME i + 1 <= m PROVE s[i + 1] = t[i + 1]
    BY <2>1
  <2>2. i + 1 \in 1 .. m /\ i + 1 \in 1 .. n /\ i + 1 \in 1 .. k /\ s[i] = t[i]
    BY <2>1
  <2>3. s[i + 1] = GfAdd(s[i], f[i + 1]) /\ t[i + 1] = GfAdd(t[i], g[i + 1])
    BY <2>1, <2>2 DEF SumsUpTo
  <2> QED
    BY <2>2, <2>3
<1> HIDE DEF T
<1>3. T = Nat
  <2>1. T \subseteq Nat
    BY DEF T
  <2> QED
    BY <1>1, <1>2, <2>1, FromZeroUp
<1> QED
  BY <1>3 DEF T

LEMMA ProductsAgree ==
  ASSUME NEW m \in Nat,
         NEW n \in Nat, NEW f, NEW s, ProductsUpTo(s, n, f), m <= n,
         NEW k \in Nat, NEW g, NEW t, ProductsUpTo(t, k, g), m <= k,
         \A i \in 1 .. m : f[i] = g[i]
  PROVE  s[m] = t[m]
<1> DEFINE T == {i \in Nat : i <= m => s[i] = t[i]}
<1>1. 0 \in T
  BY DEF ProductsUpTo
<1>2. ASSUME NEW i \in T PROVE i + 1 \in T
  <2>1. i \in Nat /\ i + 1 \in Nat /\ (i + 1) - 1 = i
    OBVIOUS
  <2> SUFFICES ASSUME i + 1 <= m PROVE s[i + 1] = t[i + 1]
    BY <2>1
  <2>2. i + 1 \in 1 .. m /\ i + 1 \in 1 .. n /\ i + 1 \in 1 .. k /\ s[i] = t[i]
    BY <2>1
  <2>3. s[i + 1] = GfMul(s[i], f[i + 1]) /\ t[i + 1] = GfMul(t[i], g[i + 1])
    BY <2>1, <2>2 DEF ProductsUpTo
  <2> QED
    BY <2>2, <2>3
<1> HIDE DEF T
<1>3. T = Nat
  <2>1. T \subseteq Nat
    BY DEF T
  <2> QED
    BY <1>1, <1>2, <2>1, FromZeroUp
<1> QED
  BY <1>3 DEF T

\* A product whose factors are not zero is not.
LEMMA ProductsNonZero ==
  ASSUME NEW n \in Nat, NEW f, NEW s, ProductsUpTo(s, n, f), NEW m \in 0 .. n,
         \A i \in 1 .. m : f[i] \in NonZero
  PROVE  s[m] \in NonZero
<1> DEFINE T == {i \in Nat : i <= m => s[i] \in NonZero}
<1>1. 0 \in T
  BY FieldLaws DEF ProductsUpTo, NonZero
<1>2. ASSUME NEW i \in T PROVE i + 1 \in T
  <2>1. i \in Nat /\ i + 1 \in Nat /\ (i + 1) - 1 = i
    OBVIOUS
  <2> SUFFICES ASSUME i + 1 <= m PROVE s[i + 1] \in NonZero
    BY <2>1
  <2>2. i + 1 \in 1 .. m /\ i + 1 \in 1 .. n /\ s[i] \in NonZero
    BY <2>1
  <2>3. s[i + 1] = GfMul(s[i], f[i + 1])
    BY <2>1, <2>2 DEF ProductsUpTo
  <2> QED
    BY <2>2, <2>3, InverseOfProduct
<1> HIDE DEF T
<1>3. T = Nat
  <2>1. T \subseteq Nat
    BY DEF T
  <2> QED
    BY <1>1, <1>2, <2>1, FromZeroUp
<1> QED
  BY <1>3 DEF T

\* n points, none twice.
Points(z, n) == z \in [1 .. n -> Byte] /\ \A i, j \in 1 .. n : z[i] = z[j] => i = j

\* How far y is from the other points.
Gaps(y, z, n) == [j \in 1 .. n |-> IF z[j] = y THEN {0} ELSE GfAdd(y, z[j])]

\* One over the product of the first of them.
Weight(y, z, n) == [m \in 0 .. n |-> GfInv(ProductsOf(Gaps(y, z, n), n)[m])]

WeightSteps(w, y, z, n) ==
  /\ w \in [0 .. n -> NonZero] /\ w[0] = {0}
  /\ \A i \in 1 .. n : /\ z[i] = y => w[i] = w[i - 1]
                       /\ z[i] # y => w[i] = GfMul(w[i - 1], GfInv(GfAdd(y, z[i])))

LEMMA InverseOfOne == GfInv({0}) = {0} /\ {0} \in NonZero
<1>1. {0} \in NonZero
  BY FieldLaws DEF NonZero
<1>2. GfInv({0}) \in Byte /\ GfMul({0}, GfInv({0})) = {0}
  BY <1>1, Inverts
<1> QED
  BY <1>1, <1>2, FieldLaws

LEMMA WeightsAre ==
  ASSUME NEW n \in Nat, NEW z \in [1 .. n -> Byte], NEW y \in Byte
  PROVE  WeightSteps(Weight(y, z, n), y, z, n)
<1> DEFINE f == Gaps(y, z, n)
           p == ProductsOf(f, n)
           w == Weight(y, z, n)
<1>1. \A j \in 1 .. n : f[j] \in NonZero /\ f[j] = IF z[j] = y THEN {0} ELSE GfAdd(y, z[j])
  <2> SUFFICES ASSUME NEW j \in 1 .. n PROVE f[j] \in NonZero /\ f[j] = IF z[j] = y THEN {0} ELSE GfAdd(y, z[j])
    OBVIOUS
  <2>1. f[j] = IF z[j] = y THEN {0} ELSE GfAdd(y, z[j])
    BY DEF Gaps
  <2>2. z[j] \in Byte
    OBVIOUS
  <2> QED
    BY <2>1, <2>2, InverseOfOne, DifferenceNonZero
<1>2. f \in [1 .. n -> Byte]
  BY <1>1 DEF Gaps, NonZero
<1> HIDE DEF f
<1>3. ProductsUpTo(p, n, f)
  BY <1>2, ProductsAre
<1>4. \A m \in 0 .. n : w[m] = GfInv(p[m])
  BY DEF Weight, p, f
<1>5. DOMAIN w = 0 .. n /\ w = [m \in 0 .. n |-> w[m]]
  BY DEF Weight
<1> HIDE DEF p, w
<1>6. \A m \in 0 .. n : p[m] \in NonZero
  <2> SUFFICES ASSUME NEW m \in 0 .. n PROVE p[m] \in NonZero
    OBVIOUS
  <2>1. \A i \in 1 .. m : f[i] \in NonZero
    BY <1>1
  <2> QED
    BY <1>3, <2>1, ProductsNonZero
<1>7. p[0] = {0} /\ \A i \in 1 .. n : p[i] = GfMul(p[i - 1], f[i])
  BY <1>3 DEF ProductsUpTo
<1>8. w \in [0 .. n -> NonZero]
  <2>1. \A m \in 0 .. n : w[m] \in NonZero
    BY <1>4, <1>6, Inverts DEF NonZero
  <2> QED
    BY <1>5, <2>1
<1>9. w[0] = {0}
  <2>1. 0 \in 0 .. n
    OBVIOUS
  <2> QED
    BY <1>4, <1>7, <2>1, InverseOfOne
<1>10. ASSUME NEW i \in 1 .. n
       PROVE  /\ z[i] = y => w[i] = w[i - 1]
              /\ z[i] # y => w[i] = GfMul(w[i - 1], GfInv(GfAdd(y, z[i])))
  <2>1. i - 1 \in 0 .. n /\ i \in 0 .. n
    OBVIOUS
  <2>2. p[i] = GfMul(p[i - 1], f[i]) /\ p[i - 1] \in NonZero /\ f[i] \in NonZero
    BY <1>1, <1>6, <1>7, <2>1
  <2>3. w[i] = GfInv(GfMul(p[i - 1], f[i])) /\ w[i - 1] = GfInv(p[i - 1])
    BY <1>4, <2>1, <2>2
  <2>4. w[i] = GfMul(w[i - 1], GfInv(f[i]))
    BY <2>2, <2>3, InverseOfProduct
  <2>5. w[i - 1] \in Byte
    BY <1>8, <2>1 DEF NonZero
  <2>6. CASE z[i] = y
    <3>1. f[i] = {0}
      BY <1>1, <2>6
    <3> QED
      BY <2>4, <2>5, <2>6, <3>1, InverseOfOne, FieldLaws
  <2>7. CASE z[i] # y
    <3>1. f[i] = GfAdd(y, z[i])
      BY <1>1, <2>7
    <3> QED
      BY <2>4, <2>7, <3>1
  <2> QED
    BY <2>6, <2>7
<1> QED
  BY <1>8, <1>9, <1>10 DEF WeightSteps, w

-----------------------------------------------------------------------------
\* The values g at the first m points, each times the weight of its point there.
Terms(z, n, m, g) == [i \in 1 .. n |-> GfMul(Weight(z[i], z, n)[m], g[i])]
Weigh(z, n, m, g) == SumsOf(Terms(z, n, m, g), n)[m]

LEMMA TermsAre ==
  ASSUME NEW n \in Nat, NEW z \in [1 .. n -> Byte], NEW m \in 0 .. n, NEW g \in [1 .. n -> Byte]
  PROVE  /\ Terms(z, n, m, g) \in [1 .. n -> Byte]
         /\ SumsUpTo(SumsOf(Terms(z, n, m, g), n), n, Terms(z, n, m, g))
         /\ Weigh(z, n, m, g) \in Byte
         /\ \A i \in 1 .. n : Weight(z[i], z, n)[m] \in Byte
<1> DEFINE t == Terms(z, n, m, g)
           s == SumsOf(t, n)
<1>1. ASSUME NEW i \in 1 .. n
      PROVE  Weight(z[i], z, n)[m] \in Byte /\ GfMul(Weight(z[i], z, n)[m], g[i]) \in Byte
  <2>1. z[i] \in Byte /\ g[i] \in Byte
    OBVIOUS
  <2>2. WeightSteps(Weight(z[i], z, n), z[i], z, n)
    BY <2>1, WeightsAre
  <2>3. Weight(z[i], z, n)[m] \in Byte
    BY <2>2 DEF WeightSteps, NonZero
  <2> QED
    BY <2>1, <2>3, ProductInByte
<1>2. t \in [1 .. n -> Byte]
  BY <1>1 DEF Terms
<1> HIDE DEF t
<1>3. SumsUpTo(s, n, t)
  BY <1>2, SumsAre
<1>4. s[m] \in Byte
  BY <1>3 DEF SumsUpTo
<1> QED
  BY <1>1, <1>2, <1>3, <1>4 DEF t, Weigh

\* The first m values of h mix those of f and g.
Mixed(h, b, f, d, g, m, n) ==
  /\ f \in [1 .. n -> Byte] /\ g \in [1 .. n -> Byte] /\ h \in [1 .. n -> Byte]
  /\ b \in Byte /\ d \in Byte /\ SumOfScaled(h, b, f, d, g, m)

LEMMA WeighLinear ==
  ASSUME NEW n \in Nat, NEW z \in [1 .. n -> Byte], NEW m \in 0 .. n,
         NEW h, NEW b, NEW f, NEW d, NEW g, Mixed(h, b, f, d, g, m, n)
  PROVE  Weigh(z, n, m, h) = GfAdd(GfMul(b, Weigh(z, n, m, f)), GfMul(d, Weigh(z, n, m, g)))
<1> DEFINE F == Terms(z, n, m, f)
           G == Terms(z, n, m, g)
           H == Terms(z, n, m, h)
<1>1. /\ f \in [1 .. n -> Byte] /\ g \in [1 .. n -> Byte] /\ h \in [1 .. n -> Byte]
      /\ b \in Byte /\ d \in Byte /\ SumOfScaled(h, b, f, d, g, m)
  BY DEF Mixed
<1>2. /\ F \in [1 .. n -> Byte] /\ G \in [1 .. n -> Byte] /\ H \in [1 .. n -> Byte]
      /\ SumsUpTo(SumsOf(F, n), n, F) /\ SumsUpTo(SumsOf(G, n), n, G) /\ SumsUpTo(SumsOf(H, n), n, H)
  BY <1>1, TermsAre
<1>3. SumOfScaled(H, b, F, d, G, m)
  <2> SUFFICES ASSUME NEW i \in 1 .. m
               PROVE  H[i] = GfAdd(GfMul(b, F[i]), GfMul(d, G[i]))
    BY DEF SumOfScaled
  <2> DEFINE w == Weight(z[i], z, n)[m]
  <2>1. i \in 1 .. n
    OBVIOUS
  <2>2. w \in Byte /\ f[i] \in Byte /\ g[i] \in Byte
    BY <1>1, <2>1, TermsAre
  <2>3. h[i] = GfAdd(GfMul(b, f[i]), GfMul(d, g[i]))
    BY <1>1 DEF SumOfScaled
  <2>4. F[i] = GfMul(w, f[i]) /\ G[i] = GfMul(w, g[i]) /\ H[i] = GfMul(w, h[i])
    BY <2>1 DEF Terms
  <2> HIDE DEF w, F, G, H
  <2>5. GfMul(w, GfAdd(GfMul(b, f[i]), GfMul(d, g[i])))
          = GfAdd(GfMul(w, GfMul(b, f[i])), GfMul(w, GfMul(d, g[i])))
    BY <1>1, <2>2, FieldLaws
  <2>6. GfMul(w, GfMul(b, f[i])) = GfMul(b, GfMul(w, f[i]))
    BY <1>1, <2>2, FieldLaws
  <2>7. GfMul(w, GfMul(d, g[i])) = GfMul(d, GfMul(w, g[i]))
    BY <1>1, <2>2, FieldLaws
  <2> QED
    BY <2>3, <2>4, <2>5, <2>6, <2>7
<1> HIDE DEF F, G, H
<1>4. m \in Nat /\ m <= n
  OBVIOUS
<1>5. SumsOf(H, n)[m] = GfAdd(GfMul(b, SumsOf(F, n)[m]), GfMul(d, SumsOf(G, n)[m]))
  <2> DEFINE s == SumsOf(F, n)
             t == SumsOf(G, n)
             u == SumsOf(H, n)
  <2>1. SumsUpTo(s, n, F) /\ SumsUpTo(t, n, G) /\ SumsUpTo(u, n, H)
    BY <1>2
  <2>2. F \in [1 .. n -> Byte] /\ G \in [1 .. n -> Byte]
    BY <1>2
  <2>3. b \in Byte /\ d \in Byte
    BY <1>1
  <2> HIDE DEF s, t, u
  <2>4. u[m] = GfAdd(GfMul(b, s[m]), GfMul(d, t[m]))
    BY <1>3, <1>4, <2>1, <2>2, <2>3, SumsScale
  <2> QED
    BY <2>4 DEF s, t, u
<1> QED
  BY <1>5 DEF Weigh, F, G, H

\* One over the distance from y.
Fractions(y, z, n) == [i \in 1 .. n |-> IF z[i] = y THEN {} ELSE GfInv(GfAdd(y, z[i]))]

Times(f, g, n) == [i \in 1 .. n |-> GfMul(f[i], g[i])]

LEMMA FractionsAre ==
  ASSUME NEW n \in Nat, NEW z \in [1 .. n -> Byte], NEW y \in Byte
  PROVE  /\ Fractions(y, z, n) \in [1 .. n -> Byte]
         /\ \A i \in 1 .. n : z[i] # y => /\ GfAdd(y, z[i]) \in NonZero
                                          /\ Fractions(y, z, n)[i] = GfInv(GfAdd(y, z[i]))
<1>1. ASSUME NEW i \in 1 .. n, z[i] # y PROVE GfAdd(y, z[i]) \in NonZero /\ GfInv(GfAdd(y, z[i])) \in Byte
  <2>1. GfAdd(y, z[i]) \in NonZero
    BY <1>1, DifferenceNonZero
  <2> QED
    BY <2>1, Inverts
<1> QED
  BY <1>1, FieldLaws DEF Fractions

LEMMA WeighAgrees ==
  ASSUME NEW n \in Nat, NEW z \in [1 .. n -> Byte], NEW m \in 0 .. n,
         NEW f \in [1 .. n -> Byte], NEW g \in [1 .. n -> Byte], \A i \in 1 .. m : f[i] = g[i]
  PROVE  Weigh(z, n, m, f) = Weigh(z, n, m, g)
<1> DEFINE F == Terms(z, n, m, f)
           G == Terms(z, n, m, g)
           s == SumsOf(F, n)
           t == SumsOf(G, n)
<1>1. SumsUpTo(s, n, F) /\ SumsUpTo(t, n, G)
  BY TermsAre
<1>2. \A i \in 1 .. m : F[i] = G[i]
  BY DEF Terms
<1>3. m \in Nat /\ m <= n
  OBVIOUS
<1>4. s[m] = Weigh(z, n, m, f) /\ t[m] = Weigh(z, n, m, g)
  BY DEF Weigh
<1> HIDE DEF F, G, s, t
<1>5. s[m] = t[m]
  BY <1>1, <1>2, <1>3, SumsAgree
<1> QED
  BY <1>4, <1>5

\* One point more.
LEMMA WeighGrows ==
  ASSUME NEW n \in Nat, NEW z, Points(z, n), NEW m \in 0 .. n - 1, NEW g \in [1 .. n -> Byte]
  PROVE  /\ Times(g, Fractions(z[m + 1], z, n), n) \in [1 .. n -> Byte]
         /\ Weigh(z, n, m + 1, g)
              = GfAdd(Weigh(z, n, m, Times(g, Fractions(z[m + 1], z, n), n)),
                      GfMul(Weight(z[m + 1], z, n)[m], g[m + 1]))
<1> DEFINE a == z[m + 1]
           k == Times(g, Fractions(a, z, n), n)
           F == Terms(z, n, m + 1, g)
           G == Terms(z, n, m, k)
           s == SumsOf(F, n)
           t == SumsOf(G, n)
<1>1. /\ z \in [1 .. n -> Byte] /\ m + 1 \in 1 .. n /\ m + 1 \in 0 .. n /\ m \in 0 .. n /\ a \in Byte
      /\ (m + 1) - 1 = m /\ m \in Nat /\ m <= n
  BY DEF Points
<1>2. \A i \in 1 .. m : i \in 1 .. n /\ z[i] # a
  BY <1>1 DEF Points
<1> HIDE DEF a
<1>3. \A i \in 1 .. n : Fractions(a, z, n)[i] \in Byte
  BY <1>1, FractionsAre
<1>4. k \in [1 .. n -> Byte]
  BY <1>3, ProductInByte DEF Times
<1>5. \A i \in 1 .. n : k[i] = GfMul(g[i], Fractions(a, z, n)[i])
  BY DEF Times
<1> HIDE DEF k
<1>6. SumsUpTo(s, n, F) /\ SumsUpTo(t, n, G)
  BY <1>1, <1>4, TermsAre
<1>7. /\ \A i \in 1 .. n : F[i] = GfMul(Weight(z[i], z, n)[m + 1], g[i])
      /\ \A i \in 1 .. n : G[i] = GfMul(Weight(z[i], z, n)[m], k[i])
  BY DEF Terms
<1>8. s[m + 1] = Weigh(z, n, m + 1, g) /\ t[m] = Weigh(z, n, m, k)
  BY DEF Weigh
<1> HIDE DEF F, G, s, t
<1>9. ASSUME NEW i \in 1 .. m PROVE F[i] = G[i]
  <2> DEFINE w == Weight(z[i], z, n)
             q == GfInv(GfAdd(a, z[i]))
  <2>1. i \in 1 .. n /\ z[i] # a /\ z[i] \in Byte
    BY <1>1, <1>2
  <2>2. w[m] \in Byte
    BY <1>1, <1>4, <2>1, TermsAre
  <2>3. WeightSteps(w, z[i], z, n)
    BY <1>1, <2>1, WeightsAre
  <2>4. GfAdd(z[i], a) = GfAdd(a, z[i]) /\ q \in Byte /\ g[i] \in Byte
    BY <1>1, <2>1, SumLaws, DifferenceNonZero, Inverts
  <2>5. w[m + 1] = GfMul(w[m], q)
    BY <1>1, <2>1, <2>3, <2>4 DEF WeightSteps, a
  <2>6. k[i] = GfMul(g[i], q)
    BY <1>1, <1>5, <2>1, FractionsAre
  <2>7. F[i] = GfMul(w[m + 1], g[i]) /\ G[i] = GfMul(w[m], k[i])
    BY <1>7, <2>1
  <2> HIDE DEF w, q
  <2>8. GfMul(GfMul(w[m], q), g[i]) = GfMul(w[m], GfMul(q, g[i])) /\ GfMul(q, g[i]) = GfMul(g[i], q)
    <3>1. q \in Byte /\ g[i] \in Byte
      BY <2>4
    <3> QED
      BY <2>2, <3>1, Commutes, Associates
  <2> QED
    BY <2>5, <2>6, <2>7, <2>8
<1>10. s[m] = t[m]
  BY <1>1, <1>6, <1>9, SumsAgree
<1>11. F[m + 1] = GfMul(Weight(a, z, n)[m], g[m + 1])
  <2>1. WeightSteps(Weight(a, z, n), a, z, n)
    BY <1>1, WeightsAre
  <2>2. Weight(a, z, n)[m + 1] = Weight(a, z, n)[m]
    BY <1>1, <2>1 DEF WeightSteps, a
  <2> QED
    BY <1>1, <1>7, <2>2 DEF a
<1>12. s[m + 1] = GfAdd(s[m], F[m + 1])
  BY <1>1, <1>6 DEF SumsUpTo
<1> QED
  BY <1>4, <1>8, <1>10, <1>11, <1>12 DEF k, a

-----------------------------------------------------------------------------
LEMMA SplitFraction ==
  ASSUME NEW a \in Byte, NEW x \in Byte, NEW y \in Byte, a # x, a # y, x # y
  PROVE  GfMul(GfInv(GfAdd(y, x)), GfInv(GfAdd(a, x)))
           = GfAdd(GfMul(GfInv(GfAdd(a, y)), GfInv(GfAdd(a, x))),
                   GfMul(GfInv(GfAdd(a, y)), GfInv(GfAdd(y, x))))
<1> DEFINE s == GfAdd(a, x)
           t == GfAdd(y, x)
           v == GfAdd(a, y)
           p == GfInv(s)
           q == GfInv(t)
           r == GfInv(v)
<1>1. s \in NonZero /\ t \in NonZero /\ v \in NonZero
  BY DifferenceNonZero
<1>2. s \in Byte /\ t \in Byte /\ v \in Byte
  BY <1>1 DEF NonZero
<1>3. GfAdd(s, t) = v
  <2>1. GfAdd(GfAdd(a, x), GfAdd(y, x)) = GfAdd(GfAdd(a, y), GfAdd(x, x))
    BY SumOfSums
  <2> QED
    BY <2>1, SumLaws
<1> HIDE DEF s, t, v
<1>4. /\ p \in Byte /\ q \in Byte /\ r \in Byte
      /\ GfMul(p, s) = {0} /\ GfMul(q, t) = {0} /\ GfMul(r, v) = {0}
  BY <1>1, Inverts
<1> HIDE DEF p, q, r
<1>5. p \in Byte /\ q \in Byte /\ r \in Byte
  BY <1>4
<1> DEFINE pq == GfMul(p, q)
<1>6. pq \in Byte
  BY <1>4, ProductInByte
<1>7. GfMul(pq, s) = q
  <2>1. GfMul(p, q) = GfMul(q, p) /\ GfMul(GfMul(q, p), s) = GfMul(q, GfMul(p, s))
    BY <1>2, <1>5, Commutes, Associates
  <2>2. GfMul(q, {0}) = q
    BY <1>4, FieldLaws
  <2> QED
    BY <1>4, <2>1, <2>2
<1>8. GfMul(pq, t) = p
  <2>1. GfMul(GfMul(p, q), t) = GfMul(p, GfMul(q, t))
    BY <1>2, <1>5, Associates
  <2>2. GfMul(p, {0}) = p
    BY <1>4, FieldLaws
  <2> QED
    BY <1>4, <2>1, <2>2
<1> HIDE DEF pq
<1>9. GfMul(pq, v) = GfAdd(q, p)
  <2>1. GfMul(pq, GfAdd(s, t)) = GfAdd(GfMul(pq, s), GfMul(pq, t))
    BY <1>2, <1>6, FieldLaws
  <2> QED
    BY <1>3, <1>7, <1>8, <2>1
<1>10. pq = GfMul(r, GfAdd(q, p))
  <2>1. GfMul(r, GfMul(pq, v)) = GfMul(pq, GfMul(r, v))
    <3>1. GfMul(r, GfMul(pq, v)) = GfMul(GfMul(r, pq), v) /\ GfMul(r, pq) = GfMul(pq, r)
      BY <1>2, <1>4, <1>6, FieldLaws
    <3>2. GfMul(GfMul(pq, r), v) = GfMul(pq, GfMul(r, v))
      BY <1>2, <1>5, <1>6, Associates
    <3> QED
      BY <3>1, <3>2
  <2>2. GfMul(pq, {0}) = pq
    BY <1>6, FieldLaws
  <2> QED
    BY <1>4, <1>9, <2>1, <2>2
<1>11. GfMul(r, GfAdd(q, p)) = GfAdd(GfMul(r, q), GfMul(r, p))
  BY <1>4, FieldLaws
<1>12. GfAdd(GfMul(r, q), GfMul(r, p)) = GfAdd(GfMul(r, p), GfMul(r, q)) /\ GfMul(p, q) = GfMul(q, p)
  BY <1>4, SumLaws, FieldLaws
<1>13. GfMul(q, p) = GfAdd(GfMul(r, p), GfMul(r, q))
  BY <1>10, <1>11, <1>12 DEF pq
<1> QED
  BY <1>13 DEF p, q, r, s, t, v

LEMMA WeighNone ==
  ASSUME NEW n \in Nat, NEW z \in [1 .. n -> Byte], NEW g \in [1 .. n -> Byte]
  PROVE  Weigh(z, n, 0, g) = {}
<1>1. 0 \in 0 .. n
  OBVIOUS
<1>2. SumsUpTo(SumsOf(Terms(z, n, 0, g), n), n, Terms(z, n, 0, g))
  BY <1>1, TermsAre
<1> QED
  BY <1>2 DEF Weigh, SumsUpTo

LEMMA PartialFractions ==
  ASSUME NEW n \in Nat, NEW z, Points(z, n), NEW m \in 1 .. n,
         NEW y \in Byte, \A j \in 1 .. m : z[j] # y
  PROVE  Weigh(z, n, m, Fractions(y, z, n)) = Weight(y, z, n)[m]
<1> DEFINE Holds(i, x) == (\A j \in 1 .. i : z[j] # x) => Weigh(z, n, i, Fractions(x, z, n)) = Weight(x, z, n)[i]
           T == {i \in Nat : i # 0 /\ i <= n => \A x \in Byte : Holds(i, x)}
<1>1. z \in [1 .. n -> Byte] /\ \A i, j \in 1 .. n : z[i] = z[j] => i = j
  BY DEF Points
<1>2. 0 \in T
  OBVIOUS
<1>3. ASSUME NEW i \in T PROVE i + 1 \in T
  <2>1. i \in Nat /\ i + 1 \in Nat /\ (i + 1) - 1 = i
    OBVIOUS
  <2>2. ASSUME i # 0, i <= n, NEW x \in Byte, \A j \in 1 .. i : z[j] # x
        PROVE  Weigh(z, n, i, Fractions(x, z, n)) = Weight(x, z, n)[i]
    BY <2>1, <2>2
  <2> SUFFICES ASSUME i + 1 <= n, NEW x \in Byte, \A j \in 1 .. i + 1 : z[j] # x
               PROVE  Weigh(z, n, i + 1, Fractions(x, z, n)) = Weight(x, z, n)[i + 1]
    BY <2>1
  <2> HIDE DEF T
  <2> DEFINE a == z[i + 1]
             fx == Fractions(x, z, n)
             fa == Fractions(a, z, n)
             b == GfInv(GfAdd(x, a))
             wx == Weight(x, z, n)
             wa == Weight(a, z, n)
  <2>3. /\ i + 1 \in 1 .. n /\ i + 1 \in 1 .. i + 1 /\ i \in 0 .. n - 1 /\ i \in 0 .. n /\ a \in Byte /\ a # x
        /\ \A j \in 1 .. i : j \in 1 .. n /\ z[j] # x /\ z[j] # a
    BY <1>1, <2>1
  <2>4. z \in [1 .. n -> Byte] /\ a \in Byte
    BY <1>1, <2>3
  <2>5. fx \in [1 .. n -> Byte] /\ \A j \in 1 .. n : z[j] # x => fx[j] = GfInv(GfAdd(x, z[j]))
    BY <2>4, FractionsAre
  <2>6. fa \in [1 .. n -> Byte] /\ \A j \in 1 .. n : z[j] # a => fa[j] = GfInv(GfAdd(a, z[j]))
    <3> HIDE DEF a
    <3> QED
      BY <2>4, FractionsAre
  <2>7. b \in Byte /\ fx \in [1 .. n -> Byte] /\ fa \in [1 .. n -> Byte]
    BY <2>3, <2>5, <2>6, DifferenceNonZero, Inverts
  <2>8. fx[i + 1] = b
    BY <2>3, <2>5
  <2>9. WeightSteps(wx, x, z, n) /\ WeightSteps(wa, a, z, n)
    BY <1>1, <2>3, WeightsAre
  <2>10. wx[i + 1] = GfMul(wx[i], b) /\ wx[i] \in Byte /\ wa[i] \in Byte
    BY <2>1, <2>3, <2>9 DEF WeightSteps, NonZero
  <2> DEFINE k == Times(fx, fa, n)
  <2>11. k \in [1 .. n -> Byte] /\ Weigh(z, n, i + 1, fx) = GfAdd(Weigh(z, n, i, k), GfMul(wa[i], fx[i + 1]))
    BY <2>3, <2>7, WeighGrows
  <2>12. CASE i = 0
    <3>1. wx[0] = {0} /\ wa[0] = {0}
      BY <2>9 DEF WeightSteps
    <3> HIDE DEF k, fx, wa, wx, b
    <3>2. Weigh(z, n, 0, k) = {}
      BY <1>1, <2>11, WeighNone
    <3>3. Weigh(z, n, i + 1, fx) = GfAdd({}, GfMul({0}, b))
      BY <2>8, <2>11, <2>12, <3>1, <3>2
    <3> QED
      BY <2>10, <2>12, <3>1, <3>3, SumLaws DEF fx, wx
  <2>13. CASE i # 0
    <3>1. i <= n /\ \A j \in 1 .. i : z[j] # x /\ z[j] # a
      BY <2>3
    <3>2. Weigh(z, n, i, fx) = wx[i] /\ Weigh(z, n, i, fa) = wa[i]
      BY <2>2, <2>3, <2>13, <3>1
    <3>3. SumOfScaled(k, b, fa, b, fx, i)
      <4> SUFFICES ASSUME NEW j \in 1 .. i
                   PROVE  k[j] = GfAdd(GfMul(b, fa[j]), GfMul(b, fx[j]))
        BY DEF SumOfScaled
      <4>1. j \in 1 .. n /\ z[j] # x /\ z[j] # a /\ z[j] \in Byte
        BY <1>1, <2>3
      <4>2. k[j] = GfMul(fx[j], fa[j])
        BY <4>1 DEF Times
      <4>3. fx[j] = GfInv(GfAdd(x, z[j])) /\ fa[j] = GfInv(GfAdd(a, z[j]))
        BY <2>5, <2>6, <4>1
      <4>4. GfAdd(x, a) = GfAdd(a, x)
        BY SumLaws
      <4>5. GfMul(GfInv(GfAdd(x, z[j])), GfInv(GfAdd(a, z[j])))
              = GfAdd(GfMul(GfInv(GfAdd(a, x)), GfInv(GfAdd(a, z[j]))),
                      GfMul(GfInv(GfAdd(a, x)), GfInv(GfAdd(x, z[j]))))
        BY <2>3, <4>1, SplitFraction
      <4> HIDE DEF fx, fa, k
      <4> QED
        BY <4>2, <4>3, <4>4, <4>5
    <3> HIDE DEF k, fx, fa, wa, wx, b
    <3>4. Weigh(z, n, i, k) = GfAdd(GfMul(b, wa[i]), GfMul(b, wx[i]))
      <4>1. /\ fa \in [1 .. n -> Byte] /\ fx \in [1 .. n -> Byte] /\ k \in [1 .. n -> Byte]
            /\ i \in 0 .. n /\ b \in Byte
        BY <2>3, <2>7, <2>11
      <4>2. Weigh(z, n, i, k) = GfAdd(GfMul(b, Weigh(z, n, i, fa)), GfMul(b, Weigh(z, n, i, fx)))
        <5>1. z \in [1 .. n -> Byte] /\ i \in 0 .. n
          BY <2>4, <4>1
        <5>2. Mixed(k, b, fa, b, fx, i, n)
          BY <3>3, <4>1 DEF Mixed
        <5> QED
          BY <5>1, <5>2, WeighLinear
      <4> QED
        BY <3>2, <4>2
    <3>5. GfMul(wa[i], b) = GfMul(b, wa[i]) /\ GfMul(wx[i], b) = GfMul(b, wx[i])
      BY <2>7, <2>10, Commutes
    <3>6. GfAdd(GfAdd(GfMul(b, wa[i]), GfMul(b, wx[i])), GfMul(b, wa[i])) = GfMul(b, wx[i])
      BY DEF GfAdd
    <3>7. Weigh(z, n, i + 1, fx) = wx[i + 1]
      BY <2>8, <2>10, <2>11, <3>4, <3>5, <3>6
    <3> QED
      BY <3>7 DEF fx, wx
  <2> QED
    BY <2>12, <2>13
<1> HIDE DEF T
<1>4. T = Nat
  <2>1. T \subseteq Nat
    BY DEF T
  <2> QED
    BY <1>2, <1>3, <2>1, FromZeroUp
<1> QED
  BY <1>4 DEF T

Ones(n) == [i \in 1 .. n |-> {0}]

\* The weights of more than one point have the sum zero.
LEMMA WeighOnes ==
  ASSUME NEW n \in Nat, NEW z, Points(z, n), NEW m \in 0 .. n - 1
  PROVE  /\ Ones(n) \in [1 .. n -> Byte]
         /\ Weigh(z, n, m + 1, Ones(n)) = IF m = 0 THEN {0} ELSE {}
<1> DEFINE a == z[m + 1]
           o == Ones(n)
           fa == Fractions(a, z, n)
           wa == Weight(a, z, n)
           k == Times(o, fa, n)
<1>1. z \in [1 .. n -> Byte] /\ \A i, j \in 1 .. n : z[i] = z[j] => i = j
  BY DEF Points
<1>2. /\ m + 1 \in 1 .. n /\ m \in 0 .. n /\ a \in Byte /\ (m + 1) - 1 = m
      /\ \A j \in 1 .. m : j \in 1 .. n /\ z[j] # a
  BY <1>1
<1>3. o \in [1 .. n -> Byte] /\ \A i \in 1 .. n : o[i] = {0}
  BY FieldLaws DEF Ones
<1>4. fa \in [1 .. n -> Byte]
  BY <1>1, <1>2, FractionsAre
<1>5. k \in [1 .. n -> Byte] /\ Weigh(z, n, m + 1, o) = GfAdd(Weigh(z, n, m, k), GfMul(wa[m], o[m + 1]))
  <2>1. o \in [1 .. n -> Byte]
    BY <1>3
  <2> HIDE DEF o
  <2> QED
    BY <2>1, WeighGrows
<1>6. WeightSteps(wa, a, z, n)
  BY <1>1, <1>2, WeightsAre
<1>7. wa[m] \in Byte /\ wa[0] = {0}
  BY <1>2, <1>6 DEF WeightSteps, NonZero
<1>8. \A i \in 1 .. m : k[i] = fa[i]
  <2> SUFFICES ASSUME NEW i \in 1 .. m PROVE k[i] = fa[i]
    OBVIOUS
  <2>1. i \in 1 .. n
    OBVIOUS
  <2>2. k[i] = GfMul(o[i], fa[i]) /\ fa[i] \in Byte /\ o[i] = {0}
    BY <1>3, <1>4, <2>1 DEF Times
  <2> QED
    BY <2>2, FieldLaws
<1> HIDE DEF k, o, fa, wa
<1>9. Weigh(z, n, m, k) = Weigh(z, n, m, fa)
  <2>1. z \in [1 .. n -> Byte] /\ m \in 0 .. n /\ k \in [1 .. n -> Byte]
    BY <1>1, <1>2, <1>5
  <2> QED
    BY <1>4, <1>8, <2>1, WeighAgrees
<1>10. GfMul(wa[m], o[m + 1]) = wa[m]
  BY <1>2, <1>3, <1>7, FieldLaws
<1>11. CASE m = 0
  <2>1. Weigh(z, n, 0, fa) = {}
    BY <1>1, <1>4, WeighNone
  <2>2. Weigh(z, n, m + 1, o) = {0}
    <3>1. Weigh(z, n, m + 1, o) = GfAdd({}, {0})
      <4>1. Weigh(z, n, m, k) = {} /\ wa[m] = {0}
        BY <1>7, <1>9, <1>11, <2>1
      <4> QED
        BY <1>5, <1>10, <4>1
    <3> QED
      BY <3>1, SumLaws
  <2> QED
    BY <1>3, <1>11, <2>2 DEF o
<1>12. CASE m # 0
  <2>1. m \in 1 .. n
    BY <1>2, <1>12
  <2>2. Weigh(z, n, m, fa) = wa[m]
    BY <1>2, <2>1, PartialFractions DEF fa, wa
  <2>3. Weigh(z, n, m + 1, o) = {}
    BY <1>5, <1>9, <1>10, <2>2, SumLaws
  <2> QED
    BY <1>3, <1>12, <2>3 DEF o
<1> QED
  BY <1>11, <1>12

\* The values times their points: one point less.
LEMMA WeighShift ==
  ASSUME NEW n \in Nat, NEW z, Points(z, n), NEW m \in 0 .. n - 1, NEW g \in [1 .. n -> Byte]
  PROVE  /\ Times(z, g, n) \in [1 .. n -> Byte]
         /\ Weigh(z, n, m + 1, Times(z, g, n))
              = GfAdd(GfMul(z[m + 1], Weigh(z, n, m + 1, g)), Weigh(z, n, m, g))
<1> DEFINE a == z[m + 1]
           zg == Times(z, g, n)
           fa == Fractions(a, z, n)
           wa == Weight(a, z, n)
           h == [i \in 1 .. n |-> GfMul(GfAdd(a, z[i]), g[i])]
           k == Times(h, fa, n)
<1>1. z \in [1 .. n -> Byte] /\ \A i, j \in 1 .. n : z[i] = z[j] => i = j
  BY DEF Points
<1>2. /\ m + 1 \in 1 .. n /\ m + 1 \in 0 .. n /\ m \in 0 .. n /\ a \in Byte /\ (m + 1) - 1 = m
      /\ \A j \in 1 .. m : j \in 1 .. n /\ z[j] # a
  BY <1>1
<1>3. zg \in [1 .. n -> Byte] /\ \A i \in 1 .. n : zg[i] = GfMul(z[i], g[i])
  BY <1>1, ProductInByte DEF Times
<1>4. h \in [1 .. n -> Byte] /\ \A i \in 1 .. n : h[i] = GfMul(GfAdd(a, z[i]), g[i])
  BY <1>1, <1>2, FieldLaws
<1> HIDE DEF h
<1>5. fa \in [1 .. n -> Byte]
  BY <1>1, <1>2, FractionsAre
<1>6. k \in [1 .. n -> Byte] /\ Weigh(z, n, m + 1, h) = GfAdd(Weigh(z, n, m, k), GfMul(wa[m], h[m + 1]))
  BY <1>4, WeighGrows
<1>7. SumOfScaled(zg, a, g, {0}, h, m + 1)
  <2> SUFFICES ASSUME NEW i \in 1 .. m + 1
               PROVE  zg[i] = GfAdd(GfMul(a, g[i]), GfMul({0}, h[i]))
    BY DEF SumOfScaled
  <2>1. i \in 1 .. n
    BY <1>2
  <2>2. z[i] \in Byte /\ g[i] \in Byte /\ h[i] \in Byte /\ h[i] = GfMul(GfAdd(a, z[i]), g[i])
    BY <1>1, <1>4, <2>1
  <2>3. GfMul(GfAdd(a, z[i]), g[i]) = GfAdd(GfMul(a, g[i]), GfMul(z[i], g[i]))
    BY <1>2, <2>2, DistributesLeft
  <2>4. GfMul({0}, h[i]) = h[i]
    BY <2>2, FieldLaws
  <2>5. GfAdd(GfMul(a, g[i]), GfAdd(GfMul(a, g[i]), GfMul(z[i], g[i]))) = GfMul(z[i], g[i])
    BY DEF GfAdd
  <2> QED
    BY <1>3, <2>1, <2>2, <2>3, <2>4, <2>5
<1>8. \A i \in 1 .. m : k[i] = g[i]
  <2> SUFFICES ASSUME NEW i \in 1 .. m PROVE k[i] = g[i]
    OBVIOUS
  <2> DEFINE s == GfAdd(a, z[i])
             v == GfInv(s)
  <2>1. i \in 1 .. n /\ z[i] # a /\ z[i] \in Byte /\ g[i] \in Byte
    BY <1>1, <1>2
  <2>2. s \in NonZero
    BY <1>2, <2>1, DifferenceNonZero
  <2>3. s \in Byte /\ v \in Byte
    BY <2>2, Inverts DEF NonZero
  <2>4. k[i] = GfMul(GfMul(s, g[i]), v)
    <3>1. \A j \in 1 .. n : z[j] # a => fa[j] = GfInv(GfAdd(a, z[j]))
      <4>1. a \in Byte /\ z \in [1 .. n -> Byte]
        BY <1>1, <1>2
      <4> HIDE DEF a
      <4> QED
        BY <4>1, FractionsAre
    <3>2. k[i] = GfMul(h[i], fa[i]) /\ h[i] = GfMul(s, g[i])
      BY <1>4, <2>1 DEF Times
    <3> QED
      BY <2>1, <3>1, <3>2
  <2>5. GfMul(s, v) = {0}
    BY <2>2, Inverts
  <2> HIDE DEF s, v
  <2>6. GfMul(s, g[i]) = GfMul(g[i], s) /\ GfMul(GfMul(g[i], s), v) = GfMul(g[i], GfMul(s, v))
    BY <2>1, <2>3, Commutes, Associates
  <2>7. GfMul(g[i], {0}) = g[i]
    BY <2>1, FieldLaws
  <2> QED
    BY <2>4, <2>5, <2>6, <2>7
<1>9. wa[m] \in Byte
  <2>1. WeightSteps(wa, a, z, n)
    BY <1>1, <1>2, WeightsAre
  <2> QED
    BY <1>2, <2>1 DEF WeightSteps, NonZero
<1>10. h[m + 1] = {}
  <2>1. h[m + 1] = GfMul(GfAdd(a, a), g[m + 1]) /\ g[m + 1] \in Byte
    BY <1>2, <1>4
  <2>2. GfAdd(a, a) = {}
    BY SumLaws
  <2>3. GfMul({}, g[m + 1]) = {}
    BY <2>1, FieldLaws
  <2> QED
    BY <2>1, <2>2, <2>3
<1> HIDE DEF k, zg, fa, wa
<1>11. Weigh(z, n, m, k) = Weigh(z, n, m, g)
  <2>1. z \in [1 .. n -> Byte] /\ m \in 0 .. n /\ k \in [1 .. n -> Byte]
    BY <1>1, <1>2, <1>6
  <2> QED
    BY <1>8, <2>1, WeighAgrees
<1>12. Weigh(z, n, m + 1, h) = Weigh(z, n, m, g)
  <2>1. GfMul(wa[m], {}) = {}
    BY <1>9, FieldLaws
  <2> QED
    BY <1>6, <1>10, <1>11, <2>1, SumLaws
<1>13. Weigh(z, n, m + 1, zg) = GfAdd(GfMul(a, Weigh(z, n, m + 1, g)), GfMul({0}, Weigh(z, n, m + 1, h)))
  <2>1. /\ {0} \in Byte /\ a \in Byte /\ zg \in [1 .. n -> Byte] /\ h \in [1 .. n -> Byte]
        /\ z \in [1 .. n -> Byte] /\ m + 1 \in 0 .. n
    BY <1>1, <1>2, <1>3, <1>4, FieldLaws
  <2> HIDE DEF a
  <2> QED
    <3>1. Mixed(zg, a, g, {0}, h, m + 1, n)
      BY <1>7, <2>1 DEF Mixed
    <3>2. z \in [1 .. n -> Byte] /\ m + 1 \in 0 .. n
      BY <2>1
    <3> QED
      BY <3>1, <3>2, WeighLinear
<1>14. GfMul({0}, Weigh(z, n, m + 1, h)) = Weigh(z, n, m + 1, h)
  <2>1. Weigh(z, n, m + 1, h) \in Byte
    BY <1>1, <1>2, <1>4, TermsAre
  <2> QED
    BY <2>1, FieldLaws
<1> QED
  BY <1>3, <1>12, <1>13, <1>14 DEF zg

LEMMA FirstOfLast ==
  ASSUME NEW n \in Nat, NEW i \in 1 .. n
  PROVE  /\ i .. n \in SUBSET (1 .. n) /\ i .. n # {} /\ Min(i .. n) = i
         /\ (i .. n) \ {i} = i + 1 .. n
<1>1. i .. n \in SUBSET (1 .. n) /\ i \in i .. n /\ (i .. n) \ {i} = i + 1 .. n
  OBVIOUS
<1>2. Min(i .. n) = i
  BY DEF Min
<1> QED
  BY <1>1, <1>2

\* What eval_poly has after so many coefficients, the highest first.
Evaluation(e, c, t, x) ==
  /\ e \in [0 .. t -> Byte] /\ e[0] = {}
  /\ \A r \in 1 .. t : e[r] = GfAdd(GfMul(e[r - 1], x), c[t - r + 1])

LEMMA EvaluationsExist ==
  ASSUME NEW t \in Nat, NEW c \in [1 .. t -> Byte], NEW x \in Byte
  PROVE  \E e : Evaluation(e, c, t, x) /\ e[t] = EvalPoly(c, x)
<1>1. PICK h : Evaluates(h, c, x, t)
  BY EvalFolds
<1>2. /\ h \in [SUBSET (1 .. t) -> Byte] /\ EvalPoly(c, x) = h[1 .. t] /\ h[{}] = {}
      /\ \A s \in SUBSET (1 .. t) :
           s # {} => h[s] = GfAdd(GfMul(h[s \ {Min(s)}], x), c[Min(s)])
  BY <1>1 DEF Evaluates
<1> DEFINE e == [r \in 0 .. t |-> h[t - r + 1 .. t]]
<1>3. \A r \in 0 .. t : t - r + 1 .. t \in SUBSET (1 .. t)
  OBVIOUS
<1>4. e \in [0 .. t -> Byte]
  BY <1>2, <1>3
<1>5. e[0] = {}
  <2>1. t - 0 + 1 .. t = {}
    OBVIOUS
  <2>2. e[0] = h[t - 0 + 1 .. t]
    OBVIOUS
  <2> QED
    BY <1>2, <2>1, <2>2
<1>6. e[t] = EvalPoly(c, x)
  <2>1. t - t + 1 .. t = 1 .. t /\ t \in 0 .. t
    OBVIOUS
  <2> QED
    BY <1>2, <2>1
<1>7. ASSUME NEW r \in 1 .. t PROVE e[r] = GfAdd(GfMul(e[r - 1], x), c[t - r + 1])
  <2> DEFINE i == t - r + 1
  <2>1. i \in 1 .. t /\ i + 1 = t - (r - 1) + 1 /\ r - 1 \in 0 .. t /\ r \in 0 .. t
    OBVIOUS
  <2>2. e[r] = h[i .. t] /\ e[r - 1] = h[i + 1 .. t]
    BY <2>1
  <2> HIDE DEF i, e
  <2>3. i .. t \in SUBSET (1 .. t) /\ i .. t # {} /\ Min(i .. t) = i /\ (i .. t) \ {i} = i + 1 .. t
    BY <2>1, FirstOfLast
  <2>4. h[i .. t] = GfAdd(GfMul(h[i + 1 .. t], x), c[i])
    BY <1>2, <2>3
  <2> QED
    BY <2>2, <2>4 DEF i
<1> HIDE DEF e
<1>8. Evaluation(e, c, t, x)
  BY <1>4, <1>5, <1>7 DEF Evaluation
<1> QED
  BY <1>6, <1>8

\* The evaluation of a polynomial at each point.
Evaluated(e, c, t, z, n) ==
  e \in [1 .. n -> [0 .. t -> Byte]] /\ \A i \in 1 .. n : Evaluation(e[i], c, t, z[i])

LEMMA EvaluatedExists ==
  ASSUME NEW n \in Nat, NEW z \in [1 .. n -> Byte], NEW t \in Nat, NEW c \in [1 .. t -> Byte]
  PROVE  \E e : Evaluated(e, c, t, z, n) /\ \A i \in 1 .. n : e[i][t] = EvalPoly(c, z[i])
<1> DEFINE Is(i, u) == Evaluation(u, c, t, z[i]) /\ u[t] = EvalPoly(c, z[i])
           e == [i \in 1 .. n |-> CHOOSE u : Is(i, u)]
<1>1. ASSUME NEW i \in 1 .. n PROVE Is(i, e[i])
  <2>1. z[i] \in Byte
    OBVIOUS
  <2>2. \E u : Is(i, u)
    BY <2>1, EvaluationsExist
  <2> HIDE DEF Is
  <2> QED
    BY <2>2
<1>2. e \in [1 .. n -> [0 .. t -> Byte]]
  BY <1>1 DEF Evaluation
<1> HIDE DEF e
<1> QED
  BY <1>1, <1>2 DEF Evaluated

\* The polynomial's values at points, weighed, are zero when there are more points than
\* coefficients and the highest coefficient when there are as many.
LEMMA WeighPolynomial ==
  ASSUME NEW n \in Nat, NEW z, Points(z, n), NEW t \in Nat, NEW c \in [1 .. t -> Byte],
         NEW e, Evaluated(e, c, t, z, n), NEW r \in 0 .. t, NEW m \in 1 .. n, r <= m
  PROVE  /\ [i \in 1 .. n |-> e[i][r]] \in [1 .. n -> Byte]
         /\ Weigh(z, n, m, [i \in 1 .. n |-> e[i][r]]) = IF r < m THEN {} ELSE c[t]
<1> DEFINE g(q) == [i \in 1 .. n |-> e[i][q]]
           Holds(q, k) == q <= k => Weigh(z, n, k, g(q)) = IF q < k THEN {} ELSE c[t]
           T == {q \in Nat : q <= t => \A k \in 1 .. n : Holds(q, k)}
<1>1. z \in [1 .. n -> Byte] /\ \A i \in 1 .. n : z[i] \in Byte
  BY DEF Points
<1>2. /\ \A i \in 1 .. n : e[i] \in [0 .. t -> Byte] /\ e[i][0] = {}
      /\ \A i \in 1 .. n : \A q \in 1 .. t : e[i][q] = GfAdd(GfMul(e[i][q - 1], z[i]), c[t - q + 1])
  BY DEF Evaluated, Evaluation
<1>3. \A q \in 0 .. t : g(q) \in [1 .. n -> Byte]
  BY <1>2
<1>4. 0 \in T
  <2> SUFFICES ASSUME NEW k \in 1 .. n PROVE Weigh(z, n, k, g(0)) = {}
    OBVIOUS
  <2>1. g(0) \in [1 .. n -> Byte] /\ \A i \in 1 .. n : g(0)[i] = {}
    BY <1>2, <1>3
  <2>2. k \in 0 .. n
    OBVIOUS
  <2> DEFINE o == g(0)
  <2>3. o \in [1 .. n -> Byte] /\ \A i \in 1 .. n : o[i] = {}
    BY <2>1
  <2> HIDE DEF o
  <2>4. Mixed(o, {}, o, {}, o, k, n)
    <3>1. {} \in Byte /\ GfMul({}, {}) = {} /\ GfAdd({}, {}) = {}
      BY FieldLaws, SumLaws
    <3>2. \A i \in 1 .. k : o[i] = GfAdd(GfMul({}, o[i]), GfMul({}, o[i]))
      <4> SUFFICES ASSUME NEW i \in 1 .. k PROVE o[i] = GfAdd(GfMul({}, o[i]), GfMul({}, o[i]))
        OBVIOUS
      <4>1. o[i] = {}
        BY <2>3
      <4> QED
        BY <3>1, <4>1
    <3> QED
      BY <2>3, <3>1, <3>2 DEF Mixed, SumOfScaled
  <2>5. Weigh(z, n, k, o) = GfAdd(GfMul({}, Weigh(z, n, k, o)), GfMul({}, Weigh(z, n, k, o)))
    BY <1>1, <2>2, <2>4, WeighLinear
  <2>6. Weigh(z, n, k, o) = {}
    BY <2>5, SumLaws
  <2> QED
    BY <2>6 DEF o
<1>5. ASSUME NEW q \in T PROVE q + 1 \in T
  <2>1. q \in Nat /\ q + 1 \in Nat /\ (q + 1) - 1 = q
    OBVIOUS
  <2>2. ASSUME q <= t, NEW k \in 1 .. n, q <= k
        PROVE  Weigh(z, n, k, g(q)) = IF q < k THEN {} ELSE c[t]
    BY <2>2
  <2> SUFFICES ASSUME q + 1 <= t, NEW k \in 1 .. n, q + 1 <= k
               PROVE  Weigh(z, n, k, g(q + 1)) = IF q + 1 < k THEN {} ELSE c[t]
    BY <2>1
  <2> HIDE DEF T
  <2> DEFINE u == g(q)
             v == g(q + 1)
             zu == Times(z, u, n)
             o == Ones(n)
             d == c[t - (q + 1) + 1]
             l == k - 1
  <2>3. /\ q \in 0 .. t /\ q + 1 \in 0 .. t /\ q + 1 \in 1 .. t /\ q <= t /\ q <= k /\ q < k
        /\ l \in 0 .. n - 1 /\ l + 1 = k /\ k \in 0 .. n /\ q <= l
        /\ t - (q + 1) + 1 \in 1 .. t
    BY <2>1
  <2>4. u \in [1 .. n -> Byte] /\ v \in [1 .. n -> Byte]
    BY <1>3, <2>3
  <2>5. d \in Byte
    BY <2>3
  <2>6. \A i \in 1 .. n : v[i] = GfAdd(GfMul(u[i], z[i]), d) /\ u[i] \in Byte
    BY <1>2, <2>1, <2>3
  <2>7. Weigh(z, n, k, u) = {}
    BY <2>2, <2>3
  <2>8. Weigh(z, n, l, u) = IF l = 0 THEN {} ELSE IF q < l THEN {} ELSE c[t]
    <3>1. CASE l = 0
      <4> HIDE DEF u
      <4>1. Weigh(z, n, 0, u) = {}
        BY <1>1, <2>4, WeighNone
      <4> QED
        BY <3>1, <4>1
    <3>2. CASE l # 0
      <4>1. l \in 1 .. n
        BY <2>3, <3>2
      <4>2. Weigh(z, n, l, u) = IF q < l THEN {} ELSE c[t]
        BY <2>2, <2>3, <4>1
      <4> QED
        BY <3>2, <4>2
    <3> QED
      BY <3>1, <3>2
  <2> HIDE DEF u, v
  <2>9. zu \in [1 .. n -> Byte] /\ Weigh(z, n, k, zu) = GfAdd(GfMul(z[k], Weigh(z, n, k, u)), Weigh(z, n, l, u))
    <3>1. /\ Times(z, u, n) \in [1 .. n -> Byte]
          /\ Weigh(z, n, l + 1, Times(z, u, n))
              = GfAdd(GfMul(z[l + 1], Weigh(z, n, l + 1, u)), Weigh(z, n, l, u))
      <4> HIDE DEF l
      <4> QED
        BY <2>3, <2>4, WeighShift
    <3> QED
      BY <2>3, <3>1
  <2>10. o \in [1 .. n -> Byte] /\ Weigh(z, n, k, o) = IF l = 0 THEN {0} ELSE {}
    <3>1. Ones(n) \in [1 .. n -> Byte] /\ Weigh(z, n, l + 1, Ones(n)) = IF l = 0 THEN {0} ELSE {}
      <4> HIDE DEF l
      <4> QED
        BY <2>3, WeighOnes
    <3> QED
      BY <2>3, <3>1
  <2>11. Weigh(z, n, k, zu) = Weigh(z, n, l, u)
    <3>1. z[k] \in Byte
      BY <1>1
    <3>2. GfMul(z[k], {}) = {}
      BY <3>1, FieldLaws
    <3>3. Weigh(z, n, k, zu) = GfAdd({}, Weigh(z, n, l, u))
      BY <2>7, <2>9, <3>2
    <3> QED
      BY <3>3, SumLaws
  <2>12. SumOfScaled(v, {0}, zu, d, o, k)
    <3> SUFFICES ASSUME NEW i \in 1 .. k
                 PROVE  v[i] = GfAdd(GfMul({0}, zu[i]), GfMul(d, o[i]))
      BY DEF SumOfScaled
    <3>1. i \in 1 .. n
      OBVIOUS
    <3>2. zu[i] = GfMul(z[i], u[i]) /\ o[i] = {0}
      BY <3>1 DEF Times, Ones
    <3>3. u[i] \in Byte /\ z[i] \in Byte /\ v[i] = GfAdd(GfMul(u[i], z[i]), d)
      BY <1>1, <2>6, <3>1
    <3>4. GfMul(z[i], u[i]) = GfMul(u[i], z[i]) /\ GfMul(z[i], u[i]) \in Byte
      BY <3>3, Commutes, ProductInByte
    <3>5. GfMul({0}, GfMul(z[i], u[i])) = GfMul(z[i], u[i])
      BY <3>4, FieldLaws
    <3>6. GfMul(d, {0}) = d
      BY <2>5, FieldLaws
    <3> QED
      BY <3>2, <3>3, <3>4, <3>5, <3>6
  <2> HIDE DEF zu, o, d
  <2>13. Weigh(z, n, k, v) = GfAdd(GfMul({0}, Weigh(z, n, k, zu)), GfMul(d, Weigh(z, n, k, o)))
    <3>1. Mixed(v, {0}, zu, d, o, k, n)
      BY <2>4, <2>5, <2>9, <2>10, <2>12, FieldLaws DEF Mixed
    <3> QED
      BY <1>1, <2>3, <3>1, WeighLinear
  <2>14. GfMul({0}, Weigh(z, n, k, zu)) = Weigh(z, n, l, u)
    <3>1. Weigh(z, n, k, zu) \in Byte
      BY <1>1, <2>3, <2>9, TermsAre
    <3> QED
      BY <2>11, <3>1, FieldLaws
  <2>15. CASE l = 0
    <3>1. q = 0 /\ k = 1 /\ d = c[t]
      BY <2>1, <2>3, <2>15 DEF d
    <3>2. GfMul(d, {0}) = d
      BY <2>5, FieldLaws
    <3>3. Weigh(z, n, k, v) = GfAdd({}, d)
      BY <2>8, <2>10, <2>13, <2>14, <2>15, <3>2
    <3>4. Weigh(z, n, k, v) = c[t] /\ ~ (q + 1 < k)
      BY <3>1, <3>3, SumLaws
    <3> QED
      BY <3>4 DEF v
  <2>16. CASE l # 0
    <3>1. GfMul(d, {}) = {}
      BY <2>5, FieldLaws
    <3>2. Weigh(z, n, k, v) = GfAdd(Weigh(z, n, l, u), {})
      BY <2>10, <2>13, <2>14, <2>16, <3>1
    <3>3. q < l <=> q + 1 < k
      BY <2>1, <2>3
    <3>4. Weigh(z, n, k, v) = IF q + 1 < k THEN {} ELSE c[t]
      BY <2>8, <2>16, <3>2, <3>3, SumLaws
    <3> QED
      BY <3>4 DEF v
  <2> QED
    BY <2>15, <2>16
<1> HIDE DEF T
<1>6. T = Nat
  <2>1. T \subseteq Nat
    BY DEF T
  <2> QED
    BY <1>4, <1>5, <2>1, FromZeroUp
<1>7. Weigh(z, n, m, g(r)) = IF r < m THEN {} ELSE c[t]
  BY <1>6 DEF T
<1> QED
  BY <1>3, <1>7

\* The products of one term of lagrange_at_zero.
Numerator(shares, i) ==
  FoldLeft(LAMBDA p, j : IF j = i THEN p ELSE GfMul(p, shares[j].x),
           {0}, [j \in 1 .. Len(shares) |-> j])
Denominator(shares, i) ==
  FoldLeft(LAMBDA p, j : IF j = i THEN p ELSE GfMul(p, GfAdd(shares[i].x, shares[j].x)),
           {0}, [j \in 1 .. Len(shares) |-> j])

LEMMA NumeratorIsFold ==
  ASSUME NEW shares, NEW i
  PROVE  LET q == [j \in 1 .. Len(shares) |-> j]
             h == CHOOSE h : h = [s \in SUBSET DOMAIN q |->
                    IF s = {} THEN {0}
                    ELSE IF q[Max(s)] = i THEN h[s \ {Max(s)}]
                         ELSE GfMul(h[s \ {Max(s)}], shares[q[Max(s)]].x)]
         IN  Numerator(shares, i) = h[DOMAIN q]
BY Zenon DEF Numerator, FoldLeft, MapThenFoldSet

LEMMA DenominatorIsFold ==
  ASSUME NEW shares, NEW i
  PROVE  LET q == [j \in 1 .. Len(shares) |-> j]
             h == CHOOSE h : h = [s \in SUBSET DOMAIN q |->
                    IF s = {} THEN {0}
                    ELSE IF q[Max(s)] = i THEN h[s \ {Max(s)}]
                         ELSE GfMul(h[s \ {Max(s)}], GfAdd(shares[i].x, shares[q[Max(s)]].x))]
         IN  Denominator(shares, i) = h[DOMAIN q]
BY Zenon DEF Denominator, FoldLeft, MapThenFoldSet

Term(shares, i) ==
  GfMul(shares[i].y, GfMul(Numerator(shares, i), GfInv(Denominator(shares, i))))

LEMMA LagrangeFolds ==
  ASSUME NEW shares
  PROVE  LagrangeAtZero(shares)
           = FoldLeft(LAMBDA acc, i : GfAdd(acc, Term(shares, i)), {}, [j \in 1 .. Len(shares) |-> j])
BY Zenon DEF LagrangeAtZero, Term, Numerator, Denominator

LEMMA LagrangeIsFold ==
  ASSUME NEW shares
  PROVE  LET q == [j \in 1 .. Len(shares) |-> j]
             h == CHOOSE h : h = [s \in SUBSET DOMAIN q |->
                    IF s = {} THEN {} ELSE GfAdd(h[s \ {Max(s)}], Term(shares, q[Max(s)]))]
         IN  LagrangeAtZero(shares) = h[DOMAIN q]
<1>1. LagrangeAtZero(shares)
           = FoldLeft(LAMBDA acc, i : GfAdd(acc, Term(shares, i)), {}, [j \in 1 .. Len(shares) |-> j])
  BY LagrangeFolds
<1> QED
  BY <1>1, Zenon DEF FoldLeft, MapThenFoldSet

\* k shares, given once each.
GivenShares(shares, k) ==
  /\ Len(shares) = k
  /\ \A j \in 1 .. k : shares[j].x \in NonZero /\ shares[j].y \in Byte
  /\ \A i, j \in 1 .. k : shares[i].x = shares[j].x => i = j

NumeratorFactors(shares, k, i) == [j \in 1 .. k |-> IF j = i THEN {0} ELSE shares[j].x]
DenominatorFactors(shares, k, i) ==
  [j \in 1 .. k |-> IF j = i THEN {0} ELSE GfAdd(shares[i].x, shares[j].x)]

LEMMA NumeratorIs ==
  ASSUME NEW k \in Nat, NEW shares, GivenShares(shares, k), NEW i \in 1 .. k
  PROVE  /\ NumeratorFactors(shares, k, i) \in [1 .. k -> NonZero]
         /\ ProductsUpTo(ProductsOf(NumeratorFactors(shares, k, i), k), k, NumeratorFactors(shares, k, i))
         /\ Numerator(shares, i) = ProductsOf(NumeratorFactors(shares, k, i), k)[k]
<1> DEFINE S == 1 .. k
           q == [j \in 1 .. Len(shares) |-> j]
           f == NumeratorFactors(shares, k, i)
           p == ProductsOf(f, k)
           F == [j \in S |-> [y \in Byte |-> GfMul(y, f[j])]]
           is(h) == h = [s \in SUBSET DOMAIN q |->
                      IF s = {} THEN {0}
                      ELSE IF q[Max(s)] = i THEN h[s \ {Max(s)}]
                           ELSE GfMul(h[s \ {Max(s)}], shares[q[Max(s)]].x)]
<1>1. /\ Len(shares) = k /\ \A j \in S : shares[j].x \in NonZero
      /\ \A j, l \in S : shares[j].x = shares[l].x => j = l
  BY DEF GivenShares
<1>2. {0} \in Byte /\ {0} \in NonZero /\ \A x, y \in Byte : GfMul(x, y) \in Byte
  BY InverseOfOne, ProductInByte, FieldLaws
<1>3. DOMAIN q = S
  BY <1>1
<1>4. Numerator(shares, i) = (CHOOSE h : is(h))[DOMAIN q]
  BY Zenon, NumeratorIsFold
<1>5. \A j \in S : f[j] = IF j = i THEN {0} ELSE shares[j].x
  BY DEF NumeratorFactors
<1>6. \A j \in S : f[j] \in NonZero
  <2> SUFFICES ASSUME NEW j \in S PROVE f[j] \in NonZero
    OBVIOUS
  <2> QED
    BY <1>1, <1>2, <1>5
<1>7. f \in [S -> NonZero] /\ f \in [S -> Byte]
  BY <1>6 DEF NumeratorFactors, NonZero
<1>8. ProductsUpTo(p, k, f)
  <2> HIDE DEF f
  <2> QED
    BY <1>7, ProductsAre
<1> HIDE DEF f, p
<1>9. F \in [1 .. k -> [Byte -> Byte]] /\ \A j \in S, y \in Byte : F[j][y] = GfMul(y, f[j])
  BY <1>2, <1>7
<1>10. \A j \in S : q[j] = j
  BY <1>1
<1> HIDE DEF F, q
<1>11. ASSUME NEW j \in S, NEW y \in Byte
       PROVE  F[j][y] = IF q[j] = i THEN y ELSE GfMul(y, shares[q[j]].x)
  <2>1. F[j][y] = GfMul(y, f[j]) /\ q[j] = j
    BY <1>9, <1>10
  <2>2. CASE j = i
    <3>1. f[j] = {0}
      BY <1>5, <2>2
    <3>2. GfMul(y, {0}) = y
      BY OneMultiplies
    <3> QED
      BY <2>1, <2>2, <3>1, <3>2
  <2>3. CASE j # i
    <3>1. f[j] = shares[j].x
      BY <1>5, <2>3
    <3> QED
      BY <2>1, <2>3, <3>1
  <2> QED
    BY <2>2, <2>3
<1>12. PICK g : LeftFolded(g, k, {0}, F, Byte)
  BY <1>2, <1>9, LeftFoldsExist
<1>13. is(g)
  <2>1. /\ g \in [SUBSET S -> Byte] /\ g[{}] = {0}
        /\ \A s \in SUBSET S : s # {} =>
             /\ Max(s) \in S /\ g[s \ {Max(s)}] \in Byte
             /\ g[s] = F[Max(s)][g[s \ {Max(s)}]]
    BY <1>12 DEF LeftFolded
  <2> HIDE DEF S
  <2>2. ASSUME NEW s \in SUBSET S
        PROVE  g[s] = IF s = {} THEN {0}
                      ELSE IF q[Max(s)] = i THEN g[s \ {Max(s)}]
                           ELSE GfMul(g[s \ {Max(s)}], shares[q[Max(s)]].x)
    <3>1. CASE s = {}
      BY <2>1, <3>1
    <3>2. CASE s # {}
      BY <1>11, <2>1, <3>2
    <3> QED
      BY <3>1, <3>2
  <2> QED
    BY <1>3, <2>1, <2>2
<1> DEFINE h == CHOOSE h : is(h)
<1>14. is(h) /\ Numerator(shares, i) = h[S]
  BY <1>3, <1>4, <1>13
<1> HIDE DEF h
<1>15. LeftFolds(h, k, {0}, F, Byte)
  <2>1. h[{}] = {0}
    BY <1>3, <1>14
  <2>2. ASSUME NEW s \in SUBSET S, s # {}, h[s \ {Max(s)}] \in Byte
        PROVE  h[s] = F[Max(s)][h[s \ {Max(s)}]]
    <3>1. Max(s) \in S
      <4>1. Max(s) \in s
        BY <2>2, HasEnds
      <4> QED
        BY <4>1
    <3>2. h[s] = IF q[Max(s)] = i THEN h[s \ {Max(s)}]
                 ELSE GfMul(h[s \ {Max(s)}], shares[q[Max(s)]].x)
      BY <1>3, <1>14, <2>2
    <3> HIDE DEF S
    <3> QED
      BY <1>11, <2>2, <3>1, <3>2
  <2> QED
    BY <2>1, <2>2 DEF LeftFolds
<1>16. PICK x : Chain(x, k, {0}, F, Byte) /\ x[k] = h[1 .. k]
  BY <1>2, <1>9, <1>15, FoldIsChain
<1>17. ProductsUpTo(x, k, f)
  <2>1. x \in [0 .. k -> Byte] /\ x[0] = {0}
    BY <1>16 DEF Chain
  <2>2. ASSUME NEW j \in 1 .. k PROVE x[j] = GfMul(x[j - 1], f[j])
    <3>1. j - 1 \in 0 .. k
      OBVIOUS
    <3>2. x[j] = F[j][x[j - 1]] /\ x[j - 1] \in Byte
      BY <1>16, <2>1, <3>1 DEF Chain
    <3> QED
      BY <1>9, <3>2
  <2> QED
    BY <2>1, <2>2 DEF ProductsUpTo
<1>18. x[k] = p[k]
  BY <1>8, <1>17, ProductsAgree
<1> QED
  BY <1>7, <1>8, <1>14, <1>16, <1>18 DEF f, p

LEMMA DenominatorIs ==
  ASSUME NEW k \in Nat, NEW shares, GivenShares(shares, k), NEW i \in 1 .. k
  PROVE  /\ DenominatorFactors(shares, k, i) \in [1 .. k -> NonZero]
         /\ ProductsUpTo(ProductsOf(DenominatorFactors(shares, k, i), k), k, DenominatorFactors(shares, k, i))
         /\ Denominator(shares, i) = ProductsOf(DenominatorFactors(shares, k, i), k)[k]
<1> DEFINE S == 1 .. k
           q == [j \in 1 .. Len(shares) |-> j]
           f == DenominatorFactors(shares, k, i)
           p == ProductsOf(f, k)
           F == [j \in S |-> [y \in Byte |-> GfMul(y, f[j])]]
           is(h) == h = [s \in SUBSET DOMAIN q |->
                      IF s = {} THEN {0}
                      ELSE IF q[Max(s)] = i THEN h[s \ {Max(s)}]
                           ELSE GfMul(h[s \ {Max(s)}], GfAdd(shares[i].x, shares[q[Max(s)]].x))]
<1>1. /\ Len(shares) = k /\ \A j \in S : shares[j].x \in NonZero
      /\ \A j, l \in S : shares[j].x = shares[l].x => j = l
  BY DEF GivenShares
<1>2. {0} \in Byte /\ {0} \in NonZero /\ \A x, y \in Byte : GfMul(x, y) \in Byte
  BY InverseOfOne, ProductInByte, FieldLaws
<1>3. DOMAIN q = S
  BY <1>1
<1>4. Denominator(shares, i) = (CHOOSE h : is(h))[DOMAIN q]
  BY Zenon, DenominatorIsFold
<1>5. \A j \in S : f[j] = IF j = i THEN {0} ELSE GfAdd(shares[i].x, shares[j].x)
  BY DEF DenominatorFactors
<1>6. \A j \in S : f[j] \in NonZero
  <2> SUFFICES ASSUME NEW j \in S PROVE f[j] \in NonZero
    OBVIOUS
  <2>1. CASE j = i
    BY <1>2, <1>5, <2>1
  <2>2. CASE j # i
    <3>1. shares[i].x \in Byte /\ shares[j].x \in Byte /\ shares[i].x # shares[j].x
      BY <1>1, <2>2 DEF NonZero
    <3>2. GfAdd(shares[i].x, shares[j].x) \in NonZero
      BY <3>1, DifferenceNonZero
    <3> QED
      BY <1>5, <2>2, <3>2
  <2> QED
    BY <2>1, <2>2
<1>7. f \in [S -> NonZero] /\ f \in [S -> Byte]
  BY <1>6 DEF DenominatorFactors, NonZero
<1>8. ProductsUpTo(p, k, f)
  <2> HIDE DEF f
  <2> QED
    BY <1>7, ProductsAre
<1> HIDE DEF f, p
<1>9. F \in [1 .. k -> [Byte -> Byte]] /\ \A j \in S, y \in Byte : F[j][y] = GfMul(y, f[j])
  BY <1>2, <1>7
<1>10. \A j \in S : q[j] = j
  BY <1>1
<1> HIDE DEF F, q
<1>11. ASSUME NEW j \in S, NEW y \in Byte
       PROVE  F[j][y] = IF q[j] = i THEN y ELSE GfMul(y, GfAdd(shares[i].x, shares[q[j]].x))
  <2>1. F[j][y] = GfMul(y, f[j]) /\ q[j] = j
    BY <1>9, <1>10
  <2>2. CASE j = i
    <3>1. f[j] = {0}
      BY <1>5, <2>2
    <3>2. GfMul(y, {0}) = y
      BY OneMultiplies
    <3> QED
      BY <2>1, <2>2, <3>1, <3>2
  <2>3. CASE j # i
    <3>1. f[j] = GfAdd(shares[i].x, shares[j].x)
      BY <1>5, <2>3
    <3> QED
      BY <2>1, <2>3, <3>1
  <2> QED
    BY <2>2, <2>3
<1>12. PICK g : LeftFolded(g, k, {0}, F, Byte)
  BY <1>2, <1>9, LeftFoldsExist
<1>13. is(g)
  <2>1. /\ g \in [SUBSET S -> Byte] /\ g[{}] = {0}
        /\ \A s \in SUBSET S : s # {} =>
             /\ Max(s) \in S /\ g[s \ {Max(s)}] \in Byte
             /\ g[s] = F[Max(s)][g[s \ {Max(s)}]]
    BY <1>12 DEF LeftFolded
  <2> HIDE DEF S
  <2>2. ASSUME NEW s \in SUBSET S
        PROVE  g[s] = IF s = {} THEN {0}
                      ELSE IF q[Max(s)] = i THEN g[s \ {Max(s)}]
                           ELSE GfMul(g[s \ {Max(s)}], GfAdd(shares[i].x, shares[q[Max(s)]].x))
    <3>1. CASE s = {}
      BY <2>1, <3>1
    <3>2. CASE s # {}
      BY <1>11, <2>1, <3>2
    <3> QED
      BY <3>1, <3>2
  <2> QED
    BY <1>3, <2>1, <2>2
<1> DEFINE h == CHOOSE h : is(h)
<1>14. is(h) /\ Denominator(shares, i) = h[S]
  BY <1>3, <1>4, <1>13
<1> HIDE DEF h
<1>15. LeftFolds(h, k, {0}, F, Byte)
  <2>1. h[{}] = {0}
    BY <1>3, <1>14
  <2>2. ASSUME NEW s \in SUBSET S, s # {}, h[s \ {Max(s)}] \in Byte
        PROVE  h[s] = F[Max(s)][h[s \ {Max(s)}]]
    <3>1. Max(s) \in S
      <4>1. Max(s) \in s
        BY <2>2, HasEnds
      <4> QED
        BY <4>1
    <3>2. h[s] = IF q[Max(s)] = i THEN h[s \ {Max(s)}]
                 ELSE GfMul(h[s \ {Max(s)}], GfAdd(shares[i].x, shares[q[Max(s)]].x))
      BY <1>3, <1>14, <2>2
    <3> HIDE DEF S
    <3> QED
      BY <1>11, <2>2, <3>1, <3>2
  <2> QED
    BY <2>1, <2>2 DEF LeftFolds
<1>16. PICK x : Chain(x, k, {0}, F, Byte) /\ x[k] = h[1 .. k]
  BY <1>2, <1>9, <1>15, FoldIsChain
<1>17. ProductsUpTo(x, k, f)
  <2>1. x \in [0 .. k -> Byte] /\ x[0] = {0}
    BY <1>16 DEF Chain
  <2>2. ASSUME NEW j \in 1 .. k PROVE x[j] = GfMul(x[j - 1], f[j])
    <3>1. j - 1 \in 0 .. k
      OBVIOUS
    <3>2. x[j] = F[j][x[j - 1]] /\ x[j - 1] \in Byte
      BY <1>16, <2>1, <3>1 DEF Chain
    <3> QED
      BY <1>9, <3>2
  <2> QED
    BY <2>1, <2>2 DEF ProductsUpTo
<1>18. x[k] = p[k]
  BY <1>8, <1>17, ProductsAgree
<1> QED
  BY <1>7, <1>8, <1>14, <1>16, <1>18 DEF f, p

LEMMA LagrangeIs ==
  ASSUME NEW k \in Nat, NEW shares, GivenShares(shares, k)
  PROVE  /\ [i \in 1 .. k |-> Term(shares, i)] \in [1 .. k -> Byte]
         /\ LagrangeAtZero(shares) = SumsOf([i \in 1 .. k |-> Term(shares, i)], k)[k]
<1> DEFINE S == 1 .. k
           q == [j \in 1 .. Len(shares) |-> j]
           f == [i \in 1 .. k |-> Term(shares, i)]
           p == SumsOf(f, k)
           F == [j \in S |-> [y \in Byte |-> GfAdd(y, f[j])]]
           is(h) == h = [s \in SUBSET DOMAIN q |->
                      IF s = {} THEN {} ELSE GfAdd(h[s \ {Max(s)}], Term(shares, q[Max(s)]))]
<1>1. Len(shares) = k /\ \A j \in S : shares[j].y \in Byte
  BY DEF GivenShares
<1>2. {} \in Byte /\ \A x, y \in Byte : GfAdd(x, y) \in Byte
  BY FieldLaws
<1>3. DOMAIN q = S
  BY <1>1
<1>4. LagrangeAtZero(shares) = (CHOOSE h : is(h))[DOMAIN q]
  BY Zenon, LagrangeIsFold
<1>5. \A j \in S : f[j] = Term(shares, j)
  OBVIOUS
<1>6. ASSUME NEW j \in S PROVE Term(shares, j) \in Byte
  <2> DEFINE a == NumeratorFactors(shares, k, j)
             b == DenominatorFactors(shares, k, j)
  <2>1. /\ ProductsUpTo(ProductsOf(a, k), k, a) /\ Numerator(shares, j) = ProductsOf(a, k)[k]
    BY NumeratorIs
  <2>2. /\ \A l \in 1 .. k : b[l] \in NonZero
        /\ ProductsUpTo(ProductsOf(b, k), k, b) /\ Denominator(shares, j) = ProductsOf(b, k)[k]
    BY DenominatorIs
  <2> HIDE DEF a, b
  <2>3. Numerator(shares, j) \in Byte
    BY <2>1 DEF ProductsUpTo
  <2>4. Denominator(shares, j) \in NonZero
    BY <2>2, ProductsNonZero
  <2>5. GfInv(Denominator(shares, j)) \in Byte
    BY <2>4, Inverts
  <2> QED
    BY <1>1, <2>3, <2>5, ProductInByte DEF Term
<1>7. f \in [S -> Byte]
  BY <1>6
<1>8. SumsUpTo(p, k, f)
  <2> HIDE DEF f
  <2> QED
    BY <1>7, SumsAre
<1> HIDE DEF f, p
<1>9. F \in [1 .. k -> [Byte -> Byte]] /\ \A j \in S, y \in Byte : F[j][y] = GfAdd(y, f[j])
  BY <1>2, <1>7
<1>10. \A j \in S : q[j] = j
  BY <1>1
<1> HIDE DEF F, q
<1>11. \A j \in S, y \in Byte : F[j][y] = GfAdd(y, Term(shares, q[j]))
  BY <1>5, <1>9, <1>10
<1>12. PICK g : LeftFolded(g, k, {}, F, Byte)
  BY <1>2, <1>9, LeftFoldsExist
<1>13. is(g)
  <2>1. /\ g \in [SUBSET S -> Byte] /\ g[{}] = {}
        /\ \A s \in SUBSET S : s # {} =>
             /\ Max(s) \in S /\ g[s \ {Max(s)}] \in Byte
             /\ g[s] = F[Max(s)][g[s \ {Max(s)}]]
    BY <1>12 DEF LeftFolded
  <2> HIDE DEF S
  <2>2. ASSUME NEW s \in SUBSET S
        PROVE  g[s] = IF s = {} THEN {} ELSE GfAdd(g[s \ {Max(s)}], Term(shares, q[Max(s)]))
    <3>1. CASE s = {}
      BY <2>1, <3>1
    <3>2. CASE s # {}
      BY <1>11, <2>1, <3>2
    <3> QED
      BY <3>1, <3>2
  <2> QED
    BY <1>3, <2>1, <2>2
<1> DEFINE h == CHOOSE h : is(h)
<1>14. is(h) /\ LagrangeAtZero(shares) = h[S]
  BY <1>3, <1>4, <1>13
<1> HIDE DEF h
<1>15. LeftFolds(h, k, {}, F, Byte)
  <2>1. h[{}] = {}
    BY <1>3, <1>14
  <2>2. ASSUME NEW s \in SUBSET S, s # {}, h[s \ {Max(s)}] \in Byte
        PROVE  h[s] = F[Max(s)][h[s \ {Max(s)}]]
    <3>1. Max(s) \in S
      <4>1. Max(s) \in s
        BY <2>2, HasEnds
      <4> QED
        BY <4>1
    <3>2. h[s] = GfAdd(h[s \ {Max(s)}], Term(shares, q[Max(s)]))
      BY <1>3, <1>14, <2>2
    <3> HIDE DEF S
    <3> QED
      BY <1>11, <2>2, <3>1, <3>2
  <2> QED
    BY <2>1, <2>2 DEF LeftFolds
<1>16. PICK x : Chain(x, k, {}, F, Byte) /\ x[k] = h[1 .. k]
  BY <1>2, <1>9, <1>15, FoldIsChain
<1>17. SumsUpTo(x, k, f)
  <2>1. x \in [0 .. k -> Byte] /\ x[0] = {}
    BY <1>16 DEF Chain
  <2>2. ASSUME NEW j \in 1 .. k PROVE x[j] = GfAdd(x[j - 1], f[j])
    <3>1. j - 1 \in 0 .. k
      OBVIOUS
    <3>2. x[j] = F[j][x[j - 1]] /\ x[j - 1] \in Byte
      BY <1>16, <2>1, <3>1 DEF Chain
    <3> QED
      BY <1>9, <3>2
  <2> QED
    BY <2>1, <2>2 DEF SumsUpTo
<1>18. x[k] = p[k]
  BY <1>8, <1>17, SumsAgree
<1> QED
  BY <1>7, <1>14, <1>16, <1>18 DEF f, p

\* A product that leaves out one factor, times that factor.
LEMMA ProductLeaving ==
  ASSUME NEW n \in Nat, NEW i \in 1 .. n,
         NEW f \in [1 .. n -> Byte], NEW p, ProductsUpTo(p, n, f),
         NEW g \in [1 .. n -> Byte], NEW q, ProductsUpTo(q, n, g),
         g[i] = {0}, \A j \in 1 .. n : j # i => g[j] = f[j]
  PROVE  p[n] = GfMul(q[n], f[i])
<1> DEFINE T == {m \in Nat : m <= n => p[m] = IF m < i THEN q[m] ELSE GfMul(q[m], f[i])}
<1>1. 0 \in T
  <2>1. p[0] = q[0] /\ 0 < i
    BY DEF ProductsUpTo
  <2> QED
    BY <2>1
<1>2. ASSUME NEW m \in T PROVE m + 1 \in T
  <2>1. m \in Nat /\ m + 1 \in Nat /\ (m + 1) - 1 = m
    OBVIOUS
  <2> SUFFICES ASSUME m + 1 <= n
               PROVE  p[m + 1] = IF m + 1 < i THEN q[m + 1] ELSE GfMul(q[m + 1], f[i])
    BY <2>1
  <2>2. /\ m + 1 \in 1 .. n /\ m \in 0 .. n
        /\ p[m] = IF m < i THEN q[m] ELSE GfMul(q[m], f[i])
    BY <2>1
  <2>3. p[m + 1] = GfMul(p[m], f[m + 1]) /\ q[m + 1] = GfMul(q[m], g[m + 1])
    BY <2>1, <2>2 DEF ProductsUpTo
  <2>4. q[m] \in Byte /\ f[i] \in Byte /\ f[m + 1] \in Byte
    BY <2>2 DEF ProductsUpTo
  <2>5. CASE m + 1 < i
    <3>1. g[m + 1] = f[m + 1] /\ m < i
      BY <2>2, <2>5
    <3> QED
      BY <2>2, <2>3, <2>5, <3>1
  <2>6. CASE m + 1 = i
    <3>1. p[m] = q[m] /\ g[m + 1] = {0}
      BY <2>2, <2>6
    <3>2. q[m + 1] = q[m]
      BY <2>3, <2>4, <3>1, OneMultiplies
    <3> QED
      BY <2>3, <2>6, <3>1, <3>2
  <2>7. CASE m + 1 > i
    <3>1. p[m] = GfMul(q[m], f[i]) /\ g[m + 1] = f[m + 1]
      BY <2>2, <2>7
    <3>2. /\ GfMul(GfMul(q[m], f[i]), f[m + 1]) = GfMul(q[m], GfMul(f[i], f[m + 1]))
          /\ GfMul(f[i], f[m + 1]) = GfMul(f[m + 1], f[i])
          /\ GfMul(q[m], GfMul(f[m + 1], f[i])) = GfMul(GfMul(q[m], f[m + 1]), f[i])
      BY <2>4, Associates, Commutes
    <3>3. p[m + 1] = GfMul(q[m + 1], f[i])
      BY <2>3, <3>1, <3>2
    <3> QED
      BY <2>7, <3>3
  <2> QED
    BY <2>1, <2>5, <2>6, <2>7
<1> HIDE DEF T
<1>3. T = Nat
  <2>1. T \subseteq Nat
    BY DEF T
  <2> QED
    BY <1>1, <1>2, <2>1, FromZeroUp
<1> QED
  BY <1>3 DEF T

-----------------------------------------------------------------------------
\* The points of k shares, and zero.
PointsOf(shares, k) == [j \in 1 .. k + 1 |-> IF j = k + 1 THEN {} ELSE shares[j].x]

LEMMA PointsOfAre ==
  ASSUME NEW k \in Nat, NEW shares, GivenShares(shares, k)
  PROVE  /\ Points(PointsOf(shares, k), k + 1) /\ PointsOf(shares, k)[k + 1] = {}
         /\ \A j \in 1 .. k : PointsOf(shares, k)[j] = shares[j].x
<1> DEFINE z == PointsOf(shares, k)
<1>1. /\ \A j \in 1 .. k : shares[j].x \in NonZero
      /\ \A i, j \in 1 .. k : shares[i].x = shares[j].x => i = j
  BY DEF GivenShares
<1>2. z[k + 1] = {} /\ \A j \in 1 .. k : j \in 1 .. k + 1 /\ z[j] = shares[j].x
  BY DEF PointsOf
<1>3. ASSUME NEW j \in 1 .. k + 1 PROVE z[j] \in Byte
  <2>1. j = k + 1 \/ j \in 1 .. k
    OBVIOUS
  <2> QED
    BY <1>1, <1>2, <2>1, FieldLaws DEF NonZero
<1>4. z \in [1 .. k + 1 -> Byte]
  BY <1>3 DEF PointsOf
<1> HIDE DEF z
<1>5. ASSUME NEW i \in 1 .. k + 1, NEW j \in 1 .. k + 1, z[i] = z[j] PROVE i = j
  <2>1. (i = k + 1 \/ i \in 1 .. k) /\ (j = k + 1 \/ j \in 1 .. k)
    OBVIOUS
  <2>2. {} \notin NonZero
    BY DEF NonZero
  <2> QED
    BY <1>1, <1>2, <1>5, <2>1, <2>2
<1> QED
  BY <1>2, <1>4, <1>5 DEF Points, z

\* The product of the points of the shares.
AllPoints(shares, k) == ProductsOf([j \in 1 .. k |-> shares[j].x], k)[k]

LEMMA AllPointsAre ==
  ASSUME NEW k \in Nat, NEW shares, GivenShares(shares, k)
  PROVE  /\ [j \in 1 .. k |-> shares[j].x] \in [1 .. k -> Byte]
         /\ ProductsUpTo(ProductsOf([j \in 1 .. k |-> shares[j].x], k), k, [j \in 1 .. k |-> shares[j].x])
         /\ AllPoints(shares, k) \in NonZero
<1> DEFINE f == [j \in 1 .. k |-> shares[j].x]
           p == ProductsOf(f, k)
<1>1. \A j \in 1 .. k : f[j] \in NonZero
  BY DEF GivenShares
<1>2. f \in [1 .. k -> Byte]
  BY <1>1 DEF NonZero
<1>3. AllPoints(shares, k) = p[k]
  BY DEF AllPoints
<1> HIDE DEF f
<1>4. ProductsUpTo(p, k, f)
  BY <1>2, ProductsAre
<1> HIDE DEF p
<1>5. p[k] \in NonZero
  BY <1>1, <1>4, ProductsNonZero
<1> QED
  BY <1>2, <1>3, <1>4, <1>5 DEF f, p

\* A term's product, as a weight.
LEMMA ShareWeight ==
  ASSUME NEW k \in Nat, NEW shares, GivenShares(shares, k), NEW i \in 1 .. k
  PROVE  /\ Weight(PointsOf(shares, k)[i], PointsOf(shares, k), k + 1)[k + 1] \in Byte
         /\ GfMul(AllPoints(shares, k),
                  Weight(PointsOf(shares, k)[i], PointsOf(shares, k), k + 1)[k + 1])
              = GfMul(Numerator(shares, i), GfInv(Denominator(shares, i)))
<1> DEFINE n == k + 1
           z == PointsOf(shares, k)
           y == z[i]
           w == Weight(y, z, n)
           all == [j \in 1 .. k |-> shares[j].x]
           some == NumeratorFactors(shares, k, i)
           diffs == DenominatorFactors(shares, k, i)
           gaps == Gaps(y, z, n)
           M == AllPoints(shares, k)
           N == Numerator(shares, i)
           D == Denominator(shares, i)
<1>1. n \in Nat /\ k \in 0 .. n /\ n \in 1 .. n /\ n - 1 = k /\ n \in 0 .. n /\ i \in 1 .. n
  OBVIOUS
<1>2. /\ z \in [1 .. n -> Byte] /\ \A j, l \in 1 .. n : z[j] = z[l] => j = l
      /\ z[n] = {} /\ \A j \in 1 .. k : z[j] = shares[j].x
  BY PointsOfAre DEF Points
<1>3. y = shares[i].x /\ y \in NonZero /\ y \in Byte /\ y # z[n]
  BY <1>2 DEF GivenShares, NonZero
<1> HIDE DEF n, y, z
<1>4. WeightSteps(w, y, z, n)
  BY <1>1, <1>2, <1>3, WeightsAre
<1>5. w[n] = GfMul(w[k], GfInv(GfAdd(y, {})))
  BY <1>1, <1>2, <1>3, <1>4 DEF WeightSteps
<1>6. w[k] \in Byte /\ w[n] \in Byte
  BY <1>1, <1>4 DEF WeightSteps, NonZero
<1>7. GfAdd(y, {}) = y
  BY SumLaws
<1>8. w[k] = GfInv(ProductsOf(gaps, n)[k])
  BY <1>1 DEF Weight
<1>9. gaps \in [1 .. n -> Byte]
  <2> SUFFICES ASSUME NEW j \in 1 .. n PROVE gaps[j] \in Byte
    BY DEF Gaps
  <2>1. gaps[j] = {0} \/ gaps[j] = GfAdd(y, z[j])
    BY DEF Gaps
  <2>2. z[j] \in Byte /\ y \in Byte /\ {0} \in Byte
    BY <1>2, <1>3, FieldLaws
  <2>3. GfAdd(y, z[j]) \in Byte
    BY <2>2, SumInByte
  <2> QED
    BY <2>1, <2>2, <2>3
<1>10. ProductsUpTo(ProductsOf(gaps, n), n, gaps)
  <2> HIDE DEF gaps
  <2> QED
    BY <1>1, <1>9, ProductsAre
<1>11. \A j \in 1 .. k : diffs[j] = gaps[j]
  <2> SUFFICES ASSUME NEW j \in 1 .. k PROVE diffs[j] = gaps[j]
    OBVIOUS
  <2>1. j \in 1 .. n /\ i \in 1 .. n /\ z[j] = shares[j].x
    BY <1>2 DEF n
  <2>2. z[j] = y <=> j = i
    BY <1>2, <2>1 DEF y
  <2> QED
    BY <1>3, <2>1, <2>2 DEF Gaps, DenominatorFactors
<1>12. D = ProductsOf(gaps, n)[k]
  <2>1. ProductsUpTo(ProductsOf(diffs, k), k, diffs) /\ D = ProductsOf(diffs, k)[k]
    BY DenominatorIs
  <2>2. k <= k /\ k <= n
    BY <1>1
  <2> HIDE DEF diffs, gaps, D
  <2> QED
    BY <1>1, <1>10, <1>11, <2>1, <2>2, ProductsAgree
<1>13. w[k] = GfInv(D)
  BY <1>8, <1>12
<1>14. M = GfMul(N, y)
  <2>1. /\ some \in [1 .. k -> Byte] /\ ProductsUpTo(ProductsOf(some, k), k, some)
        /\ N = ProductsOf(some, k)[k]
    BY NumeratorIs DEF NonZero
  <2>2. all \in [1 .. k -> Byte] /\ ProductsUpTo(ProductsOf(all, k), k, all) /\ M = ProductsOf(all, k)[k]
    BY AllPointsAre DEF AllPoints
  <2>3. some[i] = {0} /\ \A j \in 1 .. k : j # i => some[j] = all[j]
    BY DEF NumeratorFactors
  <2>4. all[i] = y
    BY <1>3
  <2> HIDE DEF all, some, M, N
  <2>5. ProductsOf(all, k)[k] = GfMul(ProductsOf(some, k)[k], all[i])
    BY <2>1, <2>2, <2>3, ProductLeaving
  <2> QED
    BY <2>1, <2>2, <2>4, <2>5
<1>15. N \in Byte
  BY NumeratorIs DEF ProductsUpTo
<1>16. GfInv(y) \in Byte /\ GfMul(y, GfInv(y)) = {0}
  BY <1>3, Inverts
<1> HIDE DEF w, M, N, D
<1>17. GfMul(GfMul(N, y), GfMul(w[k], GfInv(y))) = GfMul(GfMul(N, w[k]), GfMul(y, GfInv(y)))
  <2>1. N \in Byte /\ y \in Byte /\ w[k] \in Byte /\ GfInv(y) \in Byte
    BY <1>3, <1>6, <1>15, <1>16
  <2> QED
    BY <2>1, ProductOfProducts
<1>18. GfMul(N, w[k]) \in Byte
  BY <1>6, <1>15, ProductInByte
<1>19. GfMul(GfMul(N, w[k]), {0}) = GfMul(N, w[k])
  BY <1>18, OneMultiplies
<1>20. GfMul(M, w[n]) = GfMul(N, GfInv(D))
  BY <1>5, <1>7, <1>13, <1>14, <1>16, <1>17, <1>19
<1> QED
  BY <1>6, <1>20 DEF w, M, N, D, y, z, n

LEMMA ZeroWeight ==
  ASSUME NEW k \in Nat, NEW shares, GivenShares(shares, k)
  PROVE  /\ Weight({}, PointsOf(shares, k), k + 1)[k + 1] \in Byte
         /\ GfMul(AllPoints(shares, k), Weight({}, PointsOf(shares, k), k + 1)[k + 1]) = {0}
<1> DEFINE n == k + 1
           z == PointsOf(shares, k)
           w == Weight({}, z, n)
           all == [j \in 1 .. k |-> shares[j].x]
           gaps == Gaps({}, z, n)
           M == AllPoints(shares, k)
<1>1. n \in Nat /\ k \in 0 .. n /\ n \in 1 .. n /\ n - 1 = k /\ n \in 0 .. n
  OBVIOUS
<1>2. /\ z \in [1 .. n -> Byte] /\ z[n] = {} /\ \A j \in 1 .. k : z[j] = shares[j].x
      /\ {} \in Byte
  <2>1. {} \in Byte
    BY FieldLaws
  <2> QED
    BY <2>1, PointsOfAre DEF Points
<1> HIDE DEF n, z
<1>3. WeightSteps(w, {}, z, n)
  BY <1>1, <1>2, WeightsAre
<1>4. w[n] = w[k] /\ w[n] \in Byte
  BY <1>1, <1>2, <1>3 DEF WeightSteps, NonZero
<1>5. w[k] = GfInv(ProductsOf(gaps, n)[k])
  BY <1>1 DEF Weight
<1>6. gaps \in [1 .. n -> Byte]
  <2> SUFFICES ASSUME NEW j \in 1 .. n PROVE gaps[j] \in Byte
    BY DEF Gaps
  <2>1. gaps[j] = {0} \/ gaps[j] = GfAdd({}, z[j])
    BY DEF Gaps
  <2>2. z[j] \in Byte /\ {} \in Byte /\ {0} \in Byte
    BY <1>2, FieldLaws
  <2>3. GfAdd({}, z[j]) \in Byte
    BY <2>2, SumInByte
  <2> QED
    BY <2>1, <2>2, <2>3
<1>7. ProductsUpTo(ProductsOf(gaps, n), n, gaps)
  <2> HIDE DEF gaps
  <2> QED
    BY <1>1, <1>6, ProductsAre
<1>8. \A j \in 1 .. k : all[j] = gaps[j]
  <2> SUFFICES ASSUME NEW j \in 1 .. k PROVE all[j] = gaps[j]
    OBVIOUS
  <2>1. j \in 1 .. n /\ z[j] = shares[j].x /\ z[j] # {}
    BY <1>2 DEF n, GivenShares, NonZero
  <2>2. GfAdd({}, z[j]) = z[j]
    BY SumLaws
  <2> QED
    BY <2>1, <2>2 DEF Gaps
<1>9. M \in NonZero /\ ProductsUpTo(ProductsOf(all, k), k, all) /\ M = ProductsOf(all, k)[k]
  BY AllPointsAre DEF AllPoints
<1>10. M = ProductsOf(gaps, n)[k]
  <2>1. k <= k /\ k <= n
    BY <1>1
  <2> HIDE DEF all, gaps, M
  <2> QED
    BY <1>1, <1>7, <1>8, <1>9, <2>1, ProductsAgree
<1> HIDE DEF w, M, gaps
<1>11. GfMul(M, w[n]) = {0}
  BY <1>4, <1>5, <1>9, <1>10, Inverts
<1> QED
  BY <1>4, <1>11 DEF w, M, z, n

\* lagrange_at_zero, and what its values weigh together with one at zero.
LEMMA LagrangeWeighs ==
  ASSUME NEW k \in Nat, NEW shares, GivenShares(shares, k),
         NEW g \in [1 .. k + 1 -> Byte], \A i \in 1 .. k : g[i] = shares[i].y
  PROVE  /\ LagrangeAtZero(shares) \in Byte
         /\ GfMul(AllPoints(shares, k), Weigh(PointsOf(shares, k), k + 1, k + 1, g))
              = GfAdd(LagrangeAtZero(shares), g[k + 1])
<1> DEFINE n == k + 1
           z == PointsOf(shares, k)
           w(i) == Weight(z[i], z, n)[n]
           terms == [i \in 1 .. k |-> Term(shares, i)]
           weighed == Terms(z, n, n, g)
           T == SumsOf(terms, k)
           S == SumsOf(weighed, n)
           M == AllPoints(shares, k)
<1>1. n \in Nat /\ k \in 0 .. n /\ n \in 1 .. n /\ n - 1 = k /\ n \in 0 .. n
  OBVIOUS
<1>2. z \in [1 .. n -> Byte] /\ z[n] = {}
  BY PointsOfAre DEF Points
<1>3. M \in Byte
  BY AllPointsAre DEF NonZero
<1>4. ASSUME NEW i \in 1 .. k
      PROVE  /\ w(i) \in Byte /\ GfMul(M, w(i)) = GfMul(Numerator(shares, i), GfInv(Denominator(shares, i)))
             /\ i \in 1 .. n /\ g[i] \in Byte /\ g[i] = shares[i].y
  BY ShareWeight
<1>5. w(n) \in Byte /\ GfMul(M, w(n)) = {0} /\ g[n] \in Byte
  <2>1. w(n) = Weight({}, z, n)[n]
    BY <1>2
  <2>2. Weight({}, z, n)[n] \in Byte /\ GfMul(M, Weight({}, z, n)[n]) = {0}
    BY ZeroWeight
  <2> QED
    BY <1>1, <2>1, <2>2
<1>6. terms \in [1 .. k -> Byte] /\ LagrangeAtZero(shares) = T[k]
  BY LagrangeIs
<1>7. SumsUpTo(T, k, terms)
  <2> HIDE DEF terms
  <2> QED
    BY <1>6, SumsAre
<1>8. \A i \in 1 .. n : weighed[i] = GfMul(w(i), g[i])
  BY DEF Terms
<1>9. /\ weighed \in [1 .. n -> Byte] /\ SumsUpTo(S, n, weighed) /\ Weigh(z, n, n, g) = S[n]
  <2>1. g \in [1 .. n -> Byte] /\ Weigh(z, n, n, g) = S[n]
    BY DEF Weigh
  <2> HIDE DEF n, z
  <2> QED
    BY <1>1, <1>2, <2>1, TermsAre
<1>10. S[n] = GfAdd(S[k], weighed[n]) /\ S[k] \in Byte /\ T[k] \in Byte /\ weighed[n] \in Byte
  BY <1>1, <1>7, <1>9 DEF SumsUpTo
<1> HIDE DEF terms, weighed, S, T, z, n
<1>11. SumOfScaled(terms, M, weighed, {}, weighed, k)
  <2> SUFFICES ASSUME NEW i \in 1 .. k
               PROVE  terms[i] = GfAdd(GfMul(M, weighed[i]), GfMul({}, weighed[i]))
    BY DEF SumOfScaled
  <2>1. /\ w(i) \in Byte /\ GfMul(M, w(i)) = GfMul(Numerator(shares, i), GfInv(Denominator(shares, i)))
        /\ i \in 1 .. n /\ g[i] \in Byte /\ g[i] = shares[i].y
    BY <1>4
  <2>2. weighed[i] = GfMul(w(i), g[i]) /\ weighed[i] \in Byte
    BY <1>8, <1>9, <2>1
  <2>3. terms[i] = GfMul(g[i], GfMul(M, w(i)))
    BY <2>1 DEF terms, Term
  <2> HIDE DEF M, w
  <2>4. GfMul(GfMul(M, w(i)), g[i]) = GfMul(M, GfMul(w(i), g[i]))
    BY <1>3, <2>1, Associates
  <2>5. GfMul(M, w(i)) \in Byte
    BY <1>3, <2>1, ProductInByte
  <2>6. GfMul(g[i], GfMul(M, w(i))) = GfMul(GfMul(M, w(i)), g[i])
    BY <2>1, <2>5, Commutes
  <2>7. GfMul({}, weighed[i]) = {}
    BY <2>2, FieldLaws
  <2> QED
    BY <2>2, <2>3, <2>4, <2>6, <2>7, SumLaws
<1>12. T[k] = GfMul(M, S[k])
  <2>1. {} \in Byte /\ k <= k /\ k <= n
    BY FieldLaws DEF n
  <2> HIDE DEF M
  <2>2. T[k] = GfAdd(GfMul(M, S[k]), GfMul({}, S[k]))
    <3>1. /\ k \in Nat /\ n \in Nat /\ M \in Byte
          /\ terms \in [1 .. k -> Byte] /\ SumsUpTo(T, k, terms)
          /\ weighed \in [1 .. n -> Byte] /\ SumsUpTo(S, n, weighed)
      BY <1>1, <1>3, <1>6, <1>7, <1>9
    <3> QED
      BY <1>11, <2>1, <3>1, SumsScale
  <2>3. GfMul({}, S[k]) = {}
    BY <1>10, FieldLaws
  <2> QED
    BY <2>2, <2>3, SumLaws
<1>13. GfMul(M, weighed[n]) = g[n]
  <2>1. weighed[n] = GfMul(w(n), g[n])
    BY <1>1, <1>8
  <2>2. GfMul(GfMul(M, w(n)), g[n]) = GfMul(M, GfMul(w(n), g[n]))
    <3> HIDE DEF M, w
    <3> QED
      BY <1>3, <1>5, Associates
  <2>3. GfMul({0}, g[n]) = g[n]
    BY <1>5, FieldLaws
  <2> QED
    BY <1>5, <2>1, <2>2, <2>3
<1>14. GfMul(M, GfAdd(S[k], weighed[n])) = GfAdd(GfMul(M, S[k]), GfMul(M, weighed[n]))
  <2> HIDE DEF M
  <2> QED
    BY <1>3, <1>10, Distributes
<1>15. GfMul(M, Weigh(z, n, n, g)) = GfAdd(T[k], g[n])
  BY <1>9, <1>10, <1>12, <1>13, <1>14
<1> QED
  BY <1>6, <1>10, <1>15 DEF M, z, n

\* A polynomial of degree below t at zero is its first coefficient; as many shares of it
\* as it has coefficients, or more, give that back, and one fewer never.
THEOREM Interpolates ==
  ASSUME NEW k \in Nat \ {0}, NEW shares, GivenShares(shares, k),
         NEW t \in 1 .. k + 1, NEW c \in [1 .. t -> Byte],
         \A i \in 1 .. k : shares[i].y = EvalPoly(c, shares[i].x)
  PROVE  /\ t <= k => LagrangeAtZero(shares) = c[1]
         /\ t = k + 1 /\ c[t] # {} => LagrangeAtZero(shares) # c[1]
<1> DEFINE n == k + 1
           z == PointsOf(shares, k)
           M == AllPoints(shares, k)
           L == LagrangeAtZero(shares)
<1>1. n \in Nat /\ n \in 1 .. n /\ t \in Nat /\ t \in 0 .. t /\ t <= n /\ k \in Nat
      /\ \A i \in 1 .. k : i \in 1 .. n
  OBVIOUS
<1>2. Points(z, n) /\ z[n] = {} /\ \A j \in 1 .. k : z[j] = shares[j].x
  BY PointsOfAre
<1>3. z \in [1 .. n -> Byte]
  BY <1>2 DEF Points
<1> HIDE DEF z, n
<1>4. PICK e : Evaluated(e, c, t, z, n) /\ \A i \in 1 .. n : e[i][t] = EvalPoly(c, z[i])
  BY <1>1, <1>3, EvaluatedExists
<1> DEFINE g == [i \in 1 .. n |-> e[i][t]]
<1>5. g \in [1 .. n -> Byte] /\ Weigh(z, n, n, g) = IF t < n THEN {} ELSE c[t]
  <2>1. /\ n \in Nat /\ Points(z, n) /\ Evaluated(e, c, t, z, n)
        /\ t \in Nat /\ t \in 0 .. t /\ n \in 1 .. n /\ t <= n
    BY <1>1, <1>2, <1>4
  <2>2. [i \in 1 .. n |-> e[i][t]] \in [1 .. n -> Byte]
    BY <2>1 DEF Evaluated
  <2>3. Weigh(z, n, n, [i \in 1 .. n |-> e[i][t]]) = IF t < n THEN {} ELSE c[t]
    BY <2>1, WeighPolynomial
  <2> QED
    BY <2>2, <2>3
<1>6. \A i \in 1 .. k : g[i] = shares[i].y
  BY <1>1, <1>2, <1>4
<1>7. g[n] = c[1]
  <2>1. Evaluation(e[n], c, t, {})
    BY <1>1, <1>2, <1>4 DEF Evaluated
  <2>2. e[n] \in [0 .. t -> Byte] /\ e[n][t] = GfAdd(GfMul(e[n][t - 1], {}), c[t - t + 1])
    BY <2>1 DEF Evaluation
  <2>3. t - t + 1 = 1 /\ t - 1 \in 0 .. t
    OBVIOUS
  <2>4. e[n][t - 1] \in Byte
    BY <2>2, <2>3
  <2>5. GfMul(e[n][t - 1], {}) = {}
    BY <2>4, FieldLaws
  <2> QED
    BY <1>1, <2>2, <2>3, <2>5, SumLaws
<1> HIDE DEF g
<1>8. L \in Byte /\ GfMul(M, Weigh(z, n, n, g)) = GfAdd(L, g[n])
  <2>1. g \in [1 .. k + 1 -> Byte]
    BY <1>5 DEF n
  <2> QED
    BY <1>1, <1>6, <2>1, LagrangeWeighs DEF n, z
<1>9. M \in NonZero /\ M \in Byte
  BY <1>1, AllPointsAre DEF NonZero
<1>10. ASSUME t <= k PROVE L = c[1]
  <2>1. Weigh(z, n, n, g) = {}
    BY <1>1, <1>5, <1>10 DEF n
  <2>2. GfMul(M, {}) = {}
    BY <1>9, FieldLaws
  <2>3. GfAdd(L, c[1]) = {}
    BY <1>7, <1>8, <2>1, <2>2
  <2> QED
    BY <2>3, SumLaws
<1>11. ASSUME t = k + 1, c[t] # {} PROVE L # c[1]
  <2>1. Weigh(z, n, n, g) = c[t] /\ c[t] \in Byte
    BY <1>5, <1>11 DEF n
  <2>2. GfMul(M, c[t]) # {}
    BY <1>9, <1>11, <2>1, ShamirAssumption DEF NonZero
  <2>3. GfAdd(L, c[1]) # {}
    BY <1>7, <1>8, <2>1, <2>2
  <2> QED
    BY <2>3, SumLaws
<1> QED
  BY <1>10, <1>11

-----------------------------------------------------------------------------
(* The key ceremony.                                                       *)

Share == [x : Byte, y : Byte]
File(S) == S \cup {NoFile, HalfFile}
Dirs ==
  [pub : [Authority -> File(Seeds)], seed : [Authority -> File(Seeds)],
   share : [Authority -> [1 .. MaxShares -> File(Share)]],
   admission : File(Seq(Seeds)), manifest : File([keys : Seq(Seeds), p : Params])]

\* The step of a run, with the shares of the authority at hand while its files are written.
Between == [at : {"key", "manifest", "done"}, p : Params, i : Nat, keys : Seq(Seeds)]
Writing == [at : {"pub", "seed", "share"}, p : Params, i : Nat, keys : Seq(Seeds),
            shares : Seq(Share), j : Nat]

\* The number of coefficients a seed's polynomial has.
Needed(p) == IF p.shares = 0 THEN 1 ELSE p.needed

\* The shares a ceremony may make of a seed.
Sharing(s, key, p) ==
  \E c \in Coefficients(key, Needed(p)) :
    \A j \in 1 .. p.shares : s[j] = [x |-> Bits(j), y |-> EvalPoly(c, Bits(j))]

\* The keys of a run, which are as many as the authorities it has come to.
KeysDrawn ==
  /\ Valid(run.p) /\ run.i <= run.p.n
  /\ Len(run.keys) = (IF run \in Writing THEN run.i + 1 ELSE run.i)
  /\ \A k, l \in 1 .. Len(run.keys) : run.keys[k] = run.keys[l] => k = l
  /\ run \in Writing => run.i < run.p.n
  /\ run.at \in {"manifest", "done"} => run.i = run.p.n

\* The files of authority i are those of this run.
Written(i) ==
  /\ dir.pub[i] = run.keys[i + 1]
  /\ run.p.write => dir.seed[i] = run.keys[i + 1]
  /\ Sharing(dir.share[i], run.keys[i + 1], run.p)

\* The files of the authority at hand that are written already are those of this run.
Started ==
  /\ Len(run.shares) = run.p.shares /\ Sharing(run.shares, Drawn, run.p)
  /\ run.j \in 1 .. Len(run.shares) + 1
  /\ run.at # "share" => run.j = 1
  /\ run.at # "pub" => dir.pub[run.i] = Drawn
  /\ run.at = "share" /\ run.p.write => dir.seed[run.i] = Drawn
  /\ \A l \in 1 .. run.j - 1 : dir.share[run.i][l] = run.shares[l]

CerInv ==
  /\ dir \in Dirs /\ run \in {Idle} \cup Between \cup Writing
  /\ run # Idle => KeysDrawn /\ \A i \in 0 .. run.i - 1 : Written(i)
  /\ run \in Writing => Started
  /\ run.at \in {"manifest", "done"} => dir.admission = SubSeq(run.keys, 1, run.p.m)
  /\ run.at = "done" => dir.manifest = [keys |-> run.keys, p |-> run.p]

\* Parameters that run_ceremony accepts.
LEMMA ParamsAre ==
  ASSUME NEW p \in Params, Valid(p)
  PROVE  /\ p.n \in Nat \ {0} /\ p.n <= MaxAuthorities /\ p.m \in 1 .. p.n
         /\ p.shares \in Nat /\ p.shares <= MaxShares /\ p.needed \in Nat
         /\ p.shares > 0 => p.needed \in 1 .. p.shares /\ p.shares < 2 ^ W
         /\ Needed(p) \in Nat \ {0}
         /\ p.write \in BOOLEAN
<1>1. p \in [n : Nat, m : Nat, write : BOOLEAN, shares : Nat, needed : Nat]
  BY CeremonyAssumption
<1>2. p.n <= MaxAuthorities /\ p.shares <= MaxShares
  BY CeremonyAssumption
<1>3. p.n >= 1 /\ p.m \in 1 .. p.n /\ (p.shares > 0 => p.needed \in 1 .. p.shares /\ p.shares < 2 ^ W)
  BY DEF Valid
<1>4. Needed(p) \in Nat \ {0}
  BY <1>1, <1>3 DEF Needed
<1> QED
  BY <1>1, <1>2, <1>3, <1>4

\* The shares of a seed, which split_seed makes.
LEMMA SharesAre ==
  ASSUME NEW p \in Params, Valid(p), NEW s, NEW c \in Coefficients(s, Needed(p))
  PROVE  LET made == IF p.shares = 0 THEN <<>> ELSE SplitSeed(c, p.shares)
         IN  /\ made \in Seq(Share) /\ Len(made) = p.shares
             /\ \A j \in 1 .. p.shares : made[j] = [x |-> Bits(j), y |-> EvalPoly(c, Bits(j))]
<1> DEFINE made == IF p.shares = 0 THEN <<>> ELSE SplitSeed(c, p.shares)
<1>1. p.shares \in Nat /\ (p.shares > 0 => p.shares < 2 ^ W) /\ Needed(p) \in Nat
  BY ParamsAre
<1>2. CASE p.shares = 0
  <2>1. made = <<>>
    BY <1>2
  <2>2. <<>> \in Seq(Share) /\ Len(<<>>) = 0
    OBVIOUS
  <2>3. 1 .. p.shares = {}
    BY <1>2
  <2> QED
    BY <1>2, <2>1, <2>2, <2>3
<1>3. CASE p.shares # 0
  <2> DEFINE n == p.shares
  <2>1. n \in Nat /\ n < 2 ^ W
    BY <1>1, <1>3
  <2>2. made = [x \in 1 .. n |-> [x |-> Bits(x), y |-> EvalPoly(c, Bits(x))]]
    BY <1>3 DEF SplitSeed
  <2>3. c \in [1 .. Needed(p) -> Byte]
    BY DEF Coefficients
  <2>4. ASSUME NEW j \in 1 .. n PROVE Bits(j) \in Byte /\ EvalPoly(c, Bits(j)) \in Byte
    <3>1. Bits(j) \in Byte
      BY DEF Bits, Byte
    <3> QED
      BY <1>1, <2>3, <3>1, ValueInByte
  <2> HIDE DEF made, n
  <2>5. \A j \in 1 .. n : made[j] = [x |-> Bits(j), y |-> EvalPoly(c, Bits(j))] /\ made[j] \in Share
    BY <2>2, <2>4 DEF Share
  <2>6. made \in [1 .. n -> Share]
    BY <2>2, <2>5
  <2>7. made \in Seq(Share) /\ Len(made) = n
    BY <2>1, <2>6
  <2> QED
    BY <2>5, <2>7 DEF n, made
<1> QED
  BY <1>2, <1>3

\* A run that writes the files of an authority.
LEMMA WritingIs ==
  ASSUME CerInv, run \in Writing
  PROVE  /\ run.p \in Params /\ Valid(run.p) /\ run.i \in Nat /\ run.i \in Authority
         /\ run.keys \in Seq(Seeds) /\ Len(run.keys) = run.i + 1 /\ Drawn \in Seeds
         /\ run.shares \in Seq(Share) /\ run.j \in Nat /\ Len(run.shares) \in Nat
         /\ \A j \in 1 .. Len(run.shares) : j \in 1 .. MaxShares /\ run.shares[j] \in Share
         /\ \A i \in 0 .. run.i - 1 : i \in Authority /\ i # run.i /\ Written(i)
         /\ Started /\ KeysDrawn /\ run # Idle
<1>1. /\ run.p \in Params /\ run.i \in Nat /\ run.keys \in Seq(Seeds) /\ run.shares \in Seq(Share)
      /\ run.j \in Nat /\ run.at # "idle"
  BY DEF Writing
<1>2. run # Idle
  BY <1>1 DEF Idle
<1>3. KeysDrawn /\ Started /\ \A i \in 0 .. run.i - 1 : Written(i)
  BY <1>2 DEF CerInv
<1>4. Valid(run.p) /\ Len(run.keys) = run.i + 1 /\ run.i < run.p.n
  BY <1>3 DEF KeysDrawn
<1>5. run.p.n \in Nat /\ run.p.n <= MaxAuthorities /\ run.p.shares <= MaxShares /\ run.p.shares \in Nat
  BY <1>1, <1>4, ParamsAre
<1>6. MaxAuthorities \in Nat /\ MaxShares \in Nat
  BY CeremonyAssumption
<1>7. run.i \in Authority /\ \A i \in 0 .. run.i - 1 : i \in Authority /\ i # run.i
  BY <1>1, <1>4, <1>5, <1>6 DEF Authority
<1>8. Drawn \in Seeds
  BY <1>1, <1>4 DEF Drawn
<1>9. Len(run.shares) = run.p.shares
  BY <1>3 DEF Started
<1>10. \A j \in 1 .. Len(run.shares) : j \in 1 .. MaxShares /\ run.shares[j] \in Share
  BY <1>1, <1>5, <1>6, <1>9
<1> QED
  BY <1>1, <1>2, <1>3, <1>4, <1>5, <1>7, <1>8, <1>9, <1>10

\* A run between two authorities, or after the last.
LEMMA BetweenIs ==
  ASSUME CerInv, run \in Between
  PROVE  /\ run.p \in Params /\ Valid(run.p) /\ run.i \in Nat /\ run.i <= run.p.n
         /\ run.keys \in Seq(Seeds) /\ Len(run.keys) = run.i /\ run # Idle /\ KeysDrawn
         /\ \A i \in 0 .. run.i - 1 : Written(i)
         /\ run \notin Writing
<1>1. /\ run.p \in Params /\ run.i \in Nat /\ run.keys \in Seq(Seeds) /\ run.at # "idle"
      /\ run.at \notin {"pub", "seed", "share"}
  BY DEF Between
<1>2. run # Idle /\ run \notin Writing
  BY <1>1 DEF Idle, Writing
<1>3. KeysDrawn /\ \A i \in 0 .. run.i - 1 : Written(i)
  BY <1>2 DEF CerInv
<1> QED
  BY <1>1, <1>2, <1>3 DEF KeysDrawn

\* The step a run is at tells which of the three it is.
LEMMA StepTells ==
  ASSUME CerInv
  PROVE  /\ run.at \in {"key", "manifest", "done"} => run \in Between
         /\ run.at \in {"pub", "seed", "share"} => run \in Writing
         /\ run.at = "idle" => run = Idle
BY DEF CerInv, Idle, Between, Writing

LEMMA CerInvInit == ASSUME CerInit PROVE CerInv
<1>1. run = Idle /\ dir = EmptyDir /\ Idle.at = "idle"
  BY DEF CerInit, Idle
<1>2. EmptyDir \in Dirs
  BY DEF EmptyDir, Dirs, File
<1>3. Idle \notin Writing
  BY DEF Idle, Writing
<1> QED
  BY <1>1, <1>2, <1>3 DEF CerInv

LEMMA BeginKeeps ==
  ASSUME CerInv, NEW p \in Params, Begin(p)
  PROVE  CerInv'
<1>1. dir' = dir /\ dir \in Dirs
  BY DEF Begin, CerInv
<1>2. CASE ~ Valid(p)
  <2>1. run' = Idle /\ Idle.at = "idle" /\ Idle \notin Writing
    BY <1>2 DEF Begin, Idle, Writing
  <2> QED
    BY <1>1, <2>1 DEF CerInv
<1>3. CASE Valid(p)
  <2>1. run' = [at |-> "key", p |-> p, i |-> 0, keys |-> <<>>]
    BY <1>3 DEF Begin
  <2>2. run' \in Between /\ run' \notin Writing
    BY <2>1 DEF Between, Writing
  <2>3. run'.at = "key" /\ run'.p = p /\ run'.i = 0 /\ run'.keys = <<>>
    BY <2>1
  <2>4. KeysDrawn'
    <3>1. p.n \in Nat
      BY <1>3, ParamsAre
    <3>2. Len(<<>>) = 0
      OBVIOUS
    <3> QED
      BY <1>3, <2>2, <2>3, <3>1, <3>2 DEF KeysDrawn
  <2>5. 0 .. run'.i - 1 = {}
    BY <2>3
  <2> QED
    BY <1>1, <2>2, <2>3, <2>4, <2>5 DEF CerInv
<1> QED
  BY <1>2, <1>3

\* Files of authority i that a step leaves as they are stay those of the run.
LEMMA WrittenStays ==
  ASSUME NEW i, Written(i), run'.p = run.p, run'.keys[i + 1] = run.keys[i + 1],
         dir'.pub[i] = dir.pub[i], dir'.seed[i] = dir.seed[i], dir'.share[i] = dir.share[i]
  PROVE  Written(i)'
BY DEF Written

LEMMA DrawKeyKeeps ==
  ASSUME CerInv, DrawKey
  PROVE  CerInv'
<1>1. PICK s \in Seeds : \E c \in Coefficients(s, IF run.p.shares = 0 THEN 1 ELSE run.p.needed) :
         /\ \A k \in 1 .. Len(run.keys) : run.keys[k] # s
         /\ run' = [at |-> "pub", p |-> run.p, i |-> run.i, keys |-> Append(run.keys, s),
                    shares |-> IF run.p.shares = 0 THEN <<>> ELSE SplitSeed(c, run.p.shares),
                    j |-> 1]
  BY DEF DrawKey
<1>2. PICK c \in Coefficients(s, Needed(run.p)) :
         /\ \A k \in 1 .. Len(run.keys) : run.keys[k] # s
         /\ run' = [at |-> "pub", p |-> run.p, i |-> run.i, keys |-> Append(run.keys, s),
                    shares |-> IF run.p.shares = 0 THEN <<>> ELSE SplitSeed(c, run.p.shares),
                    j |-> 1]
  BY <1>1 DEF Needed
<1> DEFINE made == IF run.p.shares = 0 THEN <<>> ELSE SplitSeed(c, run.p.shares)
<1>3. run.at = "key" /\ run.i < run.p.n /\ dir' = dir
  BY DEF DrawKey
<1>4. /\ run.p \in Params /\ Valid(run.p) /\ run.i \in Nat /\ run.keys \in Seq(Seeds)
      /\ Len(run.keys) = run.i /\ run # Idle /\ KeysDrawn /\ \A i \in 0 .. run.i - 1 : Written(i)
  BY <1>3, StepTells, BetweenIs
<1>5. /\ made \in Seq(Share) /\ Len(made) = run.p.shares
      /\ \A j \in 1 .. run.p.shares : made[j] = [x |-> Bits(j), y |-> EvalPoly(c, Bits(j))]
  BY <1>4, SharesAre
<1> HIDE DEF made
<1>6. /\ run'.at = "pub" /\ run'.p = run.p /\ run'.i = run.i /\ run'.keys = Append(run.keys, s)
      /\ run'.shares = made /\ run'.j = 1
  BY <1>2 DEF made
<1>7. /\ Append(run.keys, s) \in Seq(Seeds) /\ Len(Append(run.keys, s)) = run.i + 1
      /\ \A i \in 1 .. run.i : Append(run.keys, s)[i] = run.keys[i]
      /\ Append(run.keys, s)[run.i + 1] = s
  BY <1>4, AppendProperties
<1>8. run' \in Writing
  <2>1. run' = [at |-> "pub", p |-> run.p, i |-> run.i, keys |-> Append(run.keys, s),
                shares |-> made, j |-> 1]
    BY <1>2 DEF made
  <2> QED
    BY <1>4, <1>5, <1>7, <2>1 DEF Writing
<1>9. KeysDrawn'
  <2>1. \A k, l \in 1 .. run.i + 1 : Append(run.keys, s)[k] = Append(run.keys, s)[l] => k = l
    <3> SUFFICES ASSUME NEW k \in 1 .. run.i + 1, NEW l \in 1 .. run.i + 1,
                        Append(run.keys, s)[k] = Append(run.keys, s)[l]
                 PROVE  k = l
      OBVIOUS
    <3>1. (k = run.i + 1 \/ k \in 1 .. run.i) /\ (l = run.i + 1 \/ l \in 1 .. run.i)
      BY <1>4
    <3>2. \A a, b \in 1 .. run.i : run.keys[a] = run.keys[b] => a = b
      BY <1>4 DEF KeysDrawn
    <3>3. \A a \in 1 .. run.i : run.keys[a] # s
      BY <1>2, <1>4
    <3> QED
      BY <1>7, <3>1, <3>2, <3>3
  <2>2. run.i <= run.p.n
    BY <1>4 DEF KeysDrawn
  <2> QED
    BY <1>3, <1>4, <1>6, <1>7, <1>8, <2>1, <2>2 DEF KeysDrawn
<1>10. ASSUME NEW i \in 0 .. run'.i - 1 PROVE Written(i)'
  <2>1. i \in 0 .. run.i - 1 /\ i + 1 \in 1 .. run.i
    BY <1>4, <1>6
  <2>2. Written(i) /\ run'.keys[i + 1] = run.keys[i + 1]
    BY <1>4, <1>6, <1>7, <2>1
  <2> QED
    BY <1>3, <1>6, <2>2, WrittenStays
<1>11. Started'
  <2>1. Drawn' = s
    BY <1>6, <1>7 DEF Drawn
  <2>2. Sharing(made, s, run.p)
    BY <1>2, <1>5 DEF Sharing
  <2>3. run.p.shares \in Nat
    BY <1>4, ParamsAre
  <2>4. 1 \in 1 .. Len(made) + 1 /\ 1 .. 1 - 1 = {}
    BY <1>5, <2>3
  <2> QED
    BY <1>5, <1>6, <2>1, <2>2, <2>4 DEF Started
<1>12. dir' \in Dirs
  BY <1>3 DEF CerInv
<1> QED
  BY <1>6, <1>8, <1>9, <1>10, <1>11, <1>12 DEF CerInv

\* A step that writes files of the authority at hand leaves those of the others alone.
LEMMA WritesKeep ==
  ASSUME CerInv, run \in Writing, run' \in Writing,
         run'.p = run.p, run'.i = run.i, run'.keys = run.keys,
         dir' \in Dirs,
         \A i \in Authority : i # run.i =>
           dir'.pub[i] = dir.pub[i] /\ dir'.seed[i] = dir.seed[i] /\ dir'.share[i] = dir.share[i],
         Started'
  PROVE  CerInv'
<1>1. /\ run.i \in Nat /\ KeysDrawn
      /\ \A i \in 0 .. run.i - 1 : i \in Authority /\ i # run.i /\ Written(i)
  BY WritingIs
<1>2. run'.at \in {"pub", "seed", "share"}
  BY DEF Writing
<1>3. KeysDrawn'
  <2>1. /\ Valid(run.p) /\ run.i <= run.p.n /\ Len(run.keys) = run.i + 1 /\ run.i < run.p.n
        /\ \A k, l \in 1 .. Len(run.keys) : run.keys[k] = run.keys[l] => k = l
    BY <1>1 DEF KeysDrawn
  <2> QED
    BY <1>2, <2>1 DEF KeysDrawn
<1>4. ASSUME NEW i \in 0 .. run'.i - 1 PROVE Written(i)'
  <2>1. i \in Authority /\ i # run.i /\ Written(i)
    BY <1>1
  <2>2. dir'.pub[i] = dir.pub[i] /\ dir'.seed[i] = dir.seed[i] /\ dir'.share[i] = dir.share[i]
    BY <2>1
  <2> QED
    BY <2>1, <2>2, WrittenStays
<1> QED
  BY <1>2, <1>3, <1>4 DEF CerInv

LEMMA WritePubKeeps ==
  ASSUME CerInv, WritePub
  PROVE  CerInv'
<1>1. run.at = "pub" /\ run \in Writing
  BY StepTells DEF WritePub
<1>2. /\ run.i \in Authority /\ Drawn \in Seeds /\ run.p \in Params /\ Valid(run.p) /\ Started
  BY <1>1, WritingIs
<1>3. dir' = [dir EXCEPT !.pub[run.i] = Drawn] /\ dir \in Dirs
  BY DEF WritePub, Overwrites, CerInv
<1>4. /\ dir' \in Dirs /\ dir'.pub[run.i] = Drawn /\ dir'.seed = dir.seed /\ dir'.share = dir.share
      /\ \A i \in Authority : i # run.i => dir'.pub[i] = dir.pub[i]
  BY <1>2, <1>3 DEF Dirs, File
<1>5. run' = [run EXCEPT !.at = IF run.p.write THEN "seed" ELSE "share"]
  BY DEF WritePub
<1>6. /\ run' \in Writing /\ run'.at = (IF run.p.write THEN "seed" ELSE "share")
      /\ run'.p = run.p /\ run'.i = run.i /\ run'.keys = run.keys
      /\ run'.shares = run.shares /\ run'.j = run.j
  BY <1>1, <1>5 DEF Writing
<1>7. Started'
  <2>1. /\ Len(run.shares) = run.p.shares /\ Sharing(run.shares, Drawn, run.p)
        /\ run.j \in 1 .. Len(run.shares) + 1 /\ run.j = 1
    BY <1>1, <1>2 DEF Started
  <2>2. Drawn' = Drawn
    BY <1>6 DEF Drawn
  <2>3. 1 .. 1 - 1 = {}
    OBVIOUS
  <2> QED
    BY <1>4, <1>6, <2>1, <2>2, <2>3 DEF Started
<1> QED
  BY <1>1, <1>4, <1>6, <1>7, WritesKeep

LEMMA WriteSeedKeeps ==
  ASSUME CerInv, WriteSeed
  PROVE  CerInv'
<1>1. run.at = "seed" /\ run \in Writing
  BY StepTells DEF WriteSeed
<1>2. /\ run.i \in Authority /\ Drawn \in Seeds /\ run.p \in Params /\ Valid(run.p) /\ Started
  BY <1>1, WritingIs
<1>3. dir' = [dir EXCEPT !.seed[run.i] = Drawn] /\ dir \in Dirs
  BY DEF WriteSeed, Overwrites, CerInv
<1>4. /\ dir' \in Dirs /\ dir'.seed[run.i] = Drawn /\ dir'.pub = dir.pub /\ dir'.share = dir.share
      /\ \A i \in Authority : i # run.i => dir'.seed[i] = dir.seed[i]
  BY <1>2, <1>3 DEF Dirs, File
<1>5. run' = [run EXCEPT !.at = "share"]
  BY DEF WriteSeed
<1>6. /\ run' \in Writing /\ run'.at = "share"
      /\ run'.p = run.p /\ run'.i = run.i /\ run'.keys = run.keys
      /\ run'.shares = run.shares /\ run'.j = run.j
  BY <1>1, <1>5 DEF Writing
<1>7. Started'
  <2>1. /\ Len(run.shares) = run.p.shares /\ Sharing(run.shares, Drawn, run.p)
        /\ run.j \in 1 .. Len(run.shares) + 1 /\ run.j = 1 /\ dir.pub[run.i] = Drawn
    BY <1>1, <1>2 DEF Started
  <2>2. Drawn' = Drawn
    BY <1>6 DEF Drawn
  <2>3. 1 .. 1 - 1 = {}
    OBVIOUS
  <2> QED
    BY <1>4, <1>6, <2>1, <2>2, <2>3 DEF Started
<1> QED
  BY <1>1, <1>4, <1>6, <1>7, WritesKeep

LEMMA WriteShareKeeps ==
  ASSUME CerInv, WriteShare
  PROVE  CerInv'
<1>1. run.at = "share" /\ run \in Writing /\ run.j <= Len(run.shares)
  BY StepTells DEF WriteShare
<1>2. /\ run.i \in Authority /\ run.j \in Nat /\ Len(run.shares) \in Nat /\ Started
      /\ \A j \in 1 .. Len(run.shares) : j \in 1 .. MaxShares /\ run.shares[j] \in Share
  BY <1>1, WritingIs
<1>3. /\ Len(run.shares) = run.p.shares /\ Sharing(run.shares, Drawn, run.p)
      /\ run.j \in 1 .. Len(run.shares) + 1 /\ dir.pub[run.i] = Drawn
      /\ run.p.write => dir.seed[run.i] = Drawn
      /\ \A l \in 1 .. run.j - 1 : dir.share[run.i][l] = run.shares[l]
  BY <1>1, <1>2 DEF Started
<1>4. /\ run.j \in 1 .. Len(run.shares) /\ run.j \in 1 .. MaxShares /\ run.shares[run.j] \in Share
      /\ \A l \in 1 .. run.j : l \in 1 .. MaxShares
  BY <1>1, <1>2, <1>3
<1>5. dir' = [dir EXCEPT !.share[run.i][run.j] = run.shares[run.j]] /\ dir \in Dirs
  BY DEF WriteShare, Overwrites, CerInv
<1>6. /\ dir' \in Dirs /\ dir'.pub = dir.pub /\ dir'.seed = dir.seed
      /\ dir'.share[run.i][run.j] = run.shares[run.j]
      /\ \A l \in 1 .. MaxShares : l # run.j => dir'.share[run.i][l] = dir.share[run.i][l]
      /\ \A i \in Authority : i # run.i => dir'.share[i] = dir.share[i]
  BY <1>2, <1>4, <1>5 DEF Dirs, File
<1>7. run' = [run EXCEPT !.j = run.j + 1]
  BY DEF WriteShare
<1>8. /\ run' \in Writing /\ run'.at = "share"
      /\ run'.p = run.p /\ run'.i = run.i /\ run'.keys = run.keys
      /\ run'.shares = run.shares /\ run'.j = run.j + 1
  BY <1>1, <1>2, <1>7 DEF Writing
<1>9. Started'
  <2>1. Drawn' = Drawn
    BY <1>8 DEF Drawn
  <2>2. run.j + 1 \in 1 .. Len(run.shares) + 1
    BY <1>2, <1>4
  <2>3. \A l \in 1 .. (run.j + 1) - 1 : dir'.share[run.i][l] = run.shares[l]
    <3> SUFFICES ASSUME NEW l \in 1 .. run.j PROVE dir'.share[run.i][l] = run.shares[l]
      BY <1>2
    <3>1. l \in 1 .. MaxShares /\ (l # run.j => l \in 1 .. run.j - 1)
      BY <1>2, <1>4
    <3> QED
      BY <1>3, <1>6, <3>1
  <2> QED
    BY <1>3, <1>6, <1>8, <2>1, <2>2, <2>3 DEF Started
<1> QED
  BY <1>1, <1>6, <1>8, <1>9, WritesKeep

LEMMA NextAuthorityKeeps ==
  ASSUME CerInv, NextAuthority
  PROVE  CerInv'
<1>1. run.at = "share" /\ run \in Writing /\ run.j > Len(run.shares)
  BY StepTells DEF NextAuthority
<1>2. /\ run.p \in Params /\ Valid(run.p) /\ run.i \in Nat /\ run.keys \in Seq(Seeds)
      /\ Len(run.keys) = run.i + 1 /\ run.j \in Nat /\ Len(run.shares) \in Nat /\ Started /\ KeysDrawn
      /\ \A i \in 0 .. run.i - 1 : Written(i)
  BY <1>1, WritingIs
<1>3. run' = [at |-> "key", p |-> run.p, i |-> run.i + 1, keys |-> run.keys] /\ dir' = dir
  BY DEF NextAuthority
<1>4. /\ run' \in Between /\ run'.at = "key" /\ run'.p = run.p /\ run'.i = run.i + 1
      /\ run'.keys = run.keys
  BY <1>2, <1>3 DEF Between
<1>5. run' \notin Writing
  BY <1>4 DEF Writing
<1>6. KeysDrawn'
  <2>1. /\ run.i < run.p.n /\ \A k, l \in 1 .. Len(run.keys) : run.keys[k] = run.keys[l] => k = l
    BY <1>1, <1>2 DEF KeysDrawn
  <2>2. run.i + 1 <= run.p.n
    BY <1>2, <2>1, ParamsAre
  <2> QED
    BY <1>2, <1>4, <1>5, <2>1, <2>2 DEF KeysDrawn
<1>7. Written(run.i)
  <2>1. /\ Len(run.shares) = run.p.shares /\ Sharing(run.shares, Drawn, run.p)
        /\ dir.pub[run.i] = Drawn /\ (run.p.write => dir.seed[run.i] = Drawn)
        /\ \A l \in 1 .. run.j - 1 : dir.share[run.i][l] = run.shares[l]
    BY <1>1, <1>2 DEF Started
  <2>2. \A l \in 1 .. run.p.shares : l \in 1 .. run.j - 1
    BY <1>1, <1>2, <2>1
  <2>3. \A l \in 1 .. run.p.shares : dir.share[run.i][l] = run.shares[l]
    BY <2>1, <2>2
  <2>4. Sharing(dir.share[run.i], Drawn, run.p)
    BY <2>1, <2>3 DEF Sharing
  <2> QED
    BY <2>1, <2>4 DEF Written, Drawn
<1>8. ASSUME NEW i \in 0 .. run'.i - 1 PROVE Written(i)'
  <2>1. i \in 0 .. run.i - 1 \/ i = run.i
    BY <1>2, <1>4
  <2>2. Written(i)
    BY <1>2, <1>7, <2>1
  <2> QED
    BY <1>3, <1>4, <2>2, WrittenStays
<1>9. dir' \in Dirs
  BY <1>3 DEF CerInv
<1> QED
  BY <1>4, <1>5, <1>6, <1>8, <1>9 DEF CerInv

\* The keys of a run that goes on.
LEMMA BetweenKeeps ==
  ASSUME CerInv, run \in Between, run' \in Between, run'.p = run.p, run'.i = run.i,
         run'.keys = run.keys, run.i = run.p.n,
         dir'.pub = dir.pub, dir'.seed = dir.seed, dir'.share = dir.share
  PROVE  /\ KeysDrawn' /\ run' \notin Writing /\ \A i \in 0 .. run'.i - 1 : Written(i)'
<1>1. /\ KeysDrawn /\ run \notin Writing /\ Len(run.keys) = run.i
      /\ \A i \in 0 .. run.i - 1 : Written(i)
  BY BetweenIs
<1>2. run' \notin Writing
  BY DEF Between, Writing
<1>3. KeysDrawn'
  BY <1>1, <1>2 DEF KeysDrawn
<1>4. ASSUME NEW i \in 0 .. run'.i - 1 PROVE Written(i)'
  <2>1. Written(i)
    BY <1>1
  <2> QED
    BY <2>1, WrittenStays
<1> QED
  BY <1>2, <1>3, <1>4

LEMMA WriteAdmissionKeeps ==
  ASSUME CerInv, WriteAdmission
  PROVE  CerInv'
<1>1. run.at = "key" /\ run \in Between /\ run.i = run.p.n
  BY StepTells DEF WriteAdmission
<1>2. run.p \in Params /\ Valid(run.p) /\ run.keys \in Seq(Seeds) /\ Len(run.keys) = run.p.n
  BY <1>1, BetweenIs
<1>3. dir' = [dir EXCEPT !.admission = SubSeq(run.keys, 1, run.p.m)] /\ dir \in Dirs
  BY DEF WriteAdmission, CerInv
<1>4. SubSeq(run.keys, 1, run.p.m) \in Seq(Seeds)
  <2>1. run.p.m \in 1 .. run.p.n /\ run.p.n \in Nat
    BY <1>2, ParamsAre
  <2> QED
    BY <1>2, <2>1, SubSeqProperties
<1>5. /\ dir' \in Dirs /\ dir'.pub = dir.pub /\ dir'.seed = dir.seed /\ dir'.share = dir.share
      /\ dir'.admission = SubSeq(run.keys, 1, run.p.m)
  BY <1>3, <1>4 DEF Dirs, File
<1>6. /\ run' \in Between /\ run'.at = "manifest" /\ run'.p = run.p /\ run'.i = run.i
      /\ run'.keys = run.keys
  BY <1>1 DEF WriteAdmission, Between
<1>7. KeysDrawn' /\ run' \notin Writing /\ \A i \in 0 .. run'.i - 1 : Written(i)'
  BY <1>1, <1>5, <1>6, BetweenKeeps
<1> QED
  BY <1>5, <1>6, <1>7 DEF CerInv

LEMMA WriteManifestKeeps ==
  ASSUME CerInv, WriteManifest
  PROVE  CerInv'
<1>1. run.at = "manifest" /\ run \in Between
  BY StepTells DEF WriteManifest
<1>2. run.p \in Params /\ run.keys \in Seq(Seeds) /\ run.i = run.p.n
  BY <1>1, BetweenIs DEF KeysDrawn
<1>3. dir' = [dir EXCEPT !.manifest = [keys |-> run.keys, p |-> run.p]] /\ dir \in Dirs
  BY DEF WriteManifest, CerInv
<1>4. /\ dir' \in Dirs /\ dir'.pub = dir.pub /\ dir'.seed = dir.seed /\ dir'.share = dir.share
      /\ dir'.admission = dir.admission /\ dir'.manifest = [keys |-> run.keys, p |-> run.p]
  BY <1>2, <1>3 DEF Dirs, File
<1>5. /\ run' \in Between /\ run'.at = "done" /\ run'.p = run.p /\ run'.i = run.i
      /\ run'.keys = run.keys
  BY <1>1 DEF WriteManifest, Between
<1>6. KeysDrawn' /\ run' \notin Writing /\ \A i \in 0 .. run'.i - 1 : Written(i)'
  BY <1>1, <1>2, <1>4, <1>5, BetweenKeeps
<1>7. dir.admission = SubSeq(run.keys, 1, run.p.m)
  BY <1>1 DEF CerInv
<1> QED
  BY <1>4, <1>5, <1>6, <1>7 DEF CerInv

LEMMA CeremonyDiesKeeps ==
  ASSUME CerInv, CeremonyDies
  PROVE  CerInv'
<1>1. run' = Idle /\ Idle.at = "idle" /\ Idle \notin Writing
  BY DEF CeremonyDies, Idle, Writing
<1>2. dir \in Dirs
  BY DEF CerInv
<1>3. dir' \in Dirs
  <2>1. CASE UNCHANGED dir
    BY <1>2, <2>1
  <2>2. CASE run.at = "pub" /\ dir' = [dir EXCEPT !.pub[run.i] = HalfFile]
    BY <1>2, <2>2 DEF Dirs, File
  <2>3. CASE run.at = "seed" /\ dir' = [dir EXCEPT !.seed[run.i] = HalfFile]
    BY <1>2, <2>3 DEF Dirs, File
  <2>4. CASE /\ run.at = "share" /\ run.j <= Len(run.shares)
             /\ dir' = [dir EXCEPT !.share[run.i][run.j] = HalfFile]
    BY <1>2, <2>4 DEF Dirs, File
  <2>5. CASE dir' = [dir EXCEPT !.admission = HalfFile]
    BY <1>2, <2>5 DEF Dirs, File
  <2>6. CASE dir' = [dir EXCEPT !.manifest = HalfFile]
    BY <1>2, <2>6 DEF Dirs, File
  <2> QED
    BY <2>1, <2>2, <2>3, <2>4, <2>5, <2>6 DEF CeremonyDies
<1> QED
  BY <1>1, <1>3 DEF CerInv

LEMMA CerInvNext == ASSUME CerInv, [CerNext]_cerVars PROVE CerInv'
<1>1. CASE \E p \in Params : Begin(p)
  BY <1>1, BeginKeeps
<1>2. CASE DrawKey
  BY <1>2, DrawKeyKeeps
<1>3. CASE WritePub
  BY <1>3, WritePubKeeps
<1>4. CASE WriteSeed
  BY <1>4, WriteSeedKeeps
<1>5. CASE WriteShare
  BY <1>5, WriteShareKeeps
<1>6. CASE NextAuthority
  BY <1>6, NextAuthorityKeeps
<1>7. CASE WriteAdmission
  BY <1>7, WriteAdmissionKeeps
<1>8. CASE WriteManifest
  BY <1>8, WriteManifestKeeps
<1>9. CASE CeremonyDies
  BY <1>9, CeremonyDiesKeeps
<1>10. CASE UNCHANGED cerVars
  BY <1>10 DEF cerVars, CerInv, KeysDrawn, Written, Started, Drawn
<1> QED
  BY <1>1, <1>2, <1>3, <1>4, <1>5, <1>6, <1>7, <1>8, <1>9, <1>10 DEF CerNext

\* The range of a beginning of a sequence without repetition.
LEMMA BeginningCounts ==
  ASSUME NEW S, NEW q \in Seq(S), NEW m \in 1 .. Len(q),
         \A a, b \in 1 .. Len(q) : q[a] = q[b] => a = b
  PROVE  Cardinality(Range(SubSeq(q, 1, m)) \cap Range(q)) = m
<1> DEFINE s == SubSeq(q, 1, m)
           R == Range(s)
<1>1. Len(q) \in Nat /\ m \in Nat /\ \A i \in 1 .. m : i \in 1 .. Len(q) /\ q[i] \in S
  BY LenProperties
<1>2. s \in Seq(S) /\ Len(s) = m /\ \A i \in 1 .. m : s[i] = q[i]
  <2>1. 1 \in Int /\ m \in Int /\ \A i \in 1 .. m : q[i] \in S
    BY <1>1
  <2>2. s \in Seq(S) /\ Len(s) = (IF 1 <= m THEN m - 1 + 1 ELSE 0)
        /\ \A i \in 1 .. m - 1 + 1 : s[i] = q[1 + i - 1]
    <3> HIDE DEF s
    <3> QED
      BY <2>1, SubSeqProperties DEF s
  <2> HIDE DEF s
  <2> QED
    BY <1>1, <2>2
<1> HIDE DEF s
<1>3. DOMAIN s = 1 .. m /\ DOMAIN q = 1 .. Len(q)
  BY <1>1, <1>2
<1>4. R = {s[i] : i \in 1 .. m}
  BY <1>3 DEF Range
<1>5. \A i \in 1 .. m : s[i] \in Range(q)
  BY <1>1, <1>2, <1>3 DEF Range
<1>6. R \cap Range(q) = R
  BY <1>4, <1>5
<1>7. s \in [1 .. m -> R]
  <2>1. s = [i \in 1 .. m |-> s[i]]
    BY <1>2, <1>3
  <2> QED
    BY <1>4, <2>1
<1>8. s \in Injection(1 .. m, R)
  <2>1. \A a, b \in 1 .. m : s[a] = s[b] => a = b
    BY <1>1, <1>2
  <2> QED
    BY <1>3, <1>7, <2>1 DEF Injection, IsInjective
<1>9. s \in Surjection(1 .. m, R)
  BY <1>4, <1>7 DEF Surjection
<1>10. ExistsBijection(1 .. m, R)
  BY <1>8, <1>9 DEF ExistsBijection, Bijection
<1>11. IsFiniteSet(1 .. m) /\ Cardinality(1 .. m) = m
  BY <1>1, FS_Interval
<1> HIDE DEF R
<1>12. Cardinality(R) = m
  BY <1>10, <1>11, FS_Bijection
<1> QED
  BY <1>6, <1>12 DEF R, s

\* k of the n shares s, in the order chosen.
ChosenOf(files, s, k, n, chosen) ==
  /\ chosen \in [1 .. k -> 1 .. n] /\ IsInjective(chosen)
  /\ files = [l \in 1 .. k |-> s[chosen[l]]]

\* Share files chosen among those of one sharing give the seed back when they are enough
\* and something else when one is missing.
LEMMA ChosenRebuild ==
  ASSUME NEW p \in Params, Valid(p), p.shares > 0, NEW key, NEW s, Sharing(s, key, p),
         NEW k \in 1 .. p.shares, NEW files, NEW chosen, ChosenOf(files, s, k, p.shares, chosen)
  PROVE  /\ k >= p.needed => Reconstructs(files) /\ LagrangeAtZero(files) = key
         /\ k = p.needed - 1 => LagrangeAtZero(files) # key
<1> DEFINE t == p.needed
<1>1. /\ p.shares \in Nat /\ t \in Nat /\ t \in 1 .. p.shares /\ p.shares < 2 ^ W
      /\ Needed(p) = t /\ k \in Nat \ {0}
  BY ParamsAre DEF Needed
<1>2. PICK c \in Coefficients(key, t) :
        \A j \in 1 .. p.shares : s[j] = [x |-> Bits(j), y |-> EvalPoly(c, Bits(j))]
  BY <1>1 DEF Sharing
<1>3. c \in [1 .. t -> Byte] /\ c[1] = key /\ (t > 1 => c[t] # {})
  BY <1>2 DEF Coefficients
<1>4. ASSUME NEW j \in 1 .. p.shares
      PROVE  /\ s[j].x = Bits(j) /\ s[j].y = EvalPoly(c, Bits(j))
             /\ Bits(j) \in NonZero /\ EvalPoly(c, Bits(j)) \in Byte
             /\ \A l \in 1 .. p.shares : Bits(j) = Bits(l) => j = l
  <2>1. Twos[W] = 2 ^ W /\ Twos[W] \in Nat
    <3>1. W \in Nat
      BY ShamirAssumption
    <3>2. Twos[W] = 2 ^ W
      BY <3>1 DEF Twos
    <3> QED
      BY <3>1, <3>2, TwosDouble
  <2>2. \A l \in 1 .. p.shares : l \in Nat /\ l < 2 ^ W /\ l # 0
    BY <1>1, <2>1
  <2>3. Bits(j) \in Byte /\ Bits(j) # {} /\ \A l \in 1 .. p.shares : Bits(j) = Bits(l) => j = l
    BY <2>2, BitsTell
  <2>4. EvalPoly(c, Bits(j)) \in Byte
    BY <1>1, <1>3, <2>3, ValueInByte
  <2>5. s[j] = [x |-> Bits(j), y |-> EvalPoly(c, Bits(j))]
    BY <1>2
  <2>6. s[j].x = Bits(j) /\ s[j].y = EvalPoly(c, Bits(j))
    BY <2>5
  <2> QED
    BY <2>3, <2>4, <2>6 DEF NonZero
<1>5. ASSUME NEW l \in 1 .. k
      PROVE  /\ chosen[l] \in 1 .. p.shares /\ files[l] = s[chosen[l]]
             /\ \A m \in 1 .. k : chosen[l] = chosen[m] => l = m
  BY DEF ChosenOf, IsInjective
<1>6. Len(files) = k
  BY <1>1 DEF ChosenOf
<1>7. GivenShares(files, k)
  <2>1. ASSUME NEW l \in 1 .. k PROVE files[l].x \in NonZero /\ files[l].y \in Byte
    BY <1>4, <1>5
  <2>2. ASSUME NEW l \in 1 .. k, NEW m \in 1 .. k, files[l].x = files[m].x PROVE l = m
    <3>1. /\ chosen[l] \in 1 .. p.shares /\ files[l] = s[chosen[l]]
          /\ chosen[m] \in 1 .. p.shares /\ files[m] = s[chosen[m]]
      BY <1>5
    <3>2. Bits(chosen[l]) = Bits(chosen[m])
      BY <1>4, <2>2, <3>1
    <3>3. chosen[l] = chosen[m]
      BY <1>4, <3>1, <3>2
    <3> QED
      BY <1>5, <3>3
  <2> QED
    BY <1>6, <2>1, <2>2 DEF GivenShares
<1>8. \A l \in 1 .. k : files[l].y = EvalPoly(c, files[l].x)
  BY <1>4, <1>5
<1>9. ASSUME k >= t PROVE Reconstructs(files) /\ LagrangeAtZero(files) = key
  <2>1. t \in 1 .. k + 1 /\ t <= k
    BY <1>1, <1>9
  <2>2. LagrangeAtZero(files) = key
    <3>1. LagrangeAtZero(files) = c[1]
      BY <1>1, <1>3, <1>7, <1>8, <2>1, Interpolates
    <3> QED
      BY <1>3, <3>1
  <2>3. files # <<>> /\ (\A l \in 1 .. k : files[l].x # {})
        /\ \A l, m \in 1 .. k : l # m => files[l].x # files[m].x
    BY <1>1, <1>6, <1>7 DEF GivenShares, NonZero
  <2> QED
    BY <1>6, <2>2, <2>3 DEF Reconstructs
<1>10. ASSUME k = t - 1 PROVE LagrangeAtZero(files) # key
  <2>1. t \in 1 .. k + 1 /\ t = k + 1 /\ t > 1
    BY <1>1, <1>10
  <2>2. c[t] # {}
    BY <1>3, <2>1
  <2>3. LagrangeAtZero(files) # c[1]
    BY <1>1, <1>3, <1>7, <1>8, <2>1, <2>2, Interpolates
  <2> QED
    BY <1>3, <2>3
<1> QED
  BY <1>9, <1>10

LEMMA CerInvEnough == ASSUME CerInv PROVE Rebuildable
<1> SUFFICES ASSUME run.at = "done" PROVE Rebuildable
  BY DEF Rebuildable
<1> DEFINE p == run.p
           keys == run.keys
<1>1. /\ p \in Params /\ Valid(p) /\ keys \in Seq(Seeds) /\ Len(keys) = run.i /\ KeysDrawn
      /\ \A i \in 0 .. run.i - 1 : Written(i)
  BY StepTells, BetweenIs
<1>2. /\ dir.manifest = [keys |-> keys, p |-> p] /\ dir.admission = SubSeq(keys, 1, p.m)
  BY DEF CerInv
<1>3. run.i = p.n /\ \A k, l \in 1 .. Len(keys) : keys[k] = keys[l] => k = l
  BY <1>1 DEF KeysDrawn
<1>4. dir.manifest.p = p /\ dir.manifest.keys = keys
  BY <1>2
<1>5. Cardinality(Range(dir.admission) \cap Range(keys)) >= p.m
  <2>1. p.m \in 1 .. Len(keys) /\ p.m \in Nat
    BY <1>1, <1>3, ParamsAre
  <2>2. Cardinality(Range(SubSeq(keys, 1, p.m)) \cap Range(keys)) = p.m
    <3> HIDE DEF p, keys
    <3> QED
      BY <1>1, <1>3, <2>1, BeginningCounts
  <2> QED
    BY <1>2, <2>1, <2>2
<1>6. ASSUME NEW i \in 0 .. p.n - 1
      PROVE  /\ dir.pub[i] = keys[i + 1]
             /\ p.write => dir.seed[i] = keys[i + 1]
             /\ Sharing(dir.share[i], dir.pub[i], p)
  <2>1. Written(i)
    BY <1>1, <1>3
  <2> QED
    BY <2>1 DEF Written
<1>7. ASSUME NEW i \in 0 .. p.n - 1, NEW k \in 1 .. p.shares,
             NEW chosen \in [1 .. k -> 1 .. p.shares], IsInjective(chosen)
      PROVE  /\ k >= p.needed =>
                  Reconstructs(ShareFiles(i, chosen)) /\ LagrangeAtZero(ShareFiles(i, chosen)) = dir.pub[i]
             /\ k = p.needed - 1 => LagrangeAtZero(ShareFiles(i, chosen)) # dir.pub[i]
  <2>1. p.shares \in Nat
    BY <1>1, ParamsAre
  <2>2. p.shares > 0 /\ k \in Nat
    BY <2>1
  <2>3. Len(chosen) = k
    BY <2>2
  <2>4. ShareFiles(i, chosen) = [l \in 1 .. k |-> dir.share[i][chosen[l]]]
    BY <2>3 DEF ShareFiles
  <2>5. Sharing(dir.share[i], dir.pub[i], p)
    BY <1>6
  <2> DEFINE f == ShareFiles(i, chosen)
             key == dir.pub[i]
             s == dir.share[i]
  <2>6. /\ ChosenOf(f, s, k, p.shares, chosen) /\ Sharing(s, key, p)
        /\ p \in Params /\ Valid(p) /\ k \in 1 .. p.shares
    BY <1>1, <1>7, <2>4, <2>5 DEF ChosenOf
  <2> HIDE DEF p, f, key, s
  <2>7. /\ k >= p.needed => Reconstructs(f) /\ LagrangeAtZero(f) = key
        /\ k = p.needed - 1 => LagrangeAtZero(f) # key
    BY <2>2, <2>6, ChosenRebuild
  <2> QED
    BY <2>7 DEF f, key
<1> HIDE DEF p, keys
<1> QED
  BY <1>4, <1>5, <1>6, <1>7, Zenon DEF Rebuildable

\* Rebuildable for every size of the ceremony and every field: whatever earlier runs
\* left, the share files of a ceremony that ended give the seeds back.
THEOREM CeremonyRebuilds == CerSpec => []Rebuildable
BY CerInvInit, CerInvNext, CerInvEnough, PTL DEF CerSpec
=============================================================================
