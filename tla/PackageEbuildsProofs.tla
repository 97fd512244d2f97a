------------------------- MODULE PackageEbuildsProofs -------------------------
(***************************************************************************)
(* Proofs about PackageEbuilds, for any objects, versions, atoms and width *)
(* of integers: references are exact, an ebuild is in one list, no list    *)
(* runs in a circle, the newest ebuilds come first, and an atom finds the  *)
(* newest that meets it.                                                   *)
(***************************************************************************)
EXTENDS PackageEbuilds, FiniteSetTheorems, SequenceTheorems, WellFoundedInduction, TLAPS

-----------------------------------------------------------------------------
(* Numbers of the width of an I32.                                         *)

LEMMA DivMod ==
    ASSUME NEW a \in Int, NEW m \in Nat \ {0}
    PROVE  /\ a % m \in Int /\ 0 <= a % m /\ a % m < m
           /\ a \div m \in Int /\ a = m * (a \div m) + (a % m)
  OBVIOUS

LEMMA RemainderOfNegative ==
    ASSUME NEW h \in Nat \ {0}, NEW r1 \in Int, NEW r2 \in Int, NEW q \in Int,
           0 <= r1, r1 < 2 * h, 0 <= r2, r2 < 2 * h, r1 + r2 = 2 * h * q, r1 >= h
    PROVE  r1 + r2 = 2 * h
  <1>1. 2 * h * q > 0 /\ 2 * h * q < 4 * h
    OBVIOUS
  <1>2. q = 1
    <2>1. CASE q >= 2
      <3>1. 2 * h * q >= 4 * h
        BY <2>1
      <3> QED
        BY <1>1, <3>1
    <2>2. CASE q <= 0
      <3>1. 2 * h * q <= 0
        BY <2>2
      <3> QED
        BY <1>1, <3>1
    <2> QED
      BY <2>1, <2>2
  <1> QED
    BY <1>2

\* The least I32 is its own negative; of every other number the sign changes.
LEMMA ToI32Turned ==
    ASSUME IntAssumption, NEW x \in Int
    PROVE  /\ ToI32(x) \in Int /\ ToI32(-x) \in Int
           /\ ToI32(x) > 0 => ToI32(-x) < 0
           /\ ToI32(x) = 0 => ToI32(-x) = 0
  <1> DEFINE m == 2 * IntHalf
             r1 == (x + IntHalf) % m
             r2 == (-x + IntHalf) % m
             q1 == (x + IntHalf) \div m
             q2 == (-x + IntHalf) \div m
  <1>1. /\ IntHalf \in Nat \ {0} /\ m \in Nat \ {0} /\ x + IntHalf \in Int /\ -x + IntHalf \in Int
        /\ -x \in Int
    BY DEF IntAssumption
  <1>2. /\ r1 \in Int /\ 0 <= r1 /\ r1 < m /\ q1 \in Int /\ x + IntHalf = m * q1 + r1
        /\ r2 \in Int /\ 0 <= r2 /\ r2 < m /\ q2 \in Int /\ -x + IntHalf = m * q2 + r2
    BY <1>1, DivMod
  <1>3. ToI32(x) = r1 - IntHalf /\ ToI32(-x) = r2 - IntHalf
    BY DEF ToI32
  <1> HIDE DEF r1, r2, q1, q2
  <1>4. r1 + r2 = 2 * IntHalf * (1 - q1 - q2) /\ 1 - q1 - q2 \in Int
    <2>1. m * (1 - q1 - q2) = m - m * q1 - m * q2
      BY <1>1, <1>2
    <2>2. r1 + r2 = m - m * q1 - m * q2
      BY <1>1, <1>2
    <2> QED
      BY <1>2, <2>1, <2>2
  <1>5. r1 >= IntHalf => r1 + r2 = 2 * IntHalf
    <2> SUFFICES ASSUME r1 >= IntHalf
                 PROVE  r1 + r2 = 2 * IntHalf
      OBVIOUS
    <2> DEFINE q == 1 - q1 - q2
    <2>1. q \in Int /\ r1 + r2 = 2 * IntHalf * q
      BY <1>4
    <2> HIDE DEF q
    <2> QED
      BY <1>1, <1>2, <2>1, RemainderOfNegative
  <1> QED
    BY <1>1, <1>2, <1>3, <1>5

-----------------------------------------------------------------------------
(* Versions.                                                               *)

LEMMA FilledInt ==
    ASSUME NEW c \in Part, NEW length \in Nat, length >= Length(c)
    PROVE  Filled(c, length) \in Int
  <1>1. c.width \in Nat /\ c.value \in Nat /\ c.letter \in 0 .. 26
    BY DEF Part
  <1>2. CASE c.letter # 0
    BY <1>1, <1>2 DEF Filled
  <1>3. CASE c.letter = 0
    <2>1. length - c.width \in Nat
      BY <1>1, <1>3 DEF Length
    <2>2. 10 ^ (length - c.width) \in Int
      BY <2>1
    <2> QED
      BY <1>1, <1>3, <2>2 DEF Filled
  <1> QED
    BY <1>2, <1>3

\* Turning a comparison of two parts round turns the sign, if it was positive.
LEMMA DifferenceTurned ==
    ASSUME IntAssumption, NEW a \in Part, NEW b \in Part
    PROVE  /\ Difference(a, b) \in Int
           /\ Difference(a, b) > 0 => Difference(b, a) < 0
           /\ Difference(a, b) = 0 <=> Difference(b, a) = 0
  <1>1. /\ a.width \in Nat /\ a.value \in Nat /\ a.letter \in 0 .. 26
        /\ b.width \in Nat /\ b.value \in Nat /\ b.letter \in 0 .. 26
    BY DEF Part
  <1> DEFINE la == IF Length(a) > Length(b) THEN Length(a) ELSE Length(b)
             lb == IF Length(b) > Length(a) THEN Length(b) ELSE Length(a)
  <1>2. Length(a) \in Nat /\ Length(b) \in Nat
    BY <1>1 DEF Length
  <1>3. la = lb /\ la \in Nat /\ la >= Length(a) /\ la >= Length(b)
    BY <1>2
  <1>4. PICK x \in Int, y \in Int :
           Difference(a, b) = ToI32(ToI32(x) - ToI32(y)) /\ Difference(b, a) = ToI32(ToI32(y) - ToI32(x))
    <2>1. CASE Fraction(a) \/ Fraction(b)
      <3>1. /\ Difference(a, b) = ToI32(ToI32(Filled(a, la)) - ToI32(Filled(b, la)))
            /\ Difference(b, a) = ToI32(ToI32(Filled(b, lb)) - ToI32(Filled(a, lb)))
        BY <2>1 DEF Difference
      <3> QED
        BY <1>3, <3>1, FilledInt
    <2>2. CASE ~(Fraction(a) \/ Fraction(b))
      <3>1. /\ Difference(a, b) = ToI32(ToI32(a.value) - ToI32(b.value))
            /\ Difference(b, a) = ToI32(ToI32(b.value) - ToI32(a.value))
        BY <2>2 DEF Difference
      <3>2. a.value \in Int /\ b.value \in Int
        BY <1>1
      <3> QED
        BY <3>1, <3>2
    <2> QED
      BY <2>1, <2>2
  <1>5. PICK d \in Int : Difference(a, b) = ToI32(d) /\ Difference(b, a) = ToI32(-d)
    <2>1. ToI32(x) \in Int /\ ToI32(y) \in Int
      BY ToI32Turned
    <2>2. ToI32(y) - ToI32(x) = -(ToI32(x) - ToI32(y)) /\ ToI32(x) - ToI32(y) \in Int
      BY <2>1
    <2> QED
      BY <1>4, <2>2
  <1>6. -d \in Int /\ -(-d) = d
    OBVIOUS
  <1>7. ToI32(-d) = 0 => ToI32(d) = 0
    BY <1>6, ToI32Turned
  <1> QED
    BY <1>5, <1>7, ToI32Turned

LEMMA PartInts ==
    ASSUME NEW c \in Part
    PROVE  c.prefix \in Int /\ c.letter \in Int
  <1>1. c.prefix \in ALPHA .. P /\ c.letter \in 0 .. 26
    BY DEF Part
  <1> QED
    BY <1>1

LEMMA DecidedTurned ==
    ASSUME IntAssumption, NEW u \in Version, NEW v \in Version,
           NEW i \in 1 .. Len(u.parts), i <= Len(v.parts)
    PROVE  /\ Decided(u, v, i) \in Int \cup {NULL}
           /\ Decided(u, v, i) = NULL <=> Decided(v, u, i) = NULL
           /\ Decided(u, v, i) # NULL /\ Decided(u, v, i) > 0 => Decided(v, u, i) < 0
  <1> DEFINE a == u.parts[i]
             b == v.parts[i]
  <1>1. /\ Len(u.parts) \in Nat /\ Len(v.parts) \in Nat /\ a \in Part /\ b \in Part
        /\ NULL \notin Int
    BY DEF Version, IntAssumption
  <1>2. /\ a.prefix \in Int /\ b.prefix \in Int /\ a.letter \in Int /\ b.letter \in Int
    BY <1>1, PartInts
  <1>3. /\ Difference(a, b) \in Int /\ Difference(b, a) \in Int
        /\ Difference(a, b) > 0 => Difference(b, a) < 0
        /\ Difference(a, b) = 0 <=> Difference(b, a) = 0
    BY <1>1, DifferenceTurned
  <1> HIDE DEF a, b
  <1>4. Decided(u, v, i) =
          IF a.prefix # b.prefix THEN a.prefix - b.prefix
          ELSE IF i < Len(v.parts) /\ a.letter # 0 THEN -1
          ELSE IF i < Len(u.parts) /\ b.letter # 0 THEN 1
          ELSE IF Difference(a, b) # 0 THEN Difference(a, b)
          ELSE IF a.star \/ b.star THEN 0
          ELSE IF a.letter # b.letter THEN a.letter - b.letter
          ELSE NULL
    BY DEF Decided, a, b
  <1>5. Decided(v, u, i) =
          IF b.prefix # a.prefix THEN b.prefix - a.prefix
          ELSE IF i < Len(u.parts) /\ b.letter # 0 THEN -1
          ELSE IF i < Len(v.parts) /\ a.letter # 0 THEN 1
          ELSE IF Difference(b, a) # 0 THEN Difference(b, a)
          ELSE IF b.star \/ a.star THEN 0
          ELSE IF b.letter # a.letter THEN b.letter - a.letter
          ELSE NULL
    BY DEF Decided, a, b
  <1>6. CASE a.prefix # b.prefix
    BY <1>1, <1>2, <1>4, <1>5, <1>6
  <1>7. CASE a.prefix = b.prefix
    <2>1. CASE (i < Len(v.parts) /\ a.letter # 0) \/ (i < Len(u.parts) /\ b.letter # 0)
      BY <1>1, <1>2, <1>4, <1>5, <1>7, <2>1
    <2>2. CASE ~((i < Len(v.parts) /\ a.letter # 0) \/ (i < Len(u.parts) /\ b.letter # 0))
      <3>1. CASE Difference(a, b) # 0
        BY <1>1, <1>2, <1>3, <1>4, <1>5, <1>7, <2>2, <3>1
      <3>2. CASE Difference(a, b) = 0
        BY <1>1, <1>2, <1>3, <1>4, <1>5, <1>7, <2>2, <3>2
      <3> QED
        BY <3>1, <3>2
    <2> QED
      BY <2>1, <2>2
  <1> QED
    BY <1>6, <1>7

\* A set of numbers has a least one.
LEMMA Least ==
    ASSUME NEW T, T \subseteq Nat, T # {}
    PROVE  \E x \in T : \A y \in T : x <= y
  <1> DEFINE R == {ss \in Nat \X Nat : ss[1] < ss[2]}
  <1>1. IsWellFoundedOn(R, Nat)
    BY NatLessThanWellFounded DEF OpToRel
  <1>2. \E x \in T : \A y \in T : ~ (<<y, x>> \in R)
    <2> HIDE DEF R
    <2> QED
      BY <1>1, WFMin
  <1>3. PICK x \in T : \A y \in T : ~ (<<y, x>> \in R)
    BY <1>2
  <1>4. ASSUME NEW y \in T
        PROVE  x <= y
    <2>1. y \in Nat /\ x \in Nat /\ ~ (<<y, x>> \in R)
      BY <1>3
    <2>2. <<y, x>> \in Nat \X Nat /\ <<y, x>>[1] = y /\ <<y, x>>[2] = x
      BY <2>1
    <2>3. ~ (y < x)
      BY <2>1, <2>2
    <2> QED
      BY <2>1, <2>3
  <1> QED
    BY <1>4

\* Induction, over a set instead of a predicate.
LEMMA SetInduction ==
    ASSUME NEW S, 0 \in S, \A n \in Nat : n \in S => n + 1 \in S
    PROVE  Nat \subseteq S
  <1> SUFFICES ASSUME Nat \ S # {}
               PROVE  FALSE
    OBVIOUS
  <1>1. PICK x \in Nat \ S : \A y \in Nat \ S : x <= y
    BY Least
  <1>2. x # 0 /\ x - 1 \in Nat /\ x - 1 < x
    BY <1>1
  <1>3. x - 1 \in S
    BY <1>1, <1>2
  <1> QED
    BY <1>1, <1>2, <1>3

FirstOf(S) == CHOOSE i \in S : \A j \in S : i <= j
LEMMA FirstIn ==
    ASSUME NEW S, S \subseteq Nat, S # {}
    PROVE  FirstOf(S) \in S /\ \A j \in S : FirstOf(S) <= j
  BY Least DEF FirstOf

\* atom_version_compare says of no two versions that each is newer than the
\* other.  (It may say so of older.)
LEMMA CompareTurned ==
    ASSUME IntAssumption, NEW u \in Version, NEW v \in Version, u # NULL, v # NULL
    PROVE  /\ Compare(u, v) \in Int
           /\ Compare(u, v) > 0 => Compare(v, u) < 0
  <1> DEFINE f == Len(u.parts)
             s == Len(v.parts)
             D == {i \in 1 .. f : i <= s /\ Decided(u, v, i) # NULL}
             G2 == {i \in 1 .. s : i <= f /\ Decided(v, u, i) # NULL}
  <1>1. /\ f \in Nat /\ s \in Nat /\ u.revision \in Nat /\ v.revision \in Nat
    BY DEF Version
  <1>2. D = G2
    <2>1. ASSUME NEW i \in 1 .. f, i <= s
          PROVE  Decided(u, v, i) # NULL <=> Decided(v, u, i) # NULL
      BY <2>1, DecidedTurned
    <2> QED
      BY <1>1, <2>1
  <1>3. Compare(u, v) = IF D # {} THEN Decided(u, v, FirstOf(D))
                        ELSE IF f > s THEN 1 ELSE IF f < s THEN -1
                        ELSE u.revision - v.revision
    BY DEF Compare, FirstOf
  <1>4. Compare(v, u) = IF G2 # {} THEN Decided(v, u, FirstOf(G2))
                        ELSE IF s > f THEN 1 ELSE IF s < f THEN -1
                        ELSE v.revision - u.revision
    BY DEF Compare, FirstOf
  <1>5. CASE D # {}
    <2> DEFINE k == FirstOf(D)
    <2>1. k \in D
      <3>1. D \subseteq Nat
        BY <1>1
      <3> HIDE DEF D
      <3> QED
        BY <1>5, <3>1, FirstIn
    <2> HIDE DEF k
    <2>2. k \in 1 .. f /\ k <= s /\ Decided(u, v, k) # NULL
      BY <2>1
    <2>3. Compare(u, v) = Decided(u, v, k) /\ Compare(v, u) = Decided(v, u, k)
      BY <1>2, <1>3, <1>4, <1>5 DEF k
    <2> QED
      BY <2>2, <2>3, DecidedTurned
  <1>6. CASE D = {}
    <2> HIDE DEF D, G2, f, s
    <2> QED
      BY <1>1, <1>2, <1>3, <1>4, <1>6
  <1> QED
    BY <1>5, <1>6

-----------------------------------------------------------------------------
(* The invariant.                                                          *)

Members(p) == {x \in InUse : package[x] = p}
Has(e) == (\E p \in packages : ebuilds[p] = e) \/ \E y \in InUse : older[y] = e

\* `older' and a package's list lead to ebuilds in use, of the same package.
Links ==
    \A x \in InUse : older[x] # NULL =>
        older[x] \in InUse /\ package[older[x]] = package[x] /\ package[x] # NULL
Heads ==
    \A p \in packages : ebuilds[p] # NULL => ebuilds[p] \in InUse /\ package[ebuilds[p]] = p

\* An ebuild is led to from one place at most, and from one if its package is held.
OnePointer ==
    \A x \in InUse : older[x] # NULL =>
        /\ \A y \in InUse : older[y] = older[x] => y = x
        /\ \A p \in packages : ebuilds[p] # older[x]
Pointed ==
    \A x \in InUse : package[x] \in packages =>
        ebuilds[package[x]] = x \/ \E y \in InUse : older[y] = x
Counted ==
    \A e \in Ebuild : /\ refs[e] = held[e] + (IF Has(e) THEN 1 ELSE 0)
                      /\ refs[e] > 0 <=> e \in InUse

\* Ebuilds in use can be ranked so that `older' leads down, and newer ebuilds of
\* a package are ranked higher.
Ranked(r) ==
    /\ \A x \in InUse : older[x] # NULL => r[older[x]] < r[x]
    /\ \A x, y \in InUse : r[x] = r[y] => x = y
OrderedVersions(V) ==
    \A u, v, w \in V : Compare(u, v) <= 0 /\ Compare(v, w) <= 0 => Compare(u, w) <= 0
Sorted(r) ==
    \A p \in packages : OrderedVersions({version[x] : x \in Members(p)}) =>
        \A x, y \in Members(p) : r[y] < r[x] => Compare(version[y], version[x]) <= 0
Ranks(n) == [Ebuild -> 0 .. n]

Shape == TypeOK /\ Links /\ Heads /\ OnePointer /\ Pointed /\ Counted
EbuildsInv == Shape /\ \E n \in Nat : \E r \in Ranks(n) : Ranked(r) /\ Sorted(r)

-----------------------------------------------------------------------------
(* The list that starts at an ebuild.                                      *)

Down(s, r) ==
    /\ s \in Seq(InUse) /\ s # <<>> /\ older[s[Len(s)]] = NULL
    /\ \A i \in 1 .. Len(s) - 1 : older[s[i]] = s[i + 1]
    /\ \A i, j \in 1 .. Len(s) : i < j => r[s[j]] < r[s[i]]

LEMMA Pushed ==
    ASSUME NEW S, NEW q \in Seq(S), NEW x \in S
    PROVE  /\ <<x>> \o q \in Seq(S) /\ Len(<<x>> \o q) = Len(q) + 1 /\ <<x>> \o q # <<>>
           /\ (<<x>> \o q)[1] = x
           /\ \A i \in 2 .. Len(q) + 1 : (<<x>> \o q)[i] = q[i - 1]
  OBVIOUS

LEMMA Descends ==
    ASSUME Links, NEW n \in Nat, NEW r \in Ranks(n), Ranked(r), NEW e \in InUse
    PROVE  \E s : Down(s, r) /\ s[1] = e
  <1> DEFINE B == {x \in InUse : ~ \E s : Down(s, r) /\ s[1] = x}
             T == {r[x] : x \in B}
  <1> SUFFICES ASSUME B # {}
               PROVE  FALSE
    OBVIOUS
  <1>1. \A x \in InUse : x \in Ebuild /\ r[x] \in Nat
    BY DEF InUse, Ranks
  <1>2. PICK x \in B : \A y \in B : r[x] <= r[y]
    <2>1. T \subseteq Nat /\ T # {}
      BY <1>1
    <2> HIDE DEF T, B
    <2>2. PICK t \in T : \A u \in T : t <= u
      BY <2>1, Least
    <2> QED
      BY <2>2 DEF T
  <1>3. x \in InUse /\ ~ \E s : Down(s, r) /\ s[1] = x
    BY <1>2
  <1>4. CASE older[x] = NULL
    <2> DEFINE s == <<x>>
    <2>1. s \in Seq(InUse) /\ s # <<>> /\ Len(s) = 1 /\ s[1] = x
      BY <1>3
    <2> HIDE DEF s
    <2>2. Down(s, r)
      BY <1>4, <2>1 DEF Down
    <2> QED
      BY <1>3, <2>1, <2>2
  <1>5. CASE older[x] # NULL
    <2> DEFINE y == older[x]
    <2>1. y \in InUse /\ r[y] < r[x]
      BY <1>3, <1>5 DEF Links, Ranked
    <2>2. y \notin B
      BY <1>1, <1>2, <1>3, <2>1
    <2>3. PICK q : Down(q, r) /\ q[1] = y
      BY <2>1, <2>2
    <2> DEFINE s == <<x>> \o q
    <2>4. q \in Seq(InUse) /\ q # <<>> /\ Len(q) \in Nat /\ Len(q) >= 1
      BY <2>3, EmptySeq DEF Down
    <2>5. /\ s \in Seq(InUse) /\ Len(s) = Len(q) + 1 /\ s # <<>> /\ s[1] = x
          /\ \A i \in 2 .. Len(q) + 1 : s[i] = q[i - 1]
      BY <1>3, <2>4, Pushed
    <2> HIDE DEF s, y
    <2>6. older[s[Len(s)]] = NULL
      <3>1. Len(s) \in 2 .. Len(q) + 1 /\ Len(s) - 1 = Len(q)
        BY <2>4, <2>5
      <3> QED
        BY <2>3, <2>5, <3>1 DEF Down
    <2>7. ASSUME NEW i \in 1 .. Len(s) - 1
          PROVE  older[s[i]] = s[i + 1]
      <3>1. i + 1 \in 2 .. Len(q) + 1 /\ s[i + 1] = q[i] /\ i \in 1 .. Len(q)
        BY <2>4, <2>5
      <3>2. CASE i = 1
        BY <2>3, <2>5, <3>1, <3>2 DEF y
      <3>3. CASE i # 1
        <4>1. i \in 2 .. Len(q) + 1 /\ s[i] = q[i - 1] /\ i - 1 \in 1 .. Len(q) - 1 /\ (i - 1) + 1 = i
          BY <2>4, <2>5, <3>1, <3>3
        <4>2. older[q[i - 1]] = q[(i - 1) + 1]
          BY <2>3, <4>1 DEF Down
        <4> QED
          BY <3>1, <4>1, <4>2
      <3> QED
        BY <3>2, <3>3
    <2>8. ASSUME NEW i \in 1 .. Len(s), NEW j \in 1 .. Len(s), i < j
          PROVE  r[s[j]] < r[s[i]]
      <3>1. j \in 2 .. Len(q) + 1 /\ s[j] = q[j - 1] /\ j - 1 \in 1 .. Len(q) /\ q[j - 1] \in InUse
        BY <2>4, <2>5, <2>8
      <3>2. CASE i = 1
        <4>1. r[q[j - 1]] <= r[y]
          <5>1. CASE j = 2
            BY <1>1, <2>1, <2>3, <5>1
          <5>2. CASE j # 2
            <6>1. 1 \in 1 .. Len(q) /\ 1 < j - 1
              BY <3>1, <5>2
            <6>2. r[q[j - 1]] < r[q[1]]
              BY <2>3, <3>1, <6>1 DEF Down
            <6> QED
              BY <1>1, <2>1, <2>3, <3>1, <6>2
          <5> QED
            BY <5>1, <5>2
        <4> QED
          BY <1>1, <1>3, <2>1, <2>5, <3>1, <3>2, <4>1
      <3>3. CASE i # 1
        <4>1. i \in 2 .. Len(q) + 1 /\ s[i] = q[i - 1] /\ i - 1 \in 1 .. Len(q) /\ i - 1 < j - 1
          BY <2>4, <2>5, <2>8, <3>3
        <4> QED
          BY <2>3, <3>1, <4>1 DEF Down
      <3> QED
        BY <3>2, <3>3
    <2>9. Down(s, r)
      BY <2>5, <2>6, <2>7, <2>8 DEF Down
    <2> QED
      BY <1>3, <2>5, <2>9
  <1> QED
    BY <1>4, <1>5

Walk(h, nx) ==
    CHOOSE f : f = [i \in 0 .. Cardinality(Ebuild) |->
                      IF i = 0 THEN h ELSE IF f[i - 1] = NULL THEN NULL ELSE nx[f[i - 1]]]
Along(walk) ==
    [i \in 1 .. Cardinality({i \in DOMAIN walk : walk[i] # NULL}) |-> walk[i - 1]]

LinkedBy(s, h, nx) ==
    /\ h = IF s = <<>> THEN NULL ELSE s[1]
    /\ s # <<>> => nx[s[Len(s)]] = NULL
    /\ \A i \in 1 .. Len(s) - 1 : nx[s[i]] = s[i + 1]

LEMMA WalkFinds ==
    ASSUME ObjectAssumption, NEW nx, NEW h, NEW s \in Seq(Ebuild), Len(s) <= Cardinality(Ebuild),
           LinkedBy(s, h, nx)
    PROVE  /\ Walk(h, nx) = [i \in 0 .. Cardinality(Ebuild) |->
                                IF i < Len(s) THEN s[i + 1] ELSE NULL]
           /\ Along(Walk(h, nx)) = s
  <1> DEFINE C == Cardinality(Ebuild)
             F == [i \in 0 .. C |-> IF i < Len(s) THEN s[i + 1] ELSE NULL]
             W == Walk(h, nx)
  <1>1. /\ Len(s) \in Nat /\ C \in Nat /\ Len(s) <= C
        /\ \A i \in 1 .. Len(s) : s[i] \in Ebuild /\ s[i] # NULL
    BY ElementOfSeq, FS_CardinalityType DEF ObjectAssumption
  <1>2. /\ Len(s) = 0 => h = NULL
        /\ Len(s) > 0 => h = s[1] /\ nx[s[Len(s)]] = NULL
        /\ \A i \in 1 .. Len(s) - 1 : nx[s[i]] = s[i + 1]
    BY <1>1, EmptySeq DEF LinkedBy
  <1>3. ASSUME NEW i \in 0 .. C, i # 0
        PROVE  F[i] = IF F[i - 1] = NULL THEN NULL ELSE nx[F[i - 1]]
    <2>1. i - 1 \in 0 .. C /\ F[i - 1] = IF i - 1 < Len(s) THEN s[i] ELSE NULL
      BY <1>1, <1>3
    <2>2. CASE i < Len(s)
      <3>1. i \in 1 .. Len(s) - 1 /\ i \in 1 .. Len(s) /\ i - 1 < Len(s)
        BY <1>1, <1>3, <2>2
      <3> QED
        BY <1>1, <1>2, <2>1, <2>2, <3>1
    <2>3. CASE i = Len(s)
      <3>1. i - 1 < Len(s) /\ i \in 1 .. Len(s) /\ Len(s) > 0 /\ ~(i < Len(s))
        BY <1>1, <1>3, <2>3
      <3> QED
        BY <1>1, <1>2, <2>1, <2>3, <3>1
    <2>4. CASE i > Len(s)
      BY <1>1, <2>1, <2>4
    <2> QED
      BY <1>1, <2>2, <2>3, <2>4
  <1>4. F[0] = h
    BY <1>1, <1>2
  <1>5. F = [i \in 0 .. C |-> IF i = 0 THEN h ELSE IF F[i - 1] = NULL THEN NULL ELSE nx[F[i - 1]]]
    BY <1>3, <1>4
  <1> HIDE DEF F
  <1>6. W = [i \in 0 .. C |-> IF i = 0 THEN h ELSE IF W[i - 1] = NULL THEN NULL ELSE nx[W[i - 1]]]
    BY <1>5 DEF Walk
  <1> HIDE DEF W
  <1>7. \A i \in 0 .. C : W[i] = F[i]
    <2> DEFINE S == {n \in Nat : n <= C => W[n] = F[n]}
    <2>1. 0 \in S
      BY <1>1, <1>4, <1>6
    <2>2. ASSUME NEW n \in Nat, n \in S
          PROVE  n + 1 \in S
      <3> SUFFICES ASSUME n + 1 <= C
                   PROVE  W[n + 1] = F[n + 1]
        OBVIOUS
      <3>1. n + 1 \in 0 .. C /\ n + 1 # 0 /\ (n + 1) - 1 = n /\ n <= C
        BY <1>1
      <3>2. W[n] = F[n]
        BY <2>2, <3>1
      <3> QED
        BY <1>3, <1>6, <3>1, <3>2
    <2> HIDE DEF S
    <2>3. Nat \subseteq S
      BY <2>1, <2>2, SetInduction
    <2> QED
      BY <1>1, <2>3 DEF S
  <1>8. W = F
    <2>1. DOMAIN F = 0 .. C /\ F = [i \in 0 .. C |-> F[i]]
      BY DEF F
    <2>2. W = [i \in 0 .. C |-> W[i]]
      BY <1>6
    <2> QED
      BY <1>7, <2>1, <2>2
  <1>9. Along(F) = s
    <2> DEFINE I == {i \in DOMAIN F : F[i] # NULL}
    <2>1. I = 0 .. Len(s) - 1
      BY <1>1 DEF F
    <2>2. Cardinality(0 .. Len(s) - 1) = Len(s)
      <3>1. 0 \in Int /\ Len(s) - 1 \in Int
        BY <1>1
      <3>2. Cardinality(0 .. Len(s) - 1) = IF 0 > Len(s) - 1 THEN 0 ELSE (Len(s) - 1) - 0 + 1
        BY <3>1, FS_Interval
      <3> QED
        BY <1>1, <3>2
    <2> HIDE DEF I
    <2>3. Along(F) = [i \in 1 .. Len(s) |-> F[i - 1]]
      BY <2>1, <2>2 DEF Along, I
    <2>4. \A i \in 1 .. Len(s) : F[i - 1] = s[i]
      BY <1>1 DEF F
    <2>5. [i \in 1 .. Len(s) |-> F[i - 1]] = [i \in 1 .. Len(s) |-> s[i]]
      BY <2>4
    <2>6. s = [i \in 1 .. Len(s) |-> s[i]]
      BY LenProperties
    <2> QED
      BY <2>3, <2>5, <2>6
  <1> QED
    BY <1>8, <1>9 DEF F, W

LEMMA NoLonger ==
    ASSUME ObjectAssumption, NEW s \in Seq(Ebuild),
           \A i, j \in 1 .. Len(s) : i < j => s[i] # s[j]
    PROVE  Len(s) \in Nat /\ Len(s) <= Cardinality(Ebuild)
  <1> DEFINE S == 1 .. Len(s)
  <1>1. Len(s) \in Nat /\ 1 \in Int /\ Len(s) \in Int
    OBVIOUS
  <1>2. IsFiniteSet(S) /\ Cardinality(S) = Len(s)
    <2>1. IsFiniteSet(S) /\ Cardinality(S) = IF 1 > Len(s) THEN 0 ELSE Len(s) - 1 + 1
      BY <1>1, FS_Interval
    <2> QED
      BY <1>1, <2>1
  <1>3. IsFiniteSet(Ebuild) /\ Cardinality(Ebuild) \in Nat
    BY FS_CardinalityType DEF ObjectAssumption
  <1>4. s \in [S -> Ebuild]
    OBVIOUS
  <1>5. ~(Cardinality(Ebuild) < Cardinality(S))
    <2> SUFFICES ASSUME Cardinality(Ebuild) < Cardinality(S)
                 PROVE  FALSE
      OBVIOUS
    <2> HIDE DEF S
    <2>1. \E i, j \in S : i # j /\ s[i] = s[j]
      BY <1>2, <1>3, <1>4, FS_PigeonHole
    <2>2. \A i, j \in S : i # j => i < j \/ j < i
      BY DEF S
    <2> QED
      BY <2>1, <2>2 DEF S
  <1> QED
    BY <1>1, <1>2, <1>3, <1>5

LEMMA ChainIs ==
    ASSUME ObjectAssumption, TypeOK, NEW n \in Nat, NEW r \in Ranks(n), NEW s, Down(s, r)
    PROVE  Chain(s[1]) = s
  <1>1. s \in Seq(Ebuild) /\ s # <<>> /\ Len(s) \in Nat /\ InUse \subseteq Ebuild
    BY DEF Down, InUse
  <1>2. ASSUME NEW i \in 1 .. Len(s), NEW j \in 1 .. Len(s), i < j
        PROVE  s[i] # s[j]
    <2>1. r[s[j]] < r[s[i]] /\ s[i] \in Ebuild /\ r[s[i]] \in 0 .. n
      BY <1>1, <1>2 DEF Down, Ranks
    <2> QED
      BY <2>1
  <1>3. Len(s) <= Cardinality(Ebuild)
    BY <1>1, <1>2, NoLonger
  <1>4. /\ older[s[Len(s)]] = NULL
        /\ \A i \in 1 .. Len(s) - 1 : older[s[i]] = s[i + 1]
    BY DEF Down
  <1>5. Along(Walk(s[1], older)) = s
    <2> DEFINE h == s[1]
    <2>1. h = IF s = <<>> THEN NULL ELSE s[1]
      BY <1>1
    <2> HIDE DEF h
    <2>2. LinkedBy(s, h, older)
      BY <1>1, <1>4, <2>1 DEF LinkedBy
    <2>3. Along(Walk(h, older)) = s
      BY <1>1, <1>3, <2>2, WalkFinds
    <2> QED
      BY <2>3 DEF h
  <1> QED
    BY <1>5 DEF Chain, Along, Walk

LEMMA NoChain ==
    ASSUME ObjectAssumption
    PROVE  Chain(NULL) = <<>>
  <1>1. ASSUME NEW s \in Seq(Ebuild), s = <<>>, NEW h, h = NULL, NEW nx
        PROVE  Along(Walk(h, nx)) = s
    <2>1. Len(s) = 0 /\ Len(s) <= Cardinality(Ebuild)
      BY <1>1, FS_CardinalityType DEF ObjectAssumption
    <2>2. LinkedBy(s, h, nx)
      BY <1>1, <2>1 DEF LinkedBy
    <2> QED
      BY <2>1, <2>2, WalkFinds
  <1>2. Along(Walk(NULL, older)) = <<>>
    <2>1. <<>> \in Seq(Ebuild)
      OBVIOUS
    <2> QED
      BY ONLY <1>1, <2>1
  <1> QED
    BY <1>2 DEF Chain, Along, Walk

\* A package's list: its ebuilds, each once, down the ranks.
Listed(s, p, r) ==
    /\ s \in Seq(InUse)
    /\ \A i \in 1 .. Len(s) : s[i] \in Members(p)
    /\ \A x \in Members(p) : \E i \in 1 .. Len(s) : s[i] = x
    /\ ebuilds[p] = IF s = <<>> THEN NULL ELSE s[1]
    /\ s # <<>> => older[s[Len(s)]] = NULL
    /\ \A i \in 1 .. Len(s) - 1 : older[s[i]] = s[i + 1]
    /\ \A i, j \in 1 .. Len(s) : i < j => r[s[j]] < r[s[i]]

\* Who is led to from an ebuild's list, or leads it, is on it.
LEMMA AllOnList ==
    ASSUME ObjectAssumption, Shape, NEW n \in Nat, NEW r \in Ranks(n), Ranked(r),
           NEW p \in packages, NEW s \in Seq(InUse),
           ebuilds[p] # NULL => \E i \in 1 .. Len(s) : s[i] = ebuilds[p],
           \A i \in 1 .. Len(s) : older[s[i]] # NULL => \E j \in 1 .. Len(s) : s[j] = older[s[i]]
    PROVE  \A x \in Members(p) : \E i \in 1 .. Len(s) : s[i] = x
  <1> DEFINE B == {x \in Members(p) : ~ \E i \in 1 .. Len(s) : s[i] = x}
             T == {n - r[x] : x \in B}
  <1> SUFFICES ASSUME B # {}
               PROVE  FALSE
    OBVIOUS
  <1>1. \A x \in InUse : x \in Ebuild /\ r[x] \in 0 .. n
    BY DEF InUse, Ranks
  <1>2. \A x \in B : x \in InUse /\ package[x] = p /\ r[x] \in 0 .. n
    BY <1>1 DEF Members
  <1>3. PICK x \in B : \A y \in B : r[y] <= r[x]
    <2>1. T \subseteq Nat /\ T # {}
      BY <1>2
    <2> HIDE DEF T, B
    <2>2. PICK t \in T : \A u \in T : t <= u
      BY <2>1, Least
    <2>3. PICK x \in B : t = n - r[x]
      BY <2>2 DEF T
    <2>4. \A y \in B : n - r[x] <= n - r[y]
      BY <2>2, <2>3 DEF T
    <2>5. \A y \in B : r[y] <= r[x]
      BY <1>2, <2>3, <2>4
    <2> QED
      BY <2>3, <2>5
  <1>4. x \in InUse /\ package[x] = p /\ ~ \E i \in 1 .. Len(s) : s[i] = x
    BY <1>2
  <1>5. x # NULL
    BY <1>1, <1>4 DEF ObjectAssumption
  <1>6. ebuilds[p] # x
    BY <1>4, <1>5
  <1>7. PICK y \in InUse : older[y] = x
    BY <1>4, <1>6 DEF Shape, Pointed
  <1>8. package[y] = p /\ r[x] < r[y]
    BY <1>4, <1>5, <1>7 DEF Shape, Links, Ranked
  <1>9. y \notin B
    BY <1>1, <1>3, <1>4, <1>7, <1>8
  <1>10. PICK i \in 1 .. Len(s) : s[i] = y
    BY <1>7, <1>8, <1>9 DEF Members
  <1> QED
    BY <1>4, <1>5, <1>7, <1>10

LEMMA ListIs ==
    ASSUME ObjectAssumption, Shape, NEW n \in Nat, NEW r \in Ranks(n), Ranked(r), NEW p \in packages
    PROVE  Listed(List(p), p, r)
  <1>1. p \in Package /\ ebuilds[p] \in Ebuild \cup {NULL} /\ NULL \notin InUse
    BY DEF Shape, TypeOK, ObjectAssumption, InUse
  <1>2. CASE ebuilds[p] = NULL
    <2> DEFINE s == <<>>
    <2>1. s \in Seq(InUse) /\ Len(s) = 0 /\ s = <<>>
      OBVIOUS
    <2>2. List(p) = s
      BY <1>2, NoChain DEF List
    <2> HIDE DEF s
    <2>3. \A i \in 1 .. Len(s) : older[s[i]] # NULL => \E j \in 1 .. Len(s) : s[j] = older[s[i]]
      BY <2>1
    <2>4. \A x \in Members(p) : \E i \in 1 .. Len(s) : s[i] = x
      BY <1>2, <2>1, <2>3, AllOnList
    <2> QED
      BY <1>2, <2>1, <2>2, <2>4 DEF Listed
  <1>3. CASE ebuilds[p] # NULL
    <2> DEFINE e == ebuilds[p]
    <2>1. e \in InUse /\ package[e] = p
      BY <1>3 DEF Shape, Heads
    <2> HIDE DEF e
    <2>2. PICK s : Down(s, r) /\ s[1] = e
      BY <2>1, Descends DEF Shape
    <2>3. List(p) = s
      <3>1. Chain(s[1]) = s
        BY <2>2, ChainIs DEF Shape
      <3> QED
        BY <2>2, <3>1 DEF List, e
    <2>4. s \in Seq(InUse) /\ s # <<>> /\ Len(s) \in Nat /\ Len(s) >= 1
      BY <2>2, EmptySeq DEF Down
    <2>5. ASSUME NEW i \in 1 .. Len(s)
          PROVE  s[i] \in Members(p)
      <3> DEFINE T == {k \in Nat : k + 1 <= Len(s) => s[k + 1] \in Members(p)}
      <3>1. 0 \in T
        BY <2>1, <2>2 DEF Members
      <3>2. ASSUME NEW k \in Nat, k \in T
            PROVE  k + 1 \in T
        <4> SUFFICES ASSUME k + 1 + 1 <= Len(s)
                     PROVE  s[k + 1 + 1] \in Members(p)
          OBVIOUS
        <4>1. k + 1 <= Len(s) /\ k + 1 \in 1 .. Len(s) - 1 /\ k + 1 + 1 \in 1 .. Len(s)
          BY <2>4
        <4>2. s[k + 1] \in InUse /\ package[s[k + 1]] = p
          BY <3>2, <4>1 DEF Members
        <4>3. older[s[k + 1]] = s[k + 1 + 1] /\ s[k + 1 + 1] \in InUse
          BY <2>2, <2>4, <4>1 DEF Down
        <4> QED
          BY <1>1, <4>2, <4>3 DEF Shape, Links, Members
      <3> HIDE DEF T
      <3>3. Nat \subseteq T
        BY <3>1, <3>2, SetInduction
      <3>4. i - 1 \in T /\ i - 1 + 1 = i
        BY <3>3
      <3> QED
        BY <2>4, <3>4 DEF T
    <2>6. ASSUME NEW i \in 1 .. Len(s), older[s[i]] # NULL
          PROVE  \E j \in 1 .. Len(s) : s[j] = older[s[i]]
      <3>1. i # Len(s)
        BY <2>2, <2>6 DEF Down
      <3>2. i \in 1 .. Len(s) - 1 /\ i + 1 \in 1 .. Len(s)
        BY <2>4, <3>1
      <3> QED
        BY <2>2, <3>2 DEF Down
    <2>7. 1 \in 1 .. Len(s) /\ s[1] = ebuilds[p]
      BY <2>2, <2>4 DEF e
    <2>8. \A x \in Members(p) : \E i \in 1 .. Len(s) : s[i] = x
      BY <2>4, <2>6, <2>7, AllOnList
    <2>9. Listed(s, p, r)
      BY <2>2, <2>4, <2>5, <2>7, <2>8 DEF Listed, Down
    <2> QED
      BY <2>3, <2>9
  <1> QED
    BY <1>2, <1>3

\* A set of numbers that leaves no gap is as many numbers from 1.
LEMMA Prefix ==
    ASSUME NEW n \in Nat, NEW S, S \subseteq 1 .. n,
           \A i \in S : \A j \in 1 .. i : j \in S
    PROVE  /\ Cardinality(S) \in 0 .. n /\ IsFiniteSet(S)
           /\ S = 1 .. Cardinality(S)
  <1> DEFINE U == {i \in Nat : i + 1 \notin S}
             k == FirstOf(U)
  <1>1. n \in U
    OBVIOUS
  <1>2. k \in U /\ \A j \in U : k <= j
    <2>1. U \subseteq Nat /\ U # {}
      BY <1>1
    <2> HIDE DEF U
    <2> QED
      BY <2>1, FirstIn
  <1> HIDE DEF k
  <1>3. k \in Nat /\ k + 1 \notin S /\ k <= n
    BY <1>1, <1>2
  <1>4. \A i \in 1 .. k : i \in S
    <2>1. ASSUME NEW i \in 1 .. k
          PROVE  i \in S
      <3>1. i - 1 \in Nat /\ i - 1 < k /\ (i - 1) + 1 = i
        BY <1>3
      <3>2. i - 1 \notin U
        BY <1>2, <1>3, <3>1
      <3> QED
        BY <3>1, <3>2
    <2> QED
      BY <2>1
  <1>5. \A i \in S : i \in 1 .. k
    <2>1. ASSUME NEW i \in S, i > k
          PROVE  FALSE
      <3>1. i \in Nat /\ k + 1 \in 1 .. i
        BY <1>3, <2>1
      <3> QED
        BY <1>3, <3>1
    <2> QED
      BY <1>3, <2>1
  <1>6. S = 1 .. k
    BY <1>4, <1>5
  <1>7. IsFiniteSet(1 .. k) /\ Cardinality(1 .. k) = k
    <2>1. 1 \in Int /\ k \in Int
      BY <1>3
    <2>2. IsFiniteSet(1 .. k) /\ Cardinality(1 .. k) = IF 1 > k THEN 0 ELSE k - 1 + 1
      BY <2>1, FS_Interval
    <2> QED
      BY <1>3, <2>2
  <1> QED
    BY <1>3, <1>6, <1>7

-----------------------------------------------------------------------------
(* A new ebuild, and one that is asked for.                                *)

LEMMA InUseEbuild ==
    ASSUME ObjectAssumption
    PROVE  \A x \in InUse : x \in Ebuild /\ x # NULL
  BY DEF InUse, ObjectAssumption

\* What is led to is in use and has a package.
LEMMA LedTo ==
    ASSUME ObjectAssumption, Shape, NEW x \in Ebuild, Has(x)
    PROVE  x \in InUse /\ package[x] # NULL
  <1>1. x # NULL
    BY DEF ObjectAssumption
  <1>2. \A p \in packages : p # NULL
    BY DEF Shape, TypeOK, ObjectAssumption
  <1>3. CASE \E p \in packages : ebuilds[p] = x
    BY <1>1, <1>2, <1>3 DEF Shape, Heads
  <1>4. CASE \E y \in InUse : older[y] = x
    BY <1>1, <1>4 DEF Shape, Links
  <1> QED
    BY <1>3, <1>4 DEF Has

LEMMA InitHolds ==
    ASSUME ObjectAssumption, Init
    PROVE  EbuildsInv
  <1>1. InUse = {}
    BY DEF Init, InUse
  <1>2. TypeOK
    <2>1. 0 \in Nat /\ 0 \in 0 .. MaxHeld
      BY DEF ObjectAssumption
    <2> QED
      BY <2>1 DEF Init, TypeOK
  <1>3. Links /\ OnePointer /\ Pointed
    BY <1>1 DEF Links, OnePointer, Pointed
  <1>4. Heads
    BY DEF Init, Heads
  <1>5. Counted
    <2>1. \A e \in Ebuild : ~Has(e)
      BY <1>1 DEF Init, Has, ObjectAssumption
    <2> QED
      BY <1>1, <2>1 DEF Init, Counted
  <1>6. \E n \in Nat : \E r \in Ranks(n) : Ranked(r) /\ Sorted(r)
    <2> DEFINE r == [x \in Ebuild |-> 0]
    <2>1. r \in Ranks(0)
      BY DEF Ranks
    <2>2. Ranked(r) /\ Sorted(r)
      BY <1>1 DEF Ranked, Sorted, Members
    <2> QED
      BY <2>1, <2>2
  <1> QED
    BY <1>2, <1>3, <1>4, <1>5, <1>6 DEF EbuildsInv, Shape

LEMMA NewStep ==
    ASSUME ObjectAssumption, VersionAssumption, EbuildsInv,
           NEW e \in Ebuild, NEW key \in Keys, NEW v \in Versions, NewEbuild(e, key, v)
    PROVE  EbuildsInv'
  <1>1. Shape
    BY DEF EbuildsInv
  <1>2. TypeOK /\ v # NULL /\ e # NULL /\ e \notin InUse
    BY <1>1 DEF Shape, VersionAssumption, ObjectAssumption, NewEbuild, InUse
  <1>3. InUse' = InUse \cup {e}
    BY <1>2 DEF InUse, NewEbuild, TypeOK
  <1>4. /\ packages' = packages /\ ebuilds' = ebuilds
        /\ older'[e] = NULL /\ package'[e] = NULL /\ refs'[e] = 1 /\ held'[e] = 1 /\ version'[e] = v
        /\ \A x \in Ebuild \ {e} : /\ older'[x] = older[x] /\ package'[x] = package[x]
                                   /\ refs'[x] = refs[x] /\ held'[x] = held[x]
                                   /\ version'[x] = version[x]
    BY <1>2 DEF NewEbuild, TypeOK
  <1>5. \A x \in InUse : x \in Ebuild \ {e} /\ x # NULL
    BY <1>2, InUseEbuild
  <1>6. \A x \in Ebuild : Has(x)' <=> Has(x)
    BY <1>2, <1>3, <1>4, <1>5 DEF Has, ObjectAssumption
  <1>7. ~Has(e)
    BY <1>1, <1>2, LedTo
  <1>8. \A p \in packages : p # NULL /\ ebuilds[p] # e
    BY <1>1, <1>2, <1>7 DEF Shape, TypeOK, ObjectAssumption, Has
  <1>9. \A p \in packages : Members(p)' = Members(p)
    BY <1>3, <1>4, <1>5, <1>8 DEF Members
  <1>10. TypeOK'
    <2>1. 1 \in Nat /\ 1 \in 0 .. MaxHeld /\ key \in Package
      BY DEF ObjectAssumption, VersionAssumption
    <2> QED
      BY <1>2, <2>1 DEF TypeOK, NewEbuild
  <1>11. Links'
    BY <1>1, <1>3, <1>4, <1>5 DEF Shape, Links
  <1>12. Heads'
    BY <1>1, <1>3, <1>4, <1>5 DEF Shape, Heads
  <1>13. OnePointer'
    BY <1>1, <1>3, <1>4, <1>5 DEF Shape, OnePointer
  <1>14. Pointed'
    BY <1>1, <1>3, <1>4, <1>5, <1>8 DEF Shape, Pointed
  <1>15. Counted'
    BY <1>1, <1>3, <1>4, <1>6, <1>7 DEF Shape, Counted
  <1>0. PICK n \in Nat : \E r \in Ranks(n) : Ranked(r) /\ Sorted(r)
    BY DEF EbuildsInv
  <1>16. PICK r \in Ranks(n) : Ranked(r) /\ Sorted(r)
    BY <1>0
  <1>17. \E n2 \in Nat : \E r2 \in Ranks(n2) : Ranked(r2)' /\ Sorted(r2)'
    <2> DEFINE r2 == [x \in Ebuild |-> IF x = e THEN 0 ELSE r[x] + 1]
    <2>1. /\ \A x \in Ebuild : r[x] \in 0 .. n
          /\ n + 1 \in Nat
      BY DEF Ranks
    <2>2. r2 \in Ranks(n + 1)
      BY <2>1 DEF Ranks
    <2>3. r2[e] = 0 /\ \A x \in InUse : r2[x] = r[x] + 1 /\ r[x] \in Nat
      BY <1>5, <2>1
    <2> HIDE DEF r2
    <2>4. Ranked(r2)'
      <3>1. ASSUME NEW x \in InUse', older'[x] # NULL
            PROVE  r2[older'[x]] < r2[x]
        <4>1. x \in InUse /\ older'[x] = older[x] /\ older[x] \in InUse
          BY <1>1, <1>3, <1>4, <1>5, <3>1 DEF Shape, Links
        <4> QED
          BY <1>16, <2>3, <3>1, <4>1 DEF Ranked
      <3>2. ASSUME NEW x \in InUse', NEW y \in InUse', r2[x] = r2[y]
            PROVE  x = y
        BY <1>3, <1>16, <2>3, <3>2 DEF Ranked
      <3> QED
        BY <3>1, <3>2 DEF Ranked
    <2>5. Sorted(r2)'
      <3>1. ASSUME NEW p \in packages, OrderedVersions({version[x] : x \in Members(p)})',
                   NEW x \in Members(p), NEW y \in Members(p), r2[y] < r2[x]
            PROVE  Compare(version'[y], version'[x]) <= 0
        <4>1. x \in InUse /\ y \in InUse /\ version'[x] = version[x] /\ version'[y] = version[y]
              /\ r[y] < r[x]
          BY <1>4, <1>5, <2>3, <3>1 DEF Members
        <4>2. {version'[z] : z \in Members(p)'} = {version[z] : z \in Members(p)}
          <5>1. \A z \in Members(p) : version'[z] = version[z]
            BY <1>4, <1>5 DEF Members
          <5> QED
            BY <1>9, <5>1
        <4>3. OrderedVersions({version[z] : z \in Members(p)})
          BY <3>1, <4>2 DEF OrderedVersions
        <4> QED
          BY <1>16, <3>1, <4>1, <4>3 DEF Sorted
      <3> QED
        BY <1>4, <1>9, <3>1 DEF Sorted
    <2> QED
      BY <2>1, <2>2, <2>4, <2>5
  <1> QED
    BY <1>10, <1>11, <1>12, <1>13, <1>14, <1>15, <1>17 DEF EbuildsInv, Shape, Ranks

\* What match_atom returns is on the list.
LEMMA MatchOnList ==
    ASSUME ObjectAssumption, EbuildsInv, NEW p \in packages, NEW atom, Match(p, atom) # NULL
    PROVE  Match(p, atom) \in InUse
  <1>0. PICK n \in Nat : \E r \in Ranks(n) : Ranked(r) /\ Sorted(r)
    BY DEF EbuildsInv
  <1>1. PICK r \in Ranks(n) : Ranked(r) /\ Sorted(r)
    BY <1>0
  <1> DEFINE s == List(p)
             stop == {i \in DOMAIN s : Meets(s[i], atom) \/ GivesUp(s[i], atom)}
  <1>2. Listed(s, p, r)
    BY <1>1, ListIs DEF EbuildsInv
  <1>3. s \in Seq(InUse) /\ DOMAIN s = 1 .. Len(s) /\ \A i \in 1 .. Len(s) : s[i] \in InUse
    BY <1>2 DEF Listed
  <1> HIDE DEF s
  <1>4. Match(p, atom) = IF stop = {} THEN NULL
                         ELSE IF Meets(s[FirstOf(stop)], atom) THEN s[FirstOf(stop)] ELSE NULL
    BY DEF Match, FirstOf, s
  <1>5. stop \subseteq Nat /\ stop # {}
    BY <1>3, <1>4
  <1>6. FirstOf(stop) \in stop
    <2> HIDE DEF stop
    <2> QED
      BY <1>5, FirstIn
  <1> QED
    BY <1>3, <1>4, <1>6

\* Reference counts, references of the program and the answer are all that change.
LEMMA CountsOnly ==
    ASSUME EbuildsInv, UNCHANGED <<packages, ebuilds, version, older, package>>, TypeOK', Counted'
    PROVE  EbuildsInv'
  <1>1. InUse' = InUse
    BY DEF InUse
  <1>2. \A p : Members(p)' = Members(p)
    BY <1>1 DEF Members
  <1>3. Links' /\ Heads' /\ OnePointer' /\ Pointed'
    BY <1>1 DEF EbuildsInv, Shape, Links, Heads, OnePointer, Pointed
  <1>4. PICK n \in Nat : \E r \in Ranks(n) : Ranked(r) /\ Sorted(r)
    BY DEF EbuildsInv
  <1>5. PICK r \in Ranks(n) : Ranked(r) /\ Sorted(r)
    BY <1>4
  <1>6. Ranked(r)'
    BY <1>1, <1>5 DEF Ranked
  <1>7. Sorted(r)'
    <2>1. ASSUME NEW p \in packages
          PROVE  {version'[x] : x \in Members(p)'} = {version[x] : x \in Members(p)}
      BY <1>2
    <2>2. \A p \in packages : OrderedVersions({version[x] : x \in Members(p)})'
                                => OrderedVersions({version[x] : x \in Members(p)})
      BY <2>1 DEF OrderedVersions
    <2> QED
      BY <1>2, <1>5, <2>2 DEF Sorted
  <1> QED
    BY <1>3, <1>6, <1>7 DEF EbuildsInv, Shape, Ranks

LEMMA MatchStep ==
    ASSUME ObjectAssumption, EbuildsInv, NEW p \in Package, NEW atom \in Atoms, MatchAtom(p, atom)
    PROVE  EbuildsInv'
  <1> DEFINE e == Match(p, atom)
  <1>1. p \in packages /\ answer' = e /\ TypeOK /\ Counted
    BY DEF MatchAtom, EbuildsInv, Shape
  <1>2. UNCHANGED <<packages, ebuilds, version, package_key, older, package>>
    BY DEF MatchAtom
  <1>3. InUse' = InUse /\ \A x : Has(x)' = Has(x)
    BY <1>2 DEF InUse, Has
  <1>4. CASE e = NULL
    <2>1. UNCHANGED <<refs, held>> /\ answer' = NULL
      BY <1>1, <1>4 DEF MatchAtom
    <2>2. TypeOK'
      BY <1>1, <1>2, <2>1 DEF TypeOK
    <2>3. Counted'
      BY <1>1, <1>3, <2>1 DEF Counted
    <2> QED
      BY <1>2, <2>2, <2>3, CountsOnly
  <1>5. CASE e # NULL
    <2>1. e \in InUse /\ e \in Ebuild
      BY <1>1, <1>5, MatchOnList, InUseEbuild
    <2> HIDE DEF e
    <2>2. /\ held[e] < MaxHeld
          /\ refs' = [refs EXCEPT ![e] = @ + 1]
          /\ held' = [held EXCEPT ![e] = @ + 1]
      BY <1>1, <1>5 DEF MatchAtom, e
    <2>3. /\ refs[e] \in Nat /\ held[e] \in 0 .. MaxHeld /\ MaxHeld \in Nat
          /\ held[e] + 1 \in 0 .. MaxHeld /\ refs[e] + 1 \in Nat
      BY <1>1, <2>1, <2>2 DEF TypeOK, ObjectAssumption
    <2>4. TypeOK'
      <3>1. refs' \in [Ebuild -> Nat] /\ held' \in [Ebuild -> 0 .. MaxHeld]
        BY <1>1, <2>1, <2>2, <2>3 DEF TypeOK
      <3> QED
        BY <1>1, <1>2, <2>1, <3>1 DEF TypeOK
    <2>5. Counted'
      BY <1>1, <1>3, <2>1, <2>2, <2>3 DEF Counted, TypeOK
    <2> QED
      BY <1>2, <2>4, <2>5, CountsOnly
  <1> QED
    BY <1>4, <1>5

-----------------------------------------------------------------------------
(* An ebuild is added to a package.                                        *)

\* The list s of p takes e between its k-th ebuild and `current'.
Spliced(p, e, s, k, current) ==
    /\ k \in 0 .. Len(s) /\ current = IF k = Len(s) THEN NULL ELSE s[k + 1]
    /\ IF k = 0
       THEN /\ ebuilds' = [ebuilds EXCEPT ![p] = e]
            /\ older' = [older EXCEPT ![e] = current]
       ELSE /\ older' = [older EXCEPT ![e] = current, ![s[k]] = e]
            /\ UNCHANGED ebuilds
    /\ refs' = [refs EXCEPT ![e] = @ + 1]
    /\ package' = [package EXCEPT ![e] = p]
    /\ answer' = NULL
    /\ UNCHANGED <<packages, version, package_key, held>>

\* What add_ebuild has before it, if it is not refused: e is in use, but in no list.
Addable(p, e, s, r) ==
    /\ p \in packages /\ p \in Package /\ p # NULL
    /\ e \in InUse /\ e \in Ebuild /\ e # NULL /\ package[e] = NULL /\ older[e] = NULL /\ ~Has(e)
    /\ Listed(s, p, r)

\* What leads where afterwards.
Leads(p, e, s, k, current) ==
    /\ InUse' = InUse /\ packages' = packages
    /\ older'[e] = current /\ package'[e] = p
    /\ \A x \in InUse \ {e} : package'[x] = package[x] /\ package[x] = package'[x]
    /\ current # NULL => current \in Members(p) \ {e}
    /\ IF k = 0
       THEN /\ ebuilds[p] = current /\ ebuilds'[p] = e
            /\ \A q \in packages \ {p} : ebuilds'[q] = ebuilds[q]
            /\ \A x \in InUse \ {e} : older'[x] = older[x]
       ELSE /\ ebuilds' = ebuilds
            /\ s[k] \in Members(p) \ {e} /\ older[s[k]] = current /\ older'[s[k]] = e
            /\ \A x \in InUse \ {e, s[k]} : older'[x] = older[x]

LEMMA LeadsAfter ==
    ASSUME ObjectAssumption, Shape, NEW r, NEW p, NEW e, NEW s, NEW k, NEW current,
           Addable(p, e, s, r), Spliced(p, e, s, k, current)
    PROVE  Leads(p, e, s, k, current)
  <1>1. /\ s \in Seq(InUse) /\ Len(s) \in Nat /\ k \in 0 .. Len(s)
        /\ \A i \in 1 .. Len(s) : s[i] \in Members(p) /\ s[i] \in InUse /\ s[i] \in Ebuild
        /\ \A i \in 1 .. Len(s) - 1 : older[s[i]] = s[i + 1]
        /\ s # <<>> => older[s[Len(s)]] = NULL
        /\ ebuilds[p] = IF s = <<>> THEN NULL ELSE s[1]
        /\ s = <<>> <=> Len(s) = 0
    BY EmptySeq, InUseEbuild DEF Addable, Spliced, Listed
  <1>2. /\ p \in packages /\ p \in Package /\ p # NULL
        /\ e \in InUse /\ e \in Ebuild /\ e # NULL /\ package[e] = NULL /\ older[e] = NULL
        /\ TypeOK
    BY DEF Addable, Shape
  <1>3. InUse' = InUse /\ packages' = packages
    BY DEF Spliced, InUse
  <1>4. \A i \in 1 .. Len(s) : s[i] # e /\ s[i] \in Members(p) \ {e}
    BY <1>1, <1>2 DEF Members
  <1>5. \A x \in InUse : x \in Ebuild
    BY InUseEbuild
  <1>6. package'[e] = p /\ \A x \in InUse \ {e} : package'[x] = package[x]
    BY <1>2, <1>5 DEF Spliced, TypeOK
  <1>7. current = IF k = Len(s) THEN NULL ELSE s[k + 1]
    BY DEF Spliced
  <1>8. current # NULL => current \in Members(p) \ {e}
    <2>1. k # Len(s) => k + 1 \in 1 .. Len(s)
      BY <1>1
    <2> QED
      BY <1>4, <1>7, <2>1
  <1>9. CASE k = 0
    <2>1. ebuilds' = [ebuilds EXCEPT ![p] = e] /\ older' = [older EXCEPT ![e] = current]
      BY <1>9 DEF Spliced
    <2>2. ebuilds[p] = current
      BY <1>1, <1>7, <1>9
    <2>3. older'[e] = current /\ \A x \in InUse \ {e} : older'[x] = older[x]
      BY <1>2, <1>5, <2>1 DEF TypeOK
    <2>4. ebuilds'[p] = e /\ \A q \in packages \ {p} : ebuilds'[q] = ebuilds[q]
      BY <1>2, <2>1 DEF TypeOK
    <2> QED
      BY <1>3, <1>6, <1>8, <1>9, <2>2, <2>3, <2>4 DEF Leads
  <1>10. CASE k # 0
    <2>1. ebuilds' = ebuilds /\ older' = [older EXCEPT ![e] = current, ![s[k]] = e]
      BY <1>10 DEF Spliced
    <2>2. k \in 1 .. Len(s) /\ s[k] \in Members(p) \ {e} /\ s[k] \in Ebuild /\ s[k] # e
      BY <1>1, <1>4, <1>10
    <2>3. older[s[k]] = current
      <3>1. CASE k = Len(s)
        BY <1>1, <1>7, <2>2, <3>1
      <3>2. CASE k # Len(s)
        <4>1. k \in 1 .. Len(s) - 1
          BY <1>1, <2>2, <3>2
        <4> QED
          BY <1>1, <1>7, <3>2, <4>1
      <3> QED
        BY <3>1, <3>2
    <2>4. older'[e] = current /\ older'[s[k]] = e /\ \A x \in InUse \ {e, s[k]} : older'[x] = older[x]
      BY <1>2, <1>5, <2>1, <2>2 DEF TypeOK
    <2> QED
      BY <1>3, <1>6, <1>8, <1>10, <2>1, <2>2, <2>3, <2>4 DEF Leads
  <1> QED
    BY <1>9, <1>10

LEMMA AddShape ==
    ASSUME ObjectAssumption, Shape, NEW r, NEW p, NEW e, NEW s, NEW k, NEW current,
           Addable(p, e, s, r), Spliced(p, e, s, k, current)
    PROVE  Shape'
  <1>1. Leads(p, e, s, k, current)
    BY LeadsAfter
  <1>2. /\ InUse' = InUse /\ packages' = packages
        /\ older'[e] = current /\ package'[e] = p
        /\ \A x \in InUse \ {e} : package'[x] = package[x]
    BY <1>1 DEF Leads
  <1>3. current # NULL => current \in InUse /\ current # e /\ package[current] = p
    BY <1>1 DEF Leads, Members
  <1>4. /\ p \in packages /\ p \in Package /\ p # NULL
        /\ e \in InUse /\ e \in Ebuild /\ e # NULL /\ package[e] = NULL /\ older[e] = NULL
        /\ \A q \in packages : ebuilds[q] # e
        /\ \A y \in InUse : older[y] # e
    BY DEF Addable, Has
  <1>5. \A x \in InUse : x \in Ebuild /\ x # NULL
    BY InUseEbuild
  <1>6. TypeOK /\ Links /\ Heads /\ OnePointer /\ Pointed /\ Counted
    BY DEF Shape
  <1>7. TypeOK'
    <2>1. older' \in [Ebuild -> Ebuild \cup {NULL}] /\ ebuilds' \in [Package -> Ebuild \cup {NULL}]
      <3>1. current \in Ebuild \cup {NULL}
        BY <1>3, <1>5
      <3>2. ebuilds \in [Package -> Ebuild \cup {NULL}] /\ older \in [Ebuild -> Ebuild \cup {NULL}]
        BY <1>6 DEF TypeOK
      <3>3. ebuilds' \in [Package -> Ebuild \cup {NULL}]
        BY <1>4, <3>2 DEF Spliced
      <3>4. older' \in [Ebuild -> Ebuild \cup {NULL}]
        BY <1>4, <3>1, <3>2 DEF Spliced
      <3> QED
        BY <3>3, <3>4
    <2>2. package' \in [Ebuild -> Package \cup {NULL}] /\ refs' \in [Ebuild -> Nat]
      BY <1>4, <1>6 DEF Spliced, TypeOK
    <2> QED
      BY <1>6, <2>1, <2>2 DEF Spliced, TypeOK
  <1>8. ASSUME k = 0
        PROVE  /\ Links' /\ Heads' /\ OnePointer' /\ Pointed'
               /\ \A x \in Ebuild : Has(x)' <=> (x = e \/ Has(x))
    <2>1. /\ ebuilds[p] = current /\ ebuilds'[p] = e
          /\ \A q \in packages \ {p} : ebuilds'[q] = ebuilds[q]
          /\ \A x \in InUse \ {e} : older'[x] = older[x]
      BY <1>1, <1>8 DEF Leads
    <2>2. Links'
      BY <1>2, <1>3, <1>4, <1>5, <1>6, <2>1 DEF Links
    <2>3. Heads'
      BY <1>2, <1>4, <1>5, <1>6, <2>1 DEF Heads
    <2>4. OnePointer'
      <3>1. \A x \in InUse : older[x] # NULL => older[x] # current
        BY <1>4, <1>6, <2>1 DEF OnePointer
      <3>2. current # NULL => \A q \in packages \ {p} : ebuilds[q] # current
        BY <1>3, <1>6 DEF Heads
      <3> QED
        BY <1>2, <1>3, <1>4, <1>5, <1>6, <2>1, <3>1, <3>2 DEF OnePointer
    <2>5. Pointed'
      BY <1>2, <1>3, <1>4, <1>5, <1>6, <2>1 DEF Pointed
    <2>6. \A x \in Ebuild : Has(x)' <=> (x = e \/ Has(x))
      BY <1>2, <1>3, <1>4, <1>5, <2>1 DEF Has, ObjectAssumption
    <2> QED
      BY <2>2, <2>3, <2>4, <2>5, <2>6
  <1>9. ASSUME k # 0
        PROVE  /\ Links' /\ Heads' /\ OnePointer' /\ Pointed'
               /\ \A x \in Ebuild : Has(x)' <=> (x = e \/ Has(x))
    <2> DEFINE y == s[k]
    <2>1. /\ ebuilds' = ebuilds /\ y \in InUse /\ y # e /\ package[y] = p
          /\ older[y] = current /\ older'[y] = e
          /\ \A x \in InUse \ {e, y} : older'[x] = older[x]
      BY <1>1, <1>9 DEF Leads, Members
    <2> HIDE DEF y
    <2>2. Links'
      BY <1>2, <1>3, <1>4, <1>5, <1>6, <2>1 DEF Links
    <2>3. Heads'
      BY <1>2, <1>4, <1>5, <1>6, <2>1 DEF Heads
    <2>4. OnePointer'
      <3>1. \A x \in InUse \ {y} : older[x] # NULL => older[x] # current
        BY <1>6, <2>1 DEF OnePointer
      <3>2. current # NULL => \A q \in packages : ebuilds[q] # current
        BY <1>6, <2>1 DEF OnePointer
      <3> QED
        BY <1>2, <1>3, <1>4, <1>5, <1>6, <2>1, <3>1, <3>2 DEF OnePointer
    <2>5. Pointed'
      BY <1>2, <1>3, <1>4, <1>5, <1>6, <2>1 DEF Pointed
    <2>6. \A x \in Ebuild : Has(x)' <=> (x = e \/ Has(x))
      BY <1>2, <1>3, <1>4, <1>5, <2>1 DEF Has, ObjectAssumption
    <2> QED
      BY <2>2, <2>3, <2>4, <2>5, <2>6
  <1>10. /\ Links' /\ Heads' /\ OnePointer' /\ Pointed'
         /\ \A x \in Ebuild : Has(x)' <=> (x = e \/ Has(x))
    <2>1. CASE k = 0
      BY <1>8, <2>1
    <2>2. CASE k # 0
      BY <1>9, <2>2
    <2> QED
      BY <2>1, <2>2
  <1>11. Counted'
    <2>1. /\ refs'[e] = refs[e] + 1 /\ held' = held
          /\ \A x \in Ebuild \ {e} : refs'[x] = refs[x]
          /\ refs[e] \in Nat
      BY <1>4, <1>6 DEF Spliced, TypeOK
    <2>2. ~Has(e)
      BY DEF Addable
    <2>3. \A x \in Ebuild : refs[x] \in Nat /\ held[x] \in Nat
      BY <1>6 DEF TypeOK
    <2> QED
      BY <1>2, <1>4, <1>6, <1>10, <2>1, <2>2, <2>3 DEF Counted
  <1> QED
    BY <1>7, <1>10, <1>11 DEF Shape

\* The list's ebuilds that are not older come before, and the next one is older.
Split(e, s, k) ==
    /\ k \in 0 .. Len(s)
    /\ \A i \in 1 .. k : Compare(version[e], version[s[i]]) <= 0
    /\ k < Len(s) => Compare(version[s[k + 1]], version[e]) <= 0

LEMMA Versioned ==
    ASSUME VersionAssumption, TypeOK
    PROVE  \A x \in InUse : version[x] \in Version /\ version[x] # NULL
  BY DEF VersionAssumption, TypeOK, InUse

LEMMA PassedSplits ==
    ASSUME IntAssumption, VersionAssumption, TypeOK, NEW e \in InUse, NEW s \in Seq(InUse)
    PROVE  Split(e, s, Cardinality(Passed(s, version[e])))
  <1> DEFINE S == Passed(s, version[e])
             k == Cardinality(S)
  <1>1. Len(s) \in Nat /\ DOMAIN s = 1 .. Len(s) /\ \A i \in 1 .. Len(s) : s[i] \in InUse
    OBVIOUS
  <1>2. S = {i \in 1 .. Len(s) : \A j \in 1 .. i : Compare(version[e], version[s[j]]) <= 0}
    BY <1>1 DEF Passed
  <1>3. S \subseteq 1 .. Len(s) /\ \A i \in S : \A j \in 1 .. i : j \in S
    <2>1. S \subseteq 1 .. Len(s)
      BY <1>2
    <2>2. ASSUME NEW i \in S, NEW j \in 1 .. i
          PROVE  j \in S
      <3>1. i \in 1 .. Len(s) /\ j \in 1 .. Len(s) /\ 1 .. j \subseteq 1 .. i
        BY <1>1, <2>1
      <3> QED
        BY <1>2, <3>1
    <2> QED
      BY <2>1, <2>2
  <1> HIDE DEF S
  <1>4. k \in 0 .. Len(s) /\ S = 1 .. k
    BY <1>1, <1>3, Prefix
  <1> HIDE DEF k
  <1>5. \A i \in 1 .. k : Compare(version[e], version[s[i]]) <= 0
    <2>1. ASSUME NEW i \in 1 .. k
          PROVE  Compare(version[e], version[s[i]]) <= 0
      <3>1. i \in S /\ i \in 1 .. i
        BY <1>1, <1>4
      <3> QED
        BY <1>2, <3>1
    <2> QED
      BY <2>1
  <1>6. ASSUME k < Len(s)
        PROVE  Compare(version[s[k + 1]], version[e]) <= 0
    <2>1. k + 1 \in 1 .. Len(s) /\ k + 1 \notin S /\ \A j \in 1 .. k + 1 : j = k + 1 \/ j \in 1 .. k
      BY <1>1, <1>4, <1>6
    <2>2. ~(Compare(version[e], version[s[k + 1]]) <= 0)
      BY <1>2, <1>5, <2>1
    <2> DEFINE u == version[e]
               w == version[s[k + 1]]
    <2>3. u \in Version /\ u # NULL /\ w \in Version /\ w # NULL
      BY <1>1, <2>1, Versioned
    <2> HIDE DEF u, w
    <2>4. Compare(u, w) \in Int /\ Compare(w, u) \in Int /\ (Compare(u, w) > 0 => Compare(w, u) < 0)
      BY <2>3, CompareTurned
    <2>5. ~(Compare(u, w) <= 0)
      BY <2>2 DEF u, w
    <2>6. Compare(w, u) <= 0
      BY <2>4, <2>5
    <2> QED
      BY <2>6 DEF u, w
  <1> QED
    BY <1>4, <1>5, <1>6 DEF Split, k, S

\* The new ranks: between the old ones for e, below them at the list's end.
Between(n, r, e, current) ==
    [x \in Ebuild |-> IF x = e THEN IF current = NULL THEN 1 ELSE 2 * r[current] + 3
                      ELSE 2 * r[x] + 2]

LEMMA BetweenRanks ==
    ASSUME ObjectAssumption, NEW n \in Nat, NEW r \in Ranks(n), NEW e \in InUse,
           NEW current, current # NULL => current \in InUse \ {e}
    PROVE  LET r2 == Between(n, r, e, current)
           IN  /\ r2 \in Ranks(2 * n + 3)
               /\ r2[e] = IF current = NULL THEN 1 ELSE 2 * r[current] + 3
               /\ \A x \in InUse \ {e} : r2[x] = 2 * r[x] + 2
               /\ \A x \in InUse : r[x] \in Nat
  <1>1. \A x \in InUse : x \in Ebuild
    BY InUseEbuild
  <1>2. \A x \in Ebuild : r[x] \in 0 .. n
    BY DEF Ranks
  <1>3. \A x \in Ebuild : (IF x = e THEN IF current = NULL THEN 1 ELSE 2 * r[current] + 3
                           ELSE 2 * r[x] + 2) \in 0 .. 2 * n + 3
    BY <1>1, <1>2
  <1> QED
    BY <1>1, <1>2, <1>3 DEF Between, Ranks

\* The new ranks of two ebuilds differ as the old ones do; e's is odd.
LEMMA OddEven ==
    ASSUME NEW a \in Nat, NEW b \in Nat
    PROVE  2 * a + 3 # 2 * b + 2 /\ (2 * a + 2 = 2 * b + 2 => a = b)
  OBVIOUS

LEMMA AddRanked ==
    ASSUME ObjectAssumption, Shape, NEW n \in Nat, NEW r \in Ranks(n), Ranked(r), NEW p, NEW e, NEW s,
           NEW k, NEW current, Addable(p, e, s, r), Spliced(p, e, s, k, current)
    PROVE  Ranked(Between(n, r, e, current))'
  <1> DEFINE r2 == Between(n, r, e, current)
  <1>1. Leads(p, e, s, k, current) /\ e \in InUse /\ e # NULL
    BY LeadsAfter DEF Addable
  <1>2. /\ InUse' = InUse /\ older'[e] = current
        /\ current # NULL => current \in InUse \ {e}
    BY <1>1 DEF Leads, Members
  <1>3. /\ r2[e] = IF current = NULL THEN 1 ELSE 2 * r[current] + 3
        /\ \A x \in InUse \ {e} : r2[x] = 2 * r[x] + 2
        /\ \A x \in InUse : r[x] \in Nat
    BY <1>1, <1>2, BetweenRanks
  <1> HIDE DEF r2
  <1>4. \A x \in InUse : older[x] # NULL => older[x] \in InUse /\ older[x] # e /\ r[older[x]] < r[x]
    BY DEF Shape, Links, Ranked, Addable, Has
  <1>5. ASSUME NEW x \in InUse, older'[x] # NULL
        PROVE  r2[older'[x]] < r2[x]
    <2>1. CASE x = e
      BY <1>2, <1>3, <1>5, <2>1
    <2>2. CASE x # e /\ older'[x] = older[x]
      BY <1>3, <1>4, <1>5, <2>2
    <2>3. CASE x # e /\ older'[x] # older[x]
      <3>1. k # 0 /\ x = s[k] /\ older[x] = current /\ older'[x] = e
        BY <1>1, <1>5, <2>3 DEF Leads
      <3> QED
        BY <1>2, <1>3, <1>4, <2>3, <3>1
    <2> QED
      BY <2>1, <2>2, <2>3
  <1>6. ASSUME NEW x \in InUse, NEW y \in InUse, r2[x] = r2[y]
        PROVE  x = y
    <2>1. CASE x # e /\ y # e
      <3>1. r[x] = r[y]
        <4>1. 2 * r[x] + 2 = 2 * r[y] + 2 /\ r[x] \in Nat /\ r[y] \in Nat
          BY <1>3, <1>6, <2>1
        <4> QED
          BY <4>1, OddEven
      <3> QED
        BY <3>1 DEF Ranked
    <2>2. \A z \in InUse \ {e} : r2[z] # r2[e]
      <3>1. CASE current = NULL
        BY <1>3, <3>1
      <3>2. CASE current # NULL
        BY <1>2, <1>3, <3>2, OddEven
      <3> QED
        BY <3>1, <3>2
    <2> QED
      BY <1>6, <2>1, <2>2
  <1>7. Ranked(r2)'
    BY <1>2, <1>5, <1>6 DEF Ranked
  <1> QED
    BY <1>7 DEF r2

LEMMA AddSorted ==
    ASSUME ObjectAssumption, IntAssumption, VersionAssumption, Shape,
           NEW n \in Nat, NEW r \in Ranks(n), Ranked(r), Sorted(r), NEW p, NEW e, NEW s,
           NEW k, NEW current, Addable(p, e, s, r), Spliced(p, e, s, k, current), Split(e, s, k)
    PROVE  Sorted(Between(n, r, e, current))'
  <1> DEFINE r2 == Between(n, r, e, current)
  <1>1. Leads(p, e, s, k, current) /\ e \in InUse /\ e # NULL /\ package[e] = NULL /\ p \in packages
    BY LeadsAfter DEF Addable
  <1>2. /\ InUse' = InUse /\ packages' = packages /\ version' = version
        /\ current # NULL => current \in InUse \ {e}
        /\ package'[e] = p /\ \A x \in InUse \ {e} : package'[x] = package[x]
    BY <1>1 DEF Leads, Members, Spliced
  <1>3. /\ r2[e] = IF current = NULL THEN 1 ELSE 2 * r[current] + 3
        /\ \A x \in InUse \ {e} : r2[x] = 2 * r[x] + 2
        /\ \A x \in InUse : r[x] \in Nat
    BY <1>1, <1>2, BetweenRanks
  <1> HIDE DEF r2
  <1>4. \A q \in packages : q # NULL
    BY DEF Shape, TypeOK, ObjectAssumption
  <1>5. /\ \A q \in packages \ {p} : Members(q)' = Members(q)
        /\ Members(p)' = Members(p) \cup {e}
        /\ \A q \in packages : e \notin Members(q)
    BY <1>1, <1>2, <1>4 DEF Members
  <1>6. ASSUME NEW q \in packages, NEW x \in Members(q), NEW y \in Members(q), r2[y] < r2[x],
               OrderedVersions({version[z] : z \in Members(q)})
        PROVE  Compare(version[y], version[x]) <= 0
    <2>1. x \in InUse \ {e} /\ y \in InUse \ {e}
      BY <1>5 DEF Members
    <2>2. r[y] < r[x]
      BY <1>3, <1>6, <2>1
    <2> QED
      BY <1>6, <2>2 DEF Sorted
  <1>7. /\ s \in Seq(InUse) /\ Len(s) \in Nat /\ k \in 0 .. Len(s)
        /\ current = IF k = Len(s) THEN NULL ELSE s[k + 1]
        /\ \A i \in 1 .. Len(s) : s[i] \in InUse \ {e} /\ s[i] # NULL
        /\ \A x \in Members(p) : \E i \in 1 .. Len(s) : s[i] = x
        /\ \A i, j \in 1 .. Len(s) : i < j => r[s[j]] < r[s[i]]
    <2>1. Listed(s, p, r) /\ k \in 0 .. Len(s) /\ current = IF k = Len(s) THEN NULL ELSE s[k + 1]
      BY DEF Addable, Spliced
    <2>2. \A x \in Members(p) : x \in InUse \ {e} /\ x # NULL
      BY <1>1, <1>5, InUseEbuild DEF Members
    <2> QED
      BY <2>1, <2>2 DEF Listed
  <1>8. /\ \A i \in 1 .. k : Compare(version[e], version[s[i]]) <= 0
        /\ k < Len(s) => Compare(version[s[k + 1]], version[e]) <= 0
    BY DEF Split
  <1>9. k < Len(s) => /\ current = s[k + 1] /\ current # NULL /\ k + 1 \in 1 .. Len(s)
                      /\ current \in Members(p)
    <2>1. k < Len(s) => current = s[k + 1] /\ current # NULL /\ k + 1 \in 1 .. Len(s)
      BY <1>7
    <2> QED
      BY <1>1, <2>1 DEF Leads
  <1>10. k = Len(s) => current = NULL
    BY <1>7
  <1> HIDE DEF OrderedVersions
  <1>11. ASSUME NEW x \in Members(p), r2[e] < r2[x]
         PROVE  Compare(version[e], version[x]) <= 0
    <2>1. PICK i \in 1 .. Len(s) : s[i] = x
      BY <1>7
    <2>2. x \in InUse \ {e} /\ r2[x] = 2 * r[x] + 2 /\ r[x] \in Nat
      BY <1>3, <1>5, <1>1 DEF Members
    <2>3. CASE k = Len(s)
      BY <1>8, <2>1, <2>3
    <2>4. CASE k < Len(s)
      <3>1. r[current] < r[x] /\ r[current] \in Nat
        <4>1. r2[e] = 2 * r[current] + 3 /\ r[current] \in Nat
          BY <1>2, <1>3, <1>9, <2>4
        <4> QED
          BY <1>11, <2>2, <4>1
      <3>2. i \in 1 .. k
        <4>1. ~(k + 1 < i)
          <5> SUFFICES ASSUME k + 1 < i
                       PROVE  FALSE
            OBVIOUS
          <5>1. r[s[i]] < r[s[k + 1]]
            BY <1>7, <1>9, <2>4
          <5> QED
            BY <1>9, <2>1, <2>2, <2>4, <3>1, <5>1
        <4>2. k + 1 # i
          BY <1>9, <2>1, <2>2, <2>4, <3>1
        <4> QED
          BY <1>7, <4>1, <4>2
      <3> QED
        BY <1>8, <2>1, <3>2
    <2> QED
      BY <1>7, <2>3, <2>4
  <1>12. ASSUME NEW y \in Members(p), r2[y] < r2[e],
                OrderedVersions({version[z] : z \in Members(p) \cup {e}})
         PROVE  Compare(version[y], version[e]) <= 0
    <2>1. y \in InUse \ {e} /\ r2[y] = 2 * r[y] + 2 /\ r[y] \in Nat
      BY <1>3, <1>5, <1>1 DEF Members
    <2>2. k < Len(s)
      BY <1>3, <1>7, <1>10, <1>12, <2>1
    <2>3. r2[e] = 2 * r[current] + 3 /\ r[current] \in Nat
      BY <1>2, <1>3, <1>9, <2>2
    <2>4. r[y] <= r[current]
      BY <1>12, <2>1, <2>3
    <2>5. Compare(version[current], version[e]) <= 0
      BY <1>8, <1>9, <2>2
    <2>6. CASE r[y] = r[current]
      <3>1. y = current
        BY <1>2, <1>9, <2>1, <2>2, <2>6 DEF Ranked
      <3> QED
        BY <2>5, <3>1
    <2>7. CASE r[y] < r[current]
      <3>1. OrderedVersions({version[z] : z \in Members(p)})
        BY <1>12 DEF OrderedVersions
      <3>2. Compare(version[y], version[current]) <= 0
        BY <1>1, <1>9, <2>2, <2>7, <3>1 DEF Sorted
      <3>3. /\ version[y] \in {version[z] : z \in Members(p) \cup {e}}
            /\ version[current] \in {version[z] : z \in Members(p) \cup {e}}
            /\ version[e] \in {version[z] : z \in Members(p) \cup {e}}
        BY <1>9, <2>2
      <3> QED
        BY <1>12, <2>5, <3>2, <3>3 DEF OrderedVersions
    <2> QED
      BY <2>1, <2>3, <2>4, <2>6, <2>7
  <1>13. ASSUME NEW q \in packages', OrderedVersions({version[z] : z \in Members(q)})',
                NEW x \in Members(q)', NEW y \in Members(q)', r2[y] < r2[x]
         PROVE  Compare(version[y], version[x]) <= 0
    <2>1. CASE q # p
      <3>1. Members(q)' = Members(q) /\ q \in packages
        BY <1>2, <1>5, <2>1
      <3>2. OrderedVersions({version[z] : z \in Members(q)})
        BY <1>2, <1>13, <3>1 DEF OrderedVersions
      <3> QED
        BY <1>6, <1>13, <3>1, <3>2
    <2>2. CASE q = p
      <3>1. Members(q)' = Members(p) \cup {e}
        BY <1>5, <2>2
      <3>2. OrderedVersions({version[z] : z \in Members(p) \cup {e}})
        BY <1>2, <1>13, <3>1 DEF OrderedVersions
      <3>3. OrderedVersions({version[z] : z \in Members(p)})
        BY <3>2 DEF OrderedVersions
      <3>4. CASE x # e /\ y # e
        BY <1>1, <1>6, <1>13, <3>1, <3>3, <3>4
      <3>5. CASE x = e /\ y # e
        BY <1>12, <1>13, <3>1, <3>2, <3>5
      <3>6. CASE x # e /\ y = e
        BY <1>11, <1>13, <3>1, <3>6
      <3>7. CASE x = e /\ y = e
        <4>1. r2[e] \in Nat
          BY <1>2, <1>3
        <4> QED
          BY <1>13, <3>7, <4>1
      <3> QED
        BY <3>4, <3>5, <3>6, <3>7
    <2> QED
      BY <2>1, <2>2
  <1>14. Sorted(r2)'
    BY <1>2, <1>13 DEF Sorted
  <1> QED
    BY <1>14 DEF r2

LEMMA AddSpliced ==
    ASSUME ObjectAssumption, IntAssumption, VersionAssumption, Shape,
           NEW n \in Nat, NEW r \in Ranks(n), Ranked(r), Sorted(r), NEW p, NEW e, NEW s,
           NEW k, NEW current, Addable(p, e, s, r), Spliced(p, e, s, k, current), Split(e, s, k)
    PROVE  EbuildsInv'
  <1> DEFINE r2 == Between(n, r, e, current)
  <1>1. Shape'
    BY AddShape
  <1>2. r2 \in Ranks(2 * n + 3) /\ 2 * n + 3 \in Nat
    <2>1. e \in InUse /\ (current # NULL => current \in InUse \ {e})
      BY LeadsAfter DEF Leads, Members, Addable
    <2> QED
      BY <2>1, BetweenRanks
  <1>3. Ranked(r2)' /\ Sorted(r2)'
    BY AddRanked, AddSorted
  <1> HIDE DEF r2
  <1>4. \E m \in Nat : \E q \in Ranks(m) : Ranked(q)' /\ Sorted(q)'
    BY <1>2, <1>3
  <1> QED
    BY <1>1, <1>4 DEF EbuildsInv, Ranks

LEMMA AddStep ==
    ASSUME ObjectAssumption, IntAssumption, VersionAssumption, EbuildsInv,
           NEW p \in Package, NEW e \in Ebuild, AddEbuild(p, e)
    PROVE  EbuildsInv'
  <1> DEFINE s == List(p)
             k == Cardinality(Passed(s, version[e]))
             current == IF k = Len(s) THEN NULL ELSE s[k + 1]
             met == {s[i] : i \in {i \in DOMAIN s : i <= k + 1}}
  <1>1. /\ p \in packages /\ held[e] > 0 /\ UNCHANGED <<packages, version, package_key, held>>
        /\ TypeOK /\ Counted /\ Shape
    BY DEF AddEbuild, EbuildsInv, Shape
  <1>2. CASE package[e] # NULL \/ e \in met
    <2>1. answer' = "RuntimeError" /\ UNCHANGED <<ebuilds, older, package, refs>>
      BY <1>2 DEF AddEbuild
    <2>2. TypeOK'
      BY <1>1, <2>1 DEF TypeOK
    <2>3. Counted'
      BY <1>1, <2>1 DEF Counted, Has, InUse
    <2> QED
      BY <1>1, <2>1, <2>2, <2>3, CountsOnly
  <1>3. CASE ~(package[e] # NULL \/ e \in met)
    <2>1. /\ IF k = 0
             THEN /\ ebuilds' = [ebuilds EXCEPT ![p] = e]
                  /\ older' = [older EXCEPT ![e] = current]
             ELSE /\ older' = [older EXCEPT ![e] = current, ![s[k]] = e]
                  /\ UNCHANGED ebuilds
          /\ refs' = [refs EXCEPT ![e] = @ + 1]
          /\ package' = [package EXCEPT ![e] = p]
          /\ answer' = NULL
      BY <1>3 DEF AddEbuild
    <2>2. PICK n \in Nat : \E r \in Ranks(n) : Ranked(r) /\ Sorted(r)
      BY DEF EbuildsInv
    <2>3. PICK r \in Ranks(n) : Ranked(r) /\ Sorted(r)
      BY <2>2
    <2>4. Listed(s, p, r)
      BY <1>1, <2>3, ListIs
    <2>5. e \in InUse
      <3>1. refs[e] > 0
        BY <1>1 DEF TypeOK, Counted
      <3> QED
        BY <1>1, <3>1 DEF Counted
    <2> HIDE DEF s
    <2>6. Split(e, s, k)
      <3>1. s \in Seq(InUse)
        BY <2>4 DEF Listed
      <3> QED
        BY <1>1, <2>5, <3>1, PassedSplits
    <2> HIDE DEF k, current
    <2>7. current = IF k = Len(s) THEN NULL ELSE s[k + 1]
      BY DEF current
    <2>8. Spliced(p, e, s, k, current)
      BY <1>1, <2>1, <2>6, <2>7 DEF Spliced, Split
    <2>9. Addable(p, e, s, r)
      <3>1. p # NULL /\ e # NULL /\ package[e] = NULL
        BY <1>3, <2>5, InUseEbuild DEF ObjectAssumption
      <3>2. older[e] = NULL
        BY <1>1, <2>5, <3>1 DEF Shape, Links
      <3>3. ~Has(e)
        BY <1>1, <3>1, LedTo
      <3> QED
        BY <1>1, <2>4, <2>5, <3>1, <3>2, <3>3 DEF Addable
    <2> QED
      BY <1>1, <2>3, <2>6, <2>8, <2>9, AddSpliced
  <1> QED
    BY <1>2, <1>3

-----------------------------------------------------------------------------
(* An ebuild loses a reference.                                            *)

\* What a release frees, and the ebuild after it: a piece of e's list.
Freed(e, gone, next) ==
    /\ gone \subseteq InUse /\ next \subseteq InUse \ gone
    /\ \A x \in gone : refs[x] = 1
    /\ \A x \in next : refs[x] # 1
    /\ IF refs[e] = 1 THEN e \in gone /\ e \notin next ELSE gone = {} /\ next = {e}
    /\ \A x \in gone : older[x] # NULL => older[x] \in gone \cup next
    /\ \A x \in gone \cup next : x # e => \E y \in gone : older[y] = x
    /\ \A x \in gone \cup next : package[x] = package[e]

LEMMA OneEach ==
    ASSUME NEW g \in Nat, NEW s, g > 0 => 1 .. g \subseteq DOMAIN s,
           \A i, j \in 1 .. g : i < j => s[i] # s[j]
    PROVE  Cardinality({s[i] : i \in 1 .. g}) = g
  <1> DEFINE S == 1 .. g
             T == {s[i] : i \in S}
             f == [i \in S |-> s[i]]
  <1>1. IsFiniteSet(S) /\ Cardinality(S) = g
    <2>1. 1 \in Int /\ g \in Int
      OBVIOUS
    <2>2. IsFiniteSet(S) /\ Cardinality(S) = IF 1 > g THEN 0 ELSE g - 1 + 1
      BY <2>1, FS_Interval
    <2> QED
      BY <2>2
  <1>2. \A i, j \in S : s[i] = s[j] => i = j
    BY DEF S
  <1> HIDE DEF S
  <1>3. f \in [S -> T] /\ (\A a, b \in S : f[a] = f[b] => a = b) /\ (\A t \in T : \E a \in S : f[a] = t)
    BY <1>2
  <1>4. f \in Surjection(S, T) /\ f \in Injection(S, T)
    BY <1>3 DEF Surjection, Injection, IsInjective
  <1> HIDE DEF f, T
  <1>5. Cardinality(T) = Cardinality(S)
    BY <1>1, <1>4, FS_Surjection
  <1> QED
    BY <1>1, <1>5 DEF T, S

LEMMA SamePackage ==
    ASSUME ObjectAssumption, Shape, NEW r, NEW s, Down(s, r)
    PROVE  \A i \in 1 .. Len(s) : package[s[i]] = package[s[1]]
  <1>1. s \in Seq(InUse) /\ Len(s) \in Nat /\ \A i \in 1 .. Len(s) : s[i] \in InUse /\ s[i] # NULL
    BY InUseEbuild DEF Down
  <1> DEFINE T == {k \in Nat : k + 1 <= Len(s) => package[s[k + 1]] = package[s[1]]}
  <1>2. 0 \in T
    OBVIOUS
  <1>3. ASSUME NEW k \in Nat, k \in T
        PROVE  k + 1 \in T
    <2> SUFFICES ASSUME k + 1 + 1 <= Len(s)
                 PROVE  package[s[k + 1 + 1]] = package[s[1]]
      OBVIOUS
    <2>1. k + 1 <= Len(s) /\ k + 1 \in 1 .. Len(s) - 1 /\ k + 1 \in 1 .. Len(s) /\ k + 1 + 1 \in 1 .. Len(s)
      BY <1>1
    <2>2. package[s[k + 1]] = package[s[1]]
      BY <1>3, <2>1
    <2>3. older[s[k + 1]] = s[k + 1 + 1]
      BY <2>1 DEF Down
    <2> QED
      BY <1>1, <2>1, <2>2, <2>3 DEF Shape, Links
  <1> HIDE DEF T
  <1>4. Nat \subseteq T
    BY <1>2, <1>3, SetInduction
  <1>5. ASSUME NEW i \in 1 .. Len(s)
        PROVE  package[s[i]] = package[s[1]]
    <2>1. i - 1 \in T /\ i - 1 + 1 = i
      BY <1>4
    <2> QED
      BY <2>1 DEF T
  <1> QED
    BY <1>5

\* The effect of a release.
Released(e, h, gone, next) ==
    /\ version' = [x \in Ebuild |-> IF x \in gone THEN NULL ELSE version[x]]
    /\ refs' = [x \in Ebuild |-> IF x \in gone THEN 0
                                 ELSE IF x \in next THEN refs[x] - 1 ELSE refs[x]]
    /\ held' = [held EXCEPT ![e] = @ - h]

LEMMA ReleaseFrees ==
    ASSUME ObjectAssumption, Shape, NEW n \in Nat, NEW r \in Ranks(n), Ranked(r),
           NEW e \in InUse, NEW h, Release(e, h)
    PROVE  \E gone, next : Freed(e, gone, next) /\ Released(e, h, gone, next)
  <1>1. PICK s : Down(s, r) /\ s[1] = e
    BY Descends DEF Shape
  <1>2. Chain(e) = s
    <2>1. Chain(s[1]) = s
      BY <1>1, ChainIs DEF Shape
    <2> QED
      BY <1>1, <2>1
  <1>3. /\ s \in Seq(InUse) /\ Len(s) \in Nat /\ Len(s) >= 1 /\ DOMAIN s = 1 .. Len(s)
        /\ \A i \in 1 .. Len(s) : s[i] \in InUse /\ s[i] # NULL /\ package[s[i]] = package[e]
    BY <1>1, EmptySeq, InUseEbuild, SamePackage DEF Down
  <1>4. \A i, j \in 1 .. Len(s) : i < j => s[i] # s[j]
    <2>1. ASSUME NEW i \in 1 .. Len(s), NEW j \in 1 .. Len(s), i < j
          PROVE  s[i] # s[j]
      <3>1. r[s[j]] < r[s[i]] /\ s[i] \in Ebuild /\ r[s[i]] \in 0 .. n
        BY <1>1, <1>3, <2>1, InUseEbuild DEF Down, Ranks
      <3> QED
        BY <3>1
    <2> QED
      BY <2>1
  <1>5. \A i, j \in 1 .. Len(s) : s[i] = s[j] => i = j
    BY <1>3, <1>4
  <1> DEFINE I == {i \in DOMAIN s : \A j \in 1 .. i : refs[s[j]] = 1}
             gone == {s[i] : i \in I}
             next == {s[i] : i \in {i \in DOMAIN s : Cardinality(gone) + 1 = i}}
             g == Cardinality(I)
  <1>6. Released(e, h, gone, next)
    BY <1>2 DEF Release, Released
  <1>7. g \in 0 .. Len(s) /\ I = 1 .. g
    <2>1. I \subseteq 1 .. Len(s)
      BY <1>3
    <2>2. \A i \in I : \A j \in 1 .. i : j \in I
      <3>1. ASSUME NEW i \in I, NEW j \in 1 .. i
            PROVE  j \in I
        <4>1. i \in 1 .. Len(s) /\ j \in DOMAIN s /\ 1 .. j \subseteq 1 .. i
          BY <1>3, <2>1
        <4> QED
          BY <4>1
      <3> QED
        BY <3>1
    <2> HIDE DEF I
    <2> QED
      BY <1>3, <2>1, <2>2, Prefix
  <1>8. /\ \A i \in 1 .. g : refs[s[i]] = 1
        /\ g < Len(s) => refs[s[g + 1]] # 1
    <2>1. \A i \in I : i \in 1 .. i /\ refs[s[i]] = 1
      BY <1>3
    <2>2. ASSUME g < Len(s), refs[s[g + 1]] = 1
          PROVE  FALSE
      <3>1. g + 1 \in DOMAIN s /\ \A j \in 1 .. g + 1 : j \in 1 .. g \/ j = g + 1
        <4>1. g \in Nat /\ Len(s) \in Nat /\ g < Len(s) /\ DOMAIN s = 1 .. Len(s)
          BY <1>3, <1>7, <2>2
        <4> HIDE DEF g
        <4> QED
          BY <4>1
      <3>2. g + 1 \in I
        <4>1. \A j \in 1 .. g + 1 : refs[s[j]] = 1
          BY <1>7, <2>1, <2>2, <3>1
        <4> QED
          BY <3>1, <4>1
      <3> HIDE DEF I
      <3> QED
        BY <1>7, <3>2
    <2> HIDE DEF I
    <2> QED
      BY <1>7, <2>1, <2>2
  <1> HIDE DEF g
  <1>9. Cardinality(gone) = g
    <2>1. gone = {s[i] : i \in 1 .. g}
      BY <1>7
    <2>2. g \in Nat /\ (g > 0 => 1 .. g \subseteq DOMAIN s)
          /\ \A i, j \in 1 .. g : i < j => s[i] # s[j]
      BY <1>3, <1>4, <1>7
    <2> HIDE DEF gone
    <2> QED
      BY <2>1, <2>2, OneEach
  <1>10. /\ \A x : x \in gone <=> \E i \in 1 .. g : x = s[i]
         /\ \A x : x \in next <=> g < Len(s) /\ x = s[g + 1]
    <2>1. \A x : x \in gone <=> \E i \in 1 .. g : x = s[i]
      BY <1>7
    <2> HIDE DEF gone
    <2>2. \A x : x \in next <=> g < Len(s) /\ x = s[g + 1]
      BY <1>3, <1>7, <1>9
    <2> QED
      BY <2>1, <2>2
  <1> HIDE DEF gone, next, I
  <1>11. Freed(e, gone, next)
    <2>1. gone \subseteq InUse /\ next \subseteq InUse \ gone
      BY <1>3, <1>5, <1>7, <1>10
    <2>2. (\A x \in gone : refs[x] = 1) /\ (\A x \in next : refs[x] # 1)
      BY <1>8, <1>10
    <2>3. IF refs[e] = 1 THEN e \in gone /\ e \notin next ELSE gone = {} /\ next = {e}
      <3>1. CASE g = 0
        <4>1. g < Len(s) /\ s[g + 1] = e /\ gone = {}
          BY <1>1, <1>3, <1>10, <3>1
        <4> QED
          BY <1>8, <1>10, <4>1
      <3>2. CASE g # 0
        <4>1. 1 \in 1 .. g
          BY <1>7, <3>2
        <4>2. e \in gone
          BY <1>1, <1>10, <4>1
        <4> QED
          BY <1>1, <1>8, <2>1, <4>1, <4>2
      <3> QED
        BY <3>1, <3>2
    <2>4. \A i \in 1 .. g + 1 : i <= Len(s) => s[i] \in gone \cup next
      BY <1>7, <1>10
    <2>5. ASSUME NEW x \in gone, older[x] # NULL
          PROVE  older[x] \in gone \cup next
      <3>1. PICK i \in 1 .. g : x = s[i]
        BY <1>10
      <3>2. i # Len(s)
        BY <1>1, <2>5, <3>1 DEF Down
      <3>3. i \in 1 .. Len(s) - 1 /\ i + 1 \in 1 .. g + 1 /\ i + 1 <= Len(s)
        <4>1. g \in Nat /\ Len(s) \in Nat /\ g <= Len(s)
          BY <1>3, <1>7
        <4> QED
          BY <3>2, <4>1
      <3>4. older[x] = s[i + 1]
        BY <1>1, <3>1, <3>3 DEF Down
      <3> QED
        BY <2>4, <3>3, <3>4
    <2>6. ASSUME NEW x \in gone \cup next
          PROVE  \E i \in 1 .. g + 1 : i <= Len(s) /\ x = s[i]
      <3>1. CASE x \in gone
        BY <1>3, <1>7, <1>10, <3>1
      <3>2. CASE x \in next
        <4>1. g < Len(s) /\ x = s[g + 1]
          BY <1>10, <3>2
        <4> QED
          BY <1>3, <1>7, <4>1
      <3> QED
        BY <3>1, <3>2
    <2>7. ASSUME NEW x \in gone \cup next, x # e
          PROVE  \E y \in gone : older[y] = x
      <3>1. PICK i \in 1 .. g + 1 : i <= Len(s) /\ x = s[i]
        BY <2>6
      <3>2. i # 1
        BY <1>1, <2>7, <3>1
      <3>3. i - 1 \in 1 .. Len(s) - 1 /\ i - 1 \in 1 .. g /\ (i - 1) + 1 = i
        BY <1>3, <1>7, <3>1, <3>2
      <3>4. older[s[i - 1]] = x
        BY <1>1, <3>1, <3>3 DEF Down
      <3> QED
        BY <1>10, <3>3, <3>4
    <2>8. \A x \in gone \cup next : package[x] = package[e]
      <3>1. ASSUME NEW x \in gone \cup next
            PROVE  package[x] = package[e]
        <4>1. PICK i \in 1 .. g + 1 : i <= Len(s) /\ x = s[i]
          BY <2>6
        <4> QED
          BY <1>3, <1>7, <4>1
      <3> QED
        BY <3>1
    <2> QED
      BY <2>1, <2>2, <2>3, <2>5, <2>7, <2>8 DEF Freed
  <1> QED
    BY <1>6, <1>11

\* Nothing but the released reference led to e, if that was its last.
Unled(e) ==
    refs[e] = 1 => /\ package[e] \notin packages'
                   /\ \A q \in packages' : ebuilds[q] # e
                   /\ \A x \in InUse : older[x] # e
Recounted(e, h) ==
    refs[e] - 1 = (held[e] - h) + (IF (\E q \in packages' : ebuilds[q] = e)
                                      \/ \E x \in InUse : older[x] = e THEN 1 ELSE 0)

LEMMA ReleaseKeeps ==
    ASSUME ObjectAssumption, Shape, NEW n \in Nat, NEW r \in Ranks(n), Ranked(r), Sorted(r),
           NEW e \in InUse, NEW h \in 0 .. 1, h <= held[e],
           NEW gone, NEW next, Freed(e, gone, next), Released(e, h, gone, next),
           packages' \subseteq packages, UNCHANGED <<ebuilds, older, package>>, TypeOK,
           package_key' \in [Ebuild -> Package \cup {NULL}], answer' = NULL,
           \A q \in packages \ packages' : ebuilds[q] \in {e, NULL},
           Unled(e), Recounted(e, h)
    PROVE  EbuildsInv'
  <1>1. TypeOK /\ Links /\ Heads /\ OnePointer /\ Pointed /\ Counted
    BY DEF Shape
  <1>2. \A x \in InUse : x \in Ebuild /\ x # NULL
    BY InUseEbuild
  <1>3. /\ gone \subseteq InUse /\ next \subseteq InUse \ gone
        /\ \A x \in gone : refs[x] = 1
        /\ \A x \in next : refs[x] # 1
        /\ e \in gone => refs[e] = 1
        /\ e \in next => gone = {}
        /\ e \in gone \cup next
        /\ \A x \in gone : older[x] # NULL => older[x] \in gone \cup next
        /\ \A x \in gone \cup next : x # e => \E y \in gone : older[y] = x
        /\ \A x \in gone \cup next : package[x] = package[e]
        /\ gone # {} => refs[e] = 1
    BY DEF Freed
  <1>4. InUse' = InUse \ gone
    BY <1>1, <1>2, <1>3 DEF InUse, Released, TypeOK
  <1>5. \A x \in Ebuild : /\ refs[x] \in Nat /\ held[x] \in Nat
                          /\ refs'[x] = IF x \in gone THEN 0
                                        ELSE IF x \in next THEN refs[x] - 1 ELSE refs[x]
                          /\ held'[x] = IF x = e THEN held[x] - h ELSE held[x]
    BY <1>1 DEF Released, TypeOK
  <1>6. /\ ebuilds' = ebuilds /\ older' = older /\ package' = package /\ packages' \subseteq packages
        /\ \A x \in InUse : x \notin gone => version'[x] = version[x]
    BY <1>2 DEF Released
  <1>7. gone # {} => /\ package[e] \notin packages'
                     /\ \A q \in packages' : ebuilds[q] # e
                     /\ \A x \in InUse : older[x] # e
    BY <1>3 DEF Unled
  <1>8. \A x \in InUse \ {e} : \A q \in packages \ packages' : ebuilds[q] # x
    BY <1>2
  \* What was led to from a freed ebuild is led to no more, and all else is.
  <1>9. \A x \in gone \cup next : x # e => Has(x) /\ ~Has(x)'
    <2>1. ASSUME NEW x \in gone \cup next, x # e
          PROVE  Has(x) /\ ~Has(x)'
      <3>1. PICK y \in gone : older[y] = x
        BY <1>3, <2>1
      <3>2. x \in InUse /\ x # NULL /\ y \in InUse /\ older[y] # NULL
        BY <1>2, <1>3, <3>1
      <3>3. /\ \A z \in InUse : older[z] = x => z = y
            /\ \A q \in packages : ebuilds[q] # x
        BY <1>1, <3>1, <3>2 DEF OnePointer
      <3>4. Has(x)
        BY <3>1, <3>2 DEF Has
      <3>5. ~Has(x)'
        BY <1>4, <1>6, <3>1, <3>3 DEF Has
      <3> QED
        BY <3>4, <3>5
    <2> QED
      BY <2>1
  <1>10. \A x \in InUse \ (gone \cup next) : Has(x)' <=> Has(x)
    <2>1. ASSUME NEW x \in InUse \ (gone \cup next)
          PROVE  Has(x)' <=> Has(x)
      <3>1. x # e /\ x # NULL /\ \A y \in gone : older[y] # x
        BY <1>2, <1>3, <2>1
      <3>2. (\E q \in packages' : ebuilds[q] = x) <=> \E q \in packages : ebuilds[q] = x
        BY <1>6, <1>8, <2>1, <3>1
      <3> QED
        BY <1>4, <1>6, <3>1, <3>2 DEF Has
    <2> QED
      BY <2>1
  <1>11. e \in gone => ~Has(e)'
    BY <1>4, <1>6, <1>7 DEF Has
  <1>12. e \in next => (Has(e)' <=> (\E q \in packages' : ebuilds[q] = e) \/ \E x \in InUse : older[x] = e)
    BY <1>3, <1>4, <1>6 DEF Has
  <1>13. \A x \in Ebuild \ InUse : ~Has(x) /\ ~Has(x)'
    BY <1>1, <1>4, <1>6, LedTo DEF Has, ObjectAssumption, Links, Heads
  <1>14. Links'
    <2>1. ASSUME NEW x \in InUse \ gone, older[x] # NULL
          PROVE  older[x] \notin gone
      <3> SUFFICES ASSUME older[x] \in gone
                   PROVE  FALSE
        OBVIOUS
      <3>1. older[x] # e
        BY <1>7
      <3>2. PICK y \in gone : older[y] = older[x]
        BY <1>3, <3>1
      <3> QED
        BY <1>1, <1>3, <2>1, <3>2 DEF OnePointer
    <2> QED
      BY <1>1, <1>4, <1>6, <2>1 DEF Links
  <1>15. Heads'
    <2>1. ASSUME NEW q \in packages', ebuilds[q] # NULL
          PROVE  ebuilds[q] \notin gone
      <3> SUFFICES ASSUME ebuilds[q] \in gone
                   PROVE  FALSE
        OBVIOUS
      <3>1. ebuilds[q] # e
        BY <1>7
      <3>2. PICK y \in gone : older[y] = ebuilds[q]
        BY <1>3, <3>1
      <3> QED
        BY <1>1, <1>3, <1>6, <2>1, <3>2 DEF OnePointer
    <2> QED
      BY <1>1, <1>4, <1>6, <2>1 DEF Heads
  <1>16. OnePointer'
    BY <1>1, <1>4, <1>6 DEF OnePointer
  <1>17. Pointed'
    <2>1. ASSUME NEW x \in InUse \ gone, package[x] \in packages'
          PROVE  ebuilds[package[x]] = x \/ \E y \in InUse \ gone : older[y] = x
      <3>1. ebuilds[package[x]] = x \/ \E y \in InUse : older[y] = x
        BY <1>1, <1>6, <2>1 DEF Pointed
      <3>2. ASSUME NEW y \in gone, older[y] = x
            PROVE  FALSE
        <4>1. x \in gone \cup next
          BY <1>2, <1>3, <2>1, <3>2
        <4>2. package[x] = package[e]
          BY <1>3, <4>1
        <4> QED
          BY <1>7, <2>1, <3>2, <4>2
      <3> QED
        BY <3>1, <3>2
    <2> QED
      BY <1>4, <1>6, <2>1 DEF Pointed
  <1>18. Counted'
    <2>1. ASSUME NEW x \in Ebuild
          PROVE  /\ refs'[x] = held'[x] + (IF Has(x)' THEN 1 ELSE 0)
                 /\ refs'[x] > 0 <=> x \in InUse'
      <3>1. /\ refs[x] = held[x] + (IF Has(x) THEN 1 ELSE 0)
            /\ refs[x] > 0 <=> x \in InUse
            /\ refs[x] \in Nat /\ held[x] \in Nat
        BY <1>1, <1>5 DEF Counted
      <3>2. CASE x = e
        <4>1. refs[e] - 1 = (held[e] - h) + (IF (\E q \in packages' : ebuilds[q] = e)
                                      \/ \E y \in InUse : older[y] = e THEN 1 ELSE 0)
          BY DEF Recounted
        <4>2. CASE e \in gone
          <5>1. refs[e] = 1 /\ held[e] - h = 0
            BY <1>3, <1>7, <4>1, <4>2, <3>1, <3>2
          <5>2. ~Has(x)' /\ x \notin InUse'
            BY <1>4, <1>11, <3>2, <4>2
          <5>3. refs'[x] = 0 /\ held'[x] = 0
            BY <1>5, <3>2, <4>2, <5>1
          <5> QED
            BY <5>2, <5>3
        <4>3. CASE e \in next
          <5>1. e \notin gone /\ refs[e] # 1 /\ refs[e] > 0
            BY <1>3, <3>1, <3>2, <4>3
          <5> QED
            BY <1>4, <1>5, <1>12, <3>1, <3>2, <4>1, <4>3, <5>1
        <4> QED
          BY <1>3, <4>2, <4>3
      <3>3. CASE x # e /\ x \in gone
        <4>1. Has(x) /\ ~Has(x)' /\ refs[x] = 1 /\ x \notin InUse'
          BY <1>3, <1>4, <1>9, <3>3
        <4> QED
          BY <1>5, <3>1, <3>3, <4>1
      <3>4. CASE x # e /\ x \in next
        <4>1. Has(x) /\ ~Has(x)' /\ refs[x] # 1 /\ x \in InUse /\ x \in InUse' /\ x \notin gone
          BY <1>3, <1>4, <1>9, <3>4
        <4> QED
          BY <1>5, <3>1, <3>4, <4>1
      <3>5. CASE x # e /\ x \in InUse \ (gone \cup next)
        BY <1>4, <1>5, <1>10, <3>1, <3>5
      <3>6. CASE x # e /\ x \notin InUse
        <4>1. x \notin gone \cup next /\ x \notin InUse' /\ ~Has(x) /\ ~Has(x)'
          BY <1>3, <1>4, <1>13, <3>6
        <4> QED
          BY <1>5, <3>1, <3>6, <4>1
      <3> QED
        BY <3>2, <3>3, <3>4, <3>5, <3>6
    <2> QED
      BY <2>1 DEF Counted
  <1>19. TypeOK'
    <2>1. version' \in [Ebuild -> Versions \cup {NULL}]
      BY <1>1 DEF TypeOK, Released
    <2>2. refs' \in [Ebuild -> Nat]
      <3>1. \A x \in Ebuild : x \in next => refs[x] - 1 \in Nat
        BY <1>1, <1>3, <1>5 DEF Counted
      <3> QED
        BY <1>5, <3>1 DEF Released
    <2>3. held' \in [Ebuild -> 0 .. MaxHeld]
      <3>1. held[e] - h \in 0 .. MaxHeld /\ e \in Ebuild
        BY <1>1, <1>2 DEF TypeOK, ObjectAssumption
      <3> QED
        BY <1>1, <3>1 DEF Released, TypeOK
    <2> QED
      BY <1>1, <1>6, <2>1, <2>2, <2>3 DEF TypeOK
  <1>20. Ranked(r)'
    BY <1>4, <1>6 DEF Ranked
  <1>21. Sorted(r)'
    <2>1. \A q \in packages' : Members(q)' = Members(q)
      BY <1>3, <1>4, <1>6, <1>7 DEF Members
    <2>2. \A q \in packages' : \A x \in Members(q) : version'[x] = version[x]
      BY <1>3, <1>6, <1>7 DEF Members
    <2>3. ASSUME NEW q \in packages'
          PROVE  {version'[x] : x \in Members(q)'} = {version[x] : x \in Members(q)}
      BY <2>1, <2>2
    <2>4. \A q \in packages' : OrderedVersions({version[x] : x \in Members(q)})'
                                 => OrderedVersions({version[x] : x \in Members(q)})
      BY <2>3 DEF OrderedVersions
    <2> QED
      BY <1>6, <2>1, <2>2, <2>4 DEF Sorted
  <1> QED
    BY <1>14, <1>15, <1>16, <1>17, <1>18, <1>19, <1>20, <1>21 DEF EbuildsInv, Shape, Ranks

LEMMA DropStep ==
    ASSUME ObjectAssumption, EbuildsInv, NEW e \in Ebuild, DropEbuild(e)
    PROVE  EbuildsInv'
  <1>1. /\ held[e] > 0 /\ Release(e, 1) /\ UNCHANGED <<packages, ebuilds, older, package>>
        /\ answer' = NULL
        /\ Shape /\ TypeOK /\ Counted
    BY DEF DropEbuild, EbuildsInv, Shape
  <1>2. refs[e] \in Nat /\ held[e] \in Nat /\ refs[e] = held[e] + (IF Has(e) THEN 1 ELSE 0)
        /\ (refs[e] > 0 <=> e \in InUse)
    BY <1>1 DEF TypeOK, Counted
  <1>3. e \in InUse /\ e # NULL
    BY <1>1, <1>2, InUseEbuild
  <1>4. PICK n \in Nat : \E r \in Ranks(n) : Ranked(r) /\ Sorted(r)
    BY DEF EbuildsInv
  <1>5. PICK r \in Ranks(n) : Ranked(r) /\ Sorted(r)
    BY <1>4
  <1>6. PICK gone, next : Freed(e, gone, next) /\ Released(e, 1, gone, next)
    BY <1>1, <1>3, <1>5, ReleaseFrees
  <1>7. Unled(e)
    <2>1. refs[e] = 1 => ~Has(e)
      BY <1>1, <1>2
    <2>2. ~Has(e) => package[e] \notin packages
      BY <1>1, <1>3 DEF Shape, Pointed, Has
    <2> QED
      BY <1>1, <2>1, <2>2 DEF Unled, Has
  <1>8. Recounted(e, 1)
    BY <1>1, <1>2 DEF Recounted, Has
  <1>9. 1 \in 0 .. 1 /\ 1 <= held[e]
    BY <1>1, <1>2
  <1>10. packages' \subseteq packages /\ \A q \in packages \ packages' : ebuilds[q] \in {e, NULL}
    BY <1>1
  <1>11. package_key' \in [Ebuild -> Package \cup {NULL}]
    BY <1>1 DEF Release, TypeOK
  <1> QED
    BY <1>11, <1>1, <1>3, <1>5, <1>6, <1>7, <1>8, <1>9, <1>10, ReleaseKeeps

\* A package without ebuilds is dropped.
LEMMA EmptyPackage ==
    ASSUME ObjectAssumption, EbuildsInv, NEW p \in packages, ebuilds[p] = NULL,
           packages' = packages \ {p}, UNCHANGED <<ebuilds, version, package_key, older, package, refs, held>>,
           answer' = NULL
    PROVE  EbuildsInv'
  <1>1. InUse' = InUse /\ Shape
    BY DEF InUse, EbuildsInv
  <1>2. \A q : Members(q)' = Members(q)
    BY <1>1 DEF Members
  <1>3. \A x \in Ebuild : Has(x)' <=> Has(x)
    BY <1>1 DEF Has, ObjectAssumption
  <1>4. TypeOK' /\ Links' /\ Heads' /\ OnePointer' /\ Pointed'
    BY <1>1 DEF Shape, TypeOK, Links, Heads, OnePointer, Pointed
  <1>5. Counted'
    BY <1>1, <1>3 DEF Shape, Counted
  <1>6. PICK n \in Nat : \E r \in Ranks(n) : Ranked(r) /\ Sorted(r)
    BY DEF EbuildsInv
  <1>7. PICK r \in Ranks(n) : Ranked(r) /\ Sorted(r)
    BY <1>6
  <1>8. Ranked(r)'
    BY <1>1, <1>7 DEF Ranked
  <1>9. Sorted(r)'
    <2>1. ASSUME NEW q \in packages
          PROVE  {version'[x] : x \in Members(q)'} = {version[x] : x \in Members(q)}
      BY <1>2
    <2>2. \A q \in packages : OrderedVersions({version[x] : x \in Members(q)})'
                                => OrderedVersions({version[x] : x \in Members(q)})
      BY <2>1 DEF OrderedVersions
    <2> QED
      BY <1>2, <1>7, <2>2 DEF Sorted
  <1> QED
    BY <1>4, <1>5, <1>8, <1>9 DEF EbuildsInv, Shape, Ranks

LEMMA DropPackageStep ==
    ASSUME ObjectAssumption, EbuildsInv, NEW p \in Package, DropPackage(p)
    PROVE  EbuildsInv'
  <1> DEFINE e == ebuilds[p]
  <1>1. /\ p \in packages /\ packages' = packages \ {p}
        /\ UNCHANGED <<ebuilds, older, package>> /\ answer' = NULL
        /\ Shape /\ TypeOK /\ Counted
    BY DEF DropPackage, EbuildsInv, Shape
  <1>2. CASE e = NULL
    <2>1. UNCHANGED <<version, package_key, refs, held>>
      BY <1>2 DEF DropPackage
    <2> QED
      BY <1>1, <1>2, <2>1, EmptyPackage
  <1>3. CASE e # NULL
    <2>1. Release(ebuilds[p], 0) /\ e \in InUse /\ package[e] = p
      BY <1>1, <1>3 DEF DropPackage, Shape, Heads
    <2>2. PICK a : a = e
      OBVIOUS
    <2>3. /\ Release(a, 0) /\ a \in InUse /\ a \in Ebuild /\ a # NULL /\ package[a] = p /\ ebuilds[p] = a
      BY <1>3, <2>1, <2>2, InUseEbuild
    <2> HIDE DEF e
    <2>4. PICK n \in Nat : \E r \in Ranks(n) : Ranked(r) /\ Sorted(r)
      BY DEF EbuildsInv
    <2>5. PICK r \in Ranks(n) : Ranked(r) /\ Sorted(r)
      BY <2>4
    <2>6. PICK gone, next : Freed(a, gone, next) /\ Released(a, 0, gone, next)
      BY <1>1, <2>3, <2>5, ReleaseFrees
    <2>7. /\ \A q \in packages' : ebuilds[q] # a
          /\ \A x \in InUse : older[x] # a
      BY <1>1, <2>3 DEF Shape, Heads, OnePointer
    <2>8. Unled(a)
      BY <1>1, <2>3, <2>7 DEF Unled
    <2>9. refs[a] \in Nat /\ held[a] \in Nat /\ refs[a] = held[a] + 1
      BY <1>1, <2>3 DEF TypeOK, Counted, Has
    <2>10. Recounted(a, 0)
      BY <2>7, <2>9 DEF Recounted
    <2>11. 0 \in 0 .. 1 /\ 0 <= held[a]
      BY <2>9
    <2>12. packages' \subseteq packages /\ \A q \in packages \ packages' : ebuilds[q] \in {a, NULL}
      BY <1>1, <2>3
    <2>13. package_key' \in [Ebuild -> Package \cup {NULL}]
      BY <1>1, <2>3 DEF Release, TypeOK
    <2> QED
      BY <2>13, <1>1, <2>3, <2>5, <2>6, <2>8, <2>10, <2>11, <2>12, ReleaseKeeps
  <1> QED
    BY <1>2, <1>3

LEMMA StepHolds ==
    ASSUME ObjectAssumption, IntAssumption, VersionAssumption, EbuildsInv, [Next]_vars
    PROVE  EbuildsInv'
  <1>1. CASE \E e \in Ebuild, key \in Keys, v \in Versions : NewEbuild(e, key, v)
    BY <1>1, NewStep
  <1>2. CASE \E p \in Package, e \in Ebuild : AddEbuild(p, e)
    BY <1>2, AddStep
  <1>3. CASE \E p \in Package, atom \in Atoms : MatchAtom(p, atom)
    BY <1>3, MatchStep
  <1>4. CASE \E e \in Ebuild : DropEbuild(e)
    BY <1>4, DropStep
  <1>5. CASE \E p \in Package : DropPackage(p)
    BY <1>5, DropPackageStep
  <1>6. CASE UNCHANGED vars
    <2>1. /\ UNCHANGED <<packages, ebuilds, version, older, package>>
          /\ UNCHANGED <<package_key, refs, held, answer>>
      BY <1>6 DEF vars
    <2>2. TypeOK' /\ Counted'
      BY <2>1 DEF EbuildsInv, Shape, TypeOK, Counted, InUse, Has
    <2> QED
      BY <2>1, <2>2, CountsOnly
  <1> QED
    BY <1>1, <1>2, <1>3, <1>4, <1>5, <1>6 DEF Next

\* Whatever ebuilds are made, added, asked for and dropped, and whatever packages
\* (package.c, ebuild.c): lists never meet and never close, every ebuild is counted
\* for who leads to it, and a package's list goes from newer to older.
THEOREM EbuildsHold ==
    ASSUME ObjectAssumption, IntAssumption, VersionAssumption
    PROVE  Spec => []EbuildsInv
  <1>1. Init => EbuildsInv
    BY InitHolds
  <1>2. EbuildsInv /\ [Next]_vars => EbuildsInv'
    BY StepHolds
  <1> QED
    BY <1>1, <1>2, PTL DEF Spec

-----------------------------------------------------------------------------
(* What the runs check.                                                    *)

\* A set without two elements has at most one.
LEMMA AtMostOne ==
    ASSUME NEW S, \A x, y \in S : x = y
    PROVE  Cardinality(S) = IF S = {} THEN 0 ELSE 1
  <1>1. CASE S = {}
    BY <1>1, FS_EmptySet
  <1>2. CASE S # {}
    <2>1. PICK x : S = {x}
      BY <1>2
    <2> QED
      BY <1>2, <2>1, FS_Singleton
  <1> QED
    BY <1>1, <1>2

LEMMA CountedExactly ==
    ASSUME ObjectAssumption, Shape
    PROVE  RefsExact
  <1>1. ASSUME NEW e \in Ebuild
        PROVE  Pointing(e) = IF Has(e) THEN 1 ELSE 0
    <2> DEFINE A == {p \in packages : ebuilds[p] = e}
               B == {x \in InUse : older[x] = e}
    <2>1. e # NULL
      BY DEF ObjectAssumption
    <2>2. \A x, y \in A : x = y
      BY <2>1 DEF Shape, Heads
    <2>3. \A x, y \in B : x = y
      BY <2>1 DEF Shape, OnePointer
    <2>4. A = {} \/ B = {}
      BY <2>1 DEF Shape, OnePointer
    <2>5. Has(e) <=> A # {} \/ B # {}
      BY DEF Has
    <2>6. Pointing(e) = Cardinality(A) + Cardinality(B)
      BY DEF Pointing
    <2> HIDE DEF A, B
    <2>7. /\ Cardinality(A) = IF A = {} THEN 0 ELSE 1
          /\ Cardinality(B) = IF B = {} THEN 0 ELSE 1
      BY <2>2, <2>3, AtMostOne
    <2> QED
      BY <2>4, <2>5, <2>6, <2>7
  <1> QED
    BY <1>1 DEF Shape, Counted, RefsExact

LEMMA ListsApart ==
    ASSUME ObjectAssumption, EbuildsInv
    PROVE  InOwnList
  <1>1. PICK n \in Nat : \E r \in Ranks(n) : Ranked(r) /\ Sorted(r)
    BY DEF EbuildsInv
  <1>2. PICK r \in Ranks(n) : Ranked(r) /\ Sorted(r)
    BY <1>1
  <1>3. ASSUME NEW p \in packages
        PROVE  /\ \A i \in DOMAIN List(p) : package[List(p)[i]] = p
               /\ \A i, j \in DOMAIN List(p) : List(p)[i] = List(p)[j] => i = j
               /\ ebuilds[p] # NULL =>
                    \E e \in InUse : older[e] = NULL /\ e = List(p)[Len(List(p))]
    <2> DEFINE s == List(p)
    <2>1. Listed(s, p, r)
      BY <1>2, ListIs DEF EbuildsInv
    <2> HIDE DEF s
    <2>2. /\ s \in Seq(InUse) /\ Len(s) \in Nat /\ DOMAIN s = 1 .. Len(s)
          /\ \A i \in 1 .. Len(s) : s[i] \in InUse /\ s[i] \in Members(p) /\ s[i] \in Ebuild
      BY <2>1, InUseEbuild DEF Listed
    <2>3. \A i \in DOMAIN s : package[s[i]] = p
      BY <2>2 DEF Members
    <2>4. ASSUME NEW i \in 1 .. Len(s), NEW j \in 1 .. Len(s), i < j
          PROVE  s[i] # s[j]
      <3>1. r[s[j]] < r[s[i]] /\ r[s[i]] \in 0 .. n
        BY <2>1, <2>2, <2>4 DEF Listed, Ranks
      <3> QED
        BY <3>1
    <2>5. \A i, j \in DOMAIN s : s[i] = s[j] => i = j
      BY <2>2, <2>4
    <2>6. ASSUME ebuilds[p] # NULL
          PROVE  \E e \in InUse : older[e] = NULL /\ e = s[Len(s)]
      <3>1. s # <<>> /\ older[s[Len(s)]] = NULL
        BY <2>1, <2>6 DEF Listed
      <3>2. Len(s) \in 1 .. Len(s)
        BY <2>2, <3>1, EmptySeq
      <3> QED
        BY <2>2, <3>1, <3>2
    <2> QED
      BY <2>3, <2>5, <2>6 DEF s
  <1>4. TypeOK
    BY DEF EbuildsInv, Shape
  <1> QED
    BY <1>3, <1>4 DEF InOwnList

\* The order of a list's versions.
LEMMA DownTheVersions ==
    ASSUME ObjectAssumption, EbuildsInv, NEW p \in packages, Ordered(p)
    PROVE  /\ List(p) \in Seq(InUse) /\ DOMAIN List(p) = 1 .. Len(List(p))
           /\ \A i, j \in DOMAIN List(p) :
                i < j => Compare(version[List(p)[j]], version[List(p)[i]]) <= 0
  <1>1. PICK n \in Nat : \E r \in Ranks(n) : Ranked(r) /\ Sorted(r)
    BY DEF EbuildsInv
  <1>2. PICK r \in Ranks(n) : Ranked(r) /\ Sorted(r)
    BY <1>1
  <1> DEFINE s == List(p)
  <1>3. Listed(s, p, r)
    BY <1>2, ListIs DEF EbuildsInv
  <1>4. /\ s \in Seq(InUse) /\ DOMAIN s = 1 .. Len(s)
        /\ \A i \in 1 .. Len(s) : s[i] \in Members(p)
    BY <1>3 DEF Listed
  <1>5. {version[s[i]] : i \in DOMAIN s} = {version[x] : x \in Members(p)}
    <2> HIDE DEF s
    <2>1. \A x \in Members(p) : \E i \in DOMAIN s : s[i] = x
      BY <1>3, <1>4 DEF Listed
    <2>2. \A i \in DOMAIN s : s[i] \in Members(p)
      BY <1>4
    <2> QED
      BY <2>1, <2>2
  <1>6. OrderedVersions({version[s[i]] : i \in DOMAIN s})
    BY DEF Ordered, OrderedVersions
  <1>7. OrderedVersions({version[x] : x \in Members(p)})
    BY <1>5, <1>6
  <1> HIDE DEF s
  <1>8. ASSUME NEW i \in DOMAIN s, NEW j \in DOMAIN s, i < j
        PROVE  Compare(version[s[j]], version[s[i]]) <= 0
    <2>1. r[s[j]] < r[s[i]] /\ s[i] \in Members(p) /\ s[j] \in Members(p)
      BY <1>3, <1>4, <1>8 DEF Listed
    <2> QED
      BY <1>2, <1>7, <2>1 DEF Sorted
  <1> QED
    BY <1>4, <1>8 DEF s

LEMMA FindsTheNewest ==
    ASSUME ObjectAssumption, IntAssumption, VersionAssumption, EbuildsInv,
           NEW p \in packages, NEW atom \in Atoms, Ordered(p), atom.range \cap {L, G} # {}
    PROVE  FindsNewest(p, atom)
  <1> DEFINE s == List(p)
             meet == {i \in DOMAIN s : Meets(s[i], atom)}
             stop == {i \in DOMAIN s : Meets(s[i], atom) \/ GivesUp(s[i], atom)}
             k == FirstOf(stop)
  <1>1. /\ s \in Seq(InUse) /\ DOMAIN s = 1 .. Len(s)
        /\ \A i, j \in DOMAIN s : i < j => Compare(version[s[j]], version[s[i]]) <= 0
    BY DownTheVersions
  <1> HIDE DEF s
  <1>2. \A i \in DOMAIN s : s[i] \in InUse /\ s[i] # NULL
    BY <1>1, InUseEbuild
  <1>3. \A x : GivesUp(x, atom) => Meets(x, atom)
    <2>1. ASSUME NEW x, GivesUp(x, atom)
          PROVE  Meets(x, atom)
      <3>1. Compare(version[x], atom.version) > 0 /\ L \notin atom.range
        BY <2>1 DEF GivesUp
      <3>2. G \in atom.range
        BY <3>1
      <3>3. Compare(version[x], atom.version) # 0
        BY <3>1
      <3>4. Outcome(Compare(version[x], atom.version)) = G
        BY <3>1, <3>3 DEF Outcome
      <3> QED
        BY <3>2, <3>4 DEF Meets
    <2> QED
      BY <2>1
  <1>4. stop = meet
    BY <1>3
  <1>5. Match(p, atom) = IF stop = {} THEN NULL ELSE IF Meets(s[k], atom) THEN s[k] ELSE NULL
    BY DEF Match, FirstOf, s
  <1>6. Candidates(p, atom) = {s[i] : i \in meet}
    <2>1. Candidates(p, atom) = {e \in {s[i] : i \in DOMAIN s} : Meets(e, atom)}
      BY DEF Candidates, s
    <2> QED
      BY <2>1
  <1>7. CASE meet = {}
    BY <1>4, <1>5, <1>6, <1>7 DEF FindsNewest
  <1>8. CASE meet # {}
    <2>1. k \in stop /\ \A j \in stop : k <= j
      <3>1. stop \subseteq Nat /\ stop # {}
        BY <1>1, <1>4, <1>8
      <3> HIDE DEF stop
      <3> QED
        BY <3>1, FirstIn
    <2> HIDE DEF k
    <2>2. k \in DOMAIN s /\ Meets(s[k], atom) /\ \A j \in meet : k <= j /\ j \in DOMAIN s
      BY <1>4, <2>1
    <2>3. Match(p, atom) = s[k]
      BY <1>4, <1>5, <1>8, <2>2
    <2>4. s[k] \in Candidates(p, atom) /\ Candidates(p, atom) # {}
      BY <1>6, <2>2
    <2>5. Compare(version[s[k]], version[s[k]]) <= 0
      <3>1. version[s[k]] \in Version /\ version[s[k]] # NULL
        BY <1>2, <2>2, Versioned DEF EbuildsInv, Shape
      <3>2. /\ Compare(version[s[k]], version[s[k]]) \in Int
            /\ Compare(version[s[k]], version[s[k]]) > 0 => Compare(version[s[k]], version[s[k]]) < 0
        BY <3>1, CompareTurned
      <3> QED
        BY <3>2
    <2>6. ASSUME NEW e \in Candidates(p, atom)
          PROVE  Compare(version[e], version[s[k]]) <= 0
      <3>1. PICK j \in meet : e = s[j]
        BY <1>6
      <3>2. k <= j /\ j \in DOMAIN s /\ k \in Nat /\ j \in Nat
        BY <1>1, <2>2, <3>1
      <3>3. CASE k = j
        BY <2>5, <3>1, <3>3
      <3>4. CASE k < j
        BY <1>1, <2>2, <3>1, <3>2, <3>4
      <3> QED
        BY <3>2, <3>3, <3>4
    <2> QED
      BY <2>3, <2>4, <2>6 DEF FindsNewest
  <1> QED
    BY <1>7, <1>8

\* An ebuild's count is the number of its owners, and it lives exactly as long as
\* it has one, however package_add_ebuild and the deallocation of a package or of
\* part of a list follow each other.
THEOREM CountsAreRefs ==
    ASSUME ObjectAssumption, IntAssumption, VersionAssumption
    PROVE  Spec => []RefsExact
  <1>1. EbuildsInv => RefsExact
    BY CountedExactly DEF EbuildsInv
  <1> QED
    BY <1>1, EbuildsHold, PTL

\* The lists that package_add_ebuild builds are finite, disjoint, and hold the
\* ebuilds of their package.
THEOREM OwnLists ==
    ASSUME ObjectAssumption, IntAssumption, VersionAssumption
    PROVE  Spec => []InOwnList
  <1>1. EbuildsInv => InOwnList
    BY ListsApart
  <1> QED
    BY <1>1, EbuildsHold, PTL

\* In a list whose versions atom_version_compare orders, no ebuild is newer than
\* one before it.
THEOREM ListsSorted ==
    ASSUME ObjectAssumption, IntAssumption, VersionAssumption
    PROVE  Spec => []NewestFirst
  <1>1. EbuildsInv => NewestFirst
    BY DownTheVersions DEF NewestFirst
  <1> QED
    BY <1>1, EbuildsHold, PTL

\* For every operator but = and ~, match_atom finds the newest ebuild that meets
\* the atom, though it stops at the first.
THEOREM NewestMatches ==
    ASSUME ObjectAssumption, IntAssumption, VersionAssumption
    PROVE  Spec => []OpenMatchIsNewest
  <1>1. EbuildsInv => OpenMatchIsNewest
    BY FindsTheNewest DEF OpenMatchIsNewest
  <1> QED
    BY <1>1, EbuildsHold, PTL

-----------------------------------------------------------------------------
(* Comparing in the other direction.  A difference of 2^31 would come out  *)
(* the same both ways: what follows is about versions whose numbers, filled *)
(* up as far as they are to be compared, are less than that.               *)

Asked == (Versions \cup {a.version : a \in Atoms}) \ {NULL}
Fit(a, b) ==
    LET length == IF Length(a) > Length(b) THEN Length(a) ELSE Length(b)
    IN  {a.value, b.value, Filled(a, length), Filled(b, length)} \subseteq 0 .. IntHalf - 1
NumbersFit ==
    \A u, v \in Asked : \A i \in DOMAIN u.parts \cap DOMAIN v.parts : Fit(u.parts[i], v.parts[i])

LEMMA ToI32Keeps ==
    ASSUME IntAssumption, NEW d \in Int, -IntHalf <= d, d < IntHalf
    PROVE  ToI32(d) = d
  <1> DEFINE m == 2 * IntHalf
             a == d + IntHalf
             q == a \div m
             t == a % m
  <1>1. IntHalf \in Nat \ {0} /\ m \in Nat \ {0} /\ a \in Int /\ 0 <= a /\ a < m
    BY DEF IntAssumption
  <1>2. t \in Int /\ 0 <= t /\ t < m /\ q \in Int /\ a = m * q + t
    BY <1>1, DivMod
  <1>3. ToI32(d) = t - IntHalf
    BY DEF ToI32
  <1> HIDE DEF t, q, a, m
  <1>4. q = 0
    <2>1. CASE q >= 1
      <3>1. m * q >= m
        BY <1>1, <1>2, <2>1
      <3> QED
        BY <1>1, <1>2, <3>1
    <2>2. CASE q <= -1
      <3>1. m * q <= -m
        BY <1>1, <1>2, <2>2
      <3> QED
        BY <1>1, <1>2, <3>1
    <2> QED
      BY <1>2, <2>1, <2>2
  <1>5. a = t
    BY <1>1, <1>2, <1>4
  <1> QED
    BY <1>1, <1>3, <1>5 DEF a

LEMMA DifferenceFits ==
    ASSUME IntAssumption, NEW a \in Part, NEW b \in Part, Fit(a, b)
    PROVE  Difference(a, b) + Difference(b, a) = 0
  <1>1. /\ a.width \in Nat /\ a.value \in Nat /\ a.letter \in 0 .. 26
        /\ b.width \in Nat /\ b.value \in Nat /\ b.letter \in 0 .. 26
        /\ IntHalf \in Nat \ {0}
    BY DEF Part, IntAssumption
  <1> DEFINE la == IF Length(a) > Length(b) THEN Length(a) ELSE Length(b)
             lb == IF Length(b) > Length(a) THEN Length(b) ELSE Length(a)
  <1>2. la = lb
    BY <1>1 DEF Length
  <1>3. /\ a.value \in 0 .. IntHalf - 1 /\ b.value \in 0 .. IntHalf - 1
        /\ Filled(a, la) \in 0 .. IntHalf - 1 /\ Filled(b, la) \in 0 .. IntHalf - 1
    BY DEF Fit
  <1>4. ASSUME NEW x \in 0 .. IntHalf - 1, NEW y \in 0 .. IntHalf - 1
        PROVE  ToI32(ToI32(x) - ToI32(y)) = x - y
    <2>1. x \in Int /\ -IntHalf <= x /\ x < IntHalf
      BY <1>1
    <2>2. y \in Int /\ -IntHalf <= y /\ y < IntHalf
      BY <1>1
    <2>3. ToI32(x) = x /\ ToI32(y) = y
      BY <2>1, <2>2, ToI32Keeps
    <2> DEFINE d == x - y
    <2>4. d \in Int /\ -IntHalf <= d /\ d < IntHalf
      BY <1>1
    <2> HIDE DEF d
    <2>5. ToI32(d) = d
      BY <2>4, ToI32Keeps
    <2> QED
      BY <2>3, <2>5 DEF d
  <1> HIDE DEF la, lb
  <1>5. CASE Fraction(a) \/ Fraction(b)
    <2>1. /\ Difference(a, b) = ToI32(ToI32(Filled(a, la)) - ToI32(Filled(b, la)))
          /\ Difference(b, a) = ToI32(ToI32(Filled(b, lb)) - ToI32(Filled(a, lb)))
      BY <1>5 DEF Difference, la, lb
    <2>2. Difference(a, b) = Filled(a, la) - Filled(b, la)
      BY <1>3, <1>4, <2>1
    <2>3. Difference(b, a) = Filled(b, la) - Filled(a, la)
      BY <1>2, <1>3, <1>4, <2>1
    <2> QED
      BY <1>1, <1>3, <2>2, <2>3
  <1>6. CASE ~(Fraction(a) \/ Fraction(b))
    <2>1. /\ Difference(a, b) = ToI32(ToI32(a.value) - ToI32(b.value))
          /\ Difference(b, a) = ToI32(ToI32(b.value) - ToI32(a.value))
      BY <1>6 DEF Difference
    <2>2. Difference(a, b) = a.value - b.value /\ Difference(b, a) = b.value - a.value
      BY <1>3, <1>4, <2>1
    <2> QED
      BY <1>1, <2>2
  <1> QED
    BY <1>5, <1>6

LEMMA DecidedFits ==
    ASSUME IntAssumption, NEW u \in Version, NEW v \in Version, ~Inner(u), ~Inner(v),
           NEW i \in 1 .. Len(u.parts), i <= Len(v.parts), Fit(u.parts[i], v.parts[i])
    PROVE  \/ Decided(u, v, i) = NULL /\ Decided(v, u, i) = NULL
           \/ /\ Decided(u, v, i) \in Int /\ Decided(u, v, i) # NULL /\ Decided(v, u, i) # NULL
              /\ Decided(u, v, i) + Decided(v, u, i) = 0 /\ Decided(v, u, i) \in Int
  <1> DEFINE a == u.parts[i]
             b == v.parts[i]
  <1>1. /\ Len(u.parts) \in Nat /\ Len(v.parts) \in Nat /\ a \in Part /\ b \in Part
        /\ NULL \notin Int /\ DOMAIN u.parts = 1 .. Len(u.parts) /\ DOMAIN v.parts = 1 .. Len(v.parts)
    BY DEF Version, IntAssumption
  <1>2. /\ a.prefix \in Int /\ b.prefix \in Int /\ a.letter \in Int /\ b.letter \in Int
    BY <1>1, PartInts
  <1>3. Difference(a, b) \in Int /\ Difference(b, a) \in Int /\ Difference(a, b) + Difference(b, a) = 0
    BY <1>1, DifferenceTurned, DifferenceFits
  <1>4. (a.letter # 0 => i = Len(u.parts)) /\ (b.letter # 0 => i = Len(v.parts))
    BY <1>1 DEF Inner
  <1> HIDE DEF a, b
  <1>5. Decided(u, v, i) =
          IF a.prefix # b.prefix THEN a.prefix - b.prefix
          ELSE IF i < Len(v.parts) /\ a.letter # 0 THEN -1
          ELSE IF i < Len(u.parts) /\ b.letter # 0 THEN 1
          ELSE IF Difference(a, b) # 0 THEN Difference(a, b)
          ELSE IF a.star \/ b.star THEN 0
          ELSE IF a.letter # b.letter THEN a.letter - b.letter
          ELSE NULL
    BY DEF Decided, a, b
  <1>6. Decided(v, u, i) =
          IF b.prefix # a.prefix THEN b.prefix - a.prefix
          ELSE IF i < Len(u.parts) /\ b.letter # 0 THEN -1
          ELSE IF i < Len(v.parts) /\ a.letter # 0 THEN 1
          ELSE IF Difference(b, a) # 0 THEN Difference(b, a)
          ELSE IF b.star \/ a.star THEN 0
          ELSE IF b.letter # a.letter THEN b.letter - a.letter
          ELSE NULL
    BY DEF Decided, a, b
  <1>7. CASE a.prefix # b.prefix
    BY <1>1, <1>2, <1>5, <1>6, <1>7
  <1>8. CASE a.prefix = b.prefix /\ i < Len(v.parts) /\ a.letter # 0
    <2>1. ~(i < Len(u.parts))
      BY <1>1, <1>4, <1>8
    <2>2. Decided(u, v, i) = -1 /\ Decided(v, u, i) = 1
      BY <1>5, <1>6, <1>8, <2>1
    <2> QED
      BY <1>1, <2>2
  <1>9. CASE a.prefix = b.prefix /\ i < Len(u.parts) /\ b.letter # 0
    <2>1. ~(i < Len(v.parts))
      BY <1>1, <1>4, <1>9
    <2>2. Decided(u, v, i) = 1 /\ Decided(v, u, i) = -1
      BY <1>5, <1>6, <1>9, <2>1
    <2> QED
      BY <1>1, <2>2
  <1>10. CASE a.prefix = b.prefix /\ ~(i < Len(v.parts) /\ a.letter # 0) /\ ~(i < Len(u.parts) /\ b.letter # 0)
    <2>1. CASE Difference(a, b) # 0
      BY <1>1, <1>3, <1>5, <1>6, <1>10, <2>1
    <2>2. CASE Difference(a, b) = 0
      <3> DEFINE starred == a.star \/ b.star
      <3>1. Difference(b, a) = 0 /\ (b.star \/ a.star <=> starred)
        BY <1>3, <2>2
      <3>2. Decided(u, v, i) = IF starred THEN 0 ELSE IF a.letter # b.letter THEN a.letter - b.letter ELSE NULL
        BY <1>5, <1>10, <2>2
      <3>3. Decided(v, u, i) = IF starred THEN 0 ELSE IF b.letter # a.letter THEN b.letter - a.letter ELSE NULL
        BY <1>6, <1>10, <3>1
      <3> HIDE DEF starred
      <3>4. 0 \in Int
        OBVIOUS
      <3>5. CASE starred
        BY <1>1, <3>2, <3>3, <3>4, <3>5
      <3>6. CASE ~starred
        BY <1>1, <1>2, <3>2, <3>3, <3>6
      <3> QED
        BY <3>5, <3>6
    <2> QED
      BY <2>1, <2>2
  <1> QED
    BY <1>7, <1>8, <1>9, <1>10

LEMMA CompareFits ==
    ASSUME IntAssumption, NEW u \in Version, NEW v \in Version, u # NULL, v # NULL, ~Inner(u), ~Inner(v),
           \A i \in DOMAIN u.parts \cap DOMAIN v.parts : Fit(u.parts[i], v.parts[i])
    PROVE  Compare(u, v) \in Int /\ Compare(v, u) \in Int /\ Compare(u, v) + Compare(v, u) = 0
  <1> DEFINE f == Len(u.parts)
             s == Len(v.parts)
             D == {i \in 1 .. f : i <= s /\ Decided(u, v, i) # NULL}
             G2 == {i \in 1 .. s : i <= f /\ Decided(v, u, i) # NULL}
  <1>1. /\ f \in Nat /\ s \in Nat /\ u.revision \in Nat /\ v.revision \in Nat
        /\ DOMAIN u.parts = 1 .. f /\ DOMAIN v.parts = 1 .. s
    BY DEF Version
  <1>2. \A i \in 1 .. f : i <= s =>
          \/ Decided(u, v, i) = NULL /\ Decided(v, u, i) = NULL
          \/ /\ Decided(u, v, i) \in Int /\ Decided(u, v, i) # NULL /\ Decided(v, u, i) # NULL
             /\ Decided(u, v, i) + Decided(v, u, i) = 0 /\ Decided(v, u, i) \in Int
    <2>1. ASSUME NEW i \in 1 .. f, i <= s
          PROVE  \/ Decided(u, v, i) = NULL /\ Decided(v, u, i) = NULL
                 \/ /\ Decided(u, v, i) \in Int /\ Decided(u, v, i) # NULL /\ Decided(v, u, i) # NULL
                    /\ Decided(u, v, i) + Decided(v, u, i) = 0 /\ Decided(v, u, i) \in Int
      <3>1. Fit(u.parts[i], v.parts[i])
        BY <1>1, <2>1
      <3> QED
        BY <2>1, <3>1, DecidedFits
    <2> QED
      BY <2>1
  <1>3. D = G2
    BY <1>1, <1>2
  <1>4. Compare(u, v) = IF D # {} THEN Decided(u, v, FirstOf(D))
                        ELSE IF f > s THEN 1 ELSE IF f < s THEN -1
                        ELSE u.revision - v.revision
    BY DEF Compare, FirstOf
  <1>5. Compare(v, u) = IF G2 # {} THEN Decided(v, u, FirstOf(G2))
                        ELSE IF s > f THEN 1 ELSE IF s < f THEN -1
                        ELSE v.revision - u.revision
    BY DEF Compare, FirstOf
  <1>6. CASE D # {}
    <2> DEFINE k == FirstOf(D)
    <2>1. k \in D
      <3>1. D \subseteq Nat
        BY <1>1
      <3> HIDE DEF D
      <3> QED
        BY <1>6, <3>1, FirstIn
    <2> HIDE DEF k
    <2>2. k \in 1 .. f /\ k <= s /\ Decided(u, v, k) # NULL
      BY <2>1
    <2>3. Compare(u, v) = Decided(u, v, k) /\ Compare(v, u) = Decided(v, u, k)
      BY <1>3, <1>4, <1>5, <1>6 DEF k
    <2> QED
      BY <1>2, <2>2, <2>3
  <1>7. CASE D = {}
    <2> HIDE DEF D, G2, f, s
    <2> QED
      BY <1>1, <1>3, <1>4, <1>5, <1>7
  <1> QED
    BY <1>6, <1>7

\* match_atom of the package an ebuild belongs to and Atom.matches, which compares
\* keys itself and versions in the opposite direction, agree about every ebuild
\* that was added to the package of its key, and every atom, also of other keys, if
\* the numbers of the versions fit.
THEOREM MatchersAlwaysAgree ==
    ASSUME ObjectAssumption, IntAssumption, VersionAssumption, NumbersFit
    PROVE  Spec => []MatchersAgree
  <1>1. ASSUME EbuildsInv
        PROVE  MatchersAgree
    <2>1. ASSUME NEW e \in InUse, NEW atom \in Atoms, package_key[e] = package[e],
                 ~Inner(version[e]), atom.version # NULL => ~Inner(atom.version)
          PROVE  Matches(atom, package_key[e], version[e])
                   <=> atom.key = package[e] /\ Meets(e, atom)
      <3> DEFINE u == version[e]
                 v == atom.version
      <3>1. u \in Version /\ u # NULL /\ u \in Asked
        <4>1. u \in Versions
          BY <1>1, InUseEbuild DEF EbuildsInv, Shape, TypeOK, InUse
        <4> QED
          BY <4>1 DEF VersionAssumption, Asked
      <3>2. v \in Version \cup {NULL} /\ (v # NULL => v \in Asked)
        BY DEF VersionAssumption, Asked
      <3>10. ~Inner(u) /\ (v # NULL => ~Inner(v))
        BY <2>1
      <3> HIDE DEF u, v
      <3>3. Compare(u, v) \in Int /\ Compare(v, u) \in Int /\ Compare(u, v) + Compare(v, u) = 0
        <4>1. CASE v = NULL
          BY <3>1, <4>1 DEF Compare
        <4>2. CASE v # NULL
          <5>1. \A i \in DOMAIN u.parts \cap DOMAIN v.parts : Fit(u.parts[i], v.parts[i])
            BY <3>1, <3>2, <4>2 DEF NumbersFit
          <5> QED
            BY <3>1, <3>2, <3>10, <4>2, <5>1, CompareFits
        <4> QED
          BY <4>1, <4>2
      <3>4. Meets(e, atom) <=> Outcome(Compare(u, v)) \in atom.range
        BY DEF Meets, u, v
      <3>5. Matches(atom, package_key[e], u) <=>
              /\ atom.key = package_key[e]
              /\ (IF Compare(v, u) = 0 THEN E ELSE IF Compare(v, u) > 0 THEN L ELSE G) \in atom.range
        BY DEF Matches, v
      <3> DEFINE c == Compare(u, v)
                 d == Compare(v, u)
      <3>6. c \in Int /\ d \in Int /\ c + d = 0
        BY <3>3
      <3> HIDE DEF c, d
      <3>7. (IF d = 0 THEN E ELSE IF d > 0 THEN L ELSE G) = Outcome(c)
        <4>1. (d = 0 <=> c = 0) /\ (d > 0 <=> c < 0)
          BY <3>6
        <4>2. c # 0 => (c < 0 <=> ~(c > 0))
          BY <3>6
        <4> QED
          BY <4>1, <4>2 DEF Outcome
      <3> QED
        BY <2>1, <3>4, <3>5, <3>7 DEF c, d, u
    <2> QED
      BY <2>1 DEF MatchersAgree
  <1> QED
    BY <1>1, EbuildsHold, PTL

\* Nor does atom_version_compare put two versions in the same order both ways.
THEOREM ComparisonsTurn ==
    ASSUME ObjectAssumption, IntAssumption, VersionAssumption, NumbersFit
    PROVE  Spec => []CompareConsistent
  <1>1. ASSUME EbuildsInv
        PROVE  CompareConsistent
    <2>1. ASSUME NEW u \in {version[e] : e \in InUse}, NEW v \in {version[e] : e \in InUse},
                 ~Inner(u), ~Inner(v)
          PROVE  (Compare(u, v) > 0 <=> Compare(v, u) < 0) /\ (u = v => Compare(u, v) = 0)
      <3>1. u \in Version /\ u # NULL /\ u \in Asked /\ v \in Version /\ v # NULL /\ v \in Asked
        <4>1. u \in Versions /\ v \in Versions
          BY <1>1, InUseEbuild DEF EbuildsInv, Shape, TypeOK, InUse
        <4> QED
          BY <4>1 DEF VersionAssumption, Asked
      <3>2. \A i \in DOMAIN u.parts \cap DOMAIN v.parts : Fit(u.parts[i], v.parts[i])
        BY <3>1 DEF NumbersFit
      <3>3. Compare(u, v) \in Int /\ Compare(v, u) \in Int /\ Compare(u, v) + Compare(v, u) = 0
        BY <2>1, <3>1, <3>2, CompareFits
      <3> QED
        BY <3>3
    <2> QED
      BY <2>1 DEF CompareConsistent
  <1> QED
    BY <1>1, EbuildsHold, PTL

===============================================================================
