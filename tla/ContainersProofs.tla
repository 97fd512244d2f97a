--------------------------- MODULE ContainersProofs ---------------------------
(***************************************************************************)
(* Proofs about Containers, for any objects, cells, keys and programs: the *)
(* pointers of the linked list are sound whatever the program does, and    *)
(* what a walk along them finds is a double-ended queue; the sets keep to  *)
(* their comparison; the vector is a sequence, and the map a mapping; and  *)
(* every object's count is the number of places that hold it.              *)
(***************************************************************************)
EXTENDS Containers, FiniteSetTheorems, SequenceTheorems, WellFoundedInduction, TLAPS

-----------------------------------------------------------------------------
(* Numbers.                                                                *)

\* A set of numbers has a least one.
LEMMA Least ==
    ASSUME NEW T, T \subseteq Nat, T # {}
    PROVE  \E x \in T : \A y \in T : x <= y
  <1> DEFINE R == {ss \in Nat \X Nat : ss[1] < ss[2]}
  <1>1. IsWellFoundedOn(R, Nat)
    BY NatLessThanWellFounded DEF OpToRel
  <1>2. \E x \in T : \A y \in T : ~ (<<y, x>> \in R)
    <2> HIDE DEF R
    <2> QED
      BY <1>1, WFMin
  <1>3. PICK x \in T : \A y \in T : ~ (<<y, x>> \in R)
    BY <1>2
  <1>4. ASSUME NEW y \in T
        PROVE  x <= y
    <2>1. y \in Nat /\ x \in Nat /\ ~ (<<y, x>> \in R)
      BY <1>3
    <2>2. <<y, x>> \in Nat \X Nat /\ <<y, x>>[1] = y /\ <<y, x>>[2] = x
      BY <2>1
    <2>3. ~ (y < x)
      BY <2>1, <2>2
    <2> QED
      BY <2>1, <2>3
  <1> QED
    BY <1>4

\* Induction, over a set instead of a predicate.
LEMMA SetInduction ==
    ASSUME NEW S, 0 \in S, \A n \in Nat : n \in S => n + 1 \in S
    PROVE  Nat \subseteq S
  <1> SUFFICES ASSUME Nat \ S # {}
               PROVE  FALSE
    OBVIOUS
  <1>1. PICK x \in Nat \ S : \A y \in Nat \ S : x <= y
    BY Least
  <1>2. x # 0 /\ x - 1 \in Nat /\ x - 1 < x
    BY <1>1
  <1>3. x - 1 \in S
    BY <1>1, <1>2
  <1> QED
    BY <1>1, <1>2, <1>3

-----------------------------------------------------------------------------
(* The linked list.                                                        *)

\* The cells of a sound list, by their place in it.
LEMMA Places ==
    ASSUME NodeAssumption, ListTyped, Linked
    PROVE  /\ Len(order) \in Nat /\ \A i \in 1 .. Len(order) : order[i] \in Node /\ order[i] \in live
           /\ \A i, j \in 1 .. Len(order) : order[i] = order[j] => i = j
           /\ \A n \in live : \E i \in 1 .. Len(order) : n = order[i]
           /\ order = <<>> <=> Len(order) = 0
           /\ order = <<>> => head = NULL
           /\ order # <<>> => head = order[1] /\ tail = order[Len(order)] /\ next[tail] = NULL
           /\ \A i \in 1 .. Len(order) - 1 :
                 next[order[i]] = order[i + 1] /\ prev[order[i + 1]] = order[i]
  <1>1. /\ order \in Seq(Node) /\ Len(order) \in Nat /\ DOMAIN order = 1 .. Len(order)
        /\ \A i \in 1 .. Len(order) : order[i] \in Node
    BY LenProperties, ElementOfSeq DEF ListTyped
  <1>2. order = <<>> <=> Len(order) = 0
    BY <1>1, EmptySeq
  <1>3. live = {order[i] : i \in 1 .. Len(order)}
    BY <1>1 DEF Linked, Range
  <1>4. \A i, j \in 1 .. Len(order) : order[i] = order[j] => i = j
    BY <1>1 DEF Linked, IsInjective
  <1> QED
    BY <1>1, <1>2, <1>3, <1>4 DEF Linked, Last

\* The same facts make a list sound.
Chained(o, h, t, nx, pv, l) ==
    /\ o \in Seq(Node) /\ l = {o[i] : i \in 1 .. Len(o)}
    /\ \A i, j \in 1 .. Len(o) : o[i] = o[j] => i = j
    /\ o = <<>> => h = NULL
    /\ o # <<>> => h = o[1] /\ t = o[Len(o)] /\ nx[t] = NULL
    /\ \A i \in 1 .. Len(o) - 1 : nx[o[i]] = o[i + 1] /\ pv[o[i + 1]] = o[i]
LEMMA Sounds ==
    ASSUME NEW o, NEW h, NEW t, NEW nx, NEW pv, NEW l, Chained(o, h, t, nx, pv, l)
    PROVE  /\ l = Range(o) /\ IsInjective(o)
           /\ h = IF o = <<>> THEN NULL ELSE o[1]
           /\ o # <<>> => t = Last(o) /\ nx[Last(o)] = NULL
           /\ \A i \in 1 .. Len(o) - 1 : nx[o[i]] = o[i + 1] /\ pv[o[i + 1]] = o[i]
  <1>1. DOMAIN o = 1 .. Len(o)
    BY LenProperties DEF Chained
  <1>2. l = Range(o) /\ IsInjective(o)
    BY <1>1 DEF Range, IsInjective, Chained
  <1> QED
    BY <1>2 DEF Last, Chained

LEMMA NewListSound ==
    ASSUME NodeAssumption, NewList
    PROVE  PointersSound
  <1>1. <<>> \in Seq(Node) /\ Len(<<>>) = 0
    OBVIOUS
  <1>2. ListTyped
    BY <1>1 DEF NewList, ListTyped, Pointer
  <1>3. Linked
    <2>1. live = {order[i] : i \in 1 .. Len(order)} /\ order = <<>> /\ 1 .. Len(order) = {}
      BY <1>1 DEF NewList
    <2>2. head = NULL
      BY DEF NewList
    <2>3. \A i \in 1 .. Len(order) - 1 : FALSE
      BY <1>1, <2>1
    <2>4. Chained(order, head, tail, next, prev, live)
      BY <1>1, <2>1, <2>2, <2>3 DEF Chained
    <2> QED
      BY <2>4, Sounds DEF Linked
  <1> QED
    BY <1>2, <1>3 DEF PointersSound

LEMMA AddSound ==
    ASSUME NodeAssumption, PointersSound, NEW n \in Node, NEW o \in Object, Add(n, o)
    PROVE  PointersSound'
  <1>1. ListTyped /\ Linked /\ ~freed /\ n \notin live
    BY DEF PointersSound, Add, NewNode
  <1>2. /\ live' = live \cup {n} /\ order' = Append(order, n) /\ tail' = n
        /\ data' = [data EXCEPT ![n] = o] /\ freed' = freed
    BY DEF Add, NewNode
  <1>3. /\ order \in Seq(Node) /\ order' \in Seq(Node) /\ order' # <<>>
        /\ Len(order') = Len(order) + 1 /\ order'[Len(order) + 1] = n
        /\ \A i \in 1 .. Len(order) : order'[i] = order[i]
    BY <1>1, <1>2, AppendProperties DEF ListTyped
  <1>4. LooksEmpty <=> order = <<>>
    BY <1>1, Places DEF LooksEmpty, NodeAssumption
  <1>5. /\ tail \in Node \/ order = <<>>
        /\ next \in [Node -> Pointer] /\ prev \in [Node -> Pointer] /\ Len(order) \in Nat
    BY <1>1, Places DEF ListTyped
  <1>6. ListTyped'
    <2>1. head' \in Pointer /\ next' \in [Node -> Pointer] /\ prev' \in [Node -> Pointer]
      BY <1>1, <1>4, <1>5, SMTT(30) DEF Add, ListTyped, Pointer
    <2>2. data' \in [Node -> Object \cup {NULL}] /\ live' \subseteq Node /\ tail' \in Pointer
      BY <1>1, <1>2 DEF ListTyped, Pointer
    <2> QED
      BY <1>1, <1>2, <1>3, <2>1, <2>2 DEF ListTyped
  <1>7. \A i \in 1 .. Len(order) : order[i] # n
    BY <1>1, Places
  <1>8. live' = {order'[i] : i \in 1 .. Len(order')}
    <2>1. ASSUME NEW m \in live'
          PROVE  \E i \in 1 .. Len(order') : m = order'[i]
      <3>1. CASE m = n
        BY <1>3, <1>5, <3>1
      <3>2. CASE m \in live
        <4>1. PICK i \in 1 .. Len(order) : m = order[i]
          BY <1>1, <3>2, Places
        <4> QED
          BY <1>3, <1>5, <4>1
      <3> QED
        BY <1>2, <3>1, <3>2
    <2>2. ASSUME NEW i \in 1 .. Len(order')
          PROVE  order'[i] \in live'
      <3>1. CASE i = Len(order) + 1
        BY <1>2, <1>3, <3>1
      <3>2. CASE i # Len(order) + 1
        <4>1. i \in 1 .. Len(order)
          BY <1>3, <1>5, <3>2
        <4> QED
          BY <1>1, <1>2, <1>3, <4>1, Places
      <3> QED
        BY <3>1, <3>2
    <2> QED
      BY <2>1, <2>2
  <1>9. \A i, j \in 1 .. Len(order') : order'[i] = order'[j] => i = j
    <2> SUFFICES ASSUME NEW i \in 1 .. Len(order'), NEW j \in 1 .. Len(order'),
                        order'[i] = order'[j]
                 PROVE  i = j
      OBVIOUS
    <2>1. (i \in 1 .. Len(order) \/ i = Len(order) + 1) /\ (j \in 1 .. Len(order) \/ j = Len(order) + 1)
      BY <1>3, <1>5
    <2> QED
      BY <1>1, <1>3, <1>7, <2>1, Places
  <1>10. CASE order = <<>>
    <2>1. /\ head' = n /\ next' = [next EXCEPT ![n] = NULL] /\ Len(order) = 0 /\ Len(order') = 1
          /\ order'[1] = n /\ order'[Len(order')] = n
      BY <1>1, <1>3, <1>4, <1>10, Places DEF Add
    <2>2. next'[tail'] = NULL /\ \A i \in 1 .. Len(order') - 1 : FALSE
      BY <1>2, <1>5, <2>1
    <2>3. Linked'
      <3>1. Chained(order', head', tail', next', prev', live')
        BY <1>2, <1>3, <1>8, <1>9, <2>1, <2>2 DEF Chained
      <3> QED
        BY <3>1, Sounds DEF Linked
    <2> QED
      BY <1>6, <2>3 DEF PointersSound
  <1>11. CASE order # <<>>
    <2>1. /\ head' = head /\ next' = [next EXCEPT ![n] = NULL, ![tail] = n]
          /\ prev' = [prev EXCEPT ![n] = tail]
      BY <1>4, <1>11 DEF Add
    <2>2. Len(order) >= 1 /\ head = order[1] /\ tail = order[Len(order)] /\ tail # n
      BY <1>1, <1>5, <1>7, <1>11, Places
    <2>3. head' = order'[1] /\ tail' = order'[Len(order')] /\ next'[tail'] = NULL
      BY <1>2, <1>3, <1>5, <2>1, <2>2
    <2>4. ASSUME NEW i \in 1 .. Len(order') - 1
          PROVE  next'[order'[i]] = order'[i + 1] /\ prev'[order'[i + 1]] = order'[i]
      <3>1. i \in 1 .. Len(order) /\ order'[i] = order[i] /\ order[i] \in Node
        BY <1>1, <1>3, <1>5, Places
      <3>2. CASE i = Len(order)
        BY <1>3, <1>5, <2>1, <2>2, <3>1, <3>2
      <3>3. CASE i # Len(order)
        <4>1. i \in 1 .. Len(order) - 1 /\ i + 1 \in 1 .. Len(order) /\ order'[i + 1] = order[i + 1]
          BY <1>3, <1>5, <3>1, <3>3
        <4>2. order[i] # tail /\ order[i] # n /\ order[i + 1] # n /\ order[i + 1] \in Node
          BY <1>1, <1>5, <1>7, <2>2, <3>1, <3>3, <4>1, Places
        <4>3. next[order[i]] = order[i + 1] /\ prev[order[i + 1]] = order[i]
          BY <1>1, <4>1, Places
        <4> QED
          BY <1>5, <2>1, <3>1, <4>1, <4>2, <4>3
      <3> QED
        BY <3>2, <3>3
    <2>5. Linked'
      <3>1. Chained(order', head', tail', next', prev', live')
        BY <1>3, <1>8, <1>9, <2>3, <2>4 DEF Chained
      <3> QED
        BY <3>1, Sounds DEF Linked
    <2> QED
      BY <1>6, <2>5 DEF PointersSound
  <1> QED
    BY <1>10, <1>11

LEMMA Pushed ==
    ASSUME NEW S, NEW q \in Seq(S), NEW x \in S
    PROVE  /\ <<x>> \o q \in Seq(S) /\ Len(<<x>> \o q) = Len(q) + 1 /\ <<x>> \o q # <<>>
           /\ (<<x>> \o q)[1] = x /\ \A i \in 1 .. Len(q) : (<<x>> \o q)[i + 1] = q[i]
           /\ \A i \in 2 .. Len(q) + 1 : (<<x>> \o q)[i] = q[i - 1]
  OBVIOUS

LEMMA PrependSound ==
    ASSUME NodeAssumption, PointersSound, NEW n \in Node, NEW o \in Object, Prepend(n, o)
    PROVE  PointersSound'
  <1>1. ListTyped /\ Linked /\ ~freed /\ n \notin live
    BY DEF PointersSound, Prepend, NewNode
  <1>2. /\ live' = live \cup {n} /\ order' = <<n>> \o order /\ head' = n
        /\ data' = [data EXCEPT ![n] = o] /\ freed' = freed
    BY DEF Prepend, NewNode
  <1>3. /\ order \in Seq(Node) /\ order' \in Seq(Node) /\ order' # <<>> /\ Len(order) \in Nat
        /\ Len(order') = Len(order) + 1 /\ order'[1] = n
        /\ \A i \in 1 .. Len(order) : order'[i + 1] = order[i]
        /\ \A i \in 2 .. Len(order') : order'[i] = order[i - 1]
    <2>1. order \in Seq(Node) /\ Len(order) \in Nat
      BY <1>1 DEF ListTyped
    <2> QED
      BY <1>2, <2>1, Pushed
  <1>4. LooksEmpty <=> order = <<>>
    BY <1>1, Places DEF LooksEmpty, NodeAssumption
  <1>5. /\ head \in Node \/ order = <<>>
        /\ next \in [Node -> Pointer] /\ prev \in [Node -> Pointer]
    BY <1>1, <1>3, Places DEF ListTyped
  <1>6. ListTyped'
    <2>1. tail' \in Pointer /\ next' \in [Node -> Pointer] /\ prev' \in [Node -> Pointer]
      BY <1>1, <1>4, <1>5, ZenonT(30) DEF Prepend, ListTyped, Pointer
    <2>2. data' \in [Node -> Object \cup {NULL}] /\ live' \subseteq Node /\ head' \in Pointer
      BY <1>1, <1>2 DEF ListTyped, Pointer
    <2> QED
      BY <1>1, <1>2, <1>3, <2>1, <2>2 DEF ListTyped
  <1>7. \A i \in 1 .. Len(order) : order[i] # n /\ order[i] \in Node
    BY <1>1, Places
  <1>8. live' = {order'[i] : i \in 1 .. Len(order')}
    <2>1. ASSUME NEW m \in live'
          PROVE  \E i \in 1 .. Len(order') : m = order'[i]
      <3>1. CASE m = n
        BY <1>3, <3>1
      <3>2. CASE m \in live
        <4>1. PICK i \in 1 .. Len(order) : m = order[i]
          BY <1>1, <3>2, Places
        <4>2. i + 1 \in 1 .. Len(order') /\ m = order'[i + 1]
          BY <1>3, <4>1
        <4> QED
          BY <4>2
      <3> QED
        BY <1>2, <3>1, <3>2
    <2>2. ASSUME NEW i \in 1 .. Len(order')
          PROVE  order'[i] \in live'
      <3>1. CASE i = 1
        BY <1>2, <1>3, <3>1
      <3>2. CASE i # 1
        <4>1. i - 1 \in 1 .. Len(order) /\ i \in 2 .. Len(order')
          BY <1>3, <3>2
        <4> QED
          BY <1>1, <1>2, <1>3, <4>1, Places
      <3> QED
        BY <3>1, <3>2
    <2> QED
      BY <2>1, <2>2
  <1>9. \A i, j \in 1 .. Len(order') : order'[i] = order'[j] => i = j
    <2> SUFFICES ASSUME NEW i \in 1 .. Len(order'), NEW j \in 1 .. Len(order'),
                        order'[i] = order'[j]
                 PROVE  i = j
      OBVIOUS
    <2>1. /\ i = 1 \/ (i \in 2 .. Len(order') /\ i - 1 \in 1 .. Len(order))
          /\ j = 1 \/ (j \in 2 .. Len(order') /\ j - 1 \in 1 .. Len(order))
      BY <1>3
    <2>2. CASE i = 1 \/ j = 1
      BY <1>3, <1>7, <2>1, <2>2
    <2>3. CASE i # 1 /\ j # 1
      <3>1. order[i - 1] = order[j - 1]
        BY <1>3, <2>1, <2>3
      <3>2. i - 1 = j - 1
        BY <1>1, <2>1, <2>3, <3>1, Places
      <3> QED
        BY <3>2
    <2> QED
      BY <2>2, <2>3
  <1>10. CASE order = <<>>
    <2>1. /\ tail' = n /\ next' = [next EXCEPT ![n] = NULL] /\ Len(order) = 0 /\ Len(order') = 1
      BY <1>1, <1>3, <1>4, <1>10, Places DEF Prepend
    <2>2. next'[tail'] = NULL /\ \A i \in 1 .. Len(order') - 1 : FALSE
      BY <1>2, <1>5, <2>1
    <2>3. Chained(order', head', tail', next', prev', live')
      BY <1>2, <1>3, <1>8, <1>9, <2>1, <2>2 DEF Chained
    <2> QED
      BY <1>6, <2>3, Sounds DEF Linked, PointersSound
  <1>11. CASE order # <<>>
    <2>1. /\ tail' = tail /\ next' = [next EXCEPT ![n] = head]
          /\ prev' = [prev EXCEPT ![n] = NULL, ![head] = n]
      BY <1>4, <1>11 DEF Prepend
    <2>2. /\ Len(order) >= 1 /\ head = order[1] /\ tail = order[Len(order)] /\ next[tail] = NULL
          /\ head # n /\ tail # n /\ tail \in Node
      BY <1>1, <1>3, <1>7, <1>11, Places
    <2>3. head' = order'[1] /\ tail' = order'[Len(order')] /\ next'[tail'] = NULL
      BY <1>2, <1>3, <1>5, <2>1, <2>2
    <2>4. ASSUME NEW i \in 1 .. Len(order') - 1
          PROVE  next'[order'[i]] = order'[i + 1] /\ prev'[order'[i + 1]] = order'[i]
      <3>1. i \in 1 .. Len(order) /\ order'[i + 1] = order[i] /\ order[i] \in Node
        BY <1>3, <1>7
      <3>2. CASE i = 1
        BY <1>2, <1>3, <1>5, <2>1, <2>2, <3>1, <3>2
      <3>3. CASE i # 1
        <4>1. i - 1 \in 1 .. Len(order) - 1 /\ i \in 2 .. Len(order') /\ order'[i] = order[i - 1]
          BY <1>3, <3>1, <3>3
        <4>2. order[i] # head /\ order[i] # n /\ order[i - 1] # n /\ order[i - 1] \in Node
          BY <1>1, <1>3, <1>7, <2>2, <3>1, <3>3, <4>1, Places
        <4>3. next[order[i - 1]] = order[i - 1 + 1] /\ prev[order[i - 1 + 1]] = order[i - 1]
          BY <1>1, <4>1, Places
        <4>4. i - 1 + 1 = i
          BY <3>1
        <4> QED
          BY <1>5, <2>1, <3>1, <4>1, <4>2, <4>3, <4>4
      <3> QED
        BY <3>2, <3>3
    <2>5. Chained(order', head', tail', next', prev', live')
      BY <1>3, <1>8, <1>9, <2>3, <2>4 DEF Chained
    <2> QED
      BY <1>6, <2>5, Sounds DEF Linked, PointersSound
  <1> QED
    BY <1>10, <1>11

LEMMA PopSound ==
    ASSUME NodeAssumption, PointersSound, Pop
    PROVE  PointersSound'
  <1>1. ListTyped /\ Linked /\ ~freed /\ head # NULL
    BY DEF PointersSound, Pop
  <1>2. /\ live' = live \ {head} /\ order' = Tail(order) /\ head' = next[head]
        /\ UNCHANGED <<tail, next, prev, data, freed>>
    BY DEF Pop
  <1>3. order # <<>> /\ head = order[1] /\ tail = order[Len(order)] /\ next[tail] = NULL
    BY <1>1, Places
  <1>4. /\ order \in Seq(Node) /\ order' \in Seq(Node) /\ Len(order) \in Nat /\ Len(order) >= 1
        /\ Len(order') = Len(order) - 1
        /\ \A i \in 1 .. Len(order') : order'[i] = order[i + 1]
    <2>1. order \in Seq(Node)
      BY <1>1 DEF ListTyped
    <2> QED
      BY <1>2, <1>3, <2>1, HeadTailProperties, LenProperties, EmptySeq
  <1>5. ListTyped'
    <2>1. head \in Node
      BY <1>1, <1>3, <1>4, Places
    <2> QED
      BY <1>1, <1>2, <1>4, <2>1 DEF ListTyped
  <1>6. live' = {order'[i] : i \in 1 .. Len(order')}
    <2>1. ASSUME NEW m \in live'
          PROVE  \E i \in 1 .. Len(order') : m = order'[i]
      <3>1. PICK i \in 1 .. Len(order) : m = order[i]
        BY <1>1, <1>2, Places
      <3>2. i # 1
        BY <1>2, <1>3, <3>1
      <3>3. i - 1 \in 1 .. Len(order') /\ order'[i - 1] = order[(i - 1) + 1] /\ (i - 1) + 1 = i
        BY <1>4, <3>2
      <3> QED
        BY <3>1, <3>3
    <2>2. ASSUME NEW i \in 1 .. Len(order')
          PROVE  order'[i] \in live'
      <3>1. i + 1 \in 1 .. Len(order) /\ 1 \in 1 .. Len(order) /\ i + 1 # 1
        BY <1>4
      <3> QED
        BY <1>1, <1>2, <1>3, <1>4, <3>1, Places
    <2> QED
      BY <2>1, <2>2
  <1>7. \A i, j \in 1 .. Len(order') : order'[i] = order'[j] => i = j
    <2> SUFFICES ASSUME NEW i \in 1 .. Len(order'), NEW j \in 1 .. Len(order'),
                        order'[i] = order'[j]
                 PROVE  i = j
      OBVIOUS
    <2>1. /\ i + 1 \in 1 .. Len(order) /\ j + 1 \in 1 .. Len(order)
          /\ order[i + 1] = order[j + 1]
      BY <1>4
    <2>2. i + 1 = j + 1
      BY <1>1, <2>1, Places
    <2> QED
      BY <2>2
  <1>8. order' = <<>> <=> Len(order') = 0
    BY <1>4, EmptySeq
  <1>9. ASSUME order' = <<>>
        PROVE  head' = NULL
    BY <1>2, <1>3, <1>4, <1>8, <1>9
  <1>10. ASSUME order' # <<>>
         PROVE  head' = order'[1] /\ tail' = order'[Len(order')] /\ next'[tail'] = NULL
    <2>1. Len(order) >= 2 /\ 1 \in 1 .. Len(order) - 1 /\ order'[1] = order[2]
          /\ order'[Len(order')] = order[Len(order') + 1] /\ Len(order') + 1 = Len(order)
      BY <1>4, <1>8, <1>10
    <2>2. next[order[1]] = order[1 + 1]
      BY <1>1, <2>1, Places
    <2> QED
      BY <1>2, <1>3, <2>1, <2>2
  <1>11. ASSUME NEW i \in 1 .. Len(order') - 1
         PROVE  next'[order'[i]] = order'[i + 1] /\ prev'[order'[i + 1]] = order'[i]
    <2>1. /\ i + 1 \in 1 .. Len(order) - 1 /\ order'[i] = order[i + 1]
          /\ order'[i + 1] = order[i + 1 + 1]
      BY <1>4
    <2>2. next[order[i + 1]] = order[i + 1 + 1] /\ prev[order[i + 1 + 1]] = order[i + 1]
      BY <1>1, <2>1, Places
    <2> QED
      BY <1>2, <2>1, <2>2
  <1>12. Chained(order', head', tail', next', prev', live')
    BY <1>4, <1>6, <1>7, <1>9, <1>10, <1>11 DEF Chained
  <1> QED
    BY <1>5, <1>12, Sounds DEF Linked, PointersSound

LEMMA FreeSound ==
    ASSUME PointersSound, Free
    PROVE  PointersSound'
  <1>1. <<>> \in Seq(Node)
    OBVIOUS
  <1> QED
    BY <1>1 DEF PointersSound, Free, ListTyped

\* No other container touches the list.
LEMMA OthersKeepList ==
    ASSUME UserStep \/ VectorStep \/ SetStep \/ MapStep \/ UNCHANGED vars
    PROVE  UNCHANGED list
  BY DEF UserStep, VectorStep, SetStep, MapStep, vars

\* Whatever is added at either end, popped and freed, the pointers of the cells
\* in use agree with the order in which they should be met, though popped cells
\* leave dangling pointers and are handed out again (linked_vector.c, queue.c,
\* stack.c, queue_set.c).
THEOREM ListSound ==
    ASSUME NodeAssumption
    PROVE  Spec => []PointersSound
  <1>1. Init => PointersSound
    BY NewListSound DEF Init
  <1>2. ASSUME PointersSound, [Next]_vars
        PROVE  PointersSound'
    <2>1. CASE ListStep
      <3>1. ASSUME NEW n \in Node, NEW o \in Object, Add(n, o) \/ Prepend(n, o)
            PROVE  PointersSound'
        BY <1>2, <3>1, AddSound, PrependSound
      <3>2. ASSUME NEW n \in Node, NEW o \in Object, QueueSetAdd(n, o)
            PROVE  PointersSound'
        BY <1>2, <3>2, AddSound DEF QueueSetAdd
      <3> QED
        BY <1>2, <2>1, <3>1, <3>2, PopSound, FreeSound DEF ListStep
    <2>2. CASE UserStep \/ VectorStep \/ SetStep \/ MapStep \/ UNCHANGED vars
      BY <1>2, <2>2, OthersKeepList DEF list, PointersSound, ListTyped, Linked
    <2> QED
      BY <1>2, <2>1, <2>2 DEF Next
  <1> QED
    BY <1>1, <1>2, PTL DEF Spec

-----------------------------------------------------------------------------
(* The walk from head, and the double-ended queue it finds.                *)

\* linked_vector_get from a head h along nx, and the data d of the cells of o
Walk(h, nx) ==
    CHOOSE f : f = [i \in 0 .. Cardinality(Node) |->
                      IF i = 0 THEN h ELSE IF f[i - 1] = NULL THEN NULL ELSE nx[f[i - 1]]]
WalkedAlong(h, nx, d) ==
    [i \in 1 .. Cardinality(Range(Walk(h, nx)) \ {NULL}) |-> d[Walk(h, nx)[i - 1]]]
Along(o, d) == [i \in 1 .. Len(o) |-> d[o[i]]]

LEMMA ChainLength ==
    ASSUME NodeAssumption, NEW o, NEW h, NEW t, NEW nx, NEW pv, NEW l, Chained(o, h, t, nx, pv, l)
    PROVE  /\ Len(o) \in Nat /\ Cardinality(l) = Len(o)
           /\ Cardinality(Node) \in Nat /\ Len(o) <= Cardinality(Node)
           /\ \A i \in 1 .. Len(o) : o[i] \in Node /\ o[i] # NULL
  <1>1. /\ o \in Seq(Node) /\ Len(o) \in Nat /\ o \in [1 .. Len(o) -> Node]
        /\ l = {o[i] : i \in 1 .. Len(o)} /\ \A i, j \in 1 .. Len(o) : o[i] = o[j] => i = j
    BY LenProperties DEF Chained
  <1>2. o \in Bijection(1 .. Len(o), l)
    BY <1>1 DEF Bijection, Injection, Surjection, IsInjective
  <1>3. IsFiniteSet(1 .. Len(o)) /\ Cardinality(1 .. Len(o)) = Len(o)
    BY <1>1, FS_Interval
  <1>4. Cardinality(l) = Len(o)
    BY <1>2, <1>3, FS_Bijection DEF ExistsBijection
  <1>5. l \in SUBSET Node
    BY <1>1
  <1>6. Cardinality(l) <= Cardinality(Node) /\ Cardinality(Node) \in Nat
    BY <1>5, FS_Subset, FS_CardinalityType DEF NodeAssumption
  <1> QED
    BY <1>1, <1>4, <1>6 DEF NodeAssumption

LEMMA WalkFinds ==
    ASSUME NodeAssumption, NEW o, NEW h, NEW t, NEW nx, NEW pv, NEW l, Chained(o, h, t, nx, pv, l)
    PROVE  /\ Walk(h, nx) = [i \in 0 .. Cardinality(Node) |->
                                IF i < Len(o) THEN o[i + 1] ELSE NULL]
           /\ Range(Walk(h, nx)) \ {NULL} = l
           /\ \A i \in 1 .. Len(o) : Walk(h, nx)[i - 1] = o[i]
  <1> DEFINE C == Cardinality(Node)
             F == [i \in 0 .. C |-> IF i < Len(o) THEN o[i + 1] ELSE NULL]
             W == Walk(h, nx)
  <1>1. /\ Len(o) \in Nat /\ C \in Nat /\ Len(o) <= C
        /\ \A i \in 1 .. Len(o) : o[i] \in Node /\ o[i] # NULL
    BY ChainLength
  <1>2. /\ Len(o) = 0 => h = NULL
        /\ Len(o) > 0 => h = o[1] /\ nx[o[Len(o)]] = NULL
        /\ \A i \in 1 .. Len(o) - 1 : nx[o[i]] = o[i + 1]
        /\ l = {o[i] : i \in 1 .. Len(o)}
    BY <1>1, EmptySeq DEF Chained
  <1>3. ASSUME NEW i \in 0 .. C, i # 0
        PROVE  F[i] = IF F[i - 1] = NULL THEN NULL ELSE nx[F[i - 1]]
    <2>1. i - 1 \in 0 .. C /\ F[i - 1] = IF i - 1 < Len(o) THEN o[i] ELSE NULL
      BY <1>1, <1>3
    <2>2. CASE i < Len(o)
      <3>1. i \in 1 .. Len(o) - 1 /\ i \in 1 .. Len(o) /\ i - 1 < Len(o)
        BY <1>1, <1>3, <2>2
      <3> QED
        BY <1>1, <1>2, <2>1, <2>2, <3>1
    <2>3. CASE i = Len(o)
      <3>1. i - 1 < Len(o) /\ i \in 1 .. Len(o) /\ Len(o) > 0 /\ ~(i < Len(o))
        BY <1>1, <1>3, <2>3
      <3> QED
        BY <1>1, <1>2, <2>1, <2>3, <3>1
    <2>4. CASE i > Len(o)
      BY <1>1, <2>1, <2>4
    <2> QED
      BY <1>1, <2>2, <2>3, <2>4
  <1>4. F[0] = h
    BY <1>1, <1>2
  <1>5. F = [i \in 0 .. C |-> IF i = 0 THEN h ELSE IF F[i - 1] = NULL THEN NULL ELSE nx[F[i - 1]]]
    BY <1>3, <1>4
  <1> HIDE DEF F
  <1>6. W = [i \in 0 .. C |-> IF i = 0 THEN h ELSE IF W[i - 1] = NULL THEN NULL ELSE nx[W[i - 1]]]
    BY <1>5 DEF Walk
  <1> HIDE DEF W
  <1>7. \A i \in 0 .. C : W[i] = F[i]
    <2> DEFINE S == {n \in Nat : n <= C => W[n] = F[n]}
    <2>1. 0 \in S
      BY <1>1, <1>4, <1>6
    <2>2. ASSUME NEW n \in Nat, n \in S
          PROVE  n + 1 \in S
      <3> SUFFICES ASSUME n + 1 <= C
                   PROVE  W[n + 1] = F[n + 1]
        OBVIOUS
      <3>1. n + 1 \in 0 .. C /\ n + 1 # 0 /\ (n + 1) - 1 = n /\ n <= C
        BY <1>1
      <3>2. W[n] = F[n]
        BY <2>2, <3>1
      <3> QED
        BY <1>3, <1>6, <3>1, <3>2
    <2> HIDE DEF S
    <2>3. Nat \subseteq S
      BY <2>1, <2>2, SetInduction
    <2> QED
      BY <1>1, <2>3 DEF S
  <1>8. W = F
    <2>1. DOMAIN F = 0 .. C /\ F = [i \in 0 .. C |-> F[i]]
      BY DEF F
    <2>2. W = [i \in 0 .. C |-> W[i]]
      BY <1>6
    <2> QED
      BY <1>7, <2>1, <2>2
  <1>9. \A i \in 1 .. Len(o) : W[i - 1] = o[i]
    <2> SUFFICES ASSUME NEW i \in 1 .. Len(o)
                 PROVE  F[i - 1] = o[i]
      BY <1>8
    <2>1. i - 1 \in 0 .. C /\ i - 1 < Len(o) /\ (i - 1) + 1 = i
      BY <1>1
    <2> QED
      BY <2>1 DEF F
  <1>10. Range(W) \ {NULL} = l
    <2>1. ASSUME NEW x \in l
          PROVE  x \in Range(W) /\ x # NULL
      <3>1. PICK i \in 1 .. Len(o) : x = o[i]
        BY <1>2
      <3>2. i - 1 \in 0 .. C /\ DOMAIN W = 0 .. C
        BY <1>1, <1>6
      <3> QED
        BY <1>1, <1>9, <3>1, <3>2 DEF Range
    <2>2. ASSUME NEW x \in Range(W), x # NULL
          PROVE  x \in l
      <3>1. PICK i \in 0 .. C : x = F[i]
        BY <1>8 DEF Range, F
      <3>2. i < Len(o) /\ x = o[i + 1]
        BY <2>2, <3>1 DEF F
      <3>3. i + 1 \in 1 .. Len(o)
        BY <1>1, <3>2
      <3> QED
        BY <1>2, <3>2, <3>3
    <2> QED
      BY <2>1, <2>2
  <1> QED
    BY <1>8, <1>9, <1>10 DEF F, W

LEMMA FoundAlong ==
    ASSUME NodeAssumption, NEW o, NEW h, NEW t, NEW nx, NEW pv, NEW l, NEW d,
           Chained(o, h, t, nx, pv, l)
    PROVE  WalkedAlong(h, nx, d) = Along(o, d)
  <1>1. /\ Range(Walk(h, nx)) \ {NULL} = l /\ Cardinality(l) = Len(o)
        /\ \A i \in 1 .. Len(o) : Walk(h, nx)[i - 1] = o[i]
    BY WalkFinds, ChainLength
  <1> QED
    BY <1>1 DEF Along, WalkedAlong

\* What the specification of a double-ended queue sees.
Seen == IF freed THEN <<>> ELSE Objects

LEMMA SeenNow ==
    ASSUME NodeAssumption, PointersSound, ~freed
    PROVE  Chained(order, head, tail, next, prev, live) /\ Seen = Along(order, data)
  <1>1. ListTyped /\ Linked
    BY DEF PointersSound
  <1>2. Chained(order, head, tail, next, prev, live)
    <2>1. live = {order[i] : i \in 1 .. Len(order)}
      BY <1>1, Places
    <2> QED
      BY <1>1, <2>1, Places DEF Chained, ListTyped
  <1>3. Get = Walk(head, next)
    BY DEF Get, Walk
  <1>4. Objects = WalkedAlong(head, next, data)
    BY <1>3 DEF Objects, Walked, WalkedAlong
  <1>5. Objects = Along(order, data)
    BY <1>2, <1>4, FoundAlong
  <1> QED
    BY <1>2, <1>5 DEF Seen

\* The same one step later.
LEMMA SeenNext ==
    ASSUME NodeAssumption, PointersSound', ~freed'
    PROVE  Chained(order', head', tail', next', prev', live') /\ Seen' = Along(order', data')
  <1>1. ListTyped' /\ Linked'
    BY DEF PointersSound
  <1>2. Chained(order', head', tail', next', prev', live')
    <2>1. order' \in Seq(Node) /\ DOMAIN order' = 1 .. Len(order')
      BY <1>1, LenProperties DEF ListTyped
    <2> QED
      BY <1>1, <2>1 DEF Chained, Linked, Range, IsInjective, Last
  <1>3. Get' = Walk(head', next')
    BY DEF Get, Walk
  <1>4. Objects' = WalkedAlong(head', next', data')
    BY <1>3 DEF Objects, Walked, WalkedAlong
  <1>5. Objects' = Along(order', data')
    BY <1>2, <1>4, FoundAlong
  <1> QED
    BY <1>2, <1>5 DEF Seen

LEMMA AlongTyped ==
    ASSUME NEW o \in Seq(Node), NEW d \in [Node -> Object \cup {NULL}]
    PROVE  Along(o, d) \in Seq(Object \cup {NULL}) /\ Len(Along(o, d)) = Len(o)
           /\ \A i \in 1 .. Len(o) : Along(o, d)[i] = d[o[i]]
  <1>1. Len(o) \in Nat /\ \A i \in 1 .. Len(o) : d[o[i]] \in Object \cup {NULL}
    BY LenProperties, ElementOfSeq
  <1> QED
    BY <1>1 DEF Along

\* Every step of a program is a step of the queue, or changes nothing it sees.
LEMMA DequeStep ==
    ASSUME NodeAssumption, PointersSound, PointersSound', [Next]_vars
    PROVE  List!Next \/ Seen' = Seen
  <1>1. ASSUME UserStep \/ VectorStep \/ SetStep \/ MapStep \/ UNCHANGED vars
        PROVE  Seen' = Seen
    <2>1. UNCHANGED list
      BY <1>1, OthersKeepList
    <2>2. CASE freed
      BY <2>1, <2>2 DEF Seen, list
    <2>3. CASE ~freed
      BY <2>1, <2>3, SeenNow, SeenNext DEF list
    <2> QED
      BY <2>2, <2>3
  <1>2. ASSUME NEW n \in Node, NEW o \in Object, Add(n, o)
        PROVE  Seen' = Append(Seen, o)
    <2>1. ~freed /\ ~freed' /\ n \notin live /\ data' = [data EXCEPT ![n] = o]
          /\ order' = Append(order, n)
      BY <1>2 DEF Add, NewNode
    <2>2. ListTyped /\ Linked
      BY <2>1 DEF PointersSound
    <2>3. Seen = Along(order, data) /\ Seen' = Along(order', data')
      BY <2>1, SeenNow, SeenNext
    <2>4. /\ order \in Seq(Node) /\ Len(order) \in Nat /\ order' \in Seq(Node)
          /\ Len(order') = Len(order) + 1
          /\ order'[Len(order) + 1] = n /\ \A i \in 1 .. Len(order) : order'[i] = order[i]
          /\ data \in [Node -> Object \cup {NULL}] /\ data' \in [Node -> Object \cup {NULL}]
      BY <2>1, <2>2, AppendProperties, LenProperties DEF ListTyped
    <2>5. \A i \in 1 .. Len(order) : order[i] # n /\ order[i] \in Node
      BY <2>1, <2>2, Places
    <2> DEFINE was == Along(order, data)
               is == Along(order', data')
               want == Append(was, o)
    <2>6. /\ was \in Seq(Object \cup {NULL}) /\ Len(was) = Len(order)
          /\ \A i \in 1 .. Len(order) : was[i] = data[order[i]]
      BY <2>4, AlongTyped
    <2>7. /\ is \in Seq(Object \cup {NULL}) /\ Len(is) = Len(order')
          /\ \A i \in 1 .. Len(order') : is[i] = data'[order'[i]]
      BY <2>4, AlongTyped
    <2> HIDE DEF was, is
    <2>8. /\ want \in Seq(Object \cup {NULL}) /\ Len(want) = Len(order) + 1
          /\ want[Len(order) + 1] = o /\ \A i \in 1 .. Len(order) : want[i] = was[i]
      <3>1. o \in Object \cup {NULL}
        OBVIOUS
      <3> QED
        BY <2>6, <3>1, AppendProperties
    <2> HIDE DEF want
    <2>9. \A i \in 1 .. Len(is) : is[i] = want[i]
      <3> SUFFICES ASSUME NEW i \in 1 .. Len(order) + 1
                   PROVE  is[i] = want[i]
        BY <2>4, <2>7
      <3>1. CASE i = Len(order) + 1
        BY <2>1, <2>4, <2>7, <2>8, <3>1
      <3>2. CASE i # Len(order) + 1
        <4>1. i \in 1 .. Len(order)
          BY <2>4, <3>2
        <4> QED
          BY <2>1, <2>4, <2>5, <2>6, <2>7, <2>8, <4>1
      <3> QED
        BY <3>1, <3>2
    <2>10. is = want
      BY <2>4, <2>7, <2>8, <2>9, SeqEqual
    <2> QED
      BY <2>3, <2>10 DEF was, is, want
  <1>3. ASSUME NEW n \in Node, NEW o \in Object, Prepend(n, o)
        PROVE  Seen' = <<o>> \o Seen
    <2>1. ~freed /\ ~freed' /\ n \notin live /\ data' = [data EXCEPT ![n] = o]
          /\ order' = <<n>> \o order
      BY <1>3 DEF Prepend, NewNode
    <2>2. ListTyped /\ Linked
      BY <2>1 DEF PointersSound
    <2>3. Seen = Along(order, data) /\ Seen' = Along(order', data')
      BY <2>1, SeenNow, SeenNext
    <2>4. /\ order \in Seq(Node) /\ Len(order) \in Nat /\ order' \in Seq(Node)
          /\ Len(order') = Len(order) + 1
          /\ order'[1] = n /\ \A i \in 2 .. Len(order) + 1 : order'[i] = order[i - 1]
          /\ data \in [Node -> Object \cup {NULL}] /\ data' \in [Node -> Object \cup {NULL}]
      <3>1. order \in Seq(Node) /\ data \in [Node -> Object \cup {NULL}]
        BY <2>2 DEF ListTyped
      <3> QED
        BY <2>1, <3>1, Pushed, LenProperties
    <2>5. \A i \in 1 .. Len(order) : order[i] # n /\ order[i] \in Node
      BY <2>1, <2>2, Places
    <2> DEFINE was == Along(order, data)
               is == Along(order', data')
               want == <<o>> \o was
    <2>6. /\ was \in Seq(Object \cup {NULL}) /\ Len(was) = Len(order)
          /\ \A i \in 1 .. Len(order) : was[i] = data[order[i]]
      BY <2>4, AlongTyped
    <2>7. /\ is \in Seq(Object \cup {NULL}) /\ Len(is) = Len(order')
          /\ \A i \in 1 .. Len(order') : is[i] = data'[order'[i]]
      BY <2>4, AlongTyped
    <2> HIDE DEF was, is
    <2>8. /\ want \in Seq(Object \cup {NULL}) /\ Len(want) = Len(order) + 1
          /\ want[1] = o /\ \A i \in 2 .. Len(order) + 1 : want[i] = was[i - 1]
      <3>1. o \in Object \cup {NULL}
        OBVIOUS
      <3> QED
        BY <2>6, <3>1, Pushed
    <2> HIDE DEF want
    <2>9. \A i \in 1 .. Len(is) : is[i] = want[i]
      <3> SUFFICES ASSUME NEW i \in 1 .. Len(order) + 1
                   PROVE  is[i] = want[i]
        BY <2>4, <2>7
      <3>1. CASE i = 1
        BY <2>1, <2>4, <2>7, <2>8, <3>1
      <3>2. CASE i # 1
        <4>1. i \in 2 .. Len(order) + 1 /\ i - 1 \in 1 .. Len(order)
          BY <2>4, <3>2
        <4>2. order'[i] = order[i - 1] /\ order[i - 1] # n /\ order[i - 1] \in Node
          BY <2>4, <2>5, <4>1
        <4>3. is[i] = data'[order[i - 1]] /\ want[i] = data[order[i - 1]]
          BY <2>4, <2>6, <2>7, <2>8, <4>1, <4>2
        <4> QED
          BY <2>1, <2>4, <4>2, <4>3
      <3> QED
        BY <3>1, <3>2
    <2>10. is = want
      BY <2>4, <2>7, <2>8, <2>9, SeqEqual
    <2> QED
      BY <2>3, <2>10 DEF was, is, want
  <1>4. ASSUME Pop
        PROVE  Seen # <<>> /\ Seen' = Tail(Seen)
    <2>1. ~freed /\ ~freed' /\ data' = data /\ order' = Tail(order) /\ head # NULL
      BY <1>4 DEF Pop
    <2>2. ListTyped /\ Linked /\ order # <<>>
      BY <2>1, Places DEF PointersSound
    <2>3. Seen = Along(order, data) /\ Seen' = Along(order', data')
      BY <2>1, SeenNow, SeenNext
    <2>4. /\ order \in Seq(Node) /\ Len(order) \in Nat /\ order' \in Seq(Node)
          /\ Len(order') = Len(order) - 1 /\ Len(order) >= 1
          /\ \A i \in 1 .. Len(order) - 1 : order'[i] = order[i + 1]
          /\ data \in [Node -> Object \cup {NULL}]
      <3>1. order \in Seq(Node) /\ data \in [Node -> Object \cup {NULL}]
        BY <2>2 DEF ListTyped
      <3> QED
        BY <2>1, <2>2, <3>1, HeadTailProperties, LenProperties, EmptySeq
    <2> DEFINE was == Along(order, data)
               is == Along(order', data')
    <2>5. /\ was \in Seq(Object \cup {NULL}) /\ Len(was) = Len(order)
          /\ \A i \in 1 .. Len(order) : was[i] = data[order[i]]
      BY <2>4, AlongTyped
    <2>6. /\ is \in Seq(Object \cup {NULL}) /\ Len(is) = Len(order')
          /\ \A i \in 1 .. Len(order') : is[i] = data[order'[i]]
      BY <2>1, <2>4, AlongTyped
    <2> HIDE DEF was, is
    <2>7. /\ was # <<>> /\ Tail(was) \in Seq(Object \cup {NULL})
          /\ Len(Tail(was)) = Len(order) - 1
          /\ \A i \in 1 .. Len(order) - 1 : Tail(was)[i] = was[i + 1]
      <3>1. was # <<>>
        BY <2>4, <2>5, EmptySeq
      <3> QED
        BY <2>5, <3>1, HeadTailProperties
    <2>8. \A i \in 1 .. Len(is) : is[i] = Tail(was)[i]
      <3> SUFFICES ASSUME NEW i \in 1 .. Len(order) - 1
                   PROVE  is[i] = Tail(was)[i]
        BY <2>4, <2>6
      <3>1. i + 1 \in 1 .. Len(order)
        BY <2>4
      <3>2. Tail(was)[i] = was[i + 1] /\ was[i + 1] = data[order[i + 1]]
        BY <2>5, <2>7, <3>1
      <3>3. i \in 1 .. Len(order') /\ order'[i] = order[i + 1]
        BY <2>4
      <3> QED
        BY <2>1, <2>6, <3>2, <3>3
    <2>9. is = Tail(was)
      BY <2>4, <2>6, <2>7, <2>8, SeqEqual
    <2> QED
      BY <2>3, <2>7, <2>9 DEF was, is
  <1>5. ASSUME Free
        PROVE  Seen' = <<>>
    BY <1>5 DEF Free, Seen
  <1>6. CASE ListStep
    <2>1. ASSUME NEW n \in Node, NEW o \in Object, Add(n, o)
          PROVE  List!Next
      BY <1>2, <2>1 DEF List!Next, List!PushBack, Seen
    <2>2. ASSUME NEW n \in Node, NEW o \in Object, Prepend(n, o)
          PROVE  List!Next
      BY <1>3, <2>2 DEF List!Next, List!PushFront, Seen
    <2>3. ASSUME Pop
          PROVE  List!Next
      BY <1>4, <2>3 DEF List!Next, List!PopFront, Seen
    <2>4. ASSUME Free
          PROVE  List!Next
      BY <1>5, <2>4 DEF List!Next, List!Clear, Seen
    <2> QED
      BY <1>6, <2>1, <2>2, <2>3, <2>4 DEF ListStep, QueueSetAdd
  <1> QED
    BY <1>1, <1>6 DEF Next

\* Users of the list see a double-ended queue: every item put in comes out once,
\* in the order that the ends it was put in at make.
THEOREM IsDeque ==
    ASSUME NodeAssumption
    PROVE  Spec => ImplementsDeque
  <1>1. Init => List!Init
    <2> SUFFICES ASSUME Init
                 PROVE  Seen = <<>>
      BY DEF List!Init, Seen
    <2>1. CASE freed
      BY <2>1 DEF Seen
    <2>2. CASE ~freed
      <3>1. PointersSound /\ order = <<>>
        BY NewListSound DEF Init, NewList
      <3>2. Seen = Along(<<>>, data)
        BY <2>2, <3>1, SeenNow
      <3>3. Along(<<>>, data) = <<>>
        BY EmptySeq DEF Along
      <3> QED
        BY <3>2, <3>3
    <2> QED
      BY <2>1, <2>2
  <1>2. PointersSound /\ PointersSound' /\ [Next]_vars
           => [List!Next]_(IF freed THEN <<>> ELSE Objects)
    BY DequeStep DEF Seen
  <1> QED
    BY <1>1, <1>2, ListSound, PTL DEF Spec, ImplementsDeque, List!Spec

-----------------------------------------------------------------------------
(* Folds and places.                                                       *)

\* A non-empty set of places of a sequence has a last one.
LEMMA LastPlace ==
    ASSUME NEW n \in Nat, NEW t, t \subseteq 1 .. n, t # {}
    PROVE  Max(t) \in t /\ \A i \in t : i <= Max(t)
  <1> DEFINE T == {k \in Nat : \A i \in t : i <= k}
  <1>1. n \in T
    OBVIOUS
  <1>2. PICK k \in T : \A y \in T : k <= y
    BY <1>1, Least
  <1>3. k \in t
    <2> SUFFICES ASSUME k \notin t
                 PROVE  FALSE
      OBVIOUS
    <2>1. \A i \in t : i < k
      BY <1>2
    <2>2. PICK i \in t : TRUE
      OBVIOUS
    <2>3. k - 1 \in Nat
      BY <1>2, <2>1, <2>2
    <2>4. k - 1 \in T
      BY <2>1, <2>3
    <2> QED
      BY <1>2, <2>4
  <1>4. \E x \in t : \A y \in t : x >= y
    BY <1>2, <1>3
  <1>5. Max(t) \in t /\ \A y \in t : Max(t) >= y
    BY <1>4 DEF Max
  <1> QED
    BY <1>5

\* Folding a sequence of n items from a first value x: the function on the sets
\* of places that FoldLeft uses exists.
FoldsTo(h, n, G, x) ==
    \A t \in SUBSET (1 .. n) : h[t] = IF t = {} THEN x ELSE G[<<h[t \ {Max(t)}], Max(t)>>]

LEMMA FoldExists ==
    ASSUME NEW X, NEW n \in Nat, NEW G \in [X \X (1 .. n) -> X], NEW x \in X
    PROVE  \E h \in [SUBSET (1 .. n) -> X] : FoldsTo(h, n, G, x)
  <1> DEFINE D(k) == {t \in SUBSET (1 .. n) : \A i \in t : i <= k}
             Good(h, k) == \A t \in D(k) :
                              h[t] = IF t = {} THEN x ELSE G[<<h[t \ {Max(t)}], Max(t)>>]
             S == {k \in Nat : \E h \in [D(k) -> X] : Good(h, k)}
  <1>1. 0 \in S
    <2>1. \A t \in D(0) : t = {}
      OBVIOUS
    <2>2. Good([t \in D(0) |-> x], 0)
      BY <2>1
    <2>3. [t \in D(0) |-> x] \in [D(0) -> X]
      OBVIOUS
    <2> QED
      BY <2>2, <2>3
  <1>2. ASSUME NEW k \in Nat, k \in S
        PROVE  k + 1 \in S
    <2>1. PICK h \in [D(k) -> X] : Good(h, k)
      BY <1>2
    <2> DEFINE h2 == [t \in D(k + 1) |-> IF t = {} THEN x ELSE G[<<h[t \ {Max(t)}], Max(t)>>]]
    <2>2. ASSUME NEW t \in D(k + 1), t # {}
          PROVE  Max(t) \in 1 .. n /\ t \ {Max(t)} \in D(k)
      <3>1. Max(t) \in t /\ \A i \in t : i <= Max(t)
        BY <2>2, LastPlace
      <3>2. t \subseteq 1 .. n /\ \A i \in t : i <= k + 1
        BY <2>2
      <3>3. ASSUME NEW i \in t \ {Max(t)}
            PROVE  i <= k
        <4> DEFINE m == Max(t)
        <4>1. i \in t /\ i # m
          OBVIOUS
        <4>2. m \in t /\ i <= m
          BY <3>1, <4>1
        <4> HIDE DEF m
        <4>3. i \in Int /\ m \in Int /\ m <= k + 1
          BY <3>2, <4>1, <4>2
        <4> QED
          BY <4>1, <4>2, <4>3
      <3> QED
        BY <3>1, <3>2, <3>3
    <2>3. h2 \in [D(k + 1) -> X]
      <3> SUFFICES ASSUME NEW t \in D(k + 1), t # {}
                   PROVE  G[<<h[t \ {Max(t)}], Max(t)>>] \in X
        OBVIOUS
      <3>1. h[t \ {Max(t)}] \in X /\ Max(t) \in 1 .. n
        BY <2>1, <2>2
      <3> QED
        BY <3>1
    <2>4. \A t \in D(k) : t \in D(k + 1) /\ h2[t] = h[t]
      <3>1. \A t \in D(k) : t \in D(k + 1)
        OBVIOUS
      <3> QED
        BY <2>1, <3>1
    <2>5. ASSUME NEW t \in D(k + 1)
          PROVE  h2[t] = IF t = {} THEN x ELSE G[<<h2[t \ {Max(t)}], Max(t)>>]
      <3>1. h2[t] = IF t = {} THEN x ELSE G[<<h[t \ {Max(t)}], Max(t)>>]
        OBVIOUS
      <3> HIDE DEF h2
      <3> QED
        BY <2>2, <2>4, <3>1
    <2> HIDE DEF h2
    <2>6. Good(h2, k + 1)
      BY <2>5
    <2>7. \E f \in [D(k + 1) -> X] : Good(f, k + 1)
      <3> HIDE DEF D, Good
      <3> QED
        BY <2>3, <2>6
    <2> HIDE DEF D, Good
    <2> QED
      BY <2>7
  <1> HIDE DEF S
  <1>3. Nat \subseteq S
    BY <1>1, <1>2, SetInduction
  <1>4. D(n) = SUBSET (1 .. n)
    OBVIOUS
  <1> QED
    BY <1>3, <1>4 DEF S, FoldsTo

-----------------------------------------------------------------------------
(* Vectors.                                                                *)

Slot == Object \cup {NULL}
Vectors ==
    UNION {[opts : {"REMOVE", "KEEP"}, s : {room}, n : 0 .. room - 1,
            ptr : [0 .. room - 1 -> Slot]] : room \in Nat}

\* What every vector has.
LEMMA VectorParts ==
    ASSUME NEW v \in Vectors
    PROVE  /\ v = [opts |-> v.opts, s |-> v.s, n |-> v.n, ptr |-> v.ptr]
           /\ v.opts \in {"REMOVE", "KEEP"} /\ v.s \in Nat /\ v.n \in Nat /\ v.n < v.s
           /\ v.ptr \in [0 .. v.s - 1 -> Slot]
           /\ \A i \in 0 .. v.n - 1 : v.ptr[i] \in Slot
  <1>1. PICK room \in Nat : v \in [opts : {"REMOVE", "KEEP"}, s : {room}, n : 0 .. room - 1,
                                   ptr : [0 .. room - 1 -> Slot]]
    BY DEF Vectors
  <1>2. v.n \in Nat /\ v.n < v.s
    BY <1>1
  <1> QED
    BY <1>1, <1>2

\* A record with these parts is a vector.
LEMMA IsVector ==
    ASSUME NEW opts \in {"REMOVE", "KEEP"}, NEW s \in Nat, NEW n \in Nat, n < s,
           NEW ptr \in [0 .. s - 1 -> Slot]
    PROVE  [opts |-> opts, s |-> s, n |-> n, ptr |-> ptr] \in Vectors
  <1>1. n \in 0 .. s - 1
    OBVIOUS
  <1>2. [opts |-> opts, s |-> s, n |-> n, ptr |-> ptr]
           \in [opts : {"REMOVE", "KEEP"}, s : {s}, n : 0 .. s - 1, ptr : [0 .. s - 1 -> Slot]]
    BY <1>1
  <1> QED
    BY <1>2 DEF Vectors

\* The items of a vector, cell by cell.
LEMMA ElementsOf ==
    ASSUME NEW v \in Vectors
    PROVE  /\ Elements(v) \in Seq(Slot) /\ Len(Elements(v)) = v.n /\ DOMAIN Elements(v) = 1 .. v.n
           /\ \A i \in 1 .. v.n : Elements(v)[i] = v.ptr[i - 1] /\ v.ptr[i - 1] \in Slot
  <1>1. v.n \in Nat /\ v.s \in Nat /\ v.n < v.s /\ \A i \in 0 .. v.n - 1 : v.ptr[i] \in Slot
    BY VectorParts
  <1>2. \A i \in 1 .. v.n : i - 1 \in 0 .. v.n - 1 /\ i <= v.s
    BY <1>1
  <1>3. Elements(v) = [i \in 1 .. v.n |-> v.ptr[i - 1]]
    BY <1>2 DEF Elements
  <1>4. Elements(v) \in [1 .. v.n -> Slot]
    BY <1>1, <1>2, <1>3
  <1> QED
    BY <1>1, <1>2, <1>3, <1>4

\* vector_allocate leaves what is there.
LEMMA AllocatedIs ==
    ASSUME NEW v \in Vectors
    PROVE  /\ Allocated(v) \in Vectors
           /\ Allocated(v).opts = v.opts /\ Allocated(v).n = v.n /\ Allocated(v).s = 2 * v.s
           /\ \A i \in 0 .. v.n - 1 : Allocated(v).ptr[i] = v.ptr[i]
  <1> DEFINE ptr == [i \in 0 .. 2 * v.s - 1 |-> IF i < v.s THEN v.ptr[i] ELSE NULL]
  <1>1. /\ v = [opts |-> v.opts, s |-> v.s, n |-> v.n, ptr |-> v.ptr]
        /\ v.opts \in {"REMOVE", "KEEP"} /\ v.s \in Nat /\ v.n \in Nat /\ v.n < v.s
        /\ v.ptr \in [0 .. v.s - 1 -> Slot]
    BY VectorParts
  <1>2. ptr \in [0 .. 2 * v.s - 1 -> Slot]
    <2> SUFFICES ASSUME NEW i \in 0 .. 2 * v.s - 1, i < v.s
                 PROVE  v.ptr[i] \in Slot
      BY DEF Slot
    <2>1. i \in 0 .. v.s - 1
      BY <1>1
    <2> QED
      BY <1>1, <2>1
  <1>3. \A i \in 0 .. v.n - 1 : ptr[i] = v.ptr[i]
    BY <1>1
  <1>4. Allocated(v) = [v EXCEPT !.s = 2 * v.s, !.ptr = ptr]
    BY DEF Allocated
  <1> HIDE DEF ptr
  <1>5. Allocated(v) = [opts |-> v.opts, s |-> 2 * v.s, n |-> v.n, ptr |-> ptr]
    BY <1>1, <1>4
  <1>6. 2 * v.s \in Nat /\ v.n < 2 * v.s
    BY <1>1
  <1>7. Allocated(v) \in Vectors
    BY <1>1, <1>2, <1>5, <1>6, IsVector
  <1> QED
    BY <1>3, <1>5, <1>7

\* The first cells are those of v, and there is room for one more item.
Roomy(v, w) ==
    /\ w \in Vectors /\ w.opts = v.opts /\ w.n = v.n /\ v.n + 1 < w.s
    /\ \A i \in 0 .. v.n - 1 : w.ptr[i] = v.ptr[i]

LEMMA MadeRoom ==
    ASSUME NEW v \in Vectors
    PROVE  /\ Roomy(v, IF v.s = v.n + 1 THEN Allocated(v) ELSE v)
           /\ Roomy(v, IF v.s <= v.n + 1 THEN Allocated(v) ELSE v)
  <1>1. v.s \in Nat /\ v.n \in Nat /\ v.n < v.s
    BY VectorParts
  <1>2. CASE v.s = v.n + 1
    <2>1. v.s <= v.n + 1 /\ v.n + 1 < 2 * v.s
      BY <1>1, <1>2
    <2>2. Roomy(v, Allocated(v))
      BY <2>1, AllocatedIs DEF Roomy
    <2> QED
      BY <1>2, <2>1, <2>2
  <1>3. CASE v.s # v.n + 1
    <2>1. ~(v.s <= v.n + 1) /\ v.n + 1 < v.s
      BY <1>1, <1>3
    <2>2. Roomy(v, v)
      BY <2>1 DEF Roomy
    <2> QED
      BY <1>3, <2>1, <2>2
  <1> QED
    BY <1>2, <1>3

\* w has the items of q.
Holds(w, opts, q) == w \in Vectors /\ w.opts = opts /\ w.n = Len(q) /\ Elements(w) = q

\* Only the cells in use matter.
LEMMA SameItems ==
    ASSUME NEW v \in Vectors, NEW opts, v.opts = opts, NEW q \in Seq(Slot), v.n = Len(q),
           \A i \in 1 .. v.n : v.ptr[i - 1] = q[i]
    PROVE  Holds(v, opts, q)
  <1>1. Elements(v) = q
    BY ElementsOf
  <1> QED
    BY <1>1 DEF Holds

\* vector_add appends.
LEMMA VectorAdds ==
    ASSUME NEW v \in Vectors, NEW el \in Slot
    PROVE  Holds(VectorAdd(v, el), v.opts, Append(Elements(v), el))
  <1> DEFINE w == IF v.s = v.n + 1 THEN Allocated(v) ELSE v
             r == VectorAdd(v, el)
  <1>1. Roomy(v, w)
    BY MadeRoom
  <1>2. r = [w EXCEPT !.ptr[w.n] = el, !.n = @ + 1]
    BY DEF VectorAdd
  <1> HIDE DEF w, r
  <1>3. /\ w = [opts |-> w.opts, s |-> w.s, n |-> w.n, ptr |-> w.ptr]
        /\ w.opts \in {"REMOVE", "KEEP"} /\ w.s \in Nat /\ w.n \in Nat
        /\ w.ptr \in [0 .. w.s - 1 -> Slot] /\ v.n \in Nat
        /\ w.opts = v.opts /\ w.n = v.n /\ w.n + 1 < w.s
        /\ \A i \in 0 .. v.n - 1 : w.ptr[i] = v.ptr[i]
    BY <1>1, VectorParts DEF Roomy
  <1> DEFINE ptr == [w.ptr EXCEPT ![w.n] = el]
  <1>4. r = [opts |-> w.opts, s |-> w.s, n |-> w.n + 1, ptr |-> ptr]
    BY <1>2, <1>3
  <1>5. /\ ptr \in [0 .. w.s - 1 -> Slot] /\ ptr[w.n] = el
        /\ \A i \in 0 .. v.n - 1 : ptr[i] = v.ptr[i]
    BY <1>3
  <1> HIDE DEF ptr
  <1>6. r \in Vectors
    BY <1>3, <1>4, <1>5, IsVector
  <1> DEFINE q == Append(Elements(v), el)
  <1>7. /\ q \in Seq(Slot) /\ Len(q) = v.n + 1 /\ q[v.n + 1] = el
        /\ \A i \in 1 .. v.n : q[i] = v.ptr[i - 1]
    BY ElementsOf
  <1> HIDE DEF q
  <1>8. ASSUME NEW i \in 1 .. r.n
        PROVE  r.ptr[i - 1] = q[i]
    <2>1. r.n = v.n + 1 /\ r.ptr = ptr
      BY <1>3, <1>4
    <2>2. CASE i = v.n + 1
      BY <1>3, <1>5, <1>7, <2>1, <2>2
    <2>3. CASE i # v.n + 1
      <3>1. i \in 1 .. v.n /\ i - 1 \in 0 .. v.n - 1
        BY <1>3, <2>1, <2>3
      <3> QED
        BY <1>5, <1>7, <2>1, <3>1
    <2> QED
      BY <2>2, <2>3
  <1>9. r.opts = v.opts /\ r.n = Len(q)
    BY <1>3, <1>4, <1>7
  <1>10. Holds(r, v.opts, q)
    BY <1>6, <1>7, <1>8, <1>9, SameItems
  <1> QED
    BY <1>10 DEF r, q

\* The library's InsertAt, item by item.
LEMMA InsertAtIs ==
    ASSUME NEW S, NEW q \in Seq(S), NEW i \in 1 .. Len(q) + 1, NEW x \in S
    PROVE  /\ InsertAt(q, i, x) \in Seq(S) /\ Len(InsertAt(q, i, x)) = Len(q) + 1
           /\ \A j \in 1 .. Len(q) + 1 :
                 InsertAt(q, i, x)[j] = IF j < i THEN q[j] ELSE IF j = i THEN x ELSE q[j - 1]
  <1> DEFINE a == SubSeq(q, 1, i - 1)
             b == <<x>>
             c == SubSeq(q, i, Len(q))
  <1>1. Len(q) \in Nat /\ i \in Nat /\ i >= 1 /\ i <= Len(q) + 1
    OBVIOUS
  <1>2. a \in Seq(S) /\ Len(a) = i - 1 /\ \A j \in 1 .. i - 1 : a[j] = q[j]
    BY <1>1
  <1>3. b \in Seq(S) /\ Len(b) = 1 /\ b[1] = x
    OBVIOUS
  <1>4. c \in Seq(S) /\ Len(c) = Len(q) - i + 1
                           /\ \A j \in 1 .. Len(q) - i + 1 : c[j] = q[i + j - 1]
    BY <1>1
  <1>5. InsertAt(q, i, x) = (a \o b) \o c
    BY DEF InsertAt
  <1> HIDE DEF a, b, c
  <1> DEFINE d == a \o b
  <1>6. d \in Seq(S) /\ Len(d) = i /\ d[i] = x /\ \A j \in 1 .. i - 1 : d[j] = q[j]
    <2>1. a \in Seq(S) /\ b \in Seq(S) /\ Len(a) = i - 1 /\ Len(b) = 1
      BY <1>2, <1>3
    <2>2. /\ d \in Seq(S) /\ Len(d) = (i - 1) + 1 /\ d[(i - 1) + 1] = b[1]
          /\ \A j \in 1 .. i - 1 : d[j] = a[j]
      <3>1. /\ d \in Seq(S) /\ Len(d) = Len(a) + Len(b)
            /\ \A j \in 1 .. Len(a) + Len(b) : d[j] = IF j <= Len(a) THEN a[j] ELSE b[j - Len(a)]
        BY <2>1, ConcatProperties
      <3> HIDE DEF d
      <3> QED
        BY <1>1, <2>1, <3>1
    <2>3. (i - 1) + 1 = i
      BY <1>1
    <2> QED
      BY <1>2, <1>3, <2>2, <2>3
  <1> HIDE DEF d
  <1> DEFINE e == d \o c
  <1>7. e \in Seq(S) /\ Len(e) = Len(q) + 1
    <2>1. d \in Seq(S) /\ c \in Seq(S) /\ Len(d) + Len(c) = Len(q) + 1
      BY <1>1, <1>4, <1>6
    <2> QED
      BY <2>1
  <1>8. /\ \A j \in 1 .. i : e[j] = d[j]
        /\ \A j \in i + 1 .. Len(q) + 1 : e[j] = c[j - i]
    BY <1>1, <1>4, <1>6
  <1>9. ASSUME NEW j \in 1 .. Len(q) + 1
        PROVE  e[j] = IF j < i THEN q[j] ELSE IF j = i THEN x ELSE q[j - 1]
    <2>1. CASE j <= i
      BY <1>1, <1>6, <1>8, <2>1
    <2>2. CASE j > i
      <3> DEFINE k == j - i
      <3>1. /\ j \in i + 1 .. Len(q) + 1 /\ k \in 1 .. Len(q) - i + 1 /\ i + k - 1 = j - 1
            /\ ~(j < i) /\ j # i
        BY <1>1, <2>2
      <3>2. e[j] = c[k]
        BY <1>8, <3>1
      <3> HIDE DEF k
      <3>3. c[k] = q[j - 1]
        BY <1>4, <3>1
      <3> QED
        BY <3>1, <3>2, <3>3
    <2>3. j <= i \/ j > i
      BY <1>1
    <2> QED
      BY <2>1, <2>2, <2>3
  <1> HIDE DEF e
  <1>10. InsertAt(q, i, x) = e
    BY <1>5 DEF e, d
  <1> QED
    BY <1>7, <1>9, <1>10

\* The library's RemoveAt, item by item.
LEMMA RemoveAtIs ==
    ASSUME NEW S, NEW q \in Seq(S), NEW i \in 1 .. Len(q)
    PROVE  /\ RemoveAt(q, i) \in Seq(S) /\ Len(RemoveAt(q, i)) = Len(q) - 1
           /\ \A j \in 1 .. Len(q) - 1 : RemoveAt(q, i)[j] = IF j < i THEN q[j] ELSE q[j + 1]
  <1> DEFINE a == SubSeq(q, 1, i - 1)
             c == SubSeq(q, i + 1, Len(q))
             e == a \o c
  <1>1. Len(q) \in Nat /\ i \in Nat /\ i >= 1 /\ i <= Len(q)
    OBVIOUS
  <1>2. a \in Seq(S) /\ Len(a) = i - 1 /\ \A j \in 1 .. i - 1 : a[j] = q[j]
    BY <1>1
  <1>3. c \in Seq(S) /\ Len(c) = Len(q) - i /\ \A j \in 1 .. Len(q) - i : c[j] = q[i + j]
    BY <1>1
  <1>4. RemoveAt(q, i) = e
    BY DEF RemoveAt
  <1> HIDE DEF a, c
  <1>5. e \in Seq(S) /\ Len(e) = Len(q) - 1
    <2>1. a \in Seq(S) /\ c \in Seq(S) /\ Len(a) + Len(c) = Len(q) - 1
      BY <1>1, <1>2, <1>3
    <2> QED
      BY <2>1
  <1>6. /\ \A j \in 1 .. i - 1 : e[j] = a[j]
        /\ \A j \in i .. Len(q) - 1 : e[j] = c[j - (i - 1)]
    BY <1>1, <1>2, <1>3
  <1>7. ASSUME NEW j \in 1 .. Len(q) - 1
        PROVE  e[j] = IF j < i THEN q[j] ELSE q[j + 1]
    <2>1. CASE j < i
      BY <1>1, <1>2, <1>6, <2>1
    <2>2. CASE j >= i
      <3> DEFINE k == j - (i - 1)
      <3>1. j \in i .. Len(q) - 1 /\ k \in 1 .. Len(q) - i /\ i + k = j + 1 /\ ~(j < i)
        BY <1>1, <2>2
      <3>2. e[j] = c[k]
        BY <1>6, <3>1
      <3> HIDE DEF k
      <3>3. c[k] = q[j + 1]
        BY <1>3, <3>1
      <3> QED
        BY <3>1, <3>2, <3>3
    <2>3. j < i \/ j >= i
      BY <1>1
    <2> QED
      BY <2>1, <2>2, <2>3
  <1> HIDE DEF e
  <1> QED
    BY <1>4, <1>5, <1>7

\* vector_insert inserts.
LEMMA VectorInserts ==
    ASSUME NEW v \in Vectors, NEW el \in Slot, NEW index \in 0 .. v.n
    PROVE  Holds(VectorInsert(v, el, index), v.opts, InsertAt(Elements(v), index + 1, el))
  <1> DEFINE w == IF v.s <= v.n + 1 THEN Allocated(v) ELSE v
             r == VectorInsert(v, el, index)
  <1>1. Roomy(v, w)
    BY MadeRoom
  <1>2. r = [w EXCEPT !.ptr = [Moved(w.ptr, index + 1, index, w.n - index) EXCEPT ![index] = el],
                      !.n = @ + 1]
    BY DEF VectorInsert
  <1> HIDE DEF w, r
  <1>3. /\ w = [opts |-> w.opts, s |-> w.s, n |-> w.n, ptr |-> w.ptr]
        /\ w.opts \in {"REMOVE", "KEEP"} /\ w.s \in Nat /\ w.n \in Nat
        /\ w.ptr \in [0 .. w.s - 1 -> Slot] /\ v.n \in Nat /\ index \in Nat /\ index <= v.n
        /\ w.opts = v.opts /\ w.n = v.n /\ w.n + 1 < w.s
        /\ \A i \in 0 .. v.n - 1 : w.ptr[i] = v.ptr[i]
    BY <1>1, VectorParts DEF Roomy
  <1> DEFINE moved == Moved(w.ptr, index + 1, index, w.n - index)
             ptr == [moved EXCEPT ![index] = el]
  <1>4. r = [opts |-> w.opts, s |-> w.s, n |-> w.n + 1, ptr |-> ptr]
    BY <1>2, <1>3
  <1>5. /\ moved \in [0 .. w.s - 1 -> Slot]
        /\ \A i \in 0 .. w.s - 1 :
              moved[i] = IF i \in index + 1 .. v.n THEN w.ptr[i - 1] ELSE w.ptr[i]
    <2>1. index + 1 + (w.n - index) - 1 = v.n
      BY <1>3
    <2>2. moved = [i \in 0 .. w.s - 1 |-> IF i \in index + 1 .. v.n
            THEN w.ptr[index + i - (index + 1)]
                                        ELSE w.ptr[i]]
      BY <1>3, <2>1 DEF Moved
    <2>3. \A i \in 0 .. w.s - 1 : index + i - (index + 1) = i - 1
      BY <1>3
    <2> HIDE DEF moved
    <2>4. \A i \in 0 .. w.s - 1 : moved[i] = IF i \in index + 1 .. v.n THEN w.ptr[i - 1]
            ELSE w.ptr[i]
      BY <2>2, <2>3
    <2>5. \A i \in index + 1 .. v.n : i - 1 \in 0 .. w.s - 1
      BY <1>3
    <2>6. \A i \in 0 .. w.s - 1 : moved[i] \in Slot
      BY <1>3, <2>4, <2>5
    <2> QED
      BY <2>2, <2>4, <2>6
  <1> HIDE DEF moved
  <1>6. /\ ptr \in [0 .. w.s - 1 -> Slot] /\ ptr[index] = el
        /\ \A i \in 0 .. w.s - 1 : i # index => ptr[i] = moved[i]
    BY <1>3, <1>5
  <1> HIDE DEF ptr
  <1>7. r \in Vectors
    BY SMTT(30), <1>3, <1>4, <1>6, IsVector
  <1> DEFINE q == InsertAt(Elements(v), index + 1, el)
  <1>8. /\ q \in Seq(Slot) /\ Len(q) = v.n + 1
        /\ \A j \in 1 .. v.n + 1 : q[j] = IF j < index + 1 THEN Elements(v)[j]
                                        ELSE IF j = index + 1 THEN el ELSE Elements(v)[j - 1]
    <2>1. Elements(v) \in Seq(Slot) /\ Len(Elements(v)) = v.n /\ index + 1 \in 1 .. v.n + 1
      BY <1>3, ElementsOf
    <2> QED
      BY <2>1, InsertAtIs
  <1> HIDE DEF q
  <1>9. ASSUME NEW i \in 1 .. r.n
        PROVE  r.ptr[i - 1] = q[i]
    <2>1. r.n = v.n + 1 /\ r.ptr = ptr /\ i \in 1 .. v.n + 1 /\ i - 1 \in 0 .. w.s - 1
      BY <1>3, <1>4
    <2>2. CASE i = index + 1
      BY <1>3, <1>6, <1>8, <2>1, <2>2
    <2>3. CASE i < index + 1
      <3>1. i \in 1 .. v.n /\ i - 1 \in 0 .. v.n - 1 /\ i - 1 \notin index + 1 .. v.n
                                 /\ i - 1 # index
        BY <1>3, <2>1, <2>3
      <3>2. q[i] = v.ptr[i - 1]
        BY <1>8, <2>1, <2>3, <3>1, ElementsOf
      <3> QED
        BY <1>3, <1>5, <1>6, <2>1, <3>1, <3>2
    <2>4. CASE i > index + 1
      <3>1. /\ i - 1 \in 1 .. v.n /\ i - 1 \in index + 1 .. v.n /\ i - 1 # index
            /\ (i - 1) - 1 \in 0 .. v.n - 1 /\ ~(i < index + 1) /\ i # index + 1
        BY <1>3, <2>1, <2>4
      <3>2. q[i] = v.ptr[(i - 1) - 1]
        BY <1>8, <2>1, <3>1, ElementsOf
      <3> QED
        BY <1>3, <1>5, <1>6, <2>1, <3>1, <3>2
    <2> QED
      BY <1>3, <2>1, <2>2, <2>3, <2>4
  <1>10. r.opts = v.opts /\ r.n = Len(q)
    BY <1>3, <1>4, <1>8
  <1>11. Holds(r, v.opts, q)
    BY <1>7, <1>8, <1>9, <1>10, SameItems
  <1> QED
    BY <1>11 DEF r, q

\* vector_remove removes, or leaves a hole.
LEMMA VectorRemoves ==
    ASSUME NEW v \in Vectors, NEW index \in 0 .. v.n - 1
    PROVE  Holds(VectorRemove(v, index), v.opts,
                 IF v.opts = "KEEP" THEN ReplaceAt(Elements(v), index + 1, NULL)
                 ELSE RemoveAt(Elements(v), index + 1))
  <1> DEFINE r == VectorRemove(v, index)
             E == Elements(v)
  <1>1. /\ v = [opts |-> v.opts, s |-> v.s, n |-> v.n, ptr |-> v.ptr]
        /\ v.opts \in {"REMOVE", "KEEP"} /\ v.s \in Nat /\ v.n \in Nat /\ v.n < v.s
        /\ v.ptr \in [0 .. v.s - 1 -> Slot] /\ index \in Nat /\ index < v.n
    BY VectorParts
  <1>2. /\ E \in Seq(Slot) /\ Len(E) = v.n /\ DOMAIN E = 1 .. v.n /\ index + 1 \in 1 .. v.n
        /\ \A i \in 1 .. v.n : E[i] = v.ptr[i - 1]
    BY <1>1, ElementsOf
  <1> HIDE DEF E
  <1>3. CASE v.opts = "KEEP"
    <2> DEFINE ptr == [v.ptr EXCEPT ![index] = NULL]
               q == ReplaceAt(E, index + 1, NULL)
    <2>1. r = [v EXCEPT !.ptr[index] = NULL]
      BY <1>3 DEF VectorRemove
    <2> HIDE DEF r
    <2>2. r = [opts |-> v.opts, s |-> v.s, n |-> v.n, ptr |-> ptr]
      BY <1>1, <2>1
    <2>3. /\ ptr \in [0 .. v.s - 1 -> Slot] /\ ptr[index] = NULL
          /\ \A i \in 0 .. v.n - 1 : i # index => ptr[i] = v.ptr[i]
      BY <1>1 DEF Slot
    <2> HIDE DEF ptr
    <2>4. r \in Vectors
      BY <1>1, <2>2, <2>3, IsVector
    <2>5. /\ q \in Seq(Slot) /\ Len(q) = v.n /\ q[index + 1] = NULL
          /\ \A i \in 1 .. v.n : i # index + 1 => q[i] = E[i]
      BY <1>2 DEF ReplaceAt, Slot
    <2> HIDE DEF q
    <2>6. ASSUME NEW i \in 1 .. r.n
          PROVE  r.ptr[i - 1] = q[i]
      <3>1. r.n = v.n /\ r.ptr = ptr /\ i \in 1 .. v.n /\ i - 1 \in 0 .. v.n - 1
        BY <1>1, <2>2
      <3>2. CASE i = index + 1
        BY <1>1, <2>3, <2>5, <3>1, <3>2
      <3>3. CASE i # index + 1
        <4>1. i - 1 # index
          BY <1>1, <3>1, <3>3
        <4> QED
          BY <1>2, <2>3, <2>5, <3>1, <3>3, <4>1
      <3> QED
        BY <3>2, <3>3
    <2>7. r.opts = v.opts /\ r.n = Len(q)
      BY <2>2, <2>5
    <2>8. Holds(r, v.opts, q)
      BY <2>4, <2>5, <2>6, <2>7, SameItems
    <2> QED
      BY <1>3, <2>8 DEF q, r, E
  <1>4. CASE v.opts # "KEEP"
    <2> DEFINE n == v.n - 1
               moved == Moved(v.ptr, index, index + 1, n - index)
               ptr == [moved EXCEPT ![n] = NULL]
               q == RemoveAt(E, index + 1)
    <2>1. r = [v EXCEPT !.n = n, !.ptr = ptr]
      BY <1>4 DEF VectorRemove
    <2> HIDE DEF r
    <2>2. r = [opts |-> v.opts, s |-> v.s, n |-> n, ptr |-> ptr] /\ n \in Nat /\ n < v.s
      <3>1. n \in Nat /\ n < v.s
        BY <1>1
      <3> HIDE DEF ptr, n
      <3> QED
        BY <1>1, <2>1, <3>1
    <2>3. /\ moved \in [0 .. v.s - 1 -> Slot]
          /\ \A i \in 0 .. v.s - 1 :
                moved[i] = IF i \in index .. n - 1 THEN v.ptr[i + 1] ELSE v.ptr[i]
      <3>1. index + (n - index) - 1 = n - 1
        BY <1>1, <2>2
      <3>2. moved = [i \in 0 .. v.s - 1 |-> IF i \in index .. n - 1
              THEN v.ptr[index + 1 + i - index]
                                          ELSE v.ptr[i]]
        BY <1>1, <3>1 DEF Moved
      <3>3. \A i \in 0 .. v.s - 1 : index + 1 + i - index = i + 1
        BY <1>1
      <3> HIDE DEF moved
      <3>4. \A i \in 0 .. v.s - 1 : moved[i] = IF i \in index .. n - 1 THEN v.ptr[i + 1]
              ELSE v.ptr[i]
        BY <3>2, <3>3
      <3>5. \A i \in index .. n - 1 : i + 1 \in 0 .. v.s - 1
        BY <1>1, <2>2
      <3>6. \A i \in 0 .. v.s - 1 : moved[i] \in Slot
        BY <1>1, <3>4, <3>5
      <3> QED
        BY <3>2, <3>4, <3>6
    <2> HIDE DEF moved
    <2>4. /\ ptr \in [0 .. v.s - 1 -> Slot]
          /\ \A i \in 0 .. v.s - 1 : i # n => ptr[i] = moved[i]
      BY <1>1, <2>2, <2>3 DEF Slot
    <2> HIDE DEF ptr
    <2>5. r \in Vectors
      BY <1>1, <2>2, <2>4, IsVector
    <2>6. /\ q \in Seq(Slot) /\ Len(q) = n
          /\ \A j \in 1 .. n : q[j] = IF j < index + 1 THEN E[j] ELSE E[j + 1]
      <3>1. /\ RemoveAt(E, index + 1) \in Seq(Slot) /\ Len(RemoveAt(E, index + 1)) = Len(E) - 1
            /\ \A j \in 1 .. Len(E) - 1 :
                  RemoveAt(E, index + 1)[j] = IF j < index + 1 THEN E[j] ELSE E[j + 1]
        <4>1. index + 1 \in 1 .. Len(E)
          BY <1>2
        <4> QED
          BY <1>2, <4>1, RemoveAtIs
      <3> QED
        BY <1>2, <3>1
    <2> HIDE DEF q, n
    <2>7. ASSUME NEW i \in 1 .. r.n
          PROVE  r.ptr[i - 1] = q[i]
      <3>1. /\ r.n = n /\ r.ptr = ptr /\ i \in 1 .. n /\ i - 1 \in 0 .. v.s - 1 /\ i - 1 # n
            /\ i \in 1 .. v.n /\ i + 1 \in 1 .. v.n
        BY <1>1, <2>2 DEF n
      <3>2. CASE i < index + 1
        <4>1. i - 1 \notin index .. n - 1
          BY <1>1, <3>1, <3>2
        <4> QED
          BY <1>2, <2>3, <2>4, <2>6, <3>1, <3>2, <4>1
      <3>3. CASE ~(i < index + 1)
        <4>1. i - 1 \in index .. n - 1 /\ (i - 1) + 1 = i /\ (i + 1) - 1 = i
          BY <1>1, <2>2, <3>1, <3>3
        <4> QED
          BY <1>2, <2>3, <2>4, <2>6, <3>1, <3>3, <4>1
      <3> QED
        BY <3>2, <3>3
    <2>8. r.opts = v.opts /\ r.n = Len(q)
      BY <2>2, <2>6
    <2>9. Holds(r, v.opts, q)
      BY <2>5, <2>6, <2>7, <2>8, SameItems
    <2> QED
      BY <1>4, <2>9 DEF q, r, E
  <1> QED
    BY <1>3, <1>4

-----------------------------------------------------------------------------
(* Folds.                                                                  *)

\* The last place of a prefix.
LEMMA WholePrefix ==
    ASSUME NEW n \in Nat, NEW i \in 1 .. n
    PROVE  /\ 1 .. i \in SUBSET (1 .. n) /\ 1 .. i # {}
           /\ Max(1 .. i) = i /\ (1 .. i) \ {i} = 1 .. (i - 1)
  <1>1. 1 .. i \in SUBSET (1 .. n) /\ 1 .. i # {} /\ (1 .. i) \ {i} = 1 .. (i - 1)
    OBVIOUS
  <1>2. Max(1 .. i) \in 1 .. i /\ \A j \in 1 .. i : j <= Max(1 .. i)
    BY <1>1, LastPlace
  <1>3. i \in 1 .. i
    OBVIOUS
  <1>4. i <= Max(1 .. i)
    BY <1>2, <1>3
  <1>5. Max(1 .. i) = i
    <2> DEFINE m == Max(1 .. i)
    <2>1. m \in Int /\ m <= i
      BY <1>2
    <2>2. i <= m
      BY <1>4
    <2> HIDE DEF m
    <2>3. m = i
      BY <2>1, <2>2
    <2> QED
      BY <2>3 DEF m
  <1> QED
    BY <1>1, <1>5

\* Such a function, read along the prefixes: the values that a fold goes through,
\* one place after the other.
Follows(f, n, G, X) ==
    \A t \in SUBSET (1 .. n) :
       t # {} /\ f[t \ {Max(t)}] \in X => f[t] = G[<<f[t \ {Max(t)}], Max(t)>>]
StepsFrom(g, n, G, x) == g[0] = x /\ \A i \in 1 .. n : g[i] = G[<<g[i - 1], i>>]
Reaches(y, n, G, X, x) == \E g \in [0 .. n -> X] : StepsFrom(g, n, G, x) /\ g[n] = y

LEMMA FoldSteps ==
    ASSUME NEW X, NEW n \in Nat, NEW G \in [X \X (1 .. n) -> X], NEW x \in X, NEW f,
           f[{}] = x, Follows(f, n, G, X)
    PROVE  Reaches(f[1 .. n], n, G, X, x)
  <1> DEFINE g == [i \in 0 .. n |-> f[1 .. i]]
             S == {i \in Nat : i <= n => g[i] \in X}
  <1>1. 0 \in 0 .. n /\ g[0] = x
    <2>1. 1 .. 0 = {} /\ 0 \in 0 .. n
      OBVIOUS
    <2> QED
      BY <2>1
  <1>2. ASSUME NEW i \in 1 .. n, g[i - 1] \in X
        PROVE  g[i] = G[<<g[i - 1], i>>] /\ G[<<g[i - 1], i>>] \in X
    <2>1. i \in 0 .. n /\ i - 1 \in 0 .. n
      OBVIOUS
    <2>2. g[i] = f[1 .. i] /\ g[i - 1] = f[1 .. (i - 1)]
      BY <2>1
    <2>3. /\ 1 .. i \in SUBSET (1 .. n) /\ 1 .. i # {}
          /\ Max(1 .. i) = i /\ (1 .. i) \ {i} = 1 .. (i - 1)
      BY WholePrefix
    <2> HIDE DEF g
    <2>4. f[1 .. i] = G[<<f[1 .. (i - 1)], i>>]
      BY <1>2, <2>2, <2>3 DEF Follows
    <2>5. <<g[i - 1], i>> \in X \X (1 .. n)
      BY <1>2
    <2> QED
      BY <2>2, <2>4, <2>5
  <1> HIDE DEF g
  <1>3. 0 \in S
    BY <1>1
  <1>4. ASSUME NEW i \in Nat, i \in S
        PROVE  i + 1 \in S
    <2> SUFFICES ASSUME i + 1 <= n
                 PROVE  g[i + 1] \in X
      OBVIOUS
    <2>1. i + 1 \in 1 .. n /\ (i + 1) - 1 = i /\ g[i] \in X
      BY <1>4
    <2> QED
      BY <1>2, <2>1
  <1> HIDE DEF S
  <1>5. Nat \subseteq S
    BY <1>3, <1>4, SetInduction
  <1>6. \A i \in 0 .. n : g[i] \in X
    BY <1>5 DEF S
  <1>7. \A i \in 1 .. n : g[i] = G[<<g[i - 1], i>>]
    <2>1. \A i \in 1 .. n : i - 1 \in 0 .. n
      OBVIOUS
    <2> QED
      BY <1>2, <1>6, <2>1
  <1>8. g \in [0 .. n -> X]
    BY <1>6 DEF g
  <1>9. g[n] = f[1 .. n]
    BY DEF g
  <1> QED
    BY <1>1, <1>7, <1>8, <1>9 DEF StepsFrom, Reaches

AddedOn(f, v, s) ==
    f = [t \in SUBSET DOMAIN s |->
            IF t = {} THEN v ELSE VectorAdd(f[t \ {Max(t)}], s[Max(t)])]

\* Adding a sequence to a vector, item by item.
LEMMA AddedOneByOne ==
    ASSUME NEW v \in Vectors, NEW s \in Seq(Slot)
    PROVE  \E g \in [0 .. Len(s) -> Vectors] :
              /\ g[0] = v /\ g[Len(s)] = FoldLeft(VectorAdd, v, s)
              /\ \A i \in 1 .. Len(s) : g[i] = VectorAdd(g[i - 1], s[i])
  <1> DEFINE n == Len(s)
             G == [p \in Vectors \X (1 .. n) |-> VectorAdd(p[1], s[p[2]])]
             f == CHOOSE f : AddedOn(f, v, s)
  <1>1. n \in Nat /\ DOMAIN s = 1 .. n /\ \A i \in 1 .. n : s[i] \in Slot
    OBVIOUS
  <1>2. \A w \in Vectors, i \in 1 .. n : /\ G[<<w, i>>] = VectorAdd(w, s[i])
                                         /\ VectorAdd(w, s[i]) \in Vectors
    BY <1>1, VectorAdds DEF Holds
  <1>3. G \in [Vectors \X (1 .. n) -> Vectors]
    <2>1. \A p \in Vectors \X (1 .. n) : p[1] \in Vectors /\ p[2] \in 1 .. n
      OBVIOUS
    <2> QED
      BY <1>2, <2>1
  <1>4. FoldLeft(VectorAdd, v, s) = f[1 .. n]
    BY <1>1 DEF FoldLeft, MapThenFoldSet, AddedOn
  <1> HIDE DEF n, G, f
  <1>5. PICK h \in [SUBSET (1 .. n) -> Vectors] : FoldsTo(h, n, G, v)
    <2>1. n \in Nat
      BY <1>1
    <2> QED
      BY <1>3, <2>1, FoldExists
  <1>6. AddedOn(h, v, s)
    <2>1. ASSUME NEW t \in SUBSET (1 .. n), t # {}
          PROVE  h[t] = VectorAdd(h[t \ {Max(t)}], s[Max(t)])
      <3>1. Max(t) \in 1 .. n /\ h[t \ {Max(t)}] \in Vectors
        BY <1>1, <1>5, <2>1, LastPlace
      <3> QED
        BY <1>2, <1>5, <2>1, <3>1 DEF FoldsTo
    <2>2. \A t \in SUBSET (1 .. n) :
             h[t] = IF t = {} THEN v ELSE VectorAdd(h[t \ {Max(t)}], s[Max(t)])
      BY <1>5, <2>1 DEF FoldsTo
    <2>3. h = [t \in SUBSET (1 .. n) |->
                 IF t = {} THEN v ELSE VectorAdd(h[t \ {Max(t)}], s[Max(t)])]
      BY <1>5, <2>2
    <2> QED
      BY <1>1, <2>3 DEF AddedOn
  <1>7. AddedOn(f, v, s)
    BY <1>6 DEF f
  <1>8. \A t \in SUBSET (1 .. n) :
           f[t] = IF t = {} THEN v ELSE VectorAdd(f[t \ {Max(t)}], s[Max(t)])
    BY <1>1, <1>7 DEF AddedOn
  <1>9. Follows(f, n, G, Vectors)
    <2>1. ASSUME NEW t \in SUBSET (1 .. n), t # {}, f[t \ {Max(t)}] \in Vectors
          PROVE  f[t] = G[<<f[t \ {Max(t)}], Max(t)>>]
      BY <1>1, <1>2, <1>8, <2>1, LastPlace
    <2> QED
      BY <2>1 DEF Follows
  <1>10. PICK g \in [0 .. n -> Vectors] : StepsFrom(g, n, G, v) /\ g[n] = f[1 .. n]
    <2>1. n \in Nat /\ f[{}] = v
      BY <1>1, <1>8
    <2>2. Reaches(f[1 .. n], n, G, Vectors, v)
      BY <1>3, <1>9, <2>1, FoldSteps
    <2> QED
      BY <2>2 DEF Reaches
  <1>11. \A i \in 1 .. n : g[i] = VectorAdd(g[i - 1], s[i])
    <2>1. \A i \in 1 .. n : i - 1 \in 0 .. n
      BY <1>1
    <2> QED
      BY <1>2, <1>10, <2>1 DEF StepsFrom
  <1> QED
    BY <1>4, <1>10, <1>11 DEF n, StepsFrom

\* vector_extend appends the items of the other vector, in order.
LEMMA ExtendIs ==
    ASSUME NEW v \in Vectors, NEW s \in Seq(Slot)
    PROVE  Holds(FoldLeft(VectorAdd, v, s), v.opts, Elements(v) \o s)
  <1> DEFINE n == Len(s)
             q == Elements(v) \o s
             r == FoldLeft(VectorAdd, v, s)
  <1>1. PICK g \in [0 .. n -> Vectors] :
              /\ g[0] = v /\ g[n] = r
              /\ \A i \in 1 .. n : g[i] = VectorAdd(g[i - 1], s[i])
    <2> HIDE DEF r
    <2>1. \E g \in [0 .. Len(s) -> Vectors] :
              /\ g[0] = v /\ g[Len(s)] = FoldLeft(VectorAdd, v, s)
              /\ \A i \in 1 .. Len(s) : g[i] = VectorAdd(g[i - 1], s[i])
      BY AddedOneByOne
    <2> QED
      BY <2>1 DEF r
  <1> HIDE DEF r
  <1>2. /\ v.n \in Nat /\ n \in Nat /\ Elements(v) \in Seq(Slot) /\ Len(Elements(v)) = v.n
        /\ q \in Seq(Slot) /\ Len(q) = v.n + n
        /\ \A j \in 1 .. v.n : q[j] = Elements(v)[j]
        /\ \A j \in 1 .. n : q[v.n + j] = s[j] /\ s[j] \in Slot
    <2>1. v.n \in Nat /\ n \in Nat /\ Elements(v) \in Seq(Slot) /\ Len(Elements(v)) = v.n
      BY ElementsOf, VectorParts
    <2>2. /\ q \in Seq(Slot) /\ Len(q) = Len(Elements(v)) + Len(s)
          /\ \A i \in 1 .. Len(Elements(v)) + Len(s) :
                q[i] = IF i <= Len(Elements(v)) THEN Elements(v)[i] ELSE s[i - Len(Elements(v))]
      BY <2>1, ConcatProperties
    <2> HIDE DEF q
    <2>3. \A j \in 1 .. n : /\ v.n + j \in 1 .. v.n + n /\ ~(v.n + j <= v.n)
                            /\ (v.n + j) - v.n = j
      BY <2>1
    <2>4. \A j \in 1 .. n : s[j] \in Slot
      OBVIOUS
    <2>5. \A j \in 1 .. n : q[v.n + j] = s[j]
      BY <2>1, <2>2, <2>3
    <2>6. \A j \in 1 .. v.n : q[j] = Elements(v)[j]
      BY SMTT(30), <2>1, <2>2
    <2> QED
      BY <2>1, <2>2, <2>4, <2>5, <2>6
  <1> HIDE DEF n, q
  <1> DEFINE Good(i) == /\ g[i].opts = v.opts /\ g[i].n = v.n + i
                        /\ \A j \in 1 .. v.n + i : Elements(g[i])[j] = q[j]
             S == {i \in Nat : i <= n => Good(i)}
  <1>3. 0 \in S
    BY <1>1, <1>2
  <1>4. ASSUME NEW i \in Nat, i \in S
        PROVE  i + 1 \in S
    <2> SUFFICES ASSUME i + 1 <= n
                 PROVE  Good(i + 1)
      OBVIOUS
    <2> DEFINE w == g[i]
               k == i + 1
               x == g[k]
               e == Elements(w)
    <2>1. Good(i)
      BY <1>2, <1>4
    <2>2. w \in Vectors /\ k \in 1 .. n /\ k - 1 = i /\ s[k] \in Slot /\ q[v.n + k] = s[k]
      <3>1. i \in 0 .. n /\ k \in 1 .. n /\ k - 1 = i
        BY <1>2
      <3>2. g[i] \in Vectors
        BY <1>1, <3>1
      <3> HIDE DEF k
      <3> QED
        BY <1>2, <3>1, <3>2
    <2>3. x = VectorAdd(w, s[k])
      BY <1>1, <2>2
    <2>4. Holds(x, w.opts, Append(e, s[k]))
      <3> HIDE DEF w, k, x
      <3> QED
        BY <2>2, <2>3, VectorAdds
    <2>5. /\ e \in Seq(Slot) /\ Len(e) = v.n + i /\ \A j \in 1 .. v.n + i : e[j] = q[j]
      BY <2>1, <2>2, ElementsOf
    <2> HIDE DEF e
    <2>6. /\ x.opts = v.opts /\ x.n = v.n + k /\ Elements(x) = Append(e, s[k])
      BY SMTT(30), <1>2, <2>1, <2>2, <2>4, <2>5 DEF Holds
    <2>7. ASSUME NEW j \in 1 .. v.n + k
          PROVE  Elements(x)[j] = q[j]
      <3>1. (j \in 1 .. v.n + i /\ j # v.n + k) \/ (j = v.n + k /\ j = Len(e) + 1)
        <4>1. v.n \in Nat /\ i \in Nat /\ j \in Nat /\ j >= 1 /\ j <= v.n + (i + 1)
          BY <1>2
        <4>2. Len(e) = v.n + i
          BY <2>5
        <4>3. ASSUME NEW a \in Nat, NEW b \in Nat, NEW c \in Nat, c >= 1, c <= a + (b + 1)
              PROVE  (c \in 1 .. a + b /\ c # a + (b + 1)) \/ (c = a + (b + 1) /\ c = (a + b) + 1)
          BY <4>3
        <4> QED
          BY <4>1, <4>2, <4>3
      <3> HIDE DEF x, k
      <3> QED
        BY <2>2, <2>5, <2>6, <3>1
    <2> QED
      BY <2>6, <2>7
  <1> HIDE DEF S
  <1>5. Nat \subseteq S
    BY <1>3, <1>4, SetInduction
  <1>6. Good(n)
    BY <1>2, <1>5 DEF S
  <1>7. r \in Vectors /\ r.opts = v.opts /\ r.n = Len(q)
                            /\ \A j \in 1 .. Len(q) : Elements(r)[j] = q[j]
    BY <1>1, <1>2, <1>6
  <1>8. Elements(r) \in Seq(Slot) /\ Len(Elements(r)) = Len(q)
    BY <1>7, ElementsOf
  <1>9. Elements(r) = q
    <2> DEFINE e == Elements(r)
    <2>1. /\ e \in Seq(Slot) /\ q \in Seq(Slot) /\ Len(e) = Len(q)
          /\ \A j \in 1 .. Len(q) : e[j] = q[j]
      BY <1>2, <1>7, <1>8
    <2> HIDE DEF e
    <2>2. e = q
      BY <2>1
    <2> QED
      BY <2>2 DEF e
  <1> QED
    BY <1>7, <1>9 DEF Holds, r, q

-----------------------------------------------------------------------------
(* A new vector.                                                           *)

\* vector_new makes an empty vector.
LEMMA NewIsVector ==
    ASSUME RoomAssumption, NEW opts \in {"REMOVE", "KEEP"}
    PROVE  Holds(VectorNew(opts), opts, <<>>)
  <1> DEFINE ptr == [i \in 0 .. FirstRoom - 1 |-> NULL]
             v == VectorNew(opts)
  <1>1. FirstRoom \in Nat /\ 0 \in Nat /\ 0 < FirstRoom /\ ptr \in [0 .. FirstRoom - 1 -> Slot]
    BY RoomAssumption DEF Slot
  <1> HIDE DEF ptr
  <1>2. [opts |-> opts, s |-> FirstRoom, n |-> 0, ptr |-> ptr] \in Vectors
    BY <1>1, IsVector
  <1>3. v = [opts |-> opts, s |-> FirstRoom, n |-> 0, ptr |-> ptr]
    BY DEF VectorNew, ptr
  <1> HIDE DEF v
  <1>4. v \in Vectors /\ v.opts = opts /\ v.n = 0
    BY <1>2, <1>3
  <1>5. <<>> \in Seq(Slot) /\ Len(<<>>) = 0
    OBVIOUS
  <1>6. \A i \in 1 .. v.n : v.ptr[i - 1] = <<>>[i]
    BY <1>4
  <1>7. Holds(v, opts, <<>>)
    BY <1>4, <1>5, <1>6, SameItems
  <1> QED
    BY <1>7 DEF v

-----------------------------------------------------------------------------
(* Sets.                                                                   *)

\* A vector of objects that all look different.
IsSet(v) ==
    /\ v \in Vectors /\ v.opts = "REMOVE"
    /\ \A i \in 0 .. v.n - 1 : v.ptr[i] \in Object
    /\ \A i, j \in 0 .. v.n - 1 : Compared[v.ptr[i]] = Compared[v.ptr[j]] => i = j

Members(v) == {v.ptr[i] : i \in 0 .. v.n - 1}

\* The cells of a vector whose items are known.
LEMMA CellsOf ==
    ASSUME NEW opts, NEW q, NEW w, Holds(w, opts, q)
    PROVE  \A i \in 0 .. Len(q) - 1 : w.ptr[i] = q[i + 1]
  <1>1. w \in Vectors /\ w.n = Len(q) /\ Elements(w) = q /\ w.n \in Nat
    BY VectorParts DEF Holds
  <1>2. ASSUME NEW i \in 0 .. Len(q) - 1
        PROVE  w.ptr[i] = q[i + 1]
    <2> DEFINE k == i + 1
    <2>1. k \in 1 .. w.n /\ k - 1 = i
      BY <1>1
    <2> HIDE DEF k
    <2>2. Elements(w)[k] = w.ptr[k - 1]
      BY <1>1, <2>1, ElementsOf
    <2> QED
      BY <1>1, <2>1, <2>2 DEF k
  <1> QED
    BY <1>2

\* set_new makes an empty set.
LEMMA SetNewIs ==
    ASSUME RoomAssumption
    PROVE  IsSet(SetNew) /\ Members(SetNew) = {}
  <1> DEFINE w == SetNew
  <1>1. Holds(w, "REMOVE", <<>>)
    BY NewIsVector DEF SetNew
  <1> HIDE DEF w
  <1>2. w \in Vectors /\ w.opts = "REMOVE" /\ w.n = 0
    BY <1>1 DEF Holds
  <1>3. IsSet(w) /\ Members(w) = {}
    BY <1>2 DEF IsSet, Members
  <1> QED
    BY <1>3 DEF w

\* v grew into w by an element like el.
Entered(v, w, el) ==
    /\ IsSet(w) /\ Members(v) \subseteq Members(w) /\ Members(w) \subseteq Members(v) \cup {el}
    /\ \E x \in Members(w) : Compared[x] = Compared[el]

\* set_add leaves an element that looks like the one to add.
LEMMA SetAddIs ==
    ASSUME NEW v, IsSet(v), NEW el \in Object
    PROVE  Entered(v, SetAdd(v, el), el)
  <1>1. CASE Inside(v, el) # {}
    <2>1. SetAdd(v, el) = v
      BY <1>1 DEF SetAdd
    <2>2. PICK i \in 0 .. v.n - 1 : Compared[v.ptr[i]] = Compared[el]
      BY <1>1 DEF Inside
    <2>3. v.ptr[i] \in Members(v)
      BY DEF Members
    <2> QED
      BY <2>1, <2>2, <2>3 DEF Entered
  <1>2. CASE Inside(v, el) = {}
    <2> DEFINE w == SetAdd(v, el)
               q == Append(Elements(v), el)
    <2>1. w = VectorAdd(v, el)
      BY <1>2 DEF SetAdd
    <2> HIDE DEF w
    <2>2. v \in Vectors /\ v.opts = "REMOVE" /\ v.n \in Nat /\ el \in Slot
      BY VectorParts DEF IsSet, Slot
    <2>3. Holds(w, v.opts, q)
      BY <2>1, <2>2, VectorAdds
    <2>4. /\ Elements(v) \in Seq(Slot) /\ Len(Elements(v)) = v.n
          /\ \A i \in 1 .. v.n : Elements(v)[i] = v.ptr[i - 1]
      BY <2>2, ElementsOf
    <2>5. /\ Len(q) = v.n + 1 /\ q[v.n + 1] = el
          /\ \A i \in 1 .. v.n : q[i] = v.ptr[i - 1]
      BY <2>2, <2>4
    <2> HIDE DEF q
    <2>6. w \in Vectors /\ w.opts = "REMOVE" /\ w.n = v.n + 1
      BY <2>2, <2>3, <2>5 DEF Holds
    <2>7. \A i \in 0 .. (v.n + 1) - 1 : w.ptr[i] = q[i + 1]
      BY <2>3, <2>5, CellsOf
    <2>8. w.ptr[v.n] = el
      BY <2>2, <2>5, <2>7
    <2>9. \A i \in 0 .. v.n - 1 : w.ptr[i] = v.ptr[i]
      <3> SUFFICES ASSUME NEW i \in 0 .. v.n - 1
                   PROVE  w.ptr[i] = v.ptr[i]
        OBVIOUS
      <3> DEFINE k == i + 1
      <3>1. i \in 0 .. (v.n + 1) - 1 /\ k \in 1 .. v.n /\ k - 1 = i
        BY <2>2
      <3> QED
        BY <2>5, <2>7, <3>1
    <2>10. \A i \in 0 .. w.n - 1 : i = v.n \/ i \in 0 .. v.n - 1
      BY <2>2, <2>6
    <2>11. v.n \in 0 .. w.n - 1 /\ 0 .. v.n - 1 \subseteq 0 .. w.n - 1
      BY <2>2, <2>6
    <2>12. \A i \in 0 .. v.n - 1 : Compared[v.ptr[i]] # Compared[el]
      BY <1>2 DEF Inside
    <2>13. \A i \in 0 .. w.n - 1 : w.ptr[i] \in Object
      BY <2>8, <2>9, <2>10 DEF IsSet
    <2>14. \A i, j \in 0 .. w.n - 1 : Compared[w.ptr[i]] = Compared[w.ptr[j]] => i = j
      BY <2>8, <2>9, <2>10, <2>12 DEF IsSet
    <2>15. IsSet(w)
      BY <2>6, <2>13, <2>14 DEF IsSet
    <2>16. Members(v) \subseteq Members(w) /\ Members(w) \subseteq Members(v) \cup {el}
            /\ el \in Members(w)
      BY <2>8, <2>9, <2>10, <2>11 DEF Members
    <2> QED
      BY <2>15, <2>16 DEF Entered, w
  <1> QED
    BY <1>1, <1>2

Sets == {v \in Vectors : IsSet(v)}

\* What a fold with set_add that takes only what is in T, leads to.
Collects(r, v, C) ==
    /\ IsSet(r) /\ Members(v) \subseteq Members(r)
    /\ Members(r) \subseteq Members(v) \cup C
    /\ \A y \in C : \E x \in Members(r) : Compared[x] = Compared[y]

\* Adding one by one: what is put into a set on the way from g[0] to g[n].
LEMMA Collected ==
    ASSUME NEW n \in Nat, NEW g, NEW s \in [1 .. n -> Object], NEW P, IsSet(g[0]),
           \A i \in 1 .. n : g[i] = IF i \in P THEN SetAdd(g[i - 1], s[i]) ELSE g[i - 1]
    PROVE  Collects(g[n], g[0], {s[i] : i \in (1 .. n) \cap P})
  <1> DEFINE C(i) == {s[j] : j \in (1 .. i) \cap P}
             S == {i \in Nat : i <= n => Collects(g[i], g[0], C(i))}
  <1>1. 0 \in S
    <2>1. C(0) = {}
      OBVIOUS
    <2> QED
      BY <2>1 DEF Collects
  <1>2. ASSUME NEW i \in Nat, i \in S
        PROVE  i + 1 \in S
    <2> SUFFICES ASSUME i + 1 <= n
                 PROVE  Collects(g[i + 1], g[0], C(i + 1))
      OBVIOUS
    <2> DEFINE k == i + 1
    <2>1. k \in 1 .. n /\ k - 1 = i /\ s[k] \in Object
      OBVIOUS
    <2>2. Collects(g[i], g[0], C(i))
      BY <1>2
    <2>3. \A j \in 1 .. k : j = k \/ j \in 1 .. i
      OBVIOUS
    <2>4. k \in 1 .. k /\ 1 .. i \subseteq 1 .. k
      OBVIOUS
    <2> HIDE DEF k
    <2>5. CASE k \in P
      <3>1. g[k] = SetAdd(g[i], s[k])
        BY <2>1, <2>5
      <3>2. Entered(g[i], g[k], s[k])
        BY <2>1, <2>2, <3>1, SetAddIs DEF Collects
      <3>3. C(k) = C(i) \cup {s[k]}
        BY <2>3, <2>4, <2>5
      <3> HIDE DEF C
      <3>4. Collects(g[k], g[0], C(k))
        BY <2>2, <3>2, <3>3 DEF Collects, Entered
      <3> QED
        BY <3>4 DEF k
    <2>6. CASE k \notin P
      <3>1. g[k] = g[i]
        BY <2>1, <2>6
      <3>2. C(k) = C(i)
        BY <2>3, <2>4, <2>6
      <3> HIDE DEF C
      <3> QED
        BY <2>2, <3>1, <3>2 DEF k
    <2> QED
      BY <2>5, <2>6
  <1> HIDE DEF S
  <1>3. Nat \subseteq S
    BY <1>1, <1>2, SetInduction
  <1>4. n \in S
    BY <1>3
  <1>5. Collects(g[n], g[0], C(n))
    BY <1>4 DEF S
  <1> QED
    BY <1>5

\* f is the fold of set_add over s.
SetsOn(f, v, s) ==
    f = [t \in SUBSET DOMAIN s |-> IF t = {} THEN v ELSE SetAdd(f[t \ {Max(t)}], s[Max(t)])]

\* Adding a sequence to a set.
LEMMA AddAllIs ==
    ASSUME NEW v, IsSet(v), NEW s \in Seq(Object)
    PROVE  Collects(AddAll(v, s), v, Range(s))
  <1> DEFINE n == Len(s)
             G == [p \in Sets \X (1 .. n) |-> SetAdd(p[1], s[p[2]])]
             f == CHOOSE f : SetsOn(f, v, s)
             P == 1 .. n
  <1>1. n \in Nat /\ DOMAIN s = 1 .. n /\ s \in [1 .. n -> Object] /\ v \in Sets
    BY DEF IsSet, Sets
  <1>2. \A w \in Sets, i \in 1 .. n : /\ G[<<w, i>>] = SetAdd(w, s[i])
                                     /\ SetAdd(w, s[i]) \in Sets
    BY <1>1, SetAddIs DEF Entered, Sets, IsSet
  <1>3. G \in [Sets \X (1 .. n) -> Sets]
    <2>1. \A p \in Sets \X (1 .. n) : p[1] \in Sets /\ p[2] \in 1 .. n
      OBVIOUS
    <2> HIDE DEF n
    <2>2. \A p \in Sets \X (1 .. n) : G[p] \in Sets
      <3> SUFFICES ASSUME NEW p \in Sets \X (1 .. n)
                   PROVE  G[p] \in Sets
        OBVIOUS
      <3>1. p = <<p[1], p[2]>> /\ p[1] \in Sets /\ p[2] \in 1 .. n
        BY <2>1
      <3> HIDE DEF G
      <3> QED
        BY <1>2, <3>1
    <2>3. G = [p \in Sets \X (1 .. n) |-> G[p]]
      OBVIOUS
    <2> HIDE DEF G
    <2> QED
      BY <2>2, <2>3
  <1>4. AddAll(v, s) = f[1 .. n]
    BY <1>1 DEF FoldLeft, MapThenFoldSet, AddAll, SetsOn
  <1> HIDE DEF n, G, f
  <1>5. PICK h \in [SUBSET (1 .. n) -> Sets] : FoldsTo(h, n, G, v)
    <2>1. n \in Nat /\ v \in Sets
      BY <1>1
    <2> QED
      BY <1>3, <2>1, FoldExists
  <1>6. SetsOn(h, v, s)
    <2>1. ASSUME NEW t \in SUBSET (1 .. n), t # {}
          PROVE  h[t] = SetAdd(h[t \ {Max(t)}], s[Max(t)])
      <3>1. Max(t) \in 1 .. n /\ h[t \ {Max(t)}] \in Sets
        BY <1>1, <1>5, <2>1, LastPlace
      <3> QED
        BY <1>2, <1>5, <2>1, <3>1 DEF FoldsTo
    <2>2. \A t \in SUBSET (1 .. n) : h[t] = IF t = {} THEN v ELSE SetAdd(h[t \ {Max(t)}], s[Max(t)])
      BY <1>5, <2>1 DEF FoldsTo
    <2>3. h = [t \in SUBSET (1 .. n) |-> IF t = {} THEN v ELSE SetAdd(h[t \ {Max(t)}], s[Max(t)])]
      BY <1>5, <2>2
    <2> QED
      BY <1>1, <2>3 DEF SetsOn
  <1>7. SetsOn(f, v, s)
    BY <1>6 DEF f
  <1>8. \A t \in SUBSET (1 .. n) : f[t] = IF t = {} THEN v ELSE SetAdd(f[t \ {Max(t)}], s[Max(t)])
    BY <1>1, <1>7 DEF SetsOn
  <1>9. Follows(f, n, G, Sets)
    <2>1. ASSUME NEW t \in SUBSET (1 .. n), t # {}, f[t \ {Max(t)}] \in Sets
          PROVE  f[t] = G[<<f[t \ {Max(t)}], Max(t)>>]
      BY <1>1, <1>2, <1>8, <2>1, LastPlace
    <2> QED
      BY <2>1 DEF Follows
  <1>10. PICK g \in [0 .. n -> Sets] : StepsFrom(g, n, G, v) /\ g[n] = f[1 .. n]
    <2>1. n \in Nat /\ f[{}] = v /\ v \in Sets
      BY <1>1, <1>8
    <2>2. Reaches(f[1 .. n], n, G, Sets, v)
      BY <1>3, <1>9, <2>1, FoldSteps
    <2> QED
      BY <2>2 DEF Reaches
  <1>11. \A i \in 1 .. n : g[i] = IF i \in P THEN SetAdd(g[i - 1], s[i]) ELSE g[i - 1]
    <2>1. \A i \in 1 .. n : i - 1 \in 0 .. n
      BY <1>1
    <2> QED
      BY <1>2, <1>10, <2>1 DEF StepsFrom
  <1>12. g[0] = v /\ IsSet(g[0])
    BY <1>10 DEF StepsFrom
  <1>13. Collects(g[n], v, {s[i] : i \in (1 .. n) \cap P})
    <2> HIDE DEF P
    <2> QED
      BY <1>1, <1>11, <1>12, Collected
  <1>14. {s[i] : i \in (1 .. n) \cap P} = Range(s)
    BY <1>1 DEF Range
  <1> QED
    BY <1>4, <1>10, <1>13, <1>14

\* What set_intersect does with the bigger set.
CommonTo(f, v, s, other) ==
    f = [t \in SUBSET DOMAIN s |->
            IF t = {} THEN v
            ELSE IF Inside(other, s[Max(t)]) # {} THEN SetAdd(f[t \ {Max(t)}], s[Max(t)])
                 ELSE f[t \ {Max(t)}]]

\* Adding those of a sequence that the other set has an equal of.
LEMMA AddCommonIs ==
    ASSUME NEW v, IsSet(v), NEW s \in Seq(Object), NEW other
    PROVE  Collects(FoldLeft(LAMBDA out, el : IF Inside(other, el) # {} THEN SetAdd(out, el)
               ELSE out, v, s),
                    v, {y \in Range(s) : Inside(other, y) # {}})
  <1> DEFINE n == Len(s)
             G == [p \in Sets \X (1 .. n) |-> (IF Inside(other, s[p[2]]) # {}
                     THEN SetAdd(p[1], s[p[2]]) ELSE p[1])]
             f == CHOOSE f : CommonTo(f, v, s, other)
             P == {i \in 1 .. n : Inside(other, s[i]) # {}}
  <1>1. n \in Nat /\ DOMAIN s = 1 .. n /\ s \in [1 .. n -> Object] /\ v \in Sets
    BY DEF IsSet, Sets
  <1>2. \A w \in Sets, i \in 1 .. n : /\ G[<<w, i>>] = (IF Inside(other, s[i]) # {}
                                            THEN SetAdd(w, s[i]) ELSE w)
                                     /\ (IF Inside(other, s[i]) # {} THEN SetAdd(w, s[i])
                                             ELSE w) \in Sets
    BY <1>1, SetAddIs DEF Entered, Sets, IsSet
  <1>3. G \in [Sets \X (1 .. n) -> Sets]
    <2>1. \A p \in Sets \X (1 .. n) : p[1] \in Sets /\ p[2] \in 1 .. n
      OBVIOUS
    <2> HIDE DEF n
    <2>2. \A p \in Sets \X (1 .. n) : G[p] \in Sets
      <3> SUFFICES ASSUME NEW p \in Sets \X (1 .. n)
                   PROVE  G[p] \in Sets
        OBVIOUS
      <3>1. p = <<p[1], p[2]>> /\ p[1] \in Sets /\ p[2] \in 1 .. n
        BY <2>1
      <3> HIDE DEF G
      <3> QED
        BY <1>2, <3>1
    <2>3. G = [p \in Sets \X (1 .. n) |-> G[p]]
      OBVIOUS
    <2> HIDE DEF G
    <2> QED
      BY <2>2, <2>3
  <1>4. FoldLeft(LAMBDA out, el : IF Inside(other, el) # {} THEN SetAdd(out, el)
          ELSE out, v, s) = f[1 .. n]
    BY <1>1 DEF FoldLeft, MapThenFoldSet, CommonTo
  <1> HIDE DEF n, G, f
  <1>5. PICK h \in [SUBSET (1 .. n) -> Sets] : FoldsTo(h, n, G, v)
    <2>1. n \in Nat /\ v \in Sets
      BY <1>1
    <2> QED
      BY <1>3, <2>1, FoldExists
  <1>6. CommonTo(h, v, s, other)
    <2>1. ASSUME NEW t \in SUBSET (1 .. n), t # {}
          PROVE  h[t] = (IF Inside(other, s[Max(t)]) # {} THEN SetAdd(h[t \ {Max(t)}], s[Max(t)])
                     ELSE h[t \ {Max(t)}])
      <3>1. Max(t) \in 1 .. n /\ h[t \ {Max(t)}] \in Sets
        BY <1>1, <1>5, <2>1, LastPlace
      <3> QED
        BY <1>2, <1>5, <2>1, <3>1 DEF FoldsTo
    <2>2. \A t \in SUBSET (1 .. n) : h[t] = IF t = {} THEN v
            ELSE (IF Inside(other, s[Max(t)]) # {} THEN SetAdd(h[t \ {Max(t)}], s[Max(t)])
                    ELSE h[t \ {Max(t)}])
      BY <1>5, <2>1 DEF FoldsTo
    <2>3. h = [t \in SUBSET (1 .. n) |-> IF t = {} THEN v
            ELSE (IF Inside(other, s[Max(t)]) # {} THEN SetAdd(h[t \ {Max(t)}], s[Max(t)])
                    ELSE h[t \ {Max(t)}])]
      BY <1>5, <2>2
    <2> QED
      BY <1>1, <2>3 DEF CommonTo
  <1>7. CommonTo(f, v, s, other)
    BY <1>6 DEF f
  <1>8. \A t \in SUBSET (1 .. n) : f[t] = IF t = {} THEN v
          ELSE (IF Inside(other, s[Max(t)]) # {} THEN SetAdd(f[t \ {Max(t)}], s[Max(t)])
                  ELSE f[t \ {Max(t)}])
    BY <1>1, <1>7 DEF CommonTo
  <1>9. Follows(f, n, G, Sets)
    <2>1. ASSUME NEW t \in SUBSET (1 .. n), t # {}, f[t \ {Max(t)}] \in Sets
          PROVE  f[t] = G[<<f[t \ {Max(t)}], Max(t)>>]
      BY <1>1, <1>2, <1>8, <2>1, LastPlace
    <2> QED
      BY <2>1 DEF Follows
  <1>10. PICK g \in [0 .. n -> Sets] : StepsFrom(g, n, G, v) /\ g[n] = f[1 .. n]
    <2>1. n \in Nat /\ f[{}] = v /\ v \in Sets
      BY <1>1, <1>8
    <2>2. Reaches(f[1 .. n], n, G, Sets, v)
      BY <1>3, <1>9, <2>1, FoldSteps
    <2> QED
      BY <2>2 DEF Reaches
  <1>11. \A i \in 1 .. n : g[i] = IF i \in P THEN SetAdd(g[i - 1], s[i]) ELSE g[i - 1]
    <2>1. \A i \in 1 .. n : i - 1 \in 0 .. n
      BY <1>1
    <2> QED
      BY <1>2, <1>10, <2>1 DEF StepsFrom
  <1>12. g[0] = v /\ IsSet(g[0])
    BY <1>10 DEF StepsFrom
  <1>13. Collects(g[n], v, {s[i] : i \in (1 .. n) \cap P})
    <2> HIDE DEF P
    <2> QED
      BY <1>1, <1>11, <1>12, Collected
  <1>14. {s[i] : i \in (1 .. n) \cap P} = {y \in Range(s) : Inside(other, y) # {}}
    BY <1>1 DEF Range
  <1> QED
    BY <1>4, <1>10, <1>13, <1>14

\* The elements of a set, first to last.
LEMMA ElementsOfSet ==
    ASSUME NEW v, IsSet(v)
    PROVE  /\ Elements(v) \in Seq(Object) /\ Len(Elements(v)) = v.n /\ v.n \in Nat
           /\ Range(Elements(v)) = Members(v) /\ Members(v) \subseteq Object
           /\ \A i, j \in 1 .. v.n : Elements(v)[i] = Elements(v)[j] => i = j
  <1> DEFINE e == Elements(v)
  <1>1. /\ v \in Vectors /\ v.n \in Nat
        /\ e \in Seq(Slot) /\ Len(e) = v.n /\ DOMAIN e = 1 .. v.n
        /\ \A i \in 1 .. v.n : e[i] = v.ptr[i - 1]
    BY ElementsOf, VectorParts DEF IsSet
  <1> HIDE DEF e
  <1>2. \A i \in 1 .. v.n : i - 1 \in 0 .. v.n - 1 /\ (i - 1) + 1 = i
    BY <1>1
  <1>3. \A i \in 0 .. v.n - 1 : i + 1 \in 1 .. v.n /\ (i + 1) - 1 = i
    BY <1>1
  <1>4. \A i \in 1 .. v.n : e[i] \in Object
    BY <1>1, <1>2 DEF IsSet
  <1>5. e \in Seq(Object)
    BY <1>1, <1>4
  <1>6. ASSUME NEW i \in 1 .. v.n, NEW j \in 1 .. v.n, e[i] = e[j]
        PROVE  i = j
    <2>1. i - 1 = j - 1
      BY <1>1, <1>2, <1>6 DEF IsSet
    <2> QED
      BY <1>2, <2>1
  <1>7. Range(e) = Members(v)
    <2>1. Range(e) \subseteq Members(v)
      BY <1>1, <1>2 DEF Range, Members
    <2>2. Members(v) \subseteq Range(e)
      <3> SUFFICES ASSUME NEW i \in 0 .. v.n - 1
                   PROVE  v.ptr[i] \in Range(e)
        BY DEF Members
      <3>1. e[i + 1] = v.ptr[i]
        BY <1>1, <1>3
      <3> QED
        BY <1>1, <1>3, <3>1 DEF Range
    <2> QED
      BY <2>1, <2>2
  <1>8. Members(v) \subseteq Object
    BY DEF IsSet, Members
  <1> QED
    BY <1>1, <1>5, <1>6, <1>7, <1>8 DEF e

\* What a set looks like to its comparison.
LEMMA ContentIs ==
    ASSUME NEW v
    PROVE  Content(v) = {Compared[x] : x \in Members(v)}
  BY DEF Content, Members

\* No two elements look equal.
LEMMA DistinctIs ==
    ASSUME NEW v, IsSet(v)
    PROVE  Distinct(v)
  <1> DEFINE C == Content(v)
             f == [i \in 0 .. v.n - 1 |-> Compared[v.ptr[i]]]
  <1>1. v.n \in Nat
    BY ElementsOfSet
  <1>2. \A i, j \in 0 .. v.n - 1 : f[i] = f[j] => i = j
    BY DEF IsSet
  <1>3. C = {f[i] : i \in 0 .. v.n - 1}
    BY DEF Content
  <1>4. f \in [0 .. v.n - 1 -> C]
    BY DEF Content
  <1> HIDE DEF f, C
  <1>5. f \in Injection(0 .. v.n - 1, C)
    BY <1>2, <1>4 DEF Injection, IsInjective
  <1>6. f \in Surjection(0 .. v.n - 1, C)
    BY <1>3, <1>4 DEF Surjection
  <1>7. ExistsBijection(0 .. v.n - 1, C)
    BY <1>5, <1>6 DEF Bijection, ExistsBijection
  <1>8. IsFiniteSet(0 .. v.n - 1) /\ Cardinality(0 .. v.n - 1) = v.n
    <2>1. 0 \in Int /\ v.n - 1 \in Int
      BY <1>1
    <2>2. /\ IsFiniteSet(0 .. v.n - 1)
          /\ Cardinality(0 .. v.n - 1) = IF 0 > v.n - 1 THEN 0 ELSE (v.n - 1) - 0 + 1
      BY <2>1, FS_Interval
    <2> QED
      BY <1>1, <2>2
  <1>9. Cardinality(C) = v.n
    BY <1>7, <1>8, FS_Bijection
  <1> QED
    BY <1>9 DEF Distinct, C

\* What the search of a set finds.
LEMMA InsideIs ==
    ASSUME NEW v, IsSet(v), NEW el
    PROVE  Inside(v, el) # {} <=> \E x \in Members(v) : Compared[x] = Compared[el]
  BY DEF Inside, Members

\* set_dup enters the elements of the other.
LEMMA SetDupIs ==
    ASSUME RoomAssumption, NEW v, IsSet(v)
    PROVE  IsSet(SetDup(v)) /\ Members(SetDup(v)) \subseteq Members(v)
  <1>1. Elements(v) \in Seq(Object) /\ Range(Elements(v)) = Members(v)
    BY ElementsOfSet
  <1>2. Collects(AddAll(SetNew, Elements(v)), SetNew, Members(v))
    BY <1>1, SetNewIs, AddAllIs
  <1> QED
    BY <1>2, SetNewIs DEF Collects, SetDup

\* set_union enters the elements of both.
LEMMA SetUnionIs ==
    ASSUME NEW v, IsSet(v), NEW w, IsSet(w)
    PROVE  /\ IsSet(SetUnion(v, w))
           /\ Members(v) \subseteq Members(SetUnion(v, w))
           /\ Members(SetUnion(v, w)) \subseteq Members(v) \cup Members(w)
           /\ Content(SetUnion(v, w)) = Content(v) \cup Content(w)
  <1> DEFINE r == SetUnion(v, w)
  <1>1. Elements(w) \in Seq(Object) /\ Range(Elements(w)) = Members(w)
    BY ElementsOfSet
  <1>2. Collects(r, v, Members(w))
    BY <1>1, AddAllIs DEF SetUnion
  <1> HIDE DEF r
  <1>3. Content(r) = {Compared[x] : x \in Members(r)}
          /\ Content(v) = {Compared[x] : x \in Members(v)}
        /\ Content(w) = {Compared[x] : x \in Members(w)}
    BY ContentIs
  <1>4. Content(r) \subseteq Content(v) \cup Content(w)
    BY <1>2, <1>3 DEF Collects
  <1>5. Content(v) \cup Content(w) \subseteq Content(r)
    BY <1>2, <1>3 DEF Collects
  <1> QED
    BY <1>2, <1>4, <1>5 DEF Collects, r

\* Whichever of the two is walked, what is left looks like an element of both.
LEMMA IntersectWalk ==
    ASSUME RoomAssumption, NEW b, IsSet(b), NEW o, IsSet(o), NEW r,
           Collects(r, SetNew, {y \in Range(Elements(b)) : Inside(o, y) # {}})
    PROVE  /\ IsSet(r) /\ Members(r) \subseteq Members(b)
           /\ Content(r) = Content(b) \cap Content(o)
  <1> DEFINE C == {y \in Members(b) : \E x \in Members(o) : Compared[x] = Compared[y]}
  <1>1. {y \in Range(Elements(b)) : Inside(o, y) # {}} = C
    BY ElementsOfSet, InsideIs
  <1>2. IsSet(r) /\ Members(r) \subseteq C
                       /\ \A y \in C : \E x \in Members(r) : Compared[x] = Compared[y]
    BY <1>1, SetNewIs DEF Collects
  <1>3. Content(r) = {Compared[x] : x \in Members(r)}
          /\ Content(b) = {Compared[x] : x \in Members(b)}
        /\ Content(o) = {Compared[x] : x \in Members(o)}
    BY ContentIs
  <1>4. Content(r) \subseteq Content(b) \cap Content(o)
    BY <1>2, <1>3
  <1>5. Content(b) \cap Content(o) \subseteq Content(r)
    BY <1>2, <1>3
  <1> QED
    BY <1>2, <1>4, <1>5

\* set_intersect enters those of one that look like one of the other.
LEMMA SetIntersectIs ==
    ASSUME RoomAssumption, NEW v, IsSet(v), NEW w, IsSet(w)
    PROVE  /\ IsSet(SetIntersect(v, w))
           /\ Members(SetIntersect(v, w)) \subseteq Members(v) \cup Members(w)
           /\ Content(SetIntersect(v, w)) = Content(v) \cap Content(w)
  <1>1. ASSUME NEW b, IsSet(b), NEW o, IsSet(o)
        PROVE  /\ IsSet(KeptIn(o, b)) /\ Members(KeptIn(o, b)) \subseteq Members(b)
               /\ Content(KeptIn(o, b)) = Content(b) \cap Content(o)
    <2>1. Elements(b) \in Seq(Object) /\ IsSet(SetNew)
      BY <1>1, ElementsOfSet, SetNewIs
    <2>2. Collects(KeptIn(o, b), SetNew, {y \in Range(Elements(b)) : Inside(o, y) # {}})
      BY <2>1, AddCommonIs DEF KeptIn
    <2> QED
      BY <1>1, <2>2, IntersectWalk
  <1>2. CASE v.n > w.n
    BY <1>1, <1>2 DEF SetIntersect
  <1>3. CASE ~(v.n > w.n)
    BY <1>1, <1>3 DEF SetIntersect
  <1> QED
    BY <1>2, <1>3

\* set_remove takes out the element found, and nothing else.
LEMMA SetRemoveIs ==
    ASSUME NEW v, IsSet(v), NEW el, Inside(v, el) # {}
    PROVE  /\ IndexOf(v, el) \in 0 .. v.n - 1
           /\ IsSet(SetRemove(v, el))
           /\ Members(SetRemove(v, el)) = Members(v) \ {v.ptr[IndexOf(v, el)]}
  <1> DEFINE k == IndexOf(v, el)
             w == SetRemove(v, el)
             E == Elements(v)
             q == RemoveAt(E, k + 1)
  <1>1. k \in Inside(v, el)
    <2>1. Inside(v, el) \subseteq Nat
      BY DEF Inside
    <2>2. \E i \in Inside(v, el) : \A j \in Inside(v, el) : i <= j
      BY <2>1, Least
    <2> QED
      BY <2>2 DEF IndexOf
  <1>2. k \in 0 .. v.n - 1 /\ v \in Vectors /\ v.opts = "REMOVE" /\ v.n \in Nat /\ k \in Nat
                                 /\ k < v.n
    BY <1>1, ElementsOfSet DEF Inside, IsSet
  <1>3. w = VectorRemove(v, k)
    BY DEF SetRemove
  <1> HIDE DEF k, w
  <1>4. Holds(w, "REMOVE", q)
    BY <1>2, <1>3, VectorRemoves
  <1>5. /\ E \in Seq(Slot) /\ Len(E) = v.n
        /\ \A i \in 1 .. v.n : E[i] = v.ptr[i - 1]
    BY <1>2, ElementsOf
  <1> HIDE DEF E
  <1>6. /\ Len(q) = v.n - 1
        /\ \A j \in 1 .. v.n - 1 : q[j] = IF j < k + 1 THEN E[j] ELSE E[j + 1]
    <2>1. k + 1 \in 1 .. Len(E)
      BY <1>2, <1>5
    <2> QED
      BY <1>5, <2>1, RemoveAtIs
  <1> HIDE DEF q
  <1>7. w \in Vectors /\ w.opts = "REMOVE" /\ w.n = v.n - 1
    BY <1>4, <1>6 DEF Holds
  <1>8. ASSUME NEW i \in 0 .. w.n - 1
        PROVE  w.ptr[i] = IF i < k THEN v.ptr[i] ELSE v.ptr[i + 1]
    <2> DEFINE j == i + 1
    <2>1. j \in 1 .. v.n - 1 /\ j - 1 = i /\ (j + 1) - 1 = i + 1 /\ i \in 0 .. Len(q) - 1
          /\ j \in 1 .. v.n /\ j + 1 \in 1 .. v.n /\ (j < k + 1 <=> i < k)
      BY <1>2, <1>6, <1>7
    <2>2. w.ptr[i] = q[j]
      BY <1>4, <2>1, CellsOf
    <2> HIDE DEF j
    <2>3. q[j] = IF i < k THEN E[j] ELSE E[j + 1]
      BY <1>6, <2>1
    <2> QED
      BY <1>5, <2>1, <2>2, <2>3 DEF j
  <1> DEFINE at(i) == IF i < k THEN i ELSE i + 1
  <1>9. \A i \in 0 .. w.n - 1 : at(i) \in 0 .. v.n - 1 /\ at(i) # k /\ w.ptr[i] = v.ptr[at(i)]
    BY <1>2, <1>7, <1>8
  <1>10. \A i, j \in 0 .. w.n - 1 : at(i) = at(j) => i = j
    BY <1>2, <1>7
  <1>11. \A m \in 0 .. v.n - 1 : m # k => \E i \in 0 .. w.n - 1 : at(i) = m
    <2> SUFFICES ASSUME NEW m \in 0 .. v.n - 1, m # k
                 PROVE  \E i \in 0 .. w.n - 1 : at(i) = m
      OBVIOUS
    <2>1. CASE m < k
      <3>1. m \in 0 .. w.n - 1 /\ at(m) = m
        BY <1>2, <1>7, <2>1
      <3> QED
        BY <3>1
    <2>2. CASE ~(m < k)
      <3>1. m - 1 \in 0 .. w.n - 1 /\ at(m - 1) = m
        BY <1>2, <1>7, <2>2
      <3> QED
        BY <3>1
    <2> QED
      BY <2>1, <2>2
  <1> HIDE DEF at
  <1>12. IsSet(w)
    <2>1. \A i \in 0 .. w.n - 1 : w.ptr[i] \in Object
      BY <1>9 DEF IsSet
    <2>2. \A i, j \in 0 .. w.n - 1 : Compared[w.ptr[i]] = Compared[w.ptr[j]] => i = j
      BY <1>9, <1>10 DEF IsSet
    <2> QED
      BY <1>7, <2>1, <2>2 DEF IsSet
  <1>13. Members(w) = Members(v) \ {v.ptr[k]}
    <2>1. \A m \in 0 .. v.n - 1 : v.ptr[m] = v.ptr[k] => m = k
      BY <1>2 DEF IsSet
    <2>2. Members(w) \subseteq Members(v) \ {v.ptr[k]}
      BY <1>9, <2>1 DEF Members
    <2>3. Members(v) \ {v.ptr[k]} \subseteq Members(w)
      BY <1>9, <1>11 DEF Members
    <2> QED
      BY <2>2, <2>3
  <1> QED
    BY <1>2, <1>12, <1>13 DEF k, w

-----------------------------------------------------------------------------
(* The vector and the sets of the program.                                 *)

\* The vector has room left, and no two elements of a set look equal.
ArraysSound == vector \in Vectors /\ \A s \in DOMAIN sets : IsSet(sets[s])

\* So it is at the start,
LEMMA ArraysBegin ==
    ASSUME RoomAssumption, Init
    PROVE  ArraysSound
  <1>1. PICK opts \in {"REMOVE", "KEEP"} : vector = VectorNew(opts)
    BY DEF Init
  <1>2. vector \in Vectors
    BY <1>1, NewIsVector DEF Holds
  <1>3. DOMAIN sets = {}
    BY DEF Init
  <1> QED
    BY <1>2, <1>3 DEF ArraysSound

\* The vector's items after each operation on it
LEMMA VectorSteps ==
    ASSUME ArraysSound
    PROVE  /\ \A o \in Object : AddToVector(o)
                 => Holds(vector', vector.opts, Append(Elements(vector), o))
           /\ \A o \in Object, i \in 0 .. vector.n : InsertIntoVector(o, i)
                 => Holds(vector', vector.opts, InsertAt(Elements(vector), i + 1, o))
           /\ \A i \in 0 .. vector.n - 1 : RemoveFromVector(i)
                 => Holds(vector', vector.opts,
                          IF vector.opts = "KEEP" THEN ReplaceAt(Elements(vector), i + 1, NULL)
                          ELSE RemoveAt(Elements(vector), i + 1))
           /\ \A s \in DOMAIN sets : ExtendVector(s)
                 => /\ Elements(sets[s]) \in Seq(Object)
                    /\ Holds(vector', vector.opts, Elements(vector) \o Elements(sets[s]))
  <1>1. vector \in Vectors
    BY DEF ArraysSound
  <1>2. ASSUME NEW o \in Object
        PROVE  o \in Slot
    BY DEF Slot
  <1>3. ASSUME NEW o \in Object, AddToVector(o)
        PROVE  Holds(vector', vector.opts, Append(Elements(vector), o))
    BY <1>1, <1>2, <1>3, VectorAdds DEF AddToVector
  <1>4. ASSUME NEW o \in Object, NEW i \in 0 .. vector.n, InsertIntoVector(o, i)
        PROVE  Holds(vector', vector.opts, InsertAt(Elements(vector), i + 1, o))
    BY <1>1, <1>2, <1>4, VectorInserts DEF InsertIntoVector
  <1>5. ASSUME NEW i \in 0 .. vector.n - 1, RemoveFromVector(i)
        PROVE  Holds(vector', vector.opts,
                     IF vector.opts = "KEEP" THEN ReplaceAt(Elements(vector), i + 1, NULL)
                     ELSE RemoveAt(Elements(vector), i + 1))
    BY <1>1, <1>5, VectorRemoves DEF RemoveFromVector
  <1>6. ASSUME NEW s \in DOMAIN sets, ExtendVector(s)
        PROVE  /\ Elements(sets[s]) \in Seq(Object)
               /\ Holds(vector', vector.opts, Elements(vector) \o Elements(sets[s]))
    <2>1. IsSet(sets[s]) /\ sets[s] \in Vectors
      BY DEF ArraysSound, IsSet
    <2>2. Elements(sets[s]) \in Seq(Object) /\ Elements(sets[s]) \in Seq(Slot)
      BY <2>1, ElementsOfSet, ElementsOf
    <2>3. vector' = FoldLeft(VectorAdd, vector, Elements(sets[s]))
      BY <1>6 DEF ExtendVector
    <2>4. Holds(FoldLeft(VectorAdd, vector, Elements(sets[s])), vector.opts,
                Elements(vector) \o Elements(sets[s]))
      BY <1>1, <2>2, ExtendIs
    <2> QED
      BY <2>2, <2>3, <2>4
  <1> QED
    BY <1>3, <1>4, <1>5, <1>6

\* The sets after each operation on them
LEMMA SetSteps ==
    ASSUME RoomAssumption, ArraysSound, SetStep
    PROVE  vector' = vector /\ \A s \in DOMAIN sets' : IsSet(sets'[s])
  <1>1. \A s \in DOMAIN sets : IsSet(sets[s])
    BY DEF ArraysSound
  <1>2. ASSUME NEW s \in DOMAIN sets, NEW o \in Object, AddToSet(s, o)
        PROVE  vector' = vector /\ \A x \in DOMAIN sets' : IsSet(sets'[x])
    <2>1. IsSet(SetAdd(sets[s], o))
      BY <1>1, SetAddIs DEF Entered
    <2> QED
      BY <1>1, <1>2, <2>1 DEF AddToSet
  <1>3. ASSUME NEW s \in DOMAIN sets, NEW o \in Object, RemoveFromSet(s, o)
        PROVE  vector' = vector /\ \A x \in DOMAIN sets' : IsSet(sets'[x])
    <2>1. IsSet(SetRemove(sets[s], o))
      BY <1>1, <1>3, SetRemoveIs DEF RemoveFromSet
    <2> QED
      BY <1>1, <1>3, <2>1 DEF RemoveFromSet
  <1>4. ASSUME NEW s, NEW r, IsSet(r), Becomes(s, r)
        PROVE  vector' = vector /\ \A x \in DOMAIN sets' : IsSet(sets'[x])
    BY <1>1, <1>4 DEF Becomes
  <1>5. ASSUME NEW s1 \in DOMAIN sets, NEW s2 \in DOMAIN sets
        PROVE  IsSet(SetUnion(sets[s1], sets[s2])) /\ IsSet(SetIntersect(sets[s1], sets[s2]))
    BY <1>1, SetUnionIs, SetIntersectIs
  <1>6. IsSet(SetNew) /\ \A s \in DOMAIN sets : IsSet(SetDup(sets[s]))
    BY <1>1, SetNewIs, SetDupIs
  <1>7. CASE \E s \in DOMAIN sets, o \in Object : AddToSet(s, o) \/ RemoveFromSet(s, o)
    BY <1>2, <1>3, <1>7
  <1>8. CASE \E s1, s2 \in DOMAIN sets : Becomes(s1, SetUnion(sets[s1], sets[s2]))
    BY <1>4, <1>5, <1>8
  <1>9. CASE \E s \in SetName \ DOMAIN sets :
                \/ Becomes(s, SetNew)
                \/ \E s1 \in DOMAIN sets : Becomes(s, SetDup(sets[s1]))
                \/ \E s1, s2 \in DOMAIN sets : Becomes(s, SetIntersect(sets[s1], sets[s2]))
    BY <1>4, <1>5, <1>6, <1>9
  <1> QED
    BY <1>7, <1>8, <1>9 DEF SetStep

\* The other containers leave both alone.
LEMMA OthersKeepArrays ==
    ASSUME UserStep \/ ListStep \/ MapStep \/ UNCHANGED vars
    PROVE  UNCHANGED <<vector, sets>>
  BY DEF UserStep, ListStep, MapStep, vars, arrays, RemoveFromMap, InsertIntoMap, FreeMap

\* and it stays so whatever the program does.
LEMMA ArraysStep ==
    ASSUME RoomAssumption, ArraysSound, [Next]_vars
    PROVE  ArraysSound'
  <1>1. CASE UserStep \/ ListStep \/ MapStep \/ UNCHANGED vars
    BY <1>1, OthersKeepArrays DEF ArraysSound
  <1>2. CASE VectorStep
    <2>1. UNCHANGED sets
      BY <1>2 DEF VectorStep, AddToVector, InsertIntoVector, RemoveFromVector, ExtendVector
    <2>2. vector' \in Vectors
      BY <1>2, VectorSteps DEF VectorStep, Holds
    <2> QED
      BY <2>1, <2>2 DEF ArraysSound
  <1>3. CASE SetStep
    BY <1>3, SetSteps DEF ArraysSound
  <1> QED
    BY <1>1, <1>2, <1>3 DEF Next

\* Whatever was added to, removed from, united with or intersected with them, no set
\* has two elements that look equal, and set_union and set_intersect (set.c) give
\* the union and the intersection of what the sets look like to their comparison.
THEOREM AlgebraHolds ==
    ASSUME RoomAssumption
    PROVE  Spec => []SetAlgebra
  <1>1. Init => ArraysSound
    BY ArraysBegin
  <1>2. ArraysSound /\ [Next]_vars => ArraysSound'
    BY ArraysStep
  <1>3. ArraysSound => SetAlgebra
    <2> SUFFICES ASSUME ArraysSound, NEW s1 \in Range(sets), NEW s2 \in Range(sets)
                 PROVE  /\ Distinct(s1) /\ Distinct(SetUnion(s1, s2))
                              /\ Distinct(SetIntersect(s1, s2))
                        /\ Content(SetUnion(s1, s2)) = Content(s1) \cup Content(s2)
                        /\ Content(SetIntersect(s1, s2)) = Content(s1) \cap Content(s2)
      BY DEF SetAlgebra
    <2>1. IsSet(s1) /\ IsSet(s2)
      BY DEF ArraysSound, Range
    <2> QED
      BY <2>1, SetUnionIs, SetIntersectIs, DistinctIs
  <1> QED
    BY <1>1, <1>2, <1>3, PTL DEF Spec

\* The elements of a set, without repetition
LEMMA ElementsOnce ==
    ASSUME NEW v, IsSet(v)
    PROVE  Elements(v) \in SetToAllKPermutations(Object)
  <1> DEFINE e == Elements(v)
             M == Members(v)
  <1>1. /\ e \in Seq(Object) /\ Len(e) = v.n /\ v.n \in Nat
        /\ Range(e) = M /\ M \subseteq Object
        /\ \A i, j \in 1 .. v.n : e[i] = e[j] => i = j
    BY ElementsOfSet
  <1> HIDE DEF e, M
  <1>2. e \in [1 .. v.n -> M] /\ M = {e[i] : i \in 1 .. v.n}
    BY <1>1 DEF Range
  <1>3. e \in Injection(1 .. v.n, M)
    BY <1>1, <1>2 DEF Injection, IsInjective
  <1>4. e \in Surjection(1 .. v.n, M)
    BY <1>2 DEF Surjection
  <1>5. ExistsBijection(1 .. v.n, M)
    BY <1>3, <1>4 DEF Bijection, ExistsBijection
  <1>6. IsFiniteSet(1 .. v.n) /\ Cardinality(1 .. v.n) = v.n
    <2>1. 1 \in Int /\ v.n \in Int
      BY <1>1
    <2>2. /\ IsFiniteSet(1 .. v.n)
          /\ Cardinality(1 .. v.n) = IF 1 > v.n THEN 0 ELSE v.n - 1 + 1
      BY <2>1, FS_Interval
    <2> QED
      BY <1>1, <2>2
  <1>7. Cardinality(M) = v.n
    BY <1>5, <1>6, FS_Bijection
  <1>8. e \in SetToSeqs(M)
    BY <1>1, <1>2, <1>7 DEF SetToSeqs
  <1> QED
    BY <1>1, <1>8 DEF SetToAllKPermutations, e

\* Appending is inserting behind the last.
LEMMA AppendInserts ==
    ASSUME NEW q \in Seq(Slot), NEW x \in Slot
    PROVE  Append(q, x) = InsertAt(q, Len(q) + 1, x)
  <1> DEFINE i == Len(q) + 1
             a == Append(q, x)
             b == InsertAt(q, i, x)
  <1>1. i \in 1 .. Len(q) + 1
    OBVIOUS
  <1> HIDE DEF i
  <1>2. /\ b \in Seq(Slot) /\ Len(b) = Len(q) + 1
        /\ \A j \in 1 .. Len(q) + 1 :
              b[j] = IF j < i THEN q[j] ELSE IF j = i THEN x ELSE q[j - 1]
    BY <1>1, InsertAtIs
  <1>3. /\ a \in Seq(Slot) /\ Len(a) = Len(q) + 1
        /\ \A j \in 1 .. Len(q) + 1 : a[j] = IF j < Len(q) + 1 THEN q[j] ELSE x
    OBVIOUS
  <1> HIDE DEF a, b
  <1>4. \A j \in 1 .. Len(q) + 1 : a[j] = b[j]
    BY <1>2, <1>3 DEF i
  <1>5. a = b
    BY <1>2, <1>3, <1>4
  <1> QED
    BY <1>5 DEF a, b, i

\* The abstract sequence uses the same operators.
LEMMA SameOperators ==
    /\ \A q, i, x : Array!InsertAt(q, i, x) = InsertAt(q, i, x)
    /\ \A q, i : Array!RemoveAt(q, i) = RemoveAt(q, i)
    /\ \A q, i, x : Array!ReplaceAt(q, i, x) = ReplaceAt(q, i, x)
    /\ \A S : Array!SetToAllKPermutations(S) = SetToAllKPermutations(S)
  <1>1. ASSUME NEW q, NEW i, NEW x
        PROVE  Array!InsertAt(q, i, x) = InsertAt(q, i, x)
    BY DEF Array!InsertAt, InsertAt
  <1>2. ASSUME NEW q, NEW i
        PROVE  Array!RemoveAt(q, i) = RemoveAt(q, i)
    BY DEF Array!RemoveAt, RemoveAt
  <1>3. ASSUME NEW q, NEW i, NEW x
        PROVE  Array!ReplaceAt(q, i, x) = ReplaceAt(q, i, x)
    BY DEF Array!ReplaceAt, ReplaceAt
  <1>4. ASSUME NEW S
        PROVE  Array!SetToAllKPermutations(S) = SetToAllKPermutations(S)
    <2>1. ASSUME NEW T
          PROVE  Array!SetToSeqs(T) = SetToSeqs(T)
      <3>1. Array!Cardinality(T) = Cardinality(T)
        BY Zenon DEF Array!Cardinality, Cardinality
      <3> QED
        BY <3>1 DEF Array!SetToSeqs, SetToSeqs
    <2> QED
      BY <2>1 DEF Array!SetToAllKPermutations, SetToAllKPermutations
  <1> QED
    BY <1>1, <1>2, <1>3, <1>4

\* Every step of the program is one of the sequence, or leaves it alone.
LEMMA SequenceStep ==
    ASSUME ArraysSound, [Next]_vars
    PROVE  Array!Next \/ Elements(vector)' = Elements(vector)
  <1> DEFINE E == Elements(vector)
  <1>1. CASE UserStep \/ ListStep \/ MapStep \/ SetStep \/ UNCHANGED vars
    <2>1. UNCHANGED vector
      BY <1>1, OthersKeepArrays DEF SetStep, AddToSet, RemoveFromSet, Becomes
    <2> QED
      BY <2>1
  <1>2. CASE VectorStep
    <2>1. /\ E \in Seq(Slot) /\ Len(E) = vector.n /\ vector.n \in Nat
      BY ElementsOf, VectorParts DEF ArraysSound
    <2> DEFINE F == Elements(vector')
    <2>2. Elements(vector)' = F
      OBVIOUS
    <2> HIDE DEF F, E
    <2>3. ASSUME NEW o \in Object, AddToVector(o)
          PROVE  Array!Next
      <3>1. F = Append(E, o)
        BY <2>3, VectorSteps DEF Holds, E, F
      <3>2. F = InsertAt(E, Len(E) + 1, o)
        BY <2>1, <3>1, AppendInserts DEF Slot
      <3>3. Len(E) + 1 \in 1 .. Len(E) + 1
        BY <2>1
      <3> QED
        BY <2>2, <3>2, <3>3, SameOperators DEF Array!Next, Array!InsertItem, E
    <2>4. ASSUME NEW o \in Object, NEW i \in 0 .. vector.n, InsertIntoVector(o, i)
          PROVE  Array!Next
      <3>1. F = InsertAt(E, i + 1, o)
        BY <2>4, VectorSteps DEF Holds, E, F
      <3>2. i + 1 \in 1 .. Len(E) + 1
        BY <2>1
      <3> QED
        BY <2>2, <3>1, <3>2, SameOperators DEF Array!Next, Array!InsertItem, E
    <2>5. ASSUME NEW i \in 0 .. vector.n - 1, RemoveFromVector(i)
          PROVE  Array!Next
      <3>1. F = IF vector.opts = "KEEP" THEN ReplaceAt(E, i + 1, NULL) ELSE RemoveAt(E, i + 1)
        BY <2>5, VectorSteps DEF Holds, E, F
      <3>2. i + 1 \in 1 .. Len(E)
        BY <2>1
      <3> QED
        BY <2>2, <3>1, <3>2, SameOperators DEF Array!Next, Array!RemoveItem, Array!BlankItem, E
    <2>6. ASSUME NEW s \in DOMAIN sets, ExtendVector(s)
          PROVE  Array!Next
      <3>1. F = E \o Elements(sets[s])
        BY <2>6, VectorSteps DEF Holds, E, F
      <3>2. Elements(sets[s]) \in SetToAllKPermutations(Object)
        BY ElementsOnce DEF ArraysSound
      <3> QED
        BY <2>2, <3>1, <3>2, SameOperators DEF Array!Next, Array!AppendItems, E
    <2> QED
      BY <1>2, <2>3, <2>4, <2>5, <2>6 DEF VectorStep
  <1> QED
    BY <1>1, <1>2 DEF Next

\* vector.c: what vector_add, vector_insert, vector_remove and vector_extend do to the
\* cells, through every reallocation, is what the sequence of the items promises.
THEOREM IsSequence ==
    ASSUME RoomAssumption
    PROVE  Spec => ImplementsSequence
  <1>1. Init => ArraysSound
    BY ArraysBegin
  <1>2. ArraysSound /\ [Next]_vars => ArraysSound'
    BY ArraysStep
  <1>3. Init => Array!Init
    <2> SUFFICES ASSUME Init
                 PROVE  Elements(vector) = <<>>
      BY DEF Array!Init
    <2>1. PICK opts \in {"REMOVE", "KEEP"} : vector = VectorNew(opts)
      BY DEF Init
    <2> QED
      BY <2>1, NewIsVector DEF Holds
  <1>4. ArraysSound /\ [Next]_vars => [Array!Next]_(Elements(vector))
    BY SequenceStep
  <1> QED
    BY <1>1, <1>2, <1>3, <1>4, PTL DEF Spec, ImplementsSequence, Array!Spec

-----------------------------------------------------------------------------
(* The map.                                                                *)

\* The maps the program may have.
MapItem == [key : Key, data : Object]
Maps ==
    UNION {[size : {size}, n : Nat, table : [0 .. size - 1 -> Seq(MapItem)]] : size \in Nat \ {0}}

\* Every item is in the bucket of its key, and is the only one with its key.
InPlace(m, b, q) ==
    /\ \A i \in 1 .. Len(q) : Hash[q[i].key] % m.size = b
    /\ \A i, j \in 1 .. Len(q) : q[i].key = q[j].key => i = j
IsMap(m) == m \in Maps /\ \A b \in 0 .. m.size - 1 : InPlace(m, b, m.table[b])

\* What every map has.
LEMMA MapParts ==
    ASSUME NEW m \in Maps
    PROVE  /\ m = [size |-> m.size, n |-> m.n, table |-> m.table]
           /\ m.size \in Nat \ {0} /\ m.n \in Nat /\ m.table \in [0 .. m.size - 1 -> Seq(MapItem)]
  <1>1. PICK size \in Nat \ {0} :
           m \in [size : {size}, n : Nat, table : [0 .. size - 1 -> Seq(MapItem)]]
    BY DEF Maps
  <1> QED
    BY <1>1

\* A record with these parts is a map.
LEMMA IsOfMaps ==
    ASSUME NEW size \in Nat \ {0}, NEW n \in Nat, NEW table \in [0 .. size - 1 -> Seq(MapItem)]
    PROVE  [size |-> size, n |-> n, table |-> table] \in Maps
  <1>1. [size |-> size, n |-> n, table |-> table]
           \in [size : {size}, n : Nat, table : [0 .. size - 1 -> Seq(MapItem)]]
    OBVIOUS
  <1> QED
    BY <1>1 DEF Maps

\* The bucket of a key
LEMMA BucketIs ==
    ASSUME HashAssumption, NEW m \in Maps, NEW k \in Key
    PROVE  /\ Bucket(m, k) \in 0 .. m.size - 1 /\ m.table[Bucket(m, k)] \in Seq(MapItem)
           /\ Bucket(m, k) = Hash[k] % m.size
  <1>1. m.size \in Nat \ {0} /\ Hash[k] \in Nat /\ m.table \in [0 .. m.size - 1 -> Seq(MapItem)]
    BY MapParts DEF HashAssumption
  <1>2. Hash[k] % m.size \in 0 .. m.size - 1
    BY <1>1
  <1> QED
    BY <1>1, <1>2 DEF Bucket

\* Where its item is
LEMMA AtIs ==
    ASSUME NEW m, NEW k, NEW q \in Seq(MapItem), q = m.table[Bucket(m, k)]
    PROVE  /\ At(m, k) = 0 => \A i \in 1 .. Len(q) : q[i].key # k
           /\ At(m, k) # 0 => At(m, k) \in 1 .. Len(q) /\ q[At(m, k)].key = k
  <1> DEFINE I == {i \in 1 .. Len(q) : q[i].key = k}
  <1>1. At(m, k) = IF I # {} THEN Min(I) ELSE 0
    BY DEF At, SelectInSeq
  <1>2. CASE I = {}
    BY <1>1, <1>2
  <1>3. CASE I # {}
    <2>1. I \subseteq Nat
      OBVIOUS
    <2>2. \E x \in I : \A y \in I : x <= y
      BY <1>3, <2>1, Least
    <2>3. Min(I) \in I
      BY <2>2 DEF Min
    <2>4. Min(I) # 0
      BY <2>3
    <2> QED
      BY <1>1, <1>3, <2>3, <2>4
  <1> QED
    BY <1>2, <1>3

\* What is found under a key
LEMMA GetIs ==
    ASSUME HashAssumption, NullAssumption, NEW m, IsMap(m), NEW k \in Key,
           NEW q, q = m.table[Bucket(m, k)]
    PROVE  /\ q \in Seq(MapItem) /\ InPlace(m, Bucket(m, k), q)
           /\ \A i \in 1 .. Len(q) : q[i].key = k => MapGet(m, k) = q[i].data /\ At(m, k) = i
           /\ (\A i \in 1 .. Len(q) : q[i].key # k) => MapGet(m, k) = NULL /\ At(m, k) = 0
           /\ MapGet(m, k) \in Slot
           /\ MapGet(m, k) # NULL <=> At(m, k) # 0
  <1>1. m \in Maps /\ Bucket(m, k) \in 0 .. m.size - 1
    BY BucketIs DEF IsMap
  <1>2. q \in Seq(MapItem) /\ InPlace(m, Bucket(m, k), q)
    BY <1>1, BucketIs DEF IsMap
  <1>3. /\ At(m, k) = 0 => \A i \in 1 .. Len(q) : q[i].key # k
        /\ At(m, k) # 0 => At(m, k) \in 1 .. Len(q) /\ q[At(m, k)].key = k
    BY <1>2, AtIs
  <1>4. MapGet(m, k) = IF At(m, k) = 0 THEN NULL ELSE q[At(m, k)].data
    BY DEF MapGet
  <1>5. \A i \in 1 .. Len(q) : q[i].data \in Object /\ q[i].data # NULL
    <2>1. \A i \in 1 .. Len(q) : q[i] \in MapItem
      BY <1>2
    <2>2. \A i \in 1 .. Len(q) : q[i].data \in Object
      BY <2>1 DEF MapItem
    <2> QED
      BY <2>2 DEF NullAssumption
  <1>6. ASSUME NEW i \in 1 .. Len(q), q[i].key = k
        PROVE  MapGet(m, k) = q[i].data /\ At(m, k) = i
    <2>1. At(m, k) # 0
      BY <1>3, <1>6
    <2>2. At(m, k) = i
      BY <1>2, <1>3, <1>6, <2>1 DEF InPlace
    <2> QED
      BY <1>4, <2>1, <2>2
  <1>7. ASSUME \A i \in 1 .. Len(q) : q[i].key # k
        PROVE  MapGet(m, k) = NULL /\ At(m, k) = 0
    BY <1>3, <1>4, <1>7
  <1>8. MapGet(m, k) \in Slot /\ (MapGet(m, k) # NULL <=> At(m, k) # 0)
    BY <1>3, <1>4, <1>5 DEF Slot
  <1> QED
    BY <1>2, <1>6, <1>7, <1>8

\* r is m with one bucket replaced.
Replaced(r, m, b, q, n) == r = [size |-> m.size, n |-> n, table |-> [m.table EXCEPT ![b] = q]]

\* A map with one bucket replaced, as far as the other keys see it
LEMMA BucketChanged ==
    ASSUME HashAssumption, NullAssumption, NEW m, IsMap(m), NEW b \in 0 .. m.size - 1,
           NEW q \in Seq(MapItem), InPlace(m, b, q), NEW n \in Nat,
           NEW r, Replaced(r, m, b, q, n)
    PROVE  /\ IsMap(r) /\ r.size = m.size /\ r.n = n /\ r.table[b] = q
           /\ \A k \in Key : Bucket(r, k) = Bucket(m, k)
           /\ \A k \in Key : Bucket(m, k) # b => MapGet(r, k) = MapGet(m, k)
  <1>1. /\ m.size \in Nat \ {0} /\ m.table \in [0 .. m.size - 1 -> Seq(MapItem)] /\ m \in Maps
    BY MapParts DEF IsMap
  <1>2. [m.table EXCEPT ![b] = q] \in [0 .. m.size - 1 -> Seq(MapItem)]
    BY <1>1
  <1>3. r \in Maps
    BY <1>1, <1>2, IsOfMaps DEF Replaced
  <1>4. r.size = m.size /\ r.n = n
    BY DEF Replaced
  <1>5. \A c \in 0 .. m.size - 1 : r.table[c] = IF c = b THEN q ELSE m.table[c]
    BY <1>1 DEF Replaced
  <1>6. \A c, p : InPlace(r, c, p) <=> InPlace(m, c, p)
    BY <1>4 DEF InPlace
  <1>7. IsMap(r)
    BY <1>3, <1>4, <1>5, <1>6 DEF IsMap
  <1>8. \A k \in Key : Bucket(r, k) = Bucket(m, k)
    BY <1>4 DEF Bucket
  <1>9. ASSUME NEW k \in Key, Bucket(m, k) # b
        PROVE  MapGet(r, k) = MapGet(m, k)
    <2>1. Bucket(m, k) \in 0 .. m.size - 1 /\ Bucket(r, k) = Bucket(m, k)
      BY <1>1, <1>8, BucketIs
    <2>2. r.table[Bucket(r, k)] = m.table[Bucket(m, k)]
      BY <1>5, <1>9, <2>1
    <2>3. /\ \A i \in 1 .. Len(m.table[Bucket(m, k)]) : m.table[Bucket(m, k)][i].key = k
                => /\ MapGet(m, k) = m.table[Bucket(m, k)][i].data
                   /\ MapGet(r, k) = m.table[Bucket(m, k)][i].data
          /\ (\A i \in 1 .. Len(m.table[Bucket(m, k)]) : m.table[Bucket(m, k)][i].key # k)
                => MapGet(m, k) = NULL /\ MapGet(r, k) = NULL
      BY SMTT(30), <1>7, <2>2, GetIs
    <2> QED
      BY <2>3
  <1> QED
    BY <1>4, <1>5, <1>7, <1>8, <1>9

\* A new item goes to the front of its chain.
LEMMA PushedItem ==
    ASSUME NEW m, NEW b, NEW q \in Seq(MapItem), InPlace(m, b, q), NEW x \in MapItem,
           Hash[x.key] % m.size = b, \A i \in 1 .. Len(q) : q[i].key # x.key
    PROVE  /\ <<x>> \o q \in Seq(MapItem) /\ InPlace(m, b, <<x>> \o q)
           /\ Len(<<x>> \o q) = Len(q) + 1 /\ (<<x>> \o q)[1] = x
           /\ \A i \in 1 .. Len(q) : (<<x>> \o q)[i + 1] = q[i]
  <1> DEFINE p == <<x>> \o q
  <1>1. /\ p \in Seq(MapItem) /\ Len(p) = Len(q) + 1 /\ p[1] = x
        /\ \A i \in 1 .. Len(q) : p[i + 1] = q[i]
    BY Pushed
  <1> HIDE DEF p
  <1>2. \A j \in 1 .. Len(p) : j = 1 \/ \E i \in 1 .. Len(q) : j = i + 1
    <2> SUFFICES ASSUME NEW j \in 1 .. Len(p), j # 1
                 PROVE  \E i \in 1 .. Len(q) : j = i + 1
      OBVIOUS
    <2>1. j - 1 \in 1 .. Len(q) /\ j = (j - 1) + 1
      BY <1>1
    <2> QED
      BY <2>1
  <1>3. \A j \in 1 .. Len(p) : (j = 1 /\ p[j] = x) \/ \E i \in 1 .. Len(q) : j = i + 1
                                            /\ p[j] = q[i]
    BY <1>1, <1>2
  <1>4. ASSUME NEW j \in 1 .. Len(p)
        PROVE  Hash[p[j].key] % m.size = b
    BY <1>3 DEF InPlace
  <1>5. ASSUME NEW i \in 1 .. Len(p), NEW j \in 1 .. Len(p), p[i].key = p[j].key
        PROVE  i = j
    <2>1. CASE i = 1
      BY <1>3, <1>5, <2>1
    <2>2. CASE i # 1
      <3>1. PICK c \in 1 .. Len(q) : i = c + 1 /\ p[i] = q[c]
        BY <1>3, <2>2
      <3>2. CASE j = 1
        BY <1>3, <1>5, <3>1, <3>2
      <3>3. CASE j # 1
        <4>1. PICK d \in 1 .. Len(q) : j = d + 1 /\ p[j] = q[d]
          BY <1>3, <3>3
        <4>2. c = d
          BY <1>5, <3>1, <4>1 DEF InPlace
        <4> QED
          BY <3>1, <4>1, <4>2
      <3> QED
        BY <3>2, <3>3
    <2> QED
      BY <2>1, <2>2
  <1> QED
    BY <1>1, <1>4, <1>5 DEF InPlace, p

\* prv_map_insert_item: the key is found with its new data, the others as before.
LEMMA InsertItemIs ==
    ASSUME HashAssumption, NullAssumption, NEW m, IsMap(m), NEW x \in MapItem
    PROVE  /\ IsMap(InsertItem(m, x)) /\ InsertItem(m, x).size = m.size
           /\ InsertItem(m, x).n = IF MapGet(m, x.key) = NULL THEN m.n + 1 ELSE m.n
           /\ \A k \in Key : MapGet(InsertItem(m, x), k)
                              = IF k = x.key THEN x.data ELSE MapGet(m, k)
  <1> DEFINE key == x.key
             b == Bucket(m, key)
             q == m.table[b]
             r == InsertItem(m, x)
             a == At(m, key)
  <1> HIDE DEF key, b, q, r, a
  <1>1. /\ m = [size |-> m.size, n |-> m.n, table |-> m.table] /\ m.n \in Nat /\ m \in Maps
        /\ m.size \in Nat \ {0} /\ m.table \in [0 .. m.size - 1 -> Seq(MapItem)]
        /\ key \in Key /\ x.data \in Object /\ x.data # NULL
    BY MapParts DEF IsMap, MapItem, NullAssumption, key
  <1>2. /\ b \in 0 .. m.size - 1 /\ q \in Seq(MapItem) /\ InPlace(m, b, q) /\ b = Hash[key] % m.size
        /\ (MapGet(m, key) # NULL <=> a # 0)
    BY <1>1, BucketIs, GetIs DEF b, q, a
  <1>3. /\ a = 0 => \A i \in 1 .. Len(q) : q[i].key # key
        /\ a # 0 => a \in 1 .. Len(q) /\ q[a].key = key
    BY <1>2, AtIs DEF b, q, a
  <1>4. CASE a = 0
    <2> DEFINE p == <<x>> \o q
    <2>1. r = [m EXCEPT !.table[b] = p, !.n = @ + 1]
      BY <1>4 DEF InsertItem, r, b, q, a, key
    <2>2. /\ p \in Seq(MapItem) /\ InPlace(m, b, p) /\ Len(p) = Len(q) + 1 /\ p[1] = x
          /\ \A i \in 1 .. Len(q) : p[i + 1] = q[i]
      <3>1. Hash[x.key] % m.size = b /\ \A i \in 1 .. Len(q) : q[i].key # x.key
        BY <1>2, <1>3, <1>4 DEF key
      <3> QED
        BY <1>2, <3>1, PushedItem
    <2> HIDE DEF p
    <2>3. Replaced(r, m, b, p, m.n + 1)
      BY <1>1, <2>1 DEF Replaced
    <2>4. m.n + 1 \in Nat
      BY <1>1
    <2>5. /\ IsMap(r) /\ r.size = m.size /\ r.n = m.n + 1 /\ r.table[b] = p
          /\ \A k \in Key : Bucket(r, k) = Bucket(m, k)
          /\ \A k \in Key : Bucket(m, k) # b => MapGet(r, k) = MapGet(m, k)
      BY <1>2, <2>2, <2>3, <2>4, BucketChanged
    <2>6. ASSUME NEW k \in Key, Bucket(m, k) = b
          PROVE  MapGet(r, k) = IF k = key THEN x.data ELSE MapGet(m, k)
      <3>1. r.table[Bucket(r, k)] = p /\ m.table[Bucket(m, k)] = q
        BY <2>5, <2>6 DEF q
      <3>2. /\ \A i \in 1 .. Len(p) : p[i].key = k => MapGet(r, k) = p[i].data
            /\ (\A i \in 1 .. Len(p) : p[i].key # k) => MapGet(r, k) = NULL
        BY <2>5, <3>1, GetIs
      <3>3. /\ \A i \in 1 .. Len(q) : q[i].key = k => MapGet(m, k) = q[i].data
            /\ (\A i \in 1 .. Len(q) : q[i].key # k) => MapGet(m, k) = NULL
        BY <3>1, GetIs
      <3>4. Len(q) \in Nat /\ 1 \in 1 .. Len(p)
        BY <1>2, <2>2
      <3>5. CASE k = key
        BY <2>2, <3>2, <3>4, <3>5 DEF key
      <3>6. CASE k # key
        <4>1. CASE \E i \in 1 .. Len(q) : q[i].key = k
          <5>1. PICK i \in 1 .. Len(q) : q[i].key = k
            BY <4>1
          <5>2. i + 1 \in 1 .. Len(p) /\ p[i + 1] = q[i]
            BY <2>2, <3>4
          <5> QED
            BY <3>2, <3>3, <3>6, <5>1, <5>2
        <4>2. CASE \A i \in 1 .. Len(q) : q[i].key # k
          <5>1. ASSUME NEW j \in 1 .. Len(p)
                PROVE  p[j].key # k
            <6>1. CASE j = 1
              BY <2>2, <3>6, <6>1 DEF key
            <6>2. CASE j # 1
              <7>1. j - 1 \in 1 .. Len(q) /\ (j - 1) + 1 = j
                BY <2>2, <3>4, <6>2
              <7> QED
                BY <2>2, <4>2, <7>1
            <6> QED
              BY <6>1, <6>2
          <5> QED
            BY <3>2, <3>3, <3>6, <4>2, <5>1
        <4> QED
          BY <4>1, <4>2
      <3> QED
        BY <3>5, <3>6
    <2>7. \A k \in Key : MapGet(r, k) = IF k = key THEN x.data ELSE MapGet(m, k)
      <3>1. \A k \in Key : k = key => Bucket(m, k) = b
        BY DEF b
      <3> QED
        BY <2>5, <2>6, <3>1
    <2>8. MapGet(m, key) = NULL
      BY <1>2, <1>4
    <2> QED
      BY <2>5, <2>7, <2>8 DEF r, key
  <1>5. CASE a # 0
    <2> DEFINE p == [q EXCEPT ![a] = x]
    <2>1. r = [m EXCEPT !.table[b][a] = x]
      BY <1>5 DEF InsertItem, r, b, q, a, key
    <2>2. /\ p \in Seq(MapItem) /\ Len(p) = Len(q) /\ p[a] = x
          /\ \A i \in 1 .. Len(q) : i # a => p[i] = q[i]
      BY <1>2, <1>3, <1>5
    <2> HIDE DEF p
    <2>3. \A i \in 1 .. Len(q) : p[i].key = q[i].key
      BY <1>3, <1>5, <2>2 DEF key
    <2>4. InPlace(m, b, p)
      BY <1>2, <2>2, <2>3 DEF InPlace
    <2>5. Replaced(r, m, b, p, m.n)
      BY <1>1, <1>2, <2>1 DEF Replaced, p, q
    <2>6. /\ IsMap(r) /\ r.size = m.size /\ r.n = m.n /\ r.table[b] = p
          /\ \A k \in Key : Bucket(r, k) = Bucket(m, k)
          /\ \A k \in Key : Bucket(m, k) # b => MapGet(r, k) = MapGet(m, k)
      BY <1>1, <1>2, <2>2, <2>4, <2>5, BucketChanged
    <2>7. ASSUME NEW k \in Key, Bucket(m, k) = b
          PROVE  MapGet(r, k) = IF k = key THEN x.data ELSE MapGet(m, k)
      <3>1. r.table[Bucket(r, k)] = p /\ m.table[Bucket(m, k)] = q
        BY <2>6, <2>7 DEF q
      <3>2. /\ \A i \in 1 .. Len(p) : p[i].key = k => MapGet(r, k) = p[i].data
            /\ (\A i \in 1 .. Len(p) : p[i].key # k) => MapGet(r, k) = NULL
        BY <2>6, <3>1, GetIs
      <3>3. /\ \A i \in 1 .. Len(q) : q[i].key = k => MapGet(m, k) = q[i].data
            /\ (\A i \in 1 .. Len(q) : q[i].key # k) => MapGet(m, k) = NULL
        BY <3>1, GetIs
      <3>4. CASE k = key
        BY <1>3, <1>5, <2>2, <2>3, <3>2, <3>4
      <3>5. CASE k # key
        <4>1. CASE \E i \in 1 .. Len(q) : q[i].key = k
          <5>1. PICK i \in 1 .. Len(q) : q[i].key = k
            BY <4>1
          <5>2. i # a
            BY <1>3, <1>5, <3>5, <5>1
          <5> QED
            BY <2>2, <3>2, <3>3, <3>5, <5>1, <5>2
        <4>2. CASE \A i \in 1 .. Len(q) : q[i].key # k
          BY <2>2, <2>3, <3>2, <3>3, <3>5, <4>2
        <4> QED
          BY <4>1, <4>2
      <3> QED
        BY <3>4, <3>5
    <2>8. \A k \in Key : MapGet(r, k) = IF k = key THEN x.data ELSE MapGet(m, k)
      <3>1. \A k \in Key : k = key => Bucket(m, k) = b
        BY DEF b
      <3> QED
        BY <2>6, <2>7, <3>1
    <2>9. MapGet(m, key) # NULL
      BY <1>2, <1>5
    <2> QED
      BY <2>6, <2>8, <2>9 DEF r, key
  <1> QED
    BY <1>4, <1>5

\* map_remove: the key is found no more, the others as before.
LEMMA MapRemoveIs ==
    ASSUME HashAssumption, NullAssumption, NEW m, IsMap(m), NEW key \in Key, MapGet(m, key) # NULL
    PROVE  /\ IsMap(MapRemove(m, key)) /\ MapRemove(m, key).size = m.size
           /\ MapRemove(m, key).n = m.n
           /\ \A k \in Key : MapGet(MapRemove(m, key), k) = IF k = key THEN NULL ELSE MapGet(m, k)
  <1> DEFINE b == Bucket(m, key)
             q == m.table[b]
             r == MapRemove(m, key)
             a == At(m, key)
             p == RemoveAt(q, a)
  <1> HIDE DEF b, q, r, a, p
  <1>1. /\ m = [size |-> m.size, n |-> m.n, table |-> m.table] /\ m.n \in Nat /\ m \in Maps
        /\ m.size \in Nat \ {0} /\ m.table \in [0 .. m.size - 1 -> Seq(MapItem)]
    BY MapParts DEF IsMap
  <1>2. /\ b \in 0 .. m.size - 1 /\ q \in Seq(MapItem) /\ InPlace(m, b, q) /\ a # 0
    BY <1>1, BucketIs, GetIs DEF b, q, a
  <1>3. a \in 1 .. Len(q) /\ q[a].key = key
    BY <1>2, AtIs DEF b, q, a
  <1>4. r = [m EXCEPT !.table[b] = p]
    BY DEF MapRemove, r, b, q, a, p
  <1>5. /\ p \in Seq(MapItem) /\ Len(p) = Len(q) - 1
        /\ \A j \in 1 .. Len(q) - 1 : p[j] = IF j < a THEN q[j] ELSE q[j + 1]
    BY <1>2, <1>3, RemoveAtIs DEF p
  <1> DEFINE at(j) == IF j < a THEN j ELSE j + 1
  <1>6. Len(q) \in Nat /\ a \in Nat
    BY <1>2, <1>3
  <1>7. \A j \in 1 .. Len(p) : at(j) \in 1 .. Len(q) /\ at(j) # a /\ p[j] = q[at(j)]
    BY <1>3, <1>5, <1>6
  <1>8. \A i, j \in 1 .. Len(p) : at(i) = at(j) => i = j
    BY <1>5, <1>6
  <1>9. \A c \in 1 .. Len(q) : c # a => \E j \in 1 .. Len(p) : at(j) = c
    <2> SUFFICES ASSUME NEW c \in 1 .. Len(q), c # a
                 PROVE  \E j \in 1 .. Len(p) : at(j) = c
      OBVIOUS
    <2>1. CASE c < a
      <3>1. c \in 1 .. Len(p) /\ at(c) = c
        BY <1>3, <1>5, <1>6, <2>1
      <3> QED
        BY <3>1
    <2>2. CASE ~(c < a)
      <3>1. c - 1 \in 1 .. Len(p) /\ at(c - 1) = c
        BY <1>3, <1>5, <1>6, <2>2
      <3> QED
        BY <3>1
    <2> QED
      BY <2>1, <2>2
  <1> HIDE DEF at
  <1>10. InPlace(m, b, p)
    <2>1. \A j \in 1 .. Len(p) : Hash[p[j].key] % m.size = b
      BY <1>2, <1>7 DEF InPlace
    <2>2. \A i, j \in 1 .. Len(p) : p[i].key = p[j].key => i = j
      BY <1>2, <1>7, <1>8 DEF InPlace
    <2> QED
      BY <2>1, <2>2 DEF InPlace
  <1>11. Replaced(r, m, b, p, m.n)
    BY <1>1, <1>4 DEF Replaced
  <1>12. /\ IsMap(r) /\ r.size = m.size /\ r.n = m.n /\ r.table[b] = p
         /\ \A k \in Key : Bucket(r, k) = Bucket(m, k)
         /\ \A k \in Key : Bucket(m, k) # b => MapGet(r, k) = MapGet(m, k)
    <2>1. m.n \in Nat /\ b \in 0 .. m.size - 1 /\ p \in Seq(MapItem)
      BY <1>1, <1>2, <1>5
    <2> QED
      BY <1>10, <1>11, <2>1, BucketChanged
  <1>13. ASSUME NEW k \in Key, Bucket(m, k) = b
         PROVE  MapGet(r, k) = IF k = key THEN NULL ELSE MapGet(m, k)
    <2>1. r.table[Bucket(r, k)] = p /\ m.table[Bucket(m, k)] = q
      BY <1>12, <1>13 DEF q
    <2>2. /\ \A i \in 1 .. Len(p) : p[i].key = k => MapGet(r, k) = p[i].data
          /\ (\A i \in 1 .. Len(p) : p[i].key # k) => MapGet(r, k) = NULL
      BY <1>12, <2>1, GetIs
    <2>3. /\ \A i \in 1 .. Len(q) : q[i].key = k => MapGet(m, k) = q[i].data
          /\ (\A i \in 1 .. Len(q) : q[i].key # k) => MapGet(m, k) = NULL
      BY <2>1, GetIs
    <2>4. CASE k = key
      <3>1. \A j \in 1 .. Len(p) : p[j].key # k
        BY <1>2, <1>3, <1>7, <2>4 DEF InPlace
      <3> QED
        BY <2>2, <2>4, <3>1
    <2>5. CASE k # key
      <3>1. CASE \E c \in 1 .. Len(q) : q[c].key = k
        <4>1. PICK c \in 1 .. Len(q) : q[c].key = k
          BY <3>1
        <4>2. c # a
          BY <1>3, <2>5, <4>1
        <4>3. PICK j \in 1 .. Len(p) : at(j) = c
          BY <1>9, <4>2
        <4> QED
          BY <1>7, <2>2, <2>3, <2>5, <4>1, <4>3
      <3>2. CASE \A c \in 1 .. Len(q) : q[c].key # k
        BY <1>7, <2>2, <2>3, <2>5, <3>2
      <3> QED
        BY <3>1, <3>2
    <2> QED
      BY <2>4, <2>5
  <1>14. \A k \in Key : MapGet(r, k) = IF k = key THEN NULL ELSE MapGet(m, k)
    <2>1. \A k \in Key : k = key => Bucket(m, k) = b
      BY DEF b
    <2> QED
      BY <1>12, <1>13, <2>1
  <1> QED
    BY <1>12, <1>14 DEF r

\* A map without items, of any size and with any number n
LEMMA EmptyMapIs ==
    ASSUME HashAssumption, NullAssumption, NEW size \in Nat \ {0}, NEW n \in Nat,
           NEW m, m = [size |-> size, n |-> n, table |-> [b \in 0 .. size - 1 |-> <<>>]]
    PROVE  IsMap(m) /\ m.size = size /\ m.n = n /\ \A k \in Key : MapGet(m, k) = NULL
  <1>1. [b \in 0 .. size - 1 |-> <<>>] \in [0 .. size - 1 -> Seq(MapItem)]
    OBVIOUS
  <1>2. m \in Maps
    BY <1>1, IsOfMaps
  <1>3. m.size = size /\ m.n = n /\ \A b \in 0 .. size - 1 : m.table[b] = <<>>
    OBVIOUS
  <1>4. IsMap(m)
    BY <1>2, <1>3 DEF IsMap, InPlace
  <1>5. ASSUME NEW k \in Key
        PROVE  MapGet(m, k) = NULL
    <2>1. m.table[Bucket(m, k)] = <<>>
      BY <1>2, <1>3, BucketIs
    <2> QED
      BY <1>4, <2>1, GetIs
  <1> QED
    BY <1>3, <1>4, <1>5

\* The keys a map finds something under; n is at least their number.
Keys(m) == {k \in Key : MapGet(m, k) # NULL}
Counted(m) == IsFiniteSet(Keys(m)) /\ Cardinality(Keys(m)) <= m.n

\* Entering an item counts it.
LEMMA InsertItemCounted ==
    ASSUME HashAssumption, NullAssumption, NEW m, IsMap(m), Counted(m), NEW x \in MapItem
    PROVE  Counted(InsertItem(m, x)) /\ Keys(InsertItem(m, x)) = Keys(m) \cup {x.key}
  <1> DEFINE r == InsertItem(m, x)
  <1>1. /\ r.n = IF MapGet(m, x.key) = NULL THEN m.n + 1 ELSE m.n
        /\ \A k \in Key : MapGet(r, k) = IF k = x.key THEN x.data ELSE MapGet(m, k)
    BY InsertItemIs
  <1> HIDE DEF r
  <1>2. x.key \in Key /\ x.data # NULL /\ m.n \in Nat
    BY MapParts DEF MapItem, NullAssumption, IsMap
  <1>3. Keys(r) = Keys(m) \cup {x.key}
    BY <1>1, <1>2 DEF Keys
  <1>4. /\ IsFiniteSet(Keys(r)) /\ Cardinality(Keys(m)) \in Nat
        /\ Cardinality(Keys(r)) = IF x.key \in Keys(m) THEN Cardinality(Keys(m))
                ELSE Cardinality(Keys(m)) + 1
    <2>1. IsFiniteSet(Keys(m))
      BY DEF Counted
    <2> QED
      BY <1>3, <2>1, FS_AddElement, FS_CardinalityType
  <1>5. x.key \in Keys(m) <=> MapGet(m, x.key) # NULL
    BY <1>2 DEF Keys
  <1>6. Cardinality(Keys(r)) <= r.n
    BY <1>1, <1>2, <1>4, <1>5 DEF Counted
  <1> QED
    BY <1>3, <1>4, <1>6 DEF Counted, r

\* Removing does not count down, which keeps n from below.
LEMMA MapRemoveCounted ==
    ASSUME HashAssumption, NullAssumption, NEW m, IsMap(m), Counted(m), NEW key \in Key,
           MapGet(m, key) # NULL
    PROVE  Counted(MapRemove(m, key)) /\ Keys(MapRemove(m, key)) = Keys(m) \ {key}
  <1> DEFINE r == MapRemove(m, key)
  <1>1. r.n = m.n /\ \A k \in Key : MapGet(r, k) = IF k = key THEN NULL ELSE MapGet(m, k)
    BY MapRemoveIs
  <1> HIDE DEF r
  <1>2. Keys(r) = Keys(m) \ {key}
    BY <1>1 DEF Keys
  <1>3. Keys(r) \in SUBSET Keys(m)
    BY <1>2
  <1>4. IsFiniteSet(Keys(r)) /\ Cardinality(Keys(r)) <= Cardinality(Keys(m))
    BY <1>3, FS_Subset DEF Counted
  <1>5. Cardinality(Keys(r)) \in Nat /\ Cardinality(Keys(m)) \in Nat /\ m.n \in Nat
    BY <1>4, FS_CardinalityType, MapParts DEF Counted, IsMap
  <1>6. Cardinality(Keys(r)) <= r.n
    BY <1>1, <1>4, <1>5 DEF Counted
  <1> QED
    BY <1>2, <1>4, <1>6 DEF Counted, r

-----------------------------------------------------------------------------
(* Growth of the map.                                                      *)

\* The buckets in order, and their items laid out one chain after the other.
Chains(m) == [i \in 1 .. m.size |-> i - 1]
AnyItems == Seq(MapItem)

UnchainedOn(f, m) ==
    f = [t \in SUBSET DOMAIN Chains(m) |-> IF t = {} THEN <<>>
            ELSE (f[t \ {Max(t)}] \o Reverse(m.table[Chains(m)[Max(t)]]))]

\* Taking the buckets apart
LEMMA UnchainedOneByOne ==
    ASSUME NEW m \in Maps
    PROVE  \E g \in [0 .. m.size -> AnyItems] :
              /\ g[0] = <<>> /\ g[m.size] = Unchained(m)
              /\ \A i \in 1 .. m.size : g[i] = (g[i - 1] \o Reverse(m.table[Chains(m)[i]]))
  <1> DEFINE n == m.size
             G == [p \in AnyItems \X (1 .. n) |-> (p[1] \o Reverse(m.table[Chains(m)[p[2]]]))]
             f == CHOOSE f : UnchainedOn(f, m)
  <1>1. n \in Nat /\ DOMAIN Chains(m) = 1 .. n /\ <<>> \in AnyItems
    BY MapParts DEF Chains, AnyItems
  <1>2. ASSUME NEW w \in AnyItems, NEW i \in 1 .. n
        PROVE  G[<<w, i>>] = (w \o Reverse(m.table[Chains(m)[i]]))
                   /\ (w \o Reverse(m.table[Chains(m)[i]])) \in AnyItems
    <2>1. m.size \in Nat \ {0} /\ m.table \in [0 .. m.size - 1 -> Seq(MapItem)]
      BY MapParts
    <2>2. Chains(m)[i] \in 0 .. m.size - 1
      BY <2>1 DEF Chains
    <2> DEFINE q == m.table[Chains(m)[i]]
    <2>3. q \in Seq(MapItem)
      BY <2>1, <2>2
    <2>4. Reverse(q) \in Seq(MapItem)
      <3> HIDE DEF q
      <3>1. Len(q) \in Nat /\ \A j \in 1 .. Len(q) : Len(q) - j + 1 \in 1 .. Len(q)
        BY <2>3
      <3>2. \A j \in 1 .. Len(q) : q[Len(q) - j + 1] \in MapItem
        BY <2>3, <3>1
      <3> QED
        BY <3>1, <3>2 DEF Reverse
    <2>5. w \o Reverse(q) \in AnyItems
      BY <2>4 DEF AnyItems
    <2> QED
      BY <2>5
  <1>3. G \in [AnyItems \X (1 .. n) -> AnyItems]
    <2>1. \A p \in AnyItems \X (1 .. n) : p[1] \in AnyItems /\ p[2] \in 1 .. n
      OBVIOUS
    <2> HIDE DEF n
    <2>2. \A p \in AnyItems \X (1 .. n) : G[p] \in AnyItems
      <3> SUFFICES ASSUME NEW p \in AnyItems \X (1 .. n)
                   PROVE  G[p] \in AnyItems
        OBVIOUS
      <3>1. p = <<p[1], p[2]>> /\ p[1] \in AnyItems /\ p[2] \in 1 .. n
        BY <2>1
      <3> HIDE DEF G
      <3> QED
        BY <1>2, <3>1
    <2>3. G = [p \in AnyItems \X (1 .. n) |-> G[p]]
      OBVIOUS
    <2> HIDE DEF G
    <2> QED
      BY <2>2, <2>3
  <1>4. Unchained(m) = f[1 .. n]
    BY <1>1 DEF Unchained, Chains, FoldLeft, MapThenFoldSet, UnchainedOn
  <1> HIDE DEF n, G, f
  <1>5. PICK h \in [SUBSET (1 .. n) -> AnyItems] : FoldsTo(h, n, G, <<>>)
    <2>1. n \in Nat /\ <<>> \in AnyItems
      BY <1>1
    <2> QED
      BY <1>3, <2>1, FoldExists
  <1>6. UnchainedOn(h, m)
    <2>1. ASSUME NEW t \in SUBSET (1 .. n), t # {}
          PROVE  h[t] = (h[t \ {Max(t)}] \o Reverse(m.table[Chains(m)[Max(t)]]))
      <3>1. Max(t) \in 1 .. n /\ h[t \ {Max(t)}] \in AnyItems
        BY <1>1, <1>5, <2>1, LastPlace
      <3> QED
        BY <1>2, <1>5, <2>1, <3>1 DEF FoldsTo
    <2>2. \A t \in SUBSET (1 .. n) : h[t] = IF t = {} THEN <<>>
            ELSE (h[t \ {Max(t)}] \o Reverse(m.table[Chains(m)[Max(t)]]))
      BY <1>5, <2>1 DEF FoldsTo
    <2>3. h = [t \in SUBSET (1 .. n) |-> IF t = {} THEN <<>>
            ELSE (h[t \ {Max(t)}] \o Reverse(m.table[Chains(m)[Max(t)]]))]
      BY <1>5, <2>2
    <2> QED
      BY <1>1, <2>3 DEF UnchainedOn
  <1>7. UnchainedOn(f, m)
    BY <1>6 DEF f
  <1>8. \A t \in SUBSET (1 .. n) : f[t] = IF t = {} THEN <<>>
          ELSE (f[t \ {Max(t)}] \o Reverse(m.table[Chains(m)[Max(t)]]))
    BY <1>1, <1>7 DEF UnchainedOn
  <1>9. Follows(f, n, G, AnyItems)
    <2>1. ASSUME NEW t \in SUBSET (1 .. n), t # {}, f[t \ {Max(t)}] \in AnyItems
          PROVE  f[t] = G[<<f[t \ {Max(t)}], Max(t)>>]
      BY <1>1, <1>2, <1>8, <2>1, LastPlace
    <2> QED
      BY <2>1 DEF Follows
  <1>10. PICK g \in [0 .. n -> AnyItems] : StepsFrom(g, n, G, <<>>) /\ g[n] = f[1 .. n]
    <2>1. n \in Nat /\ f[{}] = <<>> /\ <<>> \in AnyItems
      BY <1>1, <1>8
    <2>2. Reaches(f[1 .. n], n, G, AnyItems, <<>>)
      BY <1>3, <1>9, <2>1, FoldSteps
    <2> QED
      BY <2>2 DEF Reaches
  <1>11. \A i \in 1 .. n : g[i] = (g[i - 1] \o Reverse(m.table[Chains(m)[i]]))
    <2>1. \A i \in 1 .. n : i - 1 \in 0 .. n
      BY <1>1
    <2> QED
      BY <1>2, <1>10, <2>1 DEF StepsFrom
  <1> QED
    BY <1>4, <1>10, <1>11 DEF n, StepsFrom

\* f is the fold of map_all_keys, whose guard is the number n of the map.
AnyKeys == Seq(Key)
SoundMaps == {m \in Maps : IsMap(m)}

KeysOn(f, m) ==
    f = [t \in SUBSET DOMAIN Chains(m) |-> IF t = {} THEN <<>>
            ELSE (IF Len(f[t \ {Max(t)}]) < m.n
                    THEN f[t \ {Max(t)}] \o KeysIn(m.table[Chains(m)[Max(t)]])
                            ELSE f[t \ {Max(t)}])]

\* Listing the keys
LEMMA KeysOneByOne ==
    ASSUME NEW m \in Maps
    PROVE  \E g \in [0 .. m.size -> AnyKeys] :
              /\ g[0] = <<>> /\ g[m.size] = AllKeys(m)
              /\ \A i \in 1 .. m.size : g[i] = (IF Len(g[i - 1]) < m.n
                      THEN g[i - 1] \o KeysIn(m.table[Chains(m)[i]]) ELSE g[i - 1])
  <1> DEFINE n == m.size
             G == [p \in AnyKeys \X (1 .. n) |-> (IF Len(p[1]) < m.n
                     THEN p[1] \o KeysIn(m.table[Chains(m)[p[2]]]) ELSE p[1])]
             f == CHOOSE f : KeysOn(f, m)
  <1>1. n \in Nat /\ DOMAIN Chains(m) = 1 .. n /\ <<>> \in AnyKeys
    BY MapParts DEF Chains, AnyKeys
  <1>2. ASSUME NEW w \in AnyKeys, NEW i \in 1 .. n
        PROVE  G[<<w, i>>] = (IF Len(w) < m.n THEN w \o KeysIn(m.table[Chains(m)[i]])
                   ELSE w) /\ (IF Len(w) < m.n THEN w \o KeysIn(m.table[Chains(m)[i]])
                                 ELSE w) \in AnyKeys
    <2>1. m.size \in Nat \ {0} /\ m.table \in [0 .. m.size - 1 -> Seq(MapItem)]
      BY MapParts
    <2>2. Chains(m)[i] \in 0 .. m.size - 1
      BY <2>1 DEF Chains
    <2> DEFINE q == m.table[Chains(m)[i]]
    <2>3. q \in Seq(MapItem)
      BY <2>1, <2>2
    <2>4. KeysIn(q) \in Seq(Key)
      <3> HIDE DEF q
      <3>1. DOMAIN q = 1 .. Len(q) /\ Len(q) \in Nat /\ \A j \in 1 .. Len(q) : q[j] \in MapItem
        BY <2>3
      <3>2. \A j \in 1 .. Len(q) : q[j].key \in Key
        BY <3>1 DEF MapItem
      <3> QED
        BY <3>1, <3>2 DEF KeysIn
    <2>5. w \o KeysIn(q) \in AnyKeys
      BY <2>4 DEF AnyKeys
    <2> QED
      BY <2>5
  <1>3. G \in [AnyKeys \X (1 .. n) -> AnyKeys]
    <2>1. \A p \in AnyKeys \X (1 .. n) : p[1] \in AnyKeys /\ p[2] \in 1 .. n
      OBVIOUS
    <2> HIDE DEF n
    <2>2. \A p \in AnyKeys \X (1 .. n) : G[p] \in AnyKeys
      <3> SUFFICES ASSUME NEW p \in AnyKeys \X (1 .. n)
                   PROVE  G[p] \in AnyKeys
        OBVIOUS
      <3>1. p = <<p[1], p[2]>> /\ p[1] \in AnyKeys /\ p[2] \in 1 .. n
        BY <2>1
      <3> HIDE DEF G
      <3> QED
        BY <1>2, <3>1
    <2>3. G = [p \in AnyKeys \X (1 .. n) |-> G[p]]
      OBVIOUS
    <2> HIDE DEF G
    <2> QED
      BY <2>2, <2>3
  <1>4. AllKeys(m) = f[1 .. n]
    BY <1>1 DEF AllKeys, Chains, FoldLeft, MapThenFoldSet, KeysOn
  <1> HIDE DEF n, G, f
  <1>5. PICK h \in [SUBSET (1 .. n) -> AnyKeys] : FoldsTo(h, n, G, <<>>)
    <2>1. n \in Nat /\ <<>> \in AnyKeys
      BY <1>1
    <2> QED
      BY <1>3, <2>1, FoldExists
  <1>6. KeysOn(h, m)
    <2>1. ASSUME NEW t \in SUBSET (1 .. n), t # {}
          PROVE  h[t] = (IF Len(h[t \ {Max(t)}]) < m.n
                     THEN h[t \ {Max(t)}] \o KeysIn(m.table[Chains(m)[Max(t)]])
                             ELSE h[t \ {Max(t)}])
      <3>1. Max(t) \in 1 .. n /\ h[t \ {Max(t)}] \in AnyKeys
        BY <1>1, <1>5, <2>1, LastPlace
      <3> QED
        BY <1>2, <1>5, <2>1, <3>1 DEF FoldsTo
    <2>2. \A t \in SUBSET (1 .. n) : h[t] = IF t = {} THEN <<>>
            ELSE (IF Len(h[t \ {Max(t)}]) < m.n
                    THEN h[t \ {Max(t)}] \o KeysIn(m.table[Chains(m)[Max(t)]]) ELSE h[t \ {Max(t)}])
      BY <1>5, <2>1 DEF FoldsTo
    <2>3. h = [t \in SUBSET (1 .. n) |-> IF t = {} THEN <<>>
            ELSE (IF Len(h[t \ {Max(t)}]) < m.n
                    THEN h[t \ {Max(t)}] \o KeysIn(m.table[Chains(m)[Max(t)]])
                            ELSE h[t \ {Max(t)}])]
      BY <1>5, <2>2
    <2> QED
      BY <1>1, <2>3 DEF KeysOn
  <1>7. KeysOn(f, m)
    BY <1>6 DEF f
  <1>8. \A t \in SUBSET (1 .. n) : f[t] = IF t = {} THEN <<>>
          ELSE (IF Len(f[t \ {Max(t)}]) < m.n
                  THEN f[t \ {Max(t)}] \o KeysIn(m.table[Chains(m)[Max(t)]]) ELSE f[t \ {Max(t)}])
    BY <1>1, <1>7 DEF KeysOn
  <1>9. Follows(f, n, G, AnyKeys)
    <2>1. ASSUME NEW t \in SUBSET (1 .. n), t # {}, f[t \ {Max(t)}] \in AnyKeys
          PROVE  f[t] = G[<<f[t \ {Max(t)}], Max(t)>>]
      <3>1. Max(t) \in 1 .. n
        BY <1>1, <2>1, LastPlace
      <3>2. G[<<f[t \ {Max(t)}], Max(t)>>] = (IF Len(f[t \ {Max(t)}]) < m.n
              THEN f[t \ {Max(t)}] \o KeysIn(m.table[Chains(m)[Max(t)]]) ELSE f[t \ {Max(t)}])
        BY <1>2, <2>1, <3>1
      <3> QED
        BY <1>8, <2>1, <3>2
    <2> QED
      BY <2>1 DEF Follows
  <1>10. PICK g \in [0 .. n -> AnyKeys] : StepsFrom(g, n, G, <<>>) /\ g[n] = f[1 .. n]
    <2>1. n \in Nat /\ f[{}] = <<>> /\ <<>> \in AnyKeys
      BY <1>1, <1>8
    <2>2. Reaches(f[1 .. n], n, G, AnyKeys, <<>>)
      BY <1>3, <1>9, <2>1, FoldSteps
    <2> QED
      BY <2>2 DEF Reaches
  <1>11. \A i \in 1 .. n : g[i] = (IF Len(g[i - 1]) < m.n
          THEN g[i - 1] \o KeysIn(m.table[Chains(m)[i]]) ELSE g[i - 1])
    <2>1. \A i \in 1 .. n : i - 1 \in 0 .. n
      BY <1>1
    <2> QED
      BY <1>2, <1>10, <2>1 DEF StepsFrom
  <1> QED
    BY <1>4, <1>10, <1>11 DEF n, StepsFrom

EnteredOn(f, m, s) ==
    f = [t \in SUBSET DOMAIN s |-> IF t = {} THEN m ELSE InsertItem(f[t \ {Max(t)}], s[Max(t)])]

\* Entering items one after the other
LEMMA EnteredOneByOne ==
    ASSUME HashAssumption, NullAssumption, NEW m \in SoundMaps, NEW s \in Seq(MapItem)
    PROVE  \E g \in [0 .. Len(s) -> SoundMaps] :
              /\ g[0] = m /\ g[Len(s)] = FoldLeft(InsertItem, m, s)
              /\ \A i \in 1 .. Len(s) : g[i] = InsertItem(g[i - 1], s[i])
  <1> DEFINE n == Len(s)
             G == [p \in SoundMaps \X (1 .. n) |-> InsertItem(p[1], s[p[2]])]
             f == CHOOSE f : EnteredOn(f, m, s)
  <1>1. n \in Nat /\ DOMAIN s = 1 .. n /\ m \in SoundMaps
    OBVIOUS
  <1>2. ASSUME NEW w \in SoundMaps, NEW i \in 1 .. n
        PROVE  G[<<w, i>>] = InsertItem(w, s[i]) /\ InsertItem(w, s[i]) \in SoundMaps
    <2>1. s[i] \in MapItem /\ IsMap(w)
      BY DEF SoundMaps
    <2>2. InsertItem(w, s[i]) \in SoundMaps
      BY <2>1, InsertItemIs DEF SoundMaps, IsMap
    <2> QED
      BY <2>2
  <1>3. G \in [SoundMaps \X (1 .. n) -> SoundMaps]
    <2>1. \A p \in SoundMaps \X (1 .. n) : p[1] \in SoundMaps /\ p[2] \in 1 .. n
      OBVIOUS
    <2> HIDE DEF n
    <2>2. \A p \in SoundMaps \X (1 .. n) : G[p] \in SoundMaps
      <3> SUFFICES ASSUME NEW p \in SoundMaps \X (1 .. n)
                   PROVE  G[p] \in SoundMaps
        OBVIOUS
      <3>1. p = <<p[1], p[2]>> /\ p[1] \in SoundMaps /\ p[2] \in 1 .. n
        BY <2>1
      <3> HIDE DEF G
      <3> QED
        BY <1>2, <3>1
    <2>3. G = [p \in SoundMaps \X (1 .. n) |-> G[p]]
      OBVIOUS
    <2> HIDE DEF G
    <2> QED
      BY <2>2, <2>3
  <1>4. FoldLeft(InsertItem, m, s) = f[1 .. n]
    BY <1>1 DEF FoldLeft, MapThenFoldSet, EnteredOn
  <1> HIDE DEF n, G, f
  <1>5. PICK h \in [SUBSET (1 .. n) -> SoundMaps] : FoldsTo(h, n, G, m)
    <2>1. n \in Nat /\ m \in SoundMaps
      BY <1>1
    <2> QED
      BY <1>3, <2>1, FoldExists
  <1>6. EnteredOn(h, m, s)
    <2>1. ASSUME NEW t \in SUBSET (1 .. n), t # {}
          PROVE  h[t] = InsertItem(h[t \ {Max(t)}], s[Max(t)])
      <3>1. Max(t) \in 1 .. n /\ h[t \ {Max(t)}] \in SoundMaps
        BY <1>1, <1>5, <2>1, LastPlace
      <3> QED
        BY <1>2, <1>5, <2>1, <3>1 DEF FoldsTo
    <2>2. \A t \in SUBSET (1 .. n) : h[t] = IF t = {} THEN m
            ELSE InsertItem(h[t \ {Max(t)}], s[Max(t)])
      BY <1>5, <2>1 DEF FoldsTo
    <2>3. h = [t \in SUBSET (1 .. n) |-> IF t = {} THEN m
            ELSE InsertItem(h[t \ {Max(t)}], s[Max(t)])]
      BY <1>5, <2>2
    <2> QED
      BY <1>1, <2>3 DEF EnteredOn
  <1>7. EnteredOn(f, m, s)
    BY <1>6 DEF f
  <1>8. \A t \in SUBSET (1 .. n) : f[t] = IF t = {} THEN m
          ELSE InsertItem(f[t \ {Max(t)}], s[Max(t)])
    BY <1>1, <1>7 DEF EnteredOn
  <1>9. Follows(f, n, G, SoundMaps)
    <2>1. ASSUME NEW t \in SUBSET (1 .. n), t # {}, f[t \ {Max(t)}] \in SoundMaps
          PROVE  f[t] = G[<<f[t \ {Max(t)}], Max(t)>>]
      BY <1>1, <1>2, <1>8, <2>1, LastPlace
    <2> QED
      BY <2>1 DEF Follows
  <1>10. PICK g \in [0 .. n -> SoundMaps] : StepsFrom(g, n, G, m) /\ g[n] = f[1 .. n]
    <2>1. n \in Nat /\ f[{}] = m /\ m \in SoundMaps
      BY <1>1, <1>8
    <2>2. Reaches(f[1 .. n], n, G, SoundMaps, m)
      BY <1>3, <1>9, <2>1, FoldSteps
    <2> QED
      BY <2>2 DEF Reaches
  <1>11. \A i \in 1 .. n : g[i] = InsertItem(g[i - 1], s[i])
    <2>1. \A i \in 1 .. n : i - 1 \in 0 .. n
      BY <1>1
    <2> QED
      BY <1>2, <1>10, <2>1 DEF StepsFrom
  <1> QED
    BY <1>4, <1>10, <1>11 DEF n, StepsFrom

\* x is an item of one of the first c buckets.
InBuckets(m, c, x) == \E b \in 0 .. c - 1 : \E j \in 1 .. Len(m.table[b]) : x = m.table[b][j]

\* An item of a map is what the map finds under its key.
LEMMA StoredIs ==
    ASSUME HashAssumption, NullAssumption, NEW m, IsMap(m)
    PROVE  /\ \A x : InBuckets(m, m.size, x) => x \in MapItem /\ MapGet(m, x.key) = x.data
           /\ \A k \in Keys(m) : \E x : InBuckets(m, m.size, x) /\ x.key = k
  <1>1. m \in Maps /\ m.size \in Nat \ {0} /\ m.table \in [0 .. m.size - 1 -> Seq(MapItem)]
    BY MapParts DEF IsMap
  <1>2. ASSUME NEW x, InBuckets(m, m.size, x)
        PROVE  x \in MapItem /\ MapGet(m, x.key) = x.data
    <2>1. PICK b \in 0 .. m.size - 1 : \E j \in 1 .. Len(m.table[b]) : x = m.table[b][j]
      BY <1>2 DEF InBuckets
    <2>2. PICK j \in 1 .. Len(m.table[b]) : x = m.table[b][j]
      BY <2>1
    <2>3. m.table[b] \in Seq(MapItem)
      BY <1>1
    <2>4. x \in MapItem
      BY <2>2, <2>3
    <2>5. x.key \in Key
      BY <2>4 DEF MapItem
    <2>6. Bucket(m, x.key) = b
      BY <1>1, <2>2, <2>5, BucketIs DEF IsMap, InPlace
    <2>7. MapGet(m, x.key) = x.data
      BY <2>2, <2>5, <2>6, GetIs
    <2> QED
      BY <2>4, <2>7
  <1>3. ASSUME NEW k \in Keys(m)
        PROVE  \E x : InBuckets(m, m.size, x) /\ x.key = k
    <2> DEFINE b == Bucket(m, k)
               q == m.table[b]
               a == At(m, k)
    <2>1. k \in Key /\ MapGet(m, k) # NULL
      BY DEF Keys
    <2>2. b \in 0 .. m.size - 1 /\ q \in Seq(MapItem) /\ a # 0
      BY <1>1, <2>1, BucketIs, GetIs
    <2>3. a \in 1 .. Len(q) /\ q[a].key = k
      BY <2>2, AtIs
    <2> HIDE DEF a, b
    <2> QED
      BY <2>2, <2>3 DEF InBuckets
  <1> QED
    BY <1>2, <1>3

\* What is in two sequences put together.
LEMMA RangeOfConcat ==
    ASSUME NEW S, NEW p \in Seq(S), NEW q \in Seq(S)
    PROVE  p \o q \in Seq(S) /\ Range(p \o q) = Range(p) \cup Range(q)
  BY RangeConcatenation

\* What is laid out is what the buckets hold.
LEMMA UnchainedIs ==
    ASSUME HashAssumption, NullAssumption, NEW m, IsMap(m)
    PROVE  Unchained(m) \in Seq(MapItem) /\ \A x : x \in Range(Unchained(m))
               <=> InBuckets(m, m.size, x)
  <1>1. m \in Maps /\ m.size \in Nat \ {0} /\ m.table \in [0 .. m.size - 1 -> Seq(MapItem)]
    BY MapParts DEF IsMap
  <1> DEFINE n == m.size
             op(w, i) == w \o Reverse(m.table[Chains(m)[i]])
  <1>2. PICK g \in [0 .. n -> AnyItems] :
              /\ g[0] = <<>> /\ g[n] = Unchained(m)
              /\ \A i \in 1 .. n : g[i] = op(g[i - 1], i)
    BY <1>1, UnchainedOneByOne
  <1> DEFINE Good(i) == \A x : x \in Range(g[i]) <=> InBuckets(m, i, x)
             S == {i \in Nat : i <= n => Good(i)}
  <1>3. 0 \in S
    <2>1. Range(g[0]) = {}
      BY <1>2 DEF Range
    <2>2. \A x : ~InBuckets(m, 0, x)
      BY DEF InBuckets
    <2> QED
      BY <2>1, <2>2
  <1>4. ASSUME NEW i \in Nat, i \in S
        PROVE  i + 1 \in S
    <2> SUFFICES ASSUME i + 1 <= n
                 PROVE  Good(i + 1)
      OBVIOUS
    <2> DEFINE k == i + 1
               q == m.table[i]
    <2>1. k \in 1 .. n /\ k - 1 = i /\ i \in 0 .. n - 1 /\ i \in 0 .. n /\ i <= n
                             /\ Chains(m)[k] = i
      BY <1>1 DEF Chains
    <2>2. g[k] = g[i] \o Reverse(q)
      BY <1>2, <2>1
    <2>3. q \in Seq(MapItem) /\ g[i] \in Seq(MapItem)
      BY <1>1, <1>2, <2>1 DEF AnyItems
    <2> HIDE DEF k, q, n
    <2>4. Reverse(q) \in Seq(MapItem) /\ Range(Reverse(q)) = Range(q)
      <3>1. Len(q) \in Nat /\ DOMAIN q = 1 .. Len(q)
            /\ \A j \in 1 .. Len(q) : Len(q) - j + 1 \in 1 .. Len(q)
                    /\ Len(q) - (Len(q) - j + 1) + 1 = j
        BY <2>3
      <3>2. \A j \in 1 .. Len(q) : q[Len(q) - j + 1] \in MapItem
        BY <2>3, <3>1
      <3>3. Reverse(q) = [j \in 1 .. Len(q) |-> q[Len(q) - j + 1]]
        BY DEF Reverse
      <3>4. Reverse(q) \in Seq(MapItem)
        BY <3>1, <3>2, <3>3
      <3>5. Range(Reverse(q)) \subseteq Range(q)
        BY <3>1, <3>3 DEF Range
      <3>6. Range(q) \subseteq Range(Reverse(q))
        <4> SUFFICES ASSUME NEW j \in 1 .. Len(q)
                     PROVE  q[j] \in Range(Reverse(q))
          BY <3>1 DEF Range
        <4> DEFINE l == Len(q) - j + 1
        <4>1. l \in 1 .. Len(q) /\ Len(q) - l + 1 = j
          BY <3>1
        <4> HIDE DEF l
        <4>2. Reverse(q)[l] = q[j]
          BY <3>3, <4>1
        <4> QED
          BY <3>3, <4>1, <4>2 DEF Range
      <3> QED
        BY <3>4, <3>5, <3>6
    <2>5. Range(g[k]) = Range(g[i]) \cup Range(q)
      BY <2>2, <2>3, <2>4, RangeOfConcat
    <2>6. \A x : x \in Range(q) <=> \E j \in 1 .. Len(q) : x = q[j]
      BY <2>3 DEF Range
    <2>7. Good(i)
      BY <1>4, <2>1
    <2> QED
      <3>1. ASSUME NEW x
            PROVE  InBuckets(m, k, x) <=> InBuckets(m, i, x) \/ \E j \in 1 .. Len(q) : x = q[j]
        <4>1. \A b : b \in 0 .. k - 1 <=> b \in 0 .. i - 1 \/ b = i
          BY DEF k
        <4> QED
          BY <4>1 DEF q, InBuckets
      <3>2. \A x : x \in Range(g[k]) <=> InBuckets(m, k, x)
        BY <2>5, <2>6, <2>7, <3>1
      <3> QED
        BY <3>2 DEF k
  <1> HIDE DEF S
  <1>5. Nat \subseteq S
    BY <1>3, <1>4, SetInduction
  <1>6. Good(n)
    BY <1>1, <1>5 DEF S
  <1>7. n \in 0 .. n
    BY <1>1
  <1> QED
    BY <1>2, <1>6, <1>7 DEF AnyItems

\* map_realloc keeps what is found under every key.
LEMMA MapReallocIs ==
    ASSUME HashAssumption, NullAssumption, NEW m, IsMap(m), Counted(m), NEW size \in Nat \ {0}
    PROVE  /\ IsMap(MapRealloc(m, size)) /\ Counted(MapRealloc(m, size))
           /\ \A k \in Key : MapGet(MapRealloc(m, size), k) = MapGet(m, k)
  <1> DEFINE s == Unchained(m)
             e == [size |-> size, n |-> m.n, table |-> [b \in 0 .. size - 1 |-> <<>>]]
             r == MapRealloc(m, size)
             n == Len(s)
  <1>1. s \in Seq(MapItem) /\ \A x : x \in Range(s) <=> InBuckets(m, m.size, x)
    BY UnchainedIs
  <1>2. m.n \in Nat
    BY MapParts DEF IsMap
  <1>3. IsMap(e) /\ e.n = m.n /\ \A k \in Key : MapGet(e, k) = NULL
    BY <1>2, EmptyMapIs
  <1>4. r = FoldLeft(InsertItem, e, s)
    BY DEF MapRealloc
  <1> HIDE DEF s, e, r
  <1>5. e \in SoundMaps
    BY <1>3 DEF SoundMaps, IsMap
  <1>6. PICK g \in [0 .. n -> SoundMaps] :
              /\ g[0] = e /\ g[n] = r
              /\ \A i \in 1 .. n : g[i] = InsertItem(g[i - 1], s[i])
    BY ZenonT(30), <1>1, <1>4, <1>5, EnteredOneByOne
  <1>7. n \in Nat /\ \A i \in 1 .. n : s[i] \in MapItem /\ MapGet(m, s[i].key) = s[i].data
    BY <1>1, StoredIs DEF Range
  <1> HIDE DEF n
  <1> DEFINE Good(i) == /\ IsMap(g[i]) /\ Counted(g[i])
                        /\ \A k \in Key : MapGet(g[i], k) = NULL \/ MapGet(g[i], k) = MapGet(m, k)
                        /\ \A j \in 1 .. i : MapGet(g[i], s[j].key) # NULL
             S == {i \in Nat : i <= n => Good(i)}
  <1>8. 0 \in S
    <2>1. Keys(e) = {}
      BY <1>3 DEF Keys
    <2>2. Counted(e)
      BY <1>2, <1>3, <2>1, FS_EmptySet DEF Counted
    <2> QED
      BY <1>3, <1>6, <2>2
  <1>9. ASSUME NEW i \in Nat, i \in S
        PROVE  i + 1 \in S
    <2> SUFFICES ASSUME i + 1 <= n
                 PROVE  Good(i + 1)
      OBVIOUS
    <2> DEFINE k == i + 1
    <2>1. k \in 1 .. n /\ k - 1 = i /\ i <= n /\ \A j \in 1 .. k : j = k \/ j \in 1 .. i
      BY <1>7
    <2>2. Good(i)
      BY <1>9, <2>1
    <2> HIDE DEF k
    <2>3. g[k] = InsertItem(g[i], s[k]) /\ s[k] \in MapItem /\ MapGet(m, s[k].key) = s[k].data
      BY <1>6, <1>7, <2>1
    <2>4. /\ IsMap(g[k]) /\ Counted(g[k])
          /\ \A c \in Key : MapGet(g[k], c) = IF c = s[k].key THEN s[k].data ELSE MapGet(g[i], c)
      BY <2>2, <2>3, InsertItemIs, InsertItemCounted
    <2>5. s[k].data # NULL /\ \A j \in 1 .. k : s[j].key \in Key
      <3>1. s[k] \in MapItem /\ \A j \in 1 .. k : s[j] \in MapItem
        BY <1>7, <2>1
      <3>2. s[k].data \in Object /\ \A j \in 1 .. k : s[j].key \in Key
        BY <3>1 DEF MapItem
      <3> QED
        BY <3>2 DEF NullAssumption
    <2>6. \A c \in Key : MapGet(g[k], c) = NULL \/ MapGet(g[k], c) = MapGet(m, c)
      BY <2>2, <2>3, <2>4
    <2>7. \A j \in 1 .. k : MapGet(g[k], s[j].key) # NULL
      BY <2>1, <2>2, <2>4, <2>5
    <2> QED
      BY <2>4, <2>6, <2>7 DEF k
  <1> HIDE DEF S
  <1>10. Nat \subseteq S
    BY <1>8, <1>9, SetInduction
  <1>11. Good(n)
    BY <1>7, <1>10 DEF S
  <1>12. ASSUME NEW k \in Key
         PROVE  MapGet(r, k) = MapGet(m, k)
    <2>1. CASE MapGet(m, k) = NULL
      BY <1>6, <1>11, <2>1
    <2>2. CASE MapGet(m, k) # NULL
      <3>1. PICK x : InBuckets(m, m.size, x) /\ x.key = k
        BY <2>2, StoredIs DEF Keys
      <3>2. x \in Range(s)
        BY <1>1, <3>1
      <3>3. PICK j \in 1 .. n : x = s[j]
        BY <1>1, <3>2 DEF Range, n
      <3> QED
        BY <1>6, <1>11, <3>1, <3>3
    <2> QED
      BY <2>1, <2>2
  <1> QED
    BY <1>6, <1>11, <1>12 DEF r

\* map_insert
LEMMA MapInsertIs ==
    ASSUME HashAssumption, NullAssumption, NEW m, IsMap(m), Counted(m), NEW key \in Key, NEW o \in Object
    PROVE  /\ IsMap(MapInsert(m, key, o)) /\ Counted(MapInsert(m, key, o))
           /\ \A k \in Key : MapGet(MapInsert(m, key, o), k) = IF k = key THEN o ELSE MapGet(m, k)
  <1> DEFINE w == MapEnlarged(m)
             x == [key |-> key, data |-> o]
  <1>1. IsMap(w) /\ Counted(w) /\ \A k \in Key : MapGet(w, k) = MapGet(m, k)
    <2>1. 2 * m.size \in Nat \ {0}
      BY MapParts DEF IsMap
    <2> QED
      BY <2>1, MapReallocIs DEF MapEnlarged
  <1>2. x \in MapItem /\ x.key = key /\ x.data = o
    BY DEF MapItem
  <1> HIDE DEF w, x
  <1>3. MapInsert(m, key, o) = InsertItem(w, x)
    BY DEF MapInsert, w, x
  <1> QED
    BY <1>1, <1>2, <1>3, InsertItemIs, InsertItemCounted

-----------------------------------------------------------------------------
(* The keys and the objects of a map.                                      *)

\* A sequence of keys without repetition, all of them from the first c buckets
KeyList(m, c, q) ==
    /\ q \in Seq(Key) /\ \A i, j \in 1 .. Len(q) : q[i] = q[j] => i = j
    /\ \A i \in 1 .. Len(q) : q[i] \in Keys(m) /\ Bucket(m, q[i]) \in 0 .. c - 1

\* One more bucket adds the keys of its items.
LEMMA KeyListNext ==
    ASSUME HashAssumption, NullAssumption, NEW m, IsMap(m), NEW c \in 0 .. m.size - 1,
           NEW q, KeyList(m, c, q)
    PROVE  /\ KeyList(m, c + 1, q \o KeysIn(m.table[c]))
           /\ Range(q) \subseteq Range(q \o KeysIn(m.table[c]))
           /\ \A j \in 1 .. Len(m.table[c]) : m.table[c][j].key \in Range(q \o KeysIn(m.table[c]))
  <1> DEFINE t == m.table[c]
             p == KeysIn(t)
             r == q \o p
  <1>1. m \in Maps /\ t \in Seq(MapItem) /\ InPlace(m, c, t) /\ c \in Nat
    BY MapParts DEF IsMap
  <1> HIDE DEF t
  <1>2. DOMAIN t = 1 .. Len(t) /\ Len(t) \in Nat /\ \A j \in 1 .. Len(t) : t[j].key \in Key
                                     /\ t[j].data # NULL
    <2>1. DOMAIN t = 1 .. Len(t) /\ Len(t) \in Nat /\ \A j \in 1 .. Len(t) : t[j] \in MapItem
      BY <1>1
    <2>2. \A j \in 1 .. Len(t) : t[j].key \in Key /\ t[j].data \in Object
      BY <2>1 DEF MapItem
    <2> QED
      BY <2>1, <2>2 DEF NullAssumption
  <1>3. p \in Seq(Key) /\ Len(p) = Len(t) /\ \A j \in 1 .. Len(t) : p[j] = t[j].key
    BY <1>2 DEF KeysIn
  <1> HIDE DEF p
  <1>4. \A j \in 1 .. Len(t) : p[j] \in Keys(m) /\ Bucket(m, p[j]) = c
    <2> SUFFICES ASSUME NEW j \in 1 .. Len(t)
                 PROVE  p[j] \in Keys(m) /\ Bucket(m, p[j]) = c
      OBVIOUS
    <2>1. Bucket(m, p[j]) = c
      BY <1>1, <1>2, <1>3, BucketIs DEF InPlace
    <2>2. MapGet(m, p[j]) = t[j].data
      BY <1>2, <1>3, <2>1, GetIs DEF t
    <2> QED
      BY <1>2, <1>3, <2>1, <2>2 DEF Keys
  <1>5. /\ r \in Seq(Key) /\ Len(r) = Len(q) + Len(p)
        /\ \A i \in 1 .. Len(q) + Len(p) : r[i] = IF i <= Len(q) THEN q[i] ELSE p[i - Len(q)]
    <2>1. q \in Seq(Key) /\ p \in Seq(Key)
      BY <1>3 DEF KeyList
    <2>2. r \in Seq(Key)
      BY <2>1
    <2> QED
      BY <2>1, <2>2, ConcatProperties
  <1>6. Range(r) = Range(q) \cup Range(p)
    BY <1>3, RangeOfConcat DEF KeyList
  <1> HIDE DEF r
  <1>7. Len(q) \in Nat /\ Len(p) \in Nat
    BY <1>3 DEF KeyList
  <1>8. ASSUME NEW i \in 1 .. Len(r)
        PROVE  \/ i \in 1 .. Len(q) /\ r[i] = q[i]
               \/ i - Len(q) \in 1 .. Len(p) /\ r[i] = p[i - Len(q)]
    <2>1. i \in 1 .. Len(q) + Len(p)
      BY <1>5
    <2>2. CASE i <= Len(q)
      BY <1>5, <1>7, <2>1, <2>2
    <2>3. CASE ~(i <= Len(q))
      <3>1. i - Len(q) \in 1 .. Len(p)
        BY <1>7, <2>1, <2>3
      <3> QED
        BY <1>5, <2>1, <2>3, <3>1
    <2> QED
      BY <2>2, <2>3
  <1>9. \A i \in 1 .. Len(r) : r[i] \in Keys(m) /\ Bucket(m, r[i]) \in 0 .. c
    <2> SUFFICES ASSUME NEW i \in 1 .. Len(r)
                 PROVE  r[i] \in Keys(m) /\ Bucket(m, r[i]) \in 0 .. c
      OBVIOUS
    <2>1. CASE i \in 1 .. Len(q) /\ r[i] = q[i]
      BY <1>1, <2>1 DEF KeyList
    <2>2. CASE i - Len(q) \in 1 .. Len(p) /\ r[i] = p[i - Len(q)]
      BY <1>1, <1>3, <1>4, <2>2
    <2> QED
      BY <1>8, <2>1, <2>2
  <1>10. ASSUME NEW i \in 1 .. Len(r), NEW j \in 1 .. Len(r), r[i] = r[j]
         PROVE  i = j
    <2>1. \A x \in 1 .. Len(q), y \in 1 .. Len(p) : q[x] # p[y]
      <3> SUFFICES ASSUME NEW x \in 1 .. Len(q), NEW y \in 1 .. Len(p), q[x] = p[y]
                   PROVE  FALSE
        OBVIOUS
      <3>1. Bucket(m, q[x]) \in 0 .. c - 1 /\ Bucket(m, p[y]) = c
        BY <1>3, <1>4 DEF KeyList
      <3> QED
        BY <1>1, <3>1
    <2>2. \A x, y \in 1 .. Len(p) : p[x] = p[y] => x = y
      BY <1>1, <1>3 DEF InPlace
    <2>3. \A x, y \in 1 .. Len(q) : q[x] = q[y] => x = y
      BY DEF KeyList
    <2>4. CASE i \in 1 .. Len(q) /\ r[i] = q[i] /\ j \in 1 .. Len(q) /\ r[j] = q[j]
      BY <1>10, <2>3, <2>4
    <2>5. CASE i - Len(q) \in 1 .. Len(p) /\ r[i] = p[i - Len(q)]
               /\ j - Len(q) \in 1 .. Len(p) /\ r[j] = p[j - Len(q)]
      <3>1. i - Len(q) = j - Len(q)
        BY <1>10, <2>2, <2>5
      <3> QED
        BY <1>5, <1>7, <3>1
    <2> QED
      BY <1>8, <1>10, <2>1, <2>4, <2>5
  <1>11. c + 1 - 1 = c
    BY <1>1
  <1>12. KeyList(m, c + 1, r)
    BY <1>5, <1>9, <1>10, <1>11 DEF KeyList
  <1>13. \A j \in 1 .. Len(t) : t[j].key \in Range(p)
    <2>1. DOMAIN p = 1 .. Len(t)
      BY <1>3
    <2> QED
      BY <1>3, <2>1 DEF Range
  <1> QED
    BY <1>6, <1>12, <1>13 DEF r, p, t

\* A sequence without repetition has as many items as places.
LEMMA InjectiveCount ==
    ASSUME NEW S, NEW q \in Seq(S), \A i, j \in 1 .. Len(q) : q[i] = q[j] => i = j
    PROVE  IsFiniteSet(Range(q)) /\ Cardinality(Range(q)) = Len(q)
  <1> DEFINE M == Range(q)
  <1>1. Len(q) \in Nat /\ q \in [1 .. Len(q) -> M] /\ M = {q[i] : i \in 1 .. Len(q)}
    BY DEF Range
  <1> HIDE DEF M
  <1>2. q \in Injection(1 .. Len(q), M)
    BY <1>1 DEF Injection, IsInjective
  <1>3. q \in Surjection(1 .. Len(q), M)
    BY <1>1 DEF Surjection
  <1>4. ExistsBijection(1 .. Len(q), M)
    BY <1>2, <1>3 DEF Bijection, ExistsBijection
  <1>5. IsFiniteSet(1 .. Len(q)) /\ Cardinality(1 .. Len(q)) = Len(q)
    <2>1. 1 \in Int /\ Len(q) \in Int
      BY <1>1
    <2>2. /\ IsFiniteSet(1 .. Len(q))
          /\ Cardinality(1 .. Len(q)) = IF 1 > Len(q) THEN 0 ELSE Len(q) - 1 + 1
      BY <2>1, FS_Interval
    <2> QED
      BY <1>1, <2>2
  <1> QED
    BY <1>4, <1>5, FS_Bijection DEF M

\* map_all_keys finds every key, for it stops only when it has them all.
LEMMA AllKeysIs ==
    ASSUME HashAssumption, NullAssumption, NEW m, IsMap(m), Counted(m)
    PROVE  Range(AllKeys(m)) = Keys(m)
  <1>1. m \in Maps /\ m.size \in Nat \ {0} /\ m.n \in Nat
    BY MapParts DEF IsMap
  <1> DEFINE n == m.size
  <1>2. PICK g \in [0 .. n -> AnyKeys] :
              /\ g[0] = <<>> /\ g[n] = AllKeys(m)
              /\ \A i \in 1 .. n : g[i] = (IF Len(g[i - 1]) < m.n
                                           THEN g[i - 1] \o KeysIn(m.table[Chains(m)[i]])
                                                   ELSE g[i - 1])
    BY <1>1, KeysOneByOne
  <1> DEFINE All(i) == \A x : InBuckets(m, i, x) => x.key \in Range(g[i])
             Good(i) == KeyList(m, i, g[i]) /\ (Len(g[i]) >= m.n \/ All(i))
             S == {i \in Nat : i <= n => Good(i)}
  <1> HIDE DEF All
  <1>3. 0 \in S
    <2>1. \A x : ~InBuckets(m, 0, x)
      BY DEF InBuckets
    <2>2. KeyList(m, 0, <<>>)
      BY DEF KeyList
    <2> QED
      BY <1>2, <2>1, <2>2 DEF All
  <1>4. ASSUME NEW i \in Nat, i \in S
        PROVE  i + 1 \in S
    <2> SUFFICES ASSUME i + 1 <= n
                 PROVE  Good(i + 1)
      OBVIOUS
    <2> DEFINE k == i + 1
    <2>1. k \in 1 .. n /\ k - 1 = i /\ i \in 0 .. n - 1 /\ i <= n /\ Chains(m)[k] = i
                             /\ i \in 0 .. m.size - 1
      BY <1>1 DEF Chains
    <2>2. Good(i)
      BY <1>4, <2>1
    <2>3. \A b : b \in 0 .. k - 1 <=> b \in 0 .. i - 1 \/ b = i
      OBVIOUS
    <2>4. Len(g[i]) \in Nat
      BY <2>2 DEF KeyList
    <2>5. CASE Len(g[i]) < m.n
      <3>1. g[k] = g[i] \o KeysIn(m.table[i])
        BY <1>2, <2>1, <2>5
      <3>2. /\ KeyList(m, k, g[k]) /\ Range(g[i]) \subseteq Range(g[k])
            /\ \A j \in 1 .. Len(m.table[i]) : m.table[i][j].key \in Range(g[k])
        BY ZenonT(30), <2>1, <2>2, <3>1, KeyListNext
      <3>3. All(i)
        BY <1>1, <2>2, <2>4, <2>5
      <3> HIDE DEF k
      <3>4. All(k)
        BY <2>3, <3>2, <3>3 DEF All, InBuckets
      <3> QED
        BY <3>2, <3>4 DEF k
    <2>6. CASE ~(Len(g[i]) < m.n)
      <3>1. g[k] = g[i]
        BY <1>2, <2>1, <2>6
      <3> HIDE DEF k
      <3>2. KeyList(m, k, g[k])
        BY <2>2, <2>3, <3>1 DEF KeyList
      <3>3. Len(g[k]) >= m.n
        BY <1>1, <2>4, <2>6, <3>1
      <3> QED
        BY <3>2, <3>3 DEF k
    <2> QED
      BY <2>5, <2>6
  <1> HIDE DEF S
  <1>5. Nat \subseteq S
    BY <1>3, <1>4, SetInduction
  <1>6. Good(n)
    BY <1>1, <1>5 DEF S
  <1> DEFINE q == g[n]
  <1> HIDE DEF q
  <1>7. q \in Seq(Key) /\ (\A i, j \in 1 .. Len(q) : q[i] = q[j] => i = j) /\ q = AllKeys(m)
    BY <1>2, <1>6 DEF q, KeyList
  <1>8. Range(q) \subseteq Keys(m)
    <2>1. DOMAIN q = 1 .. Len(q) /\ \A i \in 1 .. Len(q) : q[i] \in Keys(m)
      BY <1>6, <1>7 DEF q, KeyList
    <2> QED
      BY <2>1 DEF Range
  <1>9. CASE All(n)
    <2>1. Keys(m) \subseteq Range(q)
      BY <1>9, StoredIs DEF All, q
    <2> QED
      BY <1>7, <1>8, <2>1
  <1>10. CASE Len(q) >= m.n
    <2>1. IsFiniteSet(Range(q)) /\ Cardinality(Range(q)) = Len(q) /\ Len(q) \in Nat
      BY <1>7, InjectiveCount
    <2>2. IsFiniteSet(Keys(m)) /\ Cardinality(Keys(m)) <= m.n /\ Cardinality(Keys(m)) \in Nat
      BY FS_CardinalityType DEF Counted
    <2>3. Cardinality(Range(q)) <= Cardinality(Keys(m))
      BY <1>8, <2>2, FS_Subset
    <2>4. Cardinality(Keys(m)) = Cardinality(Range(q))
      BY <1>1, <1>10, <2>1, <2>2, <2>3
    <2>5. Keys(m) = Range(q)
      BY <1>8, <2>2, <2>4, FS_Subset
    <2> QED
      BY <1>7, <2>5
  <1> QED
    BY <1>6, <1>9, <1>10 DEF q

\* The places that hold an object are as many as the keys it is found under.
Under(m, o) == {k \in Key : MapGet(m, k) = o}

LEMMA HoldingIs ==
    ASSUME HashAssumption, NullAssumption, NEW m, IsMap(m), Counted(m), NEW o \in Object
    PROVE  /\ IsFiniteSet(Under(m, o)) /\ IsFiniteSet(Holding(m, o))
           /\ Cardinality(Holding(m, o)) = Cardinality(Under(m, o))
  <1> DEFINE H == Holding(m, o)
             U == Under(m, o)
             f == [k \in U |-> <<Bucket(m, k), At(m, k)>>]
  <1>1. m \in Maps /\ m.table \in [0 .. m.size - 1 -> Seq(MapItem)]
                         /\ DOMAIN m.table = 0 .. m.size - 1
    BY MapParts DEF IsMap
  <1>2. o # NULL
    BY DEF NullAssumption
  <1>3. IsFiniteSet(U)
    <2>1. U \in SUBSET Keys(m)
      BY <1>2 DEF Under, Keys
    <2> QED
      BY <2>1, FS_Subset DEF Counted
  <1>4. ASSUME NEW k \in U
        PROVE  /\ k \in Key /\ Bucket(m, k) \in 0 .. m.size - 1
               /\ At(m, k) \in DOMAIN m.table[Bucket(m, k)]
               /\ m.table[Bucket(m, k)][At(m, k)].key = k
               /\ m.table[Bucket(m, k)][At(m, k)].data = o
    <2>1. k \in Key /\ MapGet(m, k) = o
      BY DEF Under
    <2>2. Bucket(m, k) \in 0 .. m.size - 1 /\ m.table[Bucket(m, k)] \in Seq(MapItem)
      BY <1>1, <2>1, BucketIs
    <2>3. At(m, k) # 0 /\ MapGet(m, k) = m.table[Bucket(m, k)][At(m, k)].data
      BY <1>2, <2>1, GetIs DEF MapGet
    <2>4. At(m, k) \in 1 .. Len(m.table[Bucket(m, k)]) /\ m.table[Bucket(m, k)][At(m, k)].key = k
      BY <2>2, <2>3, AtIs
    <2> QED
      BY <2>1, <2>2, <2>3, <2>4
  <1>5. \A at : at \in H <=> \E b \in 0 .. m.size - 1 : \E i \in DOMAIN m.table[b] :
                                at = <<b, i>> /\ m.table[b][i].data = o
    <2>1. \A at : at \in Items(m)
            <=> \E b \in 0 .. m.size - 1 : \E i \in DOMAIN m.table[b] : at = <<b, i>>
      BY <1>1 DEF Items
    <2> QED
      BY <2>1 DEF Holding
  <1>6. f \in [U -> H]
    BY <1>4, <1>5
  <1>7. f \in Injection(U, H)
    <2>1. \A k, l \in U : f[k] = f[l] => k = l
      BY <1>4
    <2> HIDE DEF f, U, H
    <2>2. DOMAIN f = U
      BY <1>6
    <2> QED
      BY <1>6, <2>1, <2>2 DEF Injection, IsInjective
  <1>8. \A at \in H : \E k \in U : f[k] = at
    <2> SUFFICES ASSUME NEW at \in H
                 PROVE  \E k \in U : f[k] = at
      OBVIOUS
    <2>1. PICK b \in 0 .. m.size - 1 : \E i \in DOMAIN m.table[b] : at = <<b, i>>
            /\ m.table[b][i].data = o
      BY <1>5
    <2>2. PICK i \in DOMAIN m.table[b] : at = <<b, i>> /\ m.table[b][i].data = o
      BY <2>1
    <2> DEFINE k == m.table[b][i].key
    <2>3. m.table[b] \in Seq(MapItem) /\ i \in 1 .. Len(m.table[b]) /\ m.table[b][i] \in MapItem
      <3> DEFINE t == m.table[b]
      <3>1. t \in Seq(MapItem) /\ i \in DOMAIN t
        BY <1>1
      <3> HIDE DEF t
      <3>2. i \in 1 .. Len(t) /\ t[i] \in MapItem
        BY <3>1
      <3> QED
        BY <3>1, <3>2 DEF t
    <2>4. k \in Key
      BY <2>3 DEF MapItem
    <2>5. Bucket(m, k) = b
      BY <1>1, <2>3, <2>4, BucketIs DEF IsMap, InPlace
    <2> HIDE DEF k
    <2>6. MapGet(m, k) = o /\ At(m, k) = i
      BY <2>2, <2>3, <2>4, <2>5, GetIs DEF k
    <2> QED
      BY <2>2, <2>4, <2>5, <2>6 DEF Under
  <1> HIDE DEF f, U, H
  <1>9. f \in Surjection(U, H)
    BY <1>6, <1>8 DEF Surjection
  <1>10. f \in Bijection(U, H)
    BY <1>7, <1>9 DEF Bijection
  <1>11. ExistsBijection(U, H)
    BY <1>10 DEF ExistsBijection
  <1>12. IsFiniteSet(H) /\ Cardinality(H) = Cardinality(U)
    BY <1>3, <1>11, FS_Bijection
  <1> QED
    BY <1>3, <1>12 DEF U, H

-----------------------------------------------------------------------------
(* The map of the program.                                                 *)

\* NULL is the address of no map.
NullIsNoMap == NULL \notin Maps

\* The map, while there is one, is sound, and its n is not below its keys.
MapSound == map # NULL => IsMap(map) /\ Counted(map)

\* So it is at the start.
LEMMA MapBegins ==
    ASSUME HashAssumption, NullAssumption, Init
    PROVE  MapSound /\ Bound = <<>>
  <1>1. CASE map = NULL
    BY <1>1 DEF MapSound, Bound
  <1>2. CASE map # NULL
    <2>1. map = [size |-> FirstSize, n |-> 0, table |-> [b \in 0 .. FirstSize - 1 |-> <<>>]]
      BY <1>2 DEF Init, MapNew
    <2>2. FirstSize \in Nat \ {0} /\ 0 \in Nat
      BY DEF HashAssumption
    <2>3. IsMap(map) /\ map.n = 0 /\ \A k \in Key : MapGet(map, k) = NULL
      BY <2>1, <2>2, EmptyMapIs
    <2>4. Keys(map) = {}
      BY <2>3 DEF Keys
    <2>5. Counted(map)
      BY <2>3, <2>4, FS_EmptySet DEF Counted
    <2>6. Bound = <<>>
      <3>1. {k \in Key : MapGet(map, k) # NULL} = {}
        BY <2>3
      <3> QED
        BY <1>2, <3>1 DEF Bound
    <2> QED
      BY <2>3, <2>5, <2>6 DEF MapSound
  <1> QED
    BY <1>1, <1>2

\* What each operation on the map does to it
LEMMA MapSteps ==
    ASSUME HashAssumption, NullAssumption, NullIsNoMap, MapSound, map # NULL
    PROVE  /\ \A key \in Key, o \in Object : InsertIntoMap(key, o)
                 => /\ IsMap(map') /\ Counted(map') /\ map' # NULL
                    /\ \A k \in Key : MapGet(map', k) = IF k = key THEN o ELSE MapGet(map, k)
           /\ \A key \in Key : RemoveFromMap(key)
                 => /\ IsMap(map') /\ Counted(map') /\ map' # NULL
                    /\ MapGet(map, key) \in Object
                    /\ \A k \in Key : MapGet(map', k) = IF k = key THEN NULL ELSE MapGet(map, k)
  <1>1. IsMap(map) /\ Counted(map)
    BY DEF MapSound
  <1>2. ASSUME NEW key \in Key, NEW o \in Object, InsertIntoMap(key, o)
        PROVE  /\ IsMap(map') /\ Counted(map') /\ map' # NULL
               /\ \A k \in Key : MapGet(map', k) = IF k = key THEN o ELSE MapGet(map, k)
    <2>1. map' = MapInsert(map, key, o)
      BY <1>2 DEF InsertIntoMap
    <2>2. /\ IsMap(map') /\ Counted(map')
          /\ \A k \in Key : MapGet(map', k) = IF k = key THEN o ELSE MapGet(map, k)
      BY <1>1, <2>1, MapInsertIs
    <2> QED
      BY <2>2 DEF IsMap, NullIsNoMap
  <1>3. ASSUME NEW key \in Key, RemoveFromMap(key)
        PROVE  /\ IsMap(map') /\ Counted(map') /\ map' # NULL /\ MapGet(map, key) \in Object
               /\ \A k \in Key : MapGet(map', k) = IF k = key THEN NULL ELSE MapGet(map, k)
    <2>1. map' = MapRemove(map, key) /\ MapGet(map, key) # NULL
      BY <1>3 DEF RemoveFromMap
    <2>2. /\ IsMap(map') /\ Counted(map')
          /\ \A k \in Key : MapGet(map', k) = IF k = key THEN NULL ELSE MapGet(map, k)
      BY <1>1, <2>1, MapRemoveIs, MapRemoveCounted
    <2>3. MapGet(map, key) \in Object
      BY <1>1, <2>1, GetIs DEF Slot
    <2> QED
      BY <2>2, <2>3 DEF IsMap, NullIsNoMap
  <1> QED
    BY <1>2, <1>3

\* The other containers leave it alone.
LEMMA OthersKeepMap ==
    ASSUME UserStep \/ ListStep \/ VectorStep \/ SetStep \/ UNCHANGED vars
    PROVE  UNCHANGED map
  BY DEF UserStep, ListStep, VectorStep, SetStep, vars, arrays, AddToVector, InsertIntoVector,
         RemoveFromVector, ExtendVector, AddToSet, RemoveFromSet, Becomes

\* Soundness stays, and every step is one of the mapping or leaves it alone.
LEMMA MapStepKeeps ==
    ASSUME HashAssumption, NullAssumption, NullIsNoMap, MapSound, [Next]_vars
    PROVE  MapSound' /\ (Table!Next \/ Bound' = Bound)
  <1>1. CASE UserStep \/ ListStep \/ VectorStep \/ SetStep \/ UNCHANGED vars
    <2>1. UNCHANGED map
      BY <1>1, OthersKeepMap
    <2> QED
      BY <2>1 DEF MapSound, Bound
  <1>2. CASE MapStep
    <2>1. map # NULL
      BY <1>2 DEF MapStep
    <2>2. Bound = [k \in Keys(map) |-> MapGet(map, k)]
      BY <2>1 DEF Bound, Keys
    <2>3. Bound' = IF map' = NULL THEN <<>> ELSE [k \in Keys(map') |-> MapGet(map', k)]
      BY DEF Bound, Keys
    <2>4. ASSUME NEW key \in Key, NEW o \in Object, InsertIntoMap(key, o)
          PROVE  MapSound' /\ Table!Next
      <3>1. /\ IsMap(map') /\ Counted(map') /\ map' # NULL
            /\ \A k \in Key : MapGet(map', k) = IF k = key THEN o ELSE MapGet(map, k)
        BY <2>1, <2>4, MapSteps
      <3>2. Keys(map') = Keys(map) \cup {key} /\ Keys(map) \subseteq Key /\ o # NULL
        BY <3>1 DEF Keys, NullAssumption
      <3>3. Bound' = [k \in DOMAIN Bound \cup {key} |-> IF k = key THEN o ELSE Bound[k]]
        BY <2>2, <2>3, <3>1, <3>2
      <3>4. Table!Bind(key, o)
        BY <3>3 DEF Table!Bind
      <3> QED
        BY <3>1, <3>4 DEF Table!Next, MapSound
    <2>5. ASSUME NEW key \in Key, RemoveFromMap(key)
          PROVE  MapSound' /\ Table!Next
      <3>1. /\ IsMap(map') /\ Counted(map') /\ map' # NULL
            /\ \A k \in Key : MapGet(map', k) = IF k = key THEN NULL ELSE MapGet(map, k)
        BY <2>1, <2>5, MapSteps
      <3>2. Keys(map') = Keys(map) \ {key} /\ Keys(map) \subseteq Key
        BY <3>1 DEF Keys
      <3>3. Bound' = [k \in DOMAIN Bound \ {key} |-> Bound[k]]
        BY <2>2, <2>3, <3>1, <3>2
      <3>4. Table!Unbind(key)
        BY <3>3 DEF Table!Unbind
      <3> QED
        BY <3>1, <3>4 DEF Table!Next, MapSound
    <2>6. ASSUME FreeMap
          PROVE  MapSound' /\ Table!Next
      <3>1. map' = NULL
        BY <2>6 DEF FreeMap
      <3>2. Bound' = <<>>
        BY <2>3, <3>1
      <3> QED
        BY <3>1, <3>2 DEF MapSound, Table!Next, Table!Clear
    <2> QED
      BY <1>2, <2>4, <2>5, <2>6 DEF MapStep
  <1> QED
    BY <1>1, <1>2 DEF Next

\* map.c: what map_insert, map_remove and map_free do to the chains, through every
\* collision and growth, is what the mapping from keys to objects promises.
THEOREM IsMapping ==
    ASSUME HashAssumption, NullAssumption, NullIsNoMap
    PROVE  Spec => ImplementsMapping
  <1>1. Init => MapSound /\ Table!Init
    BY MapBegins DEF Table!Init
  <1>2. MapSound /\ [Next]_vars => MapSound'
    BY MapStepKeeps
  <1>3. MapSound /\ [Next]_vars => [Table!Next]_Bound
    BY MapStepKeeps
  <1> QED
    BY <1>1, <1>2, <1>3, PTL DEF Spec, ImplementsMapping, Table!Spec

-----------------------------------------------------------------------------
(* Counting the references.                                                *)

\* How often x is in q
Spots(q, x) == {i \in 1 .. Len(q) : q[i] = x}
Times(q, x) == Cardinality(Spots(q, x))

\* That is a number.
LEMMA SpotsFinite ==
    ASSUME NEW S, NEW q \in Seq(S), NEW x
    PROVE  IsFiniteSet(Spots(q, x)) /\ Times(q, x) \in Nat
  <1>1. Len(q) \in Nat
    BY LenProperties
  <1>2. IsFiniteSet(1 .. Len(q))
    BY <1>1, FS_Interval
  <1>3. Spots(q, x) \in SUBSET (1 .. Len(q))
    BY DEF Spots
  <1>4. IsFiniteSet(Spots(q, x))
    BY <1>2, <1>3, FS_Subset
  <1> QED
    BY <1>4, FS_CardinalityType DEF Times

\* One sequence behind the other
LEMMA TimesConcat ==
    ASSUME NEW S, NEW p \in Seq(S), NEW q \in Seq(S), NEW x
    PROVE  Times(p \o q, x) = Times(p, x) + Times(q, x)
  <1> DEFINE A == Spots(p, x)
             B == Spots(q, x)
             n == Len(p)
             D == {n + i : i \in B}
             f == [i \in B |-> n + i]
  <1>1. n \in Nat /\ Len(q) \in Nat
    BY LenProperties
  <1>2. /\ Len(p \o q) = n + Len(q)
        /\ \A i \in 1 .. n + Len(q) : (p \o q)[i] = IF i <= n THEN p[i] ELSE q[i - n]
    BY ConcatProperties
  <1>3. A \subseteq 1 .. n /\ B \subseteq 1 .. Len(q)
    BY DEF Spots
  <1>4. Spots(p \o q, x) = A \cup D
    <2>1. ASSUME NEW i \in Spots(p \o q, x)
          PROVE  i \in A \cup D
      <3>1. i \in 1 .. n + Len(q) /\ (p \o q)[i] = x
        BY <1>2 DEF Spots
      <3>2. CASE i <= n
        BY <1>1, <1>2, <3>1, <3>2 DEF Spots
      <3>3. CASE ~ (i <= n)
        <4>1. i - n \in 1 .. Len(q) /\ q[i - n] = x /\ i = n + (i - n)
          BY <1>1, <1>2, <3>1, <3>3
        <4>2. i - n \in B
          BY <4>1 DEF Spots
        <4> QED
          BY <4>1, <4>2
      <3> QED
        BY <3>2, <3>3
    <2>2. ASSUME NEW i \in A
          PROVE  i \in Spots(p \o q, x)
      BY <1>1, <1>2, <1>3 DEF Spots
    <2>3. ASSUME NEW j \in B
          PROVE  n + j \in Spots(p \o q, x)
      <3>1. j \in 1 .. Len(q) /\ q[j] = x
        BY DEF Spots
      <3>2. n + j \in 1 .. n + Len(q) /\ ~ (n + j <= n) /\ n + j - n = j
        BY <1>1, <3>1
      <3> QED
        BY <1>2, <3>1, <3>2 DEF Spots
    <2> QED
      BY <2>1, <2>2, <2>3
  <1>5. A \cap D = {}
    <2> SUFFICES ASSUME NEW i \in A, NEW j \in B, i = n + j
                 PROVE  FALSE
      OBVIOUS
    <2>1. i \in 1 .. n /\ j \in 1 .. Len(q)
      BY <1>3
    <2> QED
      BY <1>1, <2>1
  <1>6. IsFiniteSet(A) /\ IsFiniteSet(B)
    BY SpotsFinite
  <1>7. f \in Bijection(B, D)
    <2>1. \A i, j \in B : f[i] = f[j] => i = j
      <3> SUFFICES ASSUME NEW i \in B, NEW j \in B, n + i = n + j
                   PROVE  i = j
        OBVIOUS
      <3>1. i \in Nat /\ j \in Nat
        BY <1>1, <1>3
      <3> QED
        BY <1>1, <3>1
    <2> QED
      BY <2>1 DEF Bijection, Injection, Surjection, IsInjective
  <1>8. IsFiniteSet(D) /\ Cardinality(D) = Cardinality(B)
    BY <1>6, <1>7, FS_Bijection DEF ExistsBijection
  <1> HIDE DEF A, B, D
  <1>9. Cardinality(A \cup D) = Cardinality(A) + Cardinality(D) - Cardinality(A \cap D)
    BY <1>6, <1>8, FS_Union
  <1>10. Cardinality(A) \in Nat /\ Cardinality(D) \in Nat /\ Cardinality(A \cap D) = 0
    BY <1>5, <1>6, <1>8, FS_CardinalityType, FS_EmptySet
  <1> QED
    BY <1>4, <1>8, <1>9, <1>10 DEF Times, A, B

\* A single item
LEMMA TimesOne ==
    ASSUME NEW y, NEW x
    PROVE  Times(<<y>>, x) = IF y = x THEN 1 ELSE 0
  <1>1. CASE y = x
    <2>1. Spots(<<y>>, x) = {1}
      BY <1>1 DEF Spots
    <2> QED
      BY <1>1, <2>1, FS_Singleton DEF Times
  <1>2. CASE y # x
    <2>1. Spots(<<y>>, x) = {}
      BY <1>2 DEF Spots
    <2> QED
      BY <1>2, <2>1, FS_EmptySet DEF Times
  <1> QED
    BY <1>1, <1>2

\* A sequence cut in two
LEMMA CutInTwo ==
    ASSUME NEW S, NEW q \in Seq(S), NEW k \in 0 .. Len(q)
    PROVE  /\ SubSeq(q, 1, k) \in Seq(S) /\ SubSeq(q, k + 1, Len(q)) \in Seq(S)
           /\ q = SubSeq(q, 1, k) \o SubSeq(q, k + 1, Len(q))
  <1> DEFINE n == Len(q)
             a == SubSeq(q, 1, k)
             b == SubSeq(q, k + 1, n)
  <1>1. n \in Nat /\ k \in Nat /\ k <= n /\ \A i \in 1 .. n : q[i] \in S
    BY LenProperties, ElementOfSeq
  <1>2. a \in Seq(S) /\ Len(a) = k /\ \A i \in 1 .. k : a[i] = q[i]
    <2>1. \A i \in 1 .. k : q[i] \in S
      BY <1>1
    <2>2. /\ a \in Seq(S) /\ Len(a) = IF 1 <= k THEN k - 1 + 1 ELSE 0
          /\ \A i \in 1 .. k - 1 + 1 : a[i] = q[1 + i - 1]
      BY <1>1, <2>1, SubSeqProperties
    <2> QED
      BY <1>1, <2>2
  <1>3. b \in Seq(S) /\ Len(b) = n - k /\ \A i \in 1 .. n - k : b[i] = q[k + i]
    <2>1. \A i \in k + 1 .. n : q[i] \in S
      BY <1>1
    <2>2. /\ b \in Seq(S) /\ Len(b) = IF k + 1 <= n THEN n - (k + 1) + 1 ELSE 0
          /\ \A i \in 1 .. n - (k + 1) + 1 : b[i] = q[k + 1 + i - 1]
      BY <1>1, <2>1, SubSeqProperties
    <2> QED
      BY <1>1, <2>2
  <1> HIDE DEF a, b
  <1>4. /\ a \o b \in Seq(S) /\ Len(a \o b) = n
        /\ \A i \in 1 .. n : (a \o b)[i] = IF i <= k THEN a[i] ELSE b[i - k]
    <2>1. /\ a \o b \in Seq(S) /\ Len(a \o b) = Len(a) + Len(b)
          /\ \A i \in 1 .. Len(a) + Len(b) : (a \o b)[i] = IF i <= Len(a) THEN a[i]
                  ELSE b[i - Len(a)]
      BY <1>2, <1>3, ConcatProperties
    <2> QED
      BY <1>1, <1>2, <1>3, <2>1
  <1>5. ASSUME NEW i \in 1 .. n
        PROVE  (a \o b)[i] = q[i]
    <2>1. CASE i <= k
      BY <1>1, <1>2, <1>4, <2>1
    <2>2. CASE ~ (i <= k)
      <3>1. i - k \in 1 .. n - k /\ k + (i - k) = i
        BY <1>1, <2>2
      <3> QED
        BY <1>3, <1>4, <2>2, <3>1
    <2> QED
      BY <2>1, <2>2
  <1>6. q = a \o b
    BY <1>4, <1>5, SeqEqual
  <1> QED
    BY <1>2, <1>3, <1>6 DEF a, b

\* One item inserted
LEMMA TimesInserted ==
    ASSUME NEW S, NEW q \in Seq(S), NEW i \in 1 .. Len(q) + 1, NEW y \in S, NEW x
    PROVE  Times(InsertAt(q, i, y), x) = Times(q, x) + IF y = x THEN 1 ELSE 0
  <1> DEFINE a == SubSeq(q, 1, i - 1)
             b == SubSeq(q, i, Len(q))
  <1>1. i - 1 \in 0 .. Len(q) /\ i - 1 + 1 = i
    BY LenProperties
  <1>2. a \in Seq(S) /\ b \in Seq(S) /\ q = a \o b
    BY <1>1, CutInTwo
  <1>3. <<y>> \in Seq(S)
    OBVIOUS
  <1>4. a \o <<y>> \in Seq(S)
    BY <1>2, <1>3, ConcatProperties
  <1>5. InsertAt(q, i, y) = a \o <<y>> \o b
    BY DEF InsertAt
  <1> HIDE DEF a, b
  <1>6. Times(a \o <<y>> \o b, x) = Times(a, x) + Times(<<y>>, x) + Times(b, x)
    <2>1. Times(a \o <<y>>, x) = Times(a, x) + Times(<<y>>, x)
      BY <1>2, <1>3, TimesConcat
    <2>2. Times(a \o <<y>> \o b, x) = Times(a \o <<y>>, x) + Times(b, x)
      BY <1>2, <1>4, TimesConcat
    <2> QED
      BY <2>1, <2>2
  <1>7. Times(q, x) = Times(a, x) + Times(b, x)
    BY <1>2, TimesConcat
  <1>8. Times(a, x) \in Nat /\ Times(b, x) \in Nat /\ Times(<<y>>, x) = IF y = x THEN 1 ELSE 0
    BY <1>2, TimesOne, SpotsFinite
  <1> QED
    BY <1>5, <1>6, <1>7, <1>8

\* One item removed
LEMMA TimesRemoved ==
    ASSUME NEW S, NEW q \in Seq(S), NEW i \in 1 .. Len(q), NEW x
    PROVE  Times(RemoveAt(q, i), x) = Times(q, x) - IF q[i] = x THEN 1 ELSE 0
  <1> DEFINE a == SubSeq(q, 1, i - 1)
             b == SubSeq(q, i, Len(q))
             c == SubSeq(q, i + 1, Len(q))
             y == q[i]
  <1>1. i - 1 \in 0 .. Len(q) /\ i - 1 + 1 = i /\ i \in 0 .. Len(q) /\ Len(q) \in i .. Len(q)
    BY LenProperties
  <1>2. a \in Seq(S) /\ b \in Seq(S) /\ q = a \o b
    BY <1>1, CutInTwo
  <1>3. c \in Seq(S)
    BY <1>1, CutInTwo
  <1>4. b = <<y>> \o c
    BY <1>1, SubSeqRecursiveFirst
  <1>5. <<y>> \in Seq(S)
    BY ElementOfSeq
  <1>6. RemoveAt(q, i) = a \o c
    BY DEF RemoveAt
  <1> HIDE DEF a, b, c, y
  <1>7. Times(b, x) = Times(<<y>>, x) + Times(c, x)
    BY <1>3, <1>4, <1>5, TimesConcat
  <1>8. Times(q, x) = Times(a, x) + Times(b, x) /\ Times(a \o c, x) = Times(a, x) + Times(c, x)
    BY <1>2, <1>3, TimesConcat
  <1>9. Times(a, x) \in Nat /\ Times(c, x) \in Nat /\ Times(<<y>>, x) = IF y = x THEN 1 ELSE 0
    BY <1>2, <1>3, TimesOne, SpotsFinite
  <1> QED
    BY <1>6, <1>7, <1>8, <1>9 DEF y

\* One item replaced by something else than x
LEMMA TimesBlanked ==
    ASSUME NEW S, NEW q \in Seq(S), NEW i \in 1 .. Len(q), NEW y, NEW x, x # y
    PROVE  Times(ReplaceAt(q, i, y), x) = Times(q, x) - IF q[i] = x THEN 1 ELSE 0
  <1> DEFINE r == ReplaceAt(q, i, y)
  <1>1. /\ Len(r) = Len(q) /\ r[i] = y
        /\ \A j \in 1 .. Len(q) : j # i => r[j] = q[j]
    BY DEF ReplaceAt
  <1> HIDE DEF r
  <1> DEFINE A == Spots(q, x)
  <1>2. Spots(r, x) = A \ {i} /\ (i \in A <=> q[i] = x)
    BY <1>1 DEF Spots
  <1>3. IsFiniteSet(A) /\ Cardinality(A) \in Nat
    BY SpotsFinite DEF Times
  <1> HIDE DEF A
  <1>4. Cardinality(A \ {i}) = IF i \in A THEN Cardinality(A) - 1 ELSE Cardinality(A)
    BY <1>3, FS_RemoveElement
  <1>5. Times(r, x) = Cardinality(A \ {i}) /\ Times(q, x) = Cardinality(A)
    BY <1>2 DEF Times, A
  <1> QED
    BY <1>2, <1>3, <1>4, <1>5 DEF r

\* No item twice
LEMMA TimesOnce ==
    ASSUME NEW S, NEW q \in Seq(S), \A i, j \in 1 .. Len(q) : q[i] = q[j] => i = j, NEW x
    PROVE  Times(q, x) = IF x \in Range(q) THEN 1 ELSE 0
  <1>1. Range(q) = {q[i] : i \in 1 .. Len(q)}
    BY DEF Range
  <1>2. CASE x \in Range(q)
    <2>1. PICK i \in 1 .. Len(q) : q[i] = x
      BY <1>1, <1>2
    <2>2. Spots(q, x) = {i}
      BY <2>1 DEF Spots
    <2> QED
      BY <1>2, <2>2, FS_Singleton DEF Times
  <1>3. CASE x \notin Range(q)
    <2>1. Spots(q, x) = {}
      BY <1>1, <1>3 DEF Spots
    <2> QED
      BY <1>3, <2>1, FS_EmptySet DEF Times
  <1> QED
    BY <1>2, <1>3

\* The cells of a vector that hold x are as many as its items that are x.
LEMMA CellsCounted ==
    ASSUME NEW v \in Vectors, NEW x
    PROVE  /\ Cardinality({i \in 0 .. v.n - 1 : v.ptr[i] = x}) = Times(Elements(v), x)
           /\ Times(Elements(v), x) \in Nat
  <1> DEFINE e == Elements(v)
             A == Spots(e, x)
             B == {i \in 0 .. v.n - 1 : v.ptr[i] = x}
             f == [j \in A |-> j - 1]
  <1>1. /\ e \in Seq(Slot) /\ Len(e) = v.n /\ v.n \in Nat
        /\ \A i \in 1 .. v.n : e[i] = v.ptr[i - 1]
    BY ElementsOf, VectorParts
  <1>2. IsFiniteSet(A) /\ Times(e, x) \in Nat
    BY <1>1, SpotsFinite
  <1> HIDE DEF e
  <1>3. A = {j \in 1 .. v.n : v.ptr[j - 1] = x}
    BY <1>1 DEF Spots
  <1>4. f \in Bijection(A, B)
    <2>1. \A j \in A : f[j] \in B
      BY <1>1, <1>3
    <2>2. \A i, j \in A : f[i] = f[j] => i = j
      <3> SUFFICES ASSUME NEW i \in A, NEW j \in A, i - 1 = j - 1
                   PROVE  i = j
        OBVIOUS
      <3>1. i \in Int /\ j \in Int
        BY <1>3
      <3> QED
        BY <3>1
    <2>3. ASSUME NEW i \in B
          PROVE  \E j \in A : f[j] = i
      <3>1. i \in Int /\ i + 1 \in 1 .. v.n /\ i + 1 - 1 = i /\ v.ptr[i] = x
        BY <1>1
      <3>2. i + 1 \in A
        BY <1>3, <3>1
      <3> QED
        BY <3>1, <3>2
    <2> HIDE DEF A, B
    <2> QED
      BY <2>1, <2>2, <2>3 DEF Bijection, Injection, Surjection, IsInjective
  <1>5. Cardinality(B) = Cardinality(A)
    BY <1>2, <1>4, FS_Bijection DEF ExistsBijection
  <1> QED
    BY <1>2, <1>5 DEF Times, e

\* What the vector holds after each operation on it.
LEMMA VectorCounts ==
    ASSUME NullAssumption, ArraysSound, ArraysSound', NEW o \in Object
    PROVE  /\ InVector(o) \in Nat
           /\ \A x \in Object : AddToVector(x)
                 => InVector(o)' = InVector(o) + IF x = o THEN 1 ELSE 0
           /\ \A x \in Object, i \in 0 .. vector.n : InsertIntoVector(x, i)
                 => InVector(o)' = InVector(o) + IF x = o THEN 1 ELSE 0
           /\ \A i \in 0 .. vector.n - 1 : RemoveFromVector(i)
                 => InVector(o)' = InVector(o) - IF vector.ptr[i] = o THEN 1 ELSE 0
           /\ \A s \in DOMAIN sets : ExtendVector(s)
                 => InVector(o)' = InVector(o) + IF o \in Members(sets[s]) THEN 1 ELSE 0
  <1> DEFINE e == Elements(vector)
             f == Elements(vector')
  <1>1. /\ e \in Seq(Slot) /\ Len(e) = vector.n /\ vector.n \in Nat
        /\ \A i \in 1 .. vector.n : e[i] = vector.ptr[i - 1]
    BY ElementsOf, VectorParts DEF ArraysSound
  <1>2. InVector(o) = Times(e, o) /\ Times(e, o) \in Nat
    BY CellsCounted DEF ArraysSound, InVector
  <1>3. InVector(o)' = Times(f, o)
    BY CellsCounted DEF ArraysSound, InVector
  <1> HIDE DEF e, f
  <1>4. ASSUME NEW x \in Object
        PROVE  /\ Times(Append(e, x), o) = Times(e, o) + IF x = o THEN 1 ELSE 0
               /\ \A i \in 0 .. vector.n :
                     Times(InsertAt(e, i + 1, x), o) = Times(e, o) + IF x = o THEN 1 ELSE 0
    <2>1. x \in Slot
      BY DEF Slot
    <2>2. ASSUME NEW i \in 0 .. vector.n
          PROVE  Times(InsertAt(e, i + 1, x), o) = Times(e, o) + IF x = o THEN 1 ELSE 0
      <3>1. i + 1 \in 1 .. Len(e) + 1
        BY <1>1
      <3> QED
        BY <1>1, <2>1, <3>1, TimesInserted
    <2>3. Append(e, x) = InsertAt(e, vector.n + 1, x) /\ vector.n \in 0 .. vector.n
      BY <1>1, <2>1, AppendInserts
    <2> QED
      BY <2>2, <2>3
  <1>5. \A x \in Object : AddToVector(x) => InVector(o)' = InVector(o) + IF x = o THEN 1 ELSE 0
    BY <1>2, <1>3, <1>4, VectorSteps DEF Holds, e, f
  <1>6. \A x \in Object, i \in 0 .. vector.n :
           InsertIntoVector(x, i) => InVector(o)' = InVector(o) + IF x = o THEN 1 ELSE 0
    BY <1>2, <1>3, <1>4, VectorSteps DEF Holds, e, f
  <1>7. ASSUME NEW i \in 0 .. vector.n - 1, RemoveFromVector(i)
        PROVE  InVector(o)' = InVector(o) - IF vector.ptr[i] = o THEN 1 ELSE 0
    <2>1. i + 1 \in 1 .. Len(e) /\ e[i + 1] = vector.ptr[i]
      BY <1>1
    <2>2. f = IF vector.opts = "KEEP" THEN ReplaceAt(e, i + 1, NULL) ELSE RemoveAt(e, i + 1)
      BY <1>7, VectorSteps DEF Holds, e, f
    <2>3. o # NULL
      BY DEF NullAssumption
    <2>4. Times(ReplaceAt(e, i + 1, NULL), o) = Times(e, o) - IF e[i + 1] = o THEN 1 ELSE 0
      BY <1>1, <2>1, <2>3, TimesBlanked
    <2>5. Times(RemoveAt(e, i + 1), o) = Times(e, o) - IF e[i + 1] = o THEN 1 ELSE 0
      BY <1>1, <2>1, TimesRemoved
    <2> QED
      BY <1>2, <1>3, <2>1, <2>2, <2>4, <2>5
  <1>8. ASSUME NEW s \in DOMAIN sets, ExtendVector(s)
        PROVE  InVector(o)' = InVector(o) + IF o \in Members(sets[s]) THEN 1 ELSE 0
    <2> DEFINE g == Elements(sets[s])
               n == sets[s].n
    <2>1. /\ g \in Seq(Object) /\ Len(g) = n /\ Range(g) = Members(sets[s])
          /\ \A i, j \in 1 .. n : g[i] = g[j] => i = j
      BY ElementsOfSet DEF ArraysSound
    <2>2. f = e \o g
      BY <1>8, VectorSteps DEF Holds, e, f
    <2> HIDE DEF g
    <2>3. g \in Seq(Slot)
      BY <2>1, SeqMonotonic DEF Slot
    <2>4. Times(e \o g, o) = Times(e, o) + Times(g, o)
      BY <1>1, <2>3, TimesConcat
    <2>5. Times(g, o) = IF o \in Range(g) THEN 1 ELSE 0
      BY <2>1, TimesOnce
    <2> QED
      BY <1>2, <1>3, <2>1, <2>2, <2>4, <2>5
  <1> QED
    BY <1>2, <1>5, <1>6, <1>7, <1>8

\* One if so, and zero if not
Same(x, y) == IF x = y THEN 1 ELSE 0
Has(S, x) == IF x \in S THEN 1 ELSE 0

\* One set changed, or is new.
HeldBy(ss, o) == {s \in DOMAIN ss : o \in Range(Elements(ss[s]))}
OnlySet(ss, tt, s) ==
    DOMAIN tt = DOMAIN ss \cup {s} /\ \A x \in DOMAIN ss : x # s => tt[x] = ss[x]

LEMMA OneSetChanged ==
    ASSUME NEW ss, NEW tt, NEW s, NEW o, IsFiniteSet(DOMAIN ss), OnlySet(ss, tt, s)
    PROVE  /\ Cardinality(HeldBy(ss, o)) \in Nat
           /\ Cardinality(HeldBy(tt, o)) =
                Cardinality(HeldBy(ss, o)) + Has(HeldBy(tt, o), s) - Has(HeldBy(ss, o), s)
  <1> DEFINE A == HeldBy(ss, o)
             B == HeldBy(tt, o)
             C == A \ {s}
  <1>1. A \in SUBSET DOMAIN ss
    BY DEF HeldBy
  <1>2. IsFiniteSet(A) /\ Cardinality(A) \in Nat
    BY <1>1, FS_Subset, FS_CardinalityType
  <1>3. B = IF s \in B THEN C \cup {s} ELSE C
    <2>1. \A x : x # s => (x \in A <=> x \in B)
      BY DEF HeldBy, OnlySet
    <2> HIDE DEF A, B
    <2> QED
      BY <2>1
  <1> HIDE DEF A, B
  <1>4. IsFiniteSet(C) /\ Cardinality(C) = IF s \in A THEN Cardinality(A) - 1 ELSE Cardinality(A)
    BY <1>2, FS_RemoveElement
  <1>5. s \notin C
    OBVIOUS
  <1> HIDE DEF C
  <1>6. Cardinality(C \cup {s}) = Cardinality(C) + 1 /\ Cardinality(C) \in Nat
    BY <1>4, <1>5, FS_AddElement, FS_CardinalityType
  <1>7. Cardinality(B) = Cardinality(A) + (IF s \in B THEN 1 ELSE 0) - (IF s \in A THEN 1 ELSE 0)
    <2>1. Cardinality(B) = Cardinality(C) + IF s \in B THEN 1 ELSE 0
      <3>1. CASE s \in B
        BY <1>3, <1>6, <3>1
      <3>2. CASE s \notin B
        BY <1>3, <1>6, <3>2
      <3> QED
        BY <3>1, <3>2
    <2>2. Cardinality(C) = Cardinality(A) - IF s \in A THEN 1 ELSE 0
      BY <1>2, <1>4
    <2> QED
      BY <2>1, <2>2, <1>2, <1>6
  <1> QED
    BY <1>2, <1>7 DEF A, B, Has

\* The keys that an object is under, after one key was given another object.
OnlyKey(m, w, k) == \A x \in Key : x # k => MapGet(w, x) = MapGet(m, x)

LEMMA OneKeyChanged ==
    ASSUME NEW m, NEW w, NEW k \in Key, NEW o, IsFiniteSet(Under(m, o)), OnlyKey(m, w, k)
    PROVE  /\ Cardinality(Under(m, o)) \in Nat
           /\ Cardinality(Under(w, o)) =
                Cardinality(Under(m, o)) + Same(MapGet(w, k), o) - Same(MapGet(m, k), o)
  <1> DEFINE A == Under(m, o)
             B == Under(w, o)
             C == A \ {k}
  <1>1. \A x : x # k => (x \in A <=> x \in B)
    BY DEF Under, OnlyKey
  <1>2. (k \in A <=> MapGet(m, k) = o) /\ (k \in B <=> MapGet(w, k) = o)
    BY DEF Under
  <1>3. IsFiniteSet(A) /\ Cardinality(A) \in Nat
    BY FS_CardinalityType
  <1> HIDE DEF A, B
  <1>4. B = IF k \in B THEN C \cup {k} ELSE C
    BY <1>1
  <1>5. IsFiniteSet(C) /\ Cardinality(C) = IF k \in A THEN Cardinality(A) - 1 ELSE Cardinality(A)
    BY <1>3, FS_RemoveElement
  <1>6. k \notin C
    OBVIOUS
  <1> HIDE DEF C
  <1>7. Cardinality(C \cup {k}) = Cardinality(C) + 1 /\ Cardinality(C) \in Nat
    BY <1>5, <1>6, FS_AddElement, FS_CardinalityType
  <1>8. Cardinality(B) = Cardinality(A) + (IF k \in B THEN 1 ELSE 0) - (IF k \in A THEN 1 ELSE 0)
    <2>1. Cardinality(B) = Cardinality(C) + IF k \in B THEN 1 ELSE 0
      <3>1. CASE k \in B
        BY <1>4, <1>7, <3>1
      <3>2. CASE k \notin B
        BY <1>4, <1>7, <3>2
      <3> QED
        BY <3>1, <3>2
    <2>2. Cardinality(C) = Cardinality(A) - IF k \in A THEN 1 ELSE 0
      BY <1>3, <1>5
    <2> QED
      BY <2>1, <2>2, <1>3, <1>7
  <1> QED
    BY <1>2, <1>3, <1>8 DEF A, B, Same

\* A cell n more, with x in it
CellsWith(l, d, o) == {c \in l : d[c] = o}
OnlyCell(l, d, n, e, x) == n \notin l /\ e[n] = x /\ \A c \in l : e[c] = d[c]

LEMMA OneCellMore ==
    ASSUME NEW l, NEW d, NEW n, NEW e, NEW x, NEW o, IsFiniteSet(l), OnlyCell(l, d, n, e, x)
    PROVE  /\ Cardinality(CellsWith(l, d, o)) \in Nat
           /\ Cardinality(CellsWith(l \cup {n}, e, o)) =
                Cardinality(CellsWith(l, d, o)) + Same(x, o)
  <1> DEFINE A == CellsWith(l, d, o)
             B == CellsWith(l \cup {n}, e, o)
  <1>1. A \in SUBSET l /\ n \notin A /\ B = IF x = o THEN A \cup {n} ELSE A
    BY DEF CellsWith, OnlyCell
  <1>2. IsFiniteSet(A) /\ Cardinality(A) \in Nat
    BY <1>1, FS_Subset, FS_CardinalityType
  <1> HIDE DEF A, B
  <1>3. Cardinality(A \cup {n}) = Cardinality(A) + 1
    BY <1>1, <1>2, FS_AddElement
  <1>4. Cardinality(B) = Cardinality(A) + IF x = o THEN 1 ELSE 0
    BY <1>1, <1>2, <1>3
  <1> QED
    BY <1>2, <1>4 DEF A, B, Same

-----------------------------------------------------------------------------
(* The references each container holds, step by step.                      *)

\* An object is in use as long as a reference to it is counted.
Alive == \A o \in Object : o \in exists <=> count[o] > 0

\* What the operations on references do to the counts.
LEMMA RefTaken ==
    ASSUME ObjectsTyped, Alive, NEW x \in Object, Incref(x)
    PROVE  /\ ObjectsTyped' /\ Alive' /\ held' = held
           /\ \A o \in Object : count'[o] = count[o] + IF x = o THEN 1 ELSE 0
  <1>1. /\ exists' = exists \cup {x} /\ held' = held
        /\ count' = [count EXCEPT ![x] = @ + 1]
    BY DEF Incref
  <1>2. exists \subseteq Object /\ count \in [Object -> Nat] /\ held \in [Object -> Nat]
    BY DEF ObjectsTyped
  <1>3. count' \in [Object -> Nat] /\ \A o \in Object : count'[o] = count[o] + IF x = o THEN 1
                                         ELSE 0
    BY <1>1, <1>2
  <1> QED
    BY <1>1, <1>2, <1>3 DEF ObjectsTyped, Alive

\* Several at once, of objects in use
LEMMA RefsTaken ==
    ASSUME ObjectsTyped, Alive, NEW S, S \subseteq exists, IncrefAll(S)
    PROVE  /\ ObjectsTyped' /\ Alive' /\ held' = held
           /\ \A o \in Object : count'[o] = count[o] + IF o \in S THEN 1 ELSE 0
  <1>1. /\ exists' = exists /\ held' = held
        /\ count' = [o \in Object |-> IF o \in S THEN count[o] + 1 ELSE count[o]]
    BY DEF IncrefAll
  <1>2. exists \subseteq Object /\ count \in [Object -> Nat] /\ held \in [Object -> Nat]
    BY DEF ObjectsTyped
  <1>3. count' \in [Object -> Nat] /\ \A o \in Object : count'[o] = count[o] + IF o \in S THEN 1
                                         ELSE 0
    BY <1>1, <1>2
  <1> QED
    BY <1>1, <1>2, <1>3 DEF ObjectsTyped, Alive

\* Dropping one of o's references, of which there is one at least
LEMMA OneLess ==
    ASSUME ObjectsTyped, Alive, NEW x \in Object, count[x] > 0,
           count' = [count EXCEPT ![x] = Decremented(@)],
           exists' = IF Released(count[x]) THEN exists \ {x} ELSE exists
    PROVE  /\ exists' \subseteq Object /\ count' \in [Object -> Nat] /\ Alive'
           /\ \A o \in Object : count'[o] = count[o] - IF x = o THEN 1 ELSE 0
  <1>1. exists \subseteq Object /\ count \in [Object -> Nat]
    BY DEF ObjectsTyped
  <1>2. count' = [count EXCEPT ![x] = count[x] - 1] /\ (Released(count[x]) <=> count[x] = 1)
    <2>1. count[x] \in Nat /\ count[x] > 0
      BY <1>1
    <2>2. Decremented(count[x]) = count[x] - 1 /\ (Released(count[x]) <=> count[x] = 1)
      BY <2>1 DEF Decremented, Released
    <2> QED
      BY <2>2
  <1>3. /\ count' \in [Object -> Nat]
        /\ \A o \in Object : count'[o] = IF x = o THEN count[o] - 1 ELSE count[o]
    BY <1>1, <1>2
  <1> QED
    BY <1>1, <1>2, <1>3 DEF Alive

\* An empty slot drops nothing.
LEMMA RefDropped ==
    ASSUME NullAssumption, ObjectsTyped, Alive, NEW x \in Slot, x \in Object
            => count[x] > 0, Decref(x)
    PROVE  /\ ObjectsTyped' /\ Alive' /\ held' = held
           /\ \A o \in Object : count'[o] = count[o] - IF x = o THEN 1 ELSE 0
  <1>1. CASE x = NULL
    <2>1. UNCHANGED <<exists, count, held>>
      BY <1>1 DEF Decref
    <2>2. \A o \in Object : x # o /\ count[o] \in Nat
      BY <1>1 DEF NullAssumption, ObjectsTyped
    <2> QED
      BY <2>1, <2>2 DEF ObjectsTyped, Alive
  <1>2. CASE x \in Object
    <2>1. /\ count' = [count EXCEPT ![x] = Decremented(@)] /\ held' = held
          /\ exists' = IF Released(count[x]) THEN exists \ {x} ELSE exists
      BY <1>2 DEF Decref, NullAssumption
    <2> QED
      BY <1>2, <2>1, OneLess DEF ObjectsTyped
  <1> QED
    BY <1>1, <1>2 DEF Slot

\* The walk from head finds all cells in use.
LEMMA AllWalked ==
    ASSUME NodeAssumption, PointersSound, ~freed
    PROVE  Walked = live
  <1>1. Chained(order, head, tail, next, prev, live)
    BY SeenNow
  <1>2. Get = Walk(head, next)
    BY DEF Get, Walk
  <1> QED
    BY <1>1, <1>2, WalkFinds DEF Walked

\* What the list holds after each operation on it
LEMMA ListCounts ==
    ASSUME NodeAssumption, PointersSound, NEW o \in Object
    PROVE  /\ InList(o) \in Nat
           /\ \A n \in Node, x \in Object : Add(n, x) \/ Prepend(n, x)
                 => InList(o)' = InList(o) + IF x = o THEN 1 ELSE 0
           /\ Pop => InList(o)' = InList(o) - IF data[head] = o THEN 1 ELSE 0
           /\ Free => InList(o)' = 0
  <1>1. live \in SUBSET Node /\ data \in [Node -> Object \cup {NULL}]
    BY DEF PointersSound, ListTyped
  <1>2. IsFiniteSet(live)
    BY <1>1, FS_Subset DEF NodeAssumption
  <1> DEFINE A == {c \in live : data[c] = o}
  <1>3. IsFiniteSet(A) /\ Cardinality(A) \in Nat
    <2>1. A \in SUBSET live
      OBVIOUS
    <2> HIDE DEF A
    <2> QED
      BY <1>2, <2>1, FS_Subset, FS_CardinalityType
  <1>4. InList(o) = Cardinality(A)
    BY DEF InList
  <1>5. ASSUME NEW n \in Node, NEW x \in Object, Add(n, x) \/ Prepend(n, x)
        PROVE  InList(o)' = InList(o) + IF x = o THEN 1 ELSE 0
    <2>1. n \notin live /\ live' = live \cup {n} /\ data' = [data EXCEPT ![n] = x]
      BY <1>5 DEF Add, Prepend, NewNode
    <2>0. PICK e : e = data'
      OBVIOUS
    <2>2. OnlyCell(live, data, n, e, x)
      BY <1>1, <2>0, <2>1 DEF OnlyCell
    <2>3. InList(o)' = Cardinality(CellsWith(live \cup {n}, e, o))
      BY <2>0, <2>1 DEF InList, CellsWith
    <2>4. Cardinality(CellsWith(live \cup {n}, e, o)) =
            Cardinality(CellsWith(live, data, o)) + Same(x, o)
      BY <1>2, <2>2, OneCellMore
    <2> QED
      BY <1>4, <2>3, <2>4 DEF Same, CellsWith
  <1>6. ASSUME Pop
        PROVE  InList(o)' = InList(o) - IF data[head] = o THEN 1 ELSE 0
    <2>1. ~freed /\ head # NULL /\ live' = live \ {head} /\ data' = data
      BY <1>6 DEF Pop
    <2>2. head \in live
      BY <2>1, Places DEF PointersSound, Linked
    <2>3. {c \in live' : data'[c] = o} = A \ {head} /\ (head \in A <=> data[head] = o)
      BY <2>1, <2>2
    <2>4. InList(o)' = Cardinality(A \ {head})
      BY <2>3 DEF InList
    <2> HIDE DEF A
    <2>5. Cardinality(A \ {head}) = IF head \in A THEN Cardinality(A) - 1 ELSE Cardinality(A)
      BY <1>3, FS_RemoveElement
    <2> QED
      BY <1>3, <1>4, <2>3, <2>4, <2>5
  <1>7. ASSUME Free
        PROVE  InList(o)' = 0
    <2>1. ~freed /\ live' = live \ Walked /\ data' = data
      BY <1>7 DEF Free
    <2>2. Walked = live
      BY <2>1, AllWalked
    <2>3. {c \in live' : data'[c] = o} = {}
      BY <2>1, <2>2
    <2> QED
      BY <2>3, FS_EmptySet DEF InList
  <1> QED
    BY <1>3, <1>4, <1>5, <1>6, <1>7

\* What the sets hold after each operation on them
LEMMA SetCounts ==
    ASSUME RoomAssumption, ArraysSound, IsFiniteSet(DOMAIN sets), NEW o \in Object
    PROVE  /\ InSets(o) \in Nat
           /\ \A s \in DOMAIN sets, x \in Object : AddToSet(s, x)
                 => InSets(o)' = InSets(o) + IF x = o THEN 1 ELSE 0
           /\ \A s \in DOMAIN sets, x \in Object : RemoveFromSet(s, x)
                 => InSets(o)' = InSets(o)
                       - IF sets[s].ptr[IndexOf(sets[s], x)] = o THEN 1 ELSE 0
           /\ \A s, set : IsSet(set) /\ (s \in DOMAIN sets
                   => Members(sets[s]) \subseteq Members(set))
                          /\ Becomes(s, set)
                 => InSets(o)' = InSets(o) + IF /\ o \in Members(set)
                                                /\ s \in DOMAIN sets => o \notin Members(sets[s])
                                             THEN 1 ELSE 0
  <1>1. \A s \in DOMAIN sets : IsSet(sets[s]) /\ Range(Elements(sets[s])) = Members(sets[s])
    BY ElementsOfSet DEF ArraysSound
  <1>2. InSets(o) = Cardinality(HeldBy(sets, o)) /\ InSets(o)' = Cardinality(HeldBy(sets', o))
    BY DEF InSets, HeldBy
  <1>3. ASSUME NEW s, DOMAIN sets' = DOMAIN sets \cup {s},
               \A x \in DOMAIN sets : x # s => sets'[x] = sets[x]
        PROVE  /\ InSets(o) \in Nat
               /\ InSets(o)' = InSets(o) + (IF s \in HeldBy(sets', o) THEN 1 ELSE 0)
                                         - (IF s \in HeldBy(sets, o) THEN 1 ELSE 0)
    <2>0. PICK tt : tt = sets'
      OBVIOUS
    <2>1. OnlySet(sets, tt, s)
      BY <1>3, <2>0 DEF OnlySet
    <2>2. InSets(o)' = Cardinality(HeldBy(tt, o))
      BY <1>2, <2>0
    <2>3. /\ Cardinality(HeldBy(sets, o)) \in Nat
          /\ Cardinality(HeldBy(tt, o)) =
                Cardinality(HeldBy(sets, o)) + Has(HeldBy(tt, o), s) - Has(HeldBy(sets, o), s)
      BY <2>1, OneSetChanged
    <2>4. HeldBy(tt, o) = HeldBy(sets', o)
      BY <2>0
    <2> QED
      BY <1>2, <2>2, <2>3, <2>4 DEF Has
  <1>4. \A s : s \in HeldBy(sets, o) <=> s \in DOMAIN sets /\ o \in Members(sets[s])
    BY <1>1 DEF HeldBy
  <1>5. InSets(o) \in Nat
    <2>1. HeldBy(sets, o) \in SUBSET DOMAIN sets
      BY DEF HeldBy
    <2> QED
      BY <1>2, <2>1, FS_Subset, FS_CardinalityType
  <1>6. ASSUME NEW s \in DOMAIN sets, NEW w, sets' = [sets EXCEPT ![s] = w], IsSet(w)
        PROVE  InSets(o)' = InSets(o) + (IF o \in Members(w) THEN 1 ELSE 0)
                                      - (IF o \in Members(sets[s]) THEN 1 ELSE 0)
    <2>1. DOMAIN sets' = DOMAIN sets \cup {s} /\ \A x \in DOMAIN sets : x # s => sets'[x] = sets[x]
      BY <1>6
    <2>2. sets'[s] = w
      BY <1>6
    <2>3. Range(Elements(w)) = Members(w)
      BY <1>6, ElementsOfSet
    <2>4. s \in HeldBy(sets', o) <=> o \in Members(w)
      BY <2>1, <2>2, <2>3 DEF HeldBy
    <2> QED
      BY <1>3, <1>4, <2>1, <2>4
  <1>7. ASSUME NEW s \in DOMAIN sets, NEW x \in Object, AddToSet(s, x)
        PROVE  InSets(o)' = InSets(o) + IF x = o THEN 1 ELSE 0
    <2> DEFINE v == sets[s]
               w == SetAdd(v, x)
    <2>1. Inside(v, x) = {} /\ sets' = [sets EXCEPT ![s] = w]
      BY <1>7 DEF AddToSet
    <2>2. IsSet(v)
      BY <1>1
    <2>3. Entered(v, w, x)
      BY <2>2, SetAddIs
    <2>4. ~ \E y \in Members(v) : Compared[y] = Compared[x]
      BY <2>1, <2>2, InsideIs
    <2>5. IsSet(w) /\ Members(w) = Members(v) \cup {x} /\ x \notin Members(v)
      BY <2>3, <2>4 DEF Entered
    <2>6. InSets(o)' = InSets(o) + (IF o \in Members(w) THEN 1 ELSE 0)
                                 - (IF o \in Members(v) THEN 1 ELSE 0)
      BY <1>6, <2>1, <2>5
    <2> HIDE DEF v, w
    <2> QED
      BY <1>5, <2>5, <2>6
  <1>8. ASSUME NEW s \in DOMAIN sets, NEW x \in Object, RemoveFromSet(s, x)
        PROVE  InSets(o)' = InSets(o) - IF sets[s].ptr[IndexOf(sets[s], x)] = o THEN 1 ELSE 0
    <2> DEFINE v == sets[s]
               w == SetRemove(v, x)
               y == v.ptr[IndexOf(v, x)]
    <2>1. Inside(v, x) # {} /\ sets' = [sets EXCEPT ![s] = w]
      BY <1>8 DEF RemoveFromSet
    <2>2. IsSet(v)
      BY <1>1
    <2>3. IndexOf(v, x) \in 0 .. v.n - 1 /\ IsSet(w) /\ Members(w) = Members(v) \ {y}
      BY <2>1, <2>2, SetRemoveIs
    <2>4. y \in Members(v)
      BY <2>3 DEF Members
    <2>5. InSets(o)' = InSets(o) + (IF o \in Members(w) THEN 1 ELSE 0)
                                 - (IF o \in Members(v) THEN 1 ELSE 0)
      BY <1>6, <2>1, <2>3
    <2>6. InSets(o)' = InSets(o) - IF y = o THEN 1 ELSE 0
      <3> HIDE DEF v, w, y
      <3> QED
        BY <1>5, <2>3, <2>4, <2>5
    <2> QED
      BY <2>6
  <1>9. ASSUME NEW s, NEW set, IsSet(set), s \in DOMAIN sets
          => Members(sets[s]) \subseteq Members(set),
               Becomes(s, set)
        PROVE  InSets(o)' = InSets(o) + IF /\ o \in Members(set)
                                           /\ s \in DOMAIN sets => o \notin Members(sets[s])
                                        THEN 1 ELSE 0
    <2>1. sets' = [x \in DOMAIN sets \cup {s} |-> IF x = s THEN set ELSE sets[x]]
      BY <1>9 DEF Becomes
    <2>2. /\ DOMAIN sets' = DOMAIN sets \cup {s} /\ sets'[s] = set
          /\ \A x \in DOMAIN sets : x # s => sets'[x] = sets[x]
      BY <2>1
    <2>3. Range(Elements(set)) = Members(set)
      BY <1>9, ElementsOfSet
    <2>4. s \in HeldBy(sets', o) <=> o \in Members(set)
      BY <2>2, <2>3 DEF HeldBy
    <2>5. InSets(o)' = InSets(o) + (IF s \in HeldBy(sets', o) THEN 1 ELSE 0)
                                 - (IF s \in HeldBy(sets, o) THEN 1 ELSE 0)
      BY <1>3, <2>2
    <2> QED
      BY <1>4, <1>5, <1>9, <2>4, <2>5
  <1> QED
    BY <1>5, <1>7, <1>8, <1>9

\* What the map holds after each operation on it
LEMMA MapCounts ==
    ASSUME HashAssumption, NullAssumption, NullIsNoMap, MapSound, map # NULL, NEW o \in Object
    PROVE  /\ InMap(o) \in Nat
           /\ InMap(o) = Cardinality(Holding(map, o))
           /\ \A key \in Key, x \in Object : InsertIntoMap(key, x)
                 => InMap(o)' = InMap(o) + (IF x = o THEN 1 ELSE 0)
                                         - (IF MapGet(map, key) = o THEN 1 ELSE 0)
           /\ \A key \in Key : RemoveFromMap(key)
                 => InMap(o)' = InMap(o) - IF MapGet(map, key) = o THEN 1 ELSE 0
  <1>1. IsMap(map) /\ Counted(map)
    BY DEF MapSound
  <1>2. /\ InMap(o) = Cardinality(Under(map, o)) /\ IsFiniteSet(Under(map, o))
        /\ InMap(o) = Cardinality(Holding(map, o))
    BY <1>1, HoldingIs DEF InMap
  <1>3. InMap(o) \in Nat
    BY <1>2, FS_CardinalityType
  <1>4. ASSUME NEW key \in Key, NEW y, y # NULL \/ y = NULL,
               IsMap(map'), Counted(map'), map' # NULL,
               \A k \in Key : MapGet(map', k) = IF k = key THEN y ELSE MapGet(map, k)
        PROVE  InMap(o)' = InMap(o) + (IF y = o THEN 1 ELSE 0)
                                    - (IF MapGet(map, key) = o THEN 1 ELSE 0)
    <2>0. PICK w : w = map'
      OBVIOUS
    <2>1. InMap(o)' = IF w = NULL THEN 0 ELSE Cardinality(Holding(w, o))
      BY <2>0 DEF InMap
    <2>2. /\ IsMap(w) /\ Counted(w) /\ w # NULL
          /\ OnlyKey(map, w, key) /\ MapGet(w, key) = y
      BY <1>4, <2>0 DEF OnlyKey
    <2>3. InMap(o)' = Cardinality(Under(w, o))
      BY <2>1, <2>2, HoldingIs
    <2>4. Cardinality(Under(w, o)) =
                Cardinality(Under(map, o)) + Same(MapGet(w, key), o) - Same(MapGet(map, key), o)
      <3>1. IsFiniteSet(Under(map, o))
        BY <1>2
      <3>2. OnlyKey(map, w, key)
        BY <2>2
      <3> QED
        BY <3>1, <3>2, OneKeyChanged
    <2> QED
      BY <1>2, <2>2, <2>3, <2>4 DEF Same
  <1>5. ASSUME NEW key \in Key, NEW x \in Object, InsertIntoMap(key, x)
        PROVE  InMap(o)' = InMap(o) + (IF x = o THEN 1 ELSE 0)
                                    - (IF MapGet(map, key) = o THEN 1 ELSE 0)
    BY <1>4, <1>5, MapSteps
  <1>6. ASSUME NEW key \in Key, RemoveFromMap(key)
        PROVE  InMap(o)' = InMap(o) - IF MapGet(map, key) = o THEN 1 ELSE 0
    <2>1. NULL # o
      BY DEF NullAssumption
    <2>2. InMap(o)' = InMap(o) + (IF NULL = o THEN 1 ELSE 0)
                               - (IF MapGet(map, key) = o THEN 1 ELSE 0)
      BY <1>4, <1>6, MapSteps
    <2> QED
      BY <1>3, <2>1, <2>2
  <1> QED
    BY <1>2, <1>3, <1>5, <1>6

-----------------------------------------------------------------------------
(* All references together.                                                *)

\* The references to o that somebody holds, or lost
Accounted(o) == held[o] + InList(o) + InVector(o) + InSets(o) + InMap(o) + lost[o]

\* The containers are sound, and what is counted agrees with what they hold.
Containing == PointersSound /\ ArraysSound /\ MapSound /\ IsFiniteSet(DOMAIN sets)

CountsSound ==
    /\ made \in Programs /\ lost \in [Object -> Nat] /\ ObjectsTyped
    /\ Alive /\ \A o \in Object : count[o] = Accounted(o)

\* A set with an element in it
LEMMA AtLeastOne ==
    ASSUME NEW S, IsFiniteSet(S), NEW x \in S
    PROVE  Cardinality(S) \in Nat /\ Cardinality(S) > 0
  <1>1. Cardinality(S) \in Nat /\ Cardinality(S) # 0
    BY FS_CardinalityType, FS_EmptySet
  <1> QED
    BY <1>1

\* What is in a set, or in the vector, is counted there.
LEMMA InSomeSet ==
    ASSUME ArraysSound, IsFiniteSet(DOMAIN sets), NEW s \in DOMAIN sets, NEW o \in Members(sets[s])
    PROVE  InSets(o) \in Nat /\ InSets(o) > 0
  <1>1. s \in HeldBy(sets, o)
    BY ElementsOfSet DEF ArraysSound, HeldBy
  <1>2. HeldBy(sets, o) \in SUBSET DOMAIN sets
    BY DEF HeldBy
  <1>3. IsFiniteSet(HeldBy(sets, o))
    BY <1>2, FS_Subset
  <1>4. InSets(o) = Cardinality(HeldBy(sets, o))
    BY DEF InSets, HeldBy
  <1> QED
    BY <1>1, <1>3, <1>4, AtLeastOne

LEMMA InTheVector ==
    ASSUME ArraysSound, NEW i \in 0 .. vector.n - 1
    PROVE  InVector(vector.ptr[i]) \in Nat /\ InVector(vector.ptr[i]) > 0
  <1> DEFINE S == {j \in 0 .. vector.n - 1 : vector.ptr[j] = vector.ptr[i]}
  <1>1. vector.n - 1 \in Int
    BY VectorParts DEF ArraysSound
  <1>2. IsFiniteSet(0 .. vector.n - 1)
    BY <1>1, FS_Interval
  <1>3. S \in SUBSET (0 .. vector.n - 1) /\ i \in S
    OBVIOUS
  <1>4. InVector(vector.ptr[i]) = Cardinality(S)
    BY DEF InVector
  <1> HIDE DEF S
  <1>5. IsFiniteSet(S)
    BY <1>2, <1>3, FS_Subset
  <1> QED
    BY <1>3, <1>4, <1>5, AtLeastOne

\* Every tally is a number.
LEMMA Tallies ==
    ASSUME NodeAssumption, RoomAssumption, HashAssumption, NullAssumption, NullIsNoMap,
           Containing, CountsSound, NEW o \in Object
    PROVE  /\ InList(o) \in Nat /\ InVector(o) \in Nat /\ InSets(o) \in Nat /\ InMap(o) \in Nat
           /\ held[o] \in Nat /\ lost[o] \in Nat /\ count[o] \in Nat
           /\ count[o] = held[o] + InList(o) + InVector(o) + InSets(o) + InMap(o) + lost[o]
           /\ o \in exists <=> count[o] > 0
  <1>1. InList(o) \in Nat
    BY ListCounts DEF Containing
  <1>2. InVector(o) \in Nat
    BY CellsCounted DEF Containing, ArraysSound, InVector
  <1>3. InSets(o) \in Nat
    BY SetCounts DEF Containing
  <1>4. InMap(o) \in Nat
    <2>1. CASE map = NULL
      BY <2>1 DEF InMap
    <2>2. CASE map # NULL
      BY <2>2, MapCounts DEF Containing
    <2> QED
      BY <2>1, <2>2
  <1>5. held[o] \in Nat /\ lost[o] \in Nat /\ count[o] \in Nat
    BY DEF CountsSound, ObjectsTyped
  <1>6. count[o] = held[o] + InList(o) + InVector(o) + InSets(o) + InMap(o) + lost[o]
    BY DEF CountsSound, Accounted
  <1>7. o \in exists <=> count[o] > 0
    BY DEF CountsSound, Alive
  <1> QED
    BY <1>1, <1>2, <1>3, <1>4, <1>5, <1>6, <1>7

\* The tallies of a container that a step leaves alone
LEMMA TalliesKept ==
    ASSUME NEW o
    PROVE  /\ UNCHANGED list => InList(o)' = InList(o)
           /\ UNCHANGED vector => InVector(o)' = InVector(o)
           /\ UNCHANGED sets => InSets(o)' = InSets(o)
           /\ UNCHANGED map => InMap(o)' = InMap(o)
  BY DEF list, InList, InVector, InSets, InMap

\* A user makes an object or drops a reference.
LEMMA UserCounts ==
    ASSUME NodeAssumption, RoomAssumption, HashAssumption, NullAssumption, NullIsNoMap,
           Containing, CountsSound, UserStep
    PROVE  CountsSound'
  <1>1. UNCHANGED <<list, made, vector, sets, map, lost>>
    BY DEF UserStep, arrays
  <1>2. made' \in Programs /\ lost' \in [Object -> Nat]
    BY <1>1 DEF CountsSound
  <1>3. \A o \in Object : /\ InList(o)' = InList(o) /\ InVector(o)' = InVector(o)
                          /\ InSets(o)' = InSets(o) /\ InMap(o)' = InMap(o) /\ lost'[o] = lost[o]
    BY <1>1, TalliesKept
  <1>4. ObjectsTyped /\ Alive
    BY DEF CountsSound
  <1>5. ASSUME NEW x \in Object, Create(x)
        PROVE  /\ ObjectsTyped' /\ Alive'
               /\ \A o \in Object : count'[o] = Accounted(o)'
    <2>1. /\ x \notin exists /\ exists' = exists \cup {x}
          /\ count' = [count EXCEPT ![x] = 1] /\ held' = [held EXCEPT ![x] = 1]
      BY <1>5 DEF Create
    <2>2. exists \subseteq Object /\ count \in [Object -> Nat] /\ held \in [Object -> Nat]
      BY <1>4 DEF ObjectsTyped
    <2>3. ObjectsTyped' /\ Alive'
      BY <1>4, <2>1, <2>2 DEF ObjectsTyped, Alive
    <2>4. ASSUME NEW o \in Object
          PROVE  count'[o] = held'[o] + InList(o) + InVector(o) + InSets(o) + InMap(o) + lost[o]
      <3>1. CASE o = x
        <4>1. /\ InList(o) \in Nat /\ InVector(o) \in Nat /\ InSets(o) \in Nat /\ InMap(o) \in Nat
              /\ held[o] \in Nat /\ lost[o] \in Nat /\ ~ (count[o] > 0)
              /\ count[o] = held[o] + InList(o) + InVector(o) + InSets(o) + InMap(o) + lost[o]
          BY <2>1, <3>1, Tallies
        <4>2. InList(o) = 0 /\ InVector(o) = 0 /\ InSets(o) = 0 /\ InMap(o) = 0 /\ lost[o] = 0
          <5> DEFINE a == held[o]
                     b == InList(o)
                     c == InVector(o)
                     d == InSets(o)
                     e == InMap(o)
                     f == lost[o]
          <5>1. /\ a \in Nat /\ b \in Nat /\ c \in Nat /\ d \in Nat /\ e \in Nat /\ f \in Nat
                /\ count[o] = a + b + c + d + e + f /\ ~ (count[o] > 0)
            BY <4>1
          <5> HIDE DEF a, b, c, d, e, f
          <5>2. b = 0 /\ c = 0 /\ d = 0 /\ e = 0 /\ f = 0
            BY <5>1
          <5> QED
            BY <5>2 DEF b, c, d, e, f
        <4>3. count'[o] = 1 /\ held'[o] = 1
          BY <2>1, <2>2, <3>1
        <4> QED
          BY <4>2, <4>3
      <3>2. CASE o # x
        <4>1. count'[o] = count[o] /\ held'[o] = held[o]
          BY <2>1, <2>2, <3>2
        <4> QED
          BY <4>1, Tallies
      <3> QED
        BY <3>1, <3>2
    <2> QED
      BY <1>3, <2>3, <2>4 DEF Accounted
  <1>6. ASSUME NEW x \in Object, Release(x)
        PROVE  /\ ObjectsTyped' /\ Alive'
               /\ \A o \in Object : count'[o] = Accounted(o)'
    <2>1. /\ held[x] > 0 /\ held' = [held EXCEPT ![x] = @ - 1]
          /\ count' = [count EXCEPT ![x] = Decremented(@)]
          /\ exists' = IF Released(count[x]) THEN exists \ {x} ELSE exists
      BY <1>6 DEF Release
    <2>2. held \in [Object -> Nat]
      BY <1>4 DEF ObjectsTyped
    <2>3. count[x] > 0
      BY <2>1, Tallies
    <2>4. /\ exists' \subseteq Object /\ count' \in [Object -> Nat] /\ Alive'
          /\ \A o \in Object : count'[o] = count[o] - IF x = o THEN 1 ELSE 0
      BY <1>4, <2>1, <2>3, OneLess
    <2>5. /\ held' \in [Object -> Nat]
          /\ \A o \in Object : held'[o] = IF x = o THEN held[o] - 1 ELSE held[o]
      BY <2>1, <2>2
    <2>6. ASSUME NEW o \in Object
          PROVE  count'[o] = held'[o] + InList(o) + InVector(o) + InSets(o) + InMap(o) + lost[o]
      BY <2>4, <2>5, Tallies
    <2> QED
      BY <1>3, <2>4, <2>5, <2>6 DEF Accounted, ObjectsTyped
  <1> QED
    BY <1>2, <1>5, <1>6 DEF UserStep, CountsSound

\* The list takes a reference, hands one over, or drops all of them.
LEMMA ListStepCounts ==
    ASSUME NodeAssumption, RoomAssumption, HashAssumption, NullAssumption, NullIsNoMap,
           Containing, CountsSound, ListStep
    PROVE  CountsSound'
  <1>1. UNCHANGED <<made, vector, sets, map, lost>>
    BY DEF ListStep, arrays
  <1>2. made' \in Programs /\ lost' \in [Object -> Nat]
    BY <1>1 DEF CountsSound
  <1>3. \A o \in Object : /\ InVector(o)' = InVector(o)
                          /\ InSets(o)' = InSets(o) /\ InMap(o)' = InMap(o) /\ lost'[o] = lost[o]
    BY <1>1, TalliesKept
  <1>4. /\ ObjectsTyped /\ Alive /\ PointersSound
        /\ exists \subseteq Object /\ count \in [Object -> Nat] /\ held \in [Object -> Nat]
    BY DEF CountsSound, Containing, ObjectsTyped
  <1>5. ASSUME NEW n \in Node, NEW x \in Object, Add(n, x) \/ Prepend(n, x)
        PROVE  /\ ObjectsTyped' /\ Alive'
               /\ \A o \in Object : count'[o] = Accounted(o)'
    <2>1. Incref(x)
      BY <1>5 DEF Add, Prepend, NewNode
    <2>2. /\ ObjectsTyped' /\ Alive' /\ held' = held
          /\ \A o \in Object : count'[o] = count[o] + IF x = o THEN 1 ELSE 0
      BY <1>4, <2>1, RefTaken
    <2>3. ASSUME NEW o \in Object
          PROVE  count'[o] = held'[o] + InList(o)' + InVector(o) + InSets(o) + InMap(o) + lost[o]
      <3>1. InList(o)' = InList(o) + IF x = o THEN 1 ELSE 0
        BY <1>4, <1>5, ListCounts
      <3> QED
        BY <2>2, <3>1, Tallies
    <2> QED
      BY <1>3, <2>2, <2>3 DEF Accounted
  <1>6. ASSUME Pop
        PROVE  /\ ObjectsTyped' /\ Alive'
               /\ \A o \in Object : count'[o] = Accounted(o)'
    <2> DEFINE x == data[head]
    <2>1. /\ count' = [count EXCEPT ![x] = Decremented(count[x] + 1)]
          /\ exists' = IF Released(count[x] + 1) THEN exists \ {x} ELSE exists
          /\ held' = [held EXCEPT ![x] = @ + 1]
      BY <1>6 DEF Pop
    <2>2. \A o \in Object : InList(o)' = InList(o) - IF x = o THEN 1 ELSE 0
      BY <1>4, <1>6, ListCounts
    <2> HIDE DEF x
    <2>3. count' = count /\ exists' = exists
      <3>1. CASE x \in Object
        <4>1. count[x] \in Nat
          BY <1>4, <3>1
        <4>2. Decremented(count[x] + 1) = count[x] /\ (Released(count[x] + 1) <=> count[x] = 0)
          BY <4>1 DEF Decremented, Released
        <4>3. Released(count[x] + 1) => x \notin exists
          BY <1>4, <3>1, <4>1, <4>2 DEF Alive
        <4> QED
          BY <1>4, <2>1, <4>2, <4>3
      <3>2. CASE x \notin Object
        BY <1>4, <2>1, <3>2
      <3> QED
        BY <3>1, <3>2
    <2>4. /\ held' \in [Object -> Nat]
          /\ \A o \in Object : held'[o] = IF x = o THEN held[o] + 1 ELSE held[o]
      <3>1. CASE x \in Object
        BY <1>4, <2>1, <3>1
      <3>2. CASE x \notin Object
        <4>1. held' = held
          BY <1>4, <2>1, <3>2
        <4> QED
          BY <1>4, <3>2, <4>1
      <3> QED
        BY <3>1, <3>2
    <2>5. ObjectsTyped' /\ Alive'
      BY <1>4, <2>3, <2>4 DEF ObjectsTyped, Alive
    <2>6. ASSUME NEW o \in Object
          PROVE  count'[o] = held'[o] + InList(o)' + InVector(o) + InSets(o) + InMap(o) + lost[o]
      BY <2>2, <2>3, <2>4, Tallies
    <2> QED
      BY <1>3, <2>5, <2>6 DEF Accounted
  <1>7. ASSUME Free
        PROVE  /\ ObjectsTyped' /\ Alive'
               /\ \A o \in Object : count'[o] = Accounted(o)'
    <2>1. /\ count' = [o \in Object |-> count[o] - Cardinality({n \in Walked : data[n] = o})]
          /\ exists' = {o \in exists : \A n \in Walked : data[n] = o => count'[o] # 0}
          /\ held' = held
      BY <1>7 DEF Free
    <2>2. Walked = live /\ \A o \in Object : InList(o)' = 0
      BY <1>4, <1>7, ListCounts, AllWalked DEF Free
    <2>3. \A o \in Object : count'[o] = count[o] - InList(o)
      BY <2>1, <2>2 DEF InList
    <2>4. ASSUME NEW o \in Object
          PROVE  /\ count'[o] \in Nat
                 /\ count'[o] = held[o] + InVector(o) + InSets(o) + InMap(o) + lost[o]
      BY <2>3, Tallies
    <2>5. ASSUME NEW o \in Object
          PROVE  o \in exists' <=> count'[o] > 0
      <3>1. CASE \A n \in live : data[n] # o
        <4>1. {n \in live : data[n] = o} = {}
          BY <3>1
        <4>2. InList(o) = 0
          BY <4>1, FS_EmptySet DEF InList
        <4>3. count'[o] = count[o]
          BY <2>3, <4>2, Tallies
        <4>4. o \in exists' <=> o \in exists
          BY <2>1, <2>2, <3>1
        <4> QED
          BY <4>3, <4>4, Tallies
      <3>2. CASE \E n \in live : data[n] = o
        <4>1. o \in exists' <=> o \in exists /\ count'[o] # 0
          BY <2>1, <2>2, <3>2
        <4>2. count'[o] > 0 => count[o] > 0
          BY <2>3, Tallies
        <4> QED
          BY <2>4, <4>1, <4>2, Tallies
      <3> QED
        BY <3>1, <3>2
    <2>6. ObjectsTyped'
      <3>1. count' \in [Object -> Nat]
        BY <2>1, <2>4
      <3>2. exists' \subseteq Object
        BY <1>4, <2>1
      <3> QED
        BY <1>4, <2>1, <3>1, <3>2 DEF ObjectsTyped
    <2>7. Alive'
      BY <2>5 DEF Alive
    <2>8. ASSUME NEW o \in Object
          PROVE  count'[o] = held'[o] + InList(o)' + InVector(o) + InSets(o) + InMap(o) + lost[o]
      BY <2>1, <2>2, <2>4, Tallies
    <2> QED
      BY <1>3, <2>6, <2>7, <2>8 DEF Accounted
  <1> QED
    BY <1>2, <1>5, <1>6, <1>7 DEF ListStep, QueueSetAdd, CountsSound

\* The vector takes one or several, or drops one before it returns the object.
LEMMA VectorStepCounts ==
    ASSUME NodeAssumption, RoomAssumption, HashAssumption, NullAssumption, NullIsNoMap,
           Containing, ArraysSound', CountsSound, VectorStep
    PROVE  CountsSound'
  <1>1. UNCHANGED <<list, made, sets, map, lost>>
    BY DEF VectorStep, AddToVector, InsertIntoVector, RemoveFromVector, ExtendVector
  <1>2. made' \in Programs /\ lost' \in [Object -> Nat]
    BY <1>1 DEF CountsSound
  <1>3. \A o \in Object : /\ InList(o)' = InList(o)
                          /\ InSets(o)' = InSets(o) /\ InMap(o)' = InMap(o) /\ lost'[o] = lost[o]
    BY <1>1, TalliesKept
  <1>4. ObjectsTyped /\ Alive /\ ArraysSound /\ IsFiniteSet(DOMAIN sets)
    BY DEF CountsSound, Containing
  <1>5. ASSUME NEW x \in Object,
               AddToVector(x) \/ \E i \in 0 .. vector.n : InsertIntoVector(x, i)
        PROVE  /\ ObjectsTyped' /\ Alive'
               /\ \A o \in Object : count'[o] = Accounted(o)'
    <2>1. Incref(x)
      BY <1>5 DEF AddToVector, InsertIntoVector
    <2>2. /\ ObjectsTyped' /\ Alive' /\ held' = held
          /\ \A o \in Object : count'[o] = count[o] + IF x = o THEN 1 ELSE 0
      BY <1>4, <2>1, RefTaken
    <2>3. ASSUME NEW o \in Object
          PROVE  count'[o] = held'[o] + InList(o) + InVector(o)' + InSets(o) + InMap(o) + lost[o]
      <3>1. InVector(o)' = InVector(o) + IF x = o THEN 1 ELSE 0
        BY <1>4, <1>5, VectorCounts
      <3> QED
        BY <2>2, <3>1, Tallies
    <2> QED
      BY <1>3, <2>2, <2>3 DEF Accounted
  <1>6. ASSUME NEW i \in 0 .. vector.n - 1, RemoveFromVector(i)
        PROVE  /\ ObjectsTyped' /\ Alive'
               /\ \A o \in Object : count'[o] = Accounted(o)'
    <2> DEFINE x == vector.ptr[i]
    <2>1. Decref(x)
      BY <1>6 DEF RemoveFromVector
    <2>2. x \in Slot
      BY <1>4, VectorParts DEF ArraysSound
    <2>3. InVector(x) \in Nat /\ InVector(x) > 0
      BY <1>4, InTheVector
    <2>4. \A o \in Object : InVector(o)' = InVector(o) - IF x = o THEN 1 ELSE 0
      BY <1>4, <1>6, VectorCounts
    <2> HIDE DEF x
    <2>5. x \in Object => count[x] > 0
      BY <2>3, Tallies
    <2>6. /\ ObjectsTyped' /\ Alive' /\ held' = held
          /\ \A o \in Object : count'[o] = count[o] - IF x = o THEN 1 ELSE 0
      BY <1>4, <2>1, <2>2, <2>5, RefDropped
    <2>7. ASSUME NEW o \in Object
          PROVE  count'[o] = held'[o] + InList(o) + InVector(o)' + InSets(o) + InMap(o) + lost[o]
      BY <2>4, <2>6, Tallies
    <2> QED
      BY <1>3, <2>6, <2>7 DEF Accounted
  <1>7. ASSUME NEW s \in DOMAIN sets, ExtendVector(s)
        PROVE  /\ ObjectsTyped' /\ Alive'
               /\ \A o \in Object : count'[o] = Accounted(o)'
    <2> DEFINE M == Members(sets[s])
    <2>1. Range(Elements(sets[s])) = M /\ M \subseteq Object
      BY <1>4, ElementsOfSet DEF ArraysSound
    <2>2. IncrefAll(M)
      BY <1>7, <2>1 DEF ExtendVector
    <2>3. ASSUME NEW x \in M
          PROVE  x \in exists
      <3>1. InSets(x) > 0
        BY <1>4, InSomeSet
      <3> QED
        BY <2>1, <3>1, Tallies
    <2>4. \A o \in Object : InVector(o)' = InVector(o) + IF o \in M THEN 1 ELSE 0
      BY <1>4, <1>7, VectorCounts
    <2> HIDE DEF M
    <2>5. /\ ObjectsTyped' /\ Alive' /\ held' = held
          /\ \A o \in Object : count'[o] = count[o] + IF o \in M THEN 1 ELSE 0
      BY <1>4, <2>2, <2>3, RefsTaken
    <2>6. ASSUME NEW o \in Object
          PROVE  count'[o] = held'[o] + InList(o) + InVector(o)' + InSets(o) + InMap(o) + lost[o]
      BY <2>4, <2>5, Tallies
    <2> QED
      BY <1>3, <2>5, <2>6 DEF Accounted
  <1> QED
    BY <1>2, <1>5, <1>6, <1>7 DEF VectorStep, CountsSound

\* A set made of elements of others
LEMMA BecomesCounts ==
    ASSUME NodeAssumption, RoomAssumption, HashAssumption, NullAssumption, NullIsNoMap,
           Containing, CountsSound, UNCHANGED <<list, made>>, NEW s, NEW set, IsSet(set),
           s \in DOMAIN sets => Members(sets[s]) \subseteq Members(set),
           \A x \in Members(set) : \E t \in DOMAIN sets : x \in Members(sets[t]),
           Becomes(s, set)
    PROVE  CountsSound'
  <1>1. UNCHANGED <<list, made, vector, map, lost>>
    BY DEF Becomes
  <1>2. made' \in Programs /\ lost' \in [Object -> Nat]
    BY <1>1 DEF CountsSound
  <1>3. \A o \in Object : /\ InList(o)' = InList(o) /\ InVector(o)' = InVector(o)
                          /\ InMap(o)' = InMap(o) /\ lost'[o] = lost[o]
    BY <1>1, TalliesKept
  <1>4. ObjectsTyped /\ Alive /\ ArraysSound /\ IsFiniteSet(DOMAIN sets)
    BY DEF CountsSound, Containing
  <1> DEFINE S == {x \in Members(set) : s \in DOMAIN sets => x \notin Members(sets[s])}
  <1>5. IncrefAll(S)
    <2>1. Range(Elements(set)) = Members(set)
      BY ElementsOfSet
    <2>2. s \in DOMAIN sets => Range(Elements(sets[s])) = Members(sets[s])
      BY <1>4, ElementsOfSet DEF ArraysSound
    <2>3. S = Range(Elements(set)) \ (IF s \in DOMAIN sets THEN Range(Elements(sets[s])) ELSE {})
      BY <2>1, <2>2
    <2> HIDE DEF S
    <2> QED
      BY <2>3 DEF Becomes
  <1>6. ASSUME NEW x \in S
        PROVE  x \in exists
    <2>1. PICK t \in DOMAIN sets : x \in Members(sets[t])
      OBVIOUS
    <2>2. InSets(x) > 0 /\ x \in Object
      BY <1>4, <2>1, InSomeSet, ElementsOfSet DEF ArraysSound
    <2> QED
      BY <2>2, Tallies
  <1>7. \A o \in Object : InSets(o)' = InSets(o) + IF o \in S THEN 1 ELSE 0
    <2> SUFFICES ASSUME NEW o \in Object
                 PROVE  InSets(o)' = InSets(o) + IF o \in S THEN 1 ELSE 0
      OBVIOUS
    <2>1. InSets(o)' = InSets(o) + IF /\ o \in Members(set)
                                      /\ s \in DOMAIN sets => o \notin Members(sets[s])
                                   THEN 1 ELSE 0
      BY <1>4, SetCounts
    <2>2. o \in S <=> o \in Members(set) /\ (s \in DOMAIN sets => o \notin Members(sets[s]))
      OBVIOUS
    <2> HIDE DEF S
    <2> QED
      BY <2>1, <2>2
  <1> HIDE DEF S
  <1>8. /\ ObjectsTyped' /\ Alive' /\ held' = held
        /\ \A o \in Object : count'[o] = count[o] + IF o \in S THEN 1 ELSE 0
    BY <1>4, <1>5, <1>6, RefsTaken
  <1>9. ASSUME NEW o \in Object
        PROVE  count'[o] = held'[o] + InList(o) + InVector(o) + InSets(o)' + InMap(o) + lost[o]
    BY <1>7, <1>8, Tallies
  <1> QED
    BY <1>2, <1>3, <1>8, <1>9 DEF Accounted, CountsSound

\* Every operation on sets
LEMMA SetStepCounts ==
    ASSUME NodeAssumption, RoomAssumption, HashAssumption, NullAssumption, NullIsNoMap,
           Containing, CountsSound, SetStep
    PROVE  CountsSound'
  <1>1. UNCHANGED <<list, made>> /\ ArraysSound /\ IsFiniteSet(DOMAIN sets) /\ ObjectsTyped /\ Alive
    BY DEF SetStep, Containing, CountsSound
  <1>2. \A s \in DOMAIN sets : IsSet(sets[s])
    BY <1>1 DEF ArraysSound
  <1>3. ASSUME NEW s \in DOMAIN sets, NEW x \in Object, AddToSet(s, x)
        PROVE  CountsSound'
    <2>1. UNCHANGED <<vector, map, lost>> /\ Incref(x)
      BY <1>3 DEF AddToSet
    <2>2. \A o \in Object : /\ InList(o)' = InList(o) /\ InVector(o)' = InVector(o)
                            /\ InMap(o)' = InMap(o) /\ lost'[o] = lost[o]
      BY <1>1, <2>1, TalliesKept
    <2>3. /\ ObjectsTyped' /\ Alive' /\ held' = held
          /\ \A o \in Object : count'[o] = count[o] + IF x = o THEN 1 ELSE 0
      BY <1>1, <2>1, RefTaken
    <2>4. ASSUME NEW o \in Object
          PROVE  count'[o] = held'[o] + InList(o) + InVector(o) + InSets(o)' + InMap(o) + lost[o]
      <3>1. InSets(o)' = InSets(o) + IF x = o THEN 1 ELSE 0
        BY <1>1, <1>3, SetCounts
      <3> QED
        BY <2>3, <3>1, Tallies
    <2> QED
      BY <1>1, <2>1, <2>2, <2>3, <2>4 DEF Accounted, CountsSound
  <1>4. ASSUME NEW s \in DOMAIN sets, NEW x \in Object, RemoveFromSet(s, x)
        PROVE  CountsSound'
    <2> DEFINE k == IndexOf(sets[s], x)
               y == sets[s].ptr[k]
    <2>1. UNCHANGED <<vector, map, lost>> /\ Decref(y) /\ Inside(sets[s], x) # {}
      BY <1>4 DEF RemoveFromSet
    <2>2. k \in 0 .. sets[s].n - 1
      BY <1>2, <2>1, SetRemoveIs
    <2>3. y \in Members(sets[s]) /\ y \in Object
      BY <1>2, <2>2, ElementsOfSet DEF Members
    <2>4. InSets(y) > 0
      BY <1>1, <2>3, InSomeSet
    <2>5. \A o \in Object : InSets(o)' = InSets(o) - IF y = o THEN 1 ELSE 0
      BY <1>1, <1>4, SetCounts
    <2> HIDE DEF k, y
    <2>6. count[y] > 0 /\ y \in Slot
      BY <2>3, <2>4, Tallies DEF Slot
    <2>7. \A o \in Object : /\ InList(o)' = InList(o) /\ InVector(o)' = InVector(o)
                            /\ InMap(o)' = InMap(o) /\ lost'[o] = lost[o]
      BY <1>1, <2>1, TalliesKept
    <2>8. /\ ObjectsTyped' /\ Alive' /\ held' = held
          /\ \A o \in Object : count'[o] = count[o] - IF y = o THEN 1 ELSE 0
      BY <1>1, <2>1, <2>6, RefDropped
    <2>9. ASSUME NEW o \in Object
          PROVE  count'[o] = held'[o] + InList(o) + InVector(o) + InSets(o)' + InMap(o) + lost[o]
      BY <2>5, <2>8, Tallies
    <2> QED
      BY <1>1, <2>1, <2>7, <2>8, <2>9 DEF Accounted, CountsSound
  <1>5. ASSUME NEW s1 \in DOMAIN sets, NEW s2 \in DOMAIN sets,
               Becomes(s1, SetUnion(sets[s1], sets[s2]))
        PROVE  CountsSound'
    <2> DEFINE set == SetUnion(sets[s1], sets[s2])
    <2>1. /\ IsSet(set) /\ Members(sets[s1]) \subseteq Members(set)
          /\ Members(set) \subseteq Members(sets[s1]) \cup Members(sets[s2])
      BY <1>2, SetUnionIs
    <2>2. Becomes(s1, set)
      BY <1>5
    <2> HIDE DEF set
    <2>3. \A x \in Members(set) : \E t \in DOMAIN sets : x \in Members(sets[t])
      BY <2>1
    <2> QED
      BY <1>1, <2>1, <2>2, <2>3, BecomesCounts
  <1>6. ASSUME NEW s \in SetName \ DOMAIN sets, Becomes(s, SetNew)
        PROVE  CountsSound'
    <2>1. IsSet(SetNew) /\ Members(SetNew) = {}
      BY SetNewIs
    <2> QED
      BY <1>1, <1>6, <2>1, BecomesCounts
  <1>7. ASSUME NEW s \in SetName \ DOMAIN sets, NEW s1 \in DOMAIN sets,
               Becomes(s, SetDup(sets[s1]))
        PROVE  CountsSound'
    <2> DEFINE set == SetDup(sets[s1])
    <2>1. IsSet(set) /\ Members(set) \subseteq Members(sets[s1])
      BY <1>2, SetDupIs
    <2>2. Becomes(s, set)
      BY <1>7
    <2> HIDE DEF set
    <2>3. \A x \in Members(set) : \E t \in DOMAIN sets : x \in Members(sets[t])
      BY <2>1
    <2> QED
      BY <1>1, <2>1, <2>2, <2>3, BecomesCounts
  <1>8. ASSUME NEW s \in SetName \ DOMAIN sets, NEW s1 \in DOMAIN sets, NEW s2 \in DOMAIN sets,
               Becomes(s, SetIntersect(sets[s1], sets[s2]))
        PROVE  CountsSound'
    <2> DEFINE set == SetIntersect(sets[s1], sets[s2])
    <2>1. IsSet(set) /\ Members(set) \subseteq Members(sets[s1]) \cup Members(sets[s2])
      BY <1>2, SetIntersectIs
    <2>2. Becomes(s, set)
      BY <1>8
    <2> HIDE DEF set
    <2>3. \A x \in Members(set) : \E t \in DOMAIN sets : x \in Members(sets[t])
      BY <2>1
    <2> QED
      BY <1>1, <2>1, <2>2, <2>3, BecomesCounts
  <1> QED
    BY <1>3, <1>4, <1>5, <1>6, <1>7, <1>8 DEF SetStep

\* The map takes one, hands one over or loses it, or drops all.
LEMMA MapStepCounts ==
    ASSUME NodeAssumption, RoomAssumption, HashAssumption, NullAssumption, NullIsNoMap,
           Containing, CountsSound, MapStep
    PROVE  CountsSound'
  <1>1. /\ UNCHANGED <<list, made, vector, sets>> /\ map # NULL
        /\ ObjectsTyped /\ Alive /\ MapSound /\ lost \in [Object -> Nat]
        /\ exists \subseteq Object /\ count \in [Object -> Nat] /\ held \in [Object -> Nat]
    BY DEF MapStep, InsertIntoMap, RemoveFromMap, FreeMap, Containing, CountsSound, ObjectsTyped
  <1>2. \A o \in Object : /\ InList(o)' = InList(o) /\ InVector(o)' = InVector(o)
                          /\ InSets(o)' = InSets(o)
    BY <1>1, TalliesKept
  <1>3. made' \in Programs
    BY <1>1 DEF CountsSound
  <1>4. ASSUME NEW key \in Key, NEW x \in Object, InsertIntoMap(key, x)
        PROVE  CountsSound'
    <2> DEFINE y == MapGet(map, key)
    <2>1. /\ Incref(x)
          /\ lost' = [p \in Object |-> IF p = y THEN lost[p] + 1 ELSE lost[p]]
      BY <1>4 DEF InsertIntoMap
    <2>2. \A o \in Object : InMap(o)' = InMap(o) + (IF x = o THEN 1 ELSE 0)
                                                 - (IF y = o THEN 1 ELSE 0)
      BY <1>1, <1>4, MapCounts
    <2> HIDE DEF y
    <2>3. /\ lost' \in [Object -> Nat]
          /\ \A o \in Object : lost'[o] = lost[o] + IF y = o THEN 1 ELSE 0
      BY <1>1, <2>1
    <2>4. /\ ObjectsTyped' /\ Alive' /\ held' = held
          /\ \A o \in Object : count'[o] = count[o] + IF x = o THEN 1 ELSE 0
      BY <1>1, <2>1, RefTaken
    <2>5. ASSUME NEW o \in Object
          PROVE  count'[o] = held'[o] + InList(o) + InVector(o) + InSets(o) + InMap(o)' + lost'[o]
      <3> DEFINE a == IF x = o THEN 1 ELSE 0
                 b == IF y = o THEN 1 ELSE 0
      <3>1. a \in Int /\ b \in Int
        OBVIOUS
      <3>2. InMap(o)' = InMap(o) + a - b /\ lost'[o] = lost[o] + b /\ count'[o] = count[o] + a
        BY <2>2, <2>3, <2>4
      <3> HIDE DEF a, b
      <3> QED
        BY <2>4, <3>1, <3>2, Tallies
    <2> QED
      BY <1>2, <1>3, <2>3, <2>4, <2>5 DEF Accounted, CountsSound
  <1>5. ASSUME NEW key \in Key, RemoveFromMap(key)
        PROVE  CountsSound'
    <2> DEFINE y == MapGet(map, key)
    <2>1. /\ held' = [held EXCEPT ![y] = @ + 1]
          /\ UNCHANGED <<exists, count, lost>>
      BY <1>5 DEF RemoveFromMap
    <2>2. \A o \in Object : InMap(o)' = InMap(o) - IF y = o THEN 1 ELSE 0
      BY <1>1, <1>5, MapCounts
    <2>3. y \in Object
      BY <1>1, <1>5, MapSteps
    <2> HIDE DEF y
    <2>4. /\ held' \in [Object -> Nat]
          /\ \A o \in Object : held'[o] = IF y = o THEN held[o] + 1 ELSE held[o]
      BY <1>1, <2>1, <2>3
    <2>5. ObjectsTyped' /\ Alive' /\ lost' \in [Object -> Nat]
      BY <1>1, <2>1, <2>4 DEF ObjectsTyped, Alive
    <2>6. ASSUME NEW o \in Object
          PROVE  count'[o] = held'[o] + InList(o) + InVector(o) + InSets(o) + InMap(o)' + lost'[o]
      BY <2>1, <2>2, <2>4, Tallies
    <2> QED
      BY <1>2, <1>3, <2>5, <2>6 DEF Accounted, CountsSound
  <1>6. ASSUME FreeMap
        PROVE  CountsSound'
    <2>1. /\ map' = NULL /\ UNCHANGED <<held, lost>>
          /\ count' = [o \in Object |-> count[o] - Cardinality(Holding(map, o))]
          /\ exists' = {o \in exists : Holding(map, o) # {} => count'[o] > 0}
      BY <1>6 DEF FreeMap
    <2>2. \A o \in Object : InMap(o)' = 0
      BY <2>1 DEF InMap
    <2>3. \A o \in Object : count'[o] = count[o] - InMap(o)
            /\ InMap(o) = Cardinality(Holding(map, o))
      BY <1>1, <2>1, MapCounts
    <2>4. ASSUME NEW o \in Object
          PROVE  /\ count'[o] \in Nat
                 /\ count'[o] = held[o] + InList(o) + InVector(o) + InSets(o) + lost[o]
      BY <2>3, Tallies
    <2>5. ASSUME NEW o \in Object
          PROVE  o \in exists' <=> count'[o] > 0
      <3>1. CASE Holding(map, o) = {}
        <4>1. InMap(o) = 0
          BY <2>3, <3>1, FS_EmptySet
        <4>2. count'[o] = count[o]
          BY <2>3, <4>1, Tallies
        <4>3. o \in exists' <=> o \in exists
          BY <2>1, <3>1
        <4> QED
          BY <4>2, <4>3, Tallies
      <3>2. CASE Holding(map, o) # {}
        <4>1. o \in exists' <=> o \in exists /\ count'[o] > 0
          BY <2>1, <3>2
        <4>2. count'[o] > 0 => count[o] > 0
          BY <2>3, Tallies
        <4> QED
          BY <4>1, <4>2, Tallies
      <3> QED
        BY <3>1, <3>2
    <2>6. ObjectsTyped' /\ lost' \in [Object -> Nat]
      <3>1. count' \in [Object -> Nat]
        BY <2>1, <2>4
      <3>2. exists' \subseteq Object
        BY <1>1, <2>1
      <3> QED
        BY <1>1, <2>1, <3>1, <3>2 DEF ObjectsTyped
    <2>7. Alive'
      BY <2>5 DEF Alive
    <2>8. ASSUME NEW o \in Object
          PROVE  count'[o] = held'[o] + InList(o) + InVector(o) + InSets(o) + InMap(o)' + lost'[o]
      BY <2>1, <2>2, <2>4, Tallies
    <2> QED
      BY <1>2, <1>3, <2>6, <2>7, <2>8 DEF Accounted, CountsSound
  <1> QED
    BY <1>4, <1>5, <1>6 DEF MapStep

\* At the start nothing is held.
LEMMA CountsBegin ==
    ASSUME NodeAssumption, RoomAssumption, HashAssumption, NullAssumption, NullIsNoMap, Init
    PROVE  CountsSound /\ IsFiniteSet(DOMAIN sets)
  <1>1. /\ made \in Programs /\ lost = [o \in Object |-> 0]
        /\ exists = {} /\ count = [o \in Object |-> 0] /\ held = [o \in Object |-> 0]
        /\ live = {} /\ sets = <<>>
        /\ map = IF "map" \in made THEN MapNew ELSE NULL
    BY DEF Init, NoObjects, NewList
  <1>2. DOMAIN sets = {} /\ IsFiniteSet(DOMAIN sets)
    BY <1>1, FS_EmptySet
  <1>3. ASSUME NEW o \in Object
        PROVE  count[o] = Accounted(o)
    <2>1. InList(o) = 0
      <3>1. {n \in live : data[n] = o} = {}
        BY <1>1
      <3> QED
        BY <3>1, FS_EmptySet DEF InList
    <2>2. InSets(o) = 0
      <3>1. {s \in DOMAIN sets : o \in Range(Elements(sets[s]))} = {}
        BY <1>2
      <3> QED
        BY <3>1, FS_EmptySet DEF InSets
    <2>3. InVector(o) = 0
      <3>1. PICK opts \in {"REMOVE", "KEEP"} : vector = VectorNew(opts)
        BY DEF Init
      <3>2. vector.n = 0
        BY <3>1 DEF VectorNew
      <3>3. {i \in 0 .. vector.n - 1 : vector.ptr[i] = o} = {}
        BY <3>2
      <3> QED
        BY <3>3, FS_EmptySet DEF InVector
    <2>4. InMap(o) = 0
      <3>1. CASE map = NULL
        BY <3>1 DEF InMap
      <3>2. CASE map # NULL
        <4>1. MapSound /\ Bound = <<>>
          BY MapBegins
        <4>2. IsMap(map) /\ Counted(map)
          BY <3>2, <4>1 DEF MapSound
        <4>3. {k \in Key : MapGet(map, k) # NULL} = {}
          <5>1. DOMAIN Bound = {k \in Key : MapGet(map, k) # NULL}
            BY <3>2 DEF Bound
          <5>2. DOMAIN Bound = {}
            BY <4>1
          <5> QED
            BY <5>1, <5>2
        <4>4. Under(map, o) = {}
          BY <4>3 DEF Under, NullAssumption
        <4>5. Cardinality(Holding(map, o)) = Cardinality(Under(map, o))
          BY <4>2, HoldingIs
        <4>6. InMap(o) = Cardinality(Holding(map, o))
          BY <3>2 DEF InMap
        <4> QED
          BY <4>4, <4>5, <4>6, FS_EmptySet
      <3> QED
        BY <3>1, <3>2
    <2> QED
      BY <1>1, <2>1, <2>2, <2>3, <2>4 DEF Accounted
  <1>4. ObjectsTyped /\ Alive /\ lost \in [Object -> Nat]
    BY <1>1 DEF ObjectsTyped, Alive
  <1> QED
    BY <1>1, <1>2, <1>3, <1>4 DEF CountsSound

\* There are only as many sets as were made.
LEMMA SetsFinite ==
    ASSUME IsFiniteSet(DOMAIN sets), [Next]_vars
    PROVE  IsFiniteSet(DOMAIN sets')
  <1>1. CASE UserStep \/ ListStep \/ MapStep \/ VectorStep \/ UNCHANGED vars
    <2>1. UNCHANGED sets
      BY <1>1, OthersKeepArrays DEF VectorStep, AddToVector, InsertIntoVector, RemoveFromVector,
         ExtendVector
    <2> QED
      BY <2>1
  <1>2. CASE SetStep
    <2>1. ASSUME NEW s \in DOMAIN sets, NEW o \in Object, AddToSet(s, o) \/ RemoveFromSet(s, o)
          PROVE  DOMAIN sets' = DOMAIN sets
      BY <2>1 DEF AddToSet, RemoveFromSet
    <2>2. ASSUME NEW s, NEW set, Becomes(s, set)
          PROVE  DOMAIN sets' = DOMAIN sets \cup {s}
      BY <2>2 DEF Becomes
    <2>3. DOMAIN sets' = DOMAIN sets \/ \E s : DOMAIN sets' = DOMAIN sets \cup {s}
      BY <1>2, <2>1, <2>2 DEF SetStep
    <2> QED
      BY <2>3, FS_AddElement
  <1> QED
    BY <1>1, <1>2 DEF Next

\* The counts stay right whatever the program does.
LEMMA CountsStep ==
    ASSUME NodeAssumption, RoomAssumption, HashAssumption, NullAssumption, NullIsNoMap,
           Containing, ArraysSound', CountsSound, [Next]_vars
    PROVE  CountsSound'
  <1>1. CASE UNCHANGED vars
    <2>1. UNCHANGED <<exists, count, held, list, made, vector, sets, map, lost>>
      BY <1>1 DEF vars, objects, arrays
    <2>2. \A o \in Object : Accounted(o)' = Accounted(o)
      BY <2>1, TalliesKept DEF Accounted
    <2> QED
      BY <2>1, <2>2 DEF CountsSound, ObjectsTyped, Alive
  <1> QED
    BY <1>1, UserCounts, ListStepCounts, VectorStepCounts, SetStepCounts, MapStepCounts DEF Next

\* object.h and all the containers together: however objects pass through list,
\* vector, sets and map, every OBJECT_INCREF is matched by the place that holds the
\* object, and it is freed with the last of them, never before.
THEOREM CountsHold ==
    ASSUME NodeAssumption, RoomAssumption, HashAssumption, NullAssumption, NullIsNoMap
    PROVE  Spec => []CountsExact
  <1>1. Init => ArraysSound /\ MapSound /\ CountsSound /\ IsFiniteSet(DOMAIN sets)
    BY ArraysBegin, MapBegins, CountsBegin
  <1>2. ASSUME PointersSound, ArraysSound, MapSound, CountsSound, IsFiniteSet(DOMAIN sets),
               [Next]_vars
        PROVE  ArraysSound' /\ MapSound' /\ CountsSound' /\ IsFiniteSet(DOMAIN sets)'
    <2>1. ArraysSound' /\ MapSound' /\ IsFiniteSet(DOMAIN sets')
      BY <1>2, ArraysStep, MapStepKeeps, SetsFinite
    <2> QED
      BY <1>2, <2>1, CountsStep DEF Containing
  <1>3. PointersSound /\ MapSound /\ CountsSound => CountsExact
    <2> SUFFICES ASSUME PointersSound, MapSound, CountsSound
                 PROVE  CountsExact
      OBVIOUS
    <2>1. TypeOK
      BY DEF PointersSound, CountsSound, TypeOK
    <2>2. \A o \in Object :
             /\ count[o] = held[o] + InList(o) + InVector(o) + InSets(o) + InMap(o) + lost[o]
             /\ o \in exists <=> count[o] > 0
      BY DEF CountsSound, Alive, Accounted
    <2>3. ASSUME map # NULL
          PROVE  Range(AllKeys(map)) = DOMAIN Bound
      <3>1. Range(AllKeys(map)) = Keys(map)
        BY <2>3, AllKeysIs DEF MapSound
      <3> QED
        BY <2>3, <3>1 DEF Bound, Keys
    <2> QED
      BY <2>1, <2>2, <2>3 DEF CountsExact
  <1> QED
    BY <1>1, <1>2, <1>3, ListSound, PTL DEF Spec
===============================================================================
