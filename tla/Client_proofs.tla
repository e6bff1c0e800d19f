---------------------------- MODULE Client_proofs ----------------------------
(***************************************************************************)
(* The client: the list of conversations, the pages of one, the virtual    *)
(* list and the rendering of what streams in, for any number of chats,     *)
(* items, events, answers and requests.                                    *)
(***************************************************************************)
EXTENDS Library, Screen, VirtualList, Rendering, FiniteSetTheorems, FunctionTheorems, SequenceTheorems, WellFoundedInduction, TLAPS

-----------------------------------------------------------------------------
(* Sorting *)

\* "Less" is a strict total order on s, as a set of pairs.
Orders(less, s) ==
  /\ \A x \in s : <<x, x>> \notin less
  /\ \A x, y, z \in s : <<x, y>> \in less /\ <<y, z>> \in less => <<x, z>> \in less
  /\ \A x, y \in s : x # y => <<x, y>> \in less \/ <<y, x>> \in less

\* How many elements come before one, when the greatest come first.
Place(x, s, less) == Cardinality({y \in s : <<x, y>> \in less}) + 1

LEMMA PlacesGrow ==
  ASSUME NEW s, IsFiniteSet(s), NEW less, Orders(less, s), NEW x \in s, NEW y \in s, <<x, y>> \in less
  PROVE  /\ Place(x, s, less) \in 1..Cardinality(s) /\ Place(y, s, less) \in 1..Cardinality(s)
         /\ Place(y, s, less) < Place(x, s, less)
<1> DEFINE above(z) == {w \in s : <<z, w>> \in less}
<1>1. ASSUME NEW z \in s
      PROVE  /\ IsFiniteSet(above(z)) /\ Cardinality(above(z)) \in Nat /\ Cardinality(s) \in Nat
             /\ Cardinality(above(z)) < Cardinality(s)
  <2>1. above(z) \in SUBSET s /\ z \notin above(z)
    BY DEF Orders
  <2>2. /\ IsFiniteSet(above(z)) /\ Cardinality(above(z)) <= Cardinality(s)
        /\ Cardinality(s) = Cardinality(above(z)) => s = above(z)
    BY <2>1, FS_Subset
  <2>3. Cardinality(above(z)) \in Nat /\ Cardinality(s) \in Nat
    BY <2>2, FS_CardinalityType
  <2>4. Cardinality(s) # Cardinality(above(z))
    BY <2>1, <2>2
  <2> HIDE DEF above
  <2> QED
    BY <2>2, <2>3, <2>4
<1>2. above(y) \in SUBSET above(x) /\ y \in above(x) /\ y \notin above(y)
  BY DEF Orders
<1>3. /\ Cardinality(above(y)) <= Cardinality(above(x))
      /\ Cardinality(above(x)) = Cardinality(above(y)) => above(x) = above(y)
  <2>1. IsFiniteSet(above(x))
    BY <1>1
  <2> QED
    BY <1>2, <2>1, FS_Subset
<1>4. Cardinality(above(x)) # Cardinality(above(y))
  BY <1>2, <1>3
<1>5. Place(x, s, less) = Cardinality(above(x)) + 1 /\ Place(y, s, less) = Cardinality(above(y)) + 1
  BY DEF Place
<1>6. /\ Cardinality(above(x)) \in Nat /\ Cardinality(above(x)) < Cardinality(s)
      /\ Cardinality(above(y)) \in Nat /\ Cardinality(above(y)) < Cardinality(s) /\ Cardinality(s) \in Nat
  BY <1>1
<1> HIDE DEF above
<1> QED
  BY <1>3, <1>4, <1>5, <1>6

\* Each place is one element's.
LEMMA PlacesAre ==
  ASSUME NEW s, IsFiniteSet(s), NEW less, Orders(less, s)
  PROVE  /\ Cardinality(s) \in Nat
         /\ \A x \in s : Place(x, s, less) \in 1..Cardinality(s)
         /\ \A x, y \in s : Place(x, s, less) = Place(y, s, less) => x = y
         /\ \A i \in 1..Cardinality(s) : \E x \in s : Place(x, s, less) = i
<1> DEFINE n == Cardinality(s)
           place == [x \in s |-> Place(x, s, less)]
<1>1. n \in Nat /\ IsFiniteSet(1..n) /\ Cardinality(1..n) = n
  <2>1. n \in Nat
    BY FS_CardinalityType
  <2> HIDE DEF n
  <2> QED
    BY <2>1, FS_Interval
<1>2. \A x, y \in s : x # y => place[x] # place[y]
  <2> SUFFICES ASSUME NEW x \in s, NEW y \in s, x # y PROVE Place(x, s, less) # Place(y, s, less)
    OBVIOUS
  <2>1. <<x, y>> \in less \/ <<y, x>> \in less
    BY DEF Orders
  <2>2. \A i, j \in 1..n : i < j => i # j
    BY <1>1
  <2> HIDE DEF n
  <2>3. CASE <<x, y>> \in less
    BY <2>3, <2>2, PlacesGrow DEF n
  <2>4. CASE <<y, x>> \in less
    BY <2>4, <2>2, PlacesGrow DEF n
  <2> QED
    BY <2>1, <2>3, <2>4
<1>3. place \in [s -> 1..n]
  <2> SUFFICES ASSUME NEW x \in s PROVE Place(x, s, less) \in 1..n
    OBVIOUS
  <2> DEFINE above == {y \in s : <<x, y>> \in less}
  <2>1. above \in SUBSET s /\ x \notin above
    BY DEF Orders
  <2>2. /\ IsFiniteSet(above) /\ Cardinality(above) <= n /\ (n = Cardinality(above) => s = above)
    BY <2>1, FS_Subset
  <2>3. Cardinality(above) \in Nat
    BY <2>2, FS_CardinalityType
  <2>4. Place(x, s, less) = Cardinality(above) + 1 /\ n # Cardinality(above)
    BY <2>1, <2>2 DEF Place
  <2> HIDE DEF above, n
  <2> QED
    BY <1>1, <2>2, <2>3, <2>4
<1> HIDE DEF place, n
<1>4. place \in Injection(s, 1..n)
  BY <1>2, <1>3, Fun_IsInj DEF Injection
<1>5. place \in Surjection(s, 1..n)
  BY <1>1, <1>4, FS_Injection DEF n
<1>6. \A i \in 1..n : \E x \in s : place[x] = i
  BY <1>5 DEF Surjection
<1> QED
  BY <1>1, <1>2, <1>3, <1>6 DEF place, n

\* There is a sequence of the elements of a finite set, the greatest first.
LEMMA SortExists ==
  ASSUME NEW s, IsFiniteSet(s), NEW less, Orders(less, s)
  PROVE  \E t \in [1..Cardinality(s) -> s] :
           /\ \A x \in s : \E i \in 1..Cardinality(s) : t[i] = x
           /\ \A i, j \in 1..Cardinality(s) : i < j => t[i] # t[j] /\ <<t[i], t[j]>> \notin less
<1> DEFINE n == Cardinality(s)
           place == [x \in s |-> Place(x, s, less)]
<1>1. n \in Nat
  BY FS_CardinalityType
<1>2. \A x, y \in s : x # y => place[x] # place[y]
  BY PlacesAre
<1>3. place \in [s -> 1..n]
  BY PlacesAre
<1>5. \A i \in 1..n : \E x \in s : place[x] = i
  BY PlacesAre
<1> HIDE DEF place, n
<1> DEFINE t == [i \in 1..n |-> CHOOSE x \in s : place[x] = i]
<1>6. ASSUME NEW i \in 1..n PROVE t[i] \in s /\ place[t[i]] = i
  <2>1. \E x \in s : place[x] = i
    BY <1>5
  <2> QED
    BY <2>1
<1>7. t \in [1..n -> s]
  BY <1>6
<1>8. ASSUME NEW x \in s PROVE \E i \in 1..n : t[i] = x
  <2>1. place[x] \in 1..n
    BY <1>3
  <2>2. t[place[x]] \in s /\ place[t[place[x]]] = place[x]
    BY <2>1, <1>6
  <2> HIDE DEF t
  <2> QED
    BY <2>1, <2>2, <1>2
<1>9. ASSUME NEW i \in 1..n, NEW j \in 1..n, i < j PROVE t[i] # t[j] /\ <<t[i], t[j]>> \notin less
  <2>1. t[i] \in s /\ place[t[i]] = i /\ t[j] \in s /\ place[t[j]] = j
    BY <1>6
  <2> HIDE DEF t
  <2>2. t[i] # t[j]
    BY <2>1, <1>9
  <2>3. ASSUME <<t[i], t[j]>> \in less PROVE FALSE
    <3>1. Place(t[j], s, less) < Place(t[i], s, less)
      BY <2>1, <2>3, PlacesGrow
    <3>2. j < i
      BY <3>1, <2>1 DEF place
    <3> QED
      BY <3>2, <1>9
  <2> QED
    BY <2>2, <2>3
<1> HIDE DEF t
<1> QED
  BY <1>7, <1>8, <1>9 DEF n

-----------------------------------------------------------------------------
(* Keys and pages *)

ListKeys == Nat \X Nat \X Nat
HitKeys == Nat \X Nat

\* The comparison of two keys is a strict total order on their kind.
Compared(k) ==
  /\ \A x \in k : ~Below(x, x)
  /\ \A x, y, z \in k : Below(x, y) /\ Below(y, z) => Below(x, z)
  /\ \A x, y \in k : x # y => Below(x, y) \/ Below(y, x)

LEMMA ListKeysCompared == Compared(ListKeys)
<1>1. ASSUME NEW x \in ListKeys, NEW y \in ListKeys
      PROVE  /\ x[1] \in Nat /\ x[2] \in Nat /\ x[3] \in Nat /\ x = <<x[1], x[2], x[3]>>
             /\ y = <<y[1], y[2], y[3]>>
             /\ Below(x, y) <=> \/ x[1] < y[1]
                                \/ x[1] = y[1] /\ x[2] < y[2]
                                \/ x[1] = y[1] /\ x[2] = y[2] /\ x[3] < y[3]
  <2>1. /\ x[1] \in Nat /\ x[2] \in Nat /\ x[3] \in Nat /\ x = <<x[1], x[2], x[3]>> /\ DOMAIN x = 1..3
        /\ y = <<y[1], y[2], y[3]>>
    BY DEF ListKeys
  <2>2. 1..1 - 1 = {} /\ 1..2 - 1 = {1} /\ 1..3 - 1 = {1, 2} /\ 1..3 = {1, 2, 3}
    OBVIOUS
  <2>3. Below(x, y) <=> \E i \in {1, 2, 3} : x[i] < y[i] /\ \A j \in 1..i - 1 : x[j] = y[j]
    BY <2>1, <2>2 DEF Below
  <2>4. Below(x, y) <=> \/ x[1] < y[1] /\ \A j \in {} : x[j] = y[j]
                        \/ x[2] < y[2] /\ \A j \in {1} : x[j] = y[j]
                        \/ x[3] < y[3] /\ \A j \in {1, 2} : x[j] = y[j]
    BY <2>2, <2>3
  <2> QED
    BY <2>1, <2>4
<1>2. \A x \in ListKeys : ~Below(x, x)
  BY <1>1
<1>3. ASSUME NEW x \in ListKeys, NEW y \in ListKeys, NEW z \in ListKeys, Below(x, y), Below(y, z)
      PROVE  Below(x, z)
  <2>1. /\ x[1] \in Nat /\ x[2] \in Nat /\ x[3] \in Nat /\ y[1] \in Nat /\ y[2] \in Nat /\ y[3] \in Nat
        /\ z[1] \in Nat /\ z[2] \in Nat /\ z[3] \in Nat
    BY <1>1
  <2>2. \/ x[1] < y[1]
        \/ x[1] = y[1] /\ x[2] < y[2]
        \/ x[1] = y[1] /\ x[2] = y[2] /\ x[3] < y[3]
    BY <1>1, <1>3
  <2>3. \/ y[1] < z[1]
        \/ y[1] = z[1] /\ y[2] < z[2]
        \/ y[1] = z[1] /\ y[2] = z[2] /\ y[3] < z[3]
    BY <1>1, <1>3
  <2>4. \/ x[1] < z[1]
        \/ x[1] = z[1] /\ x[2] < z[2]
        \/ x[1] = z[1] /\ x[2] = z[2] /\ x[3] < z[3]
    BY <2>1, <2>2, <2>3
  <2> QED
    BY <1>1, <2>4
<1>4. ASSUME NEW x \in ListKeys, NEW y \in ListKeys, x # y PROVE Below(x, y) \/ Below(y, x)
  <2>1. /\ x[1] \in Nat /\ x[2] \in Nat /\ x[3] \in Nat /\ y[1] \in Nat /\ y[2] \in Nat /\ y[3] \in Nat
        /\ x[1] # y[1] \/ x[2] # y[2] \/ x[3] # y[3]
    BY <1>1, <1>4
  <2> QED
    BY <1>1, <2>1
<1> QED
  BY <1>2, <1>3, <1>4 DEF Compared

LEMMA HitKeysCompared == Compared(HitKeys)
<1>1. ASSUME NEW x \in HitKeys, NEW y \in HitKeys
      PROVE  /\ x[1] \in Nat /\ x[2] \in Nat /\ x = <<x[1], x[2]>> /\ y = <<y[1], y[2]>>
             /\ Below(x, y) <=> x[1] < y[1] \/ (x[1] = y[1] /\ x[2] < y[2])
  <2>1. x[1] \in Nat /\ x[2] \in Nat /\ x = <<x[1], x[2]>> /\ DOMAIN x = 1..2 /\ y = <<y[1], y[2]>>
    BY DEF HitKeys
  <2>2. 1..1 - 1 = {} /\ 1..2 - 1 = {1} /\ 1..2 = {1, 2}
    OBVIOUS
  <2>3. Below(x, y) <=> \E i \in {1, 2} : x[i] < y[i] /\ \A j \in 1..i - 1 : x[j] = y[j]
    BY <2>1, <2>2 DEF Below
  <2>4. Below(x, y) <=> \/ x[1] < y[1] /\ \A j \in {} : x[j] = y[j]
                        \/ x[2] < y[2] /\ \A j \in {1} : x[j] = y[j]
    BY <2>2, <2>3
  <2>5. Below(x, y) <=> \/ x[1] < y[1]
                        \/ x[1] = y[1] /\ x[2] < y[2]
    BY <2>1, <2>4
  <2> QED
    BY <2>1, <2>5
<1>2. \A x \in HitKeys : ~Below(x, x)
  BY <1>1
<1>3. ASSUME NEW x \in HitKeys, NEW y \in HitKeys, NEW z \in HitKeys, Below(x, y), Below(y, z)
      PROVE  Below(x, z)
  BY <1>1, <1>3
<1>4. ASSUME NEW x \in HitKeys, NEW y \in HitKeys, x # y PROVE Below(x, y) \/ Below(y, x)
  <2>1. /\ x[1] \in Nat /\ x[2] \in Nat /\ y[1] \in Nat /\ y[2] \in Nat
        /\ x = <<x[1], x[2]>> /\ y = <<y[1], y[2]>>
    BY <1>1
  <2>2. x[1] # y[1] \/ x[2] # y[2]
    BY <2>1, <1>4
  <2>3. /\ Below(x, y) <=> x[1] < y[1] \/ (x[1] = y[1] /\ x[2] < y[2])
        /\ Below(y, x) <=> y[1] < x[1] \/ (y[1] = x[1] /\ y[2] < x[2])
    BY <1>1
  <2> QED
    BY <2>1, <2>2, <2>3
<1> QED
  BY <1>2, <1>3, <1>4 DEF Compared

\* A key is in the pages read, from the first to the one the cursor leads to.
Passed(k, cursor) == cursor = Nobody \/ ~Below(k, cursor)
Ahead(k, cursor) == cursor = Nobody \/ Below(k, cursor)
Between(keys, cursor, next) == {k \in keys : Ahead(k, cursor) /\ Passed(k, next)}

\* ORDER BY does what it says.
LEMMA NewestIs ==
  ASSUME NEW k, Compared(k), NEW keys \in SUBSET k, IsFiniteSet(keys)
  PROVE  /\ Cardinality(keys) \in Nat
         /\ Newest(keys) \in [1..Cardinality(keys) -> keys]
         /\ \A x \in keys : \E i \in 1..Cardinality(keys) : Newest(keys)[i] = x
         /\ \A i, j \in 1..Cardinality(keys) : i < j =>
              Newest(keys)[i] # Newest(keys)[j] /\ Below(Newest(keys)[j], Newest(keys)[i])
<1> DEFINE n == Cardinality(keys)
           less == {p \in keys \X keys : Below(p[1], p[2])}
           Sorts(t) == \A i, j \in 1..n : i < j => t[i] # t[j] /\ ~Below(t[i], t[j])
<1>1. n \in Nat
  BY FS_CardinalityType
<1>2. \A x, y \in keys : <<x, y>> \in less <=> Below(x, y)
  OBVIOUS
<1>3. Orders(less, keys)
  <2> HIDE DEF less
  <2> QED
    BY <1>2 DEF Orders, Compared
<1>4. \E t \in [1..n -> keys] : Sorts(t)
  <2>1. PICK t \in [1..n -> keys] : \A i, j \in 1..n : i < j => t[i] # t[j] /\ <<t[i], t[j]>> \notin less
    BY <1>3, SortExists
  <2> HIDE DEF less
  <2>2. Sorts(t)
    BY <2>1, <1>2
  <2> QED
    BY <2>2
<1> DEFINE t == Newest(keys)
<1>5. t \in [1..n -> keys] /\ Sorts(t)
  <2>1. t = CHOOSE u \in [1..n -> keys] : Sorts(u)
    BY DEF Newest
  <2> HIDE DEF Sorts, t
  <2> QED
    BY <1>4, <2>1
<1> HIDE DEF t, less
<1>6. \A i, j \in 1..n : i < j => t[i] # t[j] /\ Below(t[j], t[i])
  BY <1>5 DEF Compared
<1>7. \A x \in keys : \E i \in 1..n : t[i] = x
  <2> DEFINE m == 1..n
  <2>1. \A i, j \in m : t[i] = t[j] => i = j
    BY <1>1, <1>5
  <2>2. t \in Injection(m, keys)
    BY <1>5, <2>1, Fun_IsInj
  <2>3. IsFiniteSet(m) /\ Cardinality(m) = n
    <3> HIDE DEF n
    <3> QED
      BY <1>1, FS_Interval
  <2> HIDE DEF m
  <2>4. t \in Surjection(m, keys)
    BY <2>2, <2>3, FS_Injection
  <2> QED
    BY <2>4 DEF Surjection, m
<1> QED
  BY <1>1, <1>5, <1>6, <1>7 DEF t

IsPage(page, keys, cursor) ==
  /\ page.keys \in Seq(keys)
  /\ \A i, j \in DOMAIN page.keys : page.keys[i] = page.keys[j] => i = j
  /\ page.next \in keys \cup {Nobody}
  /\ page.next # Nobody => Ahead(page.next, cursor)
  /\ ToSet(page.keys) = Between(keys, cursor, page.next)

\* A page holds, each once, the keys ahead of the one cursor that the next has passed.
LEMMA PagedIs ==
  ASSUME NEW k, Compared(k), Nobody \notin k, NEW keys \in SUBSET k, IsFiniteSet(keys),
         NEW cursor \in k \cup {Nobody}, NEW limit \in Nat \ {0}, NEW page, page = Paged(keys, cursor, limit)
  PROVE  /\ page.keys \in Seq(keys) /\ Len(page.keys) <= limit
         /\ \A i, j \in DOMAIN page.keys : page.keys[i] = page.keys[j] => i = j
         /\ page.next \in keys \cup {Nobody}
         /\ page.next # Nobody => Len(page.keys) = limit
         /\ page.next # Nobody => Ahead(page.next, cursor)
         /\ ToSet(page.keys) = Between(keys, cursor, page.next)
<1> DEFINE after == {x \in keys : cursor = Nobody \/ Below(x, cursor)}
           n == Cardinality(after)
           sorted == Newest(after)
           m == IF n < limit THEN n ELSE limit
<1>1. after \in SUBSET keys /\ after \in SUBSET k /\ IsFiniteSet(after)
  <2>1. after \in SUBSET keys
    OBVIOUS
  <2> QED
    BY <2>1, FS_Subset
<1>2. \A x \in keys : x \in after <=> Ahead(x, cursor)
  BY DEF Ahead
<1>3. page = [keys |-> SubSeq(sorted, 1, IF Len(sorted) < limit THEN Len(sorted) ELSE limit),
              next |-> IF Len(sorted) > limit
                       THEN Last(SubSeq(sorted, 1, IF Len(sorted) < limit THEN Len(sorted) ELSE limit)) ELSE Nobody]
  BY DEF Paged
<1> HIDE DEF after
<1>4. /\ n \in Nat /\ sorted \in [1..n -> after]
      /\ \A x \in after : \E i \in 1..n : sorted[i] = x
      /\ \A i, j \in 1..n : i < j => sorted[i] # sorted[j] /\ Below(sorted[j], sorted[i])
  BY <1>1, NewestIs
<1> HIDE DEF n, sorted
<1>5. sorted \in Seq(after) /\ Len(sorted) = n /\ DOMAIN sorted = 1..n
  BY <1>4
<1>6. /\ m \in Nat /\ m <= n /\ m <= limit /\ (n > limit => m = limit) /\ (n <= limit => m = n)
  BY <1>4
<1>7. page.keys = SubSeq(sorted, 1, m) /\ page.next = IF n > limit THEN Last(page.keys) ELSE Nobody
  BY <1>3, <1>5
<1> HIDE DEF m
<1>8. /\ page.keys \in Seq(after) /\ Len(page.keys) = m /\ DOMAIN page.keys = 1..m
      /\ \A i \in 1..m : page.keys[i] = sorted[i]
  <2>1. \A i \in 1..m : i \in 1..n
    BY <1>4, <1>6
  <2>2. page.keys = [i \in 1..m |-> sorted[i]]
    BY <1>4, <1>5, <1>6, <1>7
  <2>3. \A i \in 1..m : sorted[i] \in after
    BY <2>1, <1>4
  <2> QED
    BY <2>2, <2>3, <1>6
<1>9. page.next = IF n > limit THEN sorted[limit] ELSE Nobody
  <2> SUFFICES ASSUME n > limit PROVE page.next = sorted[limit]
    BY <1>7, <1>4
  <2>1. Last(page.keys) = page.keys[limit]
    BY <1>6, <1>8 DEF Last
  <2> QED
    BY <2>1, <1>6, <1>7, <1>8
<1>10. page.keys \in Seq(keys)
  BY <1>1, <1>8
<1>11. \A i, j \in 1..n : sorted[i] = sorted[j] => i = j
  BY <1>4
<1>12. ASSUME n > limit PROVE limit \in 1..n /\ sorted[limit] \in after /\ sorted[limit] # Nobody
  BY <1>12, <1>1, <1>4
<1>13. ASSUME NEW x \in keys, NEW i \in 1..m, sorted[i] = x PROVE Ahead(x, cursor) /\ Passed(x, page.next)
  <2>1. i \in 1..n /\ x \in after
    BY <1>13, <1>4, <1>6
  <2>2. CASE n > limit
    <3>1. i <= limit
      BY <2>2, <1>6
    <3>2. ~Below(x, sorted[limit])
      <4>1. CASE i = limit
        BY <4>1, <1>1, <1>13, <2>1 DEF Compared
      <4>2. CASE i < limit
        <5>1. Below(sorted[limit], x)
          BY <4>2, <1>4, <1>12, <1>13, <2>1, <2>2
        <5> QED
          BY <5>1, <1>1, <1>12, <2>1, <2>2 DEF Compared
      <4> QED
        BY <4>1, <4>2, <3>1, <1>6
    <3> QED
      BY <2>1, <2>2, <3>2, <1>2, <1>9 DEF Passed
  <2>3. CASE ~(n > limit)
    BY <2>1, <2>3, <1>2, <1>9 DEF Passed
  <2> QED
    BY <2>2, <2>3
<1>14. ASSUME NEW x \in keys, Ahead(x, cursor), Passed(x, page.next) PROVE \E i \in 1..m : sorted[i] = x
  <2>1. x \in after
    BY <1>2, <1>14
  <2>2. PICK i \in 1..n : sorted[i] = x
    BY <2>1, <1>4
  <2>3. i \in 1..m
    <3>1. CASE n > limit
      <4>1. page.next = sorted[limit] /\ page.next # Nobody
        BY <3>1, <1>9, <1>12
      <4>2. ~Below(x, sorted[limit])
        BY <4>1, <1>14 DEF Passed
      <4>3. ~(limit < i)
        BY <4>2, <3>1, <2>2, <1>4, <1>12
      <4> QED
        BY <4>3, <3>1, <1>6, <1>4
    <3>2. CASE ~(n > limit)
      BY <3>2, <1>4, <1>6
    <3> QED
      BY <3>1, <3>2
  <2> QED
    BY <2>2, <2>3
<1>15. page.next # Nobody => n > limit /\ page.next \in after
  BY <1>9, <1>12
<1> QED
  <2>1. \A i, j \in DOMAIN page.keys : page.keys[i] = page.keys[j] => i = j
    BY <1>4, <1>6, <1>8, <1>11
  <2>2. page.next \in keys \cup {Nobody}
    BY <1>1, <1>15
  <2>3. page.next # Nobody => Len(page.keys) = limit /\ Ahead(page.next, cursor)
    BY <1>1, <1>2, <1>6, <1>8, <1>15
  <2>4. ToSet(page.keys) = Between(keys, cursor, page.next)
    <3>1. ASSUME NEW x \in keys
          PROVE  (\E i \in DOMAIN page.keys : page.keys[i] = x) <=> Ahead(x, cursor) /\ Passed(x, page.next)
      BY <1>8, <1>13, <1>14
    <3>2. \A i \in DOMAIN page.keys : page.keys[i] \in keys
      BY <1>1, <1>4, <1>6, <1>8
    <3> QED
      BY <3>1, <3>2 DEF ToSet, Between
  <2> QED
    BY <2>1, <2>2, <2>3, <2>4, <1>6, <1>8, <1>10

-----------------------------------------------------------------------------
(* A page of a search *)

\* What one side's page leaves out is past the page that is made of both.
LEMMA LeftOut ==
  ASSUME Nobody \notin HitKeys, NEW side \in SUBSET HitKeys, IsFiniteSet(side),
         NEW both \in SUBSET HitKeys, IsFiniteSet(both),
         NEW cursor \in HitKeys \cup {Nobody}, NEW limit \in Nat \ {0},
         NEW half, half = Paged(side, cursor, limit + 1), ToSet(half.keys) \subseteq both,
         NEW page, page = Paged(both, Nobody, limit),
         NEW x \in side, Ahead(x, cursor), x \notin ToSet(half.keys)
  PROVE  ~Passed(x, page.next)
<1>1. limit + 1 \in Nat \ {0}
  OBVIOUS
<1>2. /\ half.keys \in Seq(side)
      /\ \A i, j \in DOMAIN half.keys : half.keys[i] = half.keys[j] => i = j
      /\ half.next \in side \cup {Nobody}
      /\ half.next # Nobody => Len(half.keys) = limit + 1
      /\ ToSet(half.keys) = Between(side, cursor, half.next)
  BY <1>1, HitKeysCompared, PagedIs
<1>3. /\ page.keys \in Seq(both) /\ Len(page.keys) <= limit
      /\ page.next \in both \cup {Nobody}
      /\ ToSet(page.keys) = Between(both, Nobody, page.next)
  <2>1. Nobody \in HitKeys \cup {Nobody}
    OBVIOUS
  <2> QED
    BY <2>1, HitKeysCompared, PagedIs
<1>4. half.next # Nobody /\ Below(x, half.next)
  BY <1>2 DEF Passed, Between
<1>5. half.next \in HitKeys /\ x \in HitKeys /\ Len(half.keys) = limit + 1
  BY <1>2, <1>4
<1>6. PICK i \in DOMAIN half.keys : \A j \in DOMAIN page.keys : page.keys[j] # half.keys[i]
  <2> SUFFICES ASSUME \A i \in DOMAIN half.keys : \E j \in DOMAIN page.keys : page.keys[j] = half.keys[i]
               PROVE  FALSE
    OBVIOUS
  <2> DEFINE n == Len(page.keys)
             f == [i \in 1..limit + 1 |-> CHOOSE j \in 1..n : page.keys[j] = half.keys[i]]
  <2>1. n \in Nat /\ DOMAIN page.keys = 1..n /\ DOMAIN half.keys = 1..limit + 1
    BY <1>2, <1>3, <1>5
  <2> HIDE DEF n
  <2>2. ASSUME NEW i \in 1..limit + 1 PROVE f[i] \in 1..n /\ page.keys[f[i]] = half.keys[i]
    BY <2>1
  <2>3. f \in [1..limit + 1 -> 1..n]
    BY <2>2
  <2>4. /\ IsFiniteSet(1..limit + 1) /\ Cardinality(1..limit + 1) = limit + 1
        /\ IsFiniteSet(1..n) /\ Cardinality(1..n) = n
    BY <2>1, FS_Interval
  <2>5. n < limit + 1
    BY <1>3, <2>1 DEF n
  <2> HIDE DEF f
  <2>6. PICK i, j \in 1..limit + 1 : i # j /\ f[i] = f[j]
    <3> DEFINE from == 1..limit + 1
               to == 1..n
    <3>1. /\ f \in [from -> to] /\ IsFiniteSet(from) /\ IsFiniteSet(to)
          /\ Cardinality(to) < Cardinality(from)
      BY <2>3, <2>4, <2>5
    <3> HIDE DEF from, to
    <3>2. \E i, j \in from : i # j /\ f[i] = f[j]
      BY <3>1, FS_PigeonHole
    <3> QED
      BY <3>2 DEF from
  <2>7. half.keys[i] = half.keys[j]
    BY <2>2, <2>6
  <2> QED
    BY <2>1, <2>6, <2>7, <1>2
<1> DEFINE t == half.keys[i]
<1>7. t \in side /\ t \in both /\ t \in HitKeys
  <2>1. t \in side
    BY <1>2
  <2> QED
    BY <2>1 DEF ToSet
<1>8. Passed(t, half.next)
  <2>1. t \in ToSet(half.keys)
    BY DEF ToSet
  <2> QED
    BY <2>1, <1>2 DEF Between
<1> HIDE DEF t
<1>9. Below(x, t)
  <2>1. t = half.next \/ Below(half.next, t)
    BY <1>4, <1>5, <1>7, <1>8, HitKeysCompared DEF Passed, Compared
  <2> QED
    BY <2>1, <1>4, <1>5, <1>7, HitKeysCompared DEF Compared
<1>10. page.next # Nobody /\ Below(t, page.next)
  <2>1. t \notin ToSet(page.keys)
    BY <1>6 DEF t, ToSet
  <2> QED
    BY <2>1, <1>3, <1>7 DEF Ahead, Passed, Between
<1>11. page.next \in HitKeys
  BY <1>3, <1>10
<1> QED
  BY <1>5, <1>7, <1>9, <1>10, <1>11, HitKeysCompared DEF Compared, Passed

Merged(a, b, cursor, limit) ==
  Paged(ToSet(Paged(a, cursor, limit + 1).keys) \cup ToSet(Paged(b, cursor, limit + 1).keys), Nobody, limit)

LEMMA MergedIs ==
  ASSUME Nobody \notin HitKeys, NEW a \in SUBSET HitKeys, IsFiniteSet(a), NEW b \in SUBSET HitKeys, IsFiniteSet(b),
         NEW cursor \in HitKeys \cup {Nobody}, NEW limit \in Nat \ {0},
         NEW page, page = Merged(a, b, cursor, limit)
  PROVE  IsPage(page, a \cup b, cursor)
<1> DEFINE left == Paged(a, cursor, limit + 1)
           right == Paged(b, cursor, limit + 1)
           both == ToSet(left.keys) \cup ToSet(right.keys)
<1>1. limit + 1 \in Nat \ {0}
  OBVIOUS
<1>2. /\ left.keys \in Seq(a)
      /\ ToSet(left.keys) = Between(a, cursor, left.next)
  BY <1>1, HitKeysCompared, PagedIs
<1>3. /\ right.keys \in Seq(b)
      /\ ToSet(right.keys) = Between(b, cursor, right.next)
  BY <1>1, HitKeysCompared, PagedIs
<1>4. page = Paged(both, Nobody, limit)
  BY DEF Merged
<1> DEFINE l == left
           r == right
<1>5. l = Paged(a, cursor, limit + 1) /\ r = Paged(b, cursor, limit + 1)
  OBVIOUS
<1> HIDE DEF left, right, both
<1>6. ToSet(left.keys) \subseteq a /\ ToSet(right.keys) \subseteq b /\ both \subseteq a \cup b
  BY <1>2, <1>3 DEF ToSet, both
<1>7. IsFiniteSet(both) /\ both \in SUBSET HitKeys
  <2>1. IsFiniteSet(a \cup b)
    BY FS_Union
  <2> QED
    BY <1>6, <2>1, FS_Subset
<1>8. /\ page.keys \in Seq(both)
      /\ \A i, j \in DOMAIN page.keys : page.keys[i] = page.keys[j] => i = j
      /\ page.next \in both \cup {Nobody}
      /\ ToSet(page.keys) = Between(both, Nobody, page.next)
  <2>1. Nobody \in HitKeys \cup {Nobody}
    OBVIOUS
  <2>2. page.keys \in Seq(both) /\ page.next \in both \cup {Nobody}
    BY <2>1, <1>4, <1>7, HitKeysCompared, PagedIs
  <2>3. \A i, j \in DOMAIN page.keys : page.keys[i] = page.keys[j] => i = j
    BY <2>1, <1>4, <1>7, HitKeysCompared, PagedIs
  <2>4. ToSet(page.keys) = Between(both, Nobody, page.next)
    BY <2>1, <1>4, <1>7, HitKeysCompared, PagedIs
  <2> QED
    BY <2>2, <2>3, <2>4
<1>9. \A y \in both : Ahead(y, cursor)
  BY <1>2, <1>3 DEF both, Between
<1>10. ASSUME NEW x \in a, x \notin both, Ahead(x, cursor) PROVE ~Passed(x, page.next)
  <2>1. x \notin ToSet(left.keys) /\ ToSet(left.keys) \subseteq both
    BY <1>10 DEF both
  <2> QED
    BY <2>1, <1>4, <1>5, <1>7, <1>10, LeftOut
<1>11. ASSUME NEW x \in b, x \notin both, Ahead(x, cursor) PROVE ~Passed(x, page.next)
  <2>1. x \notin ToSet(right.keys) /\ ToSet(right.keys) \subseteq both
    BY <1>11 DEF both
  <2> QED
    BY <2>1, <1>4, <1>5, <1>7, <1>11, LeftOut
<1>12. ASSUME NEW x \in a \cup b
       PROVE  x \in ToSet(page.keys) <=> Ahead(x, cursor) /\ Passed(x, page.next)
  <2>1. CASE x \in both
    BY <2>1, <1>8, <1>9 DEF Ahead, Between
  <2>2. CASE x \notin both
    BY <2>2, <1>8, <1>10, <1>11 DEF Between
  <2> QED
    BY <2>1, <2>2
<1>13. page.keys \in Seq(a \cup b)
  BY <1>6, <1>8
<1>14. page.next # Nobody => Ahead(page.next, cursor)
  BY <1>8, <1>9
<1>15. ToSet(page.keys) = Between(a \cup b, cursor, page.next)
  <2>1. ToSet(page.keys) \subseteq a \cup b
    BY <1>6, <1>8 DEF Between
  <2> QED
    BY <2>1, <1>12 DEF Between
<1> QED
  BY <1>6, <1>8, <1>13, <1>14, <1>15 DEF IsPage

-----------------------------------------------------------------------------
(* The state *)

ChatRows ==
  [pinned : BOOLEAN, archived : BOOLEAN, folder : Folders \cup {Nobody}, tags : SUBSET Tags,
   stamp : Nat, deleted : BOOLEAN]
ShelvesOK ==
  /\ parent \in [Folders -> Folders \cup {"root", "absent"}]
  /\ \A f \in Folders : parent[f] \in Folders => Exists(f) /\ Exists(parent[f])
  /\ tags \subseteq Tags
  /\ clock \in [now : Nat, changes : Nat]
  /\ chat \in [Chats -> SUBSET ChatRows]
  /\ \A c \in Chats : \A r \in chat[c] :
       /\ chat[c] = {r}
       /\ r.folder = Nobody \/ Exists(r.folder)
       /\ r.tags \subseteq tags
       /\ r.stamp <= clock.now

SidebarOK ==
  /\ sidebar \in [filter : Filters, items : Seq(Chats), cursor : ListKeys \cup {Nobody},
                  shown : SUBSET Filters, moved : SUBSET Chats,
                  request : [stage : {"none", "sent", "read"}, reset : BOOLEAN, filter : Filters \cup {Nobody},
                             cursor : ListKeys \cup {Nobody}, items : Seq(Chats),
                             next : ListKeys \cup {Nobody}, moved : SUBSET Chats]]
  /\ sidebar.request.stage # "none" => sidebar.request.filter \in Filters
  /\ IsFiniteSet(sidebar.shown)

WalkOK ==
  walk \in [on : BOOLEAN, cursor : HitKeys \cup {Nobody}, got : Seq(Nat), done : BOOLEAN, moved : SUBSET Chats]

\* A list that holds x just when "in", and never twice.
Occurs(x, s) == \E i \in DOMAIN s : s[i] = x
AtMostOnce(x, s) == \A i, j \in DOMAIN s : s[i] = x /\ s[j] = x => i = j
Once(x, s, in) == AtMostOnce(x, s) /\ (Occurs(x, s) <=> in)

\* What one list shows of a chat.
ShownFirst(c) ==
  \A f \in Filters : sidebar.shown = {f} =>
    Once(c, sidebar.items, Listed(c, f) /\ Passed(Key(c), sidebar.cursor))

\* What an answer that is under way holds of a chat.
AnswerHolds(c) ==
  LET r == sidebar.request
  IN Once(c, r.items, Listed(c, r.filter) /\ Ahead(Key(c), r.cursor) /\ Passed(Key(c), r.next))

SidebarAgrees ==
  /\ sidebar.shown = {} => sidebar.cursor = Nobody
  /\ \A c \in Chats \ sidebar.moved : ShownFirst(c)
  /\ sidebar.request.stage # "none" =>
       IF sidebar.request.reset THEN sidebar.request.cursor = Nobody
       ELSE sidebar.request.cursor = sidebar.cursor /\ sidebar.cursor # Nobody
  /\ sidebar.request.stage = "read" =>
       /\ \A c \in Chats \ (IF sidebar.request.reset THEN sidebar.request.moved ELSE sidebar.moved) : AnswerHolds(c)
       /\ sidebar.request.cursor # Nobody /\ sidebar.request.next # Nobody
            => Below(sidebar.request.next, sidebar.request.cursor)

TitleKey(c) == SubSeq(Key(c), 2, 3)

\* A walk has passed, each once, the hits above its cursor.
WalkAgrees ==
  /\ walk.done => walk.cursor = Nobody
  /\ walk.cursor = Nobody /\ ~walk.done => walk.got = <<>>
  /\ walk.cursor # Nobody \/ walk.done =>
       /\ \A h \in MessageHits : Once(h[2], walk.got, Passed(h, walk.cursor))
       /\ \A c \in Chats \ walk.moved : Once(c, walk.got, Live(c) /\ Passed(TitleKey(c), walk.cursor))

LibraryIInv == ShelvesOK /\ SidebarOK /\ WalkOK /\ SidebarAgrees /\ WalkAgrees

-----------------------------------------------------------------------------
(* Lists *)

LEMMA OnceIsSo ==
  ASSUME NEW x, NEW s, NEW in, NEW also, in <=> also, Once(x, s, in)
  PROVE  Once(x, s, also)
BY DEF Once

LEMMA OnceJoined ==
  ASSUME NEW d, NEW s \in Seq(d), NEW t \in Seq(d), NEW x, NEW in \in BOOLEAN, NEW also \in BOOLEAN,
         Once(x, s, in), Once(x, t, also), ~(in /\ also)
  PROVE  s \o t \in Seq(d) /\ Once(x, s \o t, in \/ also)
<1> DEFINE u == s \o t
           m == Len(s)
           n == Len(t)
<1>1. /\ m \in Nat /\ n \in Nat /\ DOMAIN s = 1..m /\ DOMAIN t = 1..n
      /\ u \in Seq(d) /\ Len(u) = m + n /\ DOMAIN u = 1..m + n
      /\ \A i \in 1..m + n : u[i] = IF i <= m THEN s[i] ELSE t[i - m]
  <2>1. /\ u \in Seq(d) /\ Len(u) = Len(s) + Len(t)
        /\ \A i \in 1..Len(s) + Len(t) : u[i] = IF i <= Len(s) THEN s[i] ELSE t[i - Len(s)]
    BY ConcatProperties
  <2> HIDE DEF u
  <2> QED
    BY <2>1
<1> HIDE DEF u, m, n
<1>2. /\ \A i, j \in 1..m : s[i] = x /\ s[j] = x => i = j
      /\ \A i, j \in 1..n : t[i] = x /\ t[j] = x => i = j
      /\ (\E i \in 1..m : s[i] = x) <=> in
      /\ (\E i \in 1..n : t[i] = x) <=> also
  BY <1>1 DEF Once, AtMostOnce, Occurs
<1>3. ASSUME NEW i \in 1..m + n, u[i] = x
      PROVE  (i \in 1..m /\ s[i] = x) \/ (i - m \in 1..n /\ t[i - m] = x)
  BY <1>1, <1>3
<1>4. ASSUME NEW i \in 1..m + n, NEW j \in 1..m + n, u[i] = x, u[j] = x PROVE i = j
  <2>1. CASE i \in 1..m /\ s[i] = x
    <3>1. j \in 1..m /\ s[j] = x
      BY <2>1, <1>2, <1>3, <1>4
    <3> QED
      BY <2>1, <3>1, <1>2
  <2>2. CASE i - m \in 1..n /\ t[i - m] = x
    <3>1. j - m \in 1..n /\ t[j - m] = x
      BY <2>2, <1>2, <1>3, <1>4
    <3>2. i - m = j - m
      BY <2>2, <3>1, <1>2
    <3> QED
      BY <3>2, <1>1
  <2> QED
    BY <2>1, <2>2, <1>3, <1>4
<1>5. ASSUME NEW i \in 1..m, s[i] = x PROVE \E k \in 1..m + n : u[k] = x
  <2>1. i \in 1..m + n /\ u[i] = x
    BY <1>1, <1>5
  <2> QED
    BY <2>1
<1>6. ASSUME NEW i \in 1..n, t[i] = x PROVE \E k \in 1..m + n : u[k] = x
  <2>1. i + m \in 1..m + n /\ ~(i + m <= m) /\ (i + m) - m = i
    BY <1>1
  <2>2. u[i + m] = x
    BY <2>1, <1>1, <1>6
  <2> QED
    BY <2>1, <2>2
<1>7. (\E i \in 1..m + n : u[i] = x) <=> in \/ also
  BY <1>2, <1>3, <1>5, <1>6
<1> QED
  BY <1>1, <1>4, <1>7 DEF Once, AtMostOnce, Occurs, u

\* What chats.filter leaves of a list.
LEMMA WithoutIs ==
  ASSUME NEW d, NEW s \in Seq(d), NEW gone
  PROVE  /\ Without(s, gone) \in Seq(d)
         /\ \A x : \A in \in BOOLEAN : x # gone /\ Once(x, s, in) => Once(x, Without(s, gone), in)
<1> DEFINE kept == {i \in DOMAIN s : s[i] # gone}
           m == Cardinality(kept)
           less == {p \in kept \X kept : p[2] < p[1]}
           at == [k \in 1..m |-> CHOOSE i \in kept : Cardinality({j \in kept : j < i}) = k - 1]
           t == Without(s, gone)
<1>1. DOMAIN s = 1..Len(s) /\ Len(s) \in Nat
  OBVIOUS
<1>2. IsFiniteSet(kept) /\ kept \subseteq 1..Len(s)
  <2>1. IsFiniteSet(1..Len(s)) /\ kept \in SUBSET (1..Len(s))
    BY <1>1, FS_Interval
  <2> QED
    BY <2>1, FS_Subset
<1>3. Orders(less, kept)
  <2> HIDE DEF kept
  <2>1. \A i, j \in kept : <<i, j>> \in less <=> j < i
    OBVIOUS
  <2>2. kept \subseteq Nat
    BY <1>2
  <2> HIDE DEF less
  <2> QED
    BY <2>1, <2>2 DEF Orders
<1>4. ASSUME NEW i \in kept PROVE Place(i, kept, less) = Cardinality({j \in kept : j < i}) + 1
  <2> HIDE DEF kept
  <2>1. {y \in kept : <<i, y>> \in less} = {j \in kept : j < i}
    OBVIOUS
  <2> QED
    BY <2>1 DEF Place
<1>5. /\ m \in Nat
      /\ \A i \in kept : Place(i, kept, less) \in 1..m
      /\ \A i, j \in kept : Place(i, kept, less) = Place(j, kept, less) => i = j
      /\ \A k \in 1..m : \E i \in kept : Place(i, kept, less) = k
  <2> HIDE DEF kept, less
  <2> QED
    BY <1>2, <1>3, PlacesAre, ZenonT(60)
<1>6. t = [k \in 1..m |-> s[at[k]]]
  <2>1. t = [k \in 1..m |-> s[CHOOSE i \in kept : Cardinality({j \in kept : j < i}) = k - 1]]
    BY DEF Without
  <2> HIDE DEF kept, m, t
  <2> QED
    BY <2>1
<1>7. ASSUME NEW i \in kept PROVE Cardinality({j \in kept : j < i}) \in Nat
  <2>1. {j \in kept : j < i} \in SUBSET kept
    OBVIOUS
  <2> QED
    BY <2>1, <1>2, FS_Subset, FS_CardinalityType
<1>8. ASSUME NEW k \in 1..m PROVE at[k] \in kept /\ Place(at[k], kept, less) = k
  <2>1. PICK i \in kept : Place(i, kept, less) = k
    BY <1>5
  <2>2. Cardinality({j \in kept : j < i}) = k - 1
    <3>1. Cardinality({j \in kept : j < i}) + 1 = k /\ Cardinality({j \in kept : j < i}) \in Nat
      BY <2>1, <1>4, <1>7
    <3> QED
      BY <3>1
  <2>3. at[k] \in kept /\ Cardinality({j \in kept : j < at[k]}) = k - 1
    <3> HIDE DEF kept, m
    <3> QED
      BY <2>2
  <2>4. Place(at[k], kept, less) = (k - 1) + 1
    BY <2>3, <1>4
  <2> QED
    BY <2>3, <2>4
<1>9. \A i \in kept : \E k \in 1..m : at[k] = i
  <2> SUFFICES ASSUME NEW i \in kept PROVE \E k \in 1..m : at[k] = i
    OBVIOUS
  <2> DEFINE k == Place(i, kept, less)
  <2>1. k \in 1..m
    BY <1>5
  <2>2. at[k] \in kept /\ Place(at[k], kept, less) = k
    BY <2>1, <1>8
  <2> HIDE DEF at, kept, less, m
  <2>3. at[k] = i
    BY <2>2, <1>5
  <2> QED
    BY <2>1, <2>3
<1>10. \A k, l \in 1..m : at[k] = at[l] => k = l
  <2> HIDE DEF at, kept, less, m
  <2> QED
    BY <1>8
<1>11. /\ t = [k \in 1..m |-> s[at[k]]] /\ \A k \in 1..m : at[k] \in 1..Len(s) /\ s[at[k]] # gone
       /\ \A i \in 1..Len(s) : s[i] # gone => i \in kept
  BY <1>1, <1>6, <1>8
<1> HIDE DEF at, kept, less, m, t
<1>12. t \in Seq(d) /\ DOMAIN t = 1..m
  <2>1. \A k \in 1..m : s[at[k]] \in d
    BY <1>1, <1>11
  <2> QED
    BY <2>1, <1>5, <1>11
<1>13. ASSUME NEW x, NEW in \in BOOLEAN, x # gone, Once(x, s, in) PROVE Once(x, t, in)
  <2>1. /\ \A i, j \in 1..Len(s) : s[i] = x /\ s[j] = x => i = j
        /\ (\E i \in 1..Len(s) : s[i] = x) <=> in
    BY <1>1, <1>13 DEF Once, AtMostOnce, Occurs
  <2>2. \A k, l \in 1..m : t[k] = x /\ t[l] = x => k = l
    BY <2>1, <1>10, <1>11
  <2>3. ASSUME NEW k \in 1..m, t[k] = x PROVE in
    BY <2>1, <2>3, <1>11
  <2>4. ASSUME in PROVE \E k \in 1..m : t[k] = x
    <3>1. PICK i \in 1..Len(s) : s[i] = x
      BY <2>1, <2>4
    <3>2. i \in kept
      BY <3>1, <1>11, <1>13
    <3>3. PICK k \in 1..m : at[k] = i
      BY <3>2, <1>9
    <3> QED
      BY <3>1, <3>3, <1>11
  <2> QED
    BY <2>2, <2>3, <2>4, <1>12 DEF Once, AtMostOnce, Occurs
<1> QED
  BY <1>12, <1>13 DEF t
LEMMA KeysAre ==
  ASSUME LibraryAssumption, ShelvesOK, NEW c \in Chats, NEW r \in chat[c]
  PROVE  /\ chat[c] = {r} /\ r \in ChatRows
         /\ Key(c) = <<IF r.pinned THEN 1 ELSE 0, r.stamp, c>> /\ Key(c) \in ListKeys /\ Key(c)[3] = c
         /\ TitleKey(c) = <<r.stamp, c>> /\ TitleKey(c) \in HitKeys /\ TitleKey(c)[2] = c
<1>1. chat[c] = {r} /\ r \in ChatRows
  BY DEF ShelvesOK
<1>2. r.stamp \in Nat /\ c \in Nat
  BY <1>1 DEF ChatRows, Chats, LibraryAssumption
<1>3. Key(c) = <<IF r.pinned THEN 1 ELSE 0, r.stamp, c>>
  <2>1. (CHOOSE s \in chat[c] : TRUE) = r
    BY <1>1
  <2> QED
    BY <2>1 DEF Key
<1>4. Key(c) \in ListKeys /\ Key(c)[3] = c
  BY <1>2, <1>3 DEF ListKeys
<1>5. TitleKey(c) = <<r.stamp, c>>
  <2> DEFINE p == IF r.pinned THEN 1 ELSE 0
  <2>1. p \in Nat
    OBVIOUS
  <2> HIDE DEF p
  <2>2. <<p, r.stamp, c>> \in Seq(Nat) /\ Len(<<p, r.stamp, c>>) = 3
    BY <2>1, <1>2
  <2>3. SubSeq(<<p, r.stamp, c>>, 2, 3) = <<r.stamp, c>>
    <3> DEFINE s == <<p, r.stamp, c>>
               t == SubSeq(s, 2, 3)
    <3>1. s \in Seq(Nat) /\ Len(s) = 3 /\ s[2] = r.stamp /\ s[3] = c
      BY <2>2
    <3> HIDE DEF s
    <3>2. t \in Seq(Nat) /\ Len(t) = 2 /\ t[1] = s[2] /\ t[2] = s[3]
      BY <3>1, SMTT(30)
    <3> HIDE DEF t
    <3>3. t = <<s[2], s[3]>>
      BY <3>2
    <3> QED
      BY <3>1, <3>3 DEF s, t
  <2> QED
    BY <2>3, <1>3 DEF TitleKey, p
<1> QED
  BY <1>1, <1>2, <1>3, <1>4, <1>5 DEF HitKeys

LEMMA FinitelyMany ==
  ASSUME NEW f, NEW s, IsFiniteSet(s)
  PROVE  IsFiniteSet({f[x] : x \in s})
<1> DEFINE g == [x \in s |-> f[x]]
           t == {f[x] : x \in s}
<1>1. g \in [s -> t]
  OBVIOUS
<1>2. \A y \in t : \E x \in s : g[x] = y
  OBVIOUS
<1> HIDE DEF g, t
<1>3. g \in Surjection(s, t)
  BY <1>1, <1>2 DEF Surjection
<1>4. IsFiniteSet(t)
  BY <1>3, FS_Surjection
<1> QED
  BY <1>4 DEF t

\* The ids of keys, each of them one key's, are in a page as the keys are.
LEMMA IdsOnce ==
  ASSUME NEW k, NEW t \in Seq(k), NEW n, NEW ids, DOMAIN ids = DOMAIN t, \A i \in DOMAIN t : ids[i] = t[i][n],
         \A i, j \in DOMAIN t : t[i] = t[j] => i = j,
         \A x, y \in k : x[n] = y[n] => x = y,
         NEW x \in k
  PROVE  Once(x[n], ids, x \in ToSet(t))
<1>1. \A i \in DOMAIN t : ids[i] = x[n] <=> t[i] = x
  OBVIOUS
<1>2. x \in ToSet(t) <=> \E i \in DOMAIN t : t[i] = x
  BY DEF ToSet
<1> QED
  BY <1>1, <1>2 DEF Once, AtMostOnce, Occurs

LEMMA NotOnce ==
  ASSUME NEW x, NEW s, NEW in, ~in, ~Occurs(x, s)
  PROVE  Once(x, s, in)
BY DEF Once, AtMostOnce, Occurs

LEMMA ListPageIs ==
  ASSUME LibraryAssumption, ShelvesOK, NEW filter, NEW cursor \in ListKeys \cup {Nobody},
         NEW page, page = ListPage(filter, cursor)
  PROVE  /\ page.items \in Seq(Chats)
         /\ page.next \in ListKeys \cup {Nobody}
         /\ page.next # Nobody => Ahead(page.next, cursor)
         /\ \A c \in Chats :
              Once(c, page.items, Listed(c, filter) /\ Ahead(Key(c), cursor) /\ Passed(Key(c), page.next))
<1> DEFINE listed == {d \in Chats : Listed(d, filter)}
           keys == {Key(c) : c \in listed}
           read == Paged(keys, cursor, PageSize)
<1>1. \A c \in listed : Key(c) \in ListKeys /\ Key(c)[3] = c
  BY KeysAre DEF Listed
<1>2. IsFiniteSet(keys)
  <2> DEFINE f == [c \in Chats |-> Key(c)]
             s == {f[x] : x \in listed}
  <2>1. keys = s
    OBVIOUS
  <2>2. IsFiniteSet(Chats)
    BY FS_Interval DEF Chats, LibraryAssumption
  <2>3. IsFiniteSet(listed)
    <3>1. listed \in SUBSET Chats
      OBVIOUS
    <3> QED
      BY <3>1, <2>2, FS_Subset
  <2> HIDE DEF f, listed
  <2>4. IsFiniteSet(s)
    BY <2>3, FinitelyMany
  <2> QED
    BY <2>1, <2>4
<1>3. keys \in SUBSET ListKeys /\ \A x, y \in keys : x[3] = y[3] => x = y
  BY <1>1
<1>4. /\ \A c \in Chats : Listed(c, filter) => Key(c) \in keys
      /\ \A c \in Chats : ~Listed(c, filter) => \A x \in keys : x[3] # c
      /\ \A x \in keys : x[3] \in Chats
  BY <1>1
<1>5. page = [items |-> [i \in DOMAIN read.keys |-> read.keys[i][3]], next |-> read.next]
  BY DEF ListPage
<1>6. Nobody \notin ListKeys /\ PageSize \in Nat \ {0}
  BY DEF LibraryAssumption, ListKeys
<1> DEFINE r == read
<1>7. r = Paged(keys, cursor, PageSize)
  OBVIOUS
<1>8. page.items = [i \in DOMAIN r.keys |-> r.keys[i][3]] /\ page.next = r.next
  BY <1>5
<1> HIDE DEF read, keys, listed
<1>9. /\ r.keys \in Seq(keys)
      /\ \A i, j \in DOMAIN r.keys : r.keys[i] = r.keys[j] => i = j
      /\ r.next \in keys \cup {Nobody}
      /\ r.next # Nobody => Ahead(r.next, cursor)
      /\ ToSet(r.keys) = Between(keys, cursor, r.next)
  <2> HIDE DEF r
  <2>1. r.keys \in Seq(keys) /\ r.next \in keys \cup {Nobody}
    BY <1>2, <1>3, <1>6, <1>7, ListKeysCompared, PagedIs
  <2>2. \A i, j \in DOMAIN r.keys : r.keys[i] = r.keys[j] => i = j
    BY <1>2, <1>3, <1>6, <1>7, ListKeysCompared, PagedIs
  <2>3. r.next # Nobody => Ahead(r.next, cursor)
    BY <1>2, <1>3, <1>6, <1>7, ListKeysCompared, PagedIs
  <2>4. ToSet(r.keys) = Between(keys, cursor, r.next)
    BY <1>2, <1>3, <1>6, <1>7, ListKeysCompared, PagedIs
  <2> QED
    BY <2>1, <2>2, <2>3, <2>4
<1> HIDE DEF r
<1>10. page.items \in Seq(Chats)
  BY <1>4, <1>8, <1>9
<1>11. /\ \A x \in keys : Once(x[3], page.items, x \in ToSet(r.keys))
       /\ \A id : (\A x \in keys : x[3] # id) => ~Occurs(id, page.items)
  <2>1. DOMAIN page.items = DOMAIN r.keys /\ \A i \in DOMAIN r.keys : page.items[i] = r.keys[i][3]
    BY <1>8
  <2> DEFINE t == r.keys
             ids == page.items
             n == 3
  <2>2. DOMAIN ids = DOMAIN t /\ \A i \in DOMAIN t : ids[i] = t[i][n]
    BY <2>1
  <2>3. /\ t \in Seq(keys) /\ \A i, j \in DOMAIN t : t[i] = t[j] => i = j
        /\ \A x, y \in keys : x[n] = y[n] => x = y
    BY <1>3, <1>9
  <2> HIDE DEF t, ids, n
  <2>4. \A x \in keys : Once(x[n], ids, x \in ToSet(t))
    BY <2>2, <2>3, IdsOnce
  <2>5. ASSUME NEW id, \A x \in keys : x[n] # id PROVE ~Occurs(id, ids)
    BY <2>2, <2>3, <2>5 DEF Occurs
  <2> QED
    BY <2>4, <2>5 DEF t, ids, n
<1>12. ASSUME NEW c \in Chats
       PROVE  Once(c, page.items, Listed(c, filter) /\ Ahead(Key(c), cursor) /\ Passed(Key(c), page.next))
  <2>1. CASE Listed(c, filter)
    <3>1. Key(c) \in keys /\ Key(c)[3] = c
      BY <2>1, <1>1, <1>4 DEF listed
    <3>2. Key(c) \in ToSet(r.keys) <=> Ahead(Key(c), cursor) /\ Passed(Key(c), page.next)
      BY <3>1, <1>8, <1>9 DEF Between
    <3>3. Once(c, page.items, Key(c) \in ToSet(r.keys))
      BY <3>1, <1>11
    <3> QED
      BY <2>1, <3>2, <3>3, OnceIsSo
  <2>2. CASE ~Listed(c, filter)
    <3>1. ~Occurs(c, page.items)
      BY <2>2, <1>4, <1>11
    <3> QED
      BY <2>2, <3>1, NotOnce
  <2> QED
    BY <2>1, <2>2
<1> QED
  BY <1>3, <1>8, <1>9, <1>10, <1>12

LEMMA SearchPageIs ==
  ASSUME LibraryAssumption, ShelvesOK, NEW cursor \in HitKeys \cup {Nobody},
         NEW page, page = SearchPage(cursor, PageSize),
         NEW ids, ids = [i \in DOMAIN page.keys |-> page.keys[i][2]]
  PROVE  /\ ids \in Seq(Nat)
         /\ page.next \in HitKeys \cup {Nobody}
         /\ page.next # Nobody => Ahead(page.next, cursor)
         /\ \A h \in MessageHits : Once(h[2], ids, Ahead(h, cursor) /\ Passed(h, page.next))
         /\ \A c \in Chats :
              Once(c, ids, Live(c) /\ Ahead(TitleKey(c), cursor) /\ Passed(TitleKey(c), page.next))
<1> DEFINE live == {d \in Chats : Live(d)}
           titles == {TitleKey(c) : c \in live}
           k == MessageHits \cup titles
<1>1. \A c \in live : TitleKey(c) \in HitKeys /\ TitleKey(c)[2] = c
  BY KeysAre DEF Live
<1>2. IsFiniteSet(titles)
  <2> DEFINE f == [c \in Chats |-> TitleKey(c)]
             s == {f[x] : x \in live}
  <2>1. titles = s
    OBVIOUS
  <2>2. IsFiniteSet(Chats)
    BY FS_Interval DEF Chats, LibraryAssumption
  <2>3. IsFiniteSet(live)
    <3>1. live \in SUBSET Chats
      OBVIOUS
    <3> QED
      BY <3>1, <2>2, FS_Subset
  <2> HIDE DEF f, live
  <2>4. IsFiniteSet(s)
    BY <2>3, FinitelyMany
  <2> QED
    BY <2>1, <2>4
<1>3. /\ titles \in SUBSET HitKeys /\ \A x \in titles : x[2] \in Chats
      /\ \A x, y \in titles : x[2] = y[2] => x = y
  BY <1>1
<1>4. /\ \A c \in Chats : Live(c) => TitleKey(c) \in titles /\ TitleKey(c)[2] = c
      /\ \A c \in Chats : ~Live(c) => \A x \in titles : x[2] # c
  BY <1>1
<1>5. /\ IsFiniteSet(MessageHits) /\ MessageHits \in SUBSET HitKeys
      /\ \A h \in MessageHits : h[2] \notin Chats
      /\ \A g, h \in MessageHits : g[2] = h[2] => g = h
  BY DEF LibraryAssumption, HitKeys
<1>6. \A h \in MessageHits : h[2] \notin Chats
  BY <1>5
<1>7. titles = TitleHits
  BY DEF TitleHits, TitleKey
<1> HIDE DEF titles, live
<1>8. \A x, y \in k : x[2] = y[2] => x = y
  BY <1>3, <1>5, <1>6
<1>9. Nobody \notin HitKeys /\ PageSize \in Nat \ {0}
  BY DEF LibraryAssumption, HitKeys
<1>10. page = Merged(MessageHits, titles, cursor, PageSize)
  BY <1>7 DEF SearchPage, Merged
<1>21. /\ Nobody \notin HitKeys /\ MessageHits \in SUBSET HitKeys /\ IsFiniteSet(MessageHits)
       /\ titles \in SUBSET HitKeys /\ IsFiniteSet(titles) /\ PageSize \in Nat \ {0}
  BY <1>2, <1>3, <1>5, <1>9
<1>22. IsPage(page, k, cursor)
  BY <1>10, <1>21, MergedIs
<1>11. page.keys \in Seq(k) /\ \A i, j \in DOMAIN page.keys : page.keys[i] = page.keys[j] => i = j
  BY <1>22 DEF IsPage
<1>12. page.next \in k \cup {Nobody} /\ (page.next # Nobody => Ahead(page.next, cursor))
  BY <1>22 DEF IsPage
<1>13. ToSet(page.keys) = Between(k, cursor, page.next)
  BY <1>22 DEF IsPage
<1>14. k \in SUBSET HitKeys
  BY <1>3, <1>5
<1> DEFINE l == k
<1> HIDE DEF k
<1>15. \A x \in k : x[2] \in Nat
  BY <1>14 DEF HitKeys
<1>16. ids \in Seq(Nat)
  BY <1>11, <1>15
<1>17. /\ \A x \in k : Once(x[2], ids, x \in ToSet(page.keys))
       /\ \A id : (\A x \in k : x[2] # id) => ~Occurs(id, ids)
  <2>1. DOMAIN ids = DOMAIN page.keys /\ \A i \in DOMAIN page.keys : ids[i] = page.keys[i][2]
    OBVIOUS
  <2> DEFINE t == page.keys
             n == 2
  <2>2. DOMAIN ids = DOMAIN t /\ \A i \in DOMAIN t : ids[i] = t[i][n]
    BY <2>1
  <2>3. /\ t \in Seq(k) /\ \A i, j \in DOMAIN t : t[i] = t[j] => i = j
        /\ \A x, y \in k : x[n] = y[n] => x = y
    BY <1>8, <1>11
  <2> HIDE DEF t, n
  <2>4. \A x \in k : Once(x[n], ids, x \in ToSet(t))
    BY <2>2, <2>3, IdsOnce
  <2>5. ASSUME NEW id, \A x \in k : x[n] # id PROVE ~Occurs(id, ids)
    <3>1. \A i \in DOMAIN t : t[i] \in k
      BY <2>3
    <3>2. ASSUME NEW i \in DOMAIN ids PROVE ids[i] # id
      <4>1. ids[i] = t[i][n] /\ t[i] \in k
        BY <2>2, <3>1
      <4>2. t[i][n] # id
        BY <2>5, <4>1
      <4> QED
        BY <4>1, <4>2
    <3> QED
      BY <3>2 DEF Occurs
  <2> QED
    BY <2>4, <2>5 DEF t, n
<1>18. ASSUME NEW x \in k PROVE Once(x[2], ids, Ahead(x, cursor) /\ Passed(x, page.next))
  <2>1. x \in ToSet(page.keys) <=> Ahead(x, cursor) /\ Passed(x, page.next)
    BY <1>13 DEF Between
  <2>2. Once(x[2], ids, x \in ToSet(page.keys))
    BY <1>17
  <2> QED
    BY <2>1, <2>2, OnceIsSo
<1>19. ASSUME NEW c \in Chats
       PROVE  Once(c, ids, Live(c) /\ Ahead(TitleKey(c), cursor) /\ Passed(TitleKey(c), page.next))
  <2>1. CASE Live(c)
    <3>1. TitleKey(c) \in k /\ TitleKey(c)[2] = c
      BY <2>1, <1>4 DEF k
    <3>2. Once(c, ids, Ahead(TitleKey(c), cursor) /\ Passed(TitleKey(c), page.next))
      BY <3>1, <1>18
    <3> QED
      BY <2>1, <3>2, OnceIsSo
  <2>2. CASE ~Live(c)
    <3>1. \A x \in k : x[2] # c
      BY <2>2, <1>4, <1>6 DEF k
    <3>2. ~Occurs(c, ids)
      BY <3>1, <1>17
    <3> QED
      BY <2>2, <3>2, NotOnce
  <2> QED
    BY <2>1, <2>2
<1>20. \A h \in MessageHits : h \in k
  BY DEF k
<1> QED
  BY <1>12, <1>14, <1>16, <1>18, <1>19, <1>20
LEMMA OnceCounts ==
  ASSUME NEW d, NEW s \in Seq(d), NEW x, NEW in \in BOOLEAN, Once(x, s, in)
  PROVE  Cardinality({i \in DOMAIN s : s[i] = x}) = IF in THEN 1 ELSE 0
<1> DEFINE at == {i \in DOMAIN s : s[i] = x}
<1>1. CASE in
  <2>1. PICK i \in DOMAIN s : s[i] = x
    BY <1>1 DEF Once, Occurs
  <2>2. at = {i}
    BY <2>1 DEF Once, AtMostOnce
  <2> QED
    BY <1>1, <2>2, FS_Singleton
<1>2. CASE ~in
  <2>1. at = {}
    BY <1>2 DEF Once, Occurs
  <2> QED
    BY <1>2, <2>1, FS_EmptySet
<1> QED
  BY <1>1, <1>2

-----------------------------------------------------------------------------
(* What the invariant says to the reader *)

LEMMA LibraryReads == LibraryAssumption /\ LibraryIInv => LibraryInv
<1> SUFFICES ASSUME LibraryAssumption, LibraryIInv PROVE LibraryInv
  OBVIOUS
<1>1. LibraryTypeOK
  <2>1. sidebar.filter \in Filters /\ sidebar.items \in Seq(Chats)
    BY DEF LibraryIInv, SidebarOK
  <2>2. ToSet(sidebar.items) \subseteq Chats
    BY <2>1 DEF ToSet
  <2> QED
    BY <2>1, <2>2 DEF LibraryIInv, ShelvesOK, LibraryTypeOK
<1>2. UnchangedChatsAreListedOnce
  <2> SUFFICES ASSUME NEW c \in Chats \ sidebar.moved, Cardinality(sidebar.shown) = 1
               PROVE  /\ Pages(c) <= 1
                      /\ \A filter \in sidebar.shown :
                           sidebar.cursor = Nobody /\ Listed(c, filter) => Pages(c) = 1
    BY DEF UnchangedChatsAreListedOnce
  <2>1. sidebar.items \in Seq(Chats) /\ sidebar.shown \in SUBSET Filters /\ IsFiniteSet(sidebar.shown)
    BY DEF LibraryIInv, SidebarOK
  <2>2. PICK f : sidebar.shown = {f}
    BY <2>1, FS_Singleton
  <2> DEFINE in == Listed(c, f) /\ Passed(Key(c), sidebar.cursor)
  <2>3. Once(c, sidebar.items, in) /\ in \in BOOLEAN
    BY <2>1, <2>2 DEF LibraryIInv, SidebarAgrees, ShownFirst
  <2>4. sidebar.cursor = Nobody /\ Listed(c, f) => in
    BY DEF Passed
  <2> HIDE DEF in
  <2>5. Pages(c) = IF in THEN 1 ELSE 0
    BY <2>1, <2>3, OnceCounts DEF Pages
  <2> QED
    BY <2>2, <2>4, <2>5
<1>3. SearchPagesJoin
  <2> SUFFICES ASSUME walk.done,
                      NEW id \in {h[2] : h \in MessageHits} \cup {c \in Chats \ walk.moved : Live(c)}
               PROVE  Cardinality({i \in DOMAIN walk.got : walk.got[i] = id}) = 1
    BY DEF SearchPagesJoin
  <2>1. walk.got \in Seq(Nat) /\ walk.cursor = Nobody
    BY DEF LibraryIInv, WalkOK, WalkAgrees
  <2>2. Once(id, walk.got, TRUE)
    <3>1. \A k : Passed(k, walk.cursor)
      BY <2>1 DEF Passed
    <3>2. CASE \E h \in MessageHits : id = h[2]
      <4>1. PICK h \in MessageHits : id = h[2]
        BY <3>2
      <4>2. Once(h[2], walk.got, Passed(h, walk.cursor))
        BY DEF LibraryIInv, WalkAgrees
      <4> QED
        BY <4>1, <4>2, <3>1 DEF Once
    <3>3. CASE id \in Chats \ walk.moved /\ Live(id)
      <4>1. Once(id, walk.got, Live(id) /\ Passed(TitleKey(id), walk.cursor))
        BY <3>3 DEF LibraryIInv, WalkAgrees
      <4> QED
        BY <4>1, <3>1, <3>3 DEF Once
    <3> QED
      BY <3>2, <3>3
  <2> DEFINE in == TRUE
  <2>3. in \in BOOLEAN /\ Once(id, walk.got, in)
    BY <2>2
  <2> HIDE DEF in
  <2>4. Cardinality({i \in DOMAIN walk.got : walk.got[i] = id}) = IF in THEN 1 ELSE 0
    BY <2>1, <2>3, OnceCounts
  <2> QED
    BY <2>4 DEF in
<1> QED
  BY <1>1, <1>2, <1>3 DEF LibraryInv

LEMMA LibraryStarts == LibraryAssumption /\ LibraryInit => LibraryIInv
<1> SUFFICES ASSUME LibraryAssumption, LibraryInit PROVE LibraryIInv
  OBVIOUS
<1>1. ShelvesOK
  <2>1. /\ parent \in [Folders -> Folders \cup {"root", "absent"}] /\ \A f \in Folders : parent[f] \notin Folders
        /\ tags \subseteq Tags /\ clock \in [now : Nat, changes : Nat]
    BY DEF LibraryInit, LibraryAssumption
  <2>2. chat \in [Chats -> SUBSET ChatRows] /\ \A c \in Chats : chat[c] = {}
    BY DEF LibraryInit
  <2> QED
    BY <2>1, <2>2 DEF ShelvesOK
<1>2. PICK filter \in Filters :
        sidebar = [filter |-> filter, items |-> <<>>, cursor |-> Nobody, shown |-> {},
                   moved |-> {}, request |-> NoRequest]
  BY DEF LibraryInit
<1>3. SidebarOK
  BY <1>2, FS_EmptySet DEF SidebarOK, NoRequest
<1>4. WalkOK /\ WalkAgrees
  BY DEF LibraryInit, WalkOK, WalkAgrees
<1>5. SidebarAgrees
  <2>1. sidebar.shown = {} /\ sidebar.cursor = Nobody /\ sidebar.request.stage = "none"
    BY <1>2 DEF NoRequest
  <2> QED
    BY <2>1 DEF SidebarAgrees, ShownFirst
<1> QED
  BY <1>1, <1>3, <1>4, <1>5 DEF LibraryIInv

-----------------------------------------------------------------------------
(* Folders, tags and chats *)

LEMMA TitleKeysAre ==
  ShelvesOK => \A c \in Chats : \A r \in chat[c] : TitleKey(c) = <<r.stamp, c>>
<1> QED
  BY LibraryAssumption, KeysAre

\* Listed and Key, of a row.
Shows(rows, filter) ==
  \E r \in rows : /\ ~r.deleted
                  /\ r.archived = filter.archived
                  /\ filter.folder \in {Nobody, r.folder}
                  /\ filter.tag = Nobody \/ filter.tag \in r.tags
KeyOf(rows, c) ==
  LET r == CHOOSE r \in rows : TRUE
  IN <<IF r.pinned THEN 1 ELSE 0, r.stamp, c>>

\* What the sidebar shows of the chats that did not change is as it was.
LEMMA SidebarKept ==
  ASSUME SidebarOK, SidebarAgrees, NEW hit \in SUBSET Chats,
         sidebar' = [sidebar EXCEPT !.moved = @ \cup hit, !.request.moved = @ \cup hit],
         \A c \in Chats \ hit : chat'[c] = chat[c]
  PROVE  SidebarOK' /\ SidebarAgrees'
<1> DEFINE r == sidebar.request
           q == [r EXCEPT !.moved = @ \cup hit]
<1>1. sidebar' = [sidebar EXCEPT !.moved = @ \cup hit, !.request = q]
  OBVIOUS
<1>2. /\ r \in [stage : {"none", "sent", "read"}, reset : BOOLEAN, filter : Filters \cup {Nobody},
                cursor : ListKeys \cup {Nobody}, items : Seq(Chats),
                next : ListKeys \cup {Nobody}, moved : SUBSET Chats]
      /\ r.stage # "none" => r.filter \in Filters
  BY DEF SidebarOK
<1>3. /\ q \in [stage : {"none", "sent", "read"}, reset : BOOLEAN, filter : Filters \cup {Nobody},
                cursor : ListKeys \cup {Nobody}, items : Seq(Chats),
                next : ListKeys \cup {Nobody}, moved : SUBSET Chats]
      /\ q.stage = r.stage /\ q.reset = r.reset /\ q.filter = r.filter /\ q.cursor = r.cursor
      /\ q.items = r.items /\ q.next = r.next /\ q.moved = r.moved \cup hit
  BY <1>2
<1> HIDE DEF q
<1>4. /\ sidebar'.filter = sidebar.filter /\ sidebar'.items = sidebar.items /\ sidebar'.cursor = sidebar.cursor
      /\ sidebar'.shown = sidebar.shown /\ sidebar'.moved = sidebar.moved \cup hit /\ sidebar'.request = q
  BY <1>1 DEF SidebarOK
<1>5. SidebarOK'
  <2>1. sidebar' \in [filter : Filters, items : Seq(Chats), cursor : ListKeys \cup {Nobody},
                  shown : SUBSET Filters, moved : SUBSET Chats,
                  request : [stage : {"none", "sent", "read"}, reset : BOOLEAN, filter : Filters \cup {Nobody},
                             cursor : ListKeys \cup {Nobody}, items : Seq(Chats),
                             next : ListKeys \cup {Nobody}, moved : SUBSET Chats]]
    <3>1. sidebar' \in [filter : Filters, items : Seq(Chats), cursor : ListKeys \cup {Nobody},
                  shown : SUBSET Filters, moved : SUBSET Chats,
                  request : {q}]
      <4>1. sidebar.moved \cup hit \in SUBSET Chats
        BY DEF SidebarOK
      <4>2. sidebar' = [filter |-> sidebar.filter, items |-> sidebar.items, cursor |-> sidebar.cursor,
                        shown |-> sidebar.shown, moved |-> sidebar.moved \cup hit, request |-> q]
        BY <1>1 DEF SidebarOK
      <4> QED
        BY <4>1, <4>2 DEF SidebarOK
    <3> QED
      BY <3>1, <1>3
  <2>2. IsFiniteSet(sidebar'.shown) /\ (sidebar'.request.stage # "none" => sidebar'.request.filter \in Filters)
    BY <1>2, <1>3, <1>4 DEF SidebarOK
  <2> QED
    BY <2>1, <2>2 DEF SidebarOK
<1>6. \A c \in Chats \ hit : Key(c)' = Key(c) /\ \A f : Listed(c, f)' <=> Listed(c, f)
  BY DEF Key, Listed
<1>7. \A c \in Chats \ sidebar'.moved : ShownFirst(c)'
  <2> SUFFICES ASSUME NEW c \in Chats \ sidebar'.moved PROVE ShownFirst(c)'
    OBVIOUS
  <2>1. c \in Chats \ sidebar.moved /\ c \in Chats \ hit
    BY <1>4
  <2>2. ShownFirst(c)
    BY <2>1 DEF SidebarAgrees
  <2>3. Key(c)' = Key(c) /\ \A f : Listed(c, f)' <=> Listed(c, f)
    BY <2>1, <1>6
  <2> QED
    BY <2>2, <2>3, <1>4 DEF ShownFirst, Once
<1>8. /\ sidebar'.shown = {} => sidebar'.cursor = Nobody
      /\ sidebar'.request.stage # "none" =>
           IF sidebar'.request.reset THEN sidebar'.request.cursor = Nobody
           ELSE sidebar'.request.cursor = sidebar'.cursor /\ sidebar'.cursor # Nobody
      /\ sidebar'.request.stage = "read" /\ sidebar'.request.cursor # Nobody /\ sidebar'.request.next # Nobody
            => Below(sidebar'.request.next, sidebar'.request.cursor)
  BY <1>3, <1>4 DEF SidebarAgrees
<1>9. ASSUME sidebar'.request.stage = "read",
             NEW c \in Chats \ (IF sidebar'.request.reset THEN sidebar'.request.moved ELSE sidebar'.moved)
      PROVE  AnswerHolds(c)'
  <2>1. c \in Chats \ (IF r.reset THEN r.moved ELSE sidebar.moved) /\ c \in Chats \ hit
    BY <1>3, <1>4, <1>9
  <2>2. AnswerHolds(c)
    BY <2>1, <1>3, <1>4, <1>9 DEF SidebarAgrees
  <2>3. chat'[c] = chat[c]
    BY <2>1
  <2>4. Once(c, r.items, Shows(chat[c], r.filter) /\ Ahead(KeyOf(chat[c], c), r.cursor)
                         /\ Passed(KeyOf(chat[c], c), r.next))
    BY <2>2 DEF AnswerHolds, Listed, Shows, Key, KeyOf
  <2>5. Once(c, q.items, Shows(chat'[c], q.filter) /\ Ahead(KeyOf(chat'[c], c), q.cursor)
                         /\ Passed(KeyOf(chat'[c], c), q.next))
    BY <2>3, <2>4, <1>3
  <2>6. Once(c, sidebar'.request.items,
             /\ Shows(chat'[c], sidebar'.request.filter)
             /\ Ahead(KeyOf(chat'[c], c), sidebar'.request.cursor)
             /\ Passed(KeyOf(chat'[c], c), sidebar'.request.next))
    BY <2>5, <1>4
  <2> QED
    BY <2>6 DEF AnswerHolds, Listed, Shows, Key, KeyOf
<1> QED
  BY <1>5, <1>7, <1>8, <1>9 DEF SidebarAgrees

LEMMA WalkKept ==
  ASSUME WalkOK, WalkAgrees, NEW hit \in SUBSET Chats, walk' = [walk EXCEPT !.moved = @ \cup hit],
         \A c \in Chats \ hit : (Live(c)' <=> Live(c)) /\ (Live(c) => TitleKey(c)' = TitleKey(c))
  PROVE  WalkOK' /\ WalkAgrees'
<1>1. WalkOK'
  BY DEF WalkOK
<1>2. /\ walk'.cursor = walk.cursor /\ walk'.got = walk.got /\ walk'.done = walk.done
      /\ walk'.moved = walk.moved \cup hit
  BY DEF WalkOK
<1>3. ASSUME walk.cursor # Nobody \/ walk.done, NEW c \in Chats \ walk'.moved
      PROVE  Once(c, walk.got, Live(c)' /\ Passed(TitleKey(c)', walk.cursor))
  <2>1. c \in Chats \ walk.moved /\ c \in Chats \ hit
    BY <1>2, <1>3
  <2>2. Once(c, walk.got, Live(c) /\ Passed(TitleKey(c), walk.cursor))
    BY <2>1, <1>3 DEF WalkAgrees
  <2>3. (Live(c)' <=> Live(c)) /\ (Live(c) => TitleKey(c)' = TitleKey(c))
    BY <2>1
  <2> QED
    BY <2>2, <2>3 DEF Once
<1>4. /\ walk'.done => walk'.cursor = Nobody
      /\ walk'.cursor = Nobody /\ ~walk'.done => walk'.got = <<>>
      /\ walk'.cursor # Nobody \/ walk'.done =>
           \A h \in MessageHits : Once(h[2], walk'.got, Passed(h, walk'.cursor))
  BY <1>2 DEF WalkAgrees
<1>5. walk'.cursor # Nobody \/ walk'.done =>
        \A c \in Chats \ walk'.moved : Once(c, walk'.got, Live(c)' /\ Passed(TitleKey(c)', walk'.cursor))
  BY <1>2, <1>3
<1> QED
  BY <1>1, <1>4, <1>5 DEF WalkAgrees
LEMMA TicksOn ==
  ASSUME ShelvesOK, NEW tick \in {0, 1}, Ticks(tick)
  PROVE  /\ clock' \in [now : Nat, changes : Nat] /\ clock'.now = clock.now + tick
         /\ clock.now \in Nat /\ clock.now <= clock'.now
<1>1. clock.now \in Nat /\ clock.changes \in Nat
  BY DEF ShelvesOK
<1>2. clock'.now = clock.now + tick /\ clock' = [now |-> clock.now + tick, changes |-> clock.changes + 1]
  BY DEF Ticks
<1> QED
  BY <1>1, <1>2

\* One row is as it should be after one change of it.
LEMMA RowChanges ==
  ASSUME LibraryAssumption, ShelvesOK, NEW tick \in {0, 1}, Ticks(tick), NEW c \in Chats,
         NEW row \in ChatRows, row.folder = Nobody \/ Exists(row.folder), row.tags \subseteq tags,
         row.stamp <= clock.now + tick, chat' = [chat EXCEPT ![c] = {row}], UNCHANGED <<parent, tags>>
  PROVE  ShelvesOK'
<1>1. /\ clock' \in [now : Nat, changes : Nat] /\ clock'.now = clock.now + tick
      /\ clock.now \in Nat /\ clock.now <= clock'.now
  BY TicksOn
<1>2. chat' \in [Chats -> SUBSET ChatRows] /\ \A d \in Chats : chat'[d] = IF d = c THEN {row} ELSE chat[d]
  BY DEF ShelvesOK
<1>3. ASSUME NEW d \in Chats, NEW r \in chat'[d]
      PROVE  /\ chat'[d] = {r}
             /\ r.folder = Nobody \/ Exists(r.folder)'
             /\ r.tags \subseteq tags'
             /\ r.stamp <= clock'.now
  <2>1. CASE d = c
    BY <2>1, <1>1, <1>2, <1>3 DEF Exists
  <2>2. CASE d # c
    <3>1. r \in chat[d] /\ chat'[d] = chat[d] /\ r \in ChatRows
      BY <2>2, <1>2, <1>3 DEF ShelvesOK
    <3>2. /\ chat[d] = {r} /\ (r.folder = Nobody \/ Exists(r.folder)) /\ r.tags \subseteq tags
          /\ r.stamp <= clock.now
      BY <3>1 DEF ShelvesOK
    <3>3. r.stamp \in Nat
      BY <3>1 DEF ChatRows
    <3>4. r.stamp <= clock'.now
      BY <3>2, <3>3, <1>1
    <3> QED
      BY <3>1, <3>2, <3>4 DEF Exists
  <2> QED
    BY <2>1, <2>2
<1>4. /\ parent' \in [Folders -> Folders \cup {"root", "absent"}]
      /\ \A f \in Folders : parent'[f] \in Folders => Exists(f)' /\ Exists(parent[f])'
      /\ tags' \subseteq Tags
  BY DEF ShelvesOK, Exists
<1> QED
  BY <1>1, <1>2, <1>3, <1>4 DEF ShelvesOK, Exists

\* ... and both lists still agree with the rest.
LEMMA ChatChanges ==
  ASSUME LibraryAssumption, LibraryIInv, NEW tick \in {0, 1}, Ticks(tick), NEW c \in Chats, Changed(c),
         NEW row \in ChatRows, row.folder = Nobody \/ Exists(row.folder), row.tags \subseteq tags,
         row.stamp <= clock.now + tick, chat' = [chat EXCEPT ![c] = {row}], UNCHANGED <<parent, tags>>
  PROVE  LibraryIInv'
<1>1. ShelvesOK'
  BY RowChanges DEF LibraryIInv
<1>2. {c} \in SUBSET Chats /\ \A d \in Chats \ {c} : chat'[d] = chat[d]
  BY DEF LibraryIInv, ShelvesOK
<1>3. SidebarOK' /\ SidebarAgrees'
  <2>1. sidebar' = [sidebar EXCEPT !.moved = @ \cup {c}, !.request.moved = @ \cup {c}]
    BY DEF Changed
  <2> QED
    BY <1>2, <2>1, SidebarKept DEF LibraryIInv
<1>4. WalkOK' /\ WalkAgrees'
  <2>1. walk' = [walk EXCEPT !.moved = @ \cup {c}]
    BY DEF Changed
  <2>2. \A d \in Chats \ {c} : (Live(d)' <=> Live(d)) /\ (Live(d) => TitleKey(d)' = TitleKey(d))
    BY <1>2 DEF Live, TitleKey, Key
  <2> QED
    BY <1>2, <2>1, <2>2, WalkKept DEF LibraryIInv
<1> QED
  BY <1>1, <1>3, <1>4 DEF LibraryIInv

LEMMA RewritesKeep ==
  ASSUME LibraryAssumption, LibraryIInv, NEW tick \in {0, 1}, NEW c \in Chats, NEW now, Rewrites(c, tick, now),
         NEW s \in ChatRows, now = {s}, s.folder = Nobody \/ Exists(s.folder), s.tags \subseteq tags
  PROVE  LibraryIInv'
<1>1. /\ Ticks(tick) /\ Changed(c) /\ UNCHANGED <<parent, tags>>
      /\ chat' = [chat EXCEPT ![c] = {[r EXCEPT !.stamp = clock.now + tick] : r \in now}]
  BY DEF Rewrites
<1>2. clock.now + tick \in Nat /\ clock.now + tick <= clock.now + tick
  BY DEF LibraryIInv, ShelvesOK
<1> DEFINE stamp == clock.now + tick
           row == [s EXCEPT !.stamp = stamp]
<1>3. chat' = [chat EXCEPT ![c] = {row}]
  <2>1. chat' = [chat EXCEPT ![c] = {[r EXCEPT !.stamp = stamp] : r \in now}]
    BY <1>1
  <2> HIDE DEF stamp
  <2>2. {[r EXCEPT !.stamp = stamp] : r \in now} = {row}
    OBVIOUS
  <2> QED
    BY <2>1, <2>2
<1> HIDE DEF stamp
<1>4. stamp \in Nat
  BY <1>2 DEF stamp
<1>5. row \in ChatRows /\ row.folder = s.folder /\ row.tags = s.tags /\ row.stamp = stamp
  BY <1>4 DEF ChatRows
<1> HIDE DEF row
<1>6. row.stamp <= clock.now + tick
  BY <1>2, <1>5 DEF stamp
<1> QED
  BY <1>1, <1>3, <1>5, <1>6, ChatChanges

LEMMA FoldersAreFolders ==
  ASSUME NEW f \in Shelf
  PROVE  f \in Folders \cup {Nobody} /\ (f = Nobody \/ Exists(f))
BY DEF Shelf

LEMMA CreatesChatKeeps ==
  ASSUME LibraryAssumption, LibraryIInv, NEW c \in Chats, NEW f, NEW tick \in {0, 1}, CreatesChat(c, f, tick)
  PROVE  LibraryIInv'
<1> DEFINE row == [pinned |-> FALSE, archived |-> FALSE, folder |-> f,
                   tags |-> {}, stamp |-> clock.now + tick, deleted |-> FALSE]
<1>1. /\ Ticks(tick) /\ Changed(c) /\ UNCHANGED <<parent, tags>> /\ f \in Shelf
      /\ chat' = [chat EXCEPT ![c] = {row}]
  BY DEF CreatesChat
<1>2. clock.now + tick \in Nat /\ clock.now + tick <= clock.now + tick
  BY DEF LibraryIInv, ShelvesOK
<1>3. f \in Folders \cup {Nobody} /\ (f = Nobody \/ Exists(f))
  BY <1>1, FoldersAreFolders
<1>4. /\ row \in ChatRows /\ (row.folder = Nobody \/ Exists(row.folder)) /\ row.tags \subseteq tags
      /\ row.stamp <= clock.now + tick
  BY <1>2, <1>3 DEF ChatRows
<1> HIDE DEF row
<1> QED
  BY <1>1, <1>4, ChatChanges

LEMMA RowOf ==
  ASSUME LibraryIInv, NEW c \in Chats, NEW r \in chat[c]
  PROVE  /\ chat[c] = {r} /\ r \in ChatRows /\ r.tags \subseteq tags /\ (r.folder = Nobody \/ Exists(r.folder))
         /\ r.stamp \in Nat /\ r.stamp <= clock.now /\ clock.now \in Nat
<1>1. r \in ChatRows /\ clock.now \in Nat
  BY DEF LibraryIInv, ShelvesOK
<1>2. r.stamp \in Nat
  BY <1>1 DEF ChatRows
<1> QED
  BY <1>1, <1>2 DEF LibraryIInv, ShelvesOK

LEMMA RewritingKeeps ==
  ASSUME LibraryAssumption, LibraryIInv, NEW c \in Chats, NEW tick \in {0, 1},
         \/ UsesChat(c, tick) \/ PinsChat(c, tick) \/ ArchivesChat(c, tick) \/ DeletesChat(c, tick)
         \/ \E f : FilesChat(c, f, tick)
  PROVE  LibraryIInv'
<1>1. PICK r \in chat[c] : TRUE
  BY DEF UsesChat, PinsChat, ArchivesChat, DeletesChat, FilesChat, Rewrites, Live
<1>2. chat[c] = {r} /\ r \in ChatRows /\ r.tags \subseteq tags /\ (r.folder = Nobody \/ Exists(r.folder))
  BY RowOf
<1>3. CASE UsesChat(c, tick)
  BY <1>2, <1>3, RewritesKeep DEF UsesChat
<1>4. CASE PinsChat(c, tick)
  <2> DEFINE s == [r EXCEPT !.pinned = ~@]
             now == {[q EXCEPT !.pinned = ~@] : q \in chat[c]}
  <2>1. s \in ChatRows /\ s.folder = r.folder /\ s.tags = r.tags
    BY <1>2 DEF ChatRows
  <2>2. now = {s} /\ Rewrites(c, tick, now)
    BY <1>2, <1>4 DEF PinsChat
  <2> HIDE DEF s, now
  <2> QED
    BY <1>2, <2>1, <2>2, RewritesKeep
<1>5. CASE ArchivesChat(c, tick)
  <2> DEFINE s == [r EXCEPT !.archived = ~@]
             now == {[q EXCEPT !.archived = ~@] : q \in chat[c]}
  <2>1. s \in ChatRows /\ s.folder = r.folder /\ s.tags = r.tags
    BY <1>2 DEF ChatRows
  <2>2. now = {s} /\ Rewrites(c, tick, now)
    BY <1>2, <1>5 DEF ArchivesChat
  <2> HIDE DEF s, now
  <2> QED
    BY <1>2, <2>1, <2>2, RewritesKeep
<1>6. CASE DeletesChat(c, tick)
  <2> DEFINE s == [r EXCEPT !.deleted = TRUE]
             now == {[q EXCEPT !.deleted = TRUE] : q \in chat[c]}
  <2>1. s \in ChatRows /\ s.folder = r.folder /\ s.tags = r.tags
    BY <1>2 DEF ChatRows
  <2>2. now = {s} /\ Rewrites(c, tick, now)
    BY <1>2, <1>6 DEF DeletesChat
  <2> HIDE DEF s, now
  <2> QED
    BY <1>2, <2>1, <2>2, RewritesKeep
<1>7. ASSUME NEW f, FilesChat(c, f, tick) PROVE LibraryIInv'
  <2> DEFINE s == [r EXCEPT !.folder = f]
             now == {[q EXCEPT !.folder = f] : q \in chat[c]}
  <2>1. f \in Folders \cup {Nobody} /\ (f = Nobody \/ Exists(f))
    BY <1>7, FoldersAreFolders DEF FilesChat
  <2>2. s \in ChatRows /\ s.folder = f /\ s.tags = r.tags
    BY <1>2, <2>1 DEF ChatRows
  <2>3. now = {s} /\ Rewrites(c, tick, now)
    BY <1>2, <1>7 DEF FilesChat
  <2> HIDE DEF s, now
  <2> QED
    BY <1>2, <2>1, <2>2, <2>3, RewritesKeep
<1> QED
  BY <1>3, <1>4, <1>5, <1>6, <1>7

LEMMA TaggingKeeps ==
  ASSUME LibraryAssumption, LibraryIInv, NEW c \in Chats, NEW t \in Tags, AttachesTag(c, t) \/ DetachesTag(c, t)
  PROVE  LibraryIInv'
<1>1. PICK r \in chat[c] : t \in tags /\ (Tagged(c, t, r.tags \cup {t}) \/ Tagged(c, t, r.tags \ {t}))
  BY DEF AttachesTag, DetachesTag, Tagged
<1>2. /\ chat[c] = {r} /\ r \in ChatRows /\ r.tags \subseteq tags /\ (r.folder = Nobody \/ Exists(r.folder))
      /\ r.stamp \in Nat /\ r.stamp <= clock.now /\ clock.now \in Nat
  BY RowOf
<1>3. PICK now \in {r.tags \cup {t}, r.tags \ {t}} : Tagged(c, t, now)
  BY <1>1
<1>4. now \subseteq tags /\ tags \subseteq Tags
  BY <1>1, <1>2 DEF LibraryIInv, ShelvesOK
<1>5. Ticks(0) /\ Changed(c) /\ UNCHANGED <<parent, tags>>
  BY <1>3 DEF Tagged
<1> DEFINE row == [r EXCEPT !.tags = now]
<1>6. chat' = [chat EXCEPT ![c] = {row}]
  <2>1. chat' = [chat EXCEPT ![c] = {[q EXCEPT !.tags = now] : q \in @}]
    BY <1>3 DEF Tagged
  <2>2. {[q EXCEPT !.tags = now] : q \in chat[c]} = {row}
    BY <1>2
  <2> QED
    BY <2>1, <2>2
<1>7. row \in ChatRows /\ row.folder = r.folder /\ row.tags = now /\ row.stamp = r.stamp
  BY <1>2, <1>4 DEF ChatRows
<1> HIDE DEF row
<1>8. row.stamp <= clock.now + 0 /\ 0 \in {0, 1} /\ row.tags \subseteq tags /\ (row.folder = Nobody \/ Exists(row.folder))
  BY <1>2, <1>4, <1>7
<1> QED
  BY <1>5, <1>6, <1>7, <1>8, ChatChanges

LEMMA ChatStepsKeep == ASSUME LibraryAssumption, LibraryIInv, ChatSteps PROVE LibraryIInv'
<1>1. PICK c \in Chats :
        \/ \E tick \in {0, 1} :
             \/ UsesChat(c, tick) \/ PinsChat(c, tick) \/ ArchivesChat(c, tick) \/ DeletesChat(c, tick)
             \/ \E f \in Folders \cup {Nobody} : CreatesChat(c, f, tick) \/ FilesChat(c, f, tick)
        \/ \E t \in Tags : AttachesTag(c, t) \/ DetachesTag(c, t)
  BY DEF ChatSteps
<1> QED
  BY <1>1, CreatesChatKeeps, RewritingKeeps, TaggingKeeps
\* Rows that differ in their folder or their tags only, of chats whose row may differ.
LEMMA TitlesStay ==
  ASSUME ShelvesOK, ShelvesOK',
         \A c \in Chats : \A r \in chat[c] : \E q \in chat'[c] : q.deleted = r.deleted /\ q.stamp = r.stamp,
         \A c \in Chats : \A q \in chat'[c] : \E r \in chat[c] : q.deleted = r.deleted /\ q.stamp = r.stamp
  PROVE  \A c \in Chats : (Live(c)' <=> Live(c)) /\ (Live(c) => TitleKey(c)' = TitleKey(c))
<1>1. \A c \in Chats : \A r \in chat[c] : TitleKey(c) = <<r.stamp, c>>
  BY TitleKeysAre
<1>2. \A c \in Chats : \A r \in chat'[c] : TitleKey(c)' = <<r.stamp, c>>
  <2>1. (ShelvesOK => \A c \in Chats : \A r \in chat[c] : TitleKey(c) = <<r.stamp, c>>)'
    BY TitleKeysAre, PTL
  <2> QED
    BY <2>1
<1> SUFFICES ASSUME NEW c \in Chats
             PROVE  (Live(c)' <=> Live(c)) /\ (Live(c) => TitleKey(c)' = TitleKey(c))
  OBVIOUS
<1>3. Live(c)' <=> Live(c)
  BY DEF Live
<1>4. ASSUME Live(c) PROVE TitleKey(c)' = TitleKey(c)
  <2>1. PICK r \in chat[c] : TRUE
    BY <1>4 DEF Live
  <2>2. PICK q \in chat'[c] : q.stamp = r.stamp
    OBVIOUS
  <2> QED
    BY <2>1, <2>2, <1>1, <1>2
<1> QED
  BY <1>3, <1>4

\* One row is written anew for each chat, and those that did not hit it are as they were.
LEMMA RowsChange ==
  ASSUME LibraryAssumption, LibraryIInv, ShelvesOK', NEW hit \in SUBSET Chats,
         sidebar' = [sidebar EXCEPT !.moved = @ \cup hit, !.request.moved = @ \cup hit], walk' = walk,
         \A c \in Chats \ hit : chat'[c] = chat[c],
         \A c \in Chats : \A r \in chat[c] : \E q \in chat'[c] : q.deleted = r.deleted /\ q.stamp = r.stamp,
         \A c \in Chats : \A q \in chat'[c] : \E r \in chat[c] : q.deleted = r.deleted /\ q.stamp = r.stamp
  PROVE  LibraryIInv'
<1>1. SidebarOK' /\ SidebarAgrees'
  BY SidebarKept DEF LibraryIInv
<1>2. \A c \in Chats : (Live(c)' <=> Live(c)) /\ (Live(c) => TitleKey(c)' = TitleKey(c))
  BY TitlesStay DEF LibraryIInv
<1>3. WalkOK' /\ WalkAgrees'
  <2> DEFINE none == {}
  <2>1. walk' = [walk EXCEPT !.moved = @ \cup none]
    BY DEF LibraryIInv, WalkOK
  <2>2. none \in SUBSET Chats
    OBVIOUS
  <2> HIDE DEF none
  <2> QED
    BY <1>2, <2>1, <2>2, WalkKept DEF LibraryIInv
<1> QED
  BY <1>1, <1>3 DEF LibraryIInv

\* What the cascade removes has, with a folder, all that is in it.
LEMMA SubtreeIs ==
  ASSUME NEW f \in Folders
  PROVE  /\ Subtree(f) \in SUBSET Folders /\ f \in Subtree(f)
         /\ \A h \in Folders : parent[h] \in Subtree(f) => h \in Subtree(f)
<1>1. \A s \in SUBSET Folders : f \in s /\ (\A h \in Folders : parent[h] \in s => h \in s) => f \in s
  OBVIOUS
<1>2. f \in Subtree(f)
  BY <1>1 DEF Subtree
<1>3. ASSUME NEW h \in Folders, parent[h] \in Subtree(f) PROVE h \in Subtree(f)
  <2> SUFFICES ASSUME NEW s \in SUBSET Folders, f \in s, \A g \in Folders : parent[g] \in s => g \in s
               PROVE  h \in s
    BY DEF Subtree
  <2>1. parent[h] \in s
    BY <1>3 DEF Subtree
  <2> QED
    BY <2>1
<1> QED
  BY <1>2, <1>3 DEF Subtree

LEMMA DeletesFolderKeeps ==
  ASSUME LibraryAssumption, LibraryIInv, NEW f \in Folders, DeletesFolder(f)
  PROVE  LibraryIInv'
<1> DEFINE gone == Subtree(f)
           hit == {c \in Chats : \E r \in chat[c] : r.folder \in gone}
<1>1. /\ Ticks(0) /\ chat' = Detached(gone) /\ tags' = tags /\ walk' = walk
      /\ parent' = [g \in Folders |-> IF g \in gone THEN "absent" ELSE parent[g]]
      /\ sidebar' = [sidebar EXCEPT !.moved = @ \cup hit, !.request.moved = @ \cup hit]
  BY DEF DeletesFolder
<1>2. gone \in SUBSET Folders /\ \A h \in Folders : parent[h] \in gone => h \in gone
  BY SubtreeIs
<1> HIDE DEF gone
<1>3. /\ clock' \in [now : Nat, changes : Nat] /\ clock'.now = clock.now
  <2>1. 0 \in {0, 1} /\ clock.now \in Nat /\ clock.now + 0 = clock.now
    BY DEF LibraryIInv, ShelvesOK
  <2> QED
    BY <2>1, <1>1, TicksOn DEF LibraryIInv
<1>4. /\ parent' \in [Folders -> Folders \cup {"root", "absent"}]
      /\ \A g \in Folders : Exists(g)' <=> Exists(g) /\ g \notin gone
      /\ \A g \in Folders : parent'[g] \in Folders => Exists(g)' /\ Exists(parent[g])'
  <2>1. /\ parent \in [Folders -> Folders \cup {"root", "absent"}] /\ "absent" \notin Folders
        /\ \A g \in Folders : parent[g] \in Folders => Exists(g) /\ Exists(parent[g])
    BY DEF LibraryIInv, ShelvesOK, LibraryAssumption
  <2>2. \A g \in Folders : Exists(g)' <=> Exists(g) /\ g \notin gone
    BY <1>1 DEF Exists
  <2>3. ASSUME NEW g \in Folders, parent'[g] \in Folders PROVE Exists(g)' /\ Exists(parent[g])'
    <3>1. g \notin gone /\ parent'[g] = parent[g]
      BY <2>1, <2>3, <1>1
    <3>2. Exists(g) /\ Exists(parent[g]) /\ parent[g] \notin gone
      BY <3>1, <2>1, <2>3, <1>2
    <3> QED
      BY <3>1, <3>2, <2>2, <2>3 DEF Exists
  <2>4. parent' \in [Folders -> Folders \cup {"root", "absent"}]
    BY <2>1, <1>1
  <2> QED
    BY <2>2, <2>3, <2>4
<1>5. ASSUME NEW c \in Chats, NEW r \in chat[c]
      PROVE  \E q \in ChatRows :
               /\ chat'[c] = {q} /\ q.folder = (IF r.folder \in gone THEN Nobody ELSE r.folder)
               /\ q.tags = r.tags /\ q.stamp = r.stamp /\ q.deleted = r.deleted
               /\ r.folder \notin gone => q = r
  <2>1. chat[c] = {r} /\ r \in ChatRows
    BY RowOf
  <2> DEFINE folder == IF r.folder \in gone THEN Nobody ELSE r.folder
             q == [r EXCEPT !.folder = folder]
  <2>2. chat'[c] = {[s EXCEPT !.folder = IF @ \in gone THEN Nobody ELSE @] : s \in chat[c]}
    BY <1>1 DEF Detached
  <2>3. chat'[c] = {q}
    BY <2>1, <2>2
  <2>4. folder \in Folders \cup {Nobody}
    BY <2>1 DEF ChatRows
  <2> HIDE DEF folder
  <2>5. /\ q \in ChatRows /\ q.folder = folder /\ q.tags = r.tags /\ q.stamp = r.stamp /\ q.deleted = r.deleted
        /\ folder = r.folder => q = r
    BY <2>1, <2>4 DEF ChatRows
  <2> QED
    BY <2>3, <2>5 DEF folder
<1>6. ASSUME NEW c \in Chats, chat[c] = {} PROVE chat'[c] = {}
  BY <1>1, <1>6 DEF Detached
<1>7. ASSUME NEW c \in Chats, NEW q \in chat'[c]
      PROVE  \E r \in chat[c] :
               /\ chat'[c] = {q} /\ q \in ChatRows /\ q.folder = (IF r.folder \in gone THEN Nobody ELSE r.folder)
               /\ q.tags = r.tags /\ q.stamp = r.stamp /\ q.deleted = r.deleted
  BY <1>5, <1>6, <1>7
<1>8. ShelvesOK'
  <2>1. chat' \in [Chats -> SUBSET ChatRows]
    <3>1. \A c \in Chats : chat'[c] \in SUBSET ChatRows
      BY <1>7
    <3>2. chat' = [c \in Chats |-> chat'[c]]
      BY <1>1 DEF Detached
    <3> QED
      BY <3>1, <3>2
  <2>2. ASSUME NEW c \in Chats, NEW q \in chat'[c]
        PROVE  chat'[c] = {q} /\ (q.folder = Nobody \/ Exists(q.folder)') /\ q.tags \subseteq tags' /\ q.stamp <= clock'.now
    <3>1. PICK r \in chat[c] :
               /\ chat'[c] = {q} /\ q \in ChatRows /\ q.folder = (IF r.folder \in gone THEN Nobody ELSE r.folder)
               /\ q.tags = r.tags /\ q.stamp = r.stamp
      BY <2>2, <1>7
    <3>2. r \in ChatRows /\ r.tags \subseteq tags /\ r.stamp <= clock.now /\ (r.folder = Nobody \/ Exists(r.folder))
      BY RowOf
    <3>3. r.folder \in Folders \cup {Nobody}
      BY <3>2 DEF ChatRows
    <3>4. q.folder = Nobody \/ Exists(q.folder)'
      BY <3>1, <3>2, <3>3, <1>4 DEF Exists
    <3> QED
      BY <3>1, <3>2, <3>4, <1>1, <1>3
  <2>3. tags' \subseteq Tags
    BY <1>1 DEF LibraryIInv, ShelvesOK
  <2> QED
    BY <2>1, <2>2, <2>3, <1>3, <1>4 DEF ShelvesOK, Exists
<1>9. \A c \in Chats \ hit : chat'[c] = chat[c]
  <2> SUFFICES ASSUME NEW c \in Chats \ hit PROVE chat'[c] = chat[c]
    OBVIOUS
  <2>1. \A r \in chat[c] : r.folder \notin gone /\ chat[c] = {r}
    BY RowOf
  <2>2. ASSUME NEW r \in chat[c] PROVE chat'[c] = chat[c]
    <3>1. \E q \in ChatRows : chat'[c] = {q} /\ (r.folder \notin gone => q = r)
      BY <1>5
    <3> QED
      BY <3>1, <2>1
  <2> QED
    BY <2>2, <1>6
<1>10. hit \in SUBSET Chats
  OBVIOUS
<1> HIDE DEF hit
<1>11. /\ \A c \in Chats : \A r \in chat[c] : \E q \in chat'[c] : q.deleted = r.deleted /\ q.stamp = r.stamp
       /\ \A c \in Chats : \A q \in chat'[c] : \E r \in chat[c] : q.deleted = r.deleted /\ q.stamp = r.stamp
  BY <1>5, <1>7
<1> QED
  BY <1>1, <1>8, <1>9, <1>10, <1>11, RowsChange
LEMMA DeletesTagKeeps ==
  ASSUME LibraryAssumption, LibraryIInv, NEW t \in Tags, DeletesTag(t)
  PROVE  LibraryIInv'
<1> DEFINE hit == {c \in Chats : \E r \in chat[c] : t \in r.tags}
<1>1. /\ Ticks(0) /\ chat' = [c \in Chats |-> {[r EXCEPT !.tags = @ \ {t}] : r \in chat[c]}]
      /\ tags' = tags \ {t} /\ walk' = walk /\ parent' = parent
      /\ sidebar' = [sidebar EXCEPT !.moved = @ \cup hit, !.request.moved = @ \cup hit]
  BY DEF DeletesTag
<1>2. /\ clock' \in [now : Nat, changes : Nat] /\ clock'.now = clock.now
  <2>1. 0 \in {0, 1} /\ clock.now \in Nat /\ clock.now + 0 = clock.now
    BY DEF LibraryIInv, ShelvesOK
  <2> QED
    BY <2>1, <1>1, TicksOn DEF LibraryIInv
<1>3. ASSUME NEW c \in Chats, NEW r \in chat[c]
      PROVE  \E q \in ChatRows :
               /\ chat'[c] = {q} /\ q.folder = r.folder
               /\ q.tags = r.tags \ {t} /\ q.stamp = r.stamp /\ q.deleted = r.deleted
               /\ t \notin r.tags => q = r
  <2>1. chat[c] = {r} /\ r \in ChatRows
    BY RowOf
  <2> DEFINE left == r.tags \ {t}
             q == [r EXCEPT !.tags = left]
  <2>2. chat'[c] = {[s EXCEPT !.tags = @ \ {t}] : s \in chat[c]}
    BY <1>1
  <2>3. chat'[c] = {q}
    BY <2>1, <2>2
  <2>4. left \in SUBSET Tags /\ (t \notin r.tags => left = r.tags)
    BY <2>1 DEF ChatRows
  <2> HIDE DEF left
  <2>5. /\ q \in ChatRows /\ q.tags = left /\ q.folder = r.folder /\ q.stamp = r.stamp /\ q.deleted = r.deleted
        /\ left = r.tags => q = r
    BY <2>1, <2>4 DEF ChatRows
  <2> HIDE DEF q
  <2> QED
    BY <2>3, <2>4, <2>5 DEF left
<1>4. ASSUME NEW c \in Chats, chat[c] = {} PROVE chat'[c] = {}
  BY <1>1, <1>4
<1>5. ASSUME NEW c \in Chats, NEW q \in chat'[c]
      PROVE  \E r \in chat[c] :
               /\ chat'[c] = {q} /\ q \in ChatRows /\ q.folder = r.folder
               /\ q.tags = r.tags \ {t} /\ q.stamp = r.stamp /\ q.deleted = r.deleted
  BY <1>3, <1>4, <1>5
<1>6. ShelvesOK'
  <2>1. chat' \in [Chats -> SUBSET ChatRows]
    <3>1. \A c \in Chats : chat'[c] \in SUBSET ChatRows
      BY <1>5
    <3>2. chat' = [c \in Chats |-> chat'[c]]
      BY <1>1
    <3> QED
      BY <3>1, <3>2
  <2>2. ASSUME NEW c \in Chats, NEW q \in chat'[c]
        PROVE  chat'[c] = {q} /\ (q.folder = Nobody \/ Exists(q.folder)') /\ q.tags \subseteq tags' /\ q.stamp <= clock'.now
    <3>1. PICK r \in chat[c] :
               /\ chat'[c] = {q} /\ q.folder = r.folder /\ q.tags = r.tags \ {t} /\ q.stamp = r.stamp
      BY <2>2, <1>5
    <3>2. r.tags \subseteq tags /\ r.stamp <= clock.now /\ (r.folder = Nobody \/ Exists(r.folder))
      BY RowOf
    <3>3. q.folder = Nobody \/ Exists(q.folder)'
      BY <3>1, <3>2, <1>1 DEF Exists
    <3> QED
      BY <3>1, <3>2, <3>3, <1>1, <1>2
  <2>3. /\ tags' \subseteq Tags /\ parent' \in [Folders -> Folders \cup {"root", "absent"}]
        /\ \A g \in Folders : parent'[g] \in Folders => Exists(g)' /\ Exists(parent[g])'
    BY <1>1 DEF LibraryIInv, ShelvesOK, Exists
  <2> QED
    BY <2>1, <2>2, <2>3, <1>2 DEF ShelvesOK, Exists
<1>7. \A c \in Chats \ hit : chat'[c] = chat[c]
  <2> SUFFICES ASSUME NEW c \in Chats \ hit PROVE chat'[c] = chat[c]
    OBVIOUS
  <2>1. \A r \in chat[c] : t \notin r.tags /\ chat[c] = {r}
    BY RowOf
  <2>2. ASSUME NEW r \in chat[c] PROVE chat'[c] = chat[c]
    <3>1. \E q \in ChatRows : chat'[c] = {q} /\ (t \notin r.tags => q = r)
      BY <1>3
    <3> QED
      BY <3>1, <2>1
  <2> QED
    BY <2>2, <1>4
<1>8. hit \in SUBSET Chats
  OBVIOUS
<1> HIDE DEF hit
<1>9. /\ \A c \in Chats : \A r \in chat[c] : \E q \in chat'[c] : q.deleted = r.deleted /\ q.stamp = r.stamp
      /\ \A c \in Chats : \A q \in chat'[c] : \E r \in chat[c] : q.deleted = r.deleted /\ q.stamp = r.stamp
  BY <1>3, <1>5
<1> QED
  BY <1>1, <1>6, <1>7, <1>8, <1>9, RowsChange

LEMMA SidebarStays ==
  ASSUME SidebarOK, SidebarAgrees, UNCHANGED <<chat, sidebar>>
  PROVE  SidebarOK' /\ SidebarAgrees'
BY SMTT(30) DEF SidebarOK, SidebarAgrees, ShownFirst, AnswerHolds, Listed, Key

LEMMA WalkStays == ASSUME WalkOK, WalkAgrees, UNCHANGED <<chat, walk>> PROVE WalkOK' /\ WalkAgrees'
BY DEF WalkOK, WalkAgrees, Live, TitleKey, Key

LEMMA ListsStay ==
  ASSUME LibraryIInv, ShelvesOK', UNCHANGED <<chat, sidebar, walk>>
  PROVE  LibraryIInv'
<1>1. SidebarOK' /\ SidebarAgrees'
  BY SidebarStays DEF LibraryIInv
<1>2. WalkOK' /\ WalkAgrees'
  BY WalkStays DEF LibraryIInv
<1> QED
  BY <1>1, <1>2 DEF LibraryIInv

LEMMA ShelvingKeeps ==
  ASSUME LibraryAssumption, LibraryIInv,
         \/ \E f \in Folders : \E p \in Folders \cup {"root"} : CreatesFolder(f, p) \/ MovesFolder(f, p)
         \/ \E t \in Tags : CreatesTag(t)
  PROVE  LibraryIInv'
<1>1. Ticks(0) /\ UNCHANGED <<chat, sidebar, walk>>
  BY DEF CreatesFolder, MovesFolder, CreatesTag, Shelves
<1>2. /\ clock' \in [now : Nat, changes : Nat] /\ clock'.now = clock.now
  <2>1. 0 \in {0, 1} /\ clock.now \in Nat /\ clock.now + 0 = clock.now
    BY DEF LibraryIInv, ShelvesOK
  <2> QED
    BY <2>1, <1>1, TicksOn DEF LibraryIInv
<1>3. /\ parent' \in [Folders -> Folders \cup {"root", "absent"}] /\ tags' \subseteq Tags /\ tags \subseteq tags'
      /\ \A g \in Folders : Exists(g) => Exists(g)'
      /\ \A g \in Folders : parent'[g] \in Folders => Exists(g)' /\ Exists(parent[g])'
  <2>1. /\ parent \in [Folders -> Folders \cup {"root", "absent"}] /\ "absent" \notin Folders /\ "root" \notin Folders
        /\ \A g \in Folders : parent[g] \in Folders => Exists(g) /\ Exists(parent[g])
        /\ tags \subseteq Tags
    BY DEF LibraryIInv, ShelvesOK, LibraryAssumption
  <2>2. ASSUME NEW f \in Folders, NEW p \in Folders \cup {"root"}, p \in Parents, parent' = [parent EXCEPT ![f] = p]
        PROVE  /\ parent' \in [Folders -> Folders \cup {"root", "absent"}]
               /\ \A g \in Folders : Exists(g) => Exists(g)'
               /\ \A g \in Folders : parent'[g] \in Folders => Exists(g)' /\ Exists(parent[g])'
    <3>1. p # "absent" /\ (p \in Folders => Exists(p))
      BY <2>1, <2>2 DEF Parents
    <3>2. parent' \in [Folders -> Folders \cup {"root", "absent"}] /\ \A g \in Folders : parent'[g] = IF g = f THEN p ELSE parent[g]
      BY <2>1, <2>2
    <3>3. \A g \in Folders : Exists(g)' <=> Exists(g) \/ g = f
      BY <3>1, <3>2 DEF Exists
    <3>4. ASSUME NEW g \in Folders, parent'[g] \in Folders PROVE Exists(g)' /\ Exists(parent[g])'
      <4>1. CASE g = f
        BY <4>1, <3>1, <3>2, <3>3, <3>4 DEF Exists
      <4>2. CASE g # f
        BY <4>2, <2>1, <3>2, <3>3, <3>4 DEF Exists
      <4> QED
        BY <4>1, <4>2
    <3> QED
      BY <3>2, <3>3, <3>4
  <2>3. ASSUME NEW f \in Folders, NEW p \in Folders \cup {"root"}, CreatesFolder(f, p) \/ MovesFolder(f, p)
        PROVE  p \in Parents /\ parent' = [parent EXCEPT ![f] = p] /\ tags' = tags
    BY <2>3 DEF CreatesFolder, MovesFolder
  <2>4. ASSUME NEW t \in Tags, CreatesTag(t) PROVE parent' = parent /\ tags' = tags \cup {t}
    BY <2>4 DEF CreatesTag
  <2>5. CASE \E f \in Folders : \E p \in Folders \cup {"root"} : CreatesFolder(f, p) \/ MovesFolder(f, p)
    BY <2>1, <2>2, <2>3, <2>5
  <2>6. CASE \E t \in Tags : CreatesTag(t)
    BY <2>1, <2>4, <2>6 DEF Exists
  <2> QED
    BY <2>5, <2>6
<1>4. ShelvesOK'
  <2>1. ASSUME NEW c \in Chats, NEW r \in chat'[c]
        PROVE  chat'[c] = {r} /\ (r.folder = Nobody \/ Exists(r.folder)') /\ r.tags \subseteq tags' /\ r.stamp <= clock'.now
    <3>1. /\ chat[c] = {r} /\ r \in ChatRows /\ r.tags \subseteq tags /\ (r.folder = Nobody \/ Exists(r.folder))
          /\ r.stamp <= clock.now
      BY <1>1, <2>1, RowOf
    <3>2. r.folder \in Folders \cup {Nobody}
      BY <3>1 DEF ChatRows
    <3> QED
      BY <3>1, <3>2, <1>1, <1>2, <1>3
  <2>2. chat' \in [Chats -> SUBSET ChatRows]
    BY <1>1 DEF LibraryIInv, ShelvesOK
  <2> QED
    BY <2>1, <2>2, <1>2, <1>3 DEF ShelvesOK, Exists
<1> QED
  BY <1>1, <1>4, ListsStay

LEMMA FolderStepsKeep == ASSUME LibraryAssumption, LibraryIInv, FolderSteps PROVE LibraryIInv'
BY ShelvingKeeps, DeletesFolderKeeps, DeletesTagKeeps DEF FolderSteps

-----------------------------------------------------------------------------
(* Pages of the sidebar *)

LEMMA ShelvesStay == ASSUME ShelvesOK, UNCHANGED <<parent, tags, chat, clock>> PROVE ShelvesOK'
BY DEF ShelvesOK, Exists

PageRequests ==
  [stage : {"none", "sent", "read"}, reset : BOOLEAN, filter : Filters \cup {Nobody},
   cursor : ListKeys \cup {Nobody}, items : Seq(Chats), next : ListKeys \cup {Nobody}, moved : SUBSET Chats]

LEMMA SidebarIs ==
  SidebarOK <=>
    /\ sidebar \in [filter : Filters, items : Seq(Chats), cursor : ListKeys \cup {Nobody},
                    shown : SUBSET Filters, moved : SUBSET Chats, request : PageRequests]
    /\ sidebar.request.stage # "none" => sidebar.request.filter \in Filters
    /\ IsFiniteSet(sidebar.shown)
BY DEF SidebarOK, PageRequests

\* A list that is as it was, with no answer for it under way.
LEMMA AsksAgain ==
  ASSUME LibraryIInv, UNCHANGED <<parent, tags, chat, clock, walk>>, NEW filter \in Filters, NEW q \in PageRequests,
         sidebar' = [sidebar EXCEPT !.filter = filter, !.request = q],
         q.stage # "read",
         q.stage # "none" => /\ q.filter \in Filters
                             /\ IF q.reset THEN q.cursor = Nobody
                                ELSE q.cursor = sidebar.cursor /\ sidebar.cursor # Nobody
  PROVE  LibraryIInv'
<1>1. ShelvesOK' /\ WalkOK' /\ WalkAgrees'
  BY ShelvesStay, WalkStays DEF LibraryIInv
<1>2. /\ sidebar'.items = sidebar.items /\ sidebar'.cursor = sidebar.cursor /\ sidebar'.shown = sidebar.shown
      /\ sidebar'.moved = sidebar.moved /\ sidebar'.request = q
      /\ sidebar' \in [filter : Filters, items : Seq(Chats), cursor : ListKeys \cup {Nobody},
                    shown : SUBSET Filters, moved : SUBSET Chats, request : PageRequests]
      /\ IsFiniteSet(sidebar.shown)
  BY SidebarIs DEF LibraryIInv
<1>3. SidebarOK'
  <2>1. (SidebarOK <=>
          /\ sidebar \in [filter : Filters, items : Seq(Chats), cursor : ListKeys \cup {Nobody},
                          shown : SUBSET Filters, moved : SUBSET Chats, request : PageRequests]
          /\ sidebar.request.stage # "none" => sidebar.request.filter \in Filters
          /\ IsFiniteSet(sidebar.shown))'
    BY SidebarIs, PTL
  <2> QED
    BY <2>1, <1>2
<1>4. \A c \in Chats \ sidebar'.moved : ShownFirst(c)'
  BY <1>2 DEF LibraryIInv, SidebarAgrees, ShownFirst, Listed, Key
<1>5. SidebarAgrees'
  BY <1>2, <1>4 DEF LibraryIInv, SidebarAgrees
<1> QED
  BY <1>1, <1>3, <1>5 DEF LibraryIInv
LEMMA SidebarIsThen ==
  SidebarOK' <=>
    /\ sidebar' \in [filter : Filters, items : Seq(Chats), cursor : ListKeys \cup {Nobody},
                     shown : SUBSET Filters, moved : SUBSET Chats, request : PageRequests]
    /\ sidebar'.request.stage # "none" => sidebar'.request.filter \in Filters
    /\ IsFiniteSet(sidebar'.shown)
<1>1. (SidebarOK <=>
        /\ sidebar \in [filter : Filters, items : Seq(Chats), cursor : ListKeys \cup {Nobody},
                        shown : SUBSET Filters, moved : SUBSET Chats, request : PageRequests]
        /\ sidebar.request.stage # "none" => sidebar.request.filter \in Filters
        /\ IsFiniteSet(sidebar.shown))'
  BY SidebarIs, PTL
<1> QED
  BY <1>1

LEMMA NoRequestIs == NoRequest \in PageRequests /\ NoRequest.stage = "none"
BY DEF NoRequest, PageRequests

\* Where the sidebar alone changes, what is shown of the chats is asked of the same rows.
LEMMA SidebarTurns ==
  ASSUME LibraryIInv, UNCHANGED <<parent, tags, chat, clock, walk>>, SidebarOK',
         sidebar'.shown = {} => sidebar'.cursor = Nobody,
         \A c \in Chats \ sidebar'.moved : \A f \in Filters : sidebar'.shown = {f} =>
           Once(c, sidebar'.items, Listed(c, f) /\ Passed(Key(c), sidebar'.cursor)),
         sidebar'.request.stage # "none" =>
           IF sidebar'.request.reset THEN sidebar'.request.cursor = Nobody
           ELSE sidebar'.request.cursor = sidebar'.cursor /\ sidebar'.cursor # Nobody,
         sidebar'.request.stage = "read" =>
           /\ \A c \in Chats \ (IF sidebar'.request.reset THEN sidebar'.request.moved ELSE sidebar'.moved) :
                Once(c, sidebar'.request.items,
                     /\ Listed(c, sidebar'.request.filter)
                     /\ Ahead(Key(c), sidebar'.request.cursor) /\ Passed(Key(c), sidebar'.request.next))
           /\ sidebar'.request.cursor # Nobody /\ sidebar'.request.next # Nobody
                => Below(sidebar'.request.next, sidebar'.request.cursor)
  PROVE  LibraryIInv'
<1>1. ShelvesOK' /\ WalkOK' /\ WalkAgrees'
  BY ShelvesStay, WalkStays DEF LibraryIInv
<1>2. \A c \in Chats : Key(c)' = Key(c)
  BY DEF Key
<1>3. \A c \in Chats \ sidebar'.moved : ShownFirst(c)'
  BY <1>2 DEF ShownFirst, Listed
<1>4. ASSUME sidebar'.request.stage = "read",
             NEW c \in Chats \ (IF sidebar'.request.reset THEN sidebar'.request.moved ELSE sidebar'.moved)
      PROVE  AnswerHolds(c)'
  BY <1>2, <1>4 DEF AnswerHolds, Listed
<1>5. SidebarAgrees'
  BY <1>3, <1>4 DEF SidebarAgrees
<1> QED
  BY <1>1, <1>5 DEF LibraryIInv

Sent(q, stage, reset, filter, cursor) ==
  [q EXCEPT !.stage = stage, !.reset = reset, !.filter = filter, !.cursor = cursor]

LEMMA RequestSent ==
  ASSUME NEW q \in PageRequests, NEW stage, NEW reset, NEW filter, NEW cursor
  PROVE  Sent(q, stage, reset, filter, cursor) =
         [stage |-> stage, reset |-> reset, filter |-> filter, cursor |-> cursor,
          items |-> q.items, next |-> q.next, moved |-> q.moved]
<1> DEFINE first == [q EXCEPT !.stage = stage]
           second == [first EXCEPT !.reset = reset]
           third == [second EXCEPT !.filter = filter]
           fourth == [third EXCEPT !.cursor = cursor]
<1>1. first = [stage |-> stage, reset |-> q.reset, filter |-> q.filter, cursor |-> q.cursor,
               items |-> q.items, next |-> q.next, moved |-> q.moved]
  BY DEF PageRequests
<1>5. Sent(q, stage, reset, filter, cursor) = fourth
  BY DEF Sent
<1> HIDE DEF first
<1>2. second = [stage |-> stage, reset |-> reset, filter |-> q.filter, cursor |-> q.cursor,
                items |-> q.items, next |-> q.next, moved |-> q.moved]
  BY <1>1
<1> HIDE DEF second
<1>3. third = [stage |-> stage, reset |-> reset, filter |-> filter, cursor |-> q.cursor,
               items |-> q.items, next |-> q.next, moved |-> q.moved]
  BY <1>2
<1> HIDE DEF third
<1>4. fourth = [stage |-> stage, reset |-> reset, filter |-> filter, cursor |-> cursor,
                items |-> q.items, next |-> q.next, moved |-> q.moved]
  BY <1>3
<1> HIDE DEF fourth
<1> QED
  BY <1>4, <1>5

LEMMA LoadsKeep ==
  ASSUME LibraryAssumption, LibraryIInv, UNCHANGED <<parent, tags, chat, clock, walk>>,
         NEW filter \in Filters, NEW reset \in BOOLEAN, Loads(filter, reset),
         ~reset => sidebar.request.stage = "none" /\ sidebar.cursor # Nobody
  PROVE  LibraryIInv'
<1>1. /\ sidebar \in [filter : Filters, items : Seq(Chats), cursor : ListKeys \cup {Nobody},
                    shown : SUBSET Filters, moved : SUBSET Chats, request : PageRequests]
      /\ sidebar.request.stage # "none" => sidebar.request.filter \in Filters
      /\ IsFiniteSet(sidebar.shown)
  BY SidebarIs DEF LibraryIInv
<1>2. CASE sidebar.request.stage # "none"
  <2>1. sidebar' = [sidebar EXCEPT !.filter = filter]
    BY <1>1, <1>2 DEF Loads
  <2>2. /\ sidebar'.items = sidebar.items /\ sidebar'.cursor = sidebar.cursor /\ sidebar'.shown = sidebar.shown
        /\ sidebar'.moved = sidebar.moved /\ sidebar'.request = sidebar.request
        /\ sidebar' \in [filter : Filters, items : Seq(Chats), cursor : ListKeys \cup {Nobody},
                    shown : SUBSET Filters, moved : SUBSET Chats, request : PageRequests]
    BY <1>1, <2>1
  <2>3. SidebarOK'
    BY <1>1, <2>2, SidebarIsThen
  <2>4. SidebarAgrees
    BY DEF LibraryIInv
  <2>5. \A c \in Chats \ sidebar'.moved : \A f \in Filters : sidebar'.shown = {f} =>
           Once(c, sidebar'.items, Listed(c, f) /\ Passed(Key(c), sidebar'.cursor))
    BY <2>2, <2>4 DEF SidebarAgrees, ShownFirst
  <2>6. sidebar'.request.stage = "read" =>
          \A c \in Chats \ (IF sidebar'.request.reset THEN sidebar'.request.moved ELSE sidebar'.moved) :
                Once(c, sidebar'.request.items,
                     /\ Listed(c, sidebar'.request.filter)
                     /\ Ahead(Key(c), sidebar'.request.cursor) /\ Passed(Key(c), sidebar'.request.next))
    BY <2>2, <2>4 DEF SidebarAgrees, AnswerHolds
  <2>7. /\ sidebar'.shown = {} => sidebar'.cursor = Nobody
        /\ sidebar'.request.stage # "none" =>
             IF sidebar'.request.reset THEN sidebar'.request.cursor = Nobody
             ELSE sidebar'.request.cursor = sidebar'.cursor /\ sidebar'.cursor # Nobody
        /\ sidebar'.request.stage = "read" /\ sidebar'.request.cursor # Nobody /\ sidebar'.request.next # Nobody
                => Below(sidebar'.request.next, sidebar'.request.cursor)
    BY <2>2, <2>4 DEF SidebarAgrees
  <2> QED
    BY <2>3, <2>5, <2>6, <2>7, SidebarTurns
<1>3. CASE sidebar.request.stage = "none"
  <2> DEFINE cursor == IF reset THEN Nobody ELSE sidebar.cursor
             q == [NoRequest EXCEPT !.stage = "sent", !.reset = reset, !.filter = filter, !.cursor = cursor]
  <2>1. sidebar' = [sidebar EXCEPT !.filter = filter, !.request = q]
    BY <1>1, <1>3 DEF Loads
  <2>2. cursor \in ListKeys \cup {Nobody}
    BY <1>1
  <2>3. reset => cursor = Nobody
    OBVIOUS
  <2>4. ~reset => cursor = sidebar.cursor /\ sidebar.cursor # Nobody
    OBVIOUS
  <2> HIDE DEF cursor
  <2>5. q = [stage |-> "sent", reset |-> reset, filter |-> filter, cursor |-> cursor,
             items |-> <<>>, next |-> Nobody, moved |-> {}]
    <3>1. NoRequest = [stage |-> "none", reset |-> FALSE, filter |-> Nobody, cursor |-> Nobody,
                       items |-> <<>>, next |-> Nobody, moved |-> {}]
      BY DEF NoRequest
    <3> DEFINE base == NoRequest
               then == Sent(base, "sent", reset, filter, cursor)
    <3>2. base = [stage |-> "none", reset |-> FALSE, filter |-> Nobody, cursor |-> Nobody,
                  items |-> <<>>, next |-> Nobody, moved |-> {}]
      BY <3>1
    <3>5. base \in PageRequests
      BY NoRequestIs
    <3> HIDE DEF base
    <3>6. base.items = <<>> /\ base.next = Nobody /\ base.moved = {}
      BY <3>2
    <3>7. then = [stage |-> "sent", reset |-> reset, filter |-> filter, cursor |-> cursor,
                  items |-> base.items, next |-> base.next, moved |-> base.moved]
      BY <3>5, RequestSent DEF then
    <3> HIDE DEF then
    <3>3. then = [stage |-> "sent", reset |-> reset, filter |-> filter, cursor |-> cursor,
                  items |-> <<>>, next |-> Nobody, moved |-> {}]
      BY <3>6, <3>7
    <3>4. q = then
      BY DEF base, then, Sent
    <3> QED
      BY <3>3, <3>4
  <2> HIDE DEF q
  <2>6. q \in PageRequests /\ q.stage = "sent" /\ q.filter = filter /\ q.reset = reset /\ q.cursor = cursor
    BY <2>2, <2>5 DEF PageRequests
  <2> QED
    BY <2>1, <2>3, <2>4, <2>6, AsksAgain
<1> QED
  BY <1>2, <1>3

LEMMA PageFailsKeeps ==
  ASSUME LibraryAssumption, LibraryIInv, PageFails
  PROVE  LibraryIInv'
<1>1. /\ sidebar \in [filter : Filters, items : Seq(Chats), cursor : ListKeys \cup {Nobody},
                    shown : SUBSET Filters, moved : SUBSET Chats, request : PageRequests]
      /\ sidebar' = [sidebar EXCEPT !.request = NoRequest]
      /\ UNCHANGED <<parent, tags, chat, clock, walk>>
  BY SidebarIs DEF LibraryIInv, PageFails
<1>2. NoRequest \in PageRequests /\ NoRequest.stage # "read" /\ ~(NoRequest.stage # "none")
  BY NoRequestIs
<1> DEFINE filter == sidebar.filter
           q == NoRequest
<1>3. filter \in Filters /\ sidebar' = [sidebar EXCEPT !.filter = filter, !.request = q]
  BY <1>1
<1> HIDE DEF filter, q
<1>4. q \in PageRequests /\ q.stage # "read" /\ ~(q.stage # "none")
  BY <1>2 DEF q
<1> QED
  BY <1>1, <1>3, <1>4, AsksAgain

LEMMA PageIsReadKeeps ==
  ASSUME LibraryAssumption, LibraryIInv, PageIsRead
  PROVE  LibraryIInv'
<1> DEFINE r == sidebar.request
           page == ListPage(r.filter, r.cursor)
           q == [r EXCEPT !.stage = "read", !.items = page.items, !.next = page.next, !.moved = {}]
<1>1. /\ sidebar \in [filter : Filters, items : Seq(Chats), cursor : ListKeys \cup {Nobody},
                    shown : SUBSET Filters, moved : SUBSET Chats, request : PageRequests]
      /\ r.filter \in Filters /\ IsFiniteSet(sidebar.shown) /\ r.stage = "sent"
      /\ UNCHANGED <<parent, tags, chat, clock, walk>>
  BY SidebarIs DEF LibraryIInv, PageIsRead
<1>2. sidebar' = [sidebar EXCEPT !.request = q]
  BY <1>1 DEF PageIsRead
<1>3. r \in PageRequests
  BY <1>1
<1>4. r.cursor \in ListKeys \cup {Nobody} /\ ShelvesOK
  BY <1>3 DEF LibraryIInv, PageRequests
<1> DEFINE filter == r.filter
           cursor == r.cursor
           p == page
<1>5. p = ListPage(filter, cursor)
  OBVIOUS
<1>6. cursor \in ListKeys \cup {Nobody}
  BY <1>4
<1>7. q = [r EXCEPT !.stage = "read", !.items = p.items, !.next = p.next, !.moved = {}]
  OBVIOUS
<1> HIDE DEF p, cursor, filter, q
<1>8. p.items \in Seq(Chats) /\ p.next \in ListKeys \cup {Nobody} /\ (p.next # Nobody => Ahead(p.next, cursor))
  BY <1>4, <1>5, <1>6, ListPageIs
<1>9. \A c \in Chats : Once(c, p.items, Listed(c, filter) /\ Ahead(Key(c), cursor) /\ Passed(Key(c), p.next))
  BY <1>4, <1>5, <1>6, ListPageIs
<1>10. /\ q \in PageRequests /\ q.stage = "read" /\ q.items = p.items /\ q.next = p.next
       /\ q.reset = r.reset /\ q.filter = filter /\ q.cursor = cursor
  <2>1. q = [stage |-> "read", reset |-> r.reset, filter |-> r.filter, cursor |-> r.cursor,
             items |-> p.items, next |-> p.next, moved |-> {}]
    BY <1>3, <1>7 DEF PageRequests
  <2>2. r.reset \in BOOLEAN /\ r.filter \in Filters \cup {Nobody} /\ r.cursor \in ListKeys \cup {Nobody}
    BY <1>3 DEF PageRequests
  <2> QED
    BY <2>1, <2>2, <1>8 DEF filter, cursor, PageRequests
<1>11. /\ sidebar'.items = sidebar.items /\ sidebar'.cursor = sidebar.cursor /\ sidebar'.shown = sidebar.shown
       /\ sidebar'.moved = sidebar.moved /\ sidebar'.request = q
       /\ sidebar' \in [filter : Filters, items : Seq(Chats), cursor : ListKeys \cup {Nobody},
                    shown : SUBSET Filters, moved : SUBSET Chats, request : PageRequests]
  BY <1>1, <1>2, <1>10
<1>12. SidebarOK'
  <2>1. q.filter \in Filters
    BY <1>1, <1>10 DEF filter
  <2> QED
    BY <2>1, <1>1, <1>11, SidebarIsThen
<1>13. SidebarAgrees
  BY DEF LibraryIInv
<1>14. \A c \in Chats \ sidebar'.moved : \A f \in Filters : sidebar'.shown = {f} =>
           Once(c, sidebar'.items, Listed(c, f) /\ Passed(Key(c), sidebar'.cursor))
  BY <1>11, <1>13 DEF SidebarAgrees, ShownFirst
<1>15. /\ sidebar'.shown = {} => sidebar'.cursor = Nobody
       /\ IF sidebar'.request.reset THEN sidebar'.request.cursor = Nobody
          ELSE sidebar'.request.cursor = sidebar'.cursor /\ sidebar'.cursor # Nobody
  BY <1>1, <1>10, <1>11, <1>13 DEF SidebarAgrees, cursor
<1>16. \A c \in Chats :
         Once(c, sidebar'.request.items,
                 /\ Listed(c, sidebar'.request.filter)
                 /\ Ahead(Key(c), sidebar'.request.cursor) /\ Passed(Key(c), sidebar'.request.next))
  BY <1>9, <1>10, <1>11
<1>17. sidebar'.request.cursor # Nobody /\ sidebar'.request.next # Nobody
                => Below(sidebar'.request.next, sidebar'.request.cursor)
  BY <1>8, <1>10, <1>11 DEF Ahead
<1> QED
  BY <1>1, <1>12, <1>14, <1>15, <1>16, <1>17, SidebarTurns
LEMMA PageArrivesKeeps ==
  ASSUME LibraryAssumption, LibraryIInv, PageArrives
  PROVE  LibraryIInv'
<1> DEFINE r == sidebar.request
           items == IF r.reset THEN r.items ELSE sidebar.items \o r.items
           next == r.next
           lists == IF r.reset THEN {r.filter} ELSE sidebar.shown \cup {r.filter}
           moved == IF r.reset THEN r.moved ELSE sidebar.moved
           filter == r.filter
<1>1. /\ sidebar \in [filter : Filters, items : Seq(Chats), cursor : ListKeys \cup {Nobody},
                    shown : SUBSET Filters, moved : SUBSET Chats, request : PageRequests]
      /\ filter \in Filters /\ IsFiniteSet(sidebar.shown) /\ r.stage = "read"
      /\ UNCHANGED <<parent, tags, chat, clock, walk>>
  BY SidebarIs DEF LibraryIInv, PageArrives
<1>2. sidebar' = [sidebar EXCEPT !.items = items, !.cursor = next, !.shown = lists,
                                 !.moved = moved, !.request = NoRequest]
  BY DEF PageArrives
<1>3. r \in PageRequests /\ NoRequest \in PageRequests /\ NoRequest.stage = "none"
  BY <1>1, NoRequestIs
<1>4. /\ sidebar.items \in Seq(Chats) /\ r.items \in Seq(Chats) /\ next \in ListKeys \cup {Nobody}
      /\ moved \in SUBSET Chats /\ lists \in SUBSET Filters /\ r.reset \in BOOLEAN
  BY <1>1, <1>3 DEF PageRequests
<1>5. items \in Seq(Chats)
  BY <1>4
<1>6. IsFiniteSet(lists)
  <2>1. IsFiniteSet({filter})
    BY FS_Singleton
  <2>2. IsFiniteSet(sidebar.shown \cup {filter})
    BY <1>1, <2>1, FS_Union
  <2> QED
    BY <2>1, <2>2
<1>7. SidebarAgrees /\ ShelvesOK
  BY DEF LibraryIInv
<1>8. \A c \in Chats \ moved : Once(c, r.items, Listed(c, filter) /\ Ahead(Key(c), r.cursor) /\ Passed(Key(c), next))
  BY <1>1, <1>7 DEF SidebarAgrees, AnswerHolds
<1>9. r.cursor # Nobody /\ next # Nobody => Below(next, r.cursor)
  BY <1>1, <1>7 DEF SidebarAgrees
<1>10. r.cursor \in ListKeys \cup {Nobody}
  BY <1>3 DEF PageRequests
<1>11. ASSUME NEW c \in Chats \ moved, NEW f \in Filters, lists = {f}
       PROVE  Once(c, items, Listed(c, f) /\ Passed(Key(c), next))
  <2>1. f = filter
    BY <1>11
  <2>2. Once(c, r.items, Listed(c, f) /\ Ahead(Key(c), r.cursor) /\ Passed(Key(c), next))
    BY <1>8, <2>1
  <2>3. CASE r.reset
    <3>1. Ahead(Key(c), r.cursor)
      BY <1>1, <1>7, <2>3 DEF SidebarAgrees, Ahead
    <3>2. items = r.items
      BY <2>3
    <3> HIDE DEF items, next, r
    <3> QED
      BY <2>2, <3>1, <3>2 DEF Once
  <2>4. CASE ~r.reset
    <3>1. r.cursor = sidebar.cursor /\ sidebar.cursor # Nobody
      BY <1>1, <1>7, <2>4 DEF SidebarAgrees
    <3>2. sidebar.shown = {f}
      <4>1. sidebar.shown # {}
        BY <3>1, <1>7 DEF SidebarAgrees
      <4>2. sidebar.shown \cup {filter} = {f}
        BY <1>11, <2>4
      <4> QED
        BY <4>1, <4>2
    <3>3. c \in Chats \ sidebar.moved
      BY <2>4
    <3> DEFINE in == Listed(c, f) /\ Passed(Key(c), sidebar.cursor)
               also == Listed(c, f) /\ Ahead(Key(c), r.cursor) /\ Passed(Key(c), next)
    <3>4. Once(c, sidebar.items, in)
      BY <3>2, <3>3, <1>7 DEF SidebarAgrees, ShownFirst
    <3>5. ~(in /\ also) /\ in \in BOOLEAN /\ also \in BOOLEAN
      BY <3>1 DEF Passed, Ahead
    <3>6. in \/ also <=> Listed(c, f) /\ Passed(Key(c), next)
      <4>1. CASE ~Listed(c, f)
        BY <4>1
      <4>2. CASE Listed(c, f)
        <5>1. Key(c) \in ListKeys
          BY <4>2, <1>7, KeysAre DEF Listed
        <5> DEFINE k == Key(c)
                   cursor == r.cursor
        <5>2. k \in ListKeys /\ cursor \in ListKeys /\ cursor # Nobody
          BY <5>1, <3>1, <1>10
        <5>3. Passed(k, cursor) => Passed(k, next)
          <6>1. next # Nobody => next \in ListKeys /\ Below(next, cursor)
            BY <1>4, <1>9, <3>1
          <6> HIDE DEF k, cursor, next
          <6> QED
            BY <5>2, <6>1, ListKeysCompared DEF Passed, Compared
        <5>4. in <=> Passed(k, cursor)
          BY <4>2, <3>1
        <5>5. also <=> Ahead(k, cursor) /\ Passed(k, next)
          BY <4>2
        <5>6. Ahead(k, cursor) <=> ~Passed(k, cursor)
          BY <5>2 DEF Ahead, Passed
        <5> HIDE DEF cursor, in, also
        <5> QED
          BY <4>2, <5>3, <5>4, <5>5, <5>6
      <4> QED
        BY <4>1, <4>2
    <3>7. Once(c, r.items, also)
      BY <2>2
    <3> HIDE DEF in, also
    <3>8. Once(c, sidebar.items \o r.items, in \/ also)
      BY <1>4, <3>4, <3>5, <3>7, OnceJoined
    <3>9. items = sidebar.items \o r.items
      BY <2>4
    <3> HIDE DEF items, next
    <3> QED
      BY <3>6, <3>8, <3>9 DEF Once
  <2> QED
    BY <2>3, <2>4, <1>4
<1>12. lists # {}
  OBVIOUS
<1> HIDE DEF items, next, lists, moved
<1>13. sidebar' = [filter |-> sidebar.filter, items |-> items, cursor |-> next, shown |-> lists,
                   moved |-> moved, request |-> NoRequest]
  BY <1>1, <1>2
<1>14. SidebarOK'
  <2>1. sidebar.filter \in Filters
    BY <1>1
  <2>2. sidebar' \in [filter : Filters, items : Seq(Chats), cursor : ListKeys \cup {Nobody},
                    shown : SUBSET Filters, moved : SUBSET Chats, request : PageRequests]
    BY <2>1, <1>3, <1>4, <1>5, <1>13
  <2>3. sidebar'.request = NoRequest /\ sidebar'.shown = lists
    BY <1>13
  <2> QED
    BY <2>2, <2>3, <1>3, <1>6, SidebarIsThen
<1>15. /\ sidebar'.request.stage = "none" /\ sidebar'.shown = lists /\ sidebar'.moved = moved
       /\ sidebar'.items = items /\ sidebar'.cursor = next
  BY <1>3, <1>13
<1>16. /\ sidebar'.shown = {} => sidebar'.cursor = Nobody
       /\ \A c \in Chats \ sidebar'.moved : \A f \in Filters : sidebar'.shown = {f} =>
           Once(c, sidebar'.items, Listed(c, f) /\ Passed(Key(c), sidebar'.cursor))
  BY <1>11, <1>12, <1>15
<1>17. ~(sidebar'.request.stage # "none") /\ ~(sidebar'.request.stage = "read")
  BY <1>15
<1> QED
  BY <1>1, <1>14, <1>16, <1>17, SidebarTurns

LEMMA LeavesListKeeps ==
  ASSUME LibraryAssumption, LibraryIInv, NEW gone \in Chats, LeavesList(gone)
  PROVE  LibraryIInv'
<1> DEFINE items == Without(sidebar.items, gone)
<1>1. /\ sidebar \in [filter : Filters, items : Seq(Chats), cursor : ListKeys \cup {Nobody},
                    shown : SUBSET Filters, moved : SUBSET Chats, request : PageRequests]
      /\ sidebar.request.stage # "none" => sidebar.request.filter \in Filters
      /\ IsFiniteSet(sidebar.shown) /\ gone \in sidebar.moved
      /\ UNCHANGED <<parent, tags, chat, clock, walk>>
  BY SidebarIs DEF LibraryIInv, LeavesList
<1>2. sidebar' = [sidebar EXCEPT !.items = items]
  BY DEF LeavesList
<1>3. sidebar.items \in Seq(Chats)
  BY <1>1
<1>4. /\ items \in Seq(Chats)
      /\ \A x : \A in \in BOOLEAN : x # gone /\ Once(x, sidebar.items, in) => Once(x, items, in)
  BY <1>3, WithoutIs
<1> HIDE DEF items
<1>5. /\ sidebar'.items = items /\ sidebar'.cursor = sidebar.cursor /\ sidebar'.shown = sidebar.shown
      /\ sidebar'.moved = sidebar.moved /\ sidebar'.request = sidebar.request
      /\ sidebar' \in [filter : Filters, items : Seq(Chats), cursor : ListKeys \cup {Nobody},
                    shown : SUBSET Filters, moved : SUBSET Chats, request : PageRequests]
  BY <1>1, <1>2, <1>4
<1>6. SidebarOK'
  BY <1>1, <1>5, SidebarIsThen
<1>7. SidebarAgrees
  BY DEF LibraryIInv
<1>8. ASSUME NEW c \in Chats \ sidebar.moved, NEW f \in Filters, sidebar.shown = {f}
      PROVE  Once(c, items, Listed(c, f) /\ Passed(Key(c), sidebar.cursor))
  <2> DEFINE in == Listed(c, f) /\ Passed(Key(c), sidebar.cursor)
  <2>1. Once(c, sidebar.items, in) /\ in \in BOOLEAN /\ c # gone
    BY <1>1, <1>7, <1>8 DEF SidebarAgrees, ShownFirst
  <2> HIDE DEF in
  <2>2. Once(c, items, in)
    BY <2>1, <1>4
  <2> QED
    BY <2>2 DEF in
<1>9. \A c \in Chats \ sidebar'.moved : \A f \in Filters : sidebar'.shown = {f} =>
           Once(c, sidebar'.items, Listed(c, f) /\ Passed(Key(c), sidebar'.cursor))
  BY <1>5, <1>8
<1>10. sidebar'.request.stage = "read" =>
          \A c \in Chats \ (IF sidebar'.request.reset THEN sidebar'.request.moved ELSE sidebar'.moved) :
                Once(c, sidebar'.request.items,
                     /\ Listed(c, sidebar'.request.filter)
                     /\ Ahead(Key(c), sidebar'.request.cursor) /\ Passed(Key(c), sidebar'.request.next))
  BY <1>5, <1>7 DEF SidebarAgrees, AnswerHolds
<1>11. /\ sidebar'.shown = {} => sidebar'.cursor = Nobody
       /\ sidebar'.request.stage # "none" =>
             IF sidebar'.request.reset THEN sidebar'.request.cursor = Nobody
             ELSE sidebar'.request.cursor = sidebar'.cursor /\ sidebar'.cursor # Nobody
       /\ sidebar'.request.stage = "read" /\ sidebar'.request.cursor # Nobody /\ sidebar'.request.next # Nobody
                => Below(sidebar'.request.next, sidebar'.request.cursor)
  BY <1>5, <1>7 DEF SidebarAgrees
<1> QED
  BY <1>1, <1>6, <1>9, <1>10, <1>11, SidebarTurns

LEMMA SidebarStepsKeep == ASSUME LibraryAssumption, LibraryIInv, SidebarSteps PROVE LibraryIInv'
<1>1. ASSUME NEW filter \in Filters, SetsFilter(filter) PROVE LibraryIInv'
  <2>1. TRUE \in BOOLEAN /\ Loads(filter, TRUE) /\ UNCHANGED <<parent, tags, chat, clock, walk>>
    BY <1>1 DEF SetsFilter
  <2> DEFINE reset == TRUE
  <2>2. reset \in BOOLEAN /\ Loads(filter, reset) /\ ~(~reset)
    BY <2>1
  <2> HIDE DEF reset
  <2> QED
    BY <2>1, <2>2, LoadsKeep
<1>2. ASSUME LoadsMore PROVE LibraryIInv'
  <2> DEFINE reset == FALSE
             filter == sidebar.filter
  <2>1. /\ reset \in BOOLEAN /\ Loads(filter, reset) /\ sidebar.request.stage = "none" /\ sidebar.cursor # Nobody
        /\ UNCHANGED <<parent, tags, chat, clock, walk>>
    BY <1>2 DEF LoadsMore
  <2>2. filter \in Filters
    BY DEF LibraryIInv, SidebarOK
  <2> HIDE DEF reset, filter
  <2> QED
    BY <2>1, <2>2, LoadsKeep
<1> QED
  BY <1>1, <1>2, PageIsReadKeeps, PageArrivesKeeps, PageFailsKeeps, LeavesListKeeps DEF SidebarSteps
-----------------------------------------------------------------------------
(* Pages of a search *)

\* What a walk has, a page more.
LEMMA WalkGoesOn ==
  ASSUME NEW got \in Seq(Nat), NEW ids \in Seq(Nat), NEW id, NEW hits \in BOOLEAN, NEW k \in HitKeys,
         NEW cursor \in HitKeys \cup {Nobody}, NEW next \in HitKeys \cup {Nobody},
         next # Nobody => Ahead(next, cursor),
         IF cursor = Nobody THEN got = <<>> ELSE Once(id, got, hits /\ Passed(k, cursor)),
         Once(id, ids, hits /\ Ahead(k, cursor) /\ Passed(k, next))
  PROVE  Once(id, got \o ids, hits /\ Passed(k, next))
<1> DEFINE in == hits /\ cursor # Nobody /\ Passed(k, cursor)
           also == hits /\ Ahead(k, cursor) /\ Passed(k, next)
<1>1. Once(id, got, in)
  <2>1. CASE cursor = Nobody
    <3>1. got = <<>> /\ ~in
      BY <2>1
    <3>2. DOMAIN got = {}
      BY <3>1
    <3> QED
      BY <3>1, <3>2 DEF Once, AtMostOnce, Occurs
  <2>2. CASE cursor # Nobody
    BY <2>2 DEF Once
  <2> QED
    BY <2>1, <2>2
<1>2. ~(in /\ also) /\ in \in BOOLEAN /\ also \in BOOLEAN
  BY DEF Passed, Ahead
<1>3. Once(id, ids, also)
  OBVIOUS
<1>4. in \/ also <=> hits /\ Passed(k, next)
  <2>1. CASE cursor = Nobody
    BY <2>1 DEF Ahead
  <2>2. CASE cursor # Nobody
    <3>1. next # Nobody => next \in HitKeys /\ Below(next, cursor)
      BY <2>2 DEF Ahead
    <3>2. Passed(k, cursor) => Passed(k, next)
      BY <2>2, <3>1, HitKeysCompared DEF Passed, Compared
    <3>3. Ahead(k, cursor) <=> ~Passed(k, cursor)
      BY <2>2 DEF Ahead, Passed
    <3> QED
      BY <2>2, <3>2, <3>3
  <2> QED
    BY <2>1, <2>2
<1> HIDE DEF in, also
<1>5. Once(id, got \o ids, in \/ also)
  BY <1>1, <1>2, <1>3, OnceJoined
<1> QED
  BY <1>4, <1>5 DEF Once

LEMMA SearchGoesOnKeeps ==
  ASSUME LibraryAssumption, LibraryIInv, SearchGoesOn
  PROVE  LibraryIInv'
<1> DEFINE cursor == walk.cursor
           p == SearchPage(cursor, PageSize)
           ids == [i \in DOMAIN p.keys |-> p.keys[i][2]]
           moved == IF cursor = Nobody THEN {} ELSE walk.moved
           next == p.next
           got == walk.got \o ids
           done == next = Nobody
<1>1. /\ walk' = [walk EXCEPT !.got = got, !.cursor = next, !.done = done, !.moved = moved]
      /\ walk.on /\ ~walk.done /\ UNCHANGED <<parent, tags, chat, clock, sidebar>>
  BY DEF SearchGoesOn
<1>2. /\ walk \in [on : BOOLEAN, cursor : HitKeys \cup {Nobody}, got : Seq(Nat), done : BOOLEAN, moved : SUBSET Chats]
      /\ ShelvesOK /\ WalkAgrees
  BY DEF LibraryIInv, WalkOK
<1>3. /\ cursor \in HitKeys \cup {Nobody} /\ walk.got \in Seq(Nat) /\ moved \in SUBSET Chats
  BY <1>2
<1> DEFINE page == p
           list == ids
<1>4. page = SearchPage(cursor, PageSize) /\ list = [i \in DOMAIN page.keys |-> page.keys[i][2]] /\ next = page.next
  OBVIOUS
<1> HIDE DEF p, ids, page, list, cursor
<1>5. /\ list \in Seq(Nat) /\ page.next \in HitKeys \cup {Nobody} /\ (page.next # Nobody => Ahead(page.next, cursor))
  BY <1>2, <1>3, <1>4, SearchPageIs
<1>6. \A h \in MessageHits : Once(h[2], list, Ahead(h, cursor) /\ Passed(h, page.next))
  BY <1>2, <1>3, <1>4, SearchPageIs
<1>7. \A c \in Chats : Once(c, list, Live(c) /\ Ahead(TitleKey(c), cursor) /\ Passed(TitleKey(c), page.next))
  BY <1>2, <1>3, <1>4, SearchPageIs, ZenonT(60)
<1>8. got = walk.got \o list /\ page.next = next
  BY <1>4 DEF list, page
<1> HIDE DEF next, got
<1>9. next \in HitKeys \cup {Nobody} /\ (next # Nobody => Ahead(next, cursor))
  BY <1>5, <1>8
<1>10. cursor = Nobody => walk.got = <<>>
  BY <1>1, <1>2 DEF WalkAgrees, cursor
<1>11. ASSUME NEW h \in MessageHits PROVE Once(h[2], got, Passed(h, next))
  <2> DEFINE id == h[2]
             hits == TRUE
             old == walk.got
  <2>1. h \in HitKeys /\ hits \in BOOLEAN
    BY DEF HitKeys, LibraryAssumption
  <2>2. IF cursor = Nobody THEN old = <<>> ELSE Once(id, old, hits /\ Passed(h, cursor))
    BY <1>2, <1>10 DEF WalkAgrees, cursor, Once
  <2>3. Once(id, list, hits /\ Ahead(h, cursor) /\ Passed(h, next))
    BY <1>6, <1>8 DEF Once
  <2>4. old \in Seq(Nat) /\ got = old \o list
    BY <1>3, <1>8
  <2> HIDE DEF id, hits, old
  <2>5. Once(id, old \o list, hits /\ Passed(h, next))
    BY <2>1, <2>2, <2>3, <2>4, <1>3, <1>5, <1>9, WalkGoesOn
  <2> QED
    BY <2>4, <2>5 DEF hits, id, Once
<1>12. ASSUME NEW c \in Chats \ moved PROVE Once(c, got, Live(c) /\ Passed(TitleKey(c), next))
  <2> DEFINE hits == Live(c)
             old == walk.got
             k == TitleKey(c)
  <2>1. CASE Live(c)
    <3>1. k \in HitKeys /\ hits \in BOOLEAN
      BY <2>1, <1>2, KeysAre DEF Live
    <3>2. IF cursor = Nobody THEN old = <<>> ELSE Once(c, old, hits /\ Passed(k, cursor))
      BY <1>2, <1>10 DEF WalkAgrees, cursor
    <3>3. Once(c, list, hits /\ Ahead(k, cursor) /\ Passed(k, next))
      BY <1>7, <1>8
    <3>4. old \in Seq(Nat) /\ got = old \o list
      BY <1>3, <1>8
    <3> HIDE DEF k, hits, old
    <3>5. Once(c, old \o list, hits /\ Passed(k, next))
      BY <3>1, <3>2, <3>3, <3>4, <1>3, <1>5, <1>9, WalkGoesOn
    <3> QED
      BY <3>4, <3>5 DEF hits, k
  <2>2. CASE ~Live(c)
    <3>1. AtMostOnce(c, list) /\ ~Occurs(c, list)
      BY <2>2, <1>7 DEF Once
    <3>2. AtMostOnce(c, old) /\ ~Occurs(c, old)
      <4>1. CASE cursor = Nobody
        <5>1. DOMAIN old = {}
          BY <4>1, <1>10
        <5> QED
          BY <5>1 DEF AtMostOnce, Occurs
      <4>2. CASE cursor # Nobody
        BY <2>2, <4>2, <1>2 DEF WalkAgrees, cursor, Once
      <4> QED
        BY <4>1, <4>2
    <3> DEFINE no == FALSE
    <3>3. /\ old \in Seq(Nat) /\ got = old \o list /\ no \in BOOLEAN /\ ~(no /\ no)
          /\ Once(c, old, no) /\ Once(c, list, no)
      BY <1>3, <1>8, <3>1, <3>2 DEF Once
    <3> HIDE DEF no, old
    <3>4. Once(c, old \o list, no \/ no)
      BY <3>3, <1>5, OnceJoined
    <3> QED
      BY <2>2, <3>3, <3>4 DEF Once, no
  <2> QED
    BY <2>1, <2>2
<1>13. got \in Seq(Nat)
  BY <1>3, <1>5, <1>8
<1> HIDE DEF moved
<1>14. /\ walk' = [on |-> walk.on, cursor |-> next, got |-> got, done |-> done, moved |-> moved]
  BY <1>1, <1>2
<1>15. WalkOK'
  <2>1. done \in BOOLEAN /\ walk.on \in BOOLEAN
    BY <1>2
  <2> HIDE DEF done
  <2> QED
    BY <2>1, <1>3, <1>9, <1>13, <1>14 DEF WalkOK
<1>16. walk'.cursor = next /\ walk'.got = got /\ (walk'.done <=> next = Nobody) /\ walk'.moved = moved
  BY <1>14
<1>17. \A c \in Chats : (Live(c)' <=> Live(c)) /\ TitleKey(c)' = TitleKey(c)
  BY <1>1 DEF Live, TitleKey, Key
<1>18. WalkAgrees'
  BY <1>11, <1>12, <1>16, <1>17 DEF WalkAgrees
<1>19. ShelvesOK'
  BY <1>1, <1>2, ShelvesStay
<1>20. SidebarOK' /\ SidebarAgrees'
  BY <1>1, SidebarStays DEF LibraryIInv
<1> QED
  BY <1>15, <1>18, <1>19, <1>20 DEF LibraryIInv

LEMMA SearchStartsKeeps ==
  ASSUME LibraryAssumption, LibraryIInv, SearchStarts
  PROVE  LibraryIInv'
<1>1. walk' = [walk EXCEPT !.on = TRUE] /\ UNCHANGED <<parent, tags, chat, clock, sidebar>>
  BY DEF SearchStarts
<1>2. /\ walk \in [on : BOOLEAN, cursor : HitKeys \cup {Nobody}, got : Seq(Nat), done : BOOLEAN, moved : SUBSET Chats]
      /\ ShelvesOK /\ WalkAgrees
  BY DEF LibraryIInv, WalkOK
<1>3. /\ WalkOK' /\ walk'.cursor = walk.cursor /\ walk'.got = walk.got /\ walk'.done = walk.done
      /\ walk'.moved = walk.moved
  BY <1>1, <1>2 DEF WalkOK
<1>4. WalkAgrees'
  BY <1>1, <1>2, <1>3 DEF WalkAgrees, Live, TitleKey, Key
<1>5. ShelvesOK'
  BY <1>1, <1>2, ShelvesStay
<1>6. SidebarOK' /\ SidebarAgrees'
  BY <1>1, SidebarStays DEF LibraryIInv
<1> QED
  BY <1>3, <1>4, <1>5, <1>6 DEF LibraryIInv

-----------------------------------------------------------------------------

LEMMA LibraryKeeps == LibraryAssumption /\ LibraryIInv /\ [LibraryNext]_libraryVars => LibraryIInv'
<1> SUFFICES ASSUME LibraryAssumption, LibraryIInv, [LibraryNext]_libraryVars PROVE LibraryIInv'
  OBVIOUS
<1>1. CASE UNCHANGED libraryVars
  <2>1. UNCHANGED <<parent, tags, chat, clock>> /\ UNCHANGED <<chat, sidebar, walk>>
    BY <1>1 DEF libraryVars
  <2> QED
    BY <2>1, ShelvesStay, ListsStay DEF LibraryIInv
<1>2. CASE LibraryNext
  BY <1>2, FolderStepsKeep, ChatStepsKeep, SidebarStepsKeep, SearchStartsKeeps, SearchGoesOnKeeps
     DEF LibraryNext, SearchSteps
<1> QED
  BY <1>1, <1>2

\* However folders, tags and chats change between two pages, every pointer is to a row that
\* exists, and a list and a search show each chat that did not itself change just once
\* (chats.py, list_page; search.py; stores/app.svelte.ts).
THEOREM LibraryHolds == LibrarySpec => []LibraryInv
<1>1. LibraryInit => LibraryIInv
  BY LibraryAssumption, LibraryStarts
<1>2. LibraryIInv /\ [LibraryNext]_libraryVars => LibraryIInv'
  BY LibraryAssumption, LibraryKeeps
<1>3. LibraryIInv => LibraryInv
  BY LibraryAssumption, LibraryReads
<1> QED
  BY <1>1, <1>2, <1>3, PTL DEF LibrarySpec

-----------------------------------------------------------------------------
(* Texts *)

LEMMA CountAppends ==
  ASSUME NEW S, NEW log \in Seq(S), NEW e, NEW kind
  PROVE  /\ Count(log, kind) \in Nat
         /\ Count(Append(log, e), kind) = Count(log, kind) + (IF e = kind THEN 1 ELSE 0)
<1>. DEFINE at(l) == {i \in DOMAIN l : l[i] = kind}
            n == Len(log)
            one == Append(log, e)
<1>1. n \in Nat /\ DOMAIN log = 1..n
  BY LenProperties
<1>2. DOMAIN one = 1..n + 1 /\ (\A i \in 1..n : one[i] = log[i]) /\ one[n + 1] = e
  <2>1. log \in Seq(S \cup {e})
    BY SeqMonotonic
  <2>. QED  BY <2>1, AppendProperties, LenProperties
<1>. HIDE DEF n, one
<1>3. IsFiniteSet(at(log))
  <2>1. IsFiniteSet(1..n) /\ at(log) \subseteq 1..n
    BY <1>1, FS_Interval
  <2>. QED  BY <2>1, FS_Subset
<1>4. at(one) = IF e = kind THEN at(log) \cup {n + 1} ELSE at(log)
  BY <1>1, <1>2
<1>5. n + 1 \notin at(log)
  BY <1>1
<1>6. Count(log, kind) = Cardinality(at(log)) /\ Count(one, kind) = Cardinality(at(one))
  BY DEF Count
<1>. HIDE DEF at
<1>7. Cardinality(at(log)) \in Nat /\ Cardinality(at(log) \cup {n + 1}) = Cardinality(at(log)) + 1
  BY <1>3, <1>5, FS_CardinalityType, FS_AddElement
<1>. QED  BY <1>4, <1>6, <1>7 DEF one

LEMMA TextIs == ASSUME NEW log \in Seq(Kinds) PROVE Text(log) \in Int /\ Thought(log) \in Nat /\ Tools(log) \in Nat
<1>1. \A kind : Count(log, kind) \in Nat
  BY CountAppends
<1>. QED  BY <1>1 DEF Text, Thought, Tools

LEMMA TextAppends ==
  ASSUME NEW log \in Seq(Kinds), NEW e \in Kinds
  PROVE  Text(Append(log, e)) = IF e = "delta" THEN Text(log) + 1
                                ELSE IF e = "retract" THEN Text(log) - 1 ELSE Text(log)
<1>1. \A kind : /\ Count(log, kind) \in Nat
                /\ Count(Append(log, e), kind) = Count(log, kind) + (IF e = kind THEN 1 ELSE 0)
  BY CountAppends
<1>. QED  BY <1>1 DEF Text

LEMMA TextOfNone == Text(<<>>) = 0
<1>1. Count(<<>>, "delta") = 0 /\ Count(<<>>, "retract") = 0
  BY FS_EmptySet DEF Count
<1>. QED  BY <1>1 DEF Text

\* The first frames of a log, and one more of them.
LEMMA FirstFrames ==
  ASSUME NEW log \in Seq(Kinds), NEW n \in 0..Len(log)
  PROVE  /\ SubSeq(log, 1, n) \in Seq(Kinds)
         /\ n = 0 => SubSeq(log, 1, n) = <<>>
         /\ n = Len(log) => SubSeq(log, 1, n) = log
         /\ n + 1 <= Len(log) => log[n + 1] \in Kinds /\ SubSeq(log, 1, n + 1) = Append(SubSeq(log, 1, n), log[n + 1])
         /\ \A e \in Kinds : SubSeq(Append(log, e), 1, n) = SubSeq(log, 1, n)
<1>. DEFINE part(k) == SubSeq(log, 1, k)
<1>0. Len(log) \in Nat /\ DOMAIN log = 1..Len(log) /\ \A i \in 1..Len(log) : log[i] \in Kinds
  BY LenProperties
<1>1. ASSUME NEW k \in 0..Len(log)
      PROVE  part(k) \in Seq(Kinds) /\ Len(part(k)) = k /\ \A i \in 1..k : part(k)[i] = log[i]
  <2>1. 1 \in Int /\ k \in Int /\ 1 <= k + 1 /\ \A i \in 1..k : log[i] \in Kinds
    BY <1>0
  <2>2. /\ SubSeq(log, 1, k) \in Seq(Kinds)
        /\ Len(SubSeq(log, 1, k)) = IF 1 <= k THEN k - 1 + 1 ELSE 0
        /\ \A i \in 1..k - 1 + 1 : SubSeq(log, 1, k)[i] = log[1 + i - 1]
    BY <2>1, SubSeqProperties
  <2>3. k - 1 + 1 = k /\ (IF 1 <= k THEN k - 1 + 1 ELSE 0) = k /\ \A i \in 1..k : 1 + i - 1 = i
    BY <1>0
  <2>. QED  BY <2>2, <2>3
<1>. HIDE DEF part
<1>2. part(n) \in Seq(Kinds)
  BY <1>1
<1>3. n = 0 => part(n) = <<>>
  BY <1>1, EmptySeq
<1>4. n = Len(log) => part(n) = log
  <2>1. \A i \in 1..n : part(n)[i] = log[i]
    BY <1>1
  <2>. QED  BY <1>1, <2>1, SeqEqual
<1>5. ASSUME n + 1 <= Len(log)
      PROVE  log[n + 1] \in Kinds /\ part(n + 1) = Append(part(n), log[n + 1])
  <2>1. n + 1 \in 1..Len(log) /\ n + 1 \in 0..Len(log) /\ n \in Nat
    BY <1>0, <1>5
  <2>2. PICK e \in Kinds : e = log[n + 1]
    BY <1>0, <2>1
  <2>3. /\ Append(part(n), e) \in Seq(Kinds) /\ Len(Append(part(n), e)) = n + 1
        /\ \A i \in 1..n : Append(part(n), e)[i] = part(n)[i]
        /\ Append(part(n), e)[n + 1] = e
    BY <1>1, AppendProperties
  <2>4. \A i \in 1..n + 1 : part(n + 1)[i] = Append(part(n), e)[i]
    <3>1. \A i \in 1..n + 1 : i \in 1..n \/ i = n + 1
      BY <2>1
    <3>. QED  BY <1>1, <2>1, <2>2, <2>3, <3>1
  <2>5. part(n + 1) \in Seq(Kinds) /\ Len(part(n + 1)) = n + 1
    BY <1>1, <2>1
  <2>. QED  BY <2>2, <2>3, <2>4, <2>5, SeqEqual
<1>6. ASSUME NEW e \in Kinds PROVE SubSeq(Append(log, e), 1, n) = part(n)
  <2>. DEFINE more == Append(log, e)
              first == SubSeq(more, 1, n)
  <2>1. more \in Seq(Kinds) /\ Len(more) = Len(log) + 1 /\ \A i \in 1..Len(log) : more[i] = log[i]
    BY AppendProperties
  <2>. HIDE DEF more
  <2>2. 1 \in Int /\ n \in Int /\ 1 <= n + 1 /\ \A i \in 1..n : more[i] \in Kinds
    BY <1>0, <2>1
  <2>3. /\ first \in Seq(Kinds)
        /\ Len(first) = IF 1 <= n THEN n - 1 + 1 ELSE 0
        /\ \A i \in 1..n - 1 + 1 : first[i] = more[1 + i - 1]
    BY <2>2, SubSeqProperties
  <2>. HIDE DEF first
  <2>4. n - 1 + 1 = n /\ (IF 1 <= n THEN n - 1 + 1 ELSE 0) = n /\ \A i \in 1..n : 1 + i - 1 = i
    BY <1>0
  <2>5. Len(first) = n /\ \A i \in 1..n : first[i] = part(n)[i]
    BY <1>0, <1>1, <2>1, <2>3, <2>4
  <2>6. first = part(n)
    BY <1>1, <2>3, <2>5, SeqEqual
  <2>. QED  BY <2>6 DEF first, more
<1>. QED  BY <1>2, <1>3, <1>4, <1>5, <1>6 DEF part

-----------------------------------------------------------------------------
(* The inductive invariant *)

Rows == [text : Int, thought : Nat, tools : Nat,
         status : {"streaming", "complete", "stopped", "error"}]
RowSets == SUBSET Rows
Talks == [stage : {"none", "running", "kept", "forgotten"}, log : Seq(Kinds), row : RowSets]
Views == [chat : Screens, stage : {"asked", "read", "over"}, row : RowSets]
Streams == [stage : {"unused", "asking", "reading", "thrown", "over"}, chat : Screens \cup {NoChat},
            sending : BOOLEAN, signal : {0} \cup Follows, aborted : BOOLEAN, at : Nat, version : Nat,
            text : Int, published : Int]
Shown == [chat : Screens \cup {NoChat}, version : Nat, reply : [Screens -> RowSets],
          controller : {0} \cup Follows, sink : {0} \cup Follows, streaming : BOOLEAN]

ScreenTypes ==
  /\ talk \in [Screens -> Talks]
  /\ screen \in Shown
  /\ views \in Seq(Views)
  /\ follow \in [Follows -> Streams]

\* A stream that is waited for or read is one of a chat's; one that is read has a turn.
StreamsAreOfChats ==
  \A f \in Follows :
    /\ follow[f].stage \in {"asking", "reading", "thrown"} => follow[f].chat \in Screens
    /\ follow[f].stage = "reading" => talk[follow[f].chat].stage # "none"

\* What a stream has of its turn.
Counted(f) ==
  /\ follow[f].at > 0 =>
       /\ follow[f].stage = "reading"
       /\ follow[f].at - 1 <= Len(talk[follow[f].chat].log)
       /\ follow[f].text = Text(SubSeq(talk[follow[f].chat].log, 1, follow[f].at - 1))
  /\ follow[f].at = 0 => follow[f].text = 0
StreamsAreCounted == \A f \in Follows : Counted(f)

Ended(c) == talk[c].stage \in {"kept", "forgotten"}
IsWhole(c, r) == r.status = "complete" => Ended(c) /\ r.text = Text(talk[c].log)

StoredRowsAreWhole ==
  /\ \A c \in Screens : \A r \in talk[c].row : IsWhole(c, r)
  /\ \A i \in DOMAIN views : \A r \in views[i].row : IsWhole(views[i].chat, r)

\* A stream writes into the reply of its chat that is on screen.
WritesIn(f, c) ==
  follow[f].chat = c /\ follow[f].stage = "reading" /\ follow[f].version = screen.version

ShownRowsAreWhole ==
  \A c \in Screens : \A r \in screen.reply[c] :
    r.status = "complete" =>
      /\ Ended(c)
      /\ (\A f \in Follows : ~WritesIn(f, c)) => r.text = Text(talk[c].log)

Waits(f) == follow[f].stage \in {"asking", "reading"}

CalmScreen ==
  ~overlapped =>
    /\ \A c \in Screens : screen.reply[c] # {} => c = screen.chat
    /\ \A f \in Follows : Waits(f) =>
         IF follow[f].aborted THEN screen.controller = 0
         ELSE /\ follow[f].chat = screen.chat /\ screen.controller = f
              /\ follow[f].stage = "reading" => screen.streaming
    /\ \A f \in Follows : follow[f].stage = "reading" => follow[f].signal = f
    /\ (\E i \in DOMAIN views : views[i].stage # "over") => screen.controller = 0
    /\ \A i, j \in DOMAIN views : views[i].stage # "over" /\ views[j].stage # "over" => i = j

ScreenIInv ==
  /\ ScreenTypes /\ StreamsAreOfChats /\ StreamsAreCounted
  /\ StoredRowsAreWhole /\ ShownRowsAreWhole /\ CalmScreen

LEMMA ScreenIInvImplies == ASSUME ScreenIInv PROVE ScreenInv
<1>. USE DEF ScreenIInv
<1>1. ScreenTypeOK
  BY DEF ScreenTypeOK, ScreenTypes, Shown, StreamsAreCounted, Counted
<1>2. CalmScreenShowsOneConversation
  BY DEF CalmScreenShowsOneConversation, CalmScreen, Settled, Waits
<1>3. CompleteRepliesAreWhole
  <2>. SUFFICES ASSUME NEW c \in Screens, NEW r \in screen.reply[c], r.status = "complete", Unread(c)
                PROVE  talk[c].stage \in {"kept", "forgotten"} /\ r.text = Text(talk[c].log)
    BY DEF CompleteRepliesAreWhole
  <2>1. \A f \in Follows : ~WritesIn(f, c)
    BY DEF Unread, WritesIn
  <2>. QED  BY <2>1 DEF ShownRowsAreWhole, Ended
<1>. QED  BY <1>1, <1>2, <1>3 DEF ScreenInv

LEMMA ViewsAre ==
  ASSUME ScreenTypes
  PROVE  /\ DOMAIN views = 1..Len(views) /\ Len(views) \in Nat
         /\ \A i \in DOMAIN views : views[i] \in Views /\ views[i].chat \in Screens
<1>1. views \in Seq(Views)
  BY DEF ScreenTypes
<1>2. DOMAIN views = 1..Len(views) /\ Len(views) \in Nat /\ \A i \in 1..Len(views) : views[i] \in Views
  BY <1>1, LenProperties
<1>. QED  BY <1>2 DEF Views

LEMMA NoFollowIs ==
  /\ NoFollow \in Streams /\ NoFollow.stage = "unused" /\ NoFollow.at = 0 /\ ~NoFollow.aborted
  /\ NoFollow.signal = 0 /\ NoFollow.chat = NoChat /\ NoFollow.version = 0 /\ NoFollow.text = 0
BY DEF NoFollow, Streams

LEMMA ScreenInitially == ScreenInit => ScreenIInv
<1>. SUFFICES ASSUME ScreenInit PROVE ScreenIInv
  OBVIOUS
<1>. USE DEF ScreenInit
<1>. HIDE DEF NoFollow
<1>1. \A c \in Screens : talk[c] \in Talks /\ talk[c].row = {} /\ talk[c].log = <<>>
  <2>1. <<>> \in Seq(Kinds)
    BY EmptySeq
  <2>2. \A s \in {"none", "running"} : [stage |-> s, log |-> <<>>, row |-> {}] \in Talks
    BY <2>1 DEF Talks, RowSets
  <2>3. ASSUME NEW c \in Screens PROVE talk[c] \in Talks /\ talk[c].row = {} /\ talk[c].log = <<>>
    <3>1. talk[c] \in {[stage |-> s, log |-> <<>>, row |-> {}] : s \in {"none", "running"}}
      OBVIOUS
    <3>2. PICK s \in {"none", "running"} : talk[c] = [stage |-> s, log |-> <<>>, row |-> {}]
      BY <3>1
    <3>3. talk[c] \in Talks
      BY <2>2, <3>2, Zenon
    <3>4. talk[c].row = {} /\ talk[c].log = <<>>
      BY <3>2
    <3>. QED  BY <3>3, <3>4
  <2>. QED  BY <2>3
<1>2. screen \in Shown /\ screen.controller = 0
  BY DEF Shown, RowSets
<1>3. \A f \in Follows : follow[f] = NoFollow
  OBVIOUS
<1>4. ScreenTypes
  <2>1. <<>> \in Seq(Views)
    BY EmptySeq
  <2>2. talk \in [Screens -> Talks]
    BY <1>1
  <2>. QED  BY <1>2, <2>1, <2>2, NoFollowIs DEF ScreenTypes
<1>5. StreamsAreOfChats /\ StreamsAreCounted
  BY <1>3, NoFollowIs DEF StreamsAreOfChats, StreamsAreCounted, Counted
<1>6. StoredRowsAreWhole /\ ShownRowsAreWhole
  BY <1>1 DEF StoredRowsAreWhole, ShownRowsAreWhole
<1>7. CalmScreen
  BY <1>3, NoFollowIs DEF CalmScreen, Waits
<1>. QED  BY <1>4, <1>5, <1>6, <1>7 DEF ScreenIInv

-----------------------------------------------------------------------------
(* What is kept while turns go on *)

\* Turns only go on: what ended stays as it is, and a log only grows.
Advances ==
  \A c \in Screens :
    /\ talk[c].stage # "none" => talk'[c].stage # "none"
    /\ Ended(c) => Ended(c)' /\ talk'[c].log = talk[c].log
    /\ talk'[c].log = talk[c].log \/ \E e \in Kinds : talk'[c].log = Append(talk[c].log, e)

LEMMA StillAdvances == ASSUME UNCHANGED talk PROVE Advances
BY DEF Advances, Ended

LEMMA WholeStays == ASSUME Advances, NEW c \in Screens, NEW r, IsWhole(c, r) PROVE IsWhole(c, r)'
BY DEF Advances, IsWhole

Right(f) ==
  /\ follow[f].stage \in {"asking", "reading", "thrown"} => follow[f].chat \in Screens
  /\ follow[f].stage = "reading" => talk[follow[f].chat].stage # "none"
  /\ Counted(f)

LEMMA GoodIs == (\A f \in Follows : Right(f)) <=> StreamsAreOfChats /\ StreamsAreCounted
BY DEF Right, StreamsAreOfChats, StreamsAreCounted

LEMMA GoodAfter == (\A f \in Follows : Right(f)') => StreamsAreOfChats' /\ StreamsAreCounted'
BY DEF Right, StreamsAreOfChats, StreamsAreCounted

\* A stream that is left alone; it may have been given up.
Kept(f) ==
  /\ follow'[f].stage = follow[f].stage /\ follow'[f].chat = follow[f].chat
  /\ follow'[f].at = follow[f].at /\ follow'[f].text = follow[f].text
  /\ follow'[f].version = follow[f].version /\ follow'[f].signal = follow[f].signal

LEMMA LogStays ==
  ASSUME ScreenTypes, Advances, NEW c \in Screens, NEW n \in 0..Len(talk[c].log)
  PROVE  n <= Len(talk'[c].log) /\ SubSeq(talk'[c].log, 1, n) = SubSeq(talk[c].log, 1, n)
<1>1. talk[c].log \in Seq(Kinds)
  BY DEF ScreenTypes, Talks
<1>2. ASSUME NEW e \in Kinds, talk'[c].log = Append(talk[c].log, e)
      PROVE  n <= Len(talk'[c].log) /\ SubSeq(talk'[c].log, 1, n) = SubSeq(talk[c].log, 1, n)
  <2>1. Len(Append(talk[c].log, e)) = Len(talk[c].log) + 1 /\ Len(talk[c].log) \in Nat
    BY <1>1, AppendProperties, LenProperties
  <2>. QED  BY <1>1, <1>2, <2>1, FirstFrames
<1>. QED  BY <1>2 DEF Advances

LEMMA GoodStays == ASSUME ScreenIInv, Advances, NEW f \in Follows, Kept(f) PROVE Right(f)'
<1>. USE DEF ScreenIInv
<1>1. follow[f].at \in Nat /\ \A c \in Screens : talk[c].log \in Seq(Kinds)
  BY DEF ScreenTypes, Streams, Talks
<1>2. PICK c : c = follow[f].chat
  OBVIOUS
<1>3. ASSUME follow[f].at > 0
      PROVE  /\ follow[f].stage = "reading" /\ follow[f].at - 1 <= Len(talk'[c].log)
             /\ follow[f].text = Text(SubSeq(talk'[c].log, 1, follow[f].at - 1))
  <2>1. follow[f].stage = "reading" /\ c \in Screens /\ follow[f].at - 1 <= Len(talk[c].log)
        /\ follow[f].text = Text(SubSeq(talk[c].log, 1, follow[f].at - 1))
    BY <1>2, <1>3 DEF StreamsAreCounted, Counted, StreamsAreOfChats
  <2>2. follow[f].at - 1 \in 0..Len(talk[c].log)
    BY <1>1, <1>3, <2>1, LenProperties
  <2>. QED  BY <2>1, <2>2, LogStays
<1>4. follow[f].stage \in {"asking", "reading", "thrown"} => follow[f].chat \in Screens
  BY DEF StreamsAreOfChats
<1>5. follow[f].stage = "reading" => talk'[follow[f].chat].stage # "none"
  BY DEF StreamsAreOfChats, Advances
<1>6. Counted(f)'
  BY <1>2, <1>3 DEF StreamsAreCounted, Counted, Kept
<1>. QED  BY <1>4, <1>5, <1>6 DEF Right, Kept

LEMMA StreamsStay ==
  ASSUME ScreenIInv, Advances, \A f \in Follows : Kept(f)
  PROVE  StreamsAreOfChats' /\ StreamsAreCounted'
BY GoodStays, GoodAfter

LEMMA StreamsStayBut ==
  ASSUME ScreenIInv, Advances, NEW g \in Follows, \A f \in Follows \ {g} : Kept(f), Right(g)'
  PROVE  StreamsAreOfChats' /\ StreamsAreCounted'
BY GoodStays, GoodAfter

LEMMA StoredStays ==
  ASSUME ScreenIInv, Advances, UNCHANGED views, \A c \in Screens : talk'[c].row = talk[c].row
  PROVE  StoredRowsAreWhole'
<1>1. \A i \in DOMAIN views : views[i].chat \in Screens
  BY ViewsAre DEF ScreenIInv
<1>2. ASSUME NEW c \in Screens, NEW r \in talk'[c].row PROVE IsWhole(c, r)'
  BY <1>2, WholeStays DEF ScreenIInv, StoredRowsAreWhole
<1>3. ASSUME NEW i \in DOMAIN views, NEW r \in views[i].row, NEW c, c = views[i].chat PROVE IsWhole(c, r)'
  BY <1>1, <1>3, WholeStays DEF ScreenIInv, StoredRowsAreWhole
<1>4. \A i \in DOMAIN views' : \A r \in views'[i].row : IsWhole(views[i].chat, r)'
  BY <1>3 DEF IsWhole, Ended
<1>. QED  BY <1>2, <1>4 DEF StoredRowsAreWhole

\* The same replies are shown, and no stream that writes there is gone.
LEMMA ShownStay ==
  ASSUME ScreenIInv, Advances, screen'.reply = screen.reply,
         \A c \in Screens : \A f \in Follows : WritesIn(f, c) => WritesIn(f, c)'
  PROVE  ShownRowsAreWhole'
BY DEF ScreenIInv, ShownRowsAreWhole, Advances

LEMMA CalmStays == ASSUME CalmScreen, UNCHANGED <<screen, views, follow, overlapped>> PROVE CalmScreen'
BY DEF CalmScreen, Waits

-----------------------------------------------------------------------------
(* The server's steps *)

LEMMA TalkKeeps ==
  ASSUME ScreenIInv, UNCHANGED <<screen, views, follow, overlapped>>,
         NEW c \in Screens, NEW new \in Talks, talk' = [talk EXCEPT ![c] = new],
         Advances, \A r \in new.row : r.status = "complete" =>
                     new.stage \in {"kept", "forgotten"} /\ r.text = Text(new.log)
  PROVE  ScreenIInv'
<1>. USE DEF ScreenIInv
<1>1. \A d \in Screens : talk'[d] = IF d = c THEN new ELSE talk[d]
  BY DEF ScreenTypes
<1>2. ScreenTypes'
  BY DEF ScreenTypes
<1>3. StreamsAreOfChats' /\ StreamsAreCounted'
  <2>1. \A f \in Follows : Kept(f)
    BY DEF Kept
  <2>. QED  BY <2>1, StreamsStay
<1>4. StoredRowsAreWhole'
  <2>1. ASSUME NEW d \in Screens, NEW r \in talk'[d].row PROVE IsWhole(d, r)'
    <3>1. CASE d = c
      BY <1>1, <2>1, <3>1 DEF IsWhole, Ended
    <3>2. CASE d # c
      BY <1>1, <2>1, <3>2, WholeStays DEF StoredRowsAreWhole
    <3>. QED  BY <3>1, <3>2
  <2>2. \A i \in DOMAIN views : views[i].chat \in Screens
    BY ViewsAre
  <2>3. ASSUME NEW i \in DOMAIN views, NEW r \in views[i].row, NEW d, d = views[i].chat PROVE IsWhole(d, r)'
    BY <2>2, <2>3, WholeStays DEF StoredRowsAreWhole
  <2>4. \A i \in DOMAIN views' : \A r \in views'[i].row : IsWhole(views[i].chat, r)'
    BY <2>3 DEF IsWhole, Ended
  <2>. QED  BY <2>1, <2>4 DEF StoredRowsAreWhole
<1>5. ShownRowsAreWhole'
  BY ShownStay DEF WritesIn
<1>6. CalmScreen'
  BY CalmStays
<1>. QED  BY <1>2, <1>3, <1>4, <1>5, <1>6

LEMMA TalkEmitsKeeps ==
  ASSUME ScreenIInv, NEW c \in Screens, NEW kind \in Kinds, TalkEmits(c, kind) PROVE ScreenIInv'
<1>1. talk[c] \in Talks
  BY DEF ScreenIInv, ScreenTypes
<1>2. PICK new : new = [talk[c] EXCEPT !.log = Append(@, kind)]
  OBVIOUS
<1>3. new \in Talks /\ new.log = Append(talk[c].log, kind) /\ new.stage = talk[c].stage /\ new.row = talk[c].row
  <2>1. Append(talk[c].log, kind) \in Seq(Kinds)
    BY <1>1, AppendProperties DEF Talks
  <2>. QED  BY <1>1, <1>2, <2>1 DEF Talks
<1>4. talk' = [talk EXCEPT ![c] = new] /\ talk[c].stage = "running"
      /\ UNCHANGED <<screen, views, follow, overlapped>>
  BY <1>2 DEF TalkEmits
<1>5. \A d \in Screens : talk'[d] = IF d = c THEN new ELSE talk[d]
  BY <1>4 DEF ScreenIInv, ScreenTypes
<1>6. Advances
  BY <1>3, <1>4, <1>5 DEF Advances, Ended
<1>7. \A r \in new.row : r.status # "complete"
  BY <1>3, <1>4 DEF ScreenIInv, StoredRowsAreWhole, IsWhole, Ended
<1>. QED  BY <1>3, <1>4, <1>6, <1>7, TalkKeeps

LEMMA RowIs ==
  \A text \in Int, thought \in Nat, tools \in Nat,
     status \in {"streaming", "complete", "stopped", "error"} :
    /\ Row(text, thought, tools, status) \in Rows
    /\ Row(text, thought, tools, status).status = status
    /\ Row(text, thought, tools, status).text = text
BY DEF Row, Rows

LEMMA TalkFlushesKeeps == ASSUME ScreenIInv, NEW c \in Screens, TalkFlushes(c) PROVE ScreenIInv'
<1>1. talk[c] \in Talks
  BY DEF ScreenIInv, ScreenTypes
<1>2. PICK row : row = Row(Text(talk[c].log), 0, 0, "streaming")
  OBVIOUS
<1>3. {row} \in RowSets /\ row.status = "streaming"
  <2>1. Text(talk[c].log) \in Int
    BY <1>1, TextIs DEF Talks
  <2>2. row \in Rows /\ row.status = "streaming"
    BY <1>2, <2>1, RowIs
  <2>. QED  BY <2>2 DEF RowSets
<1>4. PICK new : new = [talk[c] EXCEPT !.row = {row}]
  OBVIOUS
<1>5. new \in Talks /\ new.log = talk[c].log /\ new.stage = talk[c].stage /\ new.row = {row}
  BY <1>1, <1>3, <1>4 DEF Talks
<1>6. talk' = [talk EXCEPT ![c] = new] /\ UNCHANGED <<screen, views, follow, overlapped>>
  BY <1>2, <1>4 DEF TalkFlushes
<1>7. \A d \in Screens : talk'[d] = IF d = c THEN new ELSE talk[d]
  BY <1>6 DEF ScreenIInv, ScreenTypes
<1>8. Advances
  BY <1>5, <1>7 DEF Advances, Ended
<1>. QED  BY <1>3, <1>5, <1>6, <1>8, TalkKeeps

LEMMA TalkEndsKeeps == ASSUME ScreenIInv, NEW c \in Screens, TalkEnds(c) PROVE ScreenIInv'
<1>1. talk[c] \in Talks /\ talk[c].stage = "running"
  BY DEF ScreenIInv, ScreenTypes, TalkEnds
<1>2. PICK row : row = Row(Text(talk[c].log), Thought(talk[c].log), Tools(talk[c].log), "complete")
  OBVIOUS
<1>3. {row} \in RowSets /\ row.text = Text(talk[c].log)
  <2>1. Text(talk[c].log) \in Int /\ Thought(talk[c].log) \in Nat /\ Tools(talk[c].log) \in Nat
    BY <1>1, TextIs DEF Talks
  <2>2. row \in Rows /\ row.text = Text(talk[c].log)
    BY <1>2, <2>1, RowIs
  <2>. QED  BY <2>2 DEF RowSets
<1>4. PICK new : new = [talk[c] EXCEPT !.stage = "kept", !.row = {row}]
  OBVIOUS
<1>5. new \in Talks /\ new.log = talk[c].log /\ new.stage = "kept" /\ new.row = {row}
  BY <1>1, <1>3, <1>4 DEF Talks
<1>6. talk' = [talk EXCEPT ![c] = new] /\ UNCHANGED <<screen, views, follow, overlapped>>
  BY <1>2, <1>4 DEF TalkEnds
<1>7. \A d \in Screens : talk'[d] = IF d = c THEN new ELSE talk[d]
  BY <1>6 DEF ScreenIInv, ScreenTypes
<1>8. Advances
  BY <1>1, <1>5, <1>7 DEF Advances, Ended
<1>. QED  BY <1>3, <1>5, <1>6, <1>8, TalkKeeps

LEMMA TalkIsForgottenKeeps == ASSUME ScreenIInv, NEW c \in Screens, TalkIsForgotten(c) PROVE ScreenIInv'
<1>1. talk[c] \in Talks /\ talk[c].stage = "kept"
  BY DEF ScreenIInv, ScreenTypes, TalkIsForgotten
<1>2. PICK new : new = [talk[c] EXCEPT !.stage = "forgotten"]
  OBVIOUS
<1>3. new \in Talks /\ new.log = talk[c].log /\ new.stage = "forgotten" /\ new.row = talk[c].row
  BY <1>1, <1>2 DEF Talks
<1>4. talk' = [talk EXCEPT ![c] = new] /\ UNCHANGED <<screen, views, follow, overlapped>>
  BY <1>2 DEF TalkIsForgotten
<1>5. \A d \in Screens : talk'[d] = IF d = c THEN new ELSE talk[d]
  BY <1>4 DEF ScreenIInv, ScreenTypes
<1>6. Advances
  BY <1>1, <1>3, <1>5 DEF Advances, Ended
<1>7. \A r \in new.row : r.status = "complete" => r.text = Text(new.log)
  BY <1>3 DEF ScreenIInv, StoredRowsAreWhole, IsWhole
<1>. QED  BY <1>3, <1>4, <1>6, <1>7, TalkKeeps

-----------------------------------------------------------------------------
(* Opening conversations *)

LEMMA FollowsAre == Follows \subseteq Nat \ {0}
BY ScreenAssumption DEF Follows

LEMMA AbortsGive ==
  ASSUME ScreenIInv, Aborts
  PROVE  /\ follow' \in [Follows -> Streams]
         /\ \A f \in Follows :
              /\ Kept(f)
              /\ follow'[f].aborted = (follow[f].aborted \/ (screen.controller # 0 /\ f = screen.controller))
<1>1. \A f \in Follows : follow[f] \in Streams
  BY DEF ScreenIInv, ScreenTypes
<1>2. ASSUME NEW f \in Follows, NEW a \in BOOLEAN, NEW new, new = [follow[f] EXCEPT !.aborted = a]
      PROVE  /\ new \in Streams /\ new.aborted = a /\ new.stage = follow[f].stage /\ new.chat = follow[f].chat
             /\ new.at = follow[f].at /\ new.text = follow[f].text
             /\ new.version = follow[f].version /\ new.signal = follow[f].signal
  BY <1>1, <1>2 DEF Streams
<1>3. ASSUME NEW f \in Follows
      PROVE  /\ follow'[f] \in Streams /\ Kept(f)
             /\ follow'[f].aborted = (follow[f].aborted \/ (screen.controller # 0 /\ f = screen.controller))
  <2>1. PICK a \in BOOLEAN : a = (follow[f].aborted \/ (screen.controller # 0 /\ f = screen.controller))
    OBVIOUS
  <2>2. follow'[f] = [follow[f] EXCEPT !.aborted = a]
    BY <2>1 DEF Aborts
  <2>3. /\ follow'[f] \in Streams /\ follow'[f].aborted = a /\ follow'[f].stage = follow[f].stage
        /\ follow'[f].chat = follow[f].chat /\ follow'[f].at = follow[f].at
        /\ follow'[f].text = follow[f].text /\ follow'[f].version = follow[f].version
        /\ follow'[f].signal = follow[f].signal
    BY <1>2, <2>2
  <2>. QED  BY <2>1, <2>3 DEF Kept
<1>4. follow' = [f \in Follows |-> follow'[f]]
  BY DEF Aborts
<1>. QED  BY <1>3, <1>4

\* The streams are given up, and no conversation's replies change but for what is cleared.
LEMMA GivingUpKeeps ==
  ASSUME ScreenIInv, Aborts, UNCHANGED talk, screen' \in Shown,
         screen'.controller = 0, ~screen'.streaming,
         \/ screen'.reply = screen.reply /\ screen'.version = screen.version /\ screen'.chat = screen.chat
         \/ \A c \in Screens : screen'.reply[c] = {},
         views' \in Seq(Views), StoredRowsAreWhole',
         ~overlapped' => ~overlapped,
         ~overlapped' => \A i, j \in DOMAIN views' : views'[i].stage # "over" /\ views'[j].stage # "over" => i = j
  PROVE  ScreenIInv'
<1>. USE DEF ScreenIInv
<1>1. /\ follow' \in [Follows -> Streams]
      /\ \A f \in Follows :
           /\ Kept(f)
           /\ follow'[f].aborted = (follow[f].aborted \/ (screen.controller # 0 /\ f = screen.controller))
  BY AbortsGive
<1>2. Advances
  BY StillAdvances
<1>3. ScreenTypes'
  BY <1>1 DEF ScreenTypes
<1>4. StreamsAreOfChats' /\ StreamsAreCounted'
  BY <1>1, <1>2, StreamsStay
<1>5. ShownRowsAreWhole'
  <2>1. CASE \A c \in Screens : screen'.reply[c] = {}
    BY <2>1 DEF ShownRowsAreWhole
  <2>2. CASE screen'.reply = screen.reply /\ screen'.version = screen.version
    BY <1>1, <1>2, <2>2, ShownStay DEF WritesIn, Kept
  <2>. QED  BY <2>1, <2>2
<1>6. CalmScreen'
  <2>. SUFFICES ASSUME ~overlapped' PROVE CalmScreen'
    BY DEF CalmScreen
  <2>1. \A c \in Screens : screen'.reply[c] # {} => c = screen'.chat
    BY DEF CalmScreen
  <2>2. \A f \in Follows : Waits(f)' => follow'[f].aborted
    <3>1. \A f \in Follows : Waits(f) /\ ~follow[f].aborted => screen.controller = f /\ f # 0
      BY FollowsAre DEF CalmScreen
    <3>. QED  BY <1>1, <3>1 DEF Waits, Kept
  <2>3. \A f \in Follows : follow'[f].stage = "reading" => follow'[f].signal = f
    BY <1>1 DEF CalmScreen, Kept
  <2>. QED  BY <2>1, <2>2, <2>3 DEF CalmScreen
<1>. QED  BY <1>3, <1>4, <1>5, <1>6

LEMMA OpensViewKeeps == ASSUME ScreenIInv, NEW c \in Screens, OpensView(c) PROVE ScreenIInv'
<1>. USE DEF ScreenIInv
<1>1. PICK v : v = [chat |-> c, stage |-> "asked", row |-> {}]
  OBVIOUS
<1>2. v \in Views /\ v.row = {}
  BY <1>1 DEF Views, RowSets
<1>3. Aborts /\ UNCHANGED talk /\ screen' = [screen EXCEPT !.controller = 0, !.streaming = FALSE]
      /\ views' = Append(views, v)
      /\ overlapped' = (overlapped \/ \E i \in DOMAIN views : views[i].stage # "over")
  BY <1>1 DEF OpensView
<1>4. screen' \in Shown /\ screen'.controller = 0 /\ ~screen'.streaming
      /\ screen'.reply = screen.reply /\ screen'.version = screen.version /\ screen'.chat = screen.chat
  BY <1>3 DEF ScreenTypes, Shown
<1>5. /\ views' \in Seq(Views) /\ DOMAIN views' = 1..Len(views) + 1 /\ Len(views) \in Nat
      /\ DOMAIN views = 1..Len(views)
      /\ \A i \in 1..Len(views) : views'[i] = views[i]
      /\ views'[Len(views) + 1] = v
  <2>1. views \in Seq(Views)
    BY DEF ScreenTypes
  <2>2. /\ views' \in Seq(Views) /\ Len(views') = Len(views) + 1 /\ Len(views) \in Nat
        /\ \A i \in 1..Len(views) : views'[i] = views[i]
        /\ views'[Len(views) + 1] = v
    BY <1>2, <1>3, <2>1, AppendProperties, LenProperties
  <2>. QED  BY <2>1, <2>2, LenProperties
<1>6. StoredRowsAreWhole'
  <2>1. \A i \in DOMAIN views' : i \in DOMAIN views \/ views'[i] = v
    BY <1>5
  <2>2. \A d \in Screens : \A r \in talk[d].row : IsWhole(d, r)'
    BY <1>3 DEF StoredRowsAreWhole, IsWhole, Ended
  <2>3. ASSUME NEW i \in DOMAIN views', NEW r \in views'[i].row PROVE IsWhole(views[i].chat, r)'
    <3>1. i \in DOMAIN views /\ views'[i] = views[i]
      BY <1>2, <1>5, <2>1, <2>3
    <3>. QED  BY <1>3, <2>3, <3>1 DEF StoredRowsAreWhole, IsWhole, Ended
  <2>. QED  BY <1>3, <2>2, <2>3 DEF StoredRowsAreWhole
<1>7. ASSUME ~overlapped'
      PROVE  \A i, j \in DOMAIN views' : views'[i].stage # "over" /\ views'[j].stage # "over" => i = j
  <2>1. \A i \in 1..Len(views) : views'[i].stage = "over"
    BY <1>3, <1>5, <1>7
  <2>. QED  BY <1>5, <2>1
<1>. QED  BY <1>3, <1>4, <1>5, <1>6, <1>7, GivingUpKeeps

LEMMA StoredIsStill == ASSUME ScreenIInv, UNCHANGED <<talk, views>> PROVE StoredRowsAreWhole'
BY DEF ScreenIInv, StoredRowsAreWhole, IsWhole, Ended

LEMMA StopsKeeps == ASSUME ScreenIInv, Stops PROVE ScreenIInv'
<1>1. Aborts /\ UNCHANGED <<talk, views, overlapped>>
      /\ screen' = [screen EXCEPT !.controller = 0, !.streaming = FALSE]
  BY DEF Stops
<1>2. screen' \in Shown /\ screen'.controller = 0 /\ ~screen'.streaming
      /\ screen'.reply = screen.reply /\ screen'.version = screen.version /\ screen'.chat = screen.chat
  BY <1>1 DEF ScreenIInv, ScreenTypes, Shown
<1>3. StoredRowsAreWhole'
  BY <1>1, StoredIsStill
<1>. QED  BY <1>1, <1>2, <1>3, GivingUpKeeps DEF ScreenIInv, ScreenTypes, CalmScreen

LEMMA ResetsKeeps == ASSUME ScreenIInv, Resets PROVE ScreenIInv'
<1>1. Aborts /\ UNCHANGED <<talk, views>> /\ (~overlapped' => ~overlapped)
      /\ screen' = [screen EXCEPT !.chat = NoChat, !.version = @ + 1, !.controller = 0,
                                  !.streaming = FALSE, !.reply = [c \in Screens |-> {}]]
  BY DEF Resets
<1>2. screen' \in Shown /\ screen'.controller = 0 /\ ~screen'.streaming
      /\ \A c \in Screens : screen'.reply[c] = {}
  <2>. DEFINE none == [c \in Screens |-> {}]
  <2>1. screen \in Shown /\ none \in [Screens -> RowSets] /\ \A c \in Screens : none[c] = {}
    BY DEF ScreenIInv, ScreenTypes, RowSets
  <2>2. PICK n \in Nat : n = screen.version + 1
    BY <2>1 DEF Shown
  <2>3. screen' = [screen EXCEPT !.chat = NoChat, !.version = n, !.controller = 0,
                                 !.streaming = FALSE, !.reply = none]
    BY <1>1, <2>2
  <2>. HIDE DEF none
  <2>. QED  BY <2>1, <2>3 DEF Shown
<1>3. StoredRowsAreWhole'
  BY <1>1, StoredIsStill
<1>. QED  BY <1>1, <1>2, <1>3, GivingUpKeeps DEF ScreenIInv, ScreenTypes, CalmScreen

\* One view changes its progress; it is pending only if it was.
LEMMA ViewKeeps ==
  ASSUME ScreenIInv, NEW i \in DOMAIN views, NEW v \in Views, views' = [views EXCEPT ![i] = v],
         UNCHANGED <<talk, screen, follow, overlapped>>,
         v.stage # "over" => views[i].stage # "over",
         \A r \in v.row : IsWhole(v.chat, r)
  PROVE  ScreenIInv'
<1>. USE DEF ScreenIInv
<1>1. views \in Seq(Views) /\ DOMAIN views = 1..Len(views)
  BY ViewsAre DEF ScreenTypes
<1>2. /\ views' \in Seq(Views) /\ DOMAIN views' = DOMAIN views
      /\ \A j \in DOMAIN views : views'[j] = IF j = i THEN v ELSE views[j]
  BY <1>1, ExceptSeq
<1>3. ScreenTypes'
  BY <1>2 DEF ScreenTypes
<1>4. StreamsAreOfChats' /\ StreamsAreCounted'
  BY StreamsStay, StillAdvances DEF Kept
<1>5. StoredRowsAreWhole'
  BY <1>2 DEF StoredRowsAreWhole, IsWhole, Ended
<1>6. ShownRowsAreWhole'
  BY ShownStay, StillAdvances DEF WritesIn
<1>7. CalmScreen'
  BY <1>2 DEF CalmScreen, Waits
<1>. QED  BY <1>3, <1>4, <1>5, <1>6, <1>7

LEMMA ViewIsReadKeeps == ASSUME ScreenIInv, NEW i \in DOMAIN views, ViewIsRead(i) PROVE ScreenIInv'
<1>1. PICK v : v = [views[i] EXCEPT !.stage = "read", !.row = talk[views[i].chat].row]
  OBVIOUS
<1>2. views[i] \in Views /\ views[i].chat \in Screens
  BY ViewsAre DEF ScreenIInv
<1>3. talk[views[i].chat].row \in RowSets
  BY <1>2 DEF ScreenIInv, ScreenTypes, Talks
<1>4. v \in Views /\ v.chat = views[i].chat /\ v.row = talk[views[i].chat].row
  BY <1>1, <1>2, <1>3 DEF Views
<1>5. views' = [views EXCEPT ![i] = v] /\ views[i].stage = "asked"
      /\ UNCHANGED <<talk, screen, follow, overlapped>>
  BY <1>1 DEF ViewIsRead
<1>6. \A r \in v.row : IsWhole(v.chat, r)
  BY <1>2, <1>4 DEF ScreenIInv, StoredRowsAreWhole
<1>. QED  BY <1>4, <1>5, <1>6, ViewKeeps

LEMMA OverViewIs == ASSUME NEW v \in Views PROVE Over(v) \in Views /\ Over(v).stage = "over" /\ Over(v).row = {}
BY DEF Over, Views, RowSets

LEMMA ViewFailsKeeps == ASSUME ScreenIInv, NEW i \in DOMAIN views, ViewFails(i) PROVE ScreenIInv'
<1>1. PICK v : v = Over(views[i])
  OBVIOUS
<1>2. v \in Views /\ v.stage = "over" /\ v.row = {}
  BY <1>1, OverViewIs, ViewsAre DEF ScreenIInv
<1>3. views' = [views EXCEPT ![i] = v] /\ UNCHANGED <<talk, screen, follow, overlapped>>
  BY <1>1 DEF ViewFails
<1>. QED  BY <1>2, <1>3, ViewKeeps

\* Nobody waits where everything is settled and no stream is the store's, or none streams.
LEMMA NobodyWaits ==
  ASSUME ScreenIInv, Settled, ~overlapped,
         \/ screen.controller = 0
         \/ ~screen.streaming /\ \A g \in Follows : follow[g].stage # "asking"
  PROVE  \A g \in Follows : ~Waits(g)
BY FollowsAre DEF ScreenIInv, CalmScreen, Settled, Waits

\* A stream that is asked for.
Asked(new, c) ==
  new \in Streams /\ new.stage = "asking" /\ new.chat = c /\ new.at = 0 /\ new.text = 0 /\ ~new.aborted

LEMMA AskedIs ==
  ASSUME NEW c \in Screens
  PROVE  /\ Asked([NoFollow EXCEPT !.stage = "asking", !.chat = c], c)
         /\ Asked([NoFollow EXCEPT !.stage = "asking", !.chat = c, !.sending = TRUE], c)
<1>. HIDE DEF NoFollow
<1>. QED  BY NoFollowIs DEF Asked, Streams

LEMMA AskingKeeps ==
  ASSUME ScreenIInv, NEW f \in Follows, NEW c \in Screens, NEW new,
         Asked(new, c), follow' = [follow EXCEPT ![f] = new],
         follow[f].stage = "unused", UNCHANGED talk
  PROVE  /\ follow' \in [Follows -> Streams] /\ StreamsAreOfChats' /\ StreamsAreCounted'
         /\ follow'[f].stage = "asking" /\ follow'[f].chat = c /\ ~follow'[f].aborted
         /\ \A g \in Follows \ {f} : follow'[g] = follow[g]
<1>1. new \in Streams /\ new.stage = "asking" /\ new.chat = c /\ new.at = 0 /\ new.text = 0 /\ ~new.aborted
  BY DEF Asked
<1>2. /\ follow' \in [Follows -> Streams]
      /\ \A g \in Follows : follow'[g] = IF g = f THEN new ELSE follow[g]
  BY <1>1 DEF ScreenIInv, ScreenTypes
<1>3. Right(f)'
  BY <1>1, <1>2 DEF Right, Counted
<1>4. \A g \in Follows \ {f} : Kept(g)
  BY <1>2 DEF Kept
<1>. QED  BY <1>1, <1>2, <1>3, <1>4, StillAdvances, StreamsStayBut

LEMMA ViewArrivesKeeps ==
  ASSUME ScreenIInv, NEW i \in DOMAIN views, NEW f \in Follows, ViewArrives(i, f) PROVE ScreenIInv'
<1>. USE DEF ScreenIInv
<1>1. PICK v : v = views[i]
  OBVIOUS
<1>2. PICK over : over = Over(v)
  OBVIOUS
<1>3. PICK new : new = [NoFollow EXCEPT !.stage = "asking", !.chat = v.chat]
  OBVIOUS
<1>4. v \in Views /\ v.chat \in Screens /\ v.row \in RowSets /\ over \in Views /\ over.stage = "over" /\ over.row = {}
  BY <1>1, <1>2, OverViewIs, ViewsAre DEF Views
<1>. DEFINE pane == [c \in Screens |-> IF c = v.chat THEN v.row ELSE {}]
<1>5. /\ Settled /\ v.stage = "read" /\ Fresh(f)
      /\ views' = [views EXCEPT ![i] = over]
      /\ screen' = [screen EXCEPT !.chat = v.chat, !.version = @ + 1, !.controller = f, !.reply = pane]
      /\ UNCHANGED <<talk, watch, overlapped>>
  BY <1>1, <1>2 DEF ViewArrives
<1>6. follow' = [follow EXCEPT ![f] = new] /\ Asked(new, v.chat)
  BY <1>1, <1>3, <1>4, AskedIs DEF ViewArrives
<1>7. follow[f].stage = "unused"
  BY <1>5 DEF Fresh
<1>8. /\ follow' \in [Follows -> Streams] /\ StreamsAreOfChats' /\ StreamsAreCounted'
      /\ follow'[f].stage = "asking" /\ follow'[f].chat = v.chat /\ ~follow'[f].aborted
      /\ \A g \in Follows \ {f} : follow'[g] = follow[g]
  BY <1>3, <1>4, <1>5, <1>6, <1>7, AskingKeeps
<1>9. /\ screen' \in Shown /\ screen'.chat = v.chat /\ screen'.controller = f /\ screen'.reply = pane
  <2>1. pane \in [Screens -> RowSets]
    BY <1>4 DEF RowSets
  <2>2. PICK n \in Nat : n = screen.version + 1
    BY DEF ScreenTypes, Shown
  <2>3. screen' = [screen EXCEPT !.chat = v.chat, !.version = n, !.controller = f, !.reply = pane]
    BY <1>5, <2>2
  <2>. HIDE DEF pane
  <2>. QED  BY <1>4, <2>1, <2>3 DEF ScreenTypes, Shown
<1>10. views \in Seq(Views) /\ DOMAIN views = 1..Len(views)
  BY ViewsAre DEF ScreenTypes
<1>11. /\ views' \in Seq(Views) /\ DOMAIN views' = DOMAIN views
       /\ \A j \in DOMAIN views : views'[j] = IF j = i THEN over ELSE views[j]
  BY <1>4, <1>5, <1>10, ExceptSeq
<1>12. ScreenTypes'
  BY <1>5, <1>8, <1>9, <1>11 DEF ScreenTypes
<1>13. StoredRowsAreWhole'
  BY <1>4, <1>5, <1>11 DEF StoredRowsAreWhole, IsWhole, Ended
<1>14. ShownRowsAreWhole'
  <2>1. \A r \in v.row : IsWhole(v.chat, r)
    BY <1>1 DEF StoredRowsAreWhole
  <2>. QED  BY <1>5, <1>9, <2>1 DEF ShownRowsAreWhole, IsWhole, Ended
<1>15. CalmScreen'
  <2>. SUFFICES ASSUME ~overlapped PROVE CalmScreen'
    BY <1>5 DEF CalmScreen
  <2>1. screen.controller = 0 /\ \A j \in DOMAIN views : views[j].stage # "over" => j = i
    BY <1>1, <1>5 DEF CalmScreen
  <2>2. \A g \in Follows : ~Waits(g)
    BY <1>5, <2>1, NobodyWaits
  <2>3. \A j \in DOMAIN views' : views'[j].stage = "over"
    BY <1>4, <1>11, <2>1
  <2>4. \A c \in Screens : screen'.reply[c] # {} => c = screen'.chat
    BY <1>9
  <2>5. \A g \in Follows : Waits(g)' => g = f
    BY <1>8, <2>2 DEF Waits
  <2>6. \A g \in Follows : follow'[g].stage # "reading"
    BY <1>8, <2>2 DEF Waits
  <2>. QED  BY <1>8, <1>9, <2>3, <2>4, <2>5, <2>6 DEF CalmScreen
<1>. QED  BY <1>8, <1>12, <1>13, <1>14, <1>15

-----------------------------------------------------------------------------
(* Asking for streams *)

LEMMA SendsMessageKeeps == ASSUME ScreenIInv, NEW f \in Follows, SendsMessage(f) PROVE ScreenIInv'
<1>. USE DEF ScreenIInv
<1>1. PICK c : c = screen.chat
  OBVIOUS
<1>2. PICK new : new = [NoFollow EXCEPT !.stage = "asking", !.chat = c, !.sending = TRUE]
  OBVIOUS
<1>3. /\ Settled /\ c # NoChat /\ ~screen.streaming /\ Fresh(f)
      /\ screen' = [screen EXCEPT !.streaming = TRUE, !.controller = f]
      /\ follow' = [follow EXCEPT ![f] = new]
      /\ overlapped' = (overlapped \/ (\E i \in DOMAIN views : views[i].stage # "over")
                                   \/ \E g \in Follows : follow[g].stage = "asking")
      /\ UNCHANGED <<talk, views>>
  BY <1>1, <1>2 DEF SendsMessage
<1>4. c \in Screens
  BY <1>1, <1>3 DEF ScreenTypes, Shown
<1>5. follow[f].stage = "unused"
  BY <1>3 DEF Fresh
<1>6. /\ follow' \in [Follows -> Streams] /\ StreamsAreOfChats' /\ StreamsAreCounted'
      /\ follow'[f].stage = "asking" /\ follow'[f].chat = c /\ ~follow'[f].aborted
      /\ \A g \in Follows \ {f} : follow'[g] = follow[g]
  <2>1. Asked(new, c)
    BY <1>2, <1>4, AskedIs
  <2>. QED  BY <1>3, <1>4, <1>5, <2>1, AskingKeeps
<1>7. screen' \in Shown /\ screen'.controller = f /\ screen'.chat = c
      /\ screen'.reply = screen.reply /\ screen'.version = screen.version
  BY <1>1, <1>3 DEF ScreenTypes, Shown
<1>8. ScreenTypes'
  BY <1>3, <1>6, <1>7 DEF ScreenTypes
<1>9. StoredRowsAreWhole'
  BY <1>3, StoredIsStill
<1>10. ShownRowsAreWhole'
  <2>1. \A d \in Screens : \A g \in Follows : WritesIn(g, d) => WritesIn(g, d)'
    BY <1>5, <1>6, <1>7 DEF WritesIn
  <2>. QED  BY <1>3, <1>7, <2>1, StillAdvances, ShownStay
<1>11. CalmScreen'
  <2>. SUFFICES ASSUME ~overlapped' PROVE CalmScreen'
    BY DEF CalmScreen
  <2>1. /\ ~overlapped /\ (\A i \in DOMAIN views : views[i].stage = "over")
        /\ \A g \in Follows : follow[g].stage # "asking"
    BY <1>3
  <2>2. \A g \in Follows : ~Waits(g)
    BY <1>3, <2>1, NobodyWaits
  <2>3. \A g \in Follows : Waits(g)' => g = f
    BY <1>6, <2>2 DEF Waits
  <2>4. \A g \in Follows : follow'[g].stage # "reading"
    BY <1>6, <2>2 DEF Waits
  <2>5. \A d \in Screens : screen'.reply[d] # {} => d = screen'.chat
    BY <1>1, <1>7, <2>1 DEF CalmScreen
  <2>. QED  BY <1>3, <1>6, <1>7, <2>1, <2>3, <2>4, <2>5 DEF CalmScreen
<1>. QED  BY <1>6, <1>8, <1>9, <1>10, <1>11

\* The stream is read with the signal of the controller that is the store's by now.
LEMMA FollowKeeps ==
  ASSUME ScreenIInv, NEW f \in Follows, Asking(f), Follow(f), UNCHANGED <<views, overlapped>>,
         talk' \in [Screens -> Talks], Advances, StoredRowsAreWhole',
         talk'[follow[f].chat].stage # "none"
  PROVE  ScreenIInv'
<1>. USE DEF ScreenIInv
<1>1. PICK stage : stage = IF screen.controller = 0 THEN "thrown" ELSE "reading"
  OBVIOUS
<1>2. PICK new : new = [follow[f] EXCEPT !.stage = stage, !.signal = screen.controller]
  OBVIOUS
<1>3. follow[f] \in Streams /\ screen \in Shown /\ follow[f].stage = "asking" /\ ~follow[f].aborted
      /\ follow[f].chat \in Screens
  BY DEF ScreenTypes, Asking, StreamsAreOfChats
<1>4. /\ new \in Streams /\ new.stage = stage /\ new.signal = screen.controller
      /\ new.chat = follow[f].chat /\ new.at = follow[f].at /\ new.text = follow[f].text
      /\ new.aborted = follow[f].aborted /\ new.version = follow[f].version
  BY <1>1, <1>2, <1>3 DEF Streams, Shown
<1>5. /\ follow' = [follow EXCEPT ![f] = new]
      /\ screen' = [screen EXCEPT !.streaming = TRUE, !.sink = IF screen.controller = 0 THEN @ ELSE f]
  BY <1>1, <1>2 DEF Follow
<1>6. /\ follow' \in [Follows -> Streams]
      /\ \A g \in Follows : follow'[g] = IF g = f THEN new ELSE follow[g]
  BY <1>4, <1>5 DEF ScreenTypes
<1>7. /\ screen' \in Shown /\ screen'.streaming /\ screen'.reply = screen.reply
      /\ screen'.version = screen.version /\ screen'.chat = screen.chat
      /\ screen'.controller = screen.controller
  BY <1>3, <1>5 DEF Shown
<1>8. ScreenTypes'
  BY <1>6, <1>7 DEF ScreenTypes
<1>9. Right(f)'
  <2>1. follow[f].at = 0 /\ follow[f].text = 0
    BY <1>3 DEF StreamsAreCounted, Counted, Streams
  <2>. QED  BY <1>3, <1>4, <1>6, <2>1 DEF Right, Counted
<1>10. StreamsAreOfChats' /\ StreamsAreCounted'
  BY <1>6, <1>9, StreamsStayBut DEF Kept
<1>11. ShownRowsAreWhole'
  <2>1. \A d \in Screens : \A g \in Follows : WritesIn(g, d) => WritesIn(g, d)'
    BY <1>3, <1>6, <1>7 DEF WritesIn
  <2>. QED  BY <1>7, <2>1, ShownStay
<1>12. CalmScreen'
  <2>. SUFFICES ASSUME ~overlapped PROVE CalmScreen'
    BY DEF CalmScreen
  <2>1. screen.controller = f /\ f # 0 /\ follow[f].chat = screen.chat
    BY <1>3, FollowsAre DEF CalmScreen, Waits
  <2>2. stage = "reading" /\ new.signal = f
    BY <1>1, <1>4, <2>1
  <2>3. \A g \in Follows : Waits(g)' => Waits(g)
    BY <1>3, <1>6 DEF Waits
  <2>4. \A g \in Follows : Waits(g)' =>
          IF follow'[g].aborted THEN screen'.controller = 0
          ELSE /\ follow'[g].chat = screen'.chat /\ screen'.controller = g
               /\ follow'[g].stage = "reading" => screen'.streaming
    BY <1>4, <1>6, <1>7, <2>3 DEF CalmScreen
  <2>5. \A g \in Follows : follow'[g].stage = "reading" => follow'[g].signal = g
    BY <1>6, <2>2 DEF CalmScreen
  <2>. QED  BY <1>7, <2>4, <2>5 DEF CalmScreen
<1>. QED  BY <1>8, <1>10, <1>11, <1>12

LEMMA AttachIsAnsweredKeeps == ASSUME ScreenIInv, NEW f \in Follows, AttachIsAnswered(f) PROVE ScreenIInv'
<1>1. Asking(f) /\ Follow(f) /\ UNCHANGED <<talk, views, overlapped>> /\ talk[follow[f].chat].stage # "none"
  BY DEF AttachIsAnswered, Readable
<1>2. talk' \in [Screens -> Talks] /\ Advances /\ StoredRowsAreWhole'
  BY <1>1, StillAdvances, StoredIsStill DEF ScreenIInv, ScreenTypes
<1>. QED  BY <1>1, <1>2, FollowKeeps

LEMMA SendIsAnsweredKeeps == ASSUME ScreenIInv, NEW f \in Follows, SendIsAnswered(f) PROVE ScreenIInv'
<1>1. PICK c : c = follow[f].chat
  OBVIOUS
<1>2. PICK new : new = [talk[c] EXCEPT !.stage = "running"]
  OBVIOUS
<1>3. /\ Asking(f) /\ Follow(f) /\ UNCHANGED <<views, overlapped>> /\ talk[c].stage = "none"
      /\ talk' = [talk EXCEPT ![c] = new]
  BY <1>1, <1>2 DEF SendIsAnswered
<1>4. c \in Screens
  BY <1>1, <1>3 DEF ScreenIInv, StreamsAreOfChats, Asking
<1>5. new \in Talks /\ new.stage = "running" /\ new.log = talk[c].log /\ new.row = talk[c].row
  BY <1>2, <1>4 DEF ScreenIInv, ScreenTypes, Talks
<1>6. talk' \in [Screens -> Talks] /\ \A d \in Screens : talk'[d] = IF d = c THEN new ELSE talk[d]
  BY <1>3, <1>4, <1>5 DEF ScreenIInv, ScreenTypes
<1>7. Advances
  BY <1>3, <1>5, <1>6 DEF Advances, Ended
<1>8. StoredRowsAreWhole'
  BY <1>3, <1>5, <1>6, <1>7, StoredStays
<1>9. talk'[follow[f].chat].stage # "none"
  BY <1>1, <1>4, <1>5, <1>6
<1>. QED  BY <1>3, <1>6, <1>7, <1>8, <1>9, FollowKeeps

LEMMA SpentIs ==
  ASSUME ScreenTypes, NEW f \in Follows, NEW new, new = Spent(f)
  PROVE  new \in Streams /\ new.stage = "over" /\ new.at = 0 /\ new.text = 0
<1>1. follow[f].aborted \in BOOLEAN
  BY DEF ScreenTypes, Streams
<1>. HIDE DEF NoFollow
<1>. QED  BY <1>1, NoFollowIs DEF Spent, Streams

\* One that waited is over: if nothing overlapped, nobody else waited with it.
LEMMA WaitersAreAlone ==
  ASSUME ScreenIInv, ~overlapped, NEW f \in Follows, Waits(f), NEW g \in Follows, g # f, Waits(g)
  PROVE  follow[g].aborted /\ screen.controller = 0
BY FollowsAre DEF ScreenIInv, CalmScreen

LEMMA AskFailsKeeps == ASSUME ScreenIInv, NEW f \in Follows, AskFails(f) PROVE ScreenIInv'
<1>. USE DEF ScreenIInv
<1>1. PICK new : new = Spent(f)
  OBVIOUS
<1>2. PICK on : on = IF follow[f].sending THEN FALSE ELSE screen.streaming
  OBVIOUS
<1>3. /\ follow[f].stage = "asking" /\ follow' = [follow EXCEPT ![f] = new]
      /\ screen' = [screen EXCEPT !.controller = 0, !.streaming = on]
      /\ UNCHANGED <<talk, views, overlapped>>
  BY <1>1, <1>2 DEF AskFails
<1>4. new \in Streams /\ new.stage = "over" /\ new.at = 0 /\ new.text = 0
  BY <1>1, SpentIs
<1>5. /\ follow' \in [Follows -> Streams]
      /\ \A g \in Follows : follow'[g] = IF g = f THEN new ELSE follow[g]
  BY <1>3, <1>4 DEF ScreenTypes
<1>6. /\ screen' \in Shown /\ screen'.reply = screen.reply /\ screen'.version = screen.version
      /\ screen'.chat = screen.chat /\ screen'.controller = 0
  BY <1>2, <1>3 DEF ScreenTypes, Shown
<1>7. ScreenTypes'
  BY <1>3, <1>5, <1>6 DEF ScreenTypes
<1>8. StreamsAreOfChats' /\ StreamsAreCounted'
  <2>1. Right(f)'
    BY <1>4, <1>5 DEF Right, Counted
  <2>. QED  BY <1>3, <1>5, <2>1, StillAdvances, StreamsStayBut DEF Kept
<1>9. StoredRowsAreWhole'
  BY <1>3, StoredIsStill
<1>10. ShownRowsAreWhole'
  <2>1. \A d \in Screens : \A g \in Follows : WritesIn(g, d) => WritesIn(g, d)'
    BY <1>3, <1>5, <1>6 DEF WritesIn
  <2>. QED  BY <1>3, <1>6, <2>1, StillAdvances, ShownStay
<1>11. CalmScreen'
  <2>. SUFFICES ASSUME ~overlapped PROVE CalmScreen'
    BY <1>3 DEF CalmScreen
  <2>1. Waits(f)
    BY <1>3 DEF Waits
  <2>2. \A g \in Follows : Waits(g)' => g # f /\ Waits(g)
    BY <1>4, <1>5 DEF Waits
  <2>3. \A g \in Follows : Waits(g)' => follow'[g].aborted
    BY <1>5, <2>1, <2>2, WaitersAreAlone
  <2>4. \A g \in Follows : follow'[g].stage = "reading" => follow'[g].signal = g
    BY <1>4, <1>5 DEF CalmScreen
  <2>. QED  BY <1>3, <1>6, <2>3, <2>4 DEF CalmScreen
<1>. QED  BY <1>7, <1>8, <1>9, <1>10, <1>11

-----------------------------------------------------------------------------
(* Reading streams *)

\* Where everything is settled a stream that is read was not given up.
LEMMA ReadersAreLive ==
  ASSUME ScreenIInv, Settled, NEW f \in Follows, follow[f].stage = "reading"
  PROVE  ~follow[f].aborted /\ (~overlapped => follow[f].chat = screen.chat /\ screen.controller = f
                                                /\ screen.streaming /\ follow[f].signal = f)
BY DEF ScreenIInv, Settled, CalmScreen, Waits

\* A stream goes on reading, and may change the reply it writes.
LEMMA ReadingKeeps ==
  ASSUME ScreenIInv, NEW f \in Follows, follow[f].stage = "reading", Settled,
         NEW new \in Streams, follow' = [follow EXCEPT ![f] = new],
         new.stage = "reading", new.chat = follow[f].chat, new.signal = follow[f].signal,
         new.aborted = follow[f].aborted, Right(f)',
         NEW reply \in [Screens -> RowSets], screen' = [screen EXCEPT !.reply = reply],
         \A c \in Screens \ {follow[f].chat} : reply[c] = screen.reply[c],
         \A r \in reply[follow[f].chat] : r.status = "complete" => Ended(follow[f].chat),
         \/ new.version = screen.version
         \/ new.version = follow[f].version /\ reply = screen.reply,
         UNCHANGED <<talk, views, overlapped>>
  PROVE  ScreenIInv'
<1>. USE DEF ScreenIInv
<1>1. PICK c : c = follow[f].chat
  OBVIOUS
<1>2. c \in Screens
  BY <1>1 DEF StreamsAreOfChats
<1>3. /\ follow' \in [Follows -> Streams]
      /\ \A g \in Follows : follow'[g] = IF g = f THEN new ELSE follow[g]
  BY DEF ScreenTypes
<1>4. /\ screen' \in Shown /\ screen'.reply = reply /\ screen'.version = screen.version
      /\ screen'.chat = screen.chat /\ screen'.controller = screen.controller
      /\ screen'.streaming = screen.streaming
  BY DEF ScreenTypes, Shown
<1>5. ScreenTypes'
  BY <1>3, <1>4 DEF ScreenTypes
<1>6. StreamsAreOfChats' /\ StreamsAreCounted'
  BY <1>3, StillAdvances, StreamsStayBut DEF Kept
<1>7. StoredRowsAreWhole'
  BY StoredIsStill
<1>8. ShownRowsAreWhole'
  <2>1. \A d \in Screens : \A g \in Follows : g # f => (WritesIn(g, d)' <=> WritesIn(g, d))
    BY <1>3, <1>4 DEF WritesIn
  <2>2. CASE new.version = screen.version
    <3>1. WritesIn(f, c)'
      BY <1>1, <1>3, <1>4, <2>2 DEF WritesIn
    <3>2. \A d \in Screens : d # c => ~WritesIn(f, d)
      BY <1>1 DEF WritesIn
    <3>3. ASSUME NEW d \in Screens, NEW r \in reply[d], r.status = "complete", d # c,
                 \A g \in Follows : ~WritesIn(g, d)'
          PROVE  r.text = Text(talk[d].log)
      <4>1. \A g \in Follows : ~WritesIn(g, d)
        BY <2>1, <3>2, <3>3
      <4>. QED  BY <1>1, <3>3, <4>1 DEF ShownRowsAreWhole
    <3>4. ASSUME NEW d \in Screens, NEW r \in reply[d], r.status = "complete" PROVE Ended(d)
      BY <1>1, <3>4 DEF ShownRowsAreWhole
    <3>. QED  BY <1>4, <3>1, <3>3, <3>4 DEF ShownRowsAreWhole, Ended
  <2>3. CASE new.version = follow[f].version /\ reply = screen.reply
    <3>1. \A d \in Screens : \A g \in Follows : WritesIn(g, d) => WritesIn(g, d)'
      BY <1>3, <1>4, <2>3 DEF WritesIn
    <3>. QED  BY <1>4, <2>3, <3>1, StillAdvances, ShownStay
  <2>. QED  BY <2>2, <2>3
<1>9. CalmScreen'
  <2>. SUFFICES ASSUME ~overlapped PROVE CalmScreen'
    BY DEF CalmScreen
  <2>1. c = screen.chat
    BY <1>1, ReadersAreLive
  <2>2. \A d \in Screens : reply[d] # {} => d = screen.chat
    BY <1>1, <2>1 DEF CalmScreen
  <2>3. \A g \in Follows : /\ Waits(g)' <=> Waits(g)
                           /\ follow'[g].stage = "reading" <=> follow[g].stage = "reading"
                           /\ follow'[g].aborted = follow[g].aborted /\ follow'[g].chat = follow[g].chat
                           /\ follow'[g].signal = follow[g].signal
    BY <1>3 DEF Waits
  <2>. QED  BY <1>4, <2>2, <2>3 DEF CalmScreen
<1>. QED  BY <1>5, <1>6, <1>7, <1>8, <1>9

LEMMA StartArrivesKeeps == ASSUME ScreenIInv, NEW f \in Follows, StartArrives(f) PROVE ScreenIInv'
<1>. USE DEF ScreenIInv
<1>1. PICK c : c = follow[f].chat
  OBVIOUS
<1>2. PICK row : row = Row(0, 0, 0, "streaming")
  OBVIOUS
<1>3. PICK now : now = IF screen.reply[c] = {} THEN {row} ELSE screen.reply[c]
  OBVIOUS
<1>4. PICK reply : reply = [screen.reply EXCEPT ![c] = now]
  OBVIOUS
<1>5. PICK new : new = [follow[f] EXCEPT !.at = 1, !.version = screen.version]
  OBVIOUS
<1>6. /\ Settled /\ follow[f].stage = "reading" /\ follow[f].at = 0
      /\ follow' = [follow EXCEPT ![f] = new] /\ screen' = [screen EXCEPT !.reply = reply]
      /\ UNCHANGED <<talk, views, overlapped>>
  <2>1. screen' = [screen EXCEPT !.reply[c] = IF @ = {} THEN {Row(0, 0, 0, "streaming")} ELSE @]
    BY <1>1 DEF StartArrives
  <2>2. screen' = [screen EXCEPT !.reply = reply]
    BY <1>2, <1>3, <1>4, <2>1
  <2>. QED  BY <1>5, <2>2 DEF StartArrives, Reads
<1>7. c \in Screens /\ talk[c].log \in Seq(Kinds) /\ talk[c].stage # "none"
  BY <1>1, <1>6 DEF StreamsAreOfChats, ScreenTypes, Talks
<1>8. row \in Rows /\ row.status = "streaming"
  BY <1>2, RowIs
<1>9. screen \in Shown /\ follow[f] \in Streams /\ follow[f].text = 0
  BY <1>6 DEF ScreenTypes, StreamsAreCounted, Counted
<1>10. reply \in [Screens -> RowSets] /\ \A d \in Screens : reply[d] = IF d = c THEN now ELSE screen.reply[d]
  <2>1. now \in RowSets
    BY <1>3, <1>7, <1>8, <1>9 DEF RowSets, Shown
  <2>. QED  BY <1>4, <1>7, <1>9, <2>1 DEF Shown
<1>11. /\ new \in Streams /\ new.stage = "reading" /\ new.chat = c /\ new.signal = follow[f].signal
       /\ new.aborted = follow[f].aborted /\ new.at = 1 /\ new.version = screen.version /\ new.text = 0
  BY <1>1, <1>5, <1>6, <1>9 DEF Streams, Shown
<1>12. follow'[f] = new
  BY <1>6 DEF ScreenTypes
<1>13. Right(f)'
  <2>1. 0 \in 0..Len(talk[c].log) /\ Len(talk[c].log) \in Nat
    BY <1>7, LenProperties
  <2>2. SubSeq(talk[c].log, 1, 0) = <<>>
    BY <1>7, <2>1, FirstFrames
  <2>3. new.at - 1 = 0 /\ new.at > 0 /\ new.at # 0
    BY <1>11
  <2>4. new.at - 1 <= Len(talk[c].log) /\ new.text = Text(SubSeq(talk[c].log, 1, new.at - 1))
    <3>1. Text(SubSeq(talk[c].log, 1, new.at - 1)) = 0
      BY <2>2, <2>3, TextOfNone, Zenon
    <3>. QED  BY <1>11, <2>1, <2>3, <3>1
  <2>5. talk'[follow'[f].chat] = talk[c] /\ follow'[f] = new /\ follow'[f].chat = c
    BY <1>6, <1>11, <1>12
  <2>. QED  BY <1>7, <1>11, <2>3, <2>4, <2>5 DEF Right, Counted
<1>14. \A r \in reply[c] : r.status = "complete" => Ended(c)
  BY <1>3, <1>7, <1>8, <1>10 DEF ShownRowsAreWhole
<1>. QED  BY <1>1, <1>6, <1>10, <1>11, <1>13, <1>14, ReadingKeeps

\* What a stream's update makes of the replies.
LEMMA UpdatesMake ==
  ASSUME ScreenIInv, NEW f \in Follows, follow[f].stage = "reading", NEW now \in RowSets
  PROVE  \E reply \in [Screens -> RowSets] :
           /\ Updates(f, now) = [screen EXCEPT !.reply = reply]
           /\ \A c \in Screens \ {follow[f].chat} : reply[c] = screen.reply[c]
           /\ IF follow[f].version = screen.version THEN reply[follow[f].chat] = now
              ELSE reply = screen.reply
<1>1. PICK c : c = follow[f].chat
  OBVIOUS
<1>2. c \in Screens /\ screen \in Shown
  BY <1>1 DEF ScreenIInv, ScreenTypes, StreamsAreOfChats
<1>3. CASE follow[f].version = screen.version
  <2>1. PICK reply : reply = [screen.reply EXCEPT ![c] = now]
    OBVIOUS
  <2>2. reply \in [Screens -> RowSets] /\ \A d \in Screens : reply[d] = IF d = c THEN now ELSE screen.reply[d]
    BY <1>2, <2>1 DEF Shown
  <2>3. Updates(f, now) = [screen EXCEPT !.reply = reply]
    BY <1>1, <1>3, <2>1 DEF Updates
  <2>. QED  BY <1>1, <1>2, <1>3, <2>2, <2>3
<1>4. CASE follow[f].version # screen.version
  <2>1. PICK reply : reply = screen.reply
    OBVIOUS
  <2>2. screen = [screen EXCEPT !.reply = reply]
    BY <1>2, <2>1 DEF Shown
  <2>3. Updates(f, now) = [screen EXCEPT !.reply = reply]
    BY <1>4, <2>2 DEF Updates
  <2>. QED  BY <1>2, <1>4, <2>1, <2>3 DEF Shown
<1>. QED  BY <1>3, <1>4

LEMMA UpdatingKeeps ==
  ASSUME ScreenIInv, NEW f \in Follows, follow[f].stage = "reading", Settled,
         NEW new \in Streams, follow' = [follow EXCEPT ![f] = new],
         new.stage = "reading", new.chat = follow[f].chat, new.signal = follow[f].signal,
         new.aborted = follow[f].aborted, new.version = follow[f].version, Right(f)',
         NEW now \in RowSets, screen' = Updates(f, now),
         \A r \in now : \E old \in Written(f) : r.status = old.status,
         UNCHANGED <<talk, views, overlapped>>
  PROVE  ScreenIInv'
<1>. USE DEF ScreenIInv
<1>1. PICK reply \in [Screens -> RowSets] :
        /\ screen' = [screen EXCEPT !.reply = reply]
        /\ \A c \in Screens \ {follow[f].chat} : reply[c] = screen.reply[c]
        /\ IF follow[f].version = screen.version THEN reply[follow[f].chat] = now
           ELSE reply = screen.reply
  BY UpdatesMake
<1>2. \A r \in screen.reply[follow[f].chat] : r.status = "complete" => Ended(follow[f].chat)
  BY DEF StreamsAreOfChats, ShownRowsAreWhole
<1>3. \A r \in reply[follow[f].chat] : r.status = "complete" => Ended(follow[f].chat)
  BY <1>1, <1>2 DEF Written
<1>4. new.version = screen.version \/ (new.version = follow[f].version /\ reply = screen.reply)
  BY <1>1
<1>5. \A c \in Screens \ {follow[f].chat} : reply[c] = screen.reply[c]
  BY <1>1
<1>. QED  BY <1>1, <1>3, <1>4, <1>5, ReadingKeeps

LEMMA EventArrivesKeeps == ASSUME ScreenIInv, NEW f \in Follows, EventArrives(f) PROVE ScreenIInv'
<1>. USE DEF ScreenIInv
<1>. DEFINE c == follow[f].chat
            log == talk[c].log
            at == follow[f].at
            kind == log[at]
            text == follow[f].text
            more == IF kind = "delta" THEN text + 1 ELSE IF kind = "retract" THEN text - 1 ELSE text
            out == IF kind = "retract" THEN more ELSE follow[f].published
            new == [follow[f] EXCEPT !.at = at + 1, !.text = more, !.published = out]
            change(r) == CASE kind = "delta" -> r
                           [] kind = "reasoning" -> [r EXCEPT !.thought = @ + 1]
                           [] kind = "tool" -> [r EXCEPT !.tools = @ + 1]
                           [] kind = "retract" -> [r EXCEPT !.thought = @ + 1, !.text = more]
            now == {change(r) : r \in Written(f)}
<1>1. Settled /\ follow[f].stage = "reading" /\ at \in 1..Len(log) /\ UNCHANGED <<talk, views, overlapped>>
  BY DEF EventArrives, Reads
<1>2. screen' = Updates(f, now)
  BY DEF EventArrives
<1>3. follow' = [follow EXCEPT ![f] = new]
  <2>1. follow' = [follow EXCEPT ![f] = [follow[f] EXCEPT !.at = at + 1, !.text = more,
                              !.published = IF kind = "retract" THEN more ELSE follow[f].published]]
    BY DEF EventArrives
  <2>2. follow[f] \in Streams
    BY DEF ScreenTypes
  <2>. HIDE DEF at, kind, more
  <2>3. [follow[f] EXCEPT !.at = at + 1, !.text = more,
                              !.published = IF kind = "retract" THEN more ELSE follow[f].published] = new
    BY <2>2 DEF Streams
  <2>. HIDE DEF new
  <2>. QED  BY <2>1, <2>3
<1>4. /\ new = [follow[f] EXCEPT !.at = at + 1, !.text = more, !.published = out]
      /\ more = (IF kind = "delta" THEN text + 1 ELSE IF kind = "retract" THEN text - 1 ELSE text)
      /\ out = (IF kind = "retract" THEN more ELSE follow[f].published)
  OBVIOUS
<1>. HIDE DEF now, new, out, more
<1>5. c \in Screens /\ log \in Seq(Kinds) /\ talk[c].stage # "none" /\ follow[f] \in Streams
  BY <1>1 DEF StreamsAreOfChats, ScreenTypes, Talks
<1>6. PICK n \in Nat : n + 1 = at /\ n \in 0..Len(log) /\ n + 1 <= Len(log)
  <2>1. Len(log) \in Nat
    BY <1>5, LenProperties
  <2>2. at \in Nat /\ at >= 1 /\ at <= Len(log)
    BY <1>1, <2>1
  <2>3. at - 1 \in Nat /\ at - 1 + 1 = at /\ at - 1 \in 0..Len(log)
    BY <2>1, <2>2
  <2>. QED  BY <2>2, <2>3
<1>. DEFINE before == SubSeq(log, 1, n)
            after == SubSeq(log, 1, n + 1)
<1>7. kind \in Kinds /\ after = Append(before, kind) /\ before \in Seq(Kinds)
  BY <1>5, <1>6, FirstFrames
<1>8. text = Text(before) /\ text \in Int
  <2>1. at > 0 /\ at - 1 = n
    BY <1>6
  <2>2. text = Text(SubSeq(log, 1, at - 1))
    BY <2>1 DEF StreamsAreCounted, Counted
  <2>. QED  BY <1>5, <2>1, <2>2 DEF Streams
<1>. HIDE DEF before, after
<1>9. more = Text(after) /\ more \in Int
  <2>1. Text(Append(before, kind)) = IF kind = "delta" THEN Text(before) + 1
                                     ELSE IF kind = "retract" THEN Text(before) - 1 ELSE Text(before)
    BY <1>7, TextAppends
  <2>. HIDE DEF kind, text
  <2>. QED  BY <1>4, <1>7, <1>8, <2>1
<1>10. after = SubSeq(log, 1, n + 1)
  BY DEF after
<1>. HIDE DEF kind, text, log, c
<1>11. out \in Int
  BY <1>4, <1>5, <1>9 DEF Streams
<1>12. /\ new \in Streams /\ new.stage = "reading" /\ new.chat = c /\ new.signal = follow[f].signal
       /\ new.aborted = follow[f].aborted /\ new.version = follow[f].version
       /\ new.at = at + 1 /\ new.text = more
  <2>1. at + 1 \in Nat
    BY <1>6
  <2>. QED  BY <1>1, <1>4, <1>5, <1>9, <1>11, <2>1 DEF Streams, c
<1>13. follow'[f] = new
  BY <1>3 DEF ScreenTypes
<1>14. Right(f)'
  <2>1. new.at > 0 /\ new.at # 0 /\ new.at - 1 = n + 1 /\ n + 1 <= Len(log)
    BY <1>6, <1>12
  <2>2. new.text = Text(SubSeq(log, 1, new.at - 1))
    BY <1>9, <1>10, <1>12, <2>1, Zenon
  <2>3. talk'[follow'[f].chat].log = log /\ talk'[follow'[f].chat].stage # "none" /\ follow'[f].chat = c
    BY <1>1, <1>5, <1>12, <1>13 DEF log
  <2>. QED  BY <1>5, <1>12, <1>13, <2>1, <2>2, <2>3 DEF Right, Counted
<1>15. \A r \in Written(f) : change(r) \in Rows /\ change(r).status = r.status
  <2>1. \A r \in Written(f) : r \in Rows
    BY <1>5 DEF Written, ScreenTypes, Shown, RowSets, c
  <2>2. ASSUME NEW r \in Rows, kind = "delta" PROVE change(r) \in Rows /\ change(r).status = r.status
    BY <2>2
  <2>3. ASSUME NEW r \in Rows, kind = "reasoning" PROVE change(r) \in Rows /\ change(r).status = r.status
    <3>1. change(r) = [r EXCEPT !.thought = @ + 1]
      BY <2>3
    <3>. HIDE DEF change
    <3>. QED  BY <3>1 DEF Rows
  <2>4. ASSUME NEW r \in Rows, kind = "tool" PROVE change(r) \in Rows /\ change(r).status = r.status
    <3>1. change(r) = [r EXCEPT !.tools = @ + 1]
      BY <2>4
    <3>. HIDE DEF change
    <3>. QED  BY <3>1 DEF Rows
  <2>5. ASSUME NEW r \in Rows, kind = "retract" PROVE change(r) \in Rows /\ change(r).status = r.status
    <3>1. change(r) = [r EXCEPT !.thought = @ + 1, !.text = more]
      BY <2>5
    <3>. HIDE DEF change
    <3>2. PICK k \in Nat : k = r.thought + 1
      BY DEF Rows
    <3>3. PICK mid : mid = [r EXCEPT !.thought = k]
      OBVIOUS
    <3>4. mid \in Rows /\ mid.status = r.status
      BY <3>2, <3>3 DEF Rows
    <3>5. change(r) = [mid EXCEPT !.text = more]
      BY <3>1, <3>2, <3>3 DEF Rows
    <3>. QED  BY <1>9, <3>4, <3>5 DEF Rows
  <2>. HIDE DEF change
  <2>. QED  BY <1>7, <2>1, <2>2, <2>3, <2>4, <2>5 DEF Kinds
<1>. HIDE DEF change
<1>16. now \in RowSets /\ \A r \in now : \E old \in Written(f) : r.status = old.status
  BY <1>15 DEF RowSets, now
<1>. QED  BY <1>1, <1>2, <1>3, <1>12, <1>14, <1>16, UpdatingKeeps DEF c

LEMMA FrameFiresKeeps == ASSUME ScreenIInv, NEW f \in Follows, FrameFires(f) PROVE ScreenIInv'
<1>. USE DEF ScreenIInv
<1>1. PICK text : text = follow[f].text
  OBVIOUS
<1>2. PICK new : new = [follow[f] EXCEPT !.published = text]
  OBVIOUS
<1>. DEFINE now == {[r EXCEPT !.text = text] : r \in Written(f)}
<1>3. /\ Settled /\ follow[f].stage = "reading"
      /\ follow' = [follow EXCEPT ![f] = new] /\ screen' = Updates(f, now)
      /\ UNCHANGED <<talk, views, overlapped>>
  BY <1>1, <1>2 DEF FrameFires, Reads
<1>4. follow[f] \in Streams /\ text \in Int /\ follow[f].chat \in Screens
  BY <1>1, <1>3 DEF ScreenTypes, Streams, StreamsAreOfChats
<1>5. /\ new \in Streams /\ new.stage = "reading" /\ new.chat = follow[f].chat
      /\ new.signal = follow[f].signal /\ new.aborted = follow[f].aborted
      /\ new.version = follow[f].version /\ new.at = follow[f].at /\ new.text = follow[f].text
  BY <1>2, <1>3, <1>4 DEF Streams
<1>6. follow'[f] = new
  BY <1>3 DEF ScreenTypes
<1>7. Right(f)'
  BY <1>3, <1>5, <1>6, StillAdvances, GoodStays DEF Kept
<1>8. now \in RowSets /\ \A r \in now : \E old \in Written(f) : r.status = old.status
  <2>1. \A r \in Written(f) : r \in Rows
    BY <1>4 DEF Written, ScreenTypes, Shown, RowSets
  <2>2. \A r \in Rows : [r EXCEPT !.text = text] \in Rows /\ [r EXCEPT !.text = text].status = r.status
    BY <1>4 DEF Rows
  <2>. QED  BY <2>1, <2>2 DEF RowSets
<1>. HIDE DEF now
<1>. QED  BY <1>3, <1>5, <1>7, <1>8, UpdatingKeeps

\* A stream is over: what it leaves on screen is no complete reply, or a whole one.
LEMMA FinallyKeeps ==
  ASSUME ScreenIInv, NEW f \in Follows, follow[f].stage = "reading",
         NEW now \in RowSets, Finally(f, Updates(f, now)),
         \A r \in now : IsWhole(follow[f].chat, r), Written(f) = {} => now = {},
         UNCHANGED <<talk, views, overlapped>>
  PROVE  ScreenIInv'
<1>. USE DEF ScreenIInv
<1>1. PICK new : new = Spent(f)
  OBVIOUS
<1>2. PICK c : c = follow[f].chat
  OBVIOUS
<1>3. PICK reply \in [Screens -> RowSets] :
        /\ Updates(f, now) = [screen EXCEPT !.reply = reply]
        /\ \A d \in Screens \ {c} : reply[d] = screen.reply[d]
        /\ IF follow[f].version = screen.version THEN reply[c] = now ELSE reply = screen.reply
  BY <1>2, UpdatesMake
<1>4. PICK pane : pane = [screen EXCEPT !.reply = reply]
  OBVIOUS
<1>5. /\ pane \in Shown /\ pane.reply = reply /\ pane.version = screen.version
      /\ pane.chat = screen.chat /\ pane.controller = screen.controller
      /\ pane.streaming = screen.streaming /\ pane.sink = screen.sink
  BY <1>4 DEF ScreenTypes, Shown
<1>6. /\ screen' = IF pane.sink = f
                   THEN [pane EXCEPT !.streaming = FALSE, !.controller = 0, !.sink = 0]
                   ELSE pane
      /\ follow' = [follow EXCEPT ![f] = new]
  BY <1>1, <1>3, <1>4 DEF Finally
<1>7. /\ screen' \in Shown /\ screen'.reply = reply /\ screen'.version = screen.version
      /\ screen'.chat = screen.chat
      /\ screen'.controller = screen.controller \/ screen'.controller = 0
  BY <1>5, <1>6 DEF Shown
<1>8. new \in Streams /\ new.stage = "over" /\ new.at = 0 /\ new.text = 0
  BY <1>1, SpentIs
<1>9. /\ follow' \in [Follows -> Streams]
      /\ \A g \in Follows : follow'[g] = IF g = f THEN new ELSE follow[g]
  BY <1>6, <1>8 DEF ScreenTypes
<1>10. ScreenTypes'
  BY <1>7, <1>9 DEF ScreenTypes
<1>11. StreamsAreOfChats' /\ StreamsAreCounted'
  <2>1. Right(f)'
    BY <1>8, <1>9 DEF Right, Counted
  <2>. QED  BY <1>9, <2>1, StillAdvances, StreamsStayBut DEF Kept
<1>12. StoredRowsAreWhole'
  BY StoredIsStill
<1>13. ShownRowsAreWhole'
  <2>1. \A d \in Screens : \A g \in Follows : g # f => (WritesIn(g, d)' <=> WritesIn(g, d))
    BY <1>7, <1>9 DEF WritesIn
  <2>2. CASE follow[f].version = screen.version
    <3>1. ASSUME NEW d \in Screens, NEW r \in reply[d], r.status = "complete", d # c
          PROVE  Ended(d) /\ ((\A g \in Follows : ~WritesIn(g, d)') => r.text = Text(talk[d].log))
      <4>1. ~WritesIn(f, d)
        BY <1>2, <3>1 DEF WritesIn
      <4>. QED  BY <1>3, <2>1, <3>1, <4>1 DEF ShownRowsAreWhole
    <3>2. \A r \in reply[c] : r.status = "complete" => Ended(c) /\ r.text = Text(talk[c].log)
      BY <1>2, <1>3, <2>2 DEF IsWhole
    <3>. QED  BY <1>7, <3>1, <3>2 DEF ShownRowsAreWhole, Ended
  <2>3. CASE follow[f].version # screen.version
    <3>1. \A d \in Screens : \A g \in Follows : WritesIn(g, d) => WritesIn(g, d)'
      BY <2>1, <2>3 DEF WritesIn
    <3>. QED  BY <1>3, <1>7, <2>3, <3>1, StillAdvances, ShownStay
  <2>. QED  BY <2>2, <2>3
<1>14. CalmScreen'
  <2>. SUFFICES ASSUME ~overlapped PROVE CalmScreen'
    BY DEF CalmScreen
  <2>0. Waits(f)
    BY DEF Waits
  <2>1. \A g \in Follows : Waits(g)' => g # f /\ Waits(g)
    BY <1>8, <1>9 DEF Waits
  <2>2. \A g \in Follows : Waits(g)' => follow'[g].aborted /\ screen'.controller = 0
    BY <1>7, <1>9, <2>0, <2>1, WaitersAreAlone
  <2>3. \A g \in Follows : follow'[g].stage = "reading" => follow'[g].signal = g
    BY <1>8, <1>9 DEF CalmScreen
  <2>4. \A d \in Screens : reply[d] # {} => screen.reply[d] # {}
    BY <1>2, <1>3 DEF Written
  <2>5. \A d \in Screens : screen'.reply[d] # {} => d = screen'.chat
    BY <1>7, <2>4 DEF CalmScreen
  <2>6. (\E i \in DOMAIN views : views[i].stage # "over") => screen'.controller = 0
    BY <1>7 DEF CalmScreen
  <2>. QED  BY <2>2, <2>3, <2>5, <2>6 DEF CalmScreen
<1>. QED  BY <1>10, <1>11, <1>12, <1>13, <1>14

LEMMA WrittenAre ==
  ASSUME ScreenIInv, NEW f \in Follows, follow[f].stage = "reading"
  PROVE  /\ follow[f].chat \in Screens /\ follow[f].text \in Int
         /\ \A r \in Written(f) : r \in Rows
         /\ \A r \in Rows, text \in Int, status \in {"complete", "stopped", "error", "streaming"} :
              LET row == [r EXCEPT !.text = text, !.status = status]
              IN row \in Rows /\ row.text = text /\ row.status = status
<1>1. follow[f].chat \in Screens /\ follow[f].text \in Int
  BY DEF ScreenIInv, ScreenTypes, Streams, StreamsAreOfChats
<1>2. \A r \in Written(f) : r \in Rows
  BY <1>1 DEF Written, ScreenIInv, ScreenTypes, Shown, RowSets
<1>. QED  BY <1>1, <1>2 DEF Rows

LEMMA FollowEndsKeeps == ASSUME ScreenIInv, NEW f \in Follows, FollowEnds(f) PROVE ScreenIInv'
<1>. USE DEF ScreenIInv
<1>1. PICK c : c = follow[f].chat
  OBVIOUS
<1>2. PICK text : text = follow[f].text
  OBVIOUS
<1>. DEFINE last(r) == [r EXCEPT !.text = text, !.status = IF @ = "streaming" THEN "complete" ELSE @]
            now == {last(r) : r \in Written(f)}
<1>3. /\ follow[f].stage = "reading" /\ follow[f].at = Len(talk[c].log) + 1 /\ talk[c].stage # "running"
      /\ Finally(f, Updates(f, now)) /\ UNCHANGED <<talk, views, overlapped>>
  BY <1>1, <1>2 DEF FollowEnds, Reads
<1>4. c \in Screens /\ text \in Int /\ Ended(c) /\ talk[c].log \in Seq(Kinds)
  BY <1>1, <1>2, <1>3 DEF StreamsAreOfChats, ScreenTypes, Streams, Talks, Ended
<1>5. text = Text(talk[c].log)
  <2>0. Len(talk[c].log) \in Nat
    BY <1>4, LenProperties
  <2>1. PICK n \in 0..Len(talk[c].log) : n = Len(talk[c].log)
    BY <2>0
  <2>2. follow[f].at > 0 /\ follow[f].at - 1 = n
    <3>1. n \in Nat /\ follow[f].at = n + 1
      BY <1>3, <2>0, <2>1
    <3>. QED  BY <3>1
  <2>3. text = Text(SubSeq(talk[c].log, 1, follow[f].at - 1))
    BY <1>1, <1>2, <2>2 DEF StreamsAreCounted, Counted
  <2>4. SubSeq(talk[c].log, 1, n) = talk[c].log
    BY <1>4, <2>1, FirstFrames
  <2>. QED  BY <2>2, <2>3, <2>4, Zenon
<1>6. \A r \in Rows : last(r) \in Rows /\ last(r).text = text
  BY <1>4 DEF Rows
<1>. HIDE DEF last
<1>7. now \in RowSets /\ (\A r \in now : r.text = text) /\ (Written(f) = {} => now = {})
  <2>1. \A r \in Written(f) : r \in Rows
    BY <1>3, WrittenAre
  <2>. QED  BY <1>6, <2>1 DEF RowSets
<1>. HIDE DEF now
<1>8. \A r \in now : IsWhole(c, r)
  BY <1>4, <1>5, <1>7 DEF IsWhole
<1>. QED  BY <1>1, <1>3, <1>7, <1>8, FinallyKeeps

LEMMA FollowIsCutKeeps == ASSUME ScreenIInv, NEW f \in Follows, FollowIsCut(f) PROVE ScreenIInv'
<1>1. PICK text : text = follow[f].text
  OBVIOUS
<1>. DEFINE last(r) == [r EXCEPT !.text = text, !.status = "stopped"]
            now == {last(r) : r \in Written(f)}
<1>2. /\ follow[f].stage = "reading"
      /\ Finally(f, Updates(f, now)) /\ UNCHANGED <<talk, views, overlapped>>
  BY <1>1 DEF FollowIsCut
<1>3. text \in Int
  BY <1>1, <1>2, WrittenAre
<1>4. \A r \in Rows : last(r) \in Rows /\ last(r).status = "stopped"
  BY <1>3 DEF Rows
<1>. HIDE DEF last
<1>5. now \in RowSets /\ (\A r \in now : r.status = "stopped") /\ (Written(f) = {} => now = {})
  <2>1. \A r \in Written(f) : r \in Rows
    BY <1>2, WrittenAre
  <2>. QED  BY <1>4, <2>1 DEF RowSets
<1>. HIDE DEF now
<1>6. \A r \in now : IsWhole(follow[f].chat, r)
  BY <1>5 DEF IsWhole
<1>. QED  BY <1>2, <1>5, <1>6, FinallyKeeps

LEMMA FollowBreaksKeeps == ASSUME ScreenIInv, NEW f \in Follows, FollowBreaks(f) PROVE ScreenIInv'
<1>. DEFINE last(r) == [r EXCEPT !.status = "error"]
            now == {last(r) : r \in Written(f)}
<1>1. /\ follow[f].stage = "reading"
      /\ Finally(f, Updates(f, now)) /\ UNCHANGED <<talk, views, overlapped>>
  BY DEF FollowBreaks, Reads
<1>2. \A r \in Rows : last(r) \in Rows /\ last(r).status = "error"
  BY DEF Rows
<1>. HIDE DEF last
<1>3. now \in RowSets /\ (\A r \in now : r.status = "error") /\ (Written(f) = {} => now = {})
  <2>1. \A r \in Written(f) : r \in Rows
    BY <1>1, WrittenAre
  <2>. QED  BY <1>2, <2>1 DEF RowSets
<1>. HIDE DEF now
<1>4. \A r \in now : IsWhole(follow[f].chat, r)
  BY <1>3 DEF IsWhole
<1>. QED  BY <1>1, <1>3, <1>4, FinallyKeeps

LEMMA ScreenStays ==
  ASSUME ScreenIInv, UNCHANGED <<talk, screen, views, follow, overlapped>> PROVE ScreenIInv'
BY StillAdvances, StreamsStay, StoredIsStill, ShownStay, CalmStays
   DEF ScreenIInv, ScreenTypes, Kept, WritesIn

LEMMA ScreenInductive ==
  ASSUME ScreenIInv, [TalkSteps \/ ScreenSteps]_screenVars PROVE ScreenIInv'
<1>1. ASSUME TalkSteps PROVE ScreenIInv'
  BY <1>1, TalkEmitsKeeps, TalkFlushesKeeps, TalkEndsKeeps, TalkIsForgottenKeeps DEF TalkSteps
<1>2. ASSUME NEW c \in Screens, OpensView(c) \/ WatchIsAnswered(c) \/ WatchAnnounces(c) PROVE ScreenIInv'
  BY <1>2, OpensViewKeeps, ScreenStays DEF WatchIsAnswered, WatchAnnounces
<1>3. ASSUME NEW i \in DOMAIN views,
             ViewIsRead(i) \/ ViewFails(i) \/ \E f \in Follows : ViewArrives(i, f)
      PROVE  ScreenIInv'
  BY <1>3, ViewIsReadKeeps, ViewFailsKeeps, ViewArrivesKeeps
<1>4. ASSUME NEW f \in Follows, SendsMessage(f) \/ Arrives(f) \/ FrameFires(f) \/ FollowBreaks(f)
      PROVE  ScreenIInv'
  BY <1>4, SendsMessageKeeps, AttachIsAnsweredKeeps, SendIsAnsweredKeeps, AskFailsKeeps,
     StartArrivesKeeps, EventArrivesKeeps, FollowEndsKeeps, FollowIsCutKeeps, FrameFiresKeeps,
     FollowBreaksKeeps DEF Arrives
<1>5. ASSUME UNCHANGED screenVars PROVE ScreenIInv'
  BY <1>5, ScreenStays DEF screenVars
<1>. QED  BY <1>1, <1>2, <1>3, <1>4, <1>5, StopsKeeps, ResetsKeeps DEF ScreenSteps

\* Whatever screens are switched, streams opened, aborted, lost and picked up again, and however late
\* their events and pages arrive: a stream holds exactly the text of the frames it has read, a reply
\* pane as complete is the whole text of a turn that ended, and where nothing overlaps only the
\* conversation on screen has messages there (stores/conversation.svelte.ts).
THEOREM ScreenHolds == ScreenSpec => []ScreenInv
<1>1. ScreenIInv /\ [TalkSteps \/ ScreenSteps]_screenVars => ScreenIInv'
  BY ScreenInductive
<1>2. ScreenIInv => ScreenInv
  BY ScreenIInvImplies
<1>. QED  BY <1>1, <1>2, ScreenInitially, PTL DEF ScreenSpec

-----------------------------------------------------------------------------
(* Induction and iteration *)

\* A set of natural numbers that is not empty has a least element.
LEMMA LeastOf == ASSUME NEW T \in SUBSET Nat, T # {} PROVE \E x \in T : \A y \in T : x <= y
<1>. DEFINE R == OpToRel(<, Nat)
<1>1. IsWellFoundedOn(R, Nat)
  BY NatLessThanWellFounded
<1>2. \A y \in Nat, z \in Nat : y < z => <<y, z>> \in R
  BY DEF OpToRel
<1>. HIDE DEF R
<1>3. PICK x \in T : \A y \in T : ~ (<<y, x>> \in R)
  BY <1>1, WFMin
<1>4. x \in Nat /\ \A y \in T : y \in Nat /\ ~(y < x)
  BY <1>2, <1>3
<1>. QED  BY <1>4

\* Induction, for a set in place of a predicate.
LEMMA SetInduction ==
  ASSUME NEW P \in SUBSET Nat, 0 \in P, \A n \in P : n + 1 \in P
  PROVE  \A n \in Nat : n \in P
<1>. SUFFICES ASSUME Nat \ P # {} PROVE FALSE
  OBVIOUS
<1>1. PICK x \in Nat \ P : \A y \in Nat \ P : x <= y
  BY LeastOf
<1>2. x # 0 /\ x - 1 \in Nat /\ x - 1 \in P
  BY <1>1
<1>. QED  BY <1>1, <1>2

\* Induction up to a bound.
LEMMA UpTo ==
  ASSUME NEW N \in Nat, NEW P \in SUBSET (0..N), 0 \in P, \A n \in P : n < N => n + 1 \in P
  PROVE  \A n \in 0..N : n \in P
<1>. DEFINE Q == {n \in Nat : n <= N => n \in P}
<1>1. Q \in SUBSET Nat /\ 0 \in Q
  OBVIOUS
<1>2. \A n \in Q : n + 1 \in Q
  OBVIOUS
<1>3. \A n \in Nat : n \in Q
  <2>. HIDE DEF Q
  <2>. QED  BY <1>1, <1>2, SetInduction
<1>. QED  BY <1>3

\* The values of a variable in a loop whose turns are functions.
Turns(N, V) == [1..N -> [V -> V]]
Loops(g, N, V, b, F) == g \in [0..N -> V] /\ g[0] = b /\ \A i \in 1..N : g[i] = F[i][g[i - 1]]

\* What a recursion over 0..N needs: such a loop has values.
LEMMA Iterates ==
  ASSUME NEW N \in Nat, NEW V, NEW b \in V, NEW F \in Turns(N, V)
  PROVE  \E g : Loops(g, N, V, b, F)
<1>. USE DEF Turns, Loops
<1>. DEFINE Runs(g, n) == g \in [0..n -> V] /\ g[0] = b /\ \A i \in 1..n : g[i] = F[i][g[i - 1]]
            P == {n \in 0..N : \E g : Runs(g, n)}
<1>1. 0 \in P
  <2>1. Runs([i \in 0..0 |-> b], 0)
    OBVIOUS
  <2>. HIDE DEF Runs
  <2>. QED  BY <2>1
<1>2. ASSUME NEW n \in P, n < N PROVE n + 1 \in P
  <2>1. PICK g : Runs(g, n)
    OBVIOUS
  <2>2. n \in Nat /\ n + 1 \in 1..N /\ n + 1 \in 0..N /\ n + 1 - 1 = n
    BY <1>2
  <2>. DEFINE h == [i \in 0..n + 1 |-> IF i = n + 1 THEN F[n + 1][g[n]] ELSE g[i]]
  <2>3. F[n + 1][g[n]] \in V
    BY <2>1, <2>2
  <2>4. h \in [0..n + 1 -> V]
    BY <2>1, <2>2, <2>3
  <2>5. (\A i \in 0..n : h[i] = g[i]) /\ h[n + 1] = F[n + 1][g[n]]
    BY <2>2
  <2>. HIDE DEF h
  <2>6. h[0] = b
    BY <2>1, <2>2, <2>5
  <2>7. ASSUME NEW i \in 1..n + 1 PROVE h[i] = F[i][h[i - 1]]
    <3>1. CASE i = n + 1
      <4>1. h[n] = g[n]
        BY <2>2, <2>5
      <4>. QED  BY <2>2, <2>5, <3>1, <4>1
    <3>2. CASE i \in 1..n
      <4>1. i \in 0..n /\ i - 1 \in 0..n
        BY <2>2, <3>2
      <4>2. h[i] = g[i] /\ h[i - 1] = g[i - 1]
        BY <2>5, <4>1
      <4>3. g[i] = F[i][g[i - 1]]
        BY <2>1, <3>2
      <4>. QED  BY <4>2, <4>3
    <3>. QED  BY <2>2, <3>1, <3>2
  <2>8. Runs(h, n + 1)
    BY <2>4, <2>6, <2>7
  <2>. HIDE DEF Runs
  <2>. QED  BY <2>2, <2>8
<1>3. P \in SUBSET (0..N)
  OBVIOUS
<1>4. N \in P
  <2>. HIDE DEF P
  <2>1. \A n \in 0..N : n \in P
    BY <1>1, <1>2, <1>3, UpTo
  <2>. QED  BY <2>1
<1>. QED  BY <1>4

-----------------------------------------------------------------------------
(* Sums *)

LEMMA SumsAre ==
  ASSUME NEW s \in Seq(Int)
  PROVE  /\ Top(s, 0) = 0
         /\ \A i \in 1..Len(s) : Top(s, i) = Top(s, i - 1) + s[i]
         /\ \A i \in 0..Len(s) : Top(s, i) \in Int
<1>. DEFINE N == Len(s)
            F == [i \in 1..N |-> [v \in Int |-> v + s[i]]]
            Body(g) == [i \in 0..N |-> IF i = 0 THEN 0 ELSE g[i - 1] + s[i]]
<1>1. N \in Nat /\ \A i \in 1..N : s[i] \in Int
  BY LenProperties
<1>2. F \in [1..N -> [Int -> Int]] /\ \A i \in 1..N, v \in Int : F[i][v] = v + s[i]
  BY <1>1
<1>. HIDE DEF F, N
<1>3. PICK g : g \in [0..N -> Int] /\ g[0] = 0 /\ \A i \in 1..N : g[i] = F[i][g[i - 1]]
  <2>1. 0 \in Int /\ N \in Nat /\ F \in Turns(N, Int)
    BY <1>1, <1>2 DEF Turns
  <2>2. \E g : Loops(g, N, Int, 0, F)
    BY <2>1, Iterates, Zenon
  <2>. QED  BY <2>2 DEF Loops
<1>4. g = Body(g)
  <2>1. \A i \in 0..N : g[i] = IF i = 0 THEN 0 ELSE g[i - 1] + s[i]
    <3>1. \A i \in 0..N : i # 0 => i \in 1..N /\ i - 1 \in 0..N
      BY <1>1
    <3>. QED  BY <1>2, <1>3, <3>1
  <2>. QED  BY <1>3, <2>1
<1>5. Sums(s) = CHOOSE h : h = Body(h)
  BY DEF Sums, N
<1>. HIDE DEF Body
<1>6. Sums(s) = Body(Sums(s))
  BY <1>4, <1>5
<1>7. \A i \in 0..N : Sums(s)[i] = IF i = 0 THEN 0 ELSE Sums(s)[i - 1] + s[i]
  <2>1. \A h : \A i \in 0..N : Body(h)[i] = IF i = 0 THEN 0 ELSE h[i - 1] + s[i]
    BY DEF Body
  <2>. QED  BY <1>6, <2>1
<1>8. Sums(s)[0] = 0 /\ \A i \in 1..N : Sums(s)[i] = Sums(s)[i - 1] + s[i]
  BY <1>1, <1>7
<1>9. \A i \in 0..N : Sums(s)[i] \in Int
  <2>. DEFINE P == {i \in 0..N : Sums(s)[i] \in Int}
  <2>1. P \in SUBSET (0..N) /\ 0 \in P
    BY <1>1, <1>8
  <2>2. ASSUME NEW n \in P, n < N PROVE n + 1 \in P
    <3>1. n + 1 \in 1..N /\ n + 1 \in 0..N /\ n + 1 - 1 = n
      BY <1>1, <2>2
    <3>2. Sums(s)[n] \in Int /\ s[n + 1] \in Int /\ Sums(s)[n + 1] = Sums(s)[n] + s[n + 1]
      BY <1>1, <1>8, <2>2, <3>1
    <3>. QED  BY <3>1, <3>2
  <2>3. \A n \in 0..N : n \in P
    <3>. HIDE DEF P
    <3>. QED  BY <1>1, <2>1, <2>2, UpTo
  <2>. QED  BY <2>3
<1>. QED  BY <1>8, <1>9 DEF Top, N

\* Sums of the same numbers, c places further on, differ by the same.
LEMMA SumsAgree ==
  ASSUME NEW s \in Seq(Int), NEW t \in Seq(Int), NEW c \in Nat,
         NEW k \in 0..Len(s), NEW l \in k..Len(s), l + c <= Len(t),
         \A i \in k + 1..l : t[i + c] = s[i]
  PROVE  Top(t, l + c) - Top(t, k + c) = Top(s, l) - Top(s, k)
<1>. DEFINE N == l - k
            P == {n \in 0..N : Top(t, k + n + c) - Top(t, k + c) = Top(s, k + n) - Top(s, k)}
<1>0. Len(s) \in Nat /\ Len(t) \in Nat
  BY LenProperties
<1>1. N \in Nat /\ k \in Nat /\ l \in Nat /\ k + N = l /\ l <= Len(s)
  BY <1>0
<1>2. \A n \in 0..N : Top(t, k + n + c) \in Int /\ Top(s, k + n) \in Int
  <2>1. \A n \in 0..N : k + n + c \in 0..Len(t) /\ k + n \in 0..Len(s)
    BY <1>0, <1>1
  <2>. QED  BY <2>1, SumsAre
<1>. HIDE DEF N
<1>3. P \in SUBSET (0..N) /\ 0 \in P
  <2>1. k + 0 + c = k + c /\ k + 0 = k /\ 0 \in 0..N
    BY <1>1
  <2>2. Top(t, k + c) - Top(t, k + c) = 0 /\ Top(s, k) - Top(s, k) = 0
    <3>1. Top(t, k + c) \in Int /\ Top(s, k) \in Int
      BY <1>2, <2>1
    <3>. QED  BY <3>1
  <2>. QED  BY <2>1, <2>2
<1>4. ASSUME NEW n \in P, n < N PROVE n + 1 \in P
  <2>1. /\ n \in Nat /\ n \in 0..N /\ n + 1 \in 0..N
        /\ k + n + 1 \in k + 1..l /\ k + n + 1 \in 1..Len(s) /\ k + n + 1 + c \in 1..Len(t)
        /\ k + n + 1 - 1 = k + n /\ k + n + 1 + c - 1 = k + n + c
        /\ k + (n + 1) = k + n + 1 /\ k + (n + 1) + c = k + n + 1 + c
    BY <1>0, <1>1, <1>4
  <2>2. PICK e : e = s[k + n + 1]
    OBVIOUS
  <2>3. e \in Int /\ t[k + n + 1 + c] = e
    <3>1. s[k + n + 1] \in Int
      BY <2>1, LenProperties
    <3>. QED  BY <2>1, <2>2, <3>1
  <2>4. Top(s, k + n + 1) = Top(s, k + n) + e
    <3>1. Top(s, k + n + 1) = Top(s, k + n + 1 - 1) + s[k + n + 1]
      BY <2>1, SumsAre
    <3>. QED  BY <2>1, <2>2, <3>1
  <2>5. Top(t, k + n + 1 + c) = Top(t, k + n + c) + e
    <3>1. Top(t, k + n + 1 + c) = Top(t, k + n + 1 + c - 1) + t[k + n + 1 + c]
      BY <2>1, SumsAre
    <3>. QED  BY <2>1, <2>3, <3>1
  <2>6. PICK a \in Int, b \in Int, a0 \in Int, b0 \in Int :
          a = Top(t, k + n + c) /\ b = Top(s, k + n) /\ a0 = Top(t, k + c) /\ b0 = Top(s, k)
    <3>1. k + 0 + c = k + c /\ k + 0 = k /\ 0 \in 0..N
      BY <1>1
    <3>. QED  BY <1>2, <2>1, <3>1
  <2>7. PICK u : u = Top(t, k + n + 1 + c)
    OBVIOUS
  <2>8. PICK v : v = Top(s, k + n + 1)
    OBVIOUS
  <2>9. a \in Int /\ b \in Int /\ a0 \in Int /\ b0 \in Int /\ e \in Int
    BY <2>3, <2>6
  <2>10. a - a0 = b - b0
    BY <2>6
  <2>11. u = a + e /\ v = b + e
    BY <2>4, <2>5, <2>6, <2>7, <2>8
  <2>12. u - a0 = v - b0
    BY <2>9, <2>10, <2>11
  <2>13. u - a0 = Top(t, k + (n + 1) + c) - Top(t, k + c) /\ v - b0 = Top(s, k + (n + 1)) - Top(s, k)
    BY <2>1, <2>6, <2>7, <2>8
  <2>. QED  BY <2>1, <2>12, <2>13
<1>5. \A n \in 0..N : n \in P
  <2>. HIDE DEF P
  <2>. QED  BY <1>1, <1>3, <1>4, UpTo
<1>6. N \in 0..N
  BY <1>1
<1>. QED  BY <1>1, <1>5, <1>6

\* Adding nothing leaves a sum as it is.
LEMMA SumsOfNothing ==
  ASSUME NEW s \in Seq(Int), NEW k \in 0..Len(s), NEW l \in k..Len(s), \A i \in k + 1..l : s[i] = 0
  PROVE  Top(s, l) = Top(s, k)
<1>. DEFINE N == l - k
            P == {n \in 0..N : Top(s, k + n) = Top(s, k)}
<1>0. Len(s) \in Nat
  BY LenProperties
<1>1. N \in Nat /\ k \in Nat /\ l \in Nat /\ k + N = l /\ l <= Len(s)
  BY <1>0
<1>. HIDE DEF N
<1>3. P \in SUBSET (0..N) /\ 0 \in P
  BY <1>1
<1>4. ASSUME NEW n \in P, n < N PROVE n + 1 \in P
  <2>1. /\ n \in Nat /\ n + 1 \in 0..N /\ k + n + 1 \in k + 1..l /\ k + n + 1 \in 1..Len(s)
        /\ k + n + 1 - 1 = k + n /\ k + (n + 1) = k + n + 1 /\ k + n \in 0..Len(s)
    BY <1>0, <1>1, <1>4
  <2>2. Top(s, k + n + 1) = Top(s, k + n + 1 - 1) + s[k + n + 1]
    BY <2>1, SumsAre
  <2>3. Top(s, k + n) \in Int /\ s[k + n + 1] = 0
    BY <2>1, SumsAre
  <2>4. Top(s, k + (n + 1)) = Top(s, k)
    BY <2>1, <2>2, <2>3
  <2>. QED  BY <2>1, <2>4
<1>5. \A n \in 0..N : n \in P
  <2>. HIDE DEF P
  <2>. QED  BY <1>1, <1>3, <1>4, UpTo
<1>6. N \in 0..N
  BY <1>1
<1>. QED  BY <1>1, <1>5, <1>6

\* Sums of natural numbers grow.
LEMMA SumsGrow ==
  ASSUME NEW s \in Seq(Nat)
  PROVE  /\ \A l \in 0..Len(s) : Top(s, l) \in Nat
         /\ \A l \in 0..Len(s) : \A k \in 0..l : Top(s, k) <= Top(s, l)
<1>. DEFINE N == Len(s)
            P == {n \in 0..N : Top(s, n) \in Nat /\ \A k \in 0..n : Top(s, k) <= Top(s, n)}
<1>0. N \in Nat /\ s \in Seq(Int) /\ \A i \in 1..N : s[i] \in Nat
  <2>1. Nat \subseteq Int
    OBVIOUS
  <2>. QED  BY <2>1, LenProperties, SeqMonotonic
<1>1. Top(s, 0) = 0 /\ (\A i \in 1..N : Top(s, i) = Top(s, i - 1) + s[i]) /\ \A i \in 0..N : Top(s, i) \in Int
  BY <1>0, SumsAre
<1>. HIDE DEF N
<1>3. P \in SUBSET (0..N) /\ 0 \in P
  <2>1. \A k \in 0..0 : k = 0
    OBVIOUS
  <2>2. 0 \in 0..N
    BY <1>0
  <2>. QED  BY <1>1, <2>1, <2>2
<1>4. ASSUME NEW n \in P, n < N PROVE n + 1 \in P
  <2>1. n \in Nat /\ n + 1 \in 1..N /\ n + 1 \in 0..N /\ n + 1 - 1 = n /\ \A k \in 0..n + 1 : k \in 0..n \/ k = n + 1
    BY <1>0, <1>4
  <2>2. Top(s, n + 1) = Top(s, n) + s[n + 1] /\ s[n + 1] \in Nat /\ Top(s, n) \in Nat
    BY <1>0, <1>1, <2>1
  <2>3. Top(s, n + 1) \in Nat /\ Top(s, n) <= Top(s, n + 1)
    BY <2>2
  <2>4. \A k \in 0..n : Top(s, k) \in Int /\ Top(s, k) <= Top(s, n)
    BY <1>0, <1>1, <2>1
  <2>5. \A k \in 0..n + 1 : Top(s, k) <= Top(s, n + 1)
    BY <2>1, <2>2, <2>3, <2>4
  <2>. QED  BY <2>1, <2>3, <2>5
<1>5. \A n \in 0..N : n \in P
  <2>. HIDE DEF P
  <2>. QED  BY <1>0, <1>3, <1>4, UpTo
<1>. QED  BY <1>5 DEF N

-----------------------------------------------------------------------------
(* The search *)

\* The list and its sums, when they are clean.
Summed ==
  /\ heights \in Seq(Nat) /\ ItemCount \in Nat \ {0}
  /\ \A i \in 0..ItemCount : offsets[i + 1] = Top(heights, i)

Intervals == [low : Int, high : Int, found : Int]

Under(i, offset) == Top(heights, i) <= offset /\ offset < Top(heights, i + 1)

\* What a turn of the search leaves: the item that was hit, or an interval outside of which
\* every item ends at the offset or begins after it.
Searched(s, offset) ==
  /\ s \in Intervals
  /\ s.low \in 0..ItemCount /\ s.high \in -1..ItemCount - 1 /\ s.low <= s.high + 1
  /\ s.found \in 0..ItemCount - 1
  /\ \/ s.low > s.high /\ Under(s.found, offset)
     \/ /\ s.low = ItemCount => s.found = ItemCount - 1
        /\ \A i \in 0..s.low - 1 : Top(heights, i + 1) <= offset
        /\ \A i \in s.high + 1..ItemCount - 1 : offset < Top(heights, i)

LEMMA HalvedIs ==
  ASSUME Summed, NEW offset \in Nat, NEW s \in Intervals, Searched(s, offset)
  PROVE  /\ Searched(Halved(offset, s), offset)
         /\ LET h == Halved(offset, s)
            IN h.low > h.high \/ h.high - h.low < s.high - s.low
<1>0. ItemCount \in Nat /\ \A i \in 0..ItemCount : Top(heights, i) \in Nat
  BY SumsGrow DEF Summed, ItemCount
<1>1. CASE s.low > s.high
  <2>1. Halved(offset, s) = s
    BY <1>1 DEF Halved
  <2>. QED  BY <1>1, <2>1
<1>2. CASE s.low <= s.high
  <2>1. PICK middle : middle = (s.low + s.high) \div 2
    OBVIOUS
  <2>2. s.low \in Nat /\ s.high \in Nat /\ s.low \in Int /\ s.high \in Int /\ s.found \in Int
    BY <1>0, <1>2 DEF Searched
  <2>3. /\ middle \in Nat /\ s.low <= middle /\ middle <= s.high /\ s.high <= ItemCount - 1
        /\ middle \in 0..ItemCount - 1
    BY <1>0, <1>2, <2>1, <2>2 DEF Searched
  <2>4. PICK top : top = offsets[middle + 1]
    OBVIOUS
  <2>5. PICK bottom : bottom = top + heights[middle + 1]
    OBVIOUS
  <2>6. top = Top(heights, middle) /\ bottom = Top(heights, middle + 1) /\ top \in Nat /\ bottom \in Nat
    <3>0. middle \in 0..ItemCount /\ middle + 1 \in 1..ItemCount /\ middle + 1 - 1 = middle
          /\ middle + 1 \in 0..ItemCount
      BY <1>0, <2>3
    <3>1. top = Top(heights, middle)
      BY <2>4, <3>0 DEF Summed
    <3>2. heights \in Seq(Int)
      <4>1. Nat \subseteq Int
        OBVIOUS
      <4>. QED  BY <4>1, SeqMonotonic DEF Summed
    <3>3. Top(heights, middle + 1) = Top(heights, middle + 1 - 1) + heights[middle + 1]
      BY <3>0, <3>2, SumsAre DEF ItemCount
    <3>. QED  BY <1>0, <2>5, <3>0, <3>1, <3>3
  <2>7. PICK near \in 0..ItemCount - 1 : near = Larger(0, Smaller(middle + 1, ItemCount - 1))
                                        /\ (middle + 1 = ItemCount => near = ItemCount - 1)
    BY <1>0, <2>3 DEF Larger, Smaller
  <2>8. PICK near0 \in 0..ItemCount - 1 : near0 = Larger(0, Smaller(s.low, ItemCount - 1))
    BY <1>0, <2>2, <2>3 DEF Larger, Smaller
  <2>9. Halved(offset, s) =
          IF offset < top THEN [low |-> s.low, high |-> middle - 1, found |-> near0]
          ELSE IF offset >= bottom THEN [low |-> middle + 1, high |-> s.high, found |-> near]
          ELSE [low |-> s.high + 1, high |-> s.high, found |-> middle]
    BY <1>2, <2>1, <2>2, <2>4, <2>5, <2>7, <2>8 DEF Halved
  <2>10. CASE offset < top
    <3>1. PICK h : h = [low |-> s.low, high |-> middle - 1, found |-> near0]
      OBVIOUS
    <3>2. h \in Intervals /\ h.low = s.low /\ h.high = middle - 1 /\ h.found = near0
      BY <1>0, <2>3, <2>8, <2>2, <3>1 DEF Intervals
    <3>3. \A i \in middle..ItemCount - 1 : offset < Top(heights, i)
      <4>1. ASSUME NEW i \in middle..ItemCount - 1 PROVE Top(heights, middle) <= Top(heights, i)
        <5>1. i \in 0..Len(heights) /\ middle \in 0..i
          BY <1>0, <2>3 DEF ItemCount
        <5>. QED  BY <5>1, SumsGrow DEF Summed
      <4>2. \A i \in middle..ItemCount - 1 : Top(heights, i) \in Nat
        BY <1>0, <2>3
      <4>. QED  BY <2>6, <2>10, <4>1, <4>2
    <3>4. \A i \in 0..s.low - 1 : Top(heights, i + 1) <= offset
      BY <1>2, <2>2 DEF Searched
    <3>5. /\ s.low \in 0..ItemCount /\ middle - 1 \in -1..ItemCount - 1 /\ s.low <= middle - 1 + 1
          /\ middle - 1 + 1 = middle /\ s.low # ItemCount /\ middle - 1 - s.low < s.high - s.low
      BY <1>0, <2>2, <2>3
    <3>6. Searched(h, offset)
      BY <3>2, <3>3, <3>4, <3>5, <2>8 DEF Searched
    <3>. QED  BY <2>9, <2>10, <3>1, <3>2, <3>5, <3>6
  <2>11. CASE ~(offset < top) /\ offset >= bottom
    <3>1. PICK h : h = [low |-> middle + 1, high |-> s.high, found |-> near]
      OBVIOUS
    <3>2. h \in Intervals /\ h.low = middle + 1 /\ h.high = s.high /\ h.found = near
      BY <1>0, <2>3, <2>7, <2>2, <3>1 DEF Intervals
    <3>3. \A i \in 0..middle + 1 - 1 : Top(heights, i + 1) <= offset
      <4>1. ASSUME NEW i \in 0..middle PROVE Top(heights, i + 1) <= Top(heights, middle + 1)
        <5>1. middle + 1 \in 0..Len(heights) /\ i + 1 \in 0..middle + 1
          BY <1>0, <2>3 DEF ItemCount
        <5>. QED  BY <5>1, SumsGrow DEF Summed
      <4>2. \A i \in 0..middle : i + 1 \in 0..ItemCount /\ Top(heights, i + 1) \in Nat
        BY <1>0, <2>3
      <4>3. middle + 1 - 1 = middle
        BY <2>3
      <4>. QED  BY <2>6, <2>11, <4>1, <4>2, <4>3
    <3>4. \A i \in s.high + 1..ItemCount - 1 : offset < Top(heights, i)
      BY <1>2, <2>2 DEF Searched
    <3>5. /\ middle + 1 \in 0..ItemCount /\ s.high \in -1..ItemCount - 1 /\ middle + 1 <= s.high + 1
          /\ s.high - (middle + 1) < s.high - s.low
      BY <1>0, <2>2, <2>3
    <3>6. Searched(h, offset)
      <4>1. h.low = ItemCount => h.found = ItemCount - 1
        BY <2>7, <3>2
      <4>2. \A i \in 0..h.low - 1 : Top(heights, i + 1) <= offset
        <5>1. ASSUME NEW i \in 0..h.low - 1 PROVE i \in 0..middle + 1 - 1
          BY <2>3, <3>2
        <5>. QED  BY <3>3, <5>1
      <4>3. \A i \in h.high + 1..ItemCount - 1 : offset < Top(heights, i)
        BY <3>2, <3>4
      <4>. QED  BY <3>2, <3>5, <2>7, <4>1, <4>2, <4>3 DEF Searched
    <3>. QED  BY <2>9, <2>11, <3>1, <3>2, <3>5, <3>6
  <2>12. CASE ~(offset < top) /\ ~(offset >= bottom)
    <3>1. PICK h : h = [low |-> s.high + 1, high |-> s.high, found |-> middle]
      OBVIOUS
    <3>2. h \in Intervals /\ h.low = s.high + 1 /\ h.high = s.high /\ h.found = middle
      BY <1>0, <2>3, <2>2, <3>1 DEF Intervals
    <3>3. Under(middle, offset)
      BY <2>6, <2>12 DEF Under
    <3>4. s.high + 1 \in 0..ItemCount /\ s.high \in -1..ItemCount - 1 /\ s.high + 1 > s.high /\ s.high + 1 <= s.high + 1
      BY <1>0, <2>2, <2>3
    <3>5. Searched(h, offset)
      BY <2>3, <3>2, <3>3, <3>4 DEF Searched
    <3>. QED  BY <2>9, <2>12, <3>1, <3>2, <3>4, <3>5
  <2>. QED  BY <2>10, <2>11, <2>12
<1>3. s.low \in Int /\ s.high \in Int
  BY DEF Intervals
<1>. QED  BY <1>1, <1>2, <1>3

\* The search ends within a turn for every item, at the item under the offset or, past the
\* end of all of them, at the last one.
LEMMA SearchFinds ==
  ASSUME Summed, NEW offset \in Nat
  PROVE  LET r == Search(offset)
         IN /\ r \in 0..ItemCount - 1
            /\ Under(r, offset) \/ (r = ItemCount - 1 /\ Top(heights, ItemCount) <= offset)
<1>. DEFINE N == ItemCount
            first == [low |-> 0, high |-> N - 1, found |-> N - 1]
            F == [n \in 1..N |-> [v \in Intervals |-> Halved(offset, v)]]
            Body(g) == [n \in 0..N |-> IF n = 0 THEN first ELSE Halved(offset, g[n - 1])]
            Good(n, v) == Searched(v, offset) /\ (v.low > v.high \/ v.high - v.low < N - n)
<1>1. N \in Nat \ {0} /\ first \in Intervals /\ \A i \in 0..N : Top(heights, i) \in Nat
  BY SumsGrow DEF Summed, ItemCount, Intervals
<1>2. \A v \in Intervals : Halved(offset, v) \in Intervals
  <2>1. ASSUME NEW v \in Intervals PROVE Halved(offset, v) \in Intervals
    <3>1. \A l \in Int : Larger(0, Smaller(l, ItemCount - 1)) \in Int
      BY <1>1 DEF Larger, Smaller
    <3>2. PICK m \in Int : m = (v.low + v.high) \div 2
      BY DEF Intervals
    <3>3. v.low \in Int /\ v.high \in Int /\ m - 1 \in Int /\ m + 1 \in Int /\ v.high + 1 \in Int
      BY DEF Intervals
    <3>4. PICK l \in Int, x \in Int : /\ l = Larger(0, Smaller(v.low, ItemCount - 1))
                                     /\ x = Larger(0, Smaller(m + 1, ItemCount - 1))
      BY <3>1, <3>3
    <3>5. \/ Halved(offset, v) = v
          \/ Halved(offset, v) = [low |-> v.low, high |-> m - 1, found |-> l]
          \/ Halved(offset, v) = [low |-> m + 1, high |-> v.high, found |-> x]
          \/ Halved(offset, v) = [low |-> v.high + 1, high |-> v.high, found |-> m]
      BY <3>2, <3>4 DEF Halved
    <3>. QED  BY <3>3, <3>4, <3>5 DEF Intervals
  <2>. QED  BY <2>1
<1>3. F \in Turns(N, Intervals) /\ \A n \in 1..N, v \in Intervals : F[n][v] = Halved(offset, v)
  BY <1>2 DEF Turns
<1>4. Search(offset) = (CHOOSE g : g = Body(g))[N].found
  BY DEF Search
<1>5. Good(0, first)
  <2>1. first.low = 0 /\ first.high = N - 1 /\ first.found = N - 1
    OBVIOUS
  <2>. HIDE DEF first
  <2>2. /\ \A i \in 0..first.low - 1 : FALSE
        /\ \A i \in first.high + 1..N - 1 : FALSE
    BY <1>1, <2>1
  <2>3. /\ first.low \in 0..N /\ first.high \in -1..N - 1 /\ first.low <= first.high + 1
        /\ first.found \in 0..N - 1 /\ first.low # N
    BY <1>1, <2>1
  <2>4. Searched(first, offset)
    BY <1>1, <2>2, <2>3 DEF Searched
  <2>. QED  BY <1>1, <2>1, <2>4
<1>6. ASSUME NEW n \in 0..N, NEW v \in Intervals, Good(n, v) PROVE Good(n + 1, Halved(offset, v))
  <2>1. PICK h : h = Halved(offset, v)
    OBVIOUS
  <2>2. Searched(h, offset) /\ (h.low > h.high \/ h.high - h.low < v.high - v.low)
    BY <1>6, <2>1, HalvedIs
  <2>3. h \in Intervals
    BY <2>2 DEF Searched
  <2>4. v.low > v.high => h = v
    BY <2>1 DEF Halved
  <2>5. h.low > h.high \/ h.high - h.low < N - (n + 1)
    BY <1>1, <1>6, <2>2, <2>3, <2>4 DEF Intervals
  <2>. QED  BY <2>1, <2>2, <2>5
<1>. HIDE DEF F, N, first
<1>7. PICK g : g \in [0..N -> Intervals] /\ g[0] = first /\ \A n \in 1..N : g[n] = F[n][g[n - 1]]
  <2>1. \E g : Loops(g, N, Intervals, first, F)
    BY <1>1, <1>3, Iterates, Zenon
  <2>. QED  BY <2>1 DEF Loops
<1>8. \A n \in 1..N : n - 1 \in 0..N /\ g[n] = Halved(offset, g[n - 1])
  <2>1. \A n \in 1..N : n - 1 \in 0..N
    BY <1>1
  <2>. QED  BY <1>3, <1>7, <2>1
<1>9. g = Body(g)
  <2>1. \A n \in 0..N : g[n] = IF n = 0 THEN first ELSE Halved(offset, g[n - 1])
    <3>1. \A n \in 0..N : n # 0 => n \in 1..N
      BY <1>1
    <3>. QED  BY <1>7, <1>8, <3>1
  <2>. QED  BY <1>7, <2>1
<1>10. PICK t : t = (CHOOSE h : h = Body(h))
  OBVIOUS
<1>11. t = Body(t)
  <2>. HIDE DEF Body
  <2>. QED  BY <1>9, <1>10
<1>12. \A n \in 0..N : t[n] = IF n = 0 THEN first ELSE Halved(offset, t[n - 1])
  <2>1. \A h : \A n \in 0..N : Body(h)[n] = IF n = 0 THEN first ELSE Halved(offset, h[n - 1])
    OBVIOUS
  <2>. HIDE DEF Body
  <2>. QED  BY <1>11, <2>1
<1>. HIDE DEF Body
<1>13. \A n \in 0..N : t[n] \in Intervals /\ Good(n, t[n])
  <2>. DEFINE P == {n \in 0..N : t[n] \in Intervals /\ Good(n, t[n])}
  <2>1. P \in SUBSET (0..N) /\ 0 \in P
    <3>1. 0 \in 0..N /\ t[0] = first
      BY <1>1, <1>12
    <3>. HIDE DEF Good
    <3>. QED  BY <1>1, <1>5, <3>1
  <2>2. ASSUME NEW n \in P, n < N PROVE n + 1 \in P
    <3>1. n \in 0..N /\ n + 1 \in 0..N /\ n + 1 # 0 /\ n + 1 - 1 = n
      BY <1>1, <2>2
    <3>2. t[n + 1] = Halved(offset, t[n])
      BY <1>12, <3>1
    <3>. HIDE DEF Good
    <3>. QED  BY <1>2, <1>6, <3>1, <3>2
  <2>. HIDE DEF P
  <2>3. \A n \in 0..N : n \in P
    BY <1>1, <2>1, <2>2, UpTo
  <2>. QED  BY <2>3 DEF P
<1>14. PICK v \in Intervals : v = t[N] /\ Good(N, v)
  BY <1>1, <1>13
<1>15. v.low > v.high /\ Searched(v, offset)
  BY <1>1, <1>14 DEF Intervals
<1>16. Search(offset) = v.found
  BY <1>4, <1>10, <1>14
<1>17. v.found \in 0..N - 1
  BY <1>15 DEF Searched, N
<1>18. CASE ~Under(v.found, offset)
  <2>1. /\ v.low = N => v.found = N - 1
        /\ \A i \in 0..v.low - 1 : Top(heights, i + 1) <= offset
        /\ \A i \in v.high + 1..N - 1 : offset < Top(heights, i)
        /\ v.low \in 0..N /\ v.high \in -1..N - 1 /\ v.low = v.high + 1
    BY <1>1, <1>15, <1>18 DEF Searched, N, Intervals
  <2>2. Top(heights, 0) = 0
    <3>1. heights \in Seq(Int)
      <4>1. Nat \subseteq Int
        OBVIOUS
      <4>. QED  BY <4>1, SeqMonotonic DEF Summed
    <3>. QED  BY <3>1, SumsAre
  <2>3. v.low # 0
    <3>1. v.low = 0 => 0 \in v.high + 1..N - 1
      BY <1>1, <2>1
    <3>. QED  BY <2>1, <2>2, <3>1
  <2>4. Top(heights, v.low) <= offset
    <3>1. v.low - 1 \in 0..v.low - 1 /\ v.low - 1 + 1 = v.low
      BY <1>1, <2>1, <2>3
    <3>. QED  BY <2>1, <3>1
  <2>5. v.low = N
    <3>1. v.low < N => v.low \in v.high + 1..N - 1
      BY <1>1, <2>1
    <3>2. Top(heights, v.low) \in Nat
      BY <1>1, <2>1
    <3>. QED  BY <1>1, <2>1, <2>4, <3>1, <3>2
  <2>. QED  BY <1>16, <1>17, <2>1, <2>4, <2>5 DEF N
<1>. QED  BY <1>16, <1>17, <1>18 DEF N

-----------------------------------------------------------------------------
(* The invariant *)

Lists ==
  /\ heights \in Seq(Nat) /\ measured \in Seq(BOOLEAN)
  /\ Len(measured) = Len(heights) /\ Len(heights) \in 0..MaxItems
  /\ dirtyFrom \in 0..Len(heights)

SumsHold == \A i \in 0..dirtyFrom : offsets[i + 1] = Top(heights, i)

AverageHolds ==
  /\ measuredCount = Top(Marks(measured), Len(heights))
  /\ measuredTotal = Top(Weights(measured, heights), Len(heights))

ListIInv == Lists /\ SumsHold /\ AverageHolds

LEMMA NatsAreInts == \A s \in Seq(Nat) : s \in Seq(Int)
<1>1. Nat \subseteq Int
  OBVIOUS
<1>. QED  BY <1>1, SeqMonotonic

LEMMA SumsSame ==
  ASSUME NEW s \in Seq(Int), NEW t \in Seq(Int), NEW m \in Nat, m <= Len(s), m <= Len(t),
         \A i \in 1..m : t[i] = s[i]
  PROVE  \A i \in 0..m : Top(t, i) = Top(s, i)
<1>. SUFFICES ASSUME NEW l \in 0..m PROVE Top(t, l) = Top(s, l)
  OBVIOUS
<1>1. Len(s) \in Nat /\ Len(t) \in Nat
  BY LenProperties
<1>2. 0 \in 0..Len(s) /\ l \in 0..Len(s) /\ l + 0 = l /\ l <= Len(t) /\ 0 + 0 = 0 /\ 0 \in Nat /\ l \in 0..Len(t)
  BY <1>1
<1>3. \A i \in 0 + 1..l : i + 0 = i /\ t[i + 0] = s[i]
  OBVIOUS
<1>4. Top(t, l + 0) - Top(t, 0 + 0) = Top(s, l) - Top(s, 0)
  BY <1>2, <1>3, SumsAgree
<1>5. Top(t, 0) = 0 /\ Top(s, 0) = 0 /\ Top(t, l) \in Int /\ Top(s, l) \in Int
  BY <1>2, SumsAre
<1>. QED  BY <1>2, <1>4, <1>5

LEMMA MarksAre ==
  ASSUME NEW hs \in Seq(Nat), NEW ms \in Seq(BOOLEAN), Len(ms) = Len(hs)
  PROVE  /\ Marks(ms) \in Seq(Nat) /\ Marks(ms) \in Seq(Int)
         /\ Len(Marks(ms)) = Len(hs) /\ Len(Weights(ms, hs)) = Len(hs)
         /\ Weights(ms, hs) \in Seq(Nat) /\ Weights(ms, hs) \in Seq(Int)
         /\ \A i \in 1..Len(hs) : /\ Marks(ms)[i] = (IF ms[i] THEN 1 ELSE 0)
                                  /\ Weights(ms, hs)[i] = (IF ms[i] THEN hs[i] ELSE 0)
<1>. DEFINE n == Len(hs)
            marks == [i \in 1..n |-> IF ms[i] THEN 1 ELSE 0]
            weights == [i \in 1..n |-> IF ms[i] THEN hs[i] ELSE 0]
<1>1. n \in Nat /\ \A i \in 1..n : hs[i] \in Nat
  BY LenProperties
<1>2. marks \in [1..n -> Nat] /\ weights \in [1..n -> Nat]
  BY <1>1
<1>3. Marks(ms) = marks /\ Weights(ms, hs) = weights
  BY DEF Marks, Weights
<1>4. \A i \in 1..n : marks[i] = (IF ms[i] THEN 1 ELSE 0) /\ weights[i] = (IF ms[i] THEN hs[i] ELSE 0)
  OBVIOUS
<1>. HIDE DEF marks, weights
<1>5. marks \in Seq(Nat) /\ weights \in Seq(Nat) /\ Len(marks) = n /\ Len(weights) = n
  <2>1. \A f \in [1..n -> Nat] : f \in Seq(Nat) /\ Len(f) = n
    <3>. SUFFICES ASSUME NEW f \in [1..n -> Nat] PROVE f \in Seq(Nat) /\ Len(f) = n
      OBVIOUS
    <3>. HIDE DEF n
    <3>1. f \in Seq(Nat)
      BY <1>1, SeqDef
    <3>2. Len(f) \in Nat /\ DOMAIN f = 1..Len(f) /\ DOMAIN f = 1..n
      BY <3>1, LenProperties
    <3>. QED  BY <1>1, <3>1, <3>2
  <2>. QED  BY <1>2, <2>1
<1>. QED  BY <1>3, <1>4, <1>5, NatsAreInts

LEMMA ListIInvImplies == ASSUME ListIInv PROVE WindowsCoverTheView
<1>. USE ListAssumption DEF ListIInv, Lists
<1>1. ItemCount \in Nat /\ dirtyFrom \in 0..MaxItems /\ Smaller(dirtyFrom, ItemCount) = dirtyFrom
  BY DEF ItemCount, Smaller
<1>2. SumsAreTrue
  BY <1>1 DEF SumsAreTrue, SumsHold, AverageHolds, ItemCount
<1>3. ASSUME Clean, ItemCount > 0, NEW scrollTop \in 0..Top(heights, ItemCount)
      PROVE  LET window == WindowFor(scrollTop)
             IN /\ window.start < window.end
                /\ \A pixel \in scrollTop..scrollTop + Viewport - 1 : \A i \in 0..ItemCount - 1 :
                     Top(heights, i) <= pixel /\ pixel < Top(heights, i + 1)
                       => window.start <= i /\ i < window.end
  <2>1. Summed
    BY <1>1, <1>3 DEF Clean, SumsHold, Summed, ItemCount
  <2>2. \A i \in 0..ItemCount : Top(heights, i) \in Nat
    BY SumsGrow DEF ItemCount
  <2>3. scrollTop \in Nat /\ scrollTop + Viewport - 1 \in Nat
    BY <1>1, <1>3, <2>2
  <2>4. Larger(0, scrollTop) = scrollTop /\ Larger(0, scrollTop + Viewport - 1) = scrollTop + Viewport - 1
    BY <2>3 DEF Larger
  <2>5. PICK lowest : lowest = scrollTop
    OBVIOUS
  <2>6. PICK highest : highest = scrollTop + Viewport - 1
    OBVIOUS
  <2>7. lowest \in Nat /\ highest \in Nat
    BY <2>3, <2>5, <2>6
  <2>8. PICK first \in 0..ItemCount - 1 :
          /\ first = Search(lowest)
          /\ Under(first, lowest) \/ (first = ItemCount - 1 /\ Top(heights, ItemCount) <= lowest)
    BY <2>1, <2>7, SearchFinds
  <2>9. PICK last \in 0..ItemCount - 1 :
          /\ last = Search(highest)
          /\ Under(last, highest) \/ (last = ItemCount - 1 /\ Top(heights, ItemCount) <= highest)
    BY <2>1, <2>7, SearchFinds
  <2>10. PICK window : window = WindowFor(scrollTop)
    OBVIOUS
  <2>11. /\ window.start = Larger(0, first - Overscan)
         /\ window.end = Smaller(ItemCount, last + 1 + Overscan)
    BY <2>4, <2>5, <2>6, <2>8, <2>9, <2>10 DEF WindowFor
  <2>12. /\ window.start \in Nat /\ window.start <= first
         /\ window.end \in Nat /\ last < window.end /\ window.end <= ItemCount
    BY <1>1, <2>8, <2>9, <2>11, SMTT(30) DEF Larger, Smaller
  <2>13. \A i \in 0..ItemCount, k \in 0..ItemCount : i <= k => Top(heights, i) <= Top(heights, k)
    <3>1. \A i \in 0..ItemCount, k \in 0..ItemCount : i <= k => i \in 0..k /\ k \in 0..Len(heights)
      BY <1>1 DEF ItemCount
    <3>. QED  BY <3>1, SumsGrow
  <2>14. ASSUME NEW pixel \in scrollTop..scrollTop + Viewport - 1, NEW i \in 0..ItemCount - 1,
                Top(heights, i) <= pixel, pixel < Top(heights, i + 1)
         PROVE  first <= i /\ i <= last
    <3>1. i \in Nat /\ i + 1 \in 0..ItemCount /\ i \in 0..ItemCount /\ pixel \in Nat /\ lowest <= pixel /\ pixel <= highest
          /\ first \in 0..ItemCount /\ last \in 0..ItemCount /\ last + 1 \in 0..ItemCount
      BY <1>1, <2>3, <2>5, <2>6, <2>7, <2>8, <2>9
    <3>2. Top(heights, i + 1) \in Nat /\ Top(heights, i) \in Nat /\ Top(heights, ItemCount) \in Nat
          /\ Top(heights, first) \in Nat /\ Top(heights, last + 1) \in Nat
      BY <1>1, <2>2, <3>1
    <3>3. Top(heights, i + 1) <= Top(heights, ItemCount)
      BY <1>1, <2>13, <3>1
    <3>4. first <= i
      <4>1. SUFFICES ASSUME i < first PROVE FALSE
        BY <2>8, <3>1
      <4>2. i + 1 <= first
        BY <2>8, <3>1, <4>1
      <4>3. Top(heights, i + 1) <= Top(heights, first)
        BY <2>13, <3>1, <4>2
      <4>4. Top(heights, first) <= lowest \/ Top(heights, ItemCount) <= lowest
        BY <2>8 DEF Under
      <4>. QED  BY <2>7, <2>14, <3>1, <3>2, <3>3, <4>3, <4>4, SMTT(30)
    <3>5. i <= last
      <4>1. SUFFICES ASSUME last < i PROVE FALSE
        BY <2>9, <3>1
      <4>2. last + 1 <= i
        BY <2>9, <3>1, <4>1
      <4>3. Top(heights, last + 1) <= Top(heights, i)
        BY <2>13, <3>1, <4>2
      <4>4. last # ItemCount - 1
        BY <1>1, <2>9, <3>1, <4>1
      <4>5. highest < Top(heights, last + 1)
        BY <2>9, <4>4 DEF Under
      <4>. QED  BY <2>7, <2>14, <3>1, <3>2, <4>3, <4>5, SMTT(30)
    <3>. QED  BY <3>4, <3>5
  <2>15. window.start < window.end
    <3>1. first <= last
      <4>1. SUFFICES ASSUME last < first PROVE FALSE
        BY <2>8, <2>9
      <4>2. last + 1 <= first /\ last + 1 \in 0..ItemCount /\ first \in 0..ItemCount /\ last # ItemCount - 1
        BY <1>1, <2>8, <2>9, <4>1
      <4>3. Top(heights, last + 1) <= Top(heights, first) /\ Top(heights, first) <= Top(heights, ItemCount)
        BY <1>1, <2>13, <4>2
      <4>4. highest < Top(heights, last + 1)
        BY <2>9, <4>2 DEF Under
      <4>5. Top(heights, first) <= lowest \/ Top(heights, ItemCount) <= lowest
        BY <2>8 DEF Under
      <4>6. lowest <= highest
        BY <2>3, <2>5, <2>6
      <4>7. Top(heights, last + 1) \in Nat /\ Top(heights, first) \in Nat /\ Top(heights, ItemCount) \in Nat
        BY <1>1, <2>2, <4>2
      <4>. QED  BY <2>7, <4>3, <4>4, <4>5, <4>6, <4>7
    <3>. QED  BY <2>8, <2>9, <2>12, <3>1
  <2>16. \A pixel \in scrollTop..scrollTop + Viewport - 1 : \A i \in 0..ItemCount - 1 :
           Top(heights, i) <= pixel /\ pixel < Top(heights, i + 1)
             => window.start <= i /\ i < window.end
    <3>1. \A i \in 0..ItemCount - 1 : first <= i /\ i <= last => window.start <= i /\ i < window.end
      BY <1>1, <2>8, <2>9, <2>12
    <3>. QED  BY <2>14, <3>1
  <2>. QED  BY <2>10, <2>15, <2>16
<1>. QED  BY <1>2, <1>3 DEF WindowsCoverTheView

LEMMA ListInitially == ListInit => ListIInv
<1>. SUFFICES ASSUME ListInit PROVE ListIInv
  OBVIOUS
<1>1. heights = <<>> /\ measured = <<>> /\ offsets = <<0>> /\ dirtyFrom = 0 /\ measuredCount = 0 /\ measuredTotal = 0
  BY DEF ListInit
<1>2. heights \in Seq(Nat) /\ measured \in Seq(BOOLEAN) /\ Len(heights) = 0 /\ Len(measured) = 0
  BY <1>1
<1>3. Lists
  BY <1>1, <1>2, ListAssumption DEF Lists
<1>4. /\ Marks(measured) \in Seq(Int) /\ Weights(measured, heights) \in Seq(Int)
      /\ heights \in Seq(Int)
  BY <1>2, MarksAre, NatsAreInts
<1>5. Top(Marks(measured), 0) = 0 /\ Top(Weights(measured, heights), 0) = 0 /\ Top(heights, 0) = 0
  BY <1>4, SumsAre
<1>6. SumsHold
  <2>1. offsets[0 + 1] = 0 /\ \A i \in 0..0 : i = 0
    BY <1>1
  <2>. QED  BY <1>1, <1>5, <2>1 DEF SumsHold
<1>. QED  BY <1>1, <1>2, <1>3, <1>5, <1>6 DEF ListIInv, AverageHolds

LEMMA EstimateIs == ASSUME ListIInv PROVE Estimate \in Nat
<1>. USE ListAssumption DEF ListIInv, Lists
<1>1. Len(heights) \in Nat /\ Len(heights) \in 0..Len(heights)
  OBVIOUS
<1>2. measuredCount \in Nat /\ measuredTotal \in Nat
  <2>1. /\ Marks(measured) \in Seq(Nat) /\ Len(Marks(measured)) = Len(heights)
        /\ Weights(measured, heights) \in Seq(Nat) /\ Len(Weights(measured, heights)) = Len(heights)
    BY MarksAre
  <2>. QED  BY <1>1, <2>1, SumsGrow DEF AverageHolds
<1>. QED  BY <1>2 DEF Estimate

\* Heights with their marks; the items after the first k, up to the l-th, of the one list are
\* those c places further on in the other; what they add up to is then the same.
Pair(hs, ms) == hs \in Seq(Nat) /\ ms \in Seq(BOOLEAN) /\ Len(ms) = Len(hs)

Copied(hs, ms, is, ns, k, l, c) ==
  /\ k \in Nat /\ l \in Nat /\ c \in Nat /\ k <= l /\ l <= Len(hs) /\ l + c <= Len(is)
  /\ \A i \in k + 1..l : is[i + c] = hs[i] /\ ns[i + c] = ms[i]

AddUpTheSame(hs, ms, is, ns, k, l, c) ==
  /\ Top(is, l + c) - Top(is, k + c) = Top(hs, l) - Top(hs, k)
  /\ Top(Marks(ns), l + c) - Top(Marks(ns), k + c) = Top(Marks(ms), l) - Top(Marks(ms), k)
  /\ Top(Weights(ns, is), l + c) - Top(Weights(ns, is), k + c)
       = Top(Weights(ms, hs), l) - Top(Weights(ms, hs), k)

LEMMA CopiesAddUp ==
  ASSUME NEW hs, NEW ms, NEW is, NEW ns, NEW k, NEW l, NEW c,
         Pair(hs, ms), Pair(is, ns), Copied(hs, ms, is, ns, k, l, c)
  PROVE  AddUpTheSame(hs, ms, is, ns, k, l, c)
<1>1. /\ Marks(ms) \in Seq(Int) /\ Len(Marks(ms)) = Len(hs)
      /\ Weights(ms, hs) \in Seq(Int) /\ Len(Weights(ms, hs)) = Len(hs)
      /\ Marks(ns) \in Seq(Int) /\ Len(Marks(ns)) = Len(is)
      /\ Weights(ns, is) \in Seq(Int) /\ Len(Weights(ns, is)) = Len(is)
  BY MarksAre DEF Pair
<1>2. Len(hs) \in Nat /\ Len(is) \in Nat /\ k \in Nat /\ l \in Nat /\ c \in Nat /\ k <= l /\ l <= Len(hs)
      /\ l + c <= Len(is) /\ k \in 0..Len(hs) /\ l \in k..Len(hs)
  BY LenProperties DEF Pair, Copied
<1>3. \A i \in k + 1..l : /\ Marks(ns)[i + c] = Marks(ms)[i]
                         /\ Weights(ns, is)[i + c] = Weights(ms, hs)[i]
  <2>1. \A i \in k + 1..l : i \in 1..Len(hs) /\ i + c \in 1..Len(is)
    BY <1>2
  <2>2. \A i \in 1..Len(hs) : /\ Marks(ms)[i] = (IF ms[i] THEN 1 ELSE 0)
                             /\ Weights(ms, hs)[i] = (IF ms[i] THEN hs[i] ELSE 0)
    BY MarksAre DEF Pair
  <2>3. \A i \in 1..Len(is) : /\ Marks(ns)[i] = (IF ns[i] THEN 1 ELSE 0)
                             /\ Weights(ns, is)[i] = (IF ns[i] THEN is[i] ELSE 0)
    BY MarksAre DEF Pair
  <2>4. \A i \in k + 1..l : is[i + c] = hs[i] /\ ns[i + c] = ms[i]
    BY DEF Copied
  <2>. QED  BY <2>1, <2>2, <2>3, <2>4
<1>4. hs \in Seq(Int) /\ is \in Seq(Int)
  BY NatsAreInts DEF Pair
<1>5. Top(is, l + c) - Top(is, k + c) = Top(hs, l) - Top(hs, k)
  <2>1. \A i \in k + 1..l : is[i + c] = hs[i]
    BY DEF Copied
  <2>. QED  BY <1>2, <1>4, <2>1, SumsAgree
<1>6. Top(Marks(ns), l + c) - Top(Marks(ns), k + c) = Top(Marks(ms), l) - Top(Marks(ms), k)
  <2>. DEFINE s == Marks(ms)
              t == Marks(ns)
  <2>1. s \in Seq(Int) /\ t \in Seq(Int) /\ Len(s) = Len(hs) /\ Len(t) = Len(is)
        /\ \A i \in k + 1..l : t[i + c] = s[i]
    BY <1>1, <1>3
  <2>. HIDE DEF s, t
  <2>2. c \in Nat /\ k \in 0..Len(s) /\ l \in k..Len(s) /\ l + c <= Len(t)
    BY <1>2, <2>1
  <2>3. Top(t, l + c) - Top(t, k + c) = Top(s, l) - Top(s, k)
    BY <2>1, <2>2, SumsAgree
  <2>. QED  BY <2>3 DEF s, t
<1>7. Top(Weights(ns, is), l + c) - Top(Weights(ns, is), k + c)
        = Top(Weights(ms, hs), l) - Top(Weights(ms, hs), k)
  <2>. DEFINE s == Weights(ms, hs)
              t == Weights(ns, is)
  <2>1. s \in Seq(Int) /\ t \in Seq(Int) /\ Len(s) = Len(hs) /\ Len(t) = Len(is)
        /\ \A i \in k + 1..l : t[i + c] = s[i]
    BY <1>1, <1>3
  <2>. HIDE DEF s, t
  <2>2. c \in Nat /\ k \in 0..Len(s) /\ l \in k..Len(s) /\ l + c <= Len(t)
    BY <1>2, <2>1
  <2>3. Top(t, l + c) - Top(t, k + c) = Top(s, l) - Top(s, k)
    BY <2>1, <2>2, SumsAgree
  <2>. QED  BY <2>3 DEF s, t
<1>. QED  BY <1>5, <1>6, <1>7 DEF AddUpTheSame

LEMMA SumsAreNumbers ==
  ASSUME NEW hs, NEW ms, Pair(hs, ms)
  PROVE  /\ Top(hs, 0) = 0 /\ Top(Marks(ms), 0) = 0 /\ Top(Weights(ms, hs), 0) = 0
         /\ \A i \in 0..Len(hs) : /\ Top(hs, i) \in Nat
                                  /\ Top(Marks(ms), i) \in Nat
                                  /\ Top(Weights(ms, hs), i) \in Nat
<1>1. /\ Marks(ms) \in Seq(Nat) /\ Len(Marks(ms)) = Len(hs) /\ Marks(ms) \in Seq(Int)
      /\ Weights(ms, hs) \in Seq(Nat) /\ Len(Weights(ms, hs)) = Len(hs) /\ Weights(ms, hs) \in Seq(Int)
      /\ hs \in Seq(Nat) /\ hs \in Seq(Int)
  BY MarksAre, NatsAreInts DEF Pair
<1>2. Top(hs, 0) = 0 /\ Top(Marks(ms), 0) = 0 /\ Top(Weights(ms, hs), 0) = 0
  BY <1>1, SumsAre
<1>3. \A i \in 0..Len(hs) : Top(hs, i) \in Nat
  BY <1>1, SumsGrow
<1>4. \A i \in 0..Len(hs) : Top(Marks(ms), i) \in Nat
  BY <1>1, SumsGrow
<1>5. \A i \in 0..Len(hs) : Top(Weights(ms, hs), i) \in Nat
  BY <1>1, SumsGrow
<1>. QED  BY <1>2, <1>3, <1>4, <1>5

\* Items that stay where they are keep their sums, and their part of the average.
SumsStay(hs, ms, is, ns, m) ==
  \A i \in 0..m : /\ Top(is, i) = Top(hs, i)
                  /\ Top(Marks(ns), i) = Top(Marks(ms), i)
                  /\ Top(Weights(ns, is), i) = Top(Weights(ms, hs), i)

LEMMA PrefixesStay ==
  ASSUME NEW hs, NEW ms, NEW is, NEW ns, NEW m,
         Pair(hs, ms), Pair(is, ns), Copied(hs, ms, is, ns, 0, m, 0)
  PROVE  SumsStay(hs, ms, is, ns, m)
<1>1. m \in Nat /\ m <= Len(hs) /\ m <= Len(is) /\ Len(hs) \in Nat /\ Len(is) \in Nat
  BY LenProperties DEF Copied, Pair
<1>2. ASSUME NEW l \in 0..m
      PROVE  /\ Top(is, l) = Top(hs, l)
             /\ Top(Marks(ns), l) = Top(Marks(ms), l)
             /\ Top(Weights(ns, is), l) = Top(Weights(ms, hs), l)
  <2>1. l \in 0..Len(hs) /\ l \in 0..Len(is) /\ l + 0 = l /\ 0 + 0 = 0
    BY <1>1
  <2>2. Copied(hs, ms, is, ns, 0, l, 0)
    <3>1. \A i \in 0 + 1..l : i \in 0 + 1..m
      BY <1>1
    <3>2. \A i \in 0 + 1..l : is[i + 0] = hs[i] /\ ns[i + 0] = ms[i]
      BY <3>1 DEF Copied
    <3>3. 0 \in Nat /\ l \in Nat /\ 0 <= l /\ l <= Len(hs) /\ l + 0 <= Len(is)
      BY <1>1
    <3>. QED  BY <3>2, <3>3 DEF Copied
  <2>3. AddUpTheSame(hs, ms, is, ns, 0, l, 0)
    BY <2>2, CopiesAddUp
  <2>4. /\ Top(is, l) - Top(is, 0) = Top(hs, l) - Top(hs, 0)
        /\ Top(Marks(ns), l) - Top(Marks(ns), 0) = Top(Marks(ms), l) - Top(Marks(ms), 0)
        /\ Top(Weights(ns, is), l) - Top(Weights(ns, is), 0)
             = Top(Weights(ms, hs), l) - Top(Weights(ms, hs), 0)
    BY <2>1, <2>3 DEF AddUpTheSame
  <2>5. /\ Top(hs, 0) = 0 /\ Top(Marks(ms), 0) = 0 /\ Top(Weights(ms, hs), 0) = 0
        /\ Top(is, 0) = 0 /\ Top(Marks(ns), 0) = 0 /\ Top(Weights(ns, is), 0) = 0
    BY SumsAreNumbers
  <2>6. /\ Top(hs, l) \in Nat /\ Top(Marks(ms), l) \in Nat /\ Top(Weights(ms, hs), l) \in Nat
        /\ Top(is, l) \in Nat /\ Top(Marks(ns), l) \in Nat /\ Top(Weights(ns, is), l) \in Nat
    BY <2>1, SumsAreNumbers
  <2>. QED  BY <2>4, <2>5, <2>6
<1>. QED  BY <1>2 DEF SumsStay

\* setCount.
LEMMA SetCountKeeps == ASSUME ListIInv, SetCount PROVE ListIInv'
<1>. USE DEF ListIInv
<1>1. PICK count \in 0..MaxItems \ {ItemCount} :
        /\ IF count < ItemCount
           THEN /\ measuredCount' = measuredCount - Dropped(Marks(measured), count)
                /\ measuredTotal' = measuredTotal - Dropped(Weights(measured, heights), count)
                /\ heights' = SubSeq(heights, 1, count)
                /\ measured' = SubSeq(measured, 1, count)
           ELSE /\ heights' = heights \o [i \in 1..count - ItemCount |-> Estimate]
                /\ measured' = measured \o [i \in 1..count - ItemCount |-> FALSE]
                /\ UNCHANGED <<measuredCount, measuredTotal>>
        /\ MarkDirty(count) /\ UNCHANGED offsets
  BY DEF SetCount
<1>2. PICK n \in Nat : n = Len(heights) /\ n = ItemCount /\ n = Len(measured)
  BY DEF Lists, ItemCount
<1>3. count \in Nat /\ count # n /\ count \in 0..MaxItems /\ dirtyFrom \in 0..n
  BY <1>1, <1>2, ListAssumption DEF Lists
<1>4. PICK m \in Nat : m = Smaller(n, count) /\ m <= n /\ m <= count
  BY <1>2, <1>3 DEF Smaller
<1>5. dirtyFrom' \in 0..m /\ dirtyFrom' <= dirtyFrom
  BY <1>1, <1>2, <1>3, <1>4 DEF MarkDirty, Smaller
<1>6. /\ heights' \in Seq(Nat) /\ measured' \in Seq(BOOLEAN)
      /\ Len(heights') = count /\ Len(measured') = count
      /\ \A i \in 1..m : heights'[i] = heights[i] /\ measured'[i] = measured[i]
      /\ \A i \in m + 1..count : measured'[i] = FALSE
  <2>1. CASE count < n
    <3>1. m = count /\ (\A i \in 1..count : i \in 1..n) /\ \A i \in m + 1..count : FALSE
      BY <1>3, <1>4, <2>1 DEF Smaller
    <3>2. \A i \in 1..count : heights[i] \in Nat /\ measured[i] \in BOOLEAN
      BY <1>2, <3>1, LenProperties DEF Lists
    <3>3. /\ 1 \in Int /\ count \in Int /\ (IF 1 <= count THEN count - 1 + 1 ELSE 0) = count
          /\ \A i \in 1..count : i \in 1..count - 1 + 1 /\ 1 + i - 1 = i
      BY <1>3
    <3>4. /\ SubSeq(heights, 1, count) \in Seq(Nat)
          /\ Len(SubSeq(heights, 1, count)) = count
          /\ \A i \in 1..count : SubSeq(heights, 1, count)[i] = heights[i]
      BY <3>2, <3>3, SubSeqProperties
    <3>5. /\ SubSeq(measured, 1, count) \in Seq(BOOLEAN)
          /\ Len(SubSeq(measured, 1, count)) = count
          /\ \A i \in 1..count : SubSeq(measured, 1, count)[i] = measured[i]
      BY <3>2, <3>3, SubSeqProperties
    <3>. QED  BY <1>1, <1>2, <2>1, <3>1, <3>4, <3>5
  <2>2. CASE ~(count < n)
    <3>. DEFINE news == [i \in 1..count - n |-> Estimate]
                flags == [i \in 1..count - n |-> FALSE]
    <3>1. count - n \in Nat /\ m = n /\ n + (count - n) = count
      BY <1>2, <1>3, <1>4, <2>2 DEF Smaller
    <3>2. \A S : \A f \in [1..count - n -> S] : f \in Seq(S) /\ Len(f) = count - n
      <4>. SUFFICES ASSUME NEW S, NEW f \in [1..count - n -> S] PROVE f \in Seq(S) /\ Len(f) = count - n
        OBVIOUS
      <4>1. f \in Seq(S)
        BY <3>1, SeqDef
      <4>2. Len(f) \in Nat /\ DOMAIN f = 1..Len(f) /\ DOMAIN f = 1..count - n
        BY <4>1, LenProperties
      <4>. QED  BY <3>1, <4>1, <4>2
    <3>3. news \in Seq(Nat) /\ Len(news) = count - n
      <4>1. news \in [1..count - n -> Nat]
        BY EstimateIs
      <4>. QED  BY <3>2, <4>1
    <3>4. flags \in Seq(BOOLEAN) /\ Len(flags) = count - n /\ \A i \in 1..count - n : flags[i] = FALSE
      <4>1. flags \in [1..count - n -> BOOLEAN]
        OBVIOUS
      <4>. QED  BY <3>2, <4>1
    <3>5. heights' = heights \o news /\ measured' = measured \o flags
      BY <1>1, <1>2, <2>2
    <3>. HIDE DEF news, flags
    <3>6. /\ heights \o news \in Seq(Nat) /\ Len(heights \o news) = count
          /\ \A i \in 1..count : (heights \o news)[i] = IF i <= n THEN heights[i] ELSE news[i - n]
      BY <1>2, <3>1, <3>3, ConcatProperties DEF Lists
    <3>7. /\ measured \o flags \in Seq(BOOLEAN) /\ Len(measured \o flags) = count
          /\ \A i \in 1..count : (measured \o flags)[i] = IF i <= n THEN measured[i] ELSE flags[i - n]
      <4>1. measured \in Seq(BOOLEAN) /\ flags \in Seq(BOOLEAN) /\ Len(measured) = n /\ Len(flags) = count - n
        BY <1>2, <3>4 DEF Lists
      <4>2. /\ measured \o flags \in Seq(BOOLEAN) /\ Len(measured \o flags) = Len(measured) + Len(flags)
            /\ \A i \in 1..Len(measured) + Len(flags) :
                 (measured \o flags)[i] = IF i <= Len(measured) THEN measured[i] ELSE flags[i - Len(measured)]
        BY <4>1, ConcatProperties, Zenon
      <4>. QED  BY <3>1, <4>1, <4>2
    <3>8. /\ \A i \in 1..m : i \in 1..count /\ i <= n
          /\ \A i \in m + 1..count : i \in 1..count /\ ~(i <= n) /\ i - n \in 1..count - n
      BY <1>2, <1>3, <3>1
    <3>. QED  BY <3>4, <3>5, <3>6, <3>7, <3>8
  <2>. QED  BY <2>1, <2>2
<1>7. PICK hs \in Seq(Nat), ms \in Seq(BOOLEAN) : hs = heights' /\ ms = measured'
  BY <1>6
<1>8. /\ Len(hs) = count /\ Len(ms) = count
      /\ \A i \in 1..m : hs[i] = heights[i] /\ ms[i] = measured[i]
      /\ \A i \in m + 1..count : ms[i] = FALSE
  BY <1>6, <1>7
<1>9. \A i \in 0..m : /\ Top(hs, i) = Top(heights, i)
                     /\ Top(Marks(ms), i) = Top(Marks(measured), i)
                     /\ Top(Weights(ms, hs), i) = Top(Weights(measured, heights), i)
  <2>1. Pair(heights, measured) /\ Pair(hs, ms)
    BY <1>8 DEF Lists, Pair
  <2>2. Copied(heights, measured, hs, ms, 0, m, 0)
    <3>1. \A i \in 0 + 1..m : i + 0 = i /\ i \in 1..m
      BY <1>4
    <3>2. m + 0 = m /\ 0 <= m /\ m <= Len(heights) /\ m <= Len(hs)
      BY <1>2, <1>4, <1>8
    <3>. QED  BY <1>4, <1>8, <3>1, <3>2 DEF Copied
  <2>3. SumsStay(heights, measured, hs, ms, m)
    BY <2>1, <2>2, PrefixesStay
  <2>. QED  BY <2>3 DEF SumsStay
<1>10. Lists'
  BY <1>3, <1>4, <1>5, <1>6 DEF Lists
<1>11. SumsHold'
  <2>1. \A i \in 0..dirtyFrom' : i \in 0..m /\ i \in 0..dirtyFrom
    BY <1>3, <1>4, <1>5
  <2>. QED  BY <1>1, <1>7, <1>9, <2>1 DEF SumsHold
<1>12. AverageHolds'
  <2>1. /\ Marks(ms) \in Seq(Int) /\ Len(Marks(ms)) = count
        /\ Weights(ms, hs) \in Seq(Int) /\ Len(Weights(ms, hs)) = count
        /\ \A i \in 1..count : ms[i] = FALSE => Marks(ms)[i] = 0 /\ Weights(ms, hs)[i] = 0
    BY <1>8, MarksAre
  <2>2. /\ Marks(measured) \in Seq(Int) /\ Len(Marks(measured)) = n
        /\ Weights(measured, heights) \in Seq(Int) /\ Len(Weights(measured, heights)) = n
    BY <1>2, MarksAre DEF Lists
  <2>3. m \in 0..m /\ m \in 0..count /\ count \in m..count /\ n \in 0..n /\ m \in 0..n
        /\ \A i \in m + 1..count : i \in 1..count
    BY <1>3, <1>4
  <2>4. Top(Marks(ms), count) = Top(Marks(ms), m) /\ Top(Weights(ms, hs), count) = Top(Weights(ms, hs), m)
    BY <1>8, <2>1, <2>3, SumsOfNothing
  <2>5. /\ Top(Marks(measured), n) \in Int /\ Top(Marks(measured), m) \in Int
        /\ Top(Weights(measured, heights), n) \in Int /\ Top(Weights(measured, heights), m) \in Int
    BY <2>2, <2>3, SumsAre
  <2>6. measuredCount = Top(Marks(measured), n) /\ measuredTotal = Top(Weights(measured, heights), n)
    BY <1>2 DEF AverageHolds
  <2>7. measuredCount' = Top(Marks(measured), m) /\ measuredTotal' = Top(Weights(measured, heights), m)
    <3>1. CASE count < n
      <4>1. m = count
        BY <1>3, <1>4, <3>1 DEF Smaller
      <4>. QED  BY <1>1, <1>2, <2>2, <2>5, <2>6, <3>1, <4>1 DEF Dropped
    <3>2. CASE ~(count < n)
      <4>1. m = n
        BY <1>3, <1>4, <3>2 DEF Smaller
      <4>. QED  BY <1>1, <1>2, <2>6, <3>2, <4>1
    <3>. QED  BY <3>1, <3>2
  <2>8. measuredCount' = Top(Marks(ms), count) /\ measuredTotal' = Top(Weights(ms, hs), count)
    BY <1>9, <2>3, <2>4, <2>7
  <2>. QED  BY <1>7, <1>8, <2>8 DEF AverageHolds
<1>. QED  BY <1>10, <1>11, <1>12

\* Items without a measurement add nothing to the average.
LEMMA NothingMeasured ==
  ASSUME NEW hs, NEW ms, Pair(hs, ms), NEW m \in 0..Len(hs), \A i \in 1..m : ms[i] = FALSE
  PROVE  Top(Marks(ms), m) = 0 /\ Top(Weights(ms, hs), m) = 0
<1>1. /\ Marks(ms) \in Seq(Int) /\ Len(Marks(ms)) = Len(hs)
      /\ Weights(ms, hs) \in Seq(Int) /\ Len(Weights(ms, hs)) = Len(hs)
  BY MarksAre DEF Pair
<1>2. Len(hs) \in Nat /\ m \in 0..Len(hs) /\ 0 \in 0..Len(hs) /\ m \in 0..m /\ \A i \in 0 + 1..m : i \in 1..Len(hs) /\ i \in 1..m
  BY LenProperties DEF Pair
<1>3. \A i \in 0 + 1..m : Marks(ms)[i] = 0 /\ Weights(ms, hs)[i] = 0
  <2>1. \A i \in 1..Len(hs) : /\ Marks(ms)[i] = (IF ms[i] THEN 1 ELSE 0)
                             /\ Weights(ms, hs)[i] = (IF ms[i] THEN hs[i] ELSE 0)
    BY MarksAre DEF Pair
  <2>. QED  BY <1>2, <2>1
<1>4. Top(Marks(ms), m) = Top(Marks(ms), 0) /\ Top(Weights(ms, hs), m) = Top(Weights(ms, hs), 0)
  <2>1. m \in 0..Len(Marks(ms)) /\ m \in 0..Len(Weights(ms, hs))
    BY <1>1
  <2>2. 0 \in 0..Len(Marks(ms)) /\ 0 \in 0..Len(Weights(ms, hs)) /\ m \in 0..Len(hs)
    BY <1>1, <1>2
  <2>. QED  BY <1>1, <1>3, <2>1, <2>2, SumsOfNothing
<1>. QED  BY <1>4, SumsAreNumbers

LEMMA TablesAreSeqs ==
  ASSUME NEW S, NEW n \in Nat, NEW f \in [1..n -> S] PROVE f \in Seq(S) /\ Len(f) = n
<1>1. f \in Seq(S)
  BY SeqDef
<1>2. Len(f) \in Nat /\ DOMAIN f = 1..Len(f) /\ DOMAIN f = 1..n
  BY <1>1, LenProperties
<1>. QED  BY <1>1, <1>2

\* prepend.
LEMMA PrependKeeps == ASSUME ListIInv, Prepend PROVE ListIInv'
<1>. USE DEF ListIInv
<1>1. PICK count \in 1..MaxItems - ItemCount :
        /\ heights' = [i \in 1..count |-> Estimate] \o heights
        /\ measured' = [i \in 1..count |-> FALSE] \o measured
        /\ MarkDirty(0) /\ UNCHANGED <<offsets, measuredCount, measuredTotal>>
  BY DEF Prepend
<1>2. PICK n \in Nat : n = Len(heights) /\ n = ItemCount /\ n = Len(measured)
  BY DEF Lists, ItemCount
<1>3. count \in Nat /\ count + n \in 0..MaxItems /\ n + count = count + n
  BY <1>1, <1>2, ListAssumption
<1>4. dirtyFrom' = 0
  <2>1. dirtyFrom \in Nat
    BY <1>2 DEF Lists
  <2>. QED  BY <1>1, <2>1 DEF MarkDirty, Smaller
<1>. DEFINE news == [i \in 1..count |-> Estimate]
            flags == [i \in 1..count |-> FALSE]
<1>5. news \in Seq(Nat) /\ Len(news) = count
  <2>1. news \in [1..count -> Nat]
    BY EstimateIs
  <2>. HIDE DEF news
  <2>. QED  BY <1>3, <2>1, TablesAreSeqs
<1>6. flags \in Seq(BOOLEAN) /\ Len(flags) = count /\ \A i \in 1..count : flags[i] = FALSE
  <2>1. flags \in [1..count -> BOOLEAN] /\ \A i \in 1..count : flags[i] = FALSE
    OBVIOUS
  <2>. HIDE DEF flags
  <2>. QED  BY <1>3, <2>1, TablesAreSeqs
<1>7. PICK hs, ms : hs = heights' /\ ms = measured'
  OBVIOUS
<1>8. hs = news \o heights /\ ms = flags \o measured
  BY <1>1, <1>7
<1>. HIDE DEF news, flags
<1>9. /\ hs \in Seq(Nat) /\ Len(hs) = count + n
      /\ \A i \in 1..count + n : hs[i] = IF i <= count THEN news[i] ELSE heights[i - count]
  <2>1. heights \in Seq(Nat) /\ Len(heights) = n
    BY <1>2 DEF Lists
  <2>2. /\ news \o heights \in Seq(Nat) /\ Len(news \o heights) = Len(news) + Len(heights)
        /\ \A i \in 1..Len(news) + Len(heights) :
             (news \o heights)[i] = IF i <= Len(news) THEN news[i] ELSE heights[i - Len(news)]
    BY <1>5, <2>1, ConcatProperties, Zenon
  <2>. QED  BY <1>5, <1>8, <2>1, <2>2
<1>10. /\ ms \in Seq(BOOLEAN) /\ Len(ms) = count + n
       /\ \A i \in 1..count + n : ms[i] = IF i <= count THEN flags[i] ELSE measured[i - count]
  <2>1. measured \in Seq(BOOLEAN) /\ flags \in Seq(BOOLEAN) /\ Len(measured) = n /\ Len(flags) = count
    BY <1>2, <1>6 DEF Lists
  <2>2. /\ flags \o measured \in Seq(BOOLEAN) /\ Len(flags \o measured) = Len(flags) + Len(measured)
        /\ \A i \in 1..Len(flags) + Len(measured) :
             (flags \o measured)[i] = IF i <= Len(flags) THEN flags[i] ELSE measured[i - Len(flags)]
    BY <2>1, ConcatProperties, Zenon
  <2>. QED  BY <1>8, <2>1, <2>2
<1>11. Pair(heights, measured) /\ Pair(hs, ms)
  BY <1>9, <1>10 DEF Lists, Pair
<1>12. Copied(heights, measured, hs, ms, 0, n, count)
  <2>1. \A i \in 0 + 1..n : i + count \in 1..count + n /\ ~(i + count <= count) /\ i + count - count = i
    BY <1>2, <1>3
  <2>2. 0 \in Nat /\ 0 <= n /\ n <= Len(heights) /\ n + count <= Len(hs)
    BY <1>2, <1>3, <1>9
  <2>3. \A i \in 0 + 1..n : hs[i + count] = heights[i] /\ ms[i + count] = measured[i]
    BY <1>9, <1>10, <2>1, SMTT(30)
  <2>. QED  BY <1>2, <1>3, <2>2, <2>3 DEF Copied
<1>13. Lists'
  BY <1>3, <1>4, <1>7, <1>9, <1>10 DEF Lists
<1>14. SumsHold'
  <2>1. offsets[0 + 1] = Top(heights, 0)
    BY <1>2 DEF SumsHold, Lists
  <2>2. Top(heights, 0) = 0 /\ Top(hs, 0) = 0
    BY <1>11, SumsAreNumbers
  <2>3. \A i \in 0..0 : i = 0
    OBVIOUS
  <2>. QED  BY <1>1, <1>4, <1>7, <2>1, <2>2, <2>3 DEF SumsHold
<1>15. AverageHolds'
  <2>1. Top(Marks(ms), count) = 0 /\ Top(Weights(ms, hs), count) = 0
    <3>1. count \in 0..Len(hs) /\ \A i \in 1..count : i \in 1..count + n /\ i <= count
      BY <1>2, <1>3, <1>9
    <3>2. \A i \in 1..count : ms[i] = FALSE
      BY <1>6, <1>10, <3>1
    <3>. QED  BY <1>11, <3>1, <3>2, NothingMeasured
  <2>2. /\ Top(Marks(ms), n + count) - Top(Marks(ms), 0 + count) = Top(Marks(measured), n) - Top(Marks(measured), 0)
        /\ Top(Weights(ms, hs), n + count) - Top(Weights(ms, hs), 0 + count)
             = Top(Weights(measured, heights), n) - Top(Weights(measured, heights), 0)
    BY <1>11, <1>12, CopiesAddUp DEF AddUpTheSame
  <2>3. /\ Top(Marks(measured), 0) = 0 /\ Top(Weights(measured, heights), 0) = 0
        /\ Top(Marks(measured), n) \in Nat /\ Top(Weights(measured, heights), n) \in Nat
    <3>1. n \in 0..Len(heights)
      BY <1>2
    <3>. QED  BY <1>11, <3>1, SumsAreNumbers
  <2>4. /\ Top(Marks(ms), n + count) \in Nat /\ Top(Weights(ms, hs), n + count) \in Nat
    <3>1. n + count \in 0..Len(hs)
      BY <1>2, <1>3, <1>9
    <3>. QED  BY <1>11, <3>1, SumsAreNumbers
  <2>5. 0 + count = count
    BY <1>3
  <2>6. Top(Marks(ms), n + count) = Top(Marks(measured), n) /\ Top(Weights(ms, hs), n + count) = Top(Weights(measured, heights), n)
    BY <2>1, <2>2, <2>3, <2>4, <2>5
  <2>7. measuredCount' = Top(Marks(measured), n) /\ measuredTotal' = Top(Weights(measured, heights), n)
    BY <1>1, <1>2 DEF AverageHolds
  <2>8. Len(hs) = n + count
    BY <1>3, <1>9
  <2>. QED  BY <1>7, <2>6, <2>7, <2>8 DEF AverageHolds
<1>. QED  BY <1>13, <1>14, <1>15

\* invalidateMeasurements.
LEMMA InvalidateKeeps == ASSUME ListIInv, InvalidateMeasurements PROVE ListIInv'
<1>. USE DEF ListIInv
<1>1. /\ measuredCount' = 0 /\ measuredTotal' = 0
      /\ measured' = [i \in 1..ItemCount |-> FALSE]
      /\ heights' = [i \in 1..ItemCount |-> BaseEstimate]
      /\ MarkDirty(0) /\ UNCHANGED offsets
  BY DEF InvalidateMeasurements
<1>2. PICK n \in Nat : n = Len(heights) /\ n = ItemCount /\ n \in 0..MaxItems
  BY DEF Lists, ItemCount
<1>3. dirtyFrom' = 0
  <2>1. dirtyFrom \in Nat
    BY <1>2 DEF Lists
  <2>. QED  BY <1>1, <2>1 DEF MarkDirty, Smaller
<1>4. PICK hs, ms : hs = heights' /\ ms = measured'
  OBVIOUS
<1>5. hs \in [1..n -> Nat] /\ ms \in [1..n -> BOOLEAN] /\ \A i \in 1..n : ms[i] = FALSE
  BY <1>1, <1>2, <1>4, ListAssumption
<1>6. hs \in Seq(Nat) /\ Len(hs) = n /\ ms \in Seq(BOOLEAN) /\ Len(ms) = n
  BY <1>5, TablesAreSeqs
<1>7. Pair(heights, measured) /\ Pair(hs, ms)
  BY <1>6 DEF Lists, Pair
<1>8. Lists'
  BY <1>2, <1>3, <1>4, <1>6 DEF Lists
<1>9. SumsHold'
  <2>1. offsets[0 + 1] = Top(heights, 0)
    BY <1>2 DEF SumsHold, Lists
  <2>2. Top(heights, 0) = 0 /\ Top(hs, 0) = 0
    BY <1>7, SumsAreNumbers
  <2>3. \A i \in 0..0 : i = 0
    OBVIOUS
  <2>. QED  BY <1>1, <1>3, <1>4, <2>1, <2>2, <2>3 DEF SumsHold
<1>10. AverageHolds'
  <2>1. n \in 0..Len(hs)
    BY <1>6
  <2>2. Top(Marks(ms), n) = 0 /\ Top(Weights(ms, hs), n) = 0
    BY <1>5, <1>7, <2>1, NothingMeasured
  <2>. QED  BY <1>1, <1>4, <1>6, <2>2 DEF AverageHolds
<1>. QED  BY <1>8, <1>9, <1>10

\* One item has another height: the sums below it stay, and those above it move together.
LEMMA MeasureKeeps == ASSUME ListIInv, Measure PROVE ListIInv'
<1>. USE DEF ListIInv
<1>1. PICK i \in 1..ItemCount, height \in ItemHeights : Measured(i, height) /\ UNCHANGED offsets
  BY DEF Measure
<1>2. PICK n \in Nat : n = Len(heights) /\ n = ItemCount /\ n = Len(measured) /\ n \in 0..MaxItems
  BY DEF Lists, ItemCount
<1>3. i \in 1..n /\ i \in Nat /\ i - 1 \in Nat /\ height \in Nat /\ dirtyFrom \in 0..n
  BY <1>1, <1>2, ListAssumption DEF Lists
<1>4. PICK hs, ms : hs = heights' /\ ms = measured'
  OBVIOUS
<1>5. hs = [heights EXCEPT ![i] = height] /\ ms = [measured EXCEPT ![i] = TRUE]
  BY <1>1, <1>4 DEF Measured
<1>6. /\ hs \in [1..n -> Nat] /\ ms \in [1..n -> BOOLEAN]
      /\ hs[i] = height /\ ms[i] = TRUE
      /\ \A k \in 1..n : k # i => hs[k] = heights[k] /\ ms[k] = measured[k]
  <2>1. heights \in [1..n -> Nat] /\ measured \in [1..n -> BOOLEAN]
    BY <1>2, LenProperties DEF Lists
  <2>. QED  BY <1>3, <1>5, <2>1
<1>7. hs \in Seq(Nat) /\ Len(hs) = n /\ ms \in Seq(BOOLEAN) /\ Len(ms) = n
  BY <1>6, TablesAreSeqs
<1>8. Pair(heights, measured) /\ Pair(hs, ms)
  BY <1>7 DEF Lists, Pair
<1>9. dirtyFrom' \in 0..i - 1 /\ dirtyFrom' \in 0..n /\ dirtyFrom' <= dirtyFrom
  <2>1. dirtyFrom' = Smaller(dirtyFrom, i - 1)
    BY <1>1 DEF Measured, MarkDirty
  <2>. QED  BY <1>3, <2>1 DEF Smaller
<1>10. SumsStay(heights, measured, hs, ms, i - 1)
  <2>1. \A k \in 0 + 1..i - 1 : k \in 1..n /\ k # i /\ k + 0 = k
    BY <1>3
  <2>2. 0 \in Nat /\ 0 <= i - 1 /\ i - 1 <= Len(heights) /\ i - 1 + 0 <= Len(hs)
    BY <1>2, <1>3, <1>7
  <2>3. \A k \in 0 + 1..i - 1 : hs[k + 0] = heights[k] /\ ms[k + 0] = measured[k]
    BY <1>6, <2>1
  <2>4. Copied(heights, measured, hs, ms, 0, i - 1, 0)
    BY <1>3, <2>2, <2>3 DEF Copied
  <2>. QED  BY <1>8, <2>4, PrefixesStay
<1>11. AddUpTheSame(heights, measured, hs, ms, i, n, 0)
  <2>1. \A k \in i + 1..n : k \in 1..n /\ k # i /\ k + 0 = k
    BY <1>3
  <2>2. 0 \in Nat /\ i <= n /\ n <= Len(heights) /\ n + 0 <= Len(hs)
    BY <1>2, <1>3, <1>7
  <2>3. \A k \in i + 1..n : hs[k + 0] = heights[k] /\ ms[k + 0] = measured[k]
    BY <1>6, <2>1
  <2>4. Copied(heights, measured, hs, ms, i, n, 0)
    BY <1>2, <1>3, <2>2, <2>3 DEF Copied
  <2>. QED  BY <1>8, <2>4, CopiesAddUp
<1>12. Lists'
  BY <1>2, <1>4, <1>7, <1>9 DEF Lists
<1>13. SumsHold'
  <2>1. \A k \in 0..dirtyFrom' : k \in 0..i - 1 /\ k \in 0..dirtyFrom
    BY <1>3, <1>9
  <2>2. \A k \in 0..i - 1 : Top(hs, k) = Top(heights, k)
    BY <1>10 DEF SumsStay
  <2>. QED  BY <1>1, <1>4, <2>1, <2>2 DEF SumsHold
<1>14. AverageHolds'
  <2>1. /\ Marks(measured) \in Seq(Int) /\ Len(Marks(measured)) = n
        /\ Weights(measured, heights) \in Seq(Int) /\ Len(Weights(measured, heights)) = n
        /\ Marks(measured)[i] = (IF measured[i] THEN 1 ELSE 0)
        /\ Weights(measured, heights)[i] = (IF measured[i] THEN heights[i] ELSE 0)
    BY <1>2, <1>3, MarksAre DEF Lists
  <2>2. /\ Marks(ms) \in Seq(Int) /\ Len(Marks(ms)) = n
        /\ Weights(ms, hs) \in Seq(Int) /\ Len(Weights(ms, hs)) = n
        /\ Marks(ms)[i] = 1 /\ Weights(ms, hs)[i] = height
    <3>1. \A k \in 1..n : /\ Marks(ms)[k] = (IF ms[k] THEN 1 ELSE 0)
                          /\ Weights(ms, hs)[k] = (IF ms[k] THEN hs[k] ELSE 0)
      BY <1>7, MarksAre
    <3>. QED  BY <1>3, <1>6, <1>7, <3>1, MarksAre
  <2>3. /\ Top(Marks(measured), i) = Top(Marks(measured), i - 1) + Marks(measured)[i]
        /\ Top(Weights(measured, heights), i) = Top(Weights(measured, heights), i - 1) + Weights(measured, heights)[i]
    BY <1>3, <2>1, SumsAre
  <2>4. /\ Top(Marks(ms), i) = Top(Marks(ms), i - 1) + Marks(ms)[i]
        /\ Top(Weights(ms, hs), i) = Top(Weights(ms, hs), i - 1) + Weights(ms, hs)[i]
    BY <1>3, <2>2, SumsAre
  <2>5. /\ Top(Marks(ms), i - 1) = Top(Marks(measured), i - 1)
        /\ Top(Weights(ms, hs), i - 1) = Top(Weights(measured, heights), i - 1)
    <3>1. i - 1 \in 0..i - 1
      BY <1>3
    <3>. QED  BY <1>10, <3>1 DEF SumsStay
  <2>6. /\ Top(Marks(ms), n) - Top(Marks(ms), i) = Top(Marks(measured), n) - Top(Marks(measured), i)
        /\ Top(Weights(ms, hs), n) - Top(Weights(ms, hs), i)
             = Top(Weights(measured, heights), n) - Top(Weights(measured, heights), i)
    <3>1. n + 0 = n /\ i + 0 = i
      BY <1>2, <1>3
    <3>. QED  BY <1>11, <3>1 DEF AddUpTheSame
  <2>7. n \in 0..Len(heights) /\ n \in 0..Len(hs) /\ i - 1 \in 0..Len(heights) /\ i \in 0..Len(heights)
        /\ i \in 0..Len(hs)
    BY <1>2, <1>3, <1>7
  <2>8. /\ Top(Marks(measured), n) \in Nat /\ Top(Weights(measured, heights), n) \in Nat
        /\ Top(Marks(measured), i - 1) \in Nat /\ Top(Weights(measured, heights), i - 1) \in Nat
        /\ Top(Marks(measured), i) \in Nat /\ Top(Weights(measured, heights), i) \in Nat
        /\ Top(Marks(ms), n) \in Nat /\ Top(Weights(ms, hs), n) \in Nat
        /\ Top(Marks(ms), i) \in Nat /\ Top(Weights(ms, hs), i) \in Nat
    BY <1>8, <2>7, SumsAreNumbers
  <2>9. measuredCount = Top(Marks(measured), n) /\ measuredTotal = Top(Weights(measured, heights), n)
    BY <1>2 DEF AverageHolds
  <2>10. /\ measuredCount' = (IF measured[i] THEN measuredCount ELSE measuredCount + 1)
         /\ measuredTotal' = measuredTotal + height - (IF measured[i] THEN heights[i] ELSE 0)
    BY <1>1 DEF Measured
  <2>11. heights[i] \in Nat
    BY <1>2, <1>3, LenProperties DEF Lists
  <2>12. measuredCount' = Top(Marks(ms), n)
    <3>1. PICK e : e = IF measured[i] THEN 1 ELSE 0
      OBVIOUS
    <3>2. /\ Top(Marks(ms), n) - Top(Marks(ms), i) = Top(Marks(measured), n) - Top(Marks(measured), i)
          /\ Top(Marks(ms), i) = Top(Marks(measured), i - 1) + 1
          /\ Top(Marks(measured), i) = Top(Marks(measured), i - 1) + e /\ e \in {0, 1}
      BY <2>1, <2>2, <2>3, <2>4, <2>5, <2>6, <3>1
    <3>3. measuredCount' = Top(Marks(measured), n) + 1 - e
      BY <2>8, <2>9, <2>10, <3>1
    <3>4. PICK u \in Nat, v \in Nat, x \in Nat, y \in Nat, z \in Nat :
            /\ u = Top(Marks(ms), n) /\ v = Top(Marks(ms), i) /\ x = Top(Marks(measured), n)
            /\ y = Top(Marks(measured), i) /\ z = Top(Marks(measured), i - 1)
      BY <2>8
    <3>5. u - v = x - y /\ v = z + 1 /\ y = z + e /\ e \in {0, 1}
      BY <3>2, <3>4
    <3>6. u = x + 1 - e
      BY <3>5
    <3>. QED  BY <3>3, <3>4, <3>6
  <2>13. measuredTotal' = Top(Weights(ms, hs), n)
    <3>1. PICK w : w = IF measured[i] THEN heights[i] ELSE 0
      OBVIOUS
    <3>2. w \in Nat
      BY <2>11, <3>1
    <3>3. /\ Top(Weights(ms, hs), n) - Top(Weights(ms, hs), i)
               = Top(Weights(measured, heights), n) - Top(Weights(measured, heights), i)
          /\ Top(Weights(ms, hs), i) = Top(Weights(measured, heights), i - 1) + height
          /\ Top(Weights(measured, heights), i) = Top(Weights(measured, heights), i - 1) + w
      BY <2>1, <2>2, <2>3, <2>4, <2>5, <2>6, <3>1
    <3>4. measuredTotal' = Top(Weights(measured, heights), n) + height - w
      BY <2>9, <2>10, <3>1
    <3>5. PICK u \in Nat, v \in Nat, x \in Nat, y \in Nat, z \in Nat :
            /\ u = Top(Weights(ms, hs), n) /\ v = Top(Weights(ms, hs), i)
            /\ x = Top(Weights(measured, heights), n)
            /\ y = Top(Weights(measured, heights), i) /\ z = Top(Weights(measured, heights), i - 1)
      BY <2>8
    <3>6. u - v = x - y /\ v = z + height /\ y = z + w
      BY <3>3, <3>5
    <3>7. u = x + height - w
      BY <1>3, <3>2, <3>6
    <3>. QED  BY <3>4, <3>5, <3>7
  <2>. QED  BY <1>4, <1>7, <2>12, <2>13 DEF AverageHolds
<1>. QED  BY <1>12, <1>13, <1>14

\* #rebuild adds up from the last sum that still holds.
LEMMA RebuildKeeps == ASSUME ListIInv, Rebuild PROVE ListIInv'
<1>. USE DEF ListIInv
<1>1. offsets' = Rebuilt /\ dirtyFrom' = ItemCount
      /\ UNCHANGED <<heights, measured, measuredCount, measuredTotal>>
  BY DEF Rebuild
<1>2. PICK n \in Nat : n = Len(heights) /\ n = ItemCount /\ n = Len(measured) /\ n \in 0..MaxItems
  BY DEF Lists, ItemCount
<1>3. PICK d \in 0..n : d = dirtyFrom /\ d = Smaller(dirtyFrom, ItemCount)
  BY <1>2 DEF Lists, Smaller
<1>4. \A i \in 1..n + 1 :
        offsets'[i] = IF i <= d THEN offsets[i] ELSE offsets[d + 1] + Top(heights, i - 1) - Top(heights, d)
  BY <1>1, <1>2, <1>3 DEF Rebuilt
<1>5. Lists'
  BY <1>1, <1>2 DEF Lists
<1>6. \A i \in 0..d : offsets[i + 1] = Top(heights, i)
  BY <1>3 DEF SumsHold
<1>7. \A i \in 0..n : Top(heights, i) \in Nat
  BY <1>2, SumsGrow DEF Lists
<1>8. ASSUME NEW i \in 0..n PROVE offsets'[i + 1] = Top(heights, i)
  <2>1. i + 1 \in 1..n + 1 /\ i + 1 - 1 = i /\ d \in 0..n /\ d \in 0..d
    <3>1. n \in Nat /\ d \in 0..n /\ i \in 0..n
      BY <1>2, <1>3
    <3>. QED  BY <3>1
  <2>2. CASE i + 1 <= d
    <3>1. i \in 0..d
      BY <2>1, <2>2
    <3>. QED  BY <1>4, <1>6, <2>1, <2>2, <3>1
  <2>3. CASE ~(i + 1 <= d)
    <3>1. offsets'[i + 1] = Top(heights, d) + Top(heights, i) - Top(heights, d)
      BY <1>4, <1>6, <2>1, <2>3
    <3>2. Top(heights, d) \in Nat /\ Top(heights, i) \in Nat
      BY <1>7, <2>1
    <3>. QED  BY <3>1, <3>2
  <2>. QED  BY <2>2, <2>3
<1>9. SumsHold'
  BY <1>1, <1>2, <1>8 DEF SumsHold
<1>10. AverageHolds'
  BY <1>1 DEF AverageHolds
<1>. QED  BY <1>5, <1>9, <1>10

\* No call takes the invariant away.
LEMMA ListSteps == ListIInv /\ [ListNext]_listVars => ListIInv'
<1>. SUFFICES ASSUME ListIInv, [ListNext]_listVars PROVE ListIInv'
  OBVIOUS
<1>1. CASE UNCHANGED listVars
  BY <1>1 DEF listVars, ListIInv, Lists, SumsHold, AverageHolds
<1>. QED  BY <1>1, SetCountKeeps, PrependKeeps, InvalidateKeeps, MeasureKeeps, RebuildKeeps DEF ListNext

\* For every list, estimate, overscan and viewport, in whatever order counts, pages and measurements
\* come: the sums that are not dirty are the sums of the heights, and the window has every item the
\* reader sees (lib/virtual/list.ts).
THEOREM ListHolds == ListSpec => []WindowsCoverTheView
<1>1. ListInit => ListIInv
  BY ListInitially
<1>2. ListIInv /\ [ListNext]_listVars => ListIInv'
  BY ListSteps
<1>3. ListIInv => WindowsCoverTheView
  BY ListIInvImplies
<1>. QED  BY <1>1, <1>2, <1>3, PTL DEF ListSpec

-----------------------------------------------------------------------------
(* What splits a text *)

Texts == Seq(Tokens)

\* The loop of a text: what the breaks before a position are.
LEMMA BreaksAre ==
  ASSUME NEW text \in Texts
  PROVE  /\ Breaks(text) \in Seq(1..Len(text))
         /\ \A i \in 1..Len(Breaks(text)) : text[Breaks(text)[i]] = "n"
<1>. DEFINE N == Len(text)
            V == {b \in Seq(1..N) : \A i \in 1..Len(b) : text[b[i]] = "n"}
            Step(n, b) == IF text[n] = "n" THEN Append(b, n) ELSE b
            F == [n \in 1..N |-> [b \in V |-> Step(n, b)]]
            Body(g) == [n \in 0..N |-> IF n = 0 THEN <<>> ELSE Step(n, g[n - 1])]
<1>1. N \in Nat
  BY LenProperties DEF Texts
<1>2. <<>> \in V
  OBVIOUS
<1>3. ASSUME NEW n \in 1..N, NEW b \in V PROVE Step(n, b) \in V
  <2>1. CASE text[n] = "n"
    <3>1. b \in Seq(1..N) /\ Len(b) \in Nat /\ \A i \in 1..Len(b) : text[b[i]] = "n"
      BY LenProperties
    <3>2. PICK c : c = Append(b, n)
      OBVIOUS
    <3>3. /\ c \in Seq(1..N) /\ Len(c) = Len(b) + 1
          /\ \A i \in 1..Len(b) : c[i] = b[i]
          /\ c[Len(b) + 1] = n
      BY <3>1, <3>2, AppendProperties
    <3>4. \A i \in 1..Len(b) + 1 : i \in 1..Len(b) \/ i = Len(b) + 1
      BY <3>1
    <3>5. \A i \in 1..Len(c) : text[c[i]] = "n"
      BY <2>1, <3>1, <3>3, <3>4
    <3>. QED  BY <2>1, <3>2, <3>3, <3>5
  <2>. QED  BY <2>1
<1>4. Breaks(text) = (CHOOSE g : g = Body(g))[N]
  BY DEF Breaks
<1>5. F \in Turns(N, V) /\ \A n \in 1..N, b \in V : F[n][b] = Step(n, b)
  <2>. HIDE DEF V, Step
  <2>. QED  BY <1>3 DEF Turns
<1>. HIDE DEF F, V
<1>6. PICK g : g \in [0..N -> V] /\ g[0] = <<>> /\ \A n \in 1..N : g[n] = F[n][g[n - 1]]
  <2>1. \E g : Loops(g, N, V, <<>>, F)
    BY <1>1, <1>2, <1>5, Iterates, Zenon
  <2>. QED  BY <2>1 DEF Loops
<1>. HIDE DEF Step, N
<1>7. g = Body(g)
  <2>1. \A n \in 1..N : n - 1 \in 0..N
    BY <1>1
  <2>2. \A n \in 0..N : n # 0 => n \in 1..N
    BY <1>1
  <2>3. \A n \in 0..N : g[n] = IF n = 0 THEN <<>> ELSE Step(n, g[n - 1])
    BY <1>5, <1>6, <2>1, <2>2
  <2>. QED  BY <1>6, <2>3
<1>8. PICK t : t = (CHOOSE h : h = Body(h))
  OBVIOUS
<1>9. t = Body(t)
  <2>. HIDE DEF Body
  <2>. QED  BY <1>7, <1>8
<1>10. \A n \in 0..N : t[n] = IF n = 0 THEN <<>> ELSE Step(n, t[n - 1])
  <2>1. \A h : \A n \in 0..N : Body(h)[n] = IF n = 0 THEN <<>> ELSE Step(n, h[n - 1])
    OBVIOUS
  <2>. HIDE DEF Body
  <2>. QED  BY <1>9, <2>1
<1>. DEFINE P == {n \in 0..N : t[n] \in V}
<1>11. P \in SUBSET (0..N) /\ 0 \in P
  BY <1>1, <1>2, <1>10
<1>12. ASSUME NEW n \in P, n < N PROVE n + 1 \in P
  <2>1. n + 1 \in 0..N /\ n + 1 \in 1..N /\ n + 1 # 0 /\ n + 1 - 1 = n /\ t[n] \in V
    BY <1>1, <1>12
  <2>2. t[n + 1] = Step(n + 1, t[n])
    BY <1>10, <2>1
  <2>. QED  BY <1>3, <2>1, <2>2
<1>13. N \in P
  <2>1. \A n \in 0..N : n \in P
    <3>. HIDE DEF P
    <3>. QED  BY <1>1, <1>11, <1>12, UpTo
  <2>. QED  BY <1>1, <2>1
<1>14. Breaks(text) \in V
  BY <1>4, <1>8, <1>13
<1>. QED  BY <1>14 DEF V, N

\* There is a line more than there are breaks.
LEMMA LinesAre ==
  ASSUME NEW text \in Texts
  PROVE  Len(Lines(text)) = Len(Breaks(text)) + 1 /\ Len(Breaks(text)) \in Nat
<1>1. Breaks(text) \in Seq(Int) /\ Len(text) \in Nat
  <2>1. Len(text) \in Nat /\ 1..Len(text) \subseteq Int
    BY LenProperties DEF Texts
  <2>. QED  BY <2>1, BreaksAre, SeqMonotonic
<1>2. PICK n : n = Len(Breaks(text))
  OBVIOUS
<1>3. n \in Nat
  BY <1>1, <1>2, LenProperties
<1>4. <<0>> \in Seq(Int) /\ <<Len(text) + 1>> \in Seq(Int) /\ Len(<<0>>) = 1 /\ Len(<<Len(text) + 1>>) = 1
  BY <1>1
<1>5. PICK ends : ends = <<Len(text) + 1>>
  OBVIOUS
<1>6. PICK one : one = <<0>> \o Breaks(text)
  OBVIOUS
<1>7. one \in Seq(Int) /\ Len(one) = 1 + n
  BY <1>1, <1>2, <1>4, <1>6, ConcatProperties
<1>8. Len(one \o ends) = Len(one) + 1
  BY <1>4, <1>5, <1>7, ConcatProperties
<1>9. PICK breaks : breaks = <<0>> \o Breaks(text) \o <<Len(text) + 1>>
  OBVIOUS
<1>10. Len(breaks) - 1 = n + 1 /\ n + 1 \in Nat
  BY <1>3, <1>5, <1>6, <1>7, <1>8, <1>9
<1>11. Lines(text) = [k \in 1..n + 1 |-> SubSeq(text, breaks[k] + 1, breaks[k + 1] - 1)]
  BY <1>9, <1>10 DEF Lines
<1>12. \A f : f = [k \in 1..n + 1 |-> SubSeq(text, breaks[k] + 1, breaks[k + 1] - 1)] => Len(f) = n + 1
  BY <1>10
<1>. QED  BY <1>2, <1>3, <1>11, <1>12

\* The places of the walk, before any line and after the k-th: a fence that is open began
\* after the last safe line.
Places == [fence : {"none", "fence", "longfence"}, safe : Nat]
Reached(k, at) == at \in Places /\ at.safe \in 0..k /\ (at.fence # "none" => at.safe < k)

LEMMA WalkedIs ==
  ASSUME NEW k \in Nat \ {0}, NEW at, Reached(k - 1, at), NEW line
  PROVE  Reached(k, Walked(at, k, line))
<1>. USE DEF Reached, Places
<1>1. at.safe \in 0..k - 1 /\ at \in Places /\ at.safe \in Nat /\ at.safe < k /\ at.safe \in 0..k /\ k \in 0..k
  OBVIOUS
<1>2. PICK m : m = Marker(line)
  OBVIOUS
<1>3. m \in {"none", "fence", "longfence"}
  BY <1>2 DEF Marker
<1>4. CASE Walked(at, k, line) = at
  BY <1>1, <1>4
<1>5. CASE Walked(at, k, line) = [fence |-> "none", safe |-> k]
  BY <1>1, <1>5
<1>6. CASE Walked(at, k, line) = [at EXCEPT !.fence = m]
  BY <1>1, <1>3, <1>6
<1>7. CASE at.fence = "none" /\ Walked(at, k, line) = [at EXCEPT !.safe = k]
  BY <1>1, <1>7
<1>. QED  BY <1>2, <1>4, <1>5, <1>6, <1>7 DEF Walked

\* The last line is never safe.
LEMMA SafeLinesAre ==
  ASSUME NEW text \in Texts PROVE SafeLines(text) \in 0..Len(Breaks(text))
<1>. DEFINE N == Len(Lines(text))
            first == [fence |-> "none", safe |-> 0]
            Step(k, at) == Walked(at, k, Lines(text)[k])
            V == Places
            On(k, at) == IF Reached(k - 1, at) THEN Step(k, at) ELSE first
            F == [k \in 1..N |-> [at \in V |-> On(k, at)]]
            Body(g) == [k \in 0..N |-> IF k = 0 THEN first ELSE Step(k, g[k - 1])]
<1>1. N \in Nat /\ N = Len(Breaks(text)) + 1 /\ Len(Breaks(text)) \in Nat
  BY LinesAre
<1>2. first \in V /\ Reached(0, first)
  BY DEF Reached, Places
<1>3. ASSUME NEW k \in 1..N, NEW at \in V PROVE On(k, at) \in V
  <2>1. k \in Nat \ {0}
    BY <1>1
  <2>2. Reached(k - 1, at) => Reached(k, Step(k, at))
    BY <2>1, WalkedIs
  <2>3. Reached(k - 1, at) => Step(k, at) \in V
    <3>. HIDE DEF Step
    <3>. QED  BY <2>2 DEF Reached
  <2>. QED  BY <1>2, <2>3
<1>4. PICK t : t = (CHOOSE g : g = Body(g))
  OBVIOUS
<1>5. SafeLines(text) = IF t[N].fence = "none" /\ t[N].safe >= N THEN N - 1 ELSE t[N].safe
  BY <1>4 DEF SafeLines
<1>. HIDE DEF Step, first, N
<1>6. F \in Turns(N, V) /\ \A k \in 1..N, at \in V : F[k][at] = On(k, at)
  <2>. HIDE DEF On, V
  <2>. QED  BY <1>3 DEF Turns
<1>. HIDE DEF F, V
<1>7. PICK g : g \in [0..N -> V] /\ g[0] = first /\ \A k \in 1..N : g[k] = F[k][g[k - 1]]
  <2>1. \E g : Loops(g, N, V, first, F)
    BY <1>1, <1>2, <1>6, Iterates, Zenon
  <2>. QED  BY <2>1 DEF Loops
<1>8. \A k \in 0..N : k # 0 => k \in 1..N /\ k - 1 \in 0..N
  BY <1>1
<1>9. ASSUME NEW h, h[0] = first, \A k \in 1..N : Reached(k - 1, h[k - 1]) => h[k] = Step(k, h[k - 1])
      PROVE  \A k \in 0..N : Reached(k, h[k])
  <2>. DEFINE P == {k \in 0..N : Reached(k, h[k])}
  <2>1. P \in SUBSET (0..N) /\ 0 \in P
    BY <1>1, <1>2, <1>9
  <2>2. ASSUME NEW n \in P, n < N PROVE n + 1 \in P
    <3>1. n + 1 \in 0..N /\ n + 1 \in 1..N /\ n + 1 \in Nat \ {0} /\ n + 1 - 1 = n /\ Reached(n, h[n])
      BY <1>1, <2>2
    <3>2. h[n + 1] = Step(n + 1, h[n])
      BY <1>9, <3>1
    <3>3. Reached(n + 1 - 1, h[n])
      BY <3>1
    <3>4. Reached(n + 1, Walked(h[n], n + 1, Lines(text)[n + 1]))
      BY <3>1, <3>3, WalkedIs
    <3>. QED  BY <3>1, <3>2, <3>4 DEF Step
  <2>. HIDE DEF P
  <2>3. \A n \in 0..N : n \in P
    BY <1>1, <2>1, <2>2, UpTo
  <2>. QED  BY <2>3 DEF P
<1>10. \A k \in 0..N : Reached(k, g[k])
  <2>1. \A k \in 1..N : Reached(k - 1, g[k - 1]) => g[k] = Step(k, g[k - 1])
    BY <1>6, <1>7, <1>8
  <2>. QED  BY <1>7, <1>9, <2>1
<1>11. g = Body(g)
  <2>1. \A k \in 0..N : g[k] = IF k = 0 THEN first ELSE Step(k, g[k - 1])
    BY <1>6, <1>7, <1>8, <1>10
  <2>. QED  BY <1>7, <2>1
<1>12. t = Body(t)
  <2>. HIDE DEF Body
  <2>. QED  BY <1>4, <1>11
<1>13. \A k \in 0..N : t[k] = IF k = 0 THEN first ELSE Step(k, t[k - 1])
  <2>1. \A h : \A k \in 0..N : Body(h)[k] = IF k = 0 THEN first ELSE Step(k, h[k - 1])
    OBVIOUS
  <2>. HIDE DEF Body
  <2>. QED  BY <1>12, <2>1
<1>14. t[0] = first /\ \A k \in 1..N : t[k] = Step(k, t[k - 1])
  BY <1>1, <1>13
<1>15. Reached(N, t[N])
  <2>1. \A k \in 0..N : Reached(k, t[k])
    BY <1>9, <1>14
  <2>. QED  BY <1>1, <2>1
<1>16. t[N].safe \in 0..N /\ (t[N].fence # "none" => t[N].safe < N)
  BY <1>15 DEF Reached
<1>. QED  BY <1>1, <1>5, <1>16

\* Splitting loses nothing of a text, but for a break it starts with.
LEMMA SplitKeepsTheText ==
  ASSUME NEW text \in Texts, NEW complete \in BOOLEAN
  PROVE  LET s == Split(text, complete)
         IN text \in {s.html \o s.tail, <<"n">> \o (s.html \o s.tail)}
<1>. DEFINE L == Len(text)
            lines == SafeLines(text)
            at == IF complete THEN L ELSE IF lines <= 0 THEN 0 ELSE Breaks(text)[lines]
<1>1. L \in Nat /\ lines \in 0..Len(Breaks(text)) /\ Len(Breaks(text)) \in Nat
  BY SafeLinesAre, LinesAre, LenProperties DEF Texts
<1>2. PICK cut : cut = at
  OBVIOUS
<1>3. cut \in 0..L /\ (~complete /\ cut # 0 => text[cut] = "n")
  <2>1. CASE complete
    BY <1>1, <1>2, <2>1
  <2>2. CASE ~complete /\ lines <= 0
    BY <1>1, <1>2, <2>2
  <2>3. CASE ~complete /\ ~(lines <= 0)
    <3>1. lines \in 1..Len(Breaks(text))
      BY <1>1, <2>3
    <3>2. Breaks(text)[lines] \in 1..L /\ text[Breaks(text)[lines]] = "n"
      BY <3>1, BreaksAre, LenProperties
    <3>. QED  BY <1>1, <1>2, <2>3, <3>2
  <2>. QED  BY <2>1, <2>2, <2>3
<1>4. PICK s : s = Split(text, complete)
  OBVIOUS
<1>5. /\ s.html = IF ~complete /\ cut = 1 THEN <<>> ELSE SubSeq(text, 1, cut)
      /\ s.tail = SubSeq(text, cut + 1, L)
  BY <1>2, <1>4 DEF Split
<1>6. SubSeq(text, 1, cut) \o SubSeq(text, cut + 1, L) = text
  <2>1. 1 \in 1..L + 1 /\ cut \in 1 - 1..L /\ L \in cut..L /\ L \in Nat
    BY <1>1, <1>3
  <2>2. SubSeq(text, 1, L) = text
    BY SubSeqFull DEF Texts
  <2>3. SubSeq(text, 1, cut) \o SubSeq(text, cut + 1, L) = SubSeq(text, 1, L)
    BY <2>1, ConcatAdjacentSubSeq DEF Texts
  <2>. QED  BY <2>2, <2>3
<1>7. CASE ~complete /\ cut = 1
  <2>1. L \in Nat /\ 1 \in 1..L /\ text[1] = "n" /\ \A i \in 1..L : text[i] \in Tokens
    BY <1>1, <1>3, <1>7, LenProperties DEF Texts
  <2>2. SubSeq(text, 1, 1) = <<"n">>
    <3>1. text[1] \in Tokens
      BY <2>1
    <3>2. 1 \in Int /\ \A i \in 1..1 : text[i] \in Tokens
      BY <3>1
    <3>3. /\ SubSeq(text, 1, 1) \in Seq(Tokens)
          /\ Len(SubSeq(text, 1, 1)) = 1 /\ SubSeq(text, 1, 1)[1] = text[1]
      <4>1. PICK e \in Int : e = 1
        OBVIOUS
      <4>2. \A i \in e..e : text[i] \in Tokens
        BY <3>1, <4>1
      <4>3. /\ SubSeq(text, e, e) \in Seq(Tokens)
            /\ Len(SubSeq(text, e, e)) = IF e <= e THEN e - e + 1 ELSE 0
            /\ \A i \in 1..e - e + 1 : SubSeq(text, e, e)[i] = text[e + i - 1]
        BY <4>2, SubSeqProperties
      <4>. QED  BY <4>1, <4>3
    <3>4. PICK u : u = SubSeq(text, 1, 1)
      OBVIOUS
    <3>5. u \in Seq(Tokens) /\ Len(u) = 1 /\ u[1] = "n"
      BY <2>1, <3>3, <3>4
    <3>6. <<"n">> \in Seq({"n"}) /\ u = <<u[1]>>
      BY <3>5
    <3>. QED  BY <3>4, <3>5, <3>6
  <2>3. SubSeq(text, 2, L) \in Seq(Tokens)
    <3>1. 2 \in Int /\ L \in Int /\ \A i \in 2..L : text[i] \in Tokens
      BY <2>1
    <3>. QED  BY <3>1, SubSeqProperties
  <2>4. <<>> \o SubSeq(text, 2, L) = SubSeq(text, 2, L)
    BY <2>3, ConcatEmptySeq
  <2>5. s.html = <<>> /\ s.tail = SubSeq(text, 2, L) /\ cut + 1 = 2
    BY <1>5, <1>7
  <2>6. <<"n">> \o (s.html \o s.tail) = text
    BY <1>6, <1>7, <2>2, <2>4, <2>5
  <2>. QED  BY <1>4, <2>6
<1>8. CASE ~(~complete /\ cut = 1)
  BY <1>4, <1>5, <1>6, <1>8
<1>. QED  BY <1>7, <1>8

-----------------------------------------------------------------------------
(* The answers of the worker *)

Whole(text, html, tail) == text \in {html \o tail, <<"n">> \o (html \o tail)}

\* The last answer applied is the newest there is; every later request is still with the
\* worker, and the one that ended the stream was for all of the text.
RenderTypes ==
  /\ written \in Texts /\ sequence \in Nat
  /\ \A r \in rendering : r.seq \in 1..sequence /\ r.text \in Texts /\ r.complete \in BOOLEAN
  /\ shown.seq \in {-1} \cup 1..sequence
  /\ Whole(shown.text, shown.html, shown.tail)

NoneIsLost ==
  /\ \A r \in rendering : r.seq # shown.seq
  /\ \A r \in rendering, q \in rendering : r.seq = q.seq => r = q
  /\ \A k \in 1..sequence : k > shown.seq => \E r \in rendering : r.seq = k

TheLastIsWhole ==
  ended => /\ sequence > 0
           /\ \A r \in rendering : r.seq = sequence => r.text = written
           /\ shown.seq = sequence => shown.text = written

RenderIInv == RenderTypes /\ NoneIsLost /\ TheLastIsWhole

LEMMA RenderIInvImplies == ASSUME RenderIInv PROVE ShownIsTheLatest
<1>. USE DEF RenderIInv
<1>. DEFINE answered == 1..sequence \ {request.seq : request \in rendering}
<1>1. sequence \in Nat /\ shown.seq \in {-1} \cup answered
  BY DEF RenderTypes, NoneIsLost
<1>2. \A k \in answered : k \in Nat /\ k <= shown.seq
  BY <1>1 DEF RenderTypes, NoneIsLost
<1>3. shown.seq \in Int /\ shown.seq >= -1
  BY <1>1
<1>. DEFINE S == {-1} \cup answered
<1>4. S \subseteq Int /\ shown.seq \in S /\ \A k \in S : shown.seq >= k
  BY <1>1, <1>2, <1>3
<1>5. shown.seq = Max(S)
  <2>. HIDE DEF S
  <2>1. \A x \in S : (\A y \in S : x >= y) => x = shown.seq
    <3>1. SUFFICES ASSUME NEW x \in S, \A y \in S : x >= y PROVE x = shown.seq
      OBVIOUS
    <3>2. PICK e : e = shown.seq
      OBVIOUS
    <3>3. x \in Int /\ e \in Int /\ x >= e /\ e >= x
      BY <1>4, <3>1, <3>2
    <3>. QED  BY <3>2, <3>3
  <2>. QED  BY <1>4, <2>1 DEF Max
<1>6. ended /\ rendering = {} => shown.text = written
  <2>1. ended /\ rendering = {} => shown.seq = sequence
    <3>1. sequence > 0 => sequence \in 1..sequence
      BY <1>1
    <3>2. sequence > 0 /\ rendering = {} => ~(sequence > shown.seq)
      BY <3>1 DEF NoneIsLost
    <3>3. shown.seq <= sequence
      BY <1>1
    <3>. QED  BY <1>1, <1>3, <3>2, <3>3 DEF TheLastIsWhole
  <2>. QED  BY <2>1 DEF TheLastIsWhole
<1>7. shown.text \in {shown.html \o shown.tail, <<"n">> \o (shown.html \o shown.tail)}
  BY DEF RenderTypes, Whole
<1>. QED  BY <1>5, <1>6, <1>7 DEF ShownIsTheLatest

LEMMA RenderInitially == RenderInit => RenderIInv
<1>. SUFFICES ASSUME RenderInit PROVE RenderIInv
  OBVIOUS
<1>1. <<>> \in Texts /\ <<>> \in Seq(Tokens)
  BY DEF Texts
<1>2. <<>> \o <<>> = <<>>
  BY <1>1, ConcatEmptySeq
<1>3. Whole(<<>>, <<>>, <<>>)
  BY <1>2 DEF Whole
<1>. QED  BY <1>1, <1>3 DEF RenderInit, RenderIInv, RenderTypes, NoneIsLost, TheLastIsWhole

LEMMA WritesKeeps == ASSUME RenderIInv, Writes PROVE RenderIInv'
<1>1. PICK token \in Tokens : written' = Append(written, token)
  BY DEF Writes
<1>2. written' \in Texts
  BY <1>1, AppendProperties DEF RenderIInv, RenderTypes, Texts
<1>. QED  BY <1>2 DEF Writes, RenderIInv, RenderTypes, NoneIsLost, TheLastIsWhole

LEMMA AsksKeeps ==
  ASSUME RenderIInv, ~ended, NEW complete \in BOOLEAN, Asks(complete)
  PROVE  RenderTypes' /\ NoneIsLost' /\ (ended' => TheLastIsWhole')
<1>. DEFINE asked == [seq |-> sequence + 1, text |-> written, complete |-> complete]
<1>1. /\ sequence' = sequence + 1 /\ rendering' = rendering \cup {asked}
      /\ UNCHANGED <<written, shown>>
  BY DEF Asks
<1>2. asked.seq = sequence + 1 /\ asked.text = written /\ asked.complete = complete
  OBVIOUS
<1>. HIDE DEF asked
<1>3. sequence \in Nat /\ sequence + 1 \in 1..sequence + 1 /\ \A k \in 1..sequence + 1 : k = sequence + 1 \/ k \in 1..sequence
  BY DEF RenderIInv, RenderTypes
<1>4. \A r \in rendering : r.seq \in 1..sequence /\ r.seq \in 1..sequence + 1 /\ r.seq # sequence + 1
  BY <1>3 DEF RenderIInv, RenderTypes
<1>5. shown.seq \in {-1} \cup 1..sequence /\ shown.seq \in {-1} \cup 1..sequence + 1 /\ shown.seq # sequence + 1
  BY <1>3 DEF RenderIInv, RenderTypes
<1>6. RenderTypes'
  BY <1>1, <1>2, <1>3, <1>4, <1>5 DEF RenderIInv, RenderTypes
<1>7. NoneIsLost'
  BY <1>1, <1>2, <1>3, <1>4, <1>5 DEF RenderIInv, NoneIsLost
<1>8. TheLastIsWhole'
  BY <1>1, <1>2, <1>3, <1>4, <1>5 DEF TheLastIsWhole
<1>. QED  BY <1>6, <1>7, <1>8

LEMMA RepliesKeeps == ASSUME RenderIInv, Replies PROVE RenderIInv'
<1>0. PICK request \in rendering :
        rendering' = rendering \ {request} /\ \E answer \in Answers(request) : Receives(request, answer)
  BY DEF Replies
<1>1. PICK answer \in Answers(request) :
        rendering' = rendering \ {request} /\ Receives(request, answer)
  BY <1>0
<1>2. UNCHANGED <<written, ended, sequence>>
  BY DEF Replies
<1>3. request.seq \in 1..sequence /\ request.text \in Texts /\ request.complete \in BOOLEAN /\ sequence \in Nat
      /\ request.seq # shown.seq /\ shown.seq \in {-1} \cup 1..sequence
  BY <1>1 DEF RenderIInv, RenderTypes, NoneIsLost
<1>4. CASE request.seq < shown.seq
  <2>1. shown' = shown
    BY <1>1, <1>4 DEF Receives
  <2>2. RenderTypes'
    BY <1>1, <1>2, <2>1 DEF RenderIInv, RenderTypes
  <2>3. NoneIsLost'
    <3>1. \A k \in 1..sequence : k > shown.seq => k # request.seq
      BY <1>3, <1>4
    <3>. QED  BY <1>1, <1>2, <2>1, <3>1 DEF RenderIInv, NoneIsLost
  <2>4. TheLastIsWhole'
    BY <1>1, <1>2, <2>1 DEF RenderIInv, TheLastIsWhole
  <2>. QED  BY <2>2, <2>3, <2>4 DEF RenderIInv
<1>5. CASE ~(request.seq < shown.seq)
  <2>1. /\ shown'.seq = request.seq /\ shown'.text = request.text
        /\ shown'.html = answer.html /\ shown'.tail = answer.tail
    BY <1>1, <1>5 DEF Receives
  <2>2. Whole(request.text, answer.html, answer.tail)
    <3>1. CASE answer = Split(request.text, request.complete)
      BY <1>3, <3>1, SplitKeepsTheText DEF Whole
    <3>2. CASE answer = [html |-> <<>>, tail |-> request.text]
      <4>1. <<>> \o request.text = request.text
        BY <1>3, ConcatEmptySeq DEF Texts
      <4>. QED  BY <3>2, <4>1 DEF Whole
    <3>. QED  BY <1>1, <3>1, <3>2 DEF Answers
  <2>3. RenderTypes'
    BY <1>1, <1>2, <1>3, <2>1, <2>2 DEF RenderIInv, RenderTypes
  <2>4. NoneIsLost'
    <3>1. \A r \in rendering' : r \in rendering /\ r # request
      BY <1>1
    <3>2. \A r \in rendering' : r.seq # request.seq
      BY <1>1, <3>1 DEF RenderIInv, NoneIsLost
    <3>3. ASSUME NEW k \in 1..sequence, k > request.seq PROVE \E r \in rendering' : r.seq = k
      <4>1. k > shown.seq /\ k # request.seq
        BY <1>3, <1>5, <3>3
      <4>2. PICK r \in rendering : r.seq = k
        BY <4>1 DEF RenderIInv, NoneIsLost
      <4>. QED  BY <1>1, <4>1, <4>2
    <3>. QED  BY <1>1, <1>2, <2>1, <3>1, <3>2, <3>3 DEF RenderIInv, NoneIsLost
  <2>5. TheLastIsWhole'
    BY <1>1, <1>2, <2>1 DEF RenderIInv, TheLastIsWhole
  <2>. QED  BY <2>3, <2>4, <2>5 DEF RenderIInv
<1>. QED  BY <1>4, <1>5

LEMMA RenderSteps == RenderIInv /\ [RenderNext]_renderVars => RenderIInv'
<1>. SUFFICES ASSUME RenderIInv, [RenderNext]_renderVars PROVE RenderIInv'
  OBVIOUS
<1>1. CASE UNCHANGED renderVars
  BY <1>1 DEF renderVars, RenderIInv, RenderTypes, NoneIsLost, TheLastIsWhole
<1>2. CASE Requests
  <2>1. ~ended /\ Asks(FALSE) /\ ended' = ended
    BY <1>2 DEF Requests
  <2>2. TheLastIsWhole'
    BY <2>1 DEF TheLastIsWhole
  <2>. QED  BY <2>1, <2>2, AsksKeeps DEF RenderIInv
<1>3. CASE Ends
  BY <1>3, AsksKeeps DEF Ends, RenderIInv
<1>. QED  BY <1>1, <1>2, <1>3, WritesKeeps, RepliesKeeps DEF RenderNext

\* For every text and in whatever order the worker answers: what is shown is the newest answer, all
\* of the text it was asked for, and in the end the whole message (markdown/client.ts, blocks.ts).
THEOREM RenderingHolds == RenderSpec => []ShownIsTheLatest
<1>1. RenderInit => RenderIInv
  BY RenderInitially
<1>2. RenderIInv /\ [RenderNext]_renderVars => RenderIInv'
  BY RenderSteps
<1>3. RenderIInv => ShownIsTheLatest
  BY RenderIInvImplies
<1>. QED  BY <1>1, <1>2, <1>3, PTL DEF RenderSpec
==============================================================================
