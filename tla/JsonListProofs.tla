--------------------------- MODULE JsonListProofs ---------------------------
(***************************************************************************)
(* Proofs about JsonList, for a heap of any size: the lists stay the        *)
(* sequences they stand for, every item has one holder, and none leaks.     *)
(***************************************************************************)
EXTENDS JsonList, SequenceTheorems, WellFoundedInduction, TLAPS

\* A set of natural numbers has a least one: induction over positions.
LEMMA LeastNatural ==
  ASSUME NEW T \in SUBSET Nat, T # {}
  PROVE  \E x \in T : \A y \in T : x <= y
<1> DEFINE R == {ss \in Nat \X Nat : ss[1] < ss[2]}
<1>1. IsWellFoundedOn(R, Nat)
  BY NatLessThanWellFounded DEF OpToRel
<1> HIDE DEF R
<1>2. PICK x \in T : \A y \in T : ~ (<<y, x>> \in R)
  BY <1>1, WFMin, Zenon
<1>3. \A y, z \in Nat : y < z => <<y, z>> \in R
  BY DEF R
<1>4. \A y \in T : x <= y
  <2> TAKE y \in T
  <2>1. x \in Nat /\ y \in Nat /\ ~ (<<y, x>> \in R)
    BY <1>2
  <2>2. ~ (y < x)
    BY <2>1, <1>3, Zenon
  <2> QED
    BY <2>1, <2>2
<1> QED
  BY <1>4

\* The parts of the invariant, for any pointers: some calls first change the
\* pointers and then delete an item.
Typed(L, ch, nx, pv, R, ks) ==
  /\ L \subseteq Items
  /\ R \subseteq L
  /\ ch \in [Items -> L \cup {Null}]
  /\ nx \in [Items -> L \cup {Null}]
  /\ pv \in [Items -> L \cup {Null}]
  /\ ks \in [Items -> Seq(L)]

Joined(s, nx, pv) ==
  \A k \in 1..Len(s) :
    /\ nx[s[k]] = IF k < Len(s) THEN s[k + 1] ELSE Null
    /\ pv[s[k]] = s[IF k = 1 THEN Len(s) ELSE k - 1]

Linked(L, ch, nx, pv, ks) ==
  \A a \in L :
    /\ ch[a] = IF ks[a] = <<>> THEN Null ELSE ks[a][1]
    /\ Joined(ks[a], nx, pv)

\* What the caller holds is in no list and points to no other item.
Alone(L, nx, pv, R, ks) ==
  \A i \in R :
    /\ nx[i] = Null /\ pv[i] = Null
    /\ \A a \in L : \A k \in 1..Len(ks[a]) : ks[a][k] # i

Unique(L, ks) ==
  \A a, b \in L : \A k \in 1..Len(ks[a]), l \in 1..Len(ks[b]) :
    ks[a][k] = ks[b][l] => a = b /\ k = l

Owned(L, R, ks) ==
  \A i \in L \ R : \E a \in L : \E k \in 1..Len(ks[a]) : ks[a][k] = i

\* What is not allocated is clear.
Clear(L, ch, nx, pv, ks) ==
  \A i \in Items \ L : ch[i] = Null /\ nx[i] = Null /\ pv[i] = Null /\ ks[i] = <<>>

Heap(L, ch, nx, pv, R, ks) ==
  /\ Typed(L, ch, nx, pv, R, ks)
  /\ Linked(L, ch, nx, pv, ks)
  /\ Alone(L, nx, pv, R, ks)
  /\ Unique(L, ks)
  /\ Owned(L, R, ks)
  /\ Clear(L, ch, nx, pv, ks)

HeapOK == Heap(live, child, next, prev, roots, kids)

\* No item is below itself.
Layered(L, ks) ==
  \E depth \in [Items -> Nat] :
    \A a \in L : \A k \in 1..Len(ks[a]) : depth[ks[a][k]] = depth[a] + 1

IInv == HeapOK /\ Layered(live, kids)

-----------------------------------------------------------------------------
\* What RemoveAt returns.
LEMMA RemoveAtElements ==
  ASSUME NEW S, NEW s \in Seq(S), NEW k \in 1..Len(s)
  PROVE  /\ RemoveAt(s, k) \in Seq(S)
         /\ Len(RemoveAt(s, k)) = Len(s) - 1
         /\ \A j \in 1..(Len(s) - 1) :
              RemoveAt(s, k)[j] = IF j < k THEN s[j] ELSE s[j + 1]
<1> DEFINE u == SubSeq(s, 1, k - 1)
           v == SubSeq(s, k + 1, Len(s))
<1>1. Len(s) \in Nat /\ \A j \in 1..Len(s) : s[j] \in S
  BY LenProperties, ElementOfSeq
<1>2. /\ u \in Seq(S) /\ Len(u) = k - 1
      /\ \A j \in 1..(k - 1) : u[j] = s[j]
  BY <1>1, SubSeqProperties
<1>3. /\ v \in Seq(S) /\ Len(v) = Len(s) - k
      /\ \A j \in 1..(Len(s) - k) : v[j] = s[k + j]
  BY <1>1, SubSeqProperties
<1> HIDE DEF u, v
<1> DEFINE r == u \o v
<1>4. /\ r \in Seq(S)
      /\ Len(r) = Len(u) + Len(v)
      /\ \A j \in 1..(Len(u) + Len(v)) : r[j] = IF j <= Len(u) THEN u[j] ELSE v[j - Len(u)]
  BY <1>2, <1>3, ConcatProperties
<1>5. RemoveAt(s, k) = r
  BY DEF RemoveAt, u, v
<1> HIDE DEF r
<1>6. ASSUME NEW j \in 1..(Len(s) - 1)
      PROVE  r[j] = IF j < k THEN s[j] ELSE s[j + 1]
  <2>1. CASE j < k
    <3>1. j \in 1..(k - 1) /\ j \in 1..(Len(u) + Len(v)) /\ j <= Len(u)
      BY <1>1, <1>2, <1>3, <2>1
    <3>2. r[j] = u[j] /\ u[j] = s[j]
      BY <1>2, <1>4, <3>1
    <3> QED
      BY <2>1, <3>2
  <2>2. CASE j >= k
    <3>1. j - (k - 1) \in 1..(Len(s) - k) /\ k + (j - (k - 1)) = j + 1
      BY <1>1, <2>2
    <3>2. j \in 1..(Len(u) + Len(v)) /\ ~ (j <= Len(u)) /\ j - Len(u) = j - (k - 1)
      BY <1>1, <1>2, <1>3, <2>2
    <3>3. r[j] = v[j - (k - 1)]
      BY <1>4, <3>2
    <3> QED
      BY <1>1, <1>3, <2>2, <3>1, <3>3
  <2> QED
    BY <1>1, <2>1, <2>2
<1>7. Len(r) = Len(s) - 1
  BY <1>1, <1>2, <1>3, <1>4
<1> QED
  BY <1>4, <1>5, <1>6, <1>7

\* What InsertAt returns.
LEMMA InsertAtElements ==
  ASSUME NEW S, NEW s \in Seq(S), NEW k \in 1..Len(s), NEW e \in S
  PROVE  /\ InsertAt(s, k, e) \in Seq(S)
         /\ Len(InsertAt(s, k, e)) = Len(s) + 1
         /\ \A j \in 1..(Len(s) + 1) :
              InsertAt(s, k, e)[j] = IF j < k THEN s[j] ELSE IF j = k THEN e ELSE s[j - 1]
<1> DEFINE u == SubSeq(s, 1, k - 1)
           v == SubSeq(s, k, Len(s))
           w == u \o <<e>>
<1>1. Len(s) \in Nat /\ \A j \in 1..Len(s) : s[j] \in S
  BY LenProperties, ElementOfSeq
<1>2. /\ u \in Seq(S) /\ Len(u) = k - 1
      /\ \A j \in 1..(k - 1) : u[j] = s[j]
  BY <1>1, SubSeqProperties
<1>3. /\ v \in Seq(S) /\ Len(v) = Len(s) - k + 1
      /\ \A j \in 1..(Len(s) - k + 1) : v[j] = s[k + j - 1]
  BY <1>1, SubSeqProperties
<1>4. <<e>> \in Seq(S) /\ Len(<<e>>) = 1 /\ <<e>>[1] = e
  OBVIOUS
<1> HIDE DEF u, v
<1>5. /\ w \in Seq(S)
      /\ Len(w) = k
      /\ \A j \in 1..k : w[j] = IF j < k THEN u[j] ELSE e
  BY <1>2, <1>4, ConcatProperties
<1> HIDE DEF w
<1>6. /\ w \o v \in Seq(S)
      /\ Len(w \o v) = Len(w) + Len(v)
      /\ \A j \in 1..(Len(w) + Len(v)) : (w \o v)[j] = IF j <= Len(w) THEN w[j] ELSE v[j - Len(w)]
  BY <1>3, <1>5, ConcatProperties
<1>7. InsertAt(s, k, e) = w \o v
  BY DEF InsertAt, u, v, w
<1> DEFINE r == w \o v
<1>8. r \in Seq(S) /\ Len(r) = Len(s) + 1
  BY <1>1, <1>3, <1>5, <1>6
<1>9. \A j \in 1..(Len(w) + Len(v)) : r[j] = IF j <= Len(w) THEN w[j] ELSE v[j - Len(w)]
  BY <1>6
<1> HIDE DEF r
<1>10. ASSUME NEW j \in 1..(Len(s) + 1)
       PROVE  r[j] = IF j < k THEN s[j] ELSE IF j = k THEN e ELSE s[j - 1]
  <2>1. CASE j < k
    <3>1. /\ j \in 1..(k - 1) /\ j \in 1..k
          /\ j \in 1..(Len(w) + Len(v)) /\ j <= Len(w)
      BY <1>1, <1>3, <1>5, <2>1
    <3>2. r[j] = w[j] /\ w[j] = u[j] /\ u[j] = s[j]
      BY <1>2, <1>5, <1>9, <2>1, <3>1
    <3> QED
      BY <2>1, <3>2
  <2>2. CASE j = k
    <3>1. j \in 1..k /\ j \in 1..(Len(w) + Len(v)) /\ j <= Len(w) /\ ~ (j < k)
      BY <1>1, <1>3, <1>5, <2>2
    <3> QED
      BY <1>5, <1>9, <2>2, <3>1
  <2>3. CASE j > k
    <3>1. /\ j - k \in 1..(Len(s) - k + 1) /\ k + (j - k) - 1 = j - 1
          /\ j \in 1..(Len(w) + Len(v)) /\ ~ (j <= Len(w)) /\ j - Len(w) = j - k
      BY <1>1, <1>3, <1>5, <2>3
    <3>2. r[j] = v[j - k]
      BY <1>9, <3>1
    <3>3. v[j - k] = s[j - 1]
      BY <1>3, <3>1
    <3>4. ~ (j < k) /\ j # k
      BY <1>1, <2>3
    <3> QED
      BY <3>2, <3>3, <3>4
  <2> QED
    BY <1>1, <2>1, <2>2, <2>3
<1> QED
  BY <1>7, <1>8, <1>10 DEF r

\* A sequence of elements of T.
LEMMA SeqOfElements ==
  ASSUME NEW S, NEW s \in Seq(S), NEW T, \A k \in 1..Len(s) : s[k] \in T
  PROVE  s \in Seq(T)
<1>1. Len(s) \in Nat /\ s \in [1..Len(s) -> S]
  BY LenProperties
<1>2. s \in [1..Len(s) -> T]
  BY <1>1
<1> QED
  BY <1>1, <1>2

\* The position of an element is where it is.
LEMMA PositionProperties ==
  ASSUME NEW S, NEW s \in Seq(S), NEW i, NEW k \in 1..Len(s), s[k] = i
  PROVE  PositionOf(i, s) \in 1..Len(s) /\ s[PositionOf(i, s)] = i
<1>1. DOMAIN s = 1..Len(s)
  BY LenProperties
<1> QED
  BY <1>1 DEF PositionOf

\* A set that a list begins in and that next does not leave has the list.
LEMMA ListInside ==
  ASSUME NEW L, NEW s \in Seq(L), NEW nx, NEW pv, Joined(s, nx, pv), NEW F,
         s # <<>> => s[1] \in F,
         \A j \in F : nx[j] \in F \cup {Null},
         Null \notin L
  PROVE  \A k \in 1..Len(s) : s[k] \in F
<1> DEFINE T == {k \in 1..Len(s) : s[k] \notin F}
<1> SUFFICES ASSUME T # {} PROVE FALSE
  OBVIOUS
<1>1. Len(s) \in Nat
  OBVIOUS
<1>2. T \in SUBSET Nat
  BY <1>1
<1> HIDE DEF T
<1>3. PICK x \in T : \A y \in T : x <= y
  BY <1>2, LeastNatural
<1>4. x \in 1..Len(s) /\ s[x] \notin F /\ s[x] \in L
  BY <1>3 DEF T
<1>5. x # 1
  BY <1>1, <1>4
<1>6. x - 1 \in 1..Len(s) /\ x - 1 \notin T
  BY <1>1, <1>2, <1>3, <1>4, <1>5
<1>7. s[x - 1] \in F
  BY <1>6 DEF T
<1>8. nx[s[x - 1]] = s[x]
  BY <1>1, <1>4, <1>6 DEF Joined
<1> QED
  BY <1>4, <1>7, <1>8

\* What the provers need of a heap, in the form they need it.
LEMMA HeapFacts ==
  ASSUME NEW L, NEW ch, NEW nx, NEW pv, NEW R, NEW ks, Heap(L, ch, nx, pv, R, ks)
  PROVE  /\ Null \notin L
         /\ \A a \in L : ks[a] \in Seq(L) /\ Len(ks[a]) \in Nat
         /\ \A a \in L : \A k \in 1..Len(ks[a]) : ks[a][k] \in L
         /\ \A a \in L : ks[a] = <<>> <=> Len(ks[a]) = 0
<1>1. Null \notin L /\ \A a \in L : ks[a] \in Seq(L)
  BY JsonListAssumption DEF Heap, Typed
<1>2. \A a \in L : Len(ks[a]) \in Nat /\ \A k \in 1..Len(ks[a]) : ks[a][k] \in L
  BY <1>1, LenProperties, ElementOfSeq
<1>3. \A a \in L : ks[a] = <<>> <=> Len(ks[a]) = 0
  BY <1>1
<1> QED
  BY <1>1, <1>2, <1>3

\* Freeing reaches the item and all that its pointers lead to, and nothing else.
LEMMA FreedProperties ==
  ASSUME NEW ch, NEW nx, NEW pv, NEW R, NEW ks, Heap(live, ch, nx, pv, R, ks),
         NEW i \in live
  PROVE  /\ i \in Freed(i, ch, nx) /\ Freed(i, ch, nx) \subseteq live
         /\ \A j \in Freed(i, ch, nx) : {ch[j], nx[j]} \ {Null} \subseteq Freed(i, ch, nx)
         /\ \A S \in SUBSET live :
              i \in S /\ (\A j \in S : {ch[j], nx[j]} \ {Null} \subseteq S)
              => Freed(i, ch, nx) \subseteq S
<1>1. \A j \in live : {ch[j], nx[j]} \ {Null} \subseteq live
  BY DEF Heap, Typed
<1>2. i \in Freed(i, ch, nx) /\ Freed(i, ch, nx) \subseteq live
  BY DEF Freed
<1>3. ASSUME NEW j \in Freed(i, ch, nx), NEW t \in {ch[j], nx[j]} \ {Null}
      PROVE  t \in Freed(i, ch, nx)
  <2>1. t \in live
    BY <1>1, <1>2
  <2>2. ASSUME NEW S \in SUBSET live, i \in S,
               \A k \in S : {ch[k], nx[k]} \ {Null} \subseteq S
        PROVE  t \in S
    <3>1. j \in S
      BY <2>2 DEF Freed
    <3> QED
      BY <2>2, <3>1
  <2> QED
    BY <2>1, <2>2 DEF Freed
<1>4. ASSUME NEW S \in SUBSET live, i \in S,
             \A j \in S : {ch[j], nx[j]} \ {Null} \subseteq S
      PROVE  Freed(i, ch, nx) \subseteq S
  BY <1>4 DEF Freed
<1> QED
  BY <1>2, <1>3, <1>4

\* Deleting an item that is in no list takes whole lists with it, leaves the
\* other lists whole, and frees nothing else that the caller holds.
LEMMA FreedIsTree ==
  ASSUME NEW ch, NEW nx, NEW pv, NEW R, NEW ks, Heap(live, ch, nx, pv, R, ks),
         NEW i \in R
  PROVE  LET F == Freed(i, ch, nx)
         IN /\ \A a \in F : \A k \in 1..Len(ks[a]) : ks[a][k] \in F
            /\ \A a \in live \ F : \A k \in 1..Len(ks[a]) : ks[a][k] \notin F
            /\ F \cap R = {i}
<1> DEFINE F == Freed(i, ch, nx)
           S == {j \in F : j = i \/ \E a \in F : \E k \in 1..Len(ks[a]) : ks[a][k] = j}
<1>1. i \in live
  BY DEF Heap, Typed
<1>2. i \in F /\ F \subseteq live /\ \A j \in F : {ch[j], nx[j]} \ {Null} \subseteq F
  BY <1>1, FreedProperties
<1>3. \A T \in SUBSET live :
        i \in T /\ (\A j \in T : {ch[j], nx[j]} \ {Null} \subseteq T) => F \subseteq T
  BY <1>1, FreedProperties
<1> HIDE DEF F
<1>4. /\ Null \notin live
      /\ \A a \in live : ks[a] \in Seq(live) /\ Len(ks[a]) \in Nat
      /\ \A a \in live : ks[a] = <<>> <=> Len(ks[a]) = 0
  BY HeapFacts
<1>5. \A a \in F : \A k \in 1..Len(ks[a]) : ks[a][k] \in F
  <2> TAKE a \in F
  <2>1. ks[a] \in Seq(live) /\ Joined(ks[a], nx, pv)
    BY <1>2, <1>4 DEF Heap, Linked
  <2>2. ks[a] # <<>> => ks[a][1] \in F
    <3>1. ASSUME ks[a] # <<>> PROVE ks[a][1] \in F
      <4>1. Len(ks[a]) # 0 /\ Len(ks[a]) \in Nat
        BY <1>2, <1>4, <3>1
      <4>2. ch[a] = ks[a][1] /\ ks[a][1] \in live
        BY <1>2, <2>1, <3>1, <4>1, ElementOfSeq DEF Heap, Linked
      <4> QED
        BY <1>2, <1>4, <4>2
    <3> QED
      BY <3>1
  <2>3. \A j \in F : nx[j] \in F \cup {Null}
    BY <1>2
  <2> QED
    BY <1>4, <2>1, <2>2, <2>3, ListInside
<1>6. F \subseteq S
  <2>1. i \in S /\ S \subseteq live
    BY <1>2
  <2>2. ASSUME NEW j \in S PROVE {ch[j], nx[j]} \ {Null} \subseteq S
    <3>1. j \in F /\ j \in live /\ {ch[j], nx[j]} \ {Null} \subseteq F
      BY <1>2
    <3>2. ch[j] # Null => ch[j] = ks[j][1] /\ 1 \in 1..Len(ks[j])
      <4>1. ch[j] # Null => ks[j] # <<>> /\ ch[j] = ks[j][1]
        BY <3>1 DEF Heap, Linked
      <4> QED
        BY <1>4, <3>1, <4>1
    <3>3. ch[j] # Null => ch[j] \in S
      BY <3>1, <3>2
    <3>4. nx[j] # Null => nx[j] \in S
      <4>1. CASE j = i
        BY <4>1 DEF Heap, Alone
      <4>2. CASE j # i
        <5>0. PICK a \in F : \E k \in 1..Len(ks[a]) : ks[a][k] = j
          BY <4>2
        <5>1. PICK k \in 1..Len(ks[a]) : ks[a][k] = j
          BY <5>0
        <5>2. nx[j] = IF k < Len(ks[a]) THEN ks[a][k + 1] ELSE Null
          BY <1>2, <5>1 DEF Heap, Linked, Joined
        <5>3. k < Len(ks[a]) => k + 1 \in 1..Len(ks[a])
          BY <1>2, <1>4, <5>1
        <5> QED
          BY <3>1, <5>1, <5>2, <5>3
      <4> QED
        BY <4>1, <4>2
    <3> QED
      BY <3>3, <3>4
  <2> HIDE DEF S
  <2> QED
    BY <1>3, <2>1, <2>2
<1>7. ASSUME NEW a \in live \ F, NEW k \in 1..Len(ks[a]), ks[a][k] \in F PROVE FALSE
  <2>1. ks[a][k] # i
    BY DEF Heap, Alone
  <2>2. PICK b \in F : \E l \in 1..Len(ks[b]) : ks[b][l] = ks[a][k]
    BY <1>6, <1>7, <2>1
  <2>3. a = b
    BY <1>2, <2>2 DEF Heap, Unique
  <2> QED
    BY <2>3
<1>8. F \cap R = {i}
  <2>1. ASSUME NEW j \in F \cap R, j # i PROVE FALSE
    <3>1. PICK b \in F : \E l \in 1..Len(ks[b]) : ks[b][l] = j
      BY <1>6, <2>1
    <3> QED
      BY <1>2, <3>1 DEF Heap, Alone
  <2> QED
    BY <1>2, <2>1
<1> QED
  BY <1>5, <1>7, <1>8 DEF F

\* After an item that is in no list has been deleted, the rest is a heap.
LEMMA DeleteHeap ==
  ASSUME NEW ch, NEW nx, NEW pv, NEW R, NEW ks, Heap(live, ch, nx, pv, R, ks),
         NEW i \in R, Delete(i, ch, nx, pv, ks), roots' = R \ {i}
  PROVE  HeapOK'
<1> DEFINE F == Freed(i, ch, nx)
<1>1. i \in live
  BY DEF Heap, Typed
<1>2. i \in F /\ F \subseteq live
  BY <1>1, FreedProperties
<1>3. /\ \A a \in F : \A k \in 1..Len(ks[a]) : ks[a][k] \in F
      /\ \A a \in live \ F : \A k \in 1..Len(ks[a]) : ks[a][k] \notin F
      /\ F \cap R = {i}
  BY FreedIsTree
<1>4. /\ live' = live \ F
      /\ child' = Scrub(ch, F) /\ next' = Scrub(nx, F) /\ prev' = Scrub(pv, F)
      /\ kids' = [j \in Items |-> IF j \in F THEN <<>> ELSE ks[j]]
  BY DEF Delete
<1> HIDE DEF F
<1>5. /\ Null \notin live /\ live \subseteq Items
      /\ \A a \in live : ks[a] \in Seq(live) /\ Len(ks[a]) \in Nat
      /\ \A a \in live : \A k \in 1..Len(ks[a]) : ks[a][k] \in live
      /\ \A a \in live : ks[a] = <<>> <=> Len(ks[a]) = 0
  <2>1. /\ Null \notin live
        /\ \A a \in live : ks[a] \in Seq(live) /\ Len(ks[a]) \in Nat
        /\ \A a \in live : \A k \in 1..Len(ks[a]) : ks[a][k] \in live
        /\ \A a \in live : ks[a] = <<>> <=> Len(ks[a]) = 0
    BY HeapFacts
  <2> QED
    BY <2>1 DEF Heap, Typed
<1>6. \A j \in Items :
        /\ child'[j] = IF j \in F THEN Null ELSE ch[j]
        /\ next'[j] = IF j \in F THEN Null ELSE nx[j]
        /\ prev'[j] = IF j \in F THEN Null ELSE pv[j]
        /\ kids'[j] = IF j \in F THEN <<>> ELSE ks[j]
  BY <1>4 DEF Scrub
<1>7. \A a \in live' : kids'[a] = ks[a] /\ child'[a] = ch[a]
  BY <1>4, <1>5, <1>6
<1>8. \A a \in live' : \A k \in 1..Len(ks[a]) :
        /\ ks[a][k] \in live'
        /\ next'[ks[a][k]] = nx[ks[a][k]] /\ prev'[ks[a][k]] = pv[ks[a][k]]
  BY <1>3, <1>4, <1>5, <1>6
<1>9. \A j \in live' : j \in R \/ \E a \in live' : \E k \in 1..Len(ks[a]) : ks[a][k] = j
  <2> SUFFICES ASSUME NEW j \in live', j \notin R
               PROVE  \E a \in live' : \E k \in 1..Len(ks[a]) : ks[a][k] = j
    OBVIOUS
  <2>1. PICK a \in live : \E k \in 1..Len(ks[a]) : ks[a][k] = j
    BY <1>4 DEF Heap, Owned
  <2>2. a \notin F
    BY <1>3, <1>4, <2>1
  <2> QED
    BY <1>4, <2>1, <2>2
<1>10. Linked(live, child, next, prev, kids)'
  <2> SUFFICES ASSUME NEW a \in live'
               PROVE  /\ child'[a] = IF kids'[a] = <<>> THEN Null ELSE kids'[a][1]
                      /\ Joined(kids'[a], next', prev')
    BY DEF Linked
  <2>1. /\ ch[a] = IF ks[a] = <<>> THEN Null ELSE ks[a][1]
        /\ Joined(ks[a], nx, pv)
    BY <1>4 DEF Heap, Linked
  <2>2. Joined(ks[a], next', prev')
    BY <1>8, <2>1 DEF Joined
  <2> QED
    BY <1>7, <2>1, <2>2
<1>11. Alone(live, next, prev, roots, kids)'
  <2>1. \A j \in R : j \in live /\ nx[j] = Null /\ pv[j] = Null
    BY DEF Heap, Alone, Typed
  <2>2. \A j \in R : \A a \in live : \A k \in 1..Len(ks[a]) : ks[a][k] # j
    BY DEF Heap, Alone
  <2> QED
    BY <1>3, <1>4, <1>5, <1>6, <1>7, <2>1, <2>2 DEF Alone
<1>12. Unique(live, kids)'
  <2>1. live' \subseteq live
    BY <1>4
  <2> QED
    BY <1>7, <2>1 DEF Heap, Unique
<1>13. Owned(live, roots, kids)'
  <2> SUFFICES ASSUME NEW j \in live' \ roots'
               PROVE  \E a \in live' : \E k \in 1..Len(kids'[a]) : kids'[a][k] = j
    BY DEF Owned
  <2>1. j \notin R
    BY <1>2, <1>4
  <2> QED
    BY <1>7, <1>9, <2>1
<1>14. Clear(live, child, next, prev, kids)'
  <2>1. \A j \in Items \ live : ch[j] = Null /\ nx[j] = Null /\ pv[j] = Null /\ ks[j] = <<>>
    BY DEF Heap, Clear
  <2> QED
    BY <1>4, <1>6, <2>1 DEF Clear
<1>15. Typed(live, child, next, prev, roots, kids)'
  <2>1. live' \subseteq Items /\ roots' \subseteq live'
    BY <1>3, <1>4, <1>5 DEF Heap, Typed
  <2>2. \A j \in Items : child'[j] \in live' \cup {Null}
    <3> TAKE j \in Items
    <3>1. CASE j \in live'
      <4>1. kids'[j] # <<>> => 1 \in 1..Len(ks[j])
        BY <1>4, <1>5, <1>7, <3>1
      <4> QED
        BY <1>7, <1>8, <1>10, <3>1, <4>1 DEF Linked
    <3>2. CASE j \notin live'
      BY <1>14, <3>2 DEF Clear
    <3> QED
      BY <3>1, <3>2
  <2>3. \A j \in Items : next'[j] \in live' \cup {Null} /\ prev'[j] \in live' \cup {Null}
    <3> TAKE j \in Items
    <3>1. CASE j \in live' /\ j \notin R
      <4>1. PICK a \in live' : \E k \in 1..Len(ks[a]) : ks[a][k] = j
        BY <1>9, <3>1
      <4>2. PICK k \in 1..Len(ks[a]) : ks[a][k] = j
        BY <4>1
      <4>3. Joined(ks[a], next', prev') /\ Len(ks[a]) \in Nat
        BY <1>4, <1>5, <1>7, <1>10 DEF Linked
      <4>4. /\ k < Len(ks[a]) => k + 1 \in 1..Len(ks[a])
            /\ (IF k = 1 THEN Len(ks[a]) ELSE k - 1) \in 1..Len(ks[a])
        BY <4>3
      <4> QED
        BY <1>8, <4>2, <4>3, <4>4 DEF Joined
    <3>2. CASE j \in live' /\ j \in R
      <4>1. j # i
        BY <1>2, <1>4, <3>2
      <4> QED
        BY <1>4, <1>11, <3>2, <4>1 DEF Alone
    <3>3. CASE j \notin live'
      BY <1>14, <3>3 DEF Clear
    <3> QED
      BY <3>1, <3>2, <3>3
  <2>4. \A j \in Items : kids'[j] \in Seq(live')
    <3> TAKE j \in Items
    <3>1. CASE j \in live'
      <4>1. ks[j] \in Seq(live) /\ \A k \in 1..Len(ks[j]) : ks[j][k] \in live'
        BY <1>4, <1>5, <1>8, <3>1
      <4>2. ks[j] \in Seq(live')
        BY <4>1, SeqOfElements
      <4> QED
        BY <1>7, <3>1, <4>2
    <3>2. CASE j \notin live'
      BY <1>14, <3>2, EmptySeq DEF Clear
    <3> QED
      BY <3>1, <3>2
  <2>5. /\ child' = [j \in Items |-> child'[j]] /\ next' = [j \in Items |-> next'[j]]
        /\ prev' = [j \in Items |-> prev'[j]] /\ kids' = [j \in Items |-> kids'[j]]
    BY <1>4 DEF Scrub
  <2> QED
    BY <2>1, <2>2, <2>3, <2>4, <2>5 DEF Typed
<1> QED
  BY <1>10, <1>11, <1>12, <1>13, <1>14, <1>15 DEF HeapOK, Heap

\* A call that changes one list: its items change places with those that the
\* caller holds, and the pointers of all other items stay.
Members(s) == {s[k] : k \in 1..Len(s)}

ListChange(ch, nx, pv, R, s, p, t, c, n, v, Q) ==
  /\ Members(t) \cup Q = Members(s) \cup R
  /\ Members(t) \cap Q = {}
  /\ \A k, l \in 1..Len(t) : t[k] = t[l] => k = l
  /\ c = [ch EXCEPT ![p] = IF t = <<>> THEN Null ELSE t[1]]
  /\ n = [j \in Items |-> n[j]] /\ v = [j \in Items |-> v[j]]
  /\ Joined(t, n, v)
  /\ \A j \in Q : n[j] = Null /\ v[j] = Null
  /\ \A j \in Items \ (Members(t) \cup Q) : n[j] = nx[j] /\ v[j] = pv[j]

LEMMA OneListChanges ==
  ASSUME NEW L, NEW ch, NEW nx, NEW pv, NEW R, NEW ks, Heap(L, ch, nx, pv, R, ks),
         NEW p \in L, NEW t \in Seq(L), NEW c, NEW n, NEW v, NEW Q,
         ListChange(ch, nx, pv, R, ks[p], p, t, c, n, v, Q)
  PROVE  Heap(L, c, n, v, Q, [ks EXCEPT ![p] = t])
<1> DEFINE us == [ks EXCEPT ![p] = t]
<1> USE DEF ListChange
<1>1. /\ Null \notin L /\ L \subseteq Items /\ R \subseteq L
      /\ \A a \in L : ks[a] \in Seq(L) /\ Len(ks[a]) \in Nat
      /\ \A a \in L : \A k \in 1..Len(ks[a]) : ks[a][k] \in L
  BY HeapFacts DEF Heap, Typed
<1>2. /\ Len(t) \in Nat
      /\ \A k \in 1..Len(t) : t[k] \in L
      /\ t # <<>> => 1 \in 1..Len(t)
  <2>1. Len(t) \in Nat /\ (t # <<>> => Len(t) # 0)
    OBVIOUS
  <2> QED
    BY <2>1, ElementOfSeq
<1>3. us[p] = t /\ \A a \in L \ {p} : us[a] = ks[a]
  BY <1>1 DEF Heap, Typed
<1>4. us \in [Items -> Seq(L)]
  BY <1>1 DEF Heap, Typed
<1> HIDE DEF us
<1>5. Q \subseteq L
  <2>1. Members(ks[p]) \subseteq L
    BY <1>1 DEF Members
  <2> QED
    BY <1>1, <2>1
<1>6. \A a \in L \ {p} : \A k \in 1..Len(ks[a]) : ks[a][k] \notin Members(t) \cup Q
  <2> SUFFICES ASSUME NEW a \in L \ {p}, NEW k \in 1..Len(ks[a])
               PROVE  ks[a][k] \notin Members(ks[p]) \cup R
    OBVIOUS
  <2>1. ks[a][k] \notin R
    BY DEF Heap, Alone
  <2>2. \A l \in 1..Len(ks[p]) : ks[p][l] # ks[a][k]
    BY DEF Heap, Unique
  <2> QED
    BY <2>1, <2>2 DEF Members
<1>7. Linked(L, c, n, v, us)
  <2> SUFFICES ASSUME NEW a \in L
               PROVE  /\ c[a] = IF us[a] = <<>> THEN Null ELSE us[a][1]
                      /\ Joined(us[a], n, v)
    BY DEF Linked
  <2>1. CASE a = p
    <3>1. c[p] = IF t = <<>> THEN Null ELSE t[1]
      BY <1>1 DEF Heap, Typed
    <3> QED
      BY <1>3, <2>1, <3>1
  <2>2. CASE a # p
    <3>1. us[a] = ks[a] /\ c[a] = ch[a]
      BY <1>1, <1>3, <2>2 DEF Heap, Typed
    <3>2. /\ ch[a] = IF ks[a] = <<>> THEN Null ELSE ks[a][1]
          /\ Joined(ks[a], nx, pv)
      BY DEF Heap, Linked
    <3>3. \A k \in 1..Len(ks[a]) : n[ks[a][k]] = nx[ks[a][k]] /\ v[ks[a][k]] = pv[ks[a][k]]
      BY <1>1, <1>6, <2>2
    <3>4. Joined(ks[a], n, v)
      BY <3>2, <3>3 DEF Joined
    <3> QED
      BY <3>1, <3>2, <3>4
  <2> QED
    BY <2>1, <2>2
<1>8. Alone(L, n, v, Q, us)
  <2> SUFFICES ASSUME NEW j \in Q, NEW a \in L, NEW k \in 1..Len(us[a])
               PROVE  us[a][k] # j
    BY DEF Alone
  <2>1. CASE a = p
    BY <1>3, <2>1 DEF Members
  <2>2. CASE a # p
    BY <1>3, <1>6, <2>2
  <2> QED
    BY <2>1, <2>2
<1>9. Unique(L, us)
  <2> SUFFICES ASSUME NEW a \in L, NEW b \in L, NEW k \in 1..Len(us[a]),
                      NEW l \in 1..Len(us[b]), us[a][k] = us[b][l]
               PROVE  a = b /\ k = l
    BY DEF Unique
  <2>1. CASE a = p /\ b = p
    BY <1>3, <2>1
  <2>2. CASE a = p /\ b # p
    <3>1. us[a][k] \in Members(t) /\ us[b][l] \notin Members(t)
      BY <1>3, <1>6, <2>2 DEF Members
    <3> QED
      BY <3>1
  <2>3. CASE a # p /\ b = p
    <3>1. us[b][l] \in Members(t) /\ us[a][k] \notin Members(t)
      BY <1>3, <1>6, <2>3 DEF Members
    <3> QED
      BY <3>1
  <2>4. CASE a # p /\ b # p
    BY <1>3, <2>4 DEF Heap, Unique
  <2> QED
    BY <2>1, <2>2, <2>3, <2>4
<1>10. Owned(L, Q, us)
  <2> SUFFICES ASSUME NEW j \in L \ Q
               PROVE  \E a \in L : \E k \in 1..Len(us[a]) : us[a][k] = j
    BY DEF Owned
  <2>1. CASE j \in Members(t)
    BY <1>3, <2>1 DEF Members
  <2>2. CASE j \notin Members(t)
    <3>1. j \notin R /\ j \notin Members(ks[p])
      BY <2>2
    <3>2. PICK a \in L : \E k \in 1..Len(ks[a]) : ks[a][k] = j
      BY <3>1 DEF Heap, Owned
    <3>3. a # p
      BY <3>1, <3>2 DEF Members
    <3> QED
      BY <1>3, <3>2, <3>3
  <2> QED
    BY <2>1, <2>2
<1>11. Clear(L, c, n, v, us)
  <2> SUFFICES ASSUME NEW j \in Items \ L
               PROVE  c[j] = Null /\ n[j] = Null /\ v[j] = Null /\ us[j] = <<>>
    BY DEF Clear
  <2>1. ch[j] = Null /\ nx[j] = Null /\ pv[j] = Null /\ ks[j] = <<>>
    BY DEF Heap, Clear
  <2>2. j # p /\ j \notin Members(t) \cup Q
    BY <1>2, <1>5 DEF Members
  <2>3. c[j] = ch[j] /\ us[j] = ks[j]
    BY <2>2 DEF Heap, Typed, us
  <2> QED
    BY <2>1, <2>2, <2>3
<1>12. \A j \in Items : n[j] \in L \cup {Null} /\ v[j] \in L \cup {Null}
  <2> TAKE j \in Items
  <2>1. CASE j \in Members(t)
    <3>1. PICK k \in 1..Len(t) : t[k] = j
      BY <2>1 DEF Members
    <3>2. /\ k < Len(t) => k + 1 \in 1..Len(t)
          /\ (IF k = 1 THEN Len(t) ELSE k - 1) \in 1..Len(t)
      BY <1>2
    <3> QED
      BY <1>2, <3>1, <3>2 DEF Joined
  <2>2. CASE j \in Q
    BY <2>2
  <2>3. CASE j \notin Members(t) \cup Q
    BY <2>3 DEF Heap, Typed
  <2> QED
    BY <2>1, <2>2, <2>3
<1>13. Typed(L, c, n, v, Q, us)
  <2>1. c \in [Items -> L \cup {Null}]
    BY <1>2 DEF Heap, Typed
  <2>2. n \in [Items -> L \cup {Null}] /\ v \in [Items -> L \cup {Null}]
    BY <1>12
  <2> QED
    BY <1>1, <1>4, <1>5, <2>1, <2>2 DEF Typed
<1> QED
  BY <1>7, <1>8, <1>9, <1>10, <1>11, <1>13 DEF Heap, us

\* A loop over the children of p meets items of p's list only.
LEMMA ElementPosition ==
  ASSUME HeapOK, NEW p \in live, NEW i \in Elements(p)
  PROVE  /\ PositionOf(i, kids[p]) \in 1..Len(kids[p])
         /\ kids[p][PositionOf(i, kids[p])] = i
<1> DEFINE s == kids[p]
<1>1. /\ s \in Seq(live) /\ Len(s) \in Nat /\ Null \notin live
      /\ \A k \in 1..Len(s) : s[k] \in live
      /\ s = <<>> <=> Len(s) = 0
  BY HeapFacts DEF HeapOK
<1>2. child[p] = (IF s = <<>> THEN Null ELSE s[1]) /\ Joined(s, next, prev)
  BY DEF HeapOK, Heap, Linked
<1> HIDE DEF s
<1>3. Members(s) \in SUBSET live
  BY <1>1 DEF Members
<1>4. child[p] \in Members(s) \cup {Null}
  <2>1. s # <<>> => 1 \in 1..Len(s)
    BY <1>1
  <2> QED
    BY <1>2, <2>1 DEF Members
<1>5. \A j \in Members(s) : next[j] \in Members(s) \cup {Null}
  <2> TAKE j \in Members(s)
  <2>1. PICK k \in 1..Len(s) : s[k] = j
    BY DEF Members
  <2>2. k < Len(s) => k + 1 \in 1..Len(s)
    BY <1>1
  <2> QED
    BY <1>2, <2>1, <2>2 DEF Joined, Members
<1>6. i \in Members(s)
  BY <1>3, <1>4, <1>5 DEF Elements
<1>7. PICK k \in 1..Len(s) : s[k] = i
  BY <1>6 DEF Members
<1> QED
  BY <1>1, <1>7, PositionProperties DEF s

\* The list of p, for the lemmas about the calls that change it.
LEMMA ListFacts ==
  ASSUME NEW L, NEW ch, NEW nx, NEW pv, NEW R, NEW ks, Heap(L, ch, nx, pv, R, ks),
         NEW p \in L
  PROVE  /\ ks[p] \in Seq(L) /\ Len(ks[p]) \in Nat
         /\ Null \notin L /\ L \subseteq Items /\ R \subseteq L
         /\ \A k \in 1..Len(ks[p]) : ks[p][k] \in L /\ ks[p][k] \notin R
         /\ \A k, l \in 1..Len(ks[p]) : ks[p][k] = ks[p][l] => k = l
         /\ Joined(ks[p], nx, pv)
         /\ ks[p] = <<>> <=> Len(ks[p]) = 0
         /\ ch[p] = IF Len(ks[p]) = 0 THEN Null ELSE ks[p][1]
         /\ ch \in [Items -> L \cup {Null}]
         /\ nx \in [Items -> L \cup {Null}]
         /\ pv \in [Items -> L \cup {Null}]
<1>1. /\ ks[p] \in Seq(L) /\ Len(ks[p]) \in Nat /\ Null \notin L
      /\ \A k \in 1..Len(ks[p]) : ks[p][k] \in L
      /\ ks[p] = <<>> <=> Len(ks[p]) = 0
  BY HeapFacts
<1>2. /\ Joined(ks[p], nx, pv)
      /\ ch[p] = IF Len(ks[p]) = 0 THEN Null ELSE ks[p][1]
  BY <1>1 DEF Heap, Linked
<1>3. \A k, l \in 1..Len(ks[p]) : ks[p][k] = ks[p][l] => k = l
  BY DEF Heap, Unique
<1>4. \A k \in 1..Len(ks[p]) : ks[p][k] \notin R
  BY DEF Heap, Alone
<1> QED
  BY <1>1, <1>2, <1>3, <1>4 DEF Heap, Typed

\* Detaching a child leaves a heap in which the caller holds it.
LEMMA DetachHeap ==
  ASSUME HeapOK, NEW p \in live, NEW k \in 1..Len(kids[p]), NEW i, i = kids[p][k]
  PROVE  Heap(live, ChildWithout(p, i), NextWithout(p, i), PrevWithout(p, i),
              roots \cup {i}, [kids EXCEPT ![p] = RemoveAt(kids[p], k)])
<1> DEFINE s == kids[p]
           t == RemoveAt(s, k)
           n == NextWithout(p, i)
           v == PrevWithout(p, i)
           c == ChildWithout(p, i)
           Q == roots \cup {i}
           From(m) == IF m < k THEN m ELSE m + 1
<1>1. /\ s \in Seq(live) /\ Len(s) \in Nat
      /\ Null \notin live /\ live \subseteq Items /\ roots \subseteq live
      /\ \A m \in 1..Len(s) : s[m] \in live /\ s[m] \notin roots
      /\ \A m, l \in 1..Len(s) : s[m] = s[l] => m = l
      /\ Joined(s, next, prev)
      /\ child[p] = IF Len(s) = 0 THEN Null ELSE s[1]
      /\ child \in [Items -> live \cup {Null}]
      /\ next \in [Items -> live \cup {Null}]
      /\ prev \in [Items -> live \cup {Null}]
  BY ListFacts DEF HeapOK
<1>2. /\ t \in Seq(live) /\ Len(t) = Len(s) - 1
      /\ \A m \in 1..(Len(s) - 1) : t[m] = IF m < k THEN s[m] ELSE s[m + 1]
  <2>1. k \in 1..Len(s)
    OBVIOUS
  <2> HIDE DEF s
  <2> QED
    BY <1>1, <2>1, RemoveAtElements
<1> HIDE DEF s, t
<1>3. /\ k \in 1..Len(s) /\ i = s[k]
      /\ child[p] = s[1] /\ 1 \in 1..Len(s)
      /\ i = child[p] <=> k = 1
  BY <1>1 DEF s
<1>4. /\ next[i] = IF k < Len(s) THEN s[k + 1] ELSE Null
      /\ prev[i] = s[IF k = 1 THEN Len(s) ELSE k - 1]
  BY <1>1, <1>3 DEF Joined
<1>5. next[i] # Null <=> k < Len(s)
  <2>1. k < Len(s) => k + 1 \in 1..Len(s)
    BY <1>1, <1>3
  <2> QED
    BY <1>1, <1>4, <2>1
<1>6. \A j \in Items : n[j] = IF j = i THEN Null
                              ELSE IF k # 1 /\ j = s[k - 1] THEN next[i] ELSE next[j]
  BY <1>1, <1>3, <1>4 DEF NextWithout
<1>7. \A j \in Items : v[j] = IF j = i THEN Null
                              ELSE IF j = (IF k < Len(s) THEN s[k + 1] ELSE s[1]) THEN prev[i]
                              ELSE prev[j]
  BY <1>1, <1>3, <1>4, <1>5 DEF PrevWithout
<1>8. n = [j \in Items |-> n[j]] /\ v = [j \in Items |-> v[j]]
  BY <1>1 DEF NextWithout, PrevWithout
<1> HIDE DEF n, v
<1>9. Members(t) \cup (roots \cup {i}) = Members(s) \cup roots
  <2>1. Members(t) \subseteq Members(s)
    BY <1>1, <1>2, <1>3 DEF Members
  <2>2. ASSUME NEW m \in 1..Len(s), m # k PROVE s[m] \in Members(t)
    <3>1. CASE m < k
      BY <1>1, <1>2, <1>3, <3>1, SMTT(30) DEF Members
    <3>2. CASE m > k
      <4>1. m - 1 \in 1..(Len(s) - 1) /\ ~ (m - 1 < k) /\ (m - 1) + 1 = m
        BY <1>1, <1>3, <3>2
      <4>2. t[m - 1] = s[m] /\ m - 1 \in 1..Len(t)
        BY <1>2, <4>1
      <4> QED
        BY <4>2 DEF Members
    <3> QED
      BY <1>3, <2>2, <3>1, <3>2
  <2> QED
    BY <1>3, <2>1, <2>2 DEF Members
<1>20. \A m \in 1..Len(t) : From(m) \in 1..Len(s) /\ From(m) # k /\ t[m] = s[From(m)]
  BY <1>1, <1>2, <1>3
<1>10. \A m \in 1..Len(t) : t[m] # i /\ t[m] \notin roots
  BY <1>1, <1>3, <1>20
<1>11. \A m, l \in 1..Len(t) : t[m] = t[l] => m = l
  <2> SUFFICES ASSUME NEW m \in 1..Len(t), NEW l \in 1..Len(t), t[m] = t[l] PROVE m = l
    OBVIOUS
  <2>1. From(m) = From(l)
    BY <1>1, <1>20
  <2> QED
    BY <1>1, <1>2, <1>3, <2>1
<1>12. ChildWithout(p, i) = [child EXCEPT ![p] = IF t = <<>> THEN Null ELSE t[1]]
  <2>1. t = <<>> <=> Len(s) = 1
    BY <1>1, <1>2
  <2>2. CASE k = 1
    <3>1. next[i] = IF t = <<>> THEN Null ELSE t[1]
      BY <1>1, <1>2, <1>3, <1>4, <2>1, <2>2
    <3> QED
      BY <1>3, <2>2, <3>1 DEF ChildWithout
  <2>3. CASE k # 1
    <3>1. t # <<>> /\ t[1] = child[p]
      BY <1>1, <1>2, <1>3, <2>1, <2>3
    <3> QED
      BY <1>1, <1>3, <2>3, <3>1 DEF ChildWithout
  <2> QED
    BY <2>2, <2>3
<1>13. Joined(t, n, v)
  <2> SUFFICES ASSUME NEW m \in 1..Len(t)
               PROVE  /\ n[t[m]] = IF m < Len(t) THEN t[m + 1] ELSE Null
                      /\ v[t[m]] = t[IF m = 1 THEN Len(t) ELSE m - 1]
    BY DEF Joined
  <2>1. t[m] \in Items /\ t[m] # i
    BY <1>1, <1>2, <1>10, ElementOfSeq
  <2>2. n[t[m]] = IF m < Len(t) THEN t[m + 1] ELSE Null
    <3>1. CASE m < k - 1
      <4>1. /\ m \in 1..Len(s) /\ t[m] = s[m]
            /\ m < Len(t) /\ t[m + 1] = s[m + 1]
        BY <1>1, <1>2, <1>3, <3>1
      <4>2. k - 1 \in 1..Len(s) /\ m # k - 1
        BY <1>1, <1>3, <3>1
      <4>3. next[s[m]] = s[m + 1]
        BY <1>1, <1>2, <4>1 DEF Joined
      <4> QED
        BY <1>1, <1>6, <2>1, <4>1, <4>2, <4>3
    <3>2. CASE m = k - 1
      BY <1>1, <1>2, <1>3, <1>4, <1>6, <2>1, <3>2
    <3>3. CASE m > k - 1
      <4>0. /\ k \in Nat /\ Len(s) \in Nat /\ m \in Nat
            /\ 1 <= k /\ k <= Len(s) /\ 1 <= m /\ m <= Len(s) - 1
        BY <1>1, <1>2, <1>3
      <4>1. m + 1 \in 1..Len(s) /\ t[m] = s[m + 1] /\ m + 1 # k
        <5>1. m \in 1..(Len(s) - 1) /\ ~ (m < k) /\ m + 1 \in 1..Len(s) /\ m + 1 # k
          BY <3>3, <4>0
        <5> QED
          BY <1>2, <5>1
      <4>2. k # 1 => s[m + 1] # s[k - 1]
        <5>1. k # 1 => k - 1 \in 1..Len(s) /\ k - 1 # m + 1
          BY <3>3, <4>0
        <5> QED
          BY <1>1, <4>1, <5>1
      <4>3. n[t[m]] = next[s[m + 1]]
        BY <1>6, <2>1, <4>1, <4>2
      <4>4. next[s[m + 1]] = IF m + 1 < Len(s) THEN s[(m + 1) + 1] ELSE Null
        BY <1>1, <4>1 DEF Joined
      <4>5. /\ m < Len(t) <=> m + 1 < Len(s)
            /\ m < Len(t) => t[m + 1] = s[(m + 1) + 1]
        BY <1>1, <1>2, <1>3, <3>3
      <4> QED
        BY <4>3, <4>4, <4>5
    <3> QED
      BY <1>1, <1>2, <1>3, <3>1, <3>2, <3>3
  <2>3. v[t[m]] = t[IF m = 1 THEN Len(t) ELSE m - 1]
    <3>1. CASE m = 1
      <4>1. Len(s) >= 2 /\ Len(t) \in 1..Len(t)
        BY <1>1, <1>2
      <4>2. CASE k = 1
        <5>1. t[m] = s[2] /\ k + 1 = 2 /\ k < Len(s)
          BY <1>1, <1>2, <3>1, <4>1, <4>2
        <5>2. v[t[m]] = s[Len(s)]
          BY <1>3, <1>4, <1>7, <2>1, <4>2, <5>1
        <5>3. t[Len(t)] = s[Len(s)]
          BY <1>1, <1>2, <4>1, <4>2
        <5> QED
          BY <3>1, <5>2, <5>3
      <4>3. CASE k = Len(s)
        <5>1. t[m] = s[1] /\ ~ (k < Len(s)) /\ k # 1
          BY <1>1, <1>2, <3>1, <4>1, <4>3
        <5>2. v[t[m]] = s[k - 1]
          BY <1>3, <1>4, <1>7, <2>1, <5>1
        <5>3. t[Len(t)] = s[k - 1]
          BY <1>1, <1>2, <4>1, <4>3
        <5> QED
          BY <3>1, <5>2, <5>3
      <4>4. CASE k # 1 /\ k # Len(s)
        <5>1. t[m] = s[1] /\ k < Len(s) /\ k + 1 # 1 /\ k + 1 \in 1..Len(s)
          BY <1>1, <1>2, <1>3, <3>1, <4>4
        <5>2. v[t[m]] = s[Len(s)]
          <6>1. s[1] # s[k + 1] /\ prev[s[1]] = s[Len(s)]
            BY <1>1, <1>3, <5>1 DEF Joined
          <6> QED
            BY <1>7, <2>1, <5>1, <6>1
        <5>3. t[Len(t)] = s[Len(s)]
          BY <1>1, <1>2, <1>3, <4>1, <4>4
        <5> QED
          BY <3>1, <5>2, <5>3
      <4> QED
        BY <4>2, <4>3, <4>4
    <3>2. CASE m # 1 /\ m < k
      <4>1. /\ m \in 1..Len(s) /\ t[m] = s[m]
            /\ m - 1 \in 1..Len(s) /\ t[m - 1] = s[m - 1]
        BY <1>1, <1>2, <1>3, <3>2
      <4>2. (IF k < Len(s) THEN k + 1 ELSE 1) \in 1..Len(s)
            /\ m # (IF k < Len(s) THEN k + 1 ELSE 1)
        BY <1>1, <1>3, <3>2
      <4>3. prev[s[m]] = s[m - 1]
        BY <1>1, <3>2, <4>1 DEF Joined
      <4> QED
        BY <1>1, <1>7, <2>1, <3>2, <4>1, <4>2, <4>3
    <3>3. CASE m # 1 /\ m = k
      BY <1>1, <1>2, <1>3, <1>4, <1>7, <2>1, <3>3 DEF Joined
    <3>4. CASE m # 1 /\ m > k
      <4>1. /\ m + 1 \in 1..Len(s) /\ t[m] = s[m + 1]
            /\ m - 1 \in 1..Len(t) /\ t[m - 1] = s[m]
        BY <1>1, <1>2, <1>3, <3>4
      <4>2. (IF k < Len(s) THEN k + 1 ELSE 1) \in 1..Len(s)
            /\ m + 1 # (IF k < Len(s) THEN k + 1 ELSE 1)
        BY <1>1, <1>3, <3>4
      <4>3. prev[s[m + 1]] = s[m]
        BY <1>1, <3>4, <4>1 DEF Joined
      <4> QED
        <5>1. s[m + 1] # (IF k < Len(s) THEN s[k + 1] ELSE s[1])
          BY <1>1, <4>1, <4>2
        <5> QED
          BY <1>7, <2>1, <3>4, <4>1, <4>3, <5>1
    <3> QED
      BY <1>1, <1>2, <1>3, <3>1, <3>2, <3>3, <3>4
  <2> QED
    BY <2>2, <2>3
<1>14. \A j \in roots \cup {i} : n[j] = Null /\ v[j] = Null
  <2>1. \A j \in roots : next[j] = Null /\ prev[j] = Null
    BY DEF HeapOK, Heap, Alone
  <2>2. \A j \in roots : \A m \in 1..Len(s) : j # s[m]
    BY <1>1
  <2>3. /\ k # 1 => k - 1 \in 1..Len(s)
        /\ k < Len(s) => k + 1 \in 1..Len(s)
    BY <1>1, <1>3
  <2> QED
    BY <1>1, <1>3, <1>6, <1>7, <2>1, <2>2, <2>3
<1>15. \A j \in Items \ (Members(t) \cup (roots \cup {i})) : n[j] = next[j] /\ v[j] = prev[j]
  <2> SUFFICES ASSUME NEW j \in Items, j \notin Members(s) PROVE n[j] = next[j] /\ v[j] = prev[j]
    BY <1>9
  <2>1. \A m \in 1..Len(s) : j # s[m]
    BY DEF Members
  <2>2. /\ k # 1 => k - 1 \in 1..Len(s)
        /\ k < Len(s) => k + 1 \in 1..Len(s)
    BY <1>1, <1>3
  <2> QED
    BY <1>3, <1>6, <1>7, <2>1, <2>2
<1>16. Members(t) \cap (roots \cup {i}) = {}
  BY <1>10 DEF Members
<1>17. Members(t) \cup (roots \cup {i}) = Members(kids[p]) \cup roots
  BY <1>9 DEF s
<1>18. Heap(live, child, next, prev, roots, kids)
  BY DEF HeapOK
<1> HIDE DEF c, Q
<1>19. ListChange(child, next, prev, roots, kids[p], p, t, c, n, v, Q)
  BY <1>8, <1>11, <1>12, <1>13, <1>14, <1>15, <1>16, <1>17 DEF ListChange, c, Q
<1>21. Heap(live, c, n, v, Q, [kids EXCEPT ![p] = t])
  BY <1>2, <1>18, <1>19, OneListChanges
<1> QED
  BY <1>21 DEF n, v, t, s, c, Q

\* Two naturals that are in order are equal or in strict order, not both, and
\* the greater one is among the first that many.
LEMMA NatOrder ==
  \A a, b \in Nat :
    a <= b => /\ ~ (a < b) => b = a
              /\ a < b => b # a
              /\ 1 <= a => b \in 1..b
  OBVIOUS

\* Replacing a child leaves a heap in which the caller holds the old one.
LEMMA ReplaceHeap ==
  ASSUME HeapOK, NEW p \in live, NEW k \in 1..Len(kids[p]), NEW i, i = kids[p][k],
         NEW r \in roots
  PROVE  Heap(live, ChildReplaced(p, i, r), NextReplaced(p, i, r), PrevReplaced(p, i, r),
              (roots \cup {i}) \ {r}, [kids EXCEPT ![p] = ReplaceAt(kids[p], k, r)])
<1> DEFINE s == kids[p]
           t == ReplaceAt(s, k, r)
           n == NextReplaced(p, i, r)
           v == PrevReplaced(p, i, r)
           c == ChildReplaced(p, i, r)
           Q == (roots \cup {i}) \ {r}
           follower == IF k < Len(s) THEN s[k + 1] ELSE IF k = 1 THEN r ELSE s[1]
<1>1. /\ s \in Seq(live) /\ Len(s) \in Nat
      /\ Null \notin live /\ live \subseteq Items /\ roots \subseteq live
      /\ \A m \in 1..Len(s) : s[m] \in live /\ s[m] \notin roots
      /\ \A m, l \in 1..Len(s) : s[m] = s[l] => m = l
      /\ Joined(s, next, prev)
      /\ child[p] = IF Len(s) = 0 THEN Null ELSE s[1]
      /\ child \in [Items -> live \cup {Null}]
      /\ next \in [Items -> live \cup {Null}]
      /\ prev \in [Items -> live \cup {Null}]
  BY ListFacts DEF HeapOK
<1>2. /\ t \in Seq(live) /\ Len(t) = Len(s)
      /\ \A m \in 1..Len(s) : t[m] = IF m = k THEN r ELSE s[m]
  BY <1>1, ExceptSeq DEF ReplaceAt
<1> HIDE DEF s, t
<1>3. /\ k \in 1..Len(s) /\ i = s[k]
      /\ child[p] = s[1] /\ 1 \in 1..Len(s)
      /\ i = child[p] <=> k = 1
      /\ k # 1 => k - 1 \in 1..Len(s)
      /\ k < Len(s) => k + 1 \in 1..Len(s)
  BY <1>1 DEF s
<1>20. k \in Nat /\ Len(s) \in Nat /\ 1 <= k /\ k <= Len(s)
  BY <1>1, <1>3
<1>4. /\ next[i] = IF k < Len(s) THEN s[k + 1] ELSE Null
      /\ prev[i] = s[IF k = 1 THEN Len(s) ELSE k - 1]
  BY <1>1, <1>3 DEF Joined
<1>5. \A m \in 1..Len(s) : s[m] # r
  BY <1>1
<1>6. \A j \in Items : n[j] = IF j = i THEN Null
                              ELSE IF k # 1 /\ j = s[k - 1] THEN r
                              ELSE IF j = r THEN next[i] ELSE next[j]
  BY <1>1, <1>3, <1>4, <1>5 DEF NextReplaced
<1>7. \A j \in Items : v[j] = IF j = i THEN Null
                              ELSE IF j = follower THEN r
                              ELSE IF j = r THEN prev[i] ELSE prev[j]
  <2> DEFINE followers == IF next[i] # Null THEN {next[i]} ELSE {child[p]} \ {i}
             back == IF child[p] = i /\ prev[i] = i THEN r ELSE prev[i]
  <2>1. \A j \in Items : v[j] = IF j = i THEN Null
                                ELSE IF j \in followers THEN r
                                ELSE IF j = r THEN back ELSE prev[j]
    BY DEF PrevReplaced
  <2>2. CASE k < Len(s)
    <3>1. next[i] = s[k + 1] /\ next[i] # Null /\ follower = next[i]
      BY <1>1, <1>3, <1>4, <2>2
    <3>2. back = prev[i]
      <4>1. Len(s) \in 1..Len(s) /\ (k = 1 => Len(s) # k)
        BY <1>20, <2>2, NatOrder, Zenon
      <4>2. ~ (child[p] = i /\ prev[i] = i)
        BY <1>1, <1>3, <1>4, <4>1
      <4> QED
        BY <4>2
    <3> HIDE DEF follower, back
    <3> QED
      BY <2>1, <3>1, <3>2
  <2>3. CASE ~ (k < Len(s)) /\ k = 1
    <3>1. next[i] = Null /\ child[p] = i /\ prev[i] = i
      <4>1. Len(s) = k
        BY <1>20, <2>3, NatOrder, Zenon
      <4> QED
        BY <1>3, <1>4, <2>3, <4>1
    <3>2. followers = {} /\ back = r /\ follower = r
      BY <2>3, <3>1
    <3> HIDE DEF follower, back, followers
    <3> QED
      BY <2>1, <3>2
  <2>4. CASE ~ (k < Len(s)) /\ k # 1
    <3>1. next[i] = Null /\ child[p] = s[1] /\ child[p] # i
      BY <1>3, <1>4, <2>4
    <3>2. followers = {s[1]} /\ back = prev[i] /\ follower = s[1]
      BY <2>4, <3>1
    <3> HIDE DEF follower, back, followers
    <3> QED
      BY <2>1, <3>2
  <2> QED
    BY <2>2, <2>3, <2>4
<1>8. n = [j \in Items |-> n[j]] /\ v = [j \in Items |-> v[j]]
  BY <1>1 DEF NextReplaced, PrevReplaced
<1> HIDE DEF n, v
<1>9. Members(t) \cup Q = Members(s) \cup roots
  <2>1. r \in Members(t) /\ i \in Members(s)
    BY <1>2, <1>3 DEF Members
  <2>2. Members(t) \subseteq Members(s) \cup {r}
    BY <1>2 DEF Members
  <2>3. Members(s) \subseteq Members(t) \cup {i}
    BY <1>2, <1>3 DEF Members
  <2>4. i # r
    BY <1>3, <1>5
  <2> QED
    BY <2>1, <2>2, <2>3, <2>4
<1>10. \A m \in 1..Len(t) : t[m] \notin Q
  BY <1>1, <1>2, <1>3
<1>11. \A m, l \in 1..Len(t) : t[m] = t[l] => m = l
  BY <1>1, <1>2, <1>5
<1>12. c = [child EXCEPT ![p] = IF t = <<>> THEN Null ELSE t[1]]
  <2>1. t # <<>>
    BY <1>2, <1>3
  <2>2. CASE k = 1
    BY <1>2, <1>3, <2>1, <2>2 DEF ChildReplaced
  <2>3. CASE k # 1
    <3>1. t[1] = child[p] /\ c = child
      BY <1>2, <1>3, <2>3 DEF ChildReplaced
    <3> QED
      BY <1>1, <2>1, <3>1
  <2> QED
    BY <2>2, <2>3
<1>13. Joined(t, n, v)
  <2> SUFFICES ASSUME NEW m \in 1..Len(s)
               PROVE  /\ n[t[m]] = IF m < Len(t) THEN t[m + 1] ELSE Null
                      /\ v[t[m]] = t[IF m = 1 THEN Len(t) ELSE m - 1]
    BY <1>2 DEF Joined
  <2>1. t[m] \in Items /\ t[m] # i
    BY <1>1, <1>2, <1>3, <1>5
  <2>2. n[t[m]] = IF m < Len(t) THEN t[m + 1] ELSE Null
    <3>1. CASE m = k
      BY <1>1, <1>2, <1>3, <1>4, <1>5, <1>6, <2>1, <3>1
    <3>2. CASE m = k - 1
      BY <1>1, <1>2, <1>3, <1>6, <2>1, <3>2
    <3>3. CASE m # k /\ m # k - 1
      <4>1. next[s[m]] = IF m < Len(s) THEN s[m + 1] ELSE Null
        BY <1>1 DEF Joined
      <4>2. m < Len(s) => m + 1 \in 1..Len(s) /\ m + 1 # k
        BY <1>1, <1>3, <3>3
      <4>3. n[t[m]] = next[s[m]]
        <5>1. /\ t[m] = s[m] /\ s[m] \in Items /\ s[m] # i /\ s[m] # r
              /\ k # 1 => s[m] # s[k - 1]
          BY <1>1, <1>2, <1>3, <1>5, <2>1, <3>3
        <5> QED
          BY <1>6, <5>1
      <4> QED
        BY <1>2, <4>1, <4>2, <4>3
    <3> QED
      BY <3>1, <3>2, <3>3
  <2>3. v[t[m]] = t[IF m = 1 THEN Len(t) ELSE m - 1]
    <3>1. CASE m = k /\ Len(s) <= 1
      BY <1>1, <1>2, <1>3, <1>7, <2>1, <3>1
    <3>2. CASE m = k /\ Len(s) > 1
      <4>1. follower # r
        <5>1. k < Len(s) \/ k # 1
          BY <1>20, <3>2
        <5> QED
          BY <1>3, <1>5, <5>1
      <4>2. v[t[m]] = prev[i]
        BY <1>2, <1>7, <2>1, <3>2, <4>1
      <4>3. /\ k = 1 => Len(s) \in 1..Len(s) /\ Len(s) # k
            /\ k # 1 => k - 1 \in 1..Len(s) /\ k - 1 # k
        BY <1>20, <3>2
      <4>4. k = 1 => prev[i] = t[Len(t)]
        BY <1>2, <1>4, <4>3
      <4>5. k # 1 => prev[i] = t[k - 1]
        BY <1>2, <1>4, <4>3
      <4> QED
        BY <3>2, <4>2, <4>4, <4>5
    <3>3. CASE m # k /\ m = (IF k < Len(s) THEN k + 1 ELSE 1)
      <4>1. t[m] = follower
        BY <1>2, <1>3, <3>3
      <4>2. (IF m = 1 THEN Len(t) ELSE m - 1) = k
        BY <1>1, <1>2, <1>3, <3>3
      <4> QED
        BY <1>2, <1>3, <1>7, <2>1, <4>1, <4>2
    <3>4. CASE m # k /\ m # (IF k < Len(s) THEN k + 1 ELSE 1)
      <4>1. t[m] = s[m] /\ t[m] # follower /\ t[m] # r
        BY <1>1, <1>2, <1>3, <1>5, <3>4
      <4>2. v[t[m]] = s[IF m = 1 THEN Len(s) ELSE m - 1]
        BY <1>1, <1>7, <2>1, <4>1 DEF Joined
      <4>3. (IF m = 1 THEN Len(s) ELSE m - 1) \in 1..Len(s) /\ (IF m = 1 THEN Len(s) ELSE m - 1) # k
        BY <1>1, <1>3, <3>4
      <4> QED
        BY <1>2, <4>2, <4>3
    <3> QED
      BY <1>20, <3>1, <3>2, <3>3, <3>4
  <2> QED
    BY <2>2, <2>3
<1>14. \A j \in Q : n[j] = Null /\ v[j] = Null
  <2>1. \A j \in roots : next[j] = Null /\ prev[j] = Null
    BY DEF HeapOK, Heap, Alone
  <2>2. \A j \in roots : \A m \in 1..Len(s) : j # s[m]
    BY <1>1
  <2> QED
    BY <1>1, <1>3, <1>6, <1>7, <2>1, <2>2
<1>15. \A j \in Items \ (Members(t) \cup Q) : n[j] = next[j] /\ v[j] = prev[j]
  <2> SUFFICES ASSUME NEW j \in Items, j \notin Members(s) \cup roots
               PROVE  n[j] = next[j] /\ v[j] = prev[j]
    BY <1>9
  <2>1. \A m \in 1..Len(s) : j # s[m]
    BY DEF Members
  <2> QED
    BY <1>3, <1>6, <1>7, <2>1
<1> HIDE DEF c, Q
<1>16. ListChange(child, next, prev, roots, kids[p], p, t, c, n, v, Q)
  <2>1. Members(t) \cap Q = {}
    BY <1>10 DEF Members
  <2> QED
    BY <1>8, <1>9, <1>11, <1>12, <1>13, <1>14, <1>15, <2>1 DEF ListChange, s
<1>17. Heap(live, c, n, v, Q, [kids EXCEPT ![p] = t])
  BY <1>2, <1>16, OneListChanges DEF HeapOK
<1> QED
  BY <1>17 DEF n, v, t, s, c, Q

\* Appending an item that the caller holds: the list gains it as its last one.
LEMMA LinkHeap ==
  ASSUME NEW L, NEW R, Heap(L, child, next, prev, R, kids),
         NEW p \in L, NEW r \in R, LinkLast(p, r)
  PROVE  Heap(L, child', next', prev', R \ {r}, kids')
<1> DEFINE s == kids[p]
           t == Append(s, r)
           Q == R \ {r}
<1>1. /\ s \in Seq(L) /\ Len(s) \in Nat
      /\ Null \notin L /\ L \subseteq Items /\ R \subseteq L
      /\ \A m \in 1..Len(s) : s[m] \in L /\ s[m] \notin R
      /\ \A m, l \in 1..Len(s) : s[m] = s[l] => m = l
      /\ Joined(s, next, prev)
      /\ child[p] = IF Len(s) = 0 THEN Null ELSE s[1]
      /\ child \in [Items -> L \cup {Null}]
      /\ next \in [Items -> L \cup {Null}]
      /\ prev \in [Items -> L \cup {Null}]
  BY ListFacts
<1>2. /\ t \in Seq(L) /\ Len(t) = Len(s) + 1 /\ t # <<>>
      /\ \A m \in 1..Len(s) : t[m] = s[m]
      /\ t[Len(s) + 1] = r
  BY <1>1, AppendProperties
<1>3. next[r] = Null /\ \A j \in R : next[j] = Null /\ prev[j] = Null
  BY DEF Heap, Alone
<1>4. kids' = [kids EXCEPT ![p] = t]
  BY DEF LinkLast
<1> HIDE DEF s, t
<1>5. Members(t) = Members(s) \cup {r}
  <2>1. r \in Members(t) /\ Members(s) \subseteq Members(t)
    BY <1>1, <1>2 DEF Members
  <2>2. ASSUME NEW m \in 1..Len(t) PROVE t[m] \in Members(s) \cup {r}
    <3>1. m \in 1..Len(s) \/ m = Len(s) + 1
      BY <1>1, <1>2
    <3> QED
      BY <1>2, <3>1 DEF Members
  <2> QED
    BY <2>1, <2>2 DEF Members
<1>6. Members(t) \cup Q = Members(s) \cup R /\ Members(t) \cap Q = {}
  <2>1. Members(s) \cap R = {}
    BY <1>1 DEF Members
  <2> QED
    BY <1>5, <2>1
<1>7. \A m, l \in 1..Len(t) : t[m] = t[l] => m = l
  <2> SUFFICES ASSUME NEW m \in 1..Len(t), NEW l \in 1..Len(t), t[m] = t[l] PROVE m = l
    OBVIOUS
  <2>1. (m \in 1..Len(s) \/ m = Len(s) + 1) /\ (l \in 1..Len(s) \/ l = Len(s) + 1)
    BY <1>1, <1>2
  <2> QED
    BY <1>1, <1>2, <2>1
<1>8. /\ child' = [child EXCEPT ![p] = IF t = <<>> THEN Null ELSE t[1]]
      /\ next' = [j \in Items |-> next'[j]] /\ prev' = [j \in Items |-> prev'[j]]
      /\ Joined(t, next', prev')
      /\ \A j \in Q : next'[j] = Null /\ prev'[j] = Null
      /\ \A j \in Items \ (Members(t) \cup Q) : next'[j] = next[j] /\ prev'[j] = prev[j]
  <2>1. CASE Len(s) = 0
    <3>1. /\ child' = [child EXCEPT ![p] = r]
          /\ next' = [next EXCEPT ![r] = Null]
          /\ prev' = [prev EXCEPT ![r] = r]
      BY <1>1, <2>1 DEF LinkLast
    <3>2. Len(t) = 1 /\ t[1] = r
      BY <1>2, <2>1
    <3>3. next'[r] = Null /\ prev'[r] = r
      BY <1>1, <3>1
    <3>4. Joined(t, next', prev')
      BY <3>2, <3>3 DEF Joined
    <3>5. \A j \in Items \ {r} : next'[j] = next[j] /\ prev'[j] = prev[j]
      BY <1>1, <3>1
    <3>6. next' = [j \in Items |-> next'[j]] /\ prev' = [j \in Items |-> prev'[j]]
      BY <1>1, <3>1
    <3> QED
      BY <1>1, <1>2, <1>3, <1>5, <3>1, <3>2, <3>4, <3>5, <3>6
  <2>2. CASE Len(s) > 0
    <3> DEFINE z == Len(s)
    <3>1. 1 \in 1..z /\ z \in 1..z /\ z \in Nat
      BY <1>1, <2>2
    <3>2. child[p] = s[1] /\ child[p] # Null
      BY <1>1, <2>2, <3>1
    <3>3. prev[child[p]] = s[z] /\ s[z] # Null
      BY <1>1, <3>1, <3>2 DEF Joined
    <3>4. /\ child' = child
          /\ next' = [next EXCEPT ![s[z]] = r]
          /\ prev' = [prev EXCEPT ![r] = s[z], ![s[1]] = r]
      BY <3>2, <3>3 DEF LinkLast
    <3>5. \A j \in Items : next'[j] = IF j = s[z] THEN r ELSE next[j]
      BY <1>1, <3>4
    <3>6. \A j \in Items : prev'[j] = IF j = s[1] THEN r ELSE IF j = r THEN s[z] ELSE prev[j]
      BY <1>1, <3>4
    <3>7. next' = [j \in Items |-> next'[j]] /\ prev' = [j \in Items |-> prev'[j]]
      BY <1>1, <3>4
    <3>8. \A m \in 1..z : s[m] # r
      BY <1>1
    <3>9. child' = [child EXCEPT ![p] = IF t = <<>> THEN Null ELSE t[1]]
      BY <1>1, <1>2, <3>1, <3>2, <3>4
    <3>10. Joined(t, next', prev')
      <4> SUFFICES ASSUME NEW m \in 1..(z + 1)
                   PROVE  /\ next'[t[m]] = IF m < z + 1 THEN t[m + 1] ELSE Null
                          /\ prev'[t[m]] = t[IF m = 1 THEN z + 1 ELSE m - 1]
        BY <1>2 DEF Joined
      <4>1. CASE m < z + 1
        <5>1. m \in 1..z /\ t[m] = s[m] /\ s[m] \in Items
          BY <1>1, <1>2, <3>1, <4>1
        <5>2. next'[s[m]] = IF m < z THEN s[m + 1] ELSE r
          BY <1>1, <3>1, <3>5, <5>1 DEF Joined
        <5>3. m < z => m + 1 \in 1..z /\ t[m + 1] = s[m + 1]
          BY <1>2, <3>1, <5>1
        <5>4. m >= z => m + 1 = z + 1
          BY <3>1, <5>1
        <5>5. next'[t[m]] = t[m + 1]
          BY <1>2, <3>1, <5>1, <5>2, <5>3, <5>4
        <5>6. CASE m = 1
          BY <1>2, <3>6, <5>1, <5>6, <4>1, <5>5
        <5>7. CASE m # 1
          <6>1. m - 1 \in 1..z /\ t[m - 1] = s[m - 1]
            BY <1>2, <3>1, <5>1, <5>7
          <6>2. prev'[s[m]] = prev[s[m]]
            BY <1>1, <3>1, <3>6, <3>8, <5>1, <5>7
          <6>3. prev[s[m]] = s[m - 1]
            BY <1>1, <5>1, <5>7 DEF Joined
          <6> QED
            BY <4>1, <5>1, <5>5, <5>7, <6>1, <6>2, <6>3
        <5> QED
          BY <5>6, <5>7
      <4>2. CASE m >= z + 1
        <5>1. m = z + 1 /\ m # 1 /\ ~ (m < z + 1) /\ m - 1 = z
          BY <3>1, <4>2
        <5>2. t[m] = r /\ r \in Items /\ t[z] = s[z]
          BY <1>1, <1>2, <3>1, <5>1
        <5>3. next'[r] = Null
          BY <1>3, <3>1, <3>5, <3>8, <5>2
        <5>4. prev'[r] = s[z]
          BY <3>1, <3>6, <3>8, <5>2
        <5> QED
          BY <5>1, <5>2, <5>3, <5>4
      <4> QED
        BY <3>1, <4>1, <4>2
    <3>11. s[1] \in Members(s) /\ s[z] \in Members(s) /\ Members(s) \cap R = {}
      BY <1>1, <3>1 DEF Members
    <3>12. \A j \in Items \ (Members(s) \cup {r}) : next'[j] = next[j] /\ prev'[j] = prev[j]
      BY <3>5, <3>6, <3>11
    <3> QED
      BY <1>1, <1>3, <1>5, <3>7, <3>9, <3>10, <3>11, <3>12
  <2> QED
    BY <1>1, <2>1, <2>2
<1>9. ListChange(child, next, prev, R, kids[p], p, t, child', next', prev', Q)
  BY <1>6, <1>7, <1>8 DEF ListChange, s
<1>10. Heap(L, child', next', prev', Q, [kids EXCEPT ![p] = t])
  BY <1>2, <1>9, OneListChanges
<1> QED
  BY <1>4, <1>10

\* A new item is in no list and clear.
LEMMA CreateHeap ==
  ASSUME HeapOK, NEW i \in Items \ live
  PROVE  Heap(live \cup {i}, child, next, prev, roots \cup {i}, kids)
<1> DEFINE L == live \cup {i}
           R == roots \cup {i}
<1>1. /\ Null \notin live /\ live \subseteq Items /\ roots \subseteq live
      /\ \A a \in live : kids[a] \in Seq(live)
      /\ \A a \in live : \A k \in 1..Len(kids[a]) : kids[a][k] \in live
  BY HeapFacts DEF HeapOK, Heap, Typed
<1>2. child[i] = Null /\ next[i] = Null /\ prev[i] = Null /\ kids[i] = <<>>
  BY DEF HeapOK, Heap, Clear
<1>3. \A k \in 1..Len(kids[i]) : FALSE
  BY <1>2
<1>4. Typed(L, child, next, prev, R, kids)
  <2>1. kids \in [Items -> Seq(L)]
    <3>1. \A a \in Items : kids[a] \in Seq(L)
      <4> TAKE a \in Items
      <4>1. kids[a] \in Seq(live)
        BY DEF HeapOK, Heap, Typed
      <4> QED
        BY <4>1, ElementOfSeq, SeqOfElements
    <3> QED
      BY <3>1 DEF HeapOK, Heap, Typed
  <2> QED
    BY <2>1 DEF HeapOK, Heap, Typed
<1>5. Linked(L, child, next, prev, kids)
  BY <1>2, <1>3 DEF HeapOK, Heap, Linked, Joined
<1>6. Alone(L, next, prev, R, kids)
  BY <1>1, <1>2, <1>3 DEF HeapOK, Heap, Alone
<1>7. Unique(L, kids)
  BY <1>3 DEF HeapOK, Heap, Unique
<1>8. Owned(L, R, kids)
  BY DEF HeapOK, Heap, Owned
<1>9. Clear(L, child, next, prev, kids)
  BY DEF HeapOK, Heap, Clear
<1> QED
  BY <1>4, <1>5, <1>6, <1>7, <1>8, <1>9 DEF Heap

\* Inserting an item that the caller holds before a child.
LEMMA InsertHeap ==
  ASSUME HeapOK, NEW p \in live, NEW k \in 1..Len(kids[p]), NEW r \in roots,
         NEW after, after = kids[p][k],
         prev' = [prev EXCEPT ![r] = prev[after], ![after] = r],
         IF after = child[p]
         THEN /\ child' = [child EXCEPT ![p] = r]
              /\ next' = [next EXCEPT ![r] = after]
         ELSE /\ next' = [next EXCEPT ![r] = after, ![prev[after]] = r]
              /\ UNCHANGED child
  PROVE  Heap(live, child', next', prev', roots \ {r},
              [kids EXCEPT ![p] = InsertAt(kids[p], k, r)])
<1> DEFINE s == kids[p]
           t == InsertAt(s, k, r)
           z == Len(s)
           Q == roots \ {r}
<1>1. /\ s \in Seq(live) /\ z \in Nat
      /\ Null \notin live /\ live \subseteq Items /\ roots \subseteq live
      /\ \A m \in 1..z : s[m] \in live /\ s[m] \notin roots
      /\ \A m, l \in 1..z : s[m] = s[l] => m = l
      /\ Joined(s, next, prev)
      /\ child[p] = IF z = 0 THEN Null ELSE s[1]
      /\ child \in [Items -> live \cup {Null}]
      /\ next \in [Items -> live \cup {Null}]
      /\ prev \in [Items -> live \cup {Null}]
  BY ListFacts DEF HeapOK
<1>2. /\ t \in Seq(live) /\ Len(t) = z + 1
      /\ \A m \in 1..(z + 1) : t[m] = IF m < k THEN s[m] ELSE IF m = k THEN r ELSE s[m - 1]
  <2>1. r \in live /\ k \in 1..Len(s)
    BY <1>1
  <2> HIDE DEF s
  <2> QED
    BY <1>1, <2>1, InsertAtElements
<1> HIDE DEF s, t
<1>3. /\ k \in 1..z /\ after = s[k]
      /\ child[p] = s[1] /\ 1 \in 1..z /\ z \in 1..z
      /\ after = child[p] <=> k = 1
      /\ k # 1 => k - 1 \in 1..z
  BY <1>1 DEF s
<1>4. k \in Nat /\ z \in Nat /\ 1 <= k /\ k <= z
  BY <1>1, <1>3
<1>5. prev[after] = s[IF k = 1 THEN z ELSE k - 1]
  BY <1>1, <1>3 DEF Joined
<1>6. \A m \in 1..z : s[m] # r
  BY <1>1
<1>7. next[r] = Null /\ \A j \in roots : next[j] = Null /\ prev[j] = Null
  BY DEF HeapOK, Heap, Alone
<1>8. \A j \in Items : next'[j] = IF k # 1 /\ j = s[k - 1] THEN r
                                  ELSE IF j = r THEN after ELSE next[j]
  BY <1>1, <1>3, <1>5, <1>6
<1>9. \A j \in Items : prev'[j] = IF j = after THEN r
                                  ELSE IF j = r THEN s[IF k = 1 THEN z ELSE k - 1] ELSE prev[j]
  BY <1>1, <1>3, <1>5, <1>6
<1>10. next' = [j \in Items |-> next'[j]] /\ prev' = [j \in Items |-> prev'[j]]
  BY <1>1
<1>11. Members(t) = Members(s) \cup {r}
  <2>1. r \in Members(t)
    BY <1>2, <1>4 DEF Members
  <2>2. ASSUME NEW m \in 1..z PROVE s[m] \in Members(t)
    <3>1. CASE m < k
      BY <1>2, <1>4, <3>1 DEF Members
    <3>2. CASE m >= k
      <4>1. m + 1 \in 1..(z + 1) /\ ~ (m + 1 < k) /\ m + 1 # k /\ (m + 1) - 1 = m
        BY <1>4, <3>2
      <4>2. t[m + 1] = s[m]
        BY <1>2, <4>1
      <4> QED
        BY <1>2, <4>1, <4>2 DEF Members
    <3> QED
      BY <1>4, <3>1, <3>2
  <2>3. ASSUME NEW m \in 1..(z + 1) PROVE t[m] \in Members(s) \cup {r}
    <3>1. m < k => m \in 1..z
      BY <1>4
    <3>2. m > k => m - 1 \in 1..z
      BY <1>4
    <3> QED
      BY <1>2, <1>4, <3>1, <3>2 DEF Members
  <2> QED
    BY <1>2, <2>1, <2>2, <2>3, SMTT(30) DEF Members
<1>12. Members(t) \cup Q = Members(s) \cup roots /\ Members(t) \cap Q = {}
  <2>1. Members(s) \cap roots = {}
    BY <1>1 DEF Members
  <2> QED
    BY <1>11, <2>1
<1>13. \A m, l \in 1..Len(t) : t[m] = t[l] => m = l
  <2> SUFFICES ASSUME NEW m \in 1..(z + 1), NEW l \in 1..(z + 1), t[m] = t[l] PROVE m = l
    BY <1>2
  <2>1. (m < k => m \in 1..z) /\ (m > k => m - 1 \in 1..z)
    BY <1>4
  <2>2. (l < k => l \in 1..z) /\ (l > k => l - 1 \in 1..z)
    BY <1>4
  <2> DEFINE fm == IF m < k THEN m ELSE m - 1
             fl == IF l < k THEN l ELSE l - 1
  <2>3. m # k => fm \in 1..z /\ t[m] = s[fm]
    BY <1>2, <1>4, <2>1
  <2>4. l # k => fl \in 1..z /\ t[l] = s[fl]
    BY <1>2, <1>4, <2>2
  <2>5. (m = k => t[m] = r) /\ (l = k => t[l] = r)
    BY <1>2, <1>4
  <2>6. m = k <=> l = k
    BY <1>6, <2>3, <2>4, <2>5
  <2>7. m # k => fm = fl
    BY <1>1, <2>3, <2>4, <2>6
  <2> QED
    BY <1>4, <2>6, <2>7
<1>14. child' = [child EXCEPT ![p] = IF t = <<>> THEN Null ELSE t[1]]
  <2>1. t # <<>>
    BY <1>2, <1>4
  <2>2. CASE k = 1
    <3>1. 1 \in 1..(z + 1) /\ t[1] = r
      BY <1>2, <1>4, <2>2
    <3> QED
      BY <1>3, <2>1, <2>2, <3>1
  <2>3. CASE k # 1
    <3>1. t[1] = child[p] /\ child' = child
      <4>1. 1 \in 1..(z + 1) /\ 1 < k
        BY <1>4, <2>3
      <4>2. t[1] = s[1]
        BY <1>2, <4>1
      <4> QED
        BY <1>3, <2>3, <4>2
    <3> QED
      BY <1>1, <2>1, <3>1
  <2> QED
    BY <2>2, <2>3
<1>15. Joined(t, next', prev')
  <2> SUFFICES ASSUME NEW m \in 1..(z + 1)
               PROVE  /\ next'[t[m]] = IF m < z + 1 THEN t[m + 1] ELSE Null
                      /\ prev'[t[m]] = t[IF m = 1 THEN z + 1 ELSE m - 1]
    BY <1>2 DEF Joined
  <2>1. CASE m < k
    <3>1. m \in 1..z /\ m < z + 1 /\ m + 1 \in 1..(z + 1)
      BY <1>4, <2>1
    <3>2. t[m] = s[m] /\ s[m] \in Items /\ s[m] # r /\ s[m] # after
      BY <1>1, <1>2, <1>3, <1>6, <2>1, <3>1
    <3>3. next'[s[m]] = t[m + 1]
      <4>1. CASE m = k - 1
        BY <1>2, <1>4, <1>8, <2>1, <3>1, <3>2, <4>1
      <4>2. CASE m # k - 1
        <5>1. m + 1 < k /\ m + 1 \in 1..z /\ m < z
          BY <1>4, <2>1, <4>2
        <5>2. next[s[m]] = s[m + 1] /\ t[m + 1] = s[m + 1]
          BY <1>1, <1>2, <3>1, <5>1 DEF Joined
        <5>3. k # 1 => s[m] # s[k - 1]
          BY <1>1, <1>3, <3>1, <4>2
        <5> QED
          BY <1>8, <3>2, <5>2, <5>3
      <4> QED
        BY <4>1, <4>2
    <3>4. prev'[s[m]] = s[IF m = 1 THEN z ELSE m - 1]
      BY <1>1, <1>9, <3>1, <3>2 DEF Joined
    <3>5. m = 1 => t[z + 1] = s[z]
      BY <1>2, <1>4, <2>1
    <3>6. m # 1 => t[m - 1] = s[m - 1]
      BY <1>2, <1>4, <2>1, <3>1
    <3> QED
      BY <3>1, <3>2, <3>3, <3>4, <3>5, <3>6
  <2>2. CASE m = k
    <3>1. /\ t[m] = r /\ r \in Items /\ m < z + 1
          /\ m + 1 \in 1..(z + 1) /\ ~ (m + 1 < k) /\ m + 1 # k /\ (m + 1) - 1 = k
      BY <1>1, <1>2, <1>4, <2>2
    <3>2. t[m + 1] = after
      BY <1>2, <1>3, <3>1
    <3>3. next'[r] = after
      BY <1>3, <1>6, <1>8, <3>1
    <3>4. prev'[r] = s[IF k = 1 THEN z ELSE k - 1]
      BY <1>3, <1>6, <1>9, <3>1, ZenonT(40)
    <3>5. k = 1 => t[z + 1] = s[z]
      BY <1>2, <1>4
    <3>6. k # 1 => t[k - 1] = s[k - 1]
      BY <1>2, <1>4
    <3> QED
      BY <2>2, <3>1, <3>2, <3>3, <3>4, <3>5, <3>6
  <2>3. CASE m > k
    <3>1. /\ m - 1 \in 1..z /\ t[m] = s[m - 1] /\ m # 1
          /\ m < z + 1 <=> m - 1 < z
      BY <1>2, <1>4, <2>3
    <3>2. s[m - 1] \in Items /\ s[m - 1] # r /\ (k # 1 => s[m - 1] # s[k - 1])
      BY <1>1, <1>3, <1>4, <1>6, <2>3, <3>1
    <3>3. next'[s[m - 1]] = next[s[m - 1]]
      BY <1>8, <3>2
    <3>4. next[s[m - 1]] = IF m < z + 1 THEN s[m] ELSE Null
      <4>1. next[s[m - 1]] = IF m - 1 < z THEN s[(m - 1) + 1] ELSE Null
        BY <1>1, <3>1 DEF Joined
      <4> QED
        BY <1>4, <3>1, <4>1
    <3>5. m < z + 1 => t[m + 1] = s[m]
      <4>1. m < z + 1 => /\ m + 1 \in 1..(z + 1)
                         /\ ~ (m + 1 < k) /\ m + 1 # k /\ (m + 1) - 1 = m
        BY <1>4, <2>3
      <4> QED
        BY <1>2, <4>1
    <3>6. prev'[s[m - 1]] = t[m - 1]
      <4>1. CASE m = k + 1
        <5>1. m - 1 = k /\ k \in 1..(z + 1) /\ ~ (k < k)
          BY <1>4, <4>1
        <5>2. t[m - 1] = r
          BY <1>2, <5>1
        <5> QED
          BY <1>3, <1>9, <3>2, <5>1, <5>2
      <4>2. CASE m # k + 1
        <5>1. /\ m - 1 # 1 /\ m - 1 # k /\ m - 1 \in 1..(z + 1) /\ ~ (m - 1 < k)
              /\ (m - 1) - 1 \in 1..z
          BY <1>4, <2>3, <3>1, <4>2
        <5>2. s[m - 1] # after
          BY <1>1, <1>3, <3>1, <5>1
        <5>3. prev[s[m - 1]] = s[(m - 1) - 1]
          BY <1>1, <3>1, <5>1 DEF Joined
        <5>4. t[m - 1] = s[(m - 1) - 1]
          BY <1>2, <5>1
        <5> QED
          BY <1>9, <3>2, <5>2, <5>3, <5>4
      <4> QED
        BY <4>1, <4>2
    <3> QED
      BY <3>1, <3>3, <3>4, <3>5, <3>6
  <2> QED
    BY <1>4, <2>1, <2>2, <2>3
<1>16. \A j \in Q : next'[j] = Null /\ prev'[j] = Null
  BY <1>1, <1>3, <1>7, <1>8, <1>9
<1>17. \A j \in Items \ (Members(t) \cup Q) : next'[j] = next[j] /\ prev'[j] = prev[j]
  <2> SUFFICES ASSUME NEW j \in Items, j \notin Members(s) \cup {r}
               PROVE  next'[j] = next[j] /\ prev'[j] = prev[j]
    BY <1>11
  <2>1. \A m \in 1..z : j # s[m]
    BY DEF Members
  <2> QED
    BY <1>3, <1>8, <1>9, <2>1
<1>18. ListChange(child, next, prev, roots, kids[p], p, t, child', next', prev', Q)
  BY <1>10, <1>12, <1>13, <1>14, <1>15, <1>16, <1>17 DEF ListChange, s
<1>19. Heap(live, child', next', prev', Q, [kids EXCEPT ![p] = t])
  BY <1>2, <1>18, OneListChanges DEF HeapOK
<1> QED
  BY <1>19 DEF t, s

\* The tree of an item holds whole lists, and each of its items but the top
\* one is in one of these lists.
LEMMA TreeFacts ==
  ASSUME HeapOK, NEW depth \in [Items -> Nat],
         \A a \in live : \A k \in 1..Len(kids[a]) : depth[kids[a][k]] = depth[a] + 1,
         NEW i \in live
  PROVE  /\ i \in Tree(i) /\ Tree(i) \subseteq live
         /\ \A j \in Tree(i) : child[j] \in Tree(i) \cup {Null}
         /\ \A a \in Tree(i) : \A k \in 1..Len(kids[a]) : kids[a][k] \in Tree(i) \ {i}
         /\ \A j \in Tree(i) \ {i} : \E a \in Tree(i) : \E k \in 1..Len(kids[a]) : kids[a][k] = j
         /\ \A j \in Tree(i) : depth[j] >= depth[i]
<1> DEFINE nx == [next EXCEPT ![i] = Null]
           F == Freed(i, child, nx)
           D == {j \in live : j = i \/ depth[j] > depth[i]}
           S == {j \in F : j = i \/ \E a \in F : \E k \in 1..Len(kids[a]) : kids[a][k] = j}
<1>1. /\ Null \notin live /\ live \subseteq Items /\ roots \subseteq live
      /\ \A a \in live : kids[a] \in Seq(live) /\ Len(kids[a]) \in Nat
      /\ \A a \in live : \A k \in 1..Len(kids[a]) : kids[a][k] \in live
      /\ \A a \in live : kids[a] = <<>> <=> Len(kids[a]) = 0
      /\ child \in [Items -> live \cup {Null}]
      /\ next \in [Items -> live \cup {Null}]
  <2>1. Heap(live, child, next, prev, roots, kids)
    BY DEF HeapOK
  <2>2. /\ Null \notin live
        /\ \A a \in live : kids[a] \in Seq(live) /\ Len(kids[a]) \in Nat
        /\ \A a \in live : \A k \in 1..Len(kids[a]) : kids[a][k] \in live
        /\ \A a \in live : kids[a] = <<>> <=> Len(kids[a]) = 0
    BY <2>1, HeapFacts
  <2>3. /\ live \subseteq Items /\ roots \subseteq live
        /\ child \in [Items -> live \cup {Null}]
        /\ next \in [Items -> live \cup {Null}]
    BY <2>1 DEF Heap, Typed
  <2> QED
    BY <2>2, <2>3
<1>2. nx[i] = Null /\ \A j \in live \ {i} : nx[j] = next[j]
  BY <1>1
<1>3. \A j \in live : {child[j], nx[j]} \ {Null} \subseteq live
  BY <1>1, <1>2
<1> HIDE DEF nx
<1>4. i \in F /\ F \subseteq live /\ \A j \in F : {child[j], nx[j]} \ {Null} \subseteq F
  <2>1. i \in F /\ F \subseteq live
    BY DEF Freed
  <2>2. ASSUME NEW j \in F, NEW t \in {child[j], nx[j]} \ {Null} PROVE t \in F
    <3>1. t \in live
      BY <1>3, <2>1
    <3>2. ASSUME NEW U \in SUBSET live, i \in U,
                 \A k \in U : {child[k], nx[k]} \ {Null} \subseteq U
          PROVE  t \in U
      <4>1. j \in U
        BY <3>2 DEF Freed
      <4> QED
        BY <3>2, <4>1
    <3> QED
      BY <3>1, <3>2 DEF Freed
  <2> QED
    BY <2>1, <2>2
<1>5. \A U \in SUBSET live :
        i \in U /\ (\A j \in U : {child[j], nx[j]} \ {Null} \subseteq U) => F \subseteq U
  BY DEF Freed
<1> HIDE DEF F
<1>6. \A j \in live : child[j] # Null => 1 \in 1..Len(kids[j]) /\ child[j] = kids[j][1]
  <2> TAKE j \in live
  <2>1. child[j] # Null => kids[j] # <<>> /\ child[j] = kids[j][1]
    BY DEF HeapOK, Heap, Linked
  <2> QED
    BY <1>1, <2>1
<1>7. \A a \in live : \A k \in 1..Len(kids[a]) :
        next[kids[a][k]] # Null =>
          k + 1 \in 1..Len(kids[a]) /\ next[kids[a][k]] = kids[a][k + 1]
  <2> TAKE a \in live
  <2> TAKE k \in 1..Len(kids[a])
  <2>1. next[kids[a][k]] = IF k < Len(kids[a]) THEN kids[a][k + 1] ELSE Null
    BY DEF HeapOK, Heap, Linked, Joined
  <2>2. k < Len(kids[a]) => k + 1 \in 1..Len(kids[a])
    BY <1>1
  <2> QED
    BY <2>1, <2>2
<1>8. \A j \in live : next[j] # Null => \E a \in live : \E k \in 1..Len(kids[a]) : kids[a][k] = j
  BY DEF HeapOK, Heap, Alone, Owned
<1>9. F \subseteq D
  <2>1. i \in D /\ D \subseteq live
    OBVIOUS
  <2>2. ASSUME NEW j \in D PROVE {child[j], nx[j]} \ {Null} \subseteq D
    <3>1. depth[j] \in Nat /\ depth[i] \in Nat /\ depth[j] >= depth[i] /\ j \in live
      BY <1>1
    <3>2. child[j] # Null => child[j] \in D
      <4>1. child[j] # Null => child[j] \in live /\ depth[child[j]] = depth[j] + 1
        <5> SUFFICES ASSUME child[j] # Null
                     PROVE  child[j] \in live /\ depth[child[j]] = depth[j] + 1
          OBVIOUS
        <5>1. 1 \in 1..Len(kids[j]) /\ child[j] = kids[j][1]
          BY <1>6, <3>1
        <5>2. kids[j][1] \in live
          BY <1>1, <3>1, <5>1
        <5>3. depth[kids[j][1]] = depth[j] + 1
          BY <3>1, <5>1
        <5> QED
          BY <5>1, <5>2, <5>3
      <4> QED
        BY <3>1, <4>1
    <3>3. nx[j] # Null => nx[j] \in D
      <4> SUFFICES ASSUME nx[j] # Null PROVE nx[j] \in D
        OBVIOUS
      <4>1. j # i /\ nx[j] = next[j] /\ next[j] # Null
        BY <1>2, <3>1
      <4>2. PICK a \in live : \E k \in 1..Len(kids[a]) : kids[a][k] = j
        BY <1>8, <3>1, <4>1
      <4>3. PICK k \in 1..Len(kids[a]) : kids[a][k] = j
        BY <4>2
      <4>4. k + 1 \in 1..Len(kids[a]) /\ next[j] = kids[a][k + 1]
        BY <1>7, <4>1, <4>3
      <4>5. depth[next[j]] = depth[j] /\ next[j] \in live
        BY <1>1, <4>3, <4>4
      <4> QED
        BY <4>1, <4>5
    <3> QED
      BY <3>2, <3>3
  <2> HIDE DEF D
  <2> QED
    BY <1>5, <2>1, <2>2
<1>10. \A j \in F : depth[j] >= depth[i]
  <2> TAKE j \in F
  <2>1. depth[j] \in Nat /\ depth[i] \in Nat /\ j \in D
    BY <1>1, <1>4, <1>9
  <2> QED
    BY <2>1
<1>11. \A a \in F : \A k \in 1..Len(kids[a]) : kids[a][k] # i
  <2> TAKE a \in F
  <2> TAKE k \in 1..Len(kids[a])
  <2>1. depth[kids[a][k]] = depth[a] + 1 /\ depth[a] \in Nat /\ depth[i] \in Nat
    BY <1>1, <1>4
  <2> QED
    BY <1>10, <2>1
<1>12. \A a \in F : \A k \in 1..Len(kids[a]) : kids[a][k] \in F
  <2> TAKE a \in F
  <2>1. kids[a] \in Seq(live) /\ Joined(kids[a], next, prev)
    BY <1>1, <1>4 DEF HeapOK, Heap, Linked
  <2>2. Joined(kids[a], nx, prev)
    <3>1. \A k \in 1..Len(kids[a]) : kids[a][k] \in live \ {i}
      BY <1>1, <1>4, <1>11
    <3>2. \A k \in 1..Len(kids[a]) : nx[kids[a][k]] = next[kids[a][k]]
      BY <1>2, <3>1
    <3> QED
      BY <2>1, <3>2 DEF Joined
  <2>3. kids[a] # <<>> => kids[a][1] \in F
    <3>1. ASSUME kids[a] # <<>> PROVE kids[a][1] \in F
      <4>1. Len(kids[a]) # 0 /\ Len(kids[a]) \in Nat
        BY <1>1, <1>4, <3>1
      <4>2. child[a] = kids[a][1] /\ kids[a][1] \in live
        BY <1>4, <2>1, <3>1, <4>1, ElementOfSeq DEF HeapOK, Heap, Linked
      <4> QED
        BY <1>1, <1>4, <4>2
    <3> QED
      BY <3>1
  <2>4. \A j \in F : nx[j] \in F \cup {Null}
    BY <1>4
  <2> QED
    BY <1>1, <2>1, <2>2, <2>3, <2>4, ListInside
<1>13. F \subseteq S
  <2>1. i \in S /\ S \subseteq live
    BY <1>4
  <2>2. ASSUME NEW j \in S PROVE {child[j], nx[j]} \ {Null} \subseteq S
    <3>1. j \in F /\ j \in live /\ {child[j], nx[j]} \ {Null} \subseteq F
      BY <1>4
    <3>2. child[j] # Null => child[j] \in S
      BY <1>6, <3>1
    <3>3. nx[j] # Null => nx[j] \in S
      <4> SUFFICES ASSUME nx[j] # Null PROVE nx[j] \in S
        OBVIOUS
      <4>1. j # i /\ nx[j] = next[j] /\ next[j] # Null
        BY <1>2, <3>1
      <4>2. PICK a \in F : \E k \in 1..Len(kids[a]) : kids[a][k] = j
        BY <4>1
      <4>3. PICK k \in 1..Len(kids[a]) : kids[a][k] = j
        BY <4>2
      <4>4. k + 1 \in 1..Len(kids[a]) /\ next[j] = kids[a][k + 1]
        BY <1>4, <1>7, <4>1, <4>3
      <4> QED
        BY <3>1, <4>1, <4>4
    <3> QED
      BY <3>2, <3>3
  <2> HIDE DEF S
  <2> QED
    BY <1>5, <2>1, <2>2
<1>14. \A j \in F : child[j] \in F \cup {Null}
  BY <1>4
<1>15. Tree(i) = F
  BY DEF Tree, F, nx
<1> QED
  BY <1>4, <1>10, <1>11, <1>12, <1>13, <1>14, <1>15

\* A list that loses items leaves the depths of the others as they are.
LEMMA FewerLayered ==
  ASSUME HeapOK, Layered(live, kids), NEW p \in live, NEW t,
         \A m \in 1..Len(t) : t[m] \in Members(kids[p])
  PROVE  Layered(live, [kids EXCEPT ![p] = t])
<1> DEFINE us == [kids EXCEPT ![p] = t]
<1>1. PICK depth \in [Items -> Nat] :
        \A a \in live : \A k \in 1..Len(kids[a]) : depth[kids[a][k]] = depth[a] + 1
  BY DEF Layered
<1>2. us[p] = t /\ \A a \in live \ {p} : us[a] = kids[a]
  BY DEF HeapOK, Heap, Typed
<1> HIDE DEF us
<1>3. \A m \in 1..Len(t) : depth[t[m]] = depth[p] + 1
  <2> TAKE m \in 1..Len(t)
  <2>1. PICK k \in 1..Len(kids[p]) : kids[p][k] = t[m]
    BY DEF Members
  <2> QED
    BY <1>1, <2>1
<1>4. \A a \in live : \A k \in 1..Len(us[a]) : depth[us[a][k]] = depth[a] + 1
  BY <1>1, <1>2, <1>3
<1>5. Layered(live, us)
  BY <1>1, <1>4 DEF Layered
<1> QED
  BY <1>5 DEF us

\* An item moves to a list that is not below it: its tree moves with it, and
\* all its depths by the same distance.
LEMMA MovedLayered ==
  ASSUME HeapOK, Layered(live, kids), NEW r \in roots, NEW p \in live \ Tree(r), NEW t,
         \A m \in 1..Len(t) : t[m] \in Members(kids[p]) \cup {r}
  PROVE  Layered(live, [kids EXCEPT ![p] = t])
<1> DEFINE us == [kids EXCEPT ![p] = t]
           T == Tree(r)
<1>1. PICK depth \in [Items -> Nat] :
        \A a \in live : \A k \in 1..Len(kids[a]) : depth[kids[a][k]] = depth[a] + 1
  BY DEF Layered
<1>2. us[p] = t /\ \A a \in live \ {p} : us[a] = kids[a]
  BY DEF HeapOK, Heap, Typed
<1>3. r \in live /\ live \subseteq Items
  BY DEF HeapOK, Heap, Typed
<1>4. /\ r \in T /\ T \subseteq live
      /\ \A a \in T : \A k \in 1..Len(kids[a]) : kids[a][k] \in T
      /\ \A j \in T \ {r} : \E a \in T : \E k \in 1..Len(kids[a]) : kids[a][k] = j
      /\ \A j \in T : depth[j] >= depth[r]
  BY <1>1, <1>3, TreeFacts
<1> HIDE DEF us, T
<1>5. \A a \in live \ T : \A k \in 1..Len(kids[a]) : kids[a][k] \notin T
  <2> SUFFICES ASSUME NEW a \in live \ T, NEW k \in 1..Len(kids[a]), kids[a][k] \in T
               PROVE  FALSE
    OBVIOUS
  <2>1. kids[a][k] # r
    BY DEF HeapOK, Heap, Alone
  <2>2. PICK b \in T : \E l \in 1..Len(kids[b]) : kids[b][l] = kids[a][k]
    BY <1>4, <2>1
  <2>3. a = b
    BY <1>4, <2>2 DEF HeapOK, Heap, Unique
  <2> QED
    BY <2>3
<1> DEFINE moved == [j \in Items |-> IF j \in T THEN (depth[j] - depth[r]) + (depth[p] + 1)
                                     ELSE depth[j]]
<1>6. moved \in [Items -> Nat]
  <2>1. \A j \in Items : depth[j] \in Nat
    OBVIOUS
  <2>2. \A j \in T : (depth[j] - depth[r]) + (depth[p] + 1) \in Nat
    BY <1>3, <1>4, <2>1
  <2> QED
    BY <2>1, <2>2
<1>7. ASSUME NEW a \in live, NEW k \in 1..Len(us[a])
      PROVE  moved[us[a][k]] = moved[a] + 1
  <2>1. depth[r] \in Nat /\ depth[p] \in Nat /\ depth[a] \in Nat
    BY <1>3
  <2>2. CASE a = p
    <3>1. us[a][k] \in Members(kids[p]) \cup {r}
      BY <1>2, <1>7, <2>2
    <3>2. moved[p] = depth[p] /\ moved[r] = depth[p] + 1
      BY <1>3, <1>4, <2>1 DEF T
    <3>3. CASE us[a][k] # r
      <4>1. PICK l \in 1..Len(kids[p]) : kids[p][l] = us[a][k]
        BY <3>1, <3>3 DEF Members
      <4>2. us[a][k] \notin T /\ us[a][k] \in Items
        <5>1. p \in live \ T
          BY DEF T
        <5>2. us[a][k] \notin T
          BY <1>5, <4>1, <5>1
        <5>3. kids[p][l] \in live
          BY <4>1, HeapFacts DEF HeapOK
        <5> QED
          BY <1>3, <4>1, <5>2, <5>3
      <4>3. depth[us[a][k]] = depth[p] + 1
        BY <1>1, <4>1
      <4> QED
        BY <2>2, <3>2, <4>2, <4>3
    <3> QED
      BY <2>2, <3>2, <3>3
  <2>3. CASE a # p
    <3>1. us[a] = kids[a] /\ us[a][k] = kids[a][k] /\ k \in 1..Len(kids[a])
      BY <1>2, <2>3
    <3>2. kids[a][k] \in live
      BY <3>1, HeapFacts DEF HeapOK
    <3>3. depth[kids[a][k]] = depth[a] + 1
      BY <1>1, <3>1
    <3>4. a \in T <=> kids[a][k] \in T
      BY <1>4, <1>5, <3>1
    <3>5. CASE a \in T
      <4>1. /\ moved[a] = (depth[a] - depth[r]) + (depth[p] + 1)
            /\ moved[kids[a][k]] = ((depth[a] + 1) - depth[r]) + (depth[p] + 1)
        BY <1>3, <3>2, <3>3, <3>4, <3>5
      <4>2. /\ depth[a] >= depth[r]
            /\ \A x, y, z \in Nat : x >= y =>
                 ((x + 1) - y) + (z + 1) = ((x - y) + (z + 1)) + 1
        BY <1>4, <3>5
      <4> HIDE DEF moved
      <4> QED
        BY <2>1, <3>1, <4>1, <4>2, SMTT(30)
    <3>6. CASE a \notin T
      BY <1>3, <3>1, <3>2, <3>3, <3>4, <3>6
    <3> QED
      BY <3>5, <3>6
  <2> QED
    BY <2>2, <2>3
<1> HIDE DEF moved
<1>8. Layered(live, us)
  BY <1>6, <1>7 DEF Layered
<1> QED
  BY <1>8 DEF us

\* What stays after a deletion keeps its depth.
LEMMA DeletedLayered ==
  ASSUME NEW L \in SUBSET Items, NEW ks, Layered(L, ks), NEW F
  PROVE  Layered(L \ F, [j \in Items |-> IF j \in F THEN <<>> ELSE ks[j]])
BY DEF Layered

\* The changes that the calls make to the lists only replace, add or drop one
\* item.
LEMMA AppendMembers ==
  ASSUME NEW S, NEW s \in Seq(S), NEW r \in S
  PROVE  \A m \in 1..Len(Append(s, r)) : Append(s, r)[m] \in Members(s) \cup {r}
<1>1. /\ Len(s) \in Nat /\ Len(Append(s, r)) = Len(s) + 1
      /\ \A m \in 1..Len(s) : Append(s, r)[m] = s[m]
      /\ Append(s, r)[Len(s) + 1] = r
  BY AppendProperties, LenProperties
<1> TAKE m \in 1..Len(Append(s, r))
<1>2. m \in 1..Len(s) \/ m = Len(s) + 1
  BY <1>1
<1> QED
  BY <1>1, <1>2 DEF Members

LEMMA InsertAtMembers ==
  ASSUME NEW S, NEW s \in Seq(S), NEW k \in 1..Len(s), NEW r \in S
  PROVE  \A m \in 1..Len(InsertAt(s, k, r)) : InsertAt(s, k, r)[m] \in Members(s) \cup {r}
<1> DEFINE t == InsertAt(s, k, r)
<1>1. /\ Len(t) = Len(s) + 1
      /\ \A j \in 1..(Len(s) + 1) : t[j] = IF j < k THEN s[j] ELSE IF j = k THEN r ELSE s[j - 1]
  BY InsertAtElements
<1>2. Len(s) \in Nat
  BY LenProperties
<1> HIDE DEF t
<1>3. \A m \in 1..Len(t) : t[m] \in Members(s) \cup {r}
  <2> TAKE m \in 1..Len(t)
  <2>1. (m < k => m \in 1..Len(s)) /\ (m > k => m - 1 \in 1..Len(s))
    BY <1>1, <1>2
  <2> QED
    BY <1>1, <1>2, <2>1 DEF Members
<1> QED
  BY <1>3 DEF t

LEMMA RemoveAtMembers ==
  ASSUME NEW S, NEW s \in Seq(S), NEW k \in 1..Len(s)
  PROVE  \A m \in 1..Len(RemoveAt(s, k)) : RemoveAt(s, k)[m] \in Members(s)
<1> DEFINE t == RemoveAt(s, k)
<1>1. /\ Len(t) = Len(s) - 1
      /\ \A j \in 1..(Len(s) - 1) : t[j] = IF j < k THEN s[j] ELSE s[j + 1]
  BY RemoveAtElements
<1>2. Len(s) \in Nat
  BY LenProperties
<1> HIDE DEF t
<1>3. \A m \in 1..Len(t) : t[m] \in Members(s)
  BY <1>1, <1>2 DEF Members
<1> QED
  BY <1>3 DEF t

LEMMA ReplaceAtMembers ==
  ASSUME NEW S, NEW s \in Seq(S), NEW k \in 1..Len(s), NEW r \in S
  PROVE  \A m \in 1..Len(ReplaceAt(s, k, r)) : ReplaceAt(s, k, r)[m] \in Members(s) \cup {r}
<1> DEFINE t == ReplaceAt(s, k, r)
<1>1. Len(t) = Len(s) /\ \A m \in 1..Len(s) : t[m] = IF m = k THEN r ELSE s[m]
  BY ExceptSeq DEF ReplaceAt
<1> HIDE DEF t
<1>2. \A m \in 1..Len(t) : t[m] \in Members(s) \cup {r}
  BY <1>1 DEF Members
<1> QED
  BY <1>2 DEF t

-----------------------------------------------------------------------------
\* What each call does to the invariant.
LEMMA CreateIInv == ASSUME IInv, Create PROVE IInv'
<1>1. PICK i \in Items \ live :
        /\ live' = live \cup {i}
        /\ roots' = roots \cup {i}
        /\ UNCHANGED <<child, next, prev, kids>>
  BY DEF Create
<1>2. HeapOK'
  BY <1>1, CreateHeap DEF IInv, HeapOK
<1>3. Layered(live', kids')
  <2>1. kids[i] = <<>>
    BY DEF IInv, HeapOK, Heap, Clear
  <2>2. \A k \in 1..Len(kids[i]) : FALSE
    BY <2>1
  <2> QED
    BY <1>1, <2>2 DEF IInv, Layered
<1> QED
  BY <1>2, <1>3 DEF IInv

LEMMA AddItemIInv == ASSUME IInv, AddItem PROVE IInv'
<1>0. PICK i \in roots : \E a \in live \ Tree(i) :
        LinkLast(a, i) /\ roots' = roots \ {i} /\ UNCHANGED live
  BY DEF AddItem
<1>1. PICK a \in live \ Tree(i) :
        LinkLast(a, i) /\ roots' = roots \ {i} /\ UNCHANGED live
  BY <1>0
<1>2. HeapOK /\ Layered(live, kids) /\ Heap(live, child, next, prev, roots, kids)
  BY DEF IInv, HeapOK
<1>3. HeapOK'
  BY <1>1, <1>2, LinkHeap DEF HeapOK
<1>4. kids[a] \in Seq(live) /\ i \in live
  BY <1>2 DEF Heap, Typed
<1>5. Layered(live, [kids EXCEPT ![a] = Append(kids[a], i)])
  BY <1>2, <1>4, AppendMembers, MovedLayered
<1> QED
  BY <1>1, <1>3, <1>5 DEF IInv, LinkLast

LEMMA AddNewItemIInv == ASSUME IInv, AddNewItem PROVE IInv'
<1>0. PICK i \in Items \ live : \E a \in live :
        LinkLast(a, i) /\ live' = live \cup {i} /\ UNCHANGED roots
  BY DEF AddNewItem
<1>1. PICK a \in live :
        LinkLast(a, i) /\ live' = live \cup {i} /\ UNCHANGED roots
  BY <1>0
<1> DEFINE L == live \cup {i}
           R == roots \cup {i}
<1>2. Heap(L, child, next, prev, R, kids)
  BY CreateHeap DEF IInv
<1>3. HeapOK'
  <2>1. R \ {i} = roots
    BY DEF IInv, HeapOK, Heap, Typed
  <2>2. a \in L /\ i \in R
    OBVIOUS
  <2> HIDE DEF L, R
  <2>3. Heap(L, child', next', prev', R \ {i}, kids')
    BY <1>1, <1>2, <2>2, LinkHeap
  <2> QED
    BY <1>1, <2>1, <2>3 DEF HeapOK, L
<1>4. Layered(live', kids')
  <2>1. PICK depth \in [Items -> Nat] :
          \A b \in live : \A k \in 1..Len(kids[b]) : depth[kids[b][k]] = depth[b] + 1
    BY DEF IInv, Layered
  <2> DEFINE deeper == [depth EXCEPT ![i] = depth[a] + 1]
             s == kids[a]
             t == Append(s, i)
  <2>2. /\ s \in Seq(live) /\ kids[i] = <<>> /\ a # i /\ live \subseteq Items
        /\ \A b \in live : \A k \in 1..Len(kids[b]) : kids[b][k] \in live /\ kids[b][k] # i
    <3>1. \A b \in live : \A k \in 1..Len(kids[b]) : kids[b][k] \in live
      BY HeapFacts DEF IInv, HeapOK
    <3> QED
      BY <3>1 DEF IInv, HeapOK, Heap, Typed, Clear
  <2>3. /\ Len(s) \in Nat /\ Len(t) = Len(s) + 1
        /\ \A m \in 1..Len(s) : t[m] = s[m]
        /\ t[Len(s) + 1] = i
    BY <2>2, AppendProperties, LenProperties
  <2>4. kids'[a] = t /\ \A b \in Items \ {a} : kids'[b] = kids[b]
    BY <1>1, <2>2 DEF LinkLast, IInv, HeapOK, Heap, Typed
  <2> HIDE DEF t
  <2>5. deeper \in [Items -> Nat] /\ deeper[i] = depth[a] + 1
    BY <2>2
  <2>6. \A j \in Items \ {i} : deeper[j] = depth[j]
    OBVIOUS
  <2> HIDE DEF deeper
  <2>7. ASSUME NEW b \in L, NEW k \in 1..Len(kids'[b])
        PROVE  deeper[kids'[b][k]] = deeper[b] + 1
    <3>1. CASE b = i
      BY <2>2, <2>4, <2>7, <3>1
    <3>2. CASE b # i /\ b # a
      <4>1. b \in live /\ b \in Items \ {i} /\ kids'[b] = kids[b] /\ k \in 1..Len(kids[b])
        BY <2>2, <2>4, <2>7, <3>2
      <4>2. depth[kids[b][k]] = depth[b] + 1 /\ kids[b][k] \in Items \ {i}
        BY <2>1, <2>2, <4>1
      <4> QED
        BY <2>6, <4>1, <4>2
    <3>3. CASE b = a
      <4>1. k \in 1..Len(s) \/ k = Len(s) + 1
        BY <2>3, <2>4, <2>7, <3>3
      <4>2. deeper[a] = depth[a]
        BY <2>2, <2>6
      <4>3. CASE k \in 1..Len(s)
        <5>1. kids'[b][k] = kids[a][k] /\ k \in 1..Len(kids[a])
          BY <2>3, <2>4, <3>3, <4>3
        <5>2. depth[kids[a][k]] = depth[a] + 1 /\ kids[a][k] \in Items \ {i}
          BY <2>1, <2>2, <5>1
        <5> QED
          BY <2>6, <3>3, <4>2, <5>1, <5>2
      <4> QED
        BY <2>3, <2>4, <2>5, <3>3, <4>1, <4>2, <4>3
    <3> QED
      BY <3>1, <3>2, <3>3
  <2> QED
    BY <1>1, <2>5, <2>7 DEF Layered
<1> QED
  BY <1>3, <1>4 DEF IInv

LEMMA InsertItemIInv == ASSUME IInv, InsertItem PROVE IInv'
<1> DEFINE Insert(i, a, after) ==
             /\ prev' = [prev EXCEPT ![i] = prev[after], ![after] = i]
             /\ IF after = child[a]
                THEN /\ child' = [child EXCEPT ![a] = i]
                     /\ next' = [next EXCEPT ![i] = after]
                ELSE /\ next' = [next EXCEPT ![i] = after, ![prev[after]] = i]
                     /\ UNCHANGED child
             /\ kids' = [kids EXCEPT ![a] = InsertAt(kids[a], PositionOf(after, kids[a]), i)]
             /\ roots' = roots \ {i}
             /\ UNCHANGED live
<1>1. PICK i \in roots : \E a \in live \ Tree(i) : \E after \in Elements(a) : Insert(i, a, after)
  BY DEF InsertItem
<1>2. PICK a \in live \ Tree(i) : \E after \in Elements(a) : Insert(i, a, after)
  BY <1>1
<1>3. PICK after \in Elements(a) : Insert(i, a, after)
  BY <1>2
<1> DEFINE k == PositionOf(after, kids[a])
<1>4. HeapOK /\ Layered(live, kids)
  BY DEF IInv
<1>5. k \in 1..Len(kids[a]) /\ after = kids[a][k]
  BY <1>4, ElementPosition
<1>6. kids[a] \in Seq(live) /\ i \in live
  BY <1>4 DEF HeapOK, Heap, Typed
<1> HIDE DEF k
<1>7. kids' = [kids EXCEPT ![a] = InsertAt(kids[a], k, i)]
  BY <1>3 DEF k
<1>8. HeapOK'
  <2>1. Heap(live, child', next', prev', roots \ {i}, [kids EXCEPT ![a] = InsertAt(kids[a], k, i)])
    BY <1>3, <1>4, <1>5, InsertHeap
  <2> QED
    BY <1>3, <1>7, <2>1 DEF HeapOK
<1>9. Layered(live, [kids EXCEPT ![a] = InsertAt(kids[a], k, i)])
  <2>1. \A m \in 1..Len(InsertAt(kids[a], k, i)) :
          InsertAt(kids[a], k, i)[m] \in Members(kids[a]) \cup {i}
    BY <1>5, <1>6, InsertAtMembers
  <2> QED
    BY <1>4, <2>1, MovedLayered
<1> QED
  BY <1>3, <1>7, <1>8, <1>9 DEF IInv

LEMMA DetachItemIInv == ASSUME IInv, DetachItem PROVE IInv'
<1> DEFINE Detached(p, i) ==
             /\ child' = ChildWithout(p, i)
             /\ next' = NextWithout(p, i)
             /\ prev' = PrevWithout(p, i)
             /\ kids' = [kids EXCEPT ![p] = RemoveAt(kids[p], PositionOf(i, kids[p]))]
             /\ roots' = roots \cup {i}
             /\ UNCHANGED live
<1>1. PICK p \in live : \E i \in Elements(p) : Detached(p, i)
  BY DEF DetachItem
<1>2. PICK i \in Elements(p) : Detached(p, i)
  BY <1>1
<1> DEFINE k == PositionOf(i, kids[p])
<1>3. HeapOK /\ Layered(live, kids)
  BY DEF IInv
<1>4. k \in 1..Len(kids[p]) /\ i = kids[p][k]
  BY <1>3, ElementPosition
<1> HIDE DEF k
<1>5. kids' = [kids EXCEPT ![p] = RemoveAt(kids[p], k)]
  BY <1>2 DEF k
<1>6. Heap(live, ChildWithout(p, i), NextWithout(p, i), PrevWithout(p, i),
           roots \cup {i}, [kids EXCEPT ![p] = RemoveAt(kids[p], k)])
  BY <1>3, <1>4, DetachHeap
<1>7. HeapOK'
  BY <1>2, <1>5, <1>6 DEF HeapOK
<1>8. kids[p] \in Seq(live)
  BY <1>3 DEF HeapOK, Heap, Typed
<1>9. Layered(live, [kids EXCEPT ![p] = RemoveAt(kids[p], k)])
  BY <1>3, <1>4, <1>8, RemoveAtMembers, FewerLayered
<1> QED
  BY <1>2, <1>5, <1>7, <1>9 DEF IInv

LEMMA DeleteItemIInv == ASSUME IInv, DeleteItem PROVE IInv'
<1> DEFINE ks(p, i) == [kids EXCEPT ![p] = RemoveAt(kids[p], PositionOf(i, kids[p]))]
           Deleted(p, i) ==
             /\ Delete(i, ChildWithout(p, i), NextWithout(p, i), PrevWithout(p, i), ks(p, i))
             /\ UNCHANGED roots
<1>1. PICK p \in live : \E i \in Elements(p) : Deleted(p, i)
  BY DEF DeleteItem
<1>2. PICK i \in Elements(p) : Deleted(p, i)
  BY <1>1
<1>3. HeapOK /\ Layered(live, kids) /\ kids[p] \in Seq(live) /\ live \subseteq Items
  BY DEF IInv, HeapOK, Heap, Typed
<1>4. PositionOf(i, kids[p]) \in 1..Len(kids[p]) /\ i = kids[p][PositionOf(i, kids[p])]
  BY <1>3, ElementPosition
<1>5. Heap(live, ChildWithout(p, i), NextWithout(p, i), PrevWithout(p, i), roots \cup {i}, ks(p, i))
  BY <1>3, <1>4, DetachHeap
<1>6. roots' = (roots \cup {i}) \ {i}
  <2>1. i \notin roots
    BY <1>3, <1>4 DEF HeapOK, Heap, Alone
  <2> QED
    BY <1>2, <2>1
<1>7. Layered(live, ks(p, i))
  BY <1>3, <1>4, RemoveAtMembers, FewerLayered
<1> HIDE DEF ks
<1>8. HeapOK'
  BY <1>2, <1>5, <1>6, DeleteHeap
<1>9. Layered(live', kids')
  <2> DEFINE F == Freed(i, ChildWithout(p, i), NextWithout(p, i))
  <2>1. live' = live \ F /\ kids' = [j \in Items |-> IF j \in F THEN <<>> ELSE ks(p, i)[j]]
    BY <1>2 DEF Delete
  <2> HIDE DEF F
  <2>2. Layered(live \ F, [j \in Items |-> IF j \in F THEN <<>> ELSE ks(p, i)[j]])
    BY <1>3, <1>7, DeletedLayered
  <2> QED
    BY <2>1, <2>2
<1> QED
  BY <1>8, <1>9 DEF IInv

LEMMA DeleteRootIInv == ASSUME IInv, DeleteRoot PROVE IInv'
<1>1. PICK i \in roots : Delete(i, child, next, prev, kids) /\ roots' = roots \ {i}
  BY DEF DeleteRoot
<1>2. Heap(live, child, next, prev, roots, kids) /\ Layered(live, kids) /\ live \subseteq Items
  BY DEF IInv, HeapOK, Heap, Typed
<1>3. HeapOK'
  BY <1>1, <1>2, DeleteHeap
<1>4. Layered(live', kids')
  <2> DEFINE F == Freed(i, child, next)
  <2>1. live' = live \ F /\ kids' = [j \in Items |-> IF j \in F THEN <<>> ELSE kids[j]]
    BY <1>1 DEF Delete
  <2> HIDE DEF F
  <2>2. Layered(live \ F, [j \in Items |-> IF j \in F THEN <<>> ELSE kids[j]])
    BY <1>2, DeletedLayered
  <2> QED
    BY <2>1, <2>2
<1> QED
  BY <1>3, <1>4 DEF IInv

LEMMA ReplaceItemIInv == ASSUME IInv, ReplaceItem PROVE IInv'
<1> DEFINE ks(r, p, i) == [kids EXCEPT ![p] = ReplaceAt(kids[p], PositionOf(i, kids[p]), r)]
           Replaced(r, p, i) ==
             /\ Delete(i, ChildReplaced(p, i, r), NextReplaced(p, i, r), PrevReplaced(p, i, r),
                       ks(r, p, i))
             /\ roots' = roots \ {r}
<1>1. PICK r \in roots : \E p \in live \ Tree(r) : \E i \in Elements(p) : Replaced(r, p, i)
  BY DEF ReplaceItem
<1>2. PICK p \in live \ Tree(r) : \E i \in Elements(p) : Replaced(r, p, i)
  BY <1>1
<1>3. PICK i \in Elements(p) : Replaced(r, p, i)
  BY <1>2
<1>4. HeapOK /\ Layered(live, kids) /\ kids[p] \in Seq(live) /\ live \subseteq Items /\ r \in live
  BY DEF IInv, HeapOK, Heap, Typed
<1>5. PositionOf(i, kids[p]) \in 1..Len(kids[p]) /\ i = kids[p][PositionOf(i, kids[p])]
  BY <1>4, ElementPosition
<1>6. Heap(live, ChildReplaced(p, i, r), NextReplaced(p, i, r), PrevReplaced(p, i, r),
           (roots \cup {i}) \ {r}, ks(r, p, i))
  BY <1>4, <1>5, ReplaceHeap
<1>7. i \in (roots \cup {i}) \ {r} /\ roots' = ((roots \cup {i}) \ {r}) \ {i}
  <2>1. i \notin roots
    BY <1>4, <1>5 DEF HeapOK, Heap, Alone
  <2> QED
    BY <1>3, <2>1
<1>8. Layered(live, ks(r, p, i))
  <2> DEFINE t == ReplaceAt(kids[p], PositionOf(i, kids[p]), r)
  <2>1. \A m \in 1..Len(t) : t[m] \in Members(kids[p]) \cup {r}
    BY <1>4, <1>5, ReplaceAtMembers
  <2> HIDE DEF t
  <2>2. Layered(live, [kids EXCEPT ![p] = t])
    BY <1>4, <2>1, MovedLayered
  <2> QED
    BY <2>2 DEF t
<1> HIDE DEF ks
<1>9. HeapOK'
  BY <1>3, <1>6, <1>7, DeleteHeap
<1>10. Layered(live', kids')
  <2> DEFINE F == Freed(i, ChildReplaced(p, i, r), NextReplaced(p, i, r))
  <2>1. live' = live \ F /\ kids' = [j \in Items |-> IF j \in F THEN <<>> ELSE ks(r, p, i)[j]]
    BY <1>3 DEF Delete
  <2> HIDE DEF F
  <2>2. Layered(live \ F, [j \in Items |-> IF j \in F THEN <<>> ELSE ks(r, p, i)[j]])
    BY <1>4, <1>8, DeletedLayered
  <2> QED
    BY <2>1, <2>2
<1> QED
  BY <1>9, <1>10 DEF IInv

\* A parsed array or object is a new heap beside the old one.
LEMMA ParseIInv == ASSUME IInv, Parse PROVE IInv'
<1> DEFINE Parsed(a, n, s) ==
             /\ live' = live \cup {a} \cup Range(s)
             /\ roots' = roots \cup {a}
             /\ child' = [child EXCEPT ![a] = s[1]]
             /\ next' = [j \in Items |->
                           IF j \in Range(s) /\ PositionOf(j, s) < n THEN s[PositionOf(j, s) + 1]
                           ELSE next[j]]
             /\ prev' = [j \in Items |->
                           IF j \in Range(s)
                           THEN s[IF PositionOf(j, s) = 1 THEN n ELSE PositionOf(j, s) - 1]
                           ELSE prev[j]]
             /\ kids' = [kids EXCEPT ![a] = s]
<1>0. PICK a \in Items \ live : \E n \in 1..MaxParsed :
        \E s \in Injection(1..n, Items \ (live \cup {a})) : Parsed(a, n, s)
  BY DEF Parse
<1>1. PICK n \in 1..MaxParsed :
        \E s \in Injection(1..n, Items \ (live \cup {a})) : Parsed(a, n, s)
  BY <1>0
<1>2. PICK s \in Injection(1..n, Items \ (live \cup {a})) : Parsed(a, n, s)
  BY <1>1
<1> DEFINE C == Range(s)
           L == live \cup {a} \cup C
<1>3. /\ Heap(live, child, next, prev, roots, kids)
      /\ Null \notin live /\ live \subseteq Items /\ roots \subseteq live
      /\ \A b \in live : kids[b] \in Seq(live)
      /\ \A b \in live : \A k \in 1..Len(kids[b]) : kids[b][k] \in live
      /\ child \in [Items -> live \cup {Null}]
      /\ next \in [Items -> live \cup {Null}]
      /\ prev \in [Items -> live \cup {Null}]
      /\ kids \in [Items -> Seq(live)]
  <2>1. Heap(live, child, next, prev, roots, kids)
    BY DEF IInv, HeapOK
  <2> QED
    BY <2>1, HeapFacts DEF Heap, Typed
<1>4. \A j \in Items \ live : child[j] = Null /\ next[j] = Null /\ prev[j] = Null /\ kids[j] = <<>>
  BY <1>3 DEF Heap, Clear
<1>5. /\ n \in Nat /\ 1 <= n
      /\ s \in [1..n -> Items \ (live \cup {a})]
      /\ \A k, l \in 1..n : s[k] = s[l] => k = l
  <2>1. n \in Nat /\ 1 <= n
    BY JsonListAssumption
  <2> QED
    BY <2>1 DEF Injection, IsInjective
<1>6. /\ C \subseteq Items \ live /\ a \notin C /\ Null \notin Items
      /\ \A k \in 1..n : s[k] \in C
      /\ \A j \in C : \E k \in 1..n : s[k] = j
  BY <1>5, JsonListAssumption DEF Range
<1>7. s \in Seq(L) /\ Len(s) = n /\ s # <<>>
  <2>1. s \in [1..n -> L]
    BY <1>5, <1>6
  <2>2. s \in Seq(L) /\ Len(s) = n
    BY <1>5, <2>1
  <2> QED
    BY <1>5, <2>2
<1>8. \A k \in 1..n : PositionOf(s[k], s) = k
  BY <1>5 DEF PositionOf
<1> HIDE DEF C, L
<1>9. /\ live' = L /\ roots' = roots \cup {a}
      /\ kids'[a] = s /\ \A b \in Items \ {a} : kids'[b] = kids[b]
      /\ child'[a] = s[1] /\ \A b \in Items \ {a} : child'[b] = child[b]
      /\ \A j \in Items \ C : next'[j] = next[j] /\ prev'[j] = prev[j]
      /\ \A k \in 1..n : /\ next'[s[k]] = IF k < n THEN s[k + 1] ELSE Null
                         /\ prev'[s[k]] = s[IF k = 1 THEN n ELSE k - 1]
  <2>1. /\ live' = L /\ roots' = roots \cup {a}
        /\ kids'[a] = s /\ \A b \in Items \ {a} : kids'[b] = kids[b]
        /\ child'[a] = s[1] /\ \A b \in Items \ {a} : child'[b] = child[b]
    BY <1>2, <1>3 DEF L, C
  <2>2. \A j \in Items \ C : next'[j] = next[j] /\ prev'[j] = prev[j]
    BY <1>2 DEF C
  <2>3. \A k \in 1..n : /\ next'[s[k]] = IF k < n THEN s[k + 1] ELSE Null
                        /\ prev'[s[k]] = s[IF k = 1 THEN n ELSE k - 1]
    <3> TAKE k \in 1..n
    <3>1. s[k] \in C /\ s[k] \in Items /\ next[s[k]] = Null
      BY <1>4, <1>6
    <3> QED
      BY <1>2, <1>8, <3>1 DEF C
  <2> QED
    BY <2>1, <2>2, <2>3
<1>10. live \subseteq L /\ a \in L /\ C \subseteq L /\ L \subseteq Items
       /\ \A b \in L : b \in live \/ b = a \/ b \in C
  BY <1>3, <1>6 DEF L
<1>11. \A b \in C : kids'[b] = <<>> /\ child'[b] = Null /\ \A k \in 1..Len(kids'[b]) : FALSE
  <2> TAKE b \in C
  <2>1. kids'[b] = <<>> /\ child'[b] = Null
    <3>1. b \in Items \ live /\ b \in Items \ {a}
      BY <1>6
    <3> QED
      BY <1>4, <1>9, <3>1
  <2> QED
    BY <2>1
<1>19. \A b \in live : b \in Items /\ b # a /\ kids'[b] = kids[b]
  BY <1>0, <1>3, <1>9
<1>12. Typed(live', child', next', prev', roots', kids')
  <2>1. kids' \in [Items -> Seq(L)]
    <3>1. \A b \in Items : kids'[b] \in Seq(L)
      <4> TAKE b \in Items
      <4>1. kids[b] \in Seq(live) => kids[b] \in Seq(L)
        BY <1>10, ElementOfSeq, SeqOfElements
      <4> QED
        BY <1>3, <1>7, <1>9, <4>1
    <3> QED
      BY <1>2, <1>3, <3>1
  <2>2. child' \in [Items -> L \cup {Null}]
    BY <1>2, <1>3, <1>5, <1>6, <1>9, <1>10
  <2>3. next' \in [Items -> L \cup {Null}]
    <3>1. \A j \in Items : next'[j] \in L \cup {Null}
      <4> TAKE j \in Items
      <4>1. CASE j \in C
        <5>1. PICK k \in 1..n : s[k] = j
          BY <1>6, <4>1
        <5>2. k < n => k + 1 \in 1..n
          BY <1>5
        <5> QED
          BY <1>6, <1>9, <1>10, <5>1, <5>2
      <4>2. CASE j \notin C
        BY <1>3, <1>9, <1>10, <4>2
      <4> QED
        BY <4>1, <4>2
    <3> QED
      BY <1>2, <3>1
  <2>4. prev' \in [Items -> L \cup {Null}]
    <3>1. \A j \in Items : prev'[j] \in L \cup {Null}
      <4> TAKE j \in Items
      <4>1. CASE j \in C
        <5>1. PICK k \in 1..n : s[k] = j
          BY <1>6, <4>1
        <5>2. (IF k = 1 THEN n ELSE k - 1) \in 1..n
          BY <1>5
        <5> QED
          BY <1>6, <1>9, <1>10, <5>1, <5>2
      <4>2. CASE j \notin C
        BY <1>3, <1>9, <1>10, <4>2
      <4> QED
        BY <4>1, <4>2
    <3> QED
      BY <1>2, <3>1
  <2> QED
    BY <1>3, <1>9, <1>10, <2>1, <2>2, <2>3, <2>4 DEF Typed
<1>13. Linked(live', child', next', prev', kids')
  <2> SUFFICES ASSUME NEW b \in L
               PROVE  /\ child'[b] = IF kids'[b] = <<>> THEN Null ELSE kids'[b][1]
                      /\ Joined(kids'[b], next', prev')
    BY <1>9 DEF Linked
  <2>1. CASE b \in live
    <3>1. kids'[b] = kids[b] /\ child'[b] = child[b]
      BY <1>0, <1>3, <1>9, <2>1
    <3>2. \A k \in 1..Len(kids[b]) : kids[b][k] \in Items \ C
      BY <1>3, <1>6, <2>1
    <3>3. Joined(kids[b], next, prev) /\ child[b] = IF kids[b] = <<>> THEN Null ELSE kids[b][1]
      BY <1>3, <2>1 DEF Heap, Linked
    <3> QED
      BY <1>9, <3>1, <3>2, <3>3 DEF Joined
  <2>2. CASE b = a
    <3>1. Joined(s, next', prev')
      BY <1>7, <1>9 DEF Joined
    <3> QED
      BY <1>7, <1>9, <2>2, <3>1
  <2>3. CASE b \in C
    BY <1>11, <2>3 DEF Joined
  <2> QED
    BY <1>10, <2>1, <2>2, <2>3
<1>14. Alone(live', next', prev', roots', kids')
  <2> SUFFICES ASSUME NEW i \in roots \cup {a}
               PROVE  /\ next'[i] = Null /\ prev'[i] = Null
                      /\ \A b \in L : \A k \in 1..Len(kids'[b]) : kids'[b][k] # i
    BY <1>9 DEF Alone
  <2>1. i \in Items \ C
    BY <1>3, <1>6
  <2>2. next[i] = Null /\ prev[i] = Null
    BY <1>3, <1>4 DEF Heap, Alone
  <2>3. ASSUME NEW b \in L, NEW k \in 1..Len(kids'[b]) PROVE kids'[b][k] # i
    <3>1. CASE b \in live
      <4>1. CASE i = a
        BY <1>0, <1>3, <1>19, <2>3, <3>1, <4>1
      <4>2. CASE i \in roots
        BY <1>3, <1>19, <2>3, <3>1, <4>2 DEF Heap, Alone
      <4> QED
        BY <4>1, <4>2
    <3>2. CASE b = a
      BY <1>6, <1>7, <1>9, <2>1, <2>3, <3>2
    <3>3. CASE b \in C
      BY <1>11, <2>3, <3>3
    <3> QED
      BY <1>10, <3>1, <3>2, <3>3
  <2> QED
    BY <1>9, <2>1, <2>2, <2>3
<1>15. Unique(live', kids')
  <2> SUFFICES ASSUME NEW b \in L, NEW c \in L, NEW k \in 1..Len(kids'[b]),
                      NEW l \in 1..Len(kids'[c]), kids'[b][k] = kids'[c][l]
               PROVE  b = c /\ k = l
    BY <1>9 DEF Unique
  <2>1. b \notin C /\ c \notin C
    BY <1>11
  <2>2. CASE b \in live /\ c \in live
    <3>1. /\ k \in 1..Len(kids[b]) /\ l \in 1..Len(kids[c])
          /\ kids[b][k] = kids[c][l]
      BY <1>19, <2>2
    <3>2. Unique(live, kids)
      BY <1>3 DEF Heap
    <3> QED
      BY <2>2, <3>1, <3>2 DEF Unique
  <2>3. CASE b = a /\ c = a
    <3>1. kids'[b] = s /\ kids'[c] = s /\ Len(s) = n
      BY <1>7, <1>9, <2>3
    <3>2. k \in 1..n /\ l \in 1..n /\ s[k] = s[l]
      BY <3>1
    <3> QED
      BY <1>5, <2>3, <3>2
  <2>4. CASE b \in live /\ c = a
    <3>1. kids'[b][k] \in live
      BY <1>3, <1>19, <2>4
    <3>2. kids'[c][l] \in C
      BY <1>6, <1>7, <1>9, <2>4
    <3> QED
      BY <1>6, <3>1, <3>2
  <2>5. CASE b = a /\ c \in live
    <3>1. kids'[c][l] \in live
      BY <1>3, <1>19, <2>5
    <3>2. kids'[b][k] \in C
      BY <1>6, <1>7, <1>9, <2>5
    <3> QED
      BY <1>6, <3>1, <3>2
  <2> QED
    BY <1>10, <2>1, <2>2, <2>3, <2>4, <2>5
<1>16. Owned(live', roots', kids')
  <2> SUFFICES ASSUME NEW i \in L \ (roots \cup {a})
               PROVE  \E b \in L : \E k \in 1..Len(kids'[b]) : kids'[b][k] = i
    BY <1>9 DEF Owned
  <2>1. CASE i \in live
    <3>1. PICK b \in live : \E k \in 1..Len(kids[b]) : kids[b][k] = i
      BY <1>3, <2>1 DEF Heap, Owned
    <3>2. kids'[b] = kids[b] /\ b \in L
      BY <1>3, <1>9, <1>10
    <3> QED
      BY <3>1, <3>2
  <2>2. CASE i \in C
    <3>1. PICK k \in 1..n : s[k] = i
      BY <1>6, <2>2
    <3>2. kids'[a] = s /\ a \in L /\ k \in 1..Len(s)
      BY <1>7, <1>9, <1>10
    <3> QED
      BY <3>1, <3>2
  <2> QED
    BY <1>10, <2>1, <2>2
<1>17. Clear(live', child', next', prev', kids')
  BY <1>4, <1>9, <1>10 DEF Clear
<1>18. Layered(live', kids')
  <2>1. PICK depth \in [Items -> Nat] :
          \A b \in live : \A k \in 1..Len(kids[b]) : depth[kids[b][k]] = depth[b] + 1
    BY DEF IInv, Layered
  <2> DEFINE d == [j \in Items |-> IF j = a THEN 0 ELSE IF j \in C THEN 1 ELSE depth[j]]
  <2>2. d \in [Items -> Nat]
    OBVIOUS
  <2>3. ASSUME NEW b \in L, NEW k \in 1..Len(kids'[b]) PROVE d[kids'[b][k]] = d[b] + 1
    <3>1. CASE b \in live
      <4>1. kids'[b] = kids[b] /\ kids[b][k] \in live /\ depth[kids[b][k]] = depth[b] + 1
        BY <1>3, <1>9, <2>1, <2>3, <3>1
      <4> QED
        BY <1>3, <1>6, <3>1, <4>1
    <3>2. CASE b = a
      <4>1. kids'[b][k] \in C /\ kids'[b][k] # a
        BY <1>6, <1>7, <1>9, <2>3, <3>2
      <4> QED
        BY <1>6, <3>2, <4>1
    <3>3. CASE b \in C
      BY <1>11, <2>3, <3>3
    <3> QED
      BY <1>10, <3>1, <3>2, <3>3
  <2> HIDE DEF d
  <2> QED
    BY <1>9, <2>2, <2>3 DEF Layered
<1> QED
  BY <1>12, <1>13, <1>14, <1>15, <1>16, <1>17, <1>18 DEF IInv, HeapOK, Heap

\* The item that an item was copied from.
OriginalOf(i, copy, j) == CHOOSE k \in Tree(i) : copy[k] = j

\* The copies of a tree are a new heap beside the old one.
LEMMA DuplicateIInv == ASSUME IInv, Duplicate PROVE IInv'
<1> DEFINE Copied(i, copy, f) ==
             [j \in Items |->
                IF j \in Range(copy) /\ f[OriginalOf(i, copy, j)] # Null
                THEN copy[f[OriginalOf(i, copy, j)]] ELSE f[j]]
           Duplicated(i, copy) ==
             /\ live' = live \cup Range(copy)
             /\ roots' = roots \cup {copy[i]}
             /\ child' = Copied(i, copy, child)
             /\ next' = [Copied(i, copy, [next EXCEPT ![i] = Null]) EXCEPT ![i] = next[i]]
             /\ prev' = [Copied(i, copy, [prev EXCEPT ![i] = Null]) EXCEPT ![i] = prev[i]]
             /\ kids' = [j \in Items |->
                           IF j \in Range(copy)
                           THEN [n \in DOMAIN kids[OriginalOf(i, copy, j)] |->
                                   copy[kids[OriginalOf(i, copy, j)][n]]]
                           ELSE kids[j]]
<1>1. PICK i \in live : \E copy \in Injection(Tree(i), Items \ live) : Duplicated(i, copy)
  BY DEF Duplicate, OriginalOf
<1>2. PICK copy \in Injection(Tree(i), Items \ live) : Duplicated(i, copy)
  BY <1>1
<1> DEFINE T == Tree(i)
           C == Range(copy)
           L == live \cup C
<1>3. /\ Heap(live, child, next, prev, roots, kids)
      /\ Null \notin live /\ live \subseteq Items /\ roots \subseteq live
      /\ \A b \in live : kids[b] \in Seq(live) /\ Len(kids[b]) \in Nat
      /\ \A b \in live : \A k \in 1..Len(kids[b]) : kids[b][k] \in live
      /\ \A b \in live : kids[b] = <<>> <=> Len(kids[b]) = 0
      /\ child \in [Items -> live \cup {Null}]
      /\ next \in [Items -> live \cup {Null}]
      /\ prev \in [Items -> live \cup {Null}]
      /\ kids \in [Items -> Seq(live)]
  <2>1. Heap(live, child, next, prev, roots, kids)
    BY DEF IInv, HeapOK
  <2>2. /\ Null \notin live
        /\ \A b \in live : kids[b] \in Seq(live) /\ Len(kids[b]) \in Nat
        /\ \A b \in live : \A k \in 1..Len(kids[b]) : kids[b][k] \in live
        /\ \A b \in live : kids[b] = <<>> <=> Len(kids[b]) = 0
    BY <2>1, HeapFacts
  <2> QED
    BY <2>1, <2>2 DEF Heap, Typed
<1>4. \A j \in Items \ live : child[j] = Null /\ next[j] = Null /\ prev[j] = Null /\ kids[j] = <<>>
  BY <1>3 DEF Heap, Clear
<1>5. PICK depth \in [Items -> Nat] :
        \A b \in live : \A k \in 1..Len(kids[b]) : depth[kids[b][k]] = depth[b] + 1
  BY DEF IInv, Layered
<1>6. /\ i \in T /\ T \subseteq live
      /\ \A j \in T : child[j] \in T \cup {Null}
      /\ \A a \in T : \A k \in 1..Len(kids[a]) : kids[a][k] \in T \ {i}
      /\ \A j \in T \ {i} : \E a \in T : \E k \in 1..Len(kids[a]) : kids[a][k] = j
  BY <1>5, TreeFacts DEF IInv
<1>7. copy \in [T -> Items \ live] /\ \A k, l \in T : copy[k] = copy[l] => k = l
  BY DEF Injection, IsInjective
<1> HIDE DEF T
<1>8. /\ C \subseteq Items \ live /\ Null \notin Items
      /\ \A k \in T : copy[k] \in C /\ copy[k] # i
      /\ \A j \in C : \E k \in T : copy[k] = j
  BY <1>7, JsonListAssumption DEF Range
<1>9. \A k \in T : OriginalOf(i, copy, copy[k]) = k
  BY <1>7 DEF T, OriginalOf
<1> HIDE DEF C, L
<1>10. /\ live' = L /\ roots' = roots \cup {copy[i]}
       /\ \A b \in Items \ C : /\ kids'[b] = kids[b] /\ child'[b] = child[b]
                               /\ next'[b] = next[b] /\ prev'[b] = prev[b]
  <2>1. live' = L /\ roots' = roots \cup {copy[i]}
    BY <1>2 DEF L, C
  <2>2. i \in Items \ C
    BY <1>3, <1>8
  <2>3. \A b \in Items \ C : kids'[b] = kids[b] /\ child'[b] = child[b]
    BY <1>2 DEF C
  <2>4. \A b \in Items \ C : next'[b] = next[b]
    BY <1>2, <1>3, <2>2 DEF C
  <2>5. \A b \in Items \ C : prev'[b] = prev[b]
    BY <1>2, <1>3, <2>2 DEF C
  <2> QED
    BY <2>1, <2>3, <2>4, <2>5
<1>11. /\ child' = [j \in Items |-> child'[j]] /\ next' = [j \in Items |-> next'[j]]
       /\ prev' = [j \in Items |-> prev'[j]] /\ kids' = [j \in Items |-> kids'[j]]
  <2>1. child' = [j \in Items |-> child'[j]]
    BY <1>2
  <2>2. next' = [j \in Items |-> next'[j]]
    <3> DEFINE g == Copied(i, copy, [next EXCEPT ![i] = Null])
    <3>1. g = [j \in Items |-> g[j]]
      OBVIOUS
    <3>2. next' = [g EXCEPT ![i] = next[i]]
      BY <1>2
    <3> HIDE DEF g
    <3> QED
      BY <3>1, <3>2
  <2>3. prev' = [j \in Items |-> prev'[j]]
    <3> DEFINE g == Copied(i, copy, [prev EXCEPT ![i] = Null])
    <3>1. g = [j \in Items |-> g[j]]
      OBVIOUS
    <3>2. prev' = [g EXCEPT ![i] = prev[i]]
      BY <1>2
    <3> HIDE DEF g
    <3> QED
      BY <3>1, <3>2
  <2>4. kids' = [j \in Items |-> kids'[j]]
    BY <1>2
  <2> QED
    BY <2>1, <2>2, <2>3, <2>4
<1>12. ASSUME NEW k \in T
       PROVE  /\ child'[copy[k]] = IF child[k] # Null THEN copy[child[k]] ELSE Null
              /\ next'[copy[k]] = IF k # i /\ next[k] # Null THEN copy[next[k]] ELSE Null
              /\ prev'[copy[k]] = IF k # i /\ prev[k] # Null THEN copy[prev[k]] ELSE Null
              /\ kids'[copy[k]] = [n \in 1..Len(kids[k]) |-> copy[kids[k][n]]]
  <2> DEFINE c == copy[k]
  <2>1. /\ c \in C /\ c \in Items /\ c # i /\ OriginalOf(i, copy, c) = k /\ k \in Items /\ i \in Items
        /\ child[c] = Null /\ next[c] = Null /\ prev[c] = Null
    BY <1>3, <1>4, <1>6, <1>8, <1>9
  <2> HIDE DEF c
  <2>2. child'[c] = IF child[k] # Null THEN copy[child[k]] ELSE Null
    BY <1>2, <2>1 DEF C
  <2>3. next'[c] = IF k # i /\ next[k] # Null THEN copy[next[k]] ELSE Null
    <3> DEFINE f == [next EXCEPT ![i] = Null]
    <3>1. f[k] = (IF k = i THEN Null ELSE next[k]) /\ f[c] = Null
      BY <1>3, <2>1
    <3> HIDE DEF f
    <3>2. next'[c] = IF f[k] # Null THEN copy[f[k]] ELSE f[c]
      BY <1>2, <2>1 DEF C, f
    <3> QED
      BY <3>1, <3>2
  <2>4. prev'[c] = IF k # i /\ prev[k] # Null THEN copy[prev[k]] ELSE Null
    <3> DEFINE f == [prev EXCEPT ![i] = Null]
    <3>1. f[k] = (IF k = i THEN Null ELSE prev[k]) /\ f[c] = Null
      BY <1>3, <2>1
    <3> HIDE DEF f
    <3>2. prev'[c] = IF f[k] # Null THEN copy[f[k]] ELSE f[c]
      BY <1>2, <2>1 DEF C, f
    <3> QED
      BY <3>1, <3>2
  <2>5. kids'[c] = [n \in 1..Len(kids[k]) |-> copy[kids[k][n]]]
    <3>1. DOMAIN kids[k] = 1..Len(kids[k])
      BY <1>3, <1>6
    <3>2. kids'[c] = [n \in DOMAIN kids[k] |-> copy[kids[k][n]]]
      BY <1>2, <2>1 DEF C
    <3> QED
      BY <3>1, <3>2
  <2> QED
    BY <2>2, <2>3, <2>4, <2>5 DEF c
<1> HIDE DEF Duplicated
<1>13. live \subseteq L /\ C \subseteq L /\ L \subseteq Items
       /\ (\A b \in L : b \in live \/ b \in C) /\ copy[i] \in C
  BY <1>3, <1>6, <1>8 DEF L
<1>14. ASSUME NEW k \in T
       PROVE  /\ kids'[copy[k]] \in Seq(L) /\ Len(kids'[copy[k]]) = Len(kids[k])
              /\ \A n \in 1..Len(kids[k]) : kids'[copy[k]][n] = copy[kids[k][n]]
  <2>1. Len(kids[k]) \in Nat /\ kids'[copy[k]] = [n \in 1..Len(kids[k]) |-> copy[kids[k][n]]]
    BY <1>3, <1>6, <1>12
  <2>2. \A n \in 1..Len(kids[k]) : copy[kids[k][n]] \in L
    BY <1>6, <1>8, <1>13
  <2> DEFINE z == Len(kids[k])
             u == kids'[copy[k]]
  <2>3. u \in [1..z -> L] /\ z \in Nat /\ \A n \in 1..z : u[n] = copy[kids[k][n]]
    BY <2>1, <2>2
  <2> HIDE DEF z, u
  <2>4. u \in Seq(L) /\ Len(u) = z
    BY <2>3
  <2> QED
    BY <2>3, <2>4 DEF z, u
<1>15. \A b \in live : b \in Items /\ kids'[b] = kids[b] /\ child'[b] = child[b]
                       /\ next'[b] = next[b] /\ prev'[b] = prev[b]
  BY <1>3, <1>8, <1>10
<1>16. \A k \in T \ {i} : next[k] \in T \cup {Null} /\ prev[k] \in T
  <2> TAKE k \in T \ {i}
  <2>1. PICK a \in T : \E m \in 1..Len(kids[a]) : kids[a][m] = k
    BY <1>6
  <2>2. PICK m \in 1..Len(kids[a]) : kids[a][m] = k
    BY <2>1
  <2>3. /\ next[k] = IF m < Len(kids[a]) THEN kids[a][m + 1] ELSE Null
        /\ prev[k] = kids[a][IF m = 1 THEN Len(kids[a]) ELSE m - 1]
    <3>1. Joined(kids[a], next, prev)
      BY <1>3, <1>6, <2>1 DEF Heap, Linked
    <3> QED
      BY <2>2, <3>1 DEF Joined
  <2>4. (m < Len(kids[a]) => m + 1 \in 1..Len(kids[a]))
        /\ (IF m = 1 THEN Len(kids[a]) ELSE m - 1) \in 1..Len(kids[a])
    <3>1. Len(kids[a]) \in Nat
      BY <1>3, <1>6, <2>1
    <3> QED
      BY <2>2, <3>1
  <2> QED
    BY <1>6, <2>3, <2>4
<1>17. Typed(live', child', next', prev', roots', kids')
  <2>1. \A j \in Items : /\ kids'[j] \in Seq(L)
                         /\ child'[j] \in L \cup {Null}
                         /\ next'[j] \in L \cup {Null}
                         /\ prev'[j] \in L \cup {Null}
    <3> TAKE j \in Items
    <3>1. CASE j \in C
      <4>1. PICK k \in T : copy[k] = j
        BY <1>8, <3>1
      <4>2. child'[j] \in L \cup {Null}
        BY <1>6, <1>8, <1>12, <1>13, <4>1
      <4>3. next'[j] \in L \cup {Null} /\ prev'[j] \in L \cup {Null}
        BY <1>8, <1>12, <1>13, <1>16, <4>1
      <4> QED
        BY <1>14, <4>1, <4>2, <4>3
    <3>2. CASE j \notin C
      <4>1. kids[j] \in Seq(live)
        BY <1>3
      <4>2. kids[j] \in Seq(L)
        BY <1>13, <4>1, ElementOfSeq, SeqOfElements
      <4> QED
        BY <1>3, <1>10, <1>13, <3>2, <4>2
    <3> QED
      BY <3>1, <3>2
  <2> QED
    BY <1>3, <1>10, <1>11, <1>13, <2>1 DEF Typed
<1>18. Linked(live', child', next', prev', kids')
  <2> SUFFICES ASSUME NEW b \in L
               PROVE  /\ child'[b] = IF kids'[b] = <<>> THEN Null ELSE kids'[b][1]
                      /\ Joined(kids'[b], next', prev')
    BY <1>10 DEF Linked
  <2>1. CASE b \in live
    <3>1. Joined(kids[b], next, prev) /\ child[b] = IF kids[b] = <<>> THEN Null ELSE kids[b][1]
      BY <1>3, <2>1 DEF Heap, Linked
    <3>2. \A k \in 1..Len(kids[b]) : kids[b][k] \in live
      BY <1>3, <2>1
    <3>3. Joined(kids[b], next', prev')
      BY <1>15, <3>1, <3>2 DEF Joined
    <3> QED
      BY <1>15, <2>1, <3>1, <3>3
  <2>2. CASE b \in C
    <3>1. PICK k \in T : copy[k] = b
      BY <1>8, <2>2
    <3> DEFINE s == kids[k]
               u == kids'[b]
    <3>2. /\ Joined(s, next, prev) /\ child[k] = (IF s = <<>> THEN Null ELSE s[1])
          /\ Len(s) \in Nat /\ (s = <<>> <=> Len(s) = 0)
          /\ \A n \in 1..Len(s) : s[n] \in T \ {i} /\ s[n] # Null
      <4>1. k \in live
        BY <1>6, <3>1
      <4> QED
        BY <1>3, <1>6, <3>1, <4>1 DEF Heap, Linked
    <3>3. u \in Seq(L) /\ Len(u) = Len(s) /\ \A n \in 1..Len(s) : u[n] = copy[s[n]]
      BY <1>14, <3>1
    <3> HIDE DEF s, u
    <3>4. child'[b] = IF u = <<>> THEN Null ELSE u[1]
      <4>1. child'[b] = IF child[k] # Null THEN copy[child[k]] ELSE Null
        BY <1>12, <3>1
      <4>2. u = <<>> <=> Len(s) = 0
        BY <3>2, <3>3
      <4>3. CASE Len(s) = 0
        BY <3>2, <4>1, <4>2, <4>3
      <4>4. CASE Len(s) # 0
        <5>1. 1 \in 1..Len(s)
          BY <3>2, <4>4
        <5> QED
          BY <3>2, <3>3, <4>1, <4>2, <4>4, <5>1
      <4> QED
        BY <4>3, <4>4
    <3>5. Joined(u, next', prev')
      <4> SUFFICES ASSUME NEW m \in 1..Len(s)
                   PROVE  /\ next'[u[m]] = IF m < Len(s) THEN u[m + 1] ELSE Null
                          /\ prev'[u[m]] = u[IF m = 1 THEN Len(s) ELSE m - 1]
        BY <3>3 DEF Joined
      <4>1. u[m] = copy[s[m]] /\ s[m] \in T /\ s[m] # i
        BY <3>2, <3>3
      <4>2. /\ next[s[m]] = IF m < Len(s) THEN s[m + 1] ELSE Null
            /\ prev[s[m]] = s[IF m = 1 THEN Len(s) ELSE m - 1]
        BY <3>2 DEF Joined
      <4>3. /\ next'[u[m]] = IF next[s[m]] # Null THEN copy[next[s[m]]] ELSE Null
            /\ prev'[u[m]] = IF prev[s[m]] # Null THEN copy[prev[s[m]]] ELSE Null
        BY <1>12, <4>1, ZenonT(40)
      <4>4. (m < Len(s) => m + 1 \in 1..Len(s))
            /\ (IF m = 1 THEN Len(s) ELSE m - 1) \in 1..Len(s)
        BY <3>2
      <4>5. next'[u[m]] = IF m < Len(s) THEN u[m + 1] ELSE Null
        BY <3>2, <3>3, <4>2, <4>3, <4>4
      <4>6. prev'[u[m]] = u[IF m = 1 THEN Len(s) ELSE m - 1]
        BY <3>2, <3>3, <4>2, <4>3, <4>4
      <4> QED
        BY <4>5, <4>6
    <3> QED
      BY <3>4, <3>5 DEF u
  <2> QED
    BY <1>13, <2>1, <2>2
<1>19. \A b \in C : \A m \in 1..Len(kids'[b]) :
         kids'[b][m] \in C /\ kids'[b][m] # copy[i]
  <2> TAKE b \in C
  <2>1. PICK k \in T : copy[k] = b
    BY <1>8
  <2> TAKE m \in 1..Len(kids'[b])
  <2>2. m \in 1..Len(kids[k]) /\ kids'[b][m] = copy[kids[k][m]]
    BY <1>14, <2>1
  <2>3. kids[k][m] \in T \ {i}
    BY <1>6, <2>2
  <2> QED
    BY <1>6, <1>7, <1>8, <2>2, <2>3
<1>20. Alone(live', next', prev', roots', kids')
  <2> SUFFICES ASSUME NEW r \in roots \cup {copy[i]}
               PROVE  /\ next'[r] = Null /\ prev'[r] = Null
                      /\ \A b \in L : \A k \in 1..Len(kids'[b]) : kids'[b][k] # r
    BY <1>10 DEF Alone
  <2>1. CASE r = copy[i]
    <3>1. next'[r] = Null /\ prev'[r] = Null
      BY <1>6, <1>12, <2>1
    <3>2. \A b \in live : \A k \in 1..Len(kids'[b]) : kids'[b][k] # r
      BY <1>3, <1>8, <1>13, <1>15, <2>1
    <3> QED
      BY <1>13, <1>19, <2>1, <3>1, <3>2
  <2>2. CASE r \in roots
    <3>1. r \in live /\ next'[r] = Null /\ prev'[r] = Null
      BY <1>3, <1>15, <2>2 DEF Heap, Alone
    <3>2. \A b \in live : \A k \in 1..Len(kids'[b]) : kids'[b][k] # r
      BY <1>3, <1>15, <2>2 DEF Heap, Alone
    <3>3. r \notin C
      BY <1>8, <3>1
    <3> QED
      BY <1>13, <1>19, <3>1, <3>2, <3>3
  <2> QED
    BY <2>1, <2>2
<1>21. Unique(live', kids')
  <2> SUFFICES ASSUME NEW b \in L, NEW c \in L, NEW k \in 1..Len(kids'[b]),
                      NEW l \in 1..Len(kids'[c]), kids'[b][k] = kids'[c][l]
               PROVE  b = c /\ k = l
    BY <1>10 DEF Unique
  <2>1. \A a \in live : \A m \in 1..Len(kids'[a]) : kids'[a][m] \notin C
    BY <1>3, <1>8, <1>15
  <2>2. CASE b \in live /\ c \in live
    <3>1. /\ k \in 1..Len(kids[b]) /\ l \in 1..Len(kids[c])
          /\ kids[b][k] = kids[c][l]
      BY <1>15, <2>2
    <3>2. Unique(live, kids)
      BY <1>3 DEF Heap
    <3> QED
      BY <2>2, <3>1, <3>2 DEF Unique
  <2>3. CASE b \in C /\ c \in C
    <3>1. PICK x \in T : copy[x] = b
      BY <1>8, <2>3
    <3>2. PICK y \in T : copy[y] = c
      BY <1>8, <2>3
    <3>3. /\ k \in 1..Len(kids[x]) /\ kids'[b][k] = copy[kids[x][k]]
          /\ l \in 1..Len(kids[y]) /\ kids'[c][l] = copy[kids[y][l]]
      BY <1>14, <3>1, <3>2
    <3>4. kids[x][k] = kids[y][l]
      <4>1. kids[x][k] \in T /\ kids[y][l] \in T
        BY <1>6, <3>1, <3>2, <3>3
      <4>2. copy[kids[x][k]] = copy[kids[y][l]]
        BY <3>3
      <4> QED
        BY <1>7, <4>1, <4>2
    <3>5. x = y /\ k = l
      <4>1. x \in live /\ y \in live
        BY <1>6, <3>1, <3>2
      <4>2. Unique(live, kids)
        BY <1>3 DEF Heap
      <4> QED
        BY <3>3, <3>4, <4>1, <4>2 DEF Unique
    <3> QED
      BY <3>1, <3>2, <3>5
  <2>4. CASE b \in live /\ c \in C
    BY <1>19, <2>1, <2>4
  <2>5. CASE b \in C /\ c \in live
    BY <1>19, <2>1, <2>5
  <2> QED
    BY <1>13, <2>2, <2>3, <2>4, <2>5
<1>22. Owned(live', roots', kids')
  <2> SUFFICES ASSUME NEW j \in L \ (roots \cup {copy[i]})
               PROVE  \E b \in L : \E k \in 1..Len(kids'[b]) : kids'[b][k] = j
    BY <1>10 DEF Owned
  <2>1. CASE j \in live
    <3>1. PICK b \in live : \E k \in 1..Len(kids[b]) : kids[b][k] = j
      BY <1>3, <2>1 DEF Heap, Owned
    <3> QED
      BY <1>13, <1>15, <3>1
  <2>2. CASE j \in C
    <3>1. PICK x \in T \ {i} : copy[x] = j
      BY <1>8, <2>2
    <3>2. PICK a \in T : \E k \in 1..Len(kids[a]) : kids[a][k] = x
      BY <1>6
    <3>3. PICK k \in 1..Len(kids[a]) : kids[a][k] = x
      BY <3>2
    <3>4. k \in 1..Len(kids'[copy[a]]) /\ kids'[copy[a]][k] = j
      BY <1>14, <3>1, <3>3
    <3>5. copy[a] \in L
      BY <1>8, <1>13
    <3> QED
      BY <3>4, <3>5
  <2> QED
    BY <1>13, <2>1, <2>2
<1>23. Clear(live', child', next', prev', kids')
  BY <1>4, <1>10, <1>13 DEF Clear
<1>24. Layered(live', kids')
  <2> DEFINE d == [j \in Items |-> IF j \in C THEN depth[OriginalOf(i, copy, j)] ELSE depth[j]]
  <2>1. \A k \in T : d[copy[k]] = depth[k]
    BY <1>8, <1>9
  <2>2. \A j \in live : d[j] = depth[j]
    BY <1>3, <1>8
  <2>3. d \in [Items -> Nat]
    <3>1. \A j \in C : OriginalOf(i, copy, j) \in Items
      <4> TAKE j \in C
      <4>1. PICK k \in T : copy[k] = j
        BY <1>8
      <4>2. OriginalOf(i, copy, j) = k
        BY <1>9, <4>1
      <4> QED
        BY <1>3, <1>6, <4>1, <4>2
    <3> QED
      BY <3>1
  <2> HIDE DEF d
  <2>4. ASSUME NEW b \in L, NEW k \in 1..Len(kids'[b]) PROVE d[kids'[b][k]] = d[b] + 1
    <3>1. CASE b \in live
      <4>1. kids'[b] = kids[b] /\ kids[b][k] \in live /\ depth[kids[b][k]] = depth[b] + 1
        BY <1>3, <1>5, <1>15, <2>4, <3>1
      <4> QED
        BY <2>2, <3>1, <4>1
    <3>2. CASE b \in C
      <4>1. PICK x \in T : copy[x] = b
        BY <1>8, <3>2
      <4>2. k \in 1..Len(kids[x]) /\ kids'[b][k] = copy[kids[x][k]] /\ kids[x][k] \in T
        BY <1>6, <1>14, <2>4, <4>1
      <4>3. depth[kids[x][k]] = depth[x] + 1
        BY <1>5, <1>6, <4>2
      <4> QED
        BY <2>1, <4>1, <4>2, <4>3
    <3> QED
      BY <1>13, <3>1, <3>2
  <2> QED
    BY <1>10, <2>3, <2>4 DEF Layered
<1> QED
  BY <1>17, <1>18, <1>20, <1>21, <1>22, <1>23, <1>24 DEF IInv, HeapOK, Heap

LEMMA InitIInv == ASSUME Init PROVE IInv
<1>1. \A a \in Items : kids[a] = <<>>
  BY DEF Init
<1>2. Typed(live, child, next, prev, roots, kids)
  BY <1>1 DEF Init, Typed
<1>3. /\ Linked(live, child, next, prev, kids)
      /\ Alone(live, next, prev, roots, kids)
      /\ Unique(live, kids) /\ Owned(live, roots, kids)
      /\ Clear(live, child, next, prev, kids)
  BY <1>1 DEF Init, Linked, Alone, Unique, Owned, Clear
<1>4. Layered(live, kids)
  <2>1. [a \in Items |-> 0] \in [Items -> Nat]
    OBVIOUS
  <2> QED
    BY <2>1 DEF Init, Layered
<1> QED
  BY <1>2, <1>3, <1>4 DEF IInv, HeapOK, Heap

LEMMA NextIInv == ASSUME IInv, [Next]_vars PROVE IInv'
<1>1. CASE Next
  BY <1>1, CreateIInv, AddItemIInv, AddNewItemIInv, InsertItemIInv, DetachItemIInv,
     DeleteItemIInv, DeleteRootIInv, ReplaceItemIInv, DuplicateIInv, ParseIInv DEF Next
<1>2. CASE UNCHANGED vars
  BY <1>2 DEF vars, IInv, HeapOK
<1> QED
  BY <1>1, <1>2

LEMMA SpecIInv == Spec => []IInv
<1>1. Init => IInv
  BY InitIInv
<1>2. IInv /\ [Next]_vars => IInv'
  BY NextIInv
<1> QED
  BY <1>1, <1>2, PTL DEF Spec

-----------------------------------------------------------------------------
\* Every pointer of an item points to an item that is allocated: cJSON.c never
\* leaves a pointer to an item that it has freed.
THEOREM TypeCorrect == Spec => []TypeOK
<1>1. IInv => TypeOK
  BY DEF IInv, HeapOK, Heap, Typed, TypeOK
<1> QED
  BY <1>1, SpecIInv, PTL

\* After any sequence of calls of cJSON.c the pointers of every list say what
\* the calls, read as operations on sequences, say.
THEOREM ListsStaySequences == Spec => []ListsAreSequences
<1>1. IInv => ListsAreSequences
  BY DEF IInv, HeapOK, Heap, Linked, Alone, Joined, ListsAreSequences
<1> QED
  BY <1>1, SpecIInv, PTL

\* An item has one holder, the caller or one list, so that cJSON_Delete frees
\* no item twice.
THEOREM EveryItemHasOneHolder == Spec => []OneHolder
<1>1. ASSUME IInv PROVE OneHolder
  <2>1. Heap(live, child, next, prev, roots, kids)
    BY <1>1 DEF IInv, HeapOK
  <2>2. \A a \in live : kids[a] \in Seq(live)
    BY <2>1, HeapFacts
  <2>3. \A a \in live : DOMAIN kids[a] = 1..Len(kids[a])
    BY <2>2
  <2>4. \A i \in roots : \A a \in live : i \notin Range(kids[a])
    BY <2>1, <2>3 DEF Heap, Alone, Range
  <2>5. \A a, b \in live : \A k \in DOMAIN kids[a], l \in DOMAIN kids[b] :
          kids[a][k] = kids[b][l] => a = b /\ k = l
    BY <2>1, <2>3 DEF Heap, Unique
  <2> QED
    BY <2>4, <2>5 DEF OneHolder
<1> QED
  BY <1>1, SpecIInv, PTL

\* What the caller holds reaches every item that is allocated, so that deleting
\* it frees them all.
THEOREM NoItemLeaks == Spec => []NothingLeaks
<1>1. ASSUME IInv PROVE NothingLeaks
  <2>1. /\ Heap(live, child, next, prev, roots, kids)
        /\ live \subseteq Items /\ roots \subseteq live
    BY <1>1 DEF IInv, HeapOK, Heap, Typed
  <2>2. PICK depth \in [Items -> Nat] :
          \A a \in live : \A k \in 1..Len(kids[a]) : depth[kids[a][k]] = depth[a] + 1
    BY <1>1 DEF IInv, Layered
  <2> DEFINE Reached(i) == \E r \in roots : i \in Freed(r, child, next)
             T == {depth[i] : i \in {j \in live : ~ Reached(j)}}
  <2>3. SUFFICES ASSUME T # {} PROVE FALSE
    BY DEF NothingLeaks
  <2>4. T \in SUBSET Nat
    BY <2>1
  <2> HIDE DEF T
  <2>5. PICK x \in T : \A y \in T : x <= y
    BY <2>3, <2>4, LeastNatural
  <2>6. PICK i \in live : ~ Reached(i) /\ x = depth[i]
    BY <2>5 DEF T
  <2>7. i \notin roots
    BY <2>1, <2>6, FreedProperties
  <2>8. PICK a \in live : \E k \in 1..Len(kids[a]) : kids[a][k] = i
    BY <2>1, <2>7 DEF Heap, Owned
  <2>9. depth[i] = depth[a] + 1 /\ depth[a] \in Nat
    BY <2>1, <2>2, <2>8
  <2>10. depth[a] \notin T
    BY <2>4, <2>5, <2>6, <2>9
  <2>11. Reached(a)
    BY <2>10 DEF T
  <2>12. PICK r \in roots : a \in Freed(r, child, next)
    BY <2>11
  <2>13. i \in Freed(r, child, next)
    BY <2>1, <2>8, <2>12, FreedIsTree
  <2> QED
    BY <2>6, <2>13
<1> QED
  BY <1>1, SpecIInv, PTL
=============================================================================
