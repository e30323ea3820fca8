-------------------------- MODULE NormalizeProofs --------------------------
(***************************************************************************)
(* Proofs about Normalize, for any set of queries: the constants are       *)
(* replaced and nothing else, outside GROUP BY every constant gets a        *)
(* number of its own, GROUP BY shares numbers with targets of its shape     *)
(* only, and an item written like a target stays so.                        *)
(*                                                                         *)
(* 1. Where the pieces of a flattened sequence are, hence the operands and  *)
(*    constants of a query in its text, and what the scanner reads there.  *)
(* 2. The walk: the constants seen are recorded (HasRecords), the numbers   *)
(*    given out are used without gaps (Numbered), and every list of params  *)
(*    has numbers of its own target only (IsRefs).                          *)
(* 3. The records sorted and measured, and the copy of the text.            *)
(* 4. The invariant IInv and the first three properties.                    *)
(* 5. GROUP BY items that copy a target (CInv), and the last property.      *)
(***************************************************************************)
EXTENDS Normalize, SequenceTheorems, FiniteSetTheorems, WellFoundedInduction,
        TLAPS

\* A set of natural numbers has a least one: induction over positions.
LEMMA LeastNatural ==
  ASSUME NEW T \in SUBSET Nat, T # {}
  PROVE  \E x \in T : \A y \in T : x <= y
<1> DEFINE R == {ss \in Nat \X Nat : ss[1] < ss[2]}
<1>1. IsWellFoundedOn(R, Nat)
  BY NatLessThanWellFounded DEF OpToRel
<1> HIDE DEF R
<1>2. PICK x \in T : \A y \in T : ~ (<<y, x>> \in R)
  BY <1>1, WFMin, ZenonT(40)
<1>3. \A y, z \in Nat : y < z => <<y, z>> \in R
  BY DEF R
<1>4. \A y \in T : x <= y
  <2> TAKE y \in T
  <2>1. x \in Nat /\ y \in Nat /\ ~ (<<y, x>> \in R)
    BY <1>2
  <2>2. ~ (y < x)
    BY <2>1, <1>3, Zenon
  <2> QED
    BY <2>1, <2>2
<1> QED
  BY <1>4

\* A sequence of pieces of a text, each a sequence over K.
ArePieces(ss, K) == ss \in Seq(Seq(K))

\* A name for concatenation, which the provers take apart otherwise.
Joined(s, t) == s \o t

\* g has the beginnings of the flattened sequence.
Builds(g, ss, n) == \A m \in 1..n : g[m] = IF m = 1 THEN ss[1] ELSE Joined(g[m - 1], ss[m])

\* The first beginning is the first piece.
LEMMA BuildsFirst ==
  ASSUME NEW g, NEW ss, NEW n \in Nat, n # 0, Builds(g, ss, n)
  PROVE  g[1] = ss[1]
<1>1. 1 \in 1..n
  OBVIOUS
<1> QED
  BY <1>1 DEF Builds

\* Each beginning adds a piece.
LEMMA BuildsStep ==
  ASSUME NEW g, NEW ss, NEW n, Builds(g, ss, n), NEW m \in 1..n, m # 1
  PROVE  g[m] = Joined(g[m - 1], ss[m])
BY DEF Builds

\* There is only one function of the beginnings.
LEMMA BuildsUnique ==
  ASSUME NEW g, NEW h, NEW ss, NEW n \in Nat, NEW m \in Nat, m <= n,
         Builds(g, ss, m), Builds(h, ss, n)
  PROVE  \A k \in 1..m : g[k] = h[k]
<1> DEFINE T == {k \in 1..m : g[k] # h[k]}
<1> SUFFICES ASSUME T # {} PROVE FALSE
  OBVIOUS
<1>1. PICK N \in T : \A k \in T : N <= k
  <2>1. T \in SUBSET Nat
    OBVIOUS
  <2> HIDE DEF T
  <2> QED
    BY <2>1, LeastNatural
<1>2. N \in 1..m /\ N \in 1..n /\ g[N] # h[N] /\ m # 0 /\ n # 0
  BY <1>1
<1>3. CASE N = 1
  BY <1>2, <1>3, BuildsFirst
<1>4. CASE N # 1
  <2>1. N - 1 \in 1..m /\ ~ (N <= N - 1)
    BY <1>2, <1>4
  <2>2. g[N - 1] = h[N - 1]
    BY <1>1, <2>1
  <2>3. g[N] = Joined(g[N - 1], ss[N])
    <3>1. Builds(g, ss, m) /\ N \in 1..m /\ N # 1
      BY <1>2, <1>4
    <3> QED
      BY <3>1, BuildsStep
  <2>4. h[N] = Joined(h[N - 1], ss[N])
    BY <1>2, <1>4, BuildsStep, ZenonT(40)
  <2> HIDE DEF T
  <2> QED
    BY <1>2, <2>2, <2>3, <2>4
<1> QED
  BY <1>3, <1>4

\* Some function is what FlattenSeq looks for: its values are the beginnings.
LEMMA FlatteningExists ==
  ASSUME NEW K, NEW ss, NEW L \in Nat, NEW n \in 1..L, \A m \in 1..L : ss[m] \in Seq(K)
  PROVE  \E g \in [1..n -> Seq(K)] : Builds(g, ss, n)
<1> DEFINE Flat(g, N) == g \in [1..N -> Seq(K)] /\ Builds(g, ss, N)
           T == {N \in 1..L : ~ \E g : Flat(g, N)}
<1> HIDE DEF Flat
<1>1. SUFFICES ASSUME T # {} PROVE FALSE
  <2>1. n \notin T
    BY <1>1
  <2> QED
    BY <2>1 DEF Flat
<1>2. PICK N \in T : \A m \in T : N <= m
  <2>1. T \in SUBSET Nat
    OBVIOUS
  <2> HIDE DEF T
  <2> QED
    BY <1>1, <2>1, LeastNatural
<1>3. N \in 1..L /\ N \in Nat /\ ~ \E g : Flat(g, N)
  OBVIOUS
<1>4. CASE N = 1
  <2> DEFINE g == [m \in 1..1 |-> ss[1]]
  <2>1. ss[1] \in Seq(K)
    BY <1>3
  <2>2. g \in [1..1 -> Seq(K)] /\ g[1] = ss[1]
    BY <2>1
  <2> HIDE DEF g, T
  <2>3. Builds(g, ss, 1)
    BY <2>2 DEF Builds
  <2> QED
    BY <1>3, <1>4, <2>2, <2>3 DEF Flat
<1>5. CASE N # 1
  <2>1. N - 1 \in 1..L /\ N - 1 \notin T
    BY <1>2, <1>3, <1>5
  <2>2. PICK h : Flat(h, N - 1)
    BY <2>1
  <2>3. h \in [1..(N - 1) -> Seq(K)] /\ Builds(h, ss, N - 1)
    BY <2>2 DEF Flat
  <2>c. Builds(h, ss, N - 1)
    BY <2>3
  <2> DEFINE g == [m \in 1..N |-> IF m = N THEN Joined(h[N - 1], ss[N]) ELSE h[m]]
  <2>4. ss[N] \in Seq(K) /\ N - 1 \in 1..(N - 1)
    BY <1>3, <1>5
  <2>5. h[N - 1] \in Seq(K)
    BY <2>3, <2>4
  <2>6. Joined(h[N - 1], ss[N]) \in Seq(K)
    BY <2>4, <2>5, ConcatProperties DEF Joined
  <2>7. \A m \in 1..N : m # N => m \in 1..(N - 1)
    BY <1>3
  <2>8. g \in [1..N -> Seq(K)]
    BY <2>3, <2>6, <2>7
  <2>9. \A m \in 1..N : g[m] = IF m = N THEN Joined(h[N - 1], ss[N]) ELSE h[m]
    OBVIOUS
  <2> HIDE DEF g, T
  <2>a. ASSUME NEW m \in 1..N PROVE g[m] = IF m = 1 THEN ss[1] ELSE Joined(g[m - 1], ss[m])
    <3>1. CASE m = N
      <4>1. N - 1 \in 1..N /\ N - 1 # N /\ m # 1
        BY <1>3, <1>5, <3>1
      <4> QED
        BY <2>9, <3>1, <4>1
    <3>2. CASE m # N /\ m = 1
      <4>1. 1 \in 1..(N - 1)
        BY <1>3, <1>5
      <4>2. h[1] = ss[1]
        BY <2>c, <4>1 DEF Builds
      <4> QED
        BY <2>9, <3>2, <4>2
    <3>3. CASE m # N /\ m # 1
      <4>1. m \in 1..(N - 1) /\ m - 1 \in 1..N /\ m - 1 # N
        BY <1>3, <3>3
      <4>2. h[m] = Joined(h[m - 1], ss[m])
        BY <2>c, <3>3, <4>1, BuildsStep
      <4> QED
        BY <2>9, <3>3, <4>1, <4>2
    <3> QED
      BY <3>1, <3>2, <3>3
  <2>b. Builds(g, ss, N)
    BY <2>a DEF Builds
  <2> QED
    BY <1>3, <2>8, <2>b DEF Flat
<1> QED
  BY <1>4, <1>5

\* FlattenSeq is the last of the beginnings.
LEMMA FlattenIs ==
  ASSUME NEW K, NEW ss, NEW L \in Nat \ {0}, Len(ss) = L, \A m \in 1..L : ss[m] \in Seq(K)
  PROVE  \E g \in [1..L -> Seq(K)] : FlattenSeq(ss) = g[L] /\ Builds(g, ss, L)
<1> DEFINE F(f) == [m \in 1..L |-> IF m = 1 THEN ss[m] ELSE Joined(f[m - 1], ss[m])]
           flatten == CHOOSE f : f = F(f)
<1>0. L \in Nat /\ L \in 1..L /\ L # 0
  OBVIOUS
<1>1. PICK g \in [1..L -> Seq(K)] : Builds(g, ss, L)
  BY <1>0, FlatteningExists
<1>2. g = F(g)
  <2>1. DOMAIN g = 1..L /\ g = [m \in 1..L |-> g[m]]
    OBVIOUS
  <2>2. ASSUME NEW m \in 1..L PROVE g[m] = IF m = 1 THEN ss[m] ELSE Joined(g[m - 1], ss[m])
    BY <1>1 DEF Builds
  <2> QED
    BY <2>1, <2>2, Zenon
<1>3. flatten = F(flatten)
  <2> HIDE DEF F
  <2> QED
    BY <1>2
<1>4. FlattenSeq(ss) = flatten[L]
  BY <1>0 DEF FlattenSeq, Joined
<1> HIDE DEF flatten
<1>5. Builds(flatten, ss, L)
  <2>1. ASSUME NEW m \in 1..L
        PROVE  flatten[m] = IF m = 1 THEN ss[1] ELSE Joined(flatten[m - 1], ss[m])
    BY <1>3
  <2> QED
    BY <2>1 DEF Builds
<1>6. L <= L
  OBVIOUS
<1>7. \A m \in 1..L : g[m] = flatten[m]
  <2> HIDE DEF F
  <2> QED
    BY <1>0, <1>1, <1>5, <1>6, BuildsUnique
<1> HIDE DEF F
<1> QED
  BY <1>0, <1>1, <1>4, <1>7

\* The beginnings of a flattened sequence.
Prefix(ss, n) == FlattenSeq(SubSeq(ss, 1, n))

\* The pieces are sequences.
LEMMA PiecesAre ==
  ASSUME NEW K, NEW ss, ArePieces(ss, K)
  PROVE  /\ Len(ss) \in Nat
         /\ \A m \in 1..Len(ss) : ss[m] \in Seq(K)
BY DEF ArePieces

\* A prefix is the last of its beginnings.
LEMMA PrefixBuilds ==
  ASSUME NEW K, NEW ss, ArePieces(ss, K), NEW n \in 1..Len(ss)
  PROVE  \E g \in [1..n -> Seq(K)] : Prefix(ss, n) = g[n] /\ Builds(g, ss, n)
<1> DEFINE rr == SubSeq(ss, 1, n)
<1>0. Len(ss) \in Nat /\ n \in Nat \ {0}
  BY PiecesAre
<1>1. Len(rr) = n /\ \A m \in 1..n : rr[m] = ss[m]
  BY <1>0 DEF ArePieces
<1>2. \A m \in 1..n : rr[m] \in Seq(K)
  <2>1. \A m \in 1..n : m \in 1..Len(ss)
    BY <1>0
  <2> QED
    BY <1>1, <2>1, PiecesAre
<1> HIDE DEF rr
<1>3. PICK g \in [1..n -> Seq(K)] : FlattenSeq(rr) = g[n] /\ Builds(g, rr, n)
  BY <1>0, <1>1, <1>2, FlattenIs
<1>4. Builds(g, ss, n)
  <2>1. ASSUME NEW m \in 1..n PROVE g[m] = IF m = 1 THEN ss[1] ELSE Joined(g[m - 1], ss[m])
    <3>1. g[m] = IF m = 1 THEN rr[1] ELSE Joined(g[m - 1], rr[m])
      BY <1>3 DEF Builds
    <3>2. rr[m] = ss[m] /\ rr[1] = ss[1]
      BY <1>0, <1>1
    <3> QED
      BY <3>1, <3>2
  <2> QED
    BY <2>1 DEF Builds
<1> QED
  BY <1>3, <1>4 DEF Prefix, rr

\* The shortest and the longest prefix.
LEMMA PrefixEnds ==
  ASSUME NEW K, NEW ss, ArePieces(ss, K)
  PROVE  /\ Prefix(ss, 0) = <<>>
         /\ Prefix(ss, Len(ss)) = FlattenSeq(ss)
<1>1. SubSeq(ss, 1, 0) = <<>> /\ SubSeq(ss, 1, Len(ss)) = ss
  BY DEF ArePieces
<1>2. FlattenSeq(<<>>) = <<>>
  BY DEF FlattenSeq
<1> QED
  BY <1>1, <1>2 DEF Prefix

\* A prefix is a sequence of the elements of its pieces.
LEMMA PrefixIsSeq ==
  ASSUME NEW K, NEW ss, ArePieces(ss, K), NEW n \in 0..Len(ss)
  PROVE  Prefix(ss, n) \in Seq(K)
<1>1. CASE n = 0
  <2>1. Prefix(ss, n) = <<>>
    BY <1>1, PrefixEnds
  <2> QED
    BY <2>1
<1>2. CASE n # 0
  <2>1. n \in 1..Len(ss) /\ n \in 1..n
    BY <1>2, PiecesAre
  <2>2. PICK g \in [1..n -> Seq(K)] : Prefix(ss, n) = g[n]
    BY <2>1, PrefixBuilds
  <2> QED
    BY <2>1, <2>2
<1> QED
  BY <1>1, <1>2

\* A prefix is the one before it with a piece more.
LEMMA PrefixStep ==
  ASSUME NEW K, NEW ss, ArePieces(ss, K), NEW n \in 1..Len(ss)
  PROVE  Prefix(ss, n) = Prefix(ss, n - 1) \o ss[n]
<1>0. Len(ss) \in Nat /\ n \in Nat
  BY PiecesAre
<1>1. PICK g : Prefix(ss, n) = g[n] /\ Builds(g, ss, n)
  BY PrefixBuilds
<1>a. Builds(g, ss, n)
  BY <1>1
<1>2. CASE n = 1
  <2>1. g[1] = ss[1]
    BY <1>0, <1>1, <1>2, BuildsFirst
  <2>2. ss[1] \in Seq(K)
    BY <1>2, PiecesAre
  <2>3. <<>> \o ss[1] = ss[1]
    BY <2>2, ConcatEmptySeq
  <2>4. Prefix(ss, n - 1) = <<>>
    BY <1>2, PrefixEnds
  <2> QED
    BY <1>1, <1>2, <2>1, <2>3, <2>4
<1>3. CASE n # 1
  <2>1. n - 1 \in 1..Len(ss) /\ n - 1 \in Nat /\ n - 1 <= n /\ n - 1 \in 1..(n - 1) /\ n \in 1..n
    BY <1>0, <1>3
  <2>2. PICK h \in [1..(n - 1) -> Seq(K)] : Prefix(ss, n - 1) = h[n - 1] /\ Builds(h, ss, n - 1)
    BY <2>1, PrefixBuilds
  <2>3. h[n - 1] = g[n - 1]
    BY <1>0, <1>1, <2>1, <2>2, BuildsUnique
  <2>4. g[n] = Joined(g[n - 1], ss[n])
    BY <1>a, <1>3, <2>1, BuildsStep
  <2> QED
    BY <1>1, <2>2, <2>3, <2>4 DEF Joined
<1> QED
  BY <1>2, <1>3

\* A piece starts where the prefix before it ends.
LEMMA StartIs ==
  ASSUME NEW K, NEW ss, ArePieces(ss, K), NEW n \in 1..Len(ss) + 1
  PROVE  StartOf(ss, n) = Len(Prefix(ss, n - 1)) /\ StartOf(ss, n) \in Nat
<1>1. n - 1 \in 0..Len(ss)
  BY PiecesAre
<1>2. Prefix(ss, n - 1) \in Seq(K)
  BY <1>1, PrefixIsSeq
<1>3. StartOf(ss, n) = Len(Prefix(ss, n - 1))
  BY DEF StartOf, Prefix
<1> QED
  BY <1>2, <1>3, LenProperties

\* A piece starts where the one before it ends.
LEMMA StartsFollow ==
  ASSUME NEW K, NEW ss, ArePieces(ss, K), NEW n \in 1..Len(ss)
  PROVE  StartOf(ss, n + 1) = StartOf(ss, n) + Len(ss[n])
<1>1. n \in 1..Len(ss) + 1 /\ n + 1 \in 1..Len(ss) + 1 /\ (n + 1) - 1 = n /\ n - 1 \in 0..Len(ss)
  BY PiecesAre
<1>2. StartOf(ss, n + 1) = Len(Prefix(ss, n))
  BY <1>1, StartIs
<1>3. StartOf(ss, n) = Len(Prefix(ss, n - 1))
  BY <1>1, StartIs
<1>4. Prefix(ss, n - 1) \in Seq(K)
  BY <1>1, PrefixIsSeq
<1>5. ss[n] \in Seq(K)
  BY PiecesAre
<1>6. Len(Prefix(ss, n - 1) \o ss[n]) = Len(Prefix(ss, n - 1)) + Len(ss[n])
  BY <1>4, <1>5, ConcatProperties
<1>7. Prefix(ss, n) = Prefix(ss, n - 1) \o ss[n]
  BY PrefixStep
<1> QED
  BY <1>2, <1>3, <1>6, <1>7

\* The flattened sequence ends where the next piece would start.
LEMMA FlatIs ==
  ASSUME NEW K, NEW ss, ArePieces(ss, K)
  PROVE  /\ StartOf(ss, 1) = 0
         /\ FlattenSeq(ss) \in Seq(K)
         /\ Len(FlattenSeq(ss)) = StartOf(ss, Len(ss) + 1)
<1>1. /\ 1 \in 1..Len(ss) + 1 /\ 1 - 1 = 0
      /\ Len(ss) + 1 \in 1..Len(ss) + 1 /\ (Len(ss) + 1) - 1 = Len(ss) /\ Len(ss) \in 0..Len(ss)
  BY PiecesAre
<1>2. Prefix(ss, Len(ss)) \in Seq(K)
  BY <1>1, PrefixIsSeq
<1>3. StartOf(ss, 1) = Len(Prefix(ss, 0))
  BY <1>1, StartIs
<1>4. StartOf(ss, Len(ss) + 1) = Len(Prefix(ss, Len(ss)))
  BY <1>1, StartIs
<1>5. Len(<<>>) = 0
  OBVIOUS
<1> QED
  BY <1>2, <1>3, <1>4, <1>5, PrefixEnds

\* A piece ends before a later one starts.
LEMMA PiecesAreApart ==
  ASSUME NEW K, NEW ss, ArePieces(ss, K), NEW m \in 1..Len(ss), NEW n \in 1..Len(ss) + 1, m < n
  PROVE  StartOf(ss, m) + Len(ss[m]) <= StartOf(ss, n)
<1>0. Len(ss) \in Nat /\ Len(ss[m]) \in Nat
  BY PiecesAre, LenProperties
<1> DEFINE T == {N \in 1..Len(ss) + 1 : m < N /\ ~ (StartOf(ss, m) + Len(ss[m]) <= StartOf(ss, N))}
<1>1. SUFFICES ASSUME T # {} PROVE FALSE
  BY <1>1
<1>2. PICK N \in T : \A k \in T : N <= k
  <2>1. T \in SUBSET Nat
    BY <1>0
  <2> HIDE DEF T
  <2> QED
    BY <1>1, <2>1, LeastNatural
<1>3. /\ N - 1 \in 1..Len(ss) /\ N - 1 \in 1..Len(ss) + 1 /\ N = (N - 1) + 1
      /\ N \in 1..Len(ss) + 1 /\ N \in Nat /\ ~ (N <= N - 1)
  BY <1>0, <1>2
<1>4. N - 1 \notin T /\ m < N /\ ~ (StartOf(ss, m) + Len(ss[m]) <= StartOf(ss, N))
  BY <1>2, <1>3
<1>5. StartOf(ss, N) = StartOf(ss, N - 1) + Len(ss[N - 1])
  BY <1>3, StartsFollow
<1>6. StartOf(ss, N - 1) \in Nat /\ StartOf(ss, N) \in Nat
  BY <1>3, StartIs
<1>7. m \in 1..Len(ss) + 1 /\ StartOf(ss, m) \in Nat
  <2>1. m \in 1..Len(ss) + 1
    BY <1>0
  <2> QED
    BY <2>1, StartIs
<1>8. Len(ss[N - 1]) \in Nat
  BY <1>3, PiecesAre, LenProperties
<1>9. CASE N - 1 = m
  BY <1>4, <1>5, <1>6, <1>7, <1>9
<1>a. CASE N - 1 # m
  <2>1. m < N - 1
    BY <1>3, <1>4, <1>7, <1>a
  <2>2. StartOf(ss, m) + Len(ss[m]) <= StartOf(ss, N - 1)
    BY <1>3, <1>4, <2>1
  <2> HIDE DEF T
  <2> QED
    BY <1>0, <1>4, <1>5, <1>6, <1>7, <1>8, <2>2
<1> QED
  BY <1>9, <1>a

\* What a concatenation has where.
LEMMA ConcatIs ==
  ASSUME NEW K, NEW s \in Seq(K), NEW t \in Seq(K)
  PROVE  /\ Len(s) \in Nat /\ Len(t) \in Nat
         /\ Len(s \o t) = Len(s) + Len(t)
         /\ \A k \in 1..Len(s) : (s \o t)[k] = s[k]
         /\ \A k \in 1..Len(t) : (s \o t)[Len(s) + k] = t[k]
OBVIOUS

\* A piece is in the flattened sequence, at its start.
LEMMA PieceIs ==
  ASSUME NEW K, NEW ss, ArePieces(ss, K), NEW n \in 1..Len(ss), NEW j \in 1..Len(ss[n])
  PROVE  /\ StartOf(ss, n) + j \in 1..Len(FlattenSeq(ss))
         /\ FlattenSeq(ss)[StartOf(ss, n) + j] = ss[n][j]
<1>0. Len(ss) \in Nat /\ n \in Nat /\ Len(ss[n]) \in Nat /\ n \in 1..Len(ss) + 1
  BY PiecesAre, LenProperties
<1> DEFINE p == StartOf(ss, n) + j
           Good(N) == p \in 1..Len(Prefix(ss, N)) /\ Prefix(ss, N)[p] = ss[n][j]
           T == {N \in n..Len(ss) : ~ Good(N)}
<1>1. StartOf(ss, n) \in Nat
  BY <1>0, StartIs
<1>2. j \in Nat \ {0} /\ p \in Nat \ {0} /\ j <= Len(ss[n])
  BY <1>0, <1>1
<1>b. ASSUME NEW N \in n..Len(ss), N # n => Good(N - 1)
      PROVE  Good(N)
  <2>1. N \in 1..Len(ss) /\ N - 1 \in 0..Len(ss) /\ N \in Nat
    BY <1>0
  <2>2. Prefix(ss, N) = Prefix(ss, N - 1) \o ss[N]
    BY <2>1, PrefixStep
  <2>3. Prefix(ss, N - 1) \in Seq(K)
    BY <2>1, PrefixIsSeq
  <2>4. ss[N] \in Seq(K)
    BY <2>1, PiecesAre
  <2>5. /\ Len(Prefix(ss, N - 1)) \in Nat /\ Len(ss[N]) \in Nat
        /\ Len(Prefix(ss, N)) = Len(Prefix(ss, N - 1)) + Len(ss[N])
        /\ \A k \in 1..Len(Prefix(ss, N - 1)) : Prefix(ss, N)[k] = Prefix(ss, N - 1)[k]
        /\ \A k \in 1..Len(ss[N]) : Prefix(ss, N)[Len(Prefix(ss, N - 1)) + k] = ss[N][k]
    BY <2>2, <2>3, <2>4, ConcatIs
  <2>7. CASE N = n
    <3>1. Len(Prefix(ss, N - 1)) = StartOf(ss, n)
      BY <2>7 DEF StartOf, Prefix
    <3>2. p = Len(Prefix(ss, N - 1)) + j /\ j \in 1..Len(ss[N])
      BY <2>7, <3>1
    <3>3. Prefix(ss, N)[p] = ss[n][j]
      BY <2>5, <2>7, <3>2
    <3>4. Len(Prefix(ss, N)) = Len(Prefix(ss, N - 1)) + Len(ss[N])
      BY <2>5
    <3>6. Len(Prefix(ss, N - 1)) \in Nat /\ Len(ss[N]) \in Nat
      BY <2>5
    <3>7. ASSUME NEW a \in Nat, NEW b \in Nat, NEW x \in 1..b PROVE a + x \in 1..(a + b)
      OBVIOUS
    <3> HIDE DEF p
    <3>5. p \in 1..Len(Prefix(ss, N))
      BY <3>2, <3>4, <3>6, <3>7, Zenon
    <3> QED
      BY <3>3, <3>5
  <2>8. CASE N # n
    <3>2. p \in 1..Len(Prefix(ss, N - 1)) /\ Prefix(ss, N - 1)[p] = ss[n][j]
      BY <1>b, <2>8
    <3>3. Prefix(ss, N)[p] = ss[n][j]
      BY <2>5, <3>2
    <3>5. ASSUME NEW a \in Nat, NEW b \in Nat, NEW x \in 1..a PROVE x \in 1..(a + b)
      OBVIOUS
    <3>6. Len(Prefix(ss, N)) = Len(Prefix(ss, N - 1)) + Len(ss[N])
      BY <2>5
    <3>7. Len(Prefix(ss, N - 1)) \in Nat /\ Len(ss[N]) \in Nat
      BY <2>5
    <3> HIDE DEF p
    <3>4. p \in 1..Len(Prefix(ss, N))
      BY <3>2, <3>5, <3>6, <3>7, Zenon
    <3> QED
      BY <3>3, <3>4
  <2> QED
    BY <2>7, <2>8
<1> HIDE DEF Good
<1>c. T = {}
  <2> SUFFICES ASSUME T # {} PROVE FALSE
    OBVIOUS
  <2>1. PICK N \in T : \A k \in T : N <= k
    <3>1. T \in SUBSET Nat
      BY <1>0
    <3> HIDE DEF T
    <3> QED
      BY <3>1, LeastNatural
  <2>2. N \in n..Len(ss) /\ ~ Good(N)
    BY <2>1
  <2>3. N # n => N - 1 \in n..Len(ss) /\ ~ (N <= N - 1)
    BY <1>0, <2>2
  <2>4. N # n => Good(N - 1)
    BY <2>1, <2>3
  <2> QED
    BY <1>b, <2>2, <2>4
<1>d. Len(ss) \in n..Len(ss)
  BY <1>0
<1>e. Good(Len(ss))
  BY <1>c, <1>d
<1> QED
  BY <1>e, PrefixEnds DEF Good

-----------------------------------------------------------------------------
(***************************************************************************)
(* The text of a query                                                     *)
(***************************************************************************)
\* The kinds of the tokens in a text.
Parts ==
  Clauses \cup {"+", "ICONST", "SCONST", "-", "(", ")", "SQL_COMMENT", "ROW", "PARAM",
                "IDENT", "COMMA", "SELECT", "USCONST", "UESCAPE", "TYPECAST"}

\* What a joined sequence has where.
LEMMA JoinedIs ==
  ASSUME NEW K, NEW s \in Seq(K), NEW t \in Seq(K)
  PROVE  /\ Joined(s, t) \in Seq(K)
         /\ Len(Joined(s, t)) = Len(s) + Len(t)
         /\ \A j \in 1..Len(t) : Joined(s, t)[Len(s) + j] = t[j]
BY DEF Joined

\* The operands one by one.
LEMMA OperandsAre ==
  Operands = {"5", "'x'", "-5", "-(5)", "-comment_5", "row", "$1", "$2", "a", "f(5_a)",
              "f(a)", "(select_5)", "u'x'_uescape", "5::t(5)"}
BY DEF Operands, Written

\* The operands that have a constant.
LEMMA ConstantsAre ==
  ASSUME NEW o
  PROVE  HasConstant(o) <=>
           o \in {"5", "'x'", "-5", "-(5)", "-comment_5", "f(5_a)", "(select_5)",
                  "u'x'_uescape", "5::t(5)"}
BY DEF HasConstant, ConstantIn

\* What is written for an operand, and where its constant is.
LEMMA WrittenIs ==
  /\ Written["5"] = <<"ICONST">> /\ Written["'x'"] = <<"SCONST">>
  /\ Written["-5"] = <<"-", "ICONST">>
  /\ Written["-(5)"] = <<"-", "(", "ICONST", ")">>
  /\ Written["-comment_5"] = <<"-", "SQL_COMMENT", "ICONST">>
  /\ Written["row"] = <<"ROW">>
  /\ Written["$1"] = <<"PARAM">> /\ Written["$2"] = <<"PARAM">>
  /\ Written["a"] = <<"IDENT">>
  /\ Written["f(5_a)"] = <<"IDENT", "(", "ICONST", "COMMA", "IDENT", ")">>
  /\ Written["f(a)"] = <<"IDENT", "(", "IDENT", ")">>
  /\ Written["(select_5)"] = <<"(", "SELECT", "ICONST", ")">>
  /\ Written["u'x'_uescape"] = <<"USCONST", "UESCAPE", "SCONST">>
  /\ Written["5::t(5)"] = <<"ICONST", "TYPECAST", "IDENT", "(", "ICONST", ")">>
BY DEF Written

\* What is written for an operand is a short sequence of tokens.
LEMMA WrittenIsSeq ==
  ASSUME NEW o \in Operands
  PROVE  Written[o] \in Seq(Parts) /\ Len(Written[o]) \in 1..6
<1>1. Written["5"] \in Seq(Parts) /\ Len(Written["5"]) \in 1..6
  <2>1. Written["5"] = <<"ICONST">>
    BY WrittenIs
  <2> QED
    BY <2>1 DEF Parts
<1>2. Written["'x'"] \in Seq(Parts) /\ Len(Written["'x'"]) \in 1..6
  <2>1. Written["'x'"] = <<"SCONST">>
    BY WrittenIs
  <2> QED
    BY <2>1 DEF Parts
<1>3. Written["-5"] \in Seq(Parts) /\ Len(Written["-5"]) \in 1..6
  <2>1. Written["-5"] = <<"-", "ICONST">>
    BY WrittenIs
  <2> QED
    BY <2>1 DEF Parts
<1>4. Written["-(5)"] \in Seq(Parts) /\ Len(Written["-(5)"]) \in 1..6
  <2>1. Written["-(5)"] = <<"-", "(", "ICONST", ")">>
    BY WrittenIs
  <2> QED
    BY <2>1 DEF Parts
<1>5. Written["-comment_5"] \in Seq(Parts) /\ Len(Written["-comment_5"]) \in 1..6
  <2>1. Written["-comment_5"] = <<"-", "SQL_COMMENT", "ICONST">>
    BY WrittenIs
  <2> QED
    BY <2>1 DEF Parts
<1>6. Written["row"] \in Seq(Parts) /\ Len(Written["row"]) \in 1..6
  <2>1. Written["row"] = <<"ROW">>
    BY WrittenIs
  <2> QED
    BY <2>1 DEF Parts
<1>7. Written["$1"] \in Seq(Parts) /\ Len(Written["$1"]) \in 1..6
  <2>1. Written["$1"] = <<"PARAM">>
    BY WrittenIs
  <2> QED
    BY <2>1 DEF Parts
<1>8. Written["$2"] \in Seq(Parts) /\ Len(Written["$2"]) \in 1..6
  <2>1. Written["$2"] = <<"PARAM">>
    BY WrittenIs
  <2> QED
    BY <2>1 DEF Parts
<1>9. Written["a"] \in Seq(Parts) /\ Len(Written["a"]) \in 1..6
  <2>1. Written["a"] = <<"IDENT">>
    BY WrittenIs
  <2> QED
    BY <2>1 DEF Parts
<1>a. Written["f(5_a)"] \in Seq(Parts) /\ Len(Written["f(5_a)"]) \in 1..6
  <2>1. Written["f(5_a)"] = <<"IDENT", "(", "ICONST", "COMMA", "IDENT", ")">>
    BY WrittenIs
  <2> QED
    BY <2>1 DEF Parts
<1>b. Written["f(a)"] \in Seq(Parts) /\ Len(Written["f(a)"]) \in 1..6
  <2>1. Written["f(a)"] = <<"IDENT", "(", "IDENT", ")">>
    BY WrittenIs
  <2> QED
    BY <2>1 DEF Parts
<1>c. Written["(select_5)"] \in Seq(Parts) /\ Len(Written["(select_5)"]) \in 1..6
  <2>1. Written["(select_5)"] = <<"(", "SELECT", "ICONST", ")">>
    BY WrittenIs
  <2> QED
    BY <2>1 DEF Parts
<1>d. Written["u'x'_uescape"] \in Seq(Parts) /\ Len(Written["u'x'_uescape"]) \in 1..6
  <2>1. Written["u'x'_uescape"] = <<"USCONST", "UESCAPE", "SCONST">>
    BY WrittenIs
  <2> QED
    BY <2>1 DEF Parts
<1>e. Written["5::t(5)"] \in Seq(Parts) /\ Len(Written["5::t(5)"]) \in 1..6
  <2>1. Written["5::t(5)"] = <<"ICONST", "TYPECAST", "IDENT", "(", "ICONST", ")">>
    BY WrittenIs
  <2> QED
    BY <2>1 DEF Parts
<1> QED
  BY OperandsAre, <1>1, <1>2, <1>3, <1>4, <1>5, <1>6, <1>7, <1>8, <1>9, <1>a, <1>b, <1>c,
     <1>d, <1>e

\* Where the constant of an operand is.
LEMMA ConstantInIs ==
  ASSUME NEW o \in Operands, HasConstant(o)
  PROVE  ConstantIn[o] =
           IF o \in {"f(5_a)", "(select_5)"} THEN [offset |-> 2, tokens |-> 1]
           ELSE IF o = "5::t(5)" THEN [offset |-> 0, tokens |-> 1]
           ELSE [offset |-> 0, tokens |-> Len(Written[o])]
BY DEF ConstantIn, HasConstant

\* How many tokens are measured, and replaced, for the constant of an operand.
Replaced(o) == IF o \in {"-5", "-(5)", "-comment_5"} THEN 2 ELSE 1

\* The constant is inside what is written, and what is replaced for it inside the
\* constant; two tokens are replaced after a sign.
LEMMA ConstantIsWritten ==
  ASSUME NEW o \in Operands, HasConstant(o)
  PROVE  /\ ConstantIn[o].offset \in Nat
         /\ ConstantIn[o].tokens \in Nat
         /\ Replaced(o) <= ConstantIn[o].tokens
         /\ ConstantIn[o].offset + ConstantIn[o].tokens <= Len(Written[o])
         /\ Written[o][ConstantIn[o].offset + 1] = "-" <=> Replaced(o) = 2
<1>1. o \in {"5", "'x'", "-5", "-(5)", "-comment_5", "f(5_a)", "(select_5)",
             "u'x'_uescape", "5::t(5)"}
  BY ConstantsAre
<1>2. CASE o = "5"
  <2>1. ConstantIn[o] = [offset |-> 0, tokens |-> Len(Written[o])]
    BY <1>2, ConstantInIs
  <2>2. ConstantIn[o].offset = 0 /\ ConstantIn[o].tokens = Len(Written[o])
    BY <2>1
  <2>3. Len(Written["5"]) = 1 /\ Written["5"][1] = "ICONST"
    <3>1. Written["5"] = <<"ICONST">>
      BY WrittenIs
    <3> QED
      BY <3>1
  <2> QED
    BY <1>2, <2>2, <2>3 DEF Replaced
<1>3. CASE o = "'x'"
  <2>1. ConstantIn[o] = [offset |-> 0, tokens |-> Len(Written[o])]
    BY <1>3, ConstantInIs
  <2>2. ConstantIn[o].offset = 0 /\ ConstantIn[o].tokens = Len(Written[o])
    BY <2>1
  <2>3. Len(Written["'x'"]) = 1 /\ Written["'x'"][1] = "SCONST"
    <3>1. Written["'x'"] = <<"SCONST">>
      BY WrittenIs
    <3> QED
      BY <3>1
  <2> QED
    BY <1>3, <2>2, <2>3 DEF Replaced
<1>4. CASE o = "-5"
  <2>1. ConstantIn[o] = [offset |-> 0, tokens |-> Len(Written[o])]
    BY <1>4, ConstantInIs
  <2>2. ConstantIn[o].offset = 0 /\ ConstantIn[o].tokens = Len(Written[o])
    BY <2>1
  <2>3. Len(Written["-5"]) = 2 /\ Written["-5"][1] = "-"
    <3>1. Written["-5"] = <<"-", "ICONST">>
      BY WrittenIs
    <3> QED
      BY <3>1
  <2> QED
    BY <1>4, <2>2, <2>3 DEF Replaced
<1>5. CASE o = "-(5)"
  <2>1. ConstantIn[o] = [offset |-> 0, tokens |-> Len(Written[o])]
    BY <1>5, ConstantInIs
  <2>2. ConstantIn[o].offset = 0 /\ ConstantIn[o].tokens = Len(Written[o])
    BY <2>1
  <2>3. Len(Written["-(5)"]) = 4 /\ Written["-(5)"][1] = "-"
    <3>1. Written["-(5)"] = <<"-", "(", "ICONST", ")">>
      BY WrittenIs
    <3> QED
      BY <3>1
  <2> QED
    BY <1>5, <2>2, <2>3 DEF Replaced
<1>6. CASE o = "-comment_5"
  <2>1. ConstantIn[o] = [offset |-> 0, tokens |-> Len(Written[o])]
    BY <1>6, ConstantInIs
  <2>2. ConstantIn[o].offset = 0 /\ ConstantIn[o].tokens = Len(Written[o])
    BY <2>1
  <2>3. Len(Written["-comment_5"]) = 3 /\ Written["-comment_5"][1] = "-"
    <3>1. Written["-comment_5"] = <<"-", "SQL_COMMENT", "ICONST">>
      BY WrittenIs
    <3> QED
      BY <3>1
  <2> QED
    BY <1>6, <2>2, <2>3 DEF Replaced
<1>7. CASE o = "f(5_a)"
  <2>1. ConstantIn[o] = [offset |-> 2, tokens |-> 1]
    BY <1>7, ConstantInIs
  <2>2. ConstantIn[o].offset = 2 /\ ConstantIn[o].tokens = 1
    BY <2>1
  <2>3. Len(Written["f(5_a)"]) = 6 /\ Written["f(5_a)"][3] = "ICONST"
    <3>1. Written["f(5_a)"] = <<"IDENT", "(", "ICONST", "COMMA", "IDENT", ")">>
      BY WrittenIs
    <3> QED
      BY <3>1
  <2> QED
    BY <1>7, <2>2, <2>3 DEF Replaced
<1>8. CASE o = "(select_5)"
  <2>1. ConstantIn[o] = [offset |-> 2, tokens |-> 1]
    BY <1>8, ConstantInIs
  <2>2. ConstantIn[o].offset = 2 /\ ConstantIn[o].tokens = 1
    BY <2>1
  <2>3. Len(Written["(select_5)"]) = 4 /\ Written["(select_5)"][3] = "ICONST"
    <3>1. Written["(select_5)"] = <<"(", "SELECT", "ICONST", ")">>
      BY WrittenIs
    <3> QED
      BY <3>1
  <2> QED
    BY <1>8, <2>2, <2>3 DEF Replaced
<1>9. CASE o = "u'x'_uescape"
  <2>1. ConstantIn[o] = [offset |-> 0, tokens |-> Len(Written[o])]
    BY <1>9, ConstantInIs
  <2>2. ConstantIn[o].offset = 0 /\ ConstantIn[o].tokens = Len(Written[o])
    BY <2>1
  <2>3. Len(Written["u'x'_uescape"]) = 3 /\ Written["u'x'_uescape"][1] = "USCONST"
    <3>1. Written["u'x'_uescape"] = <<"USCONST", "UESCAPE", "SCONST">>
      BY WrittenIs
    <3> QED
      BY <3>1
  <2> QED
    BY <1>9, <2>2, <2>3 DEF Replaced
<1>a. CASE o = "5::t(5)"
  <2>1. ConstantIn[o] = [offset |-> 0, tokens |-> 1]
    BY <1>a, ConstantInIs
  <2>2. ConstantIn[o].offset = 0 /\ ConstantIn[o].tokens = 1
    BY <2>1
  <2>3. Len(Written["5::t(5)"]) = 6 /\ Written["5::t(5)"][1] = "ICONST"
    <3>1. Written["5::t(5)"] = <<"ICONST", "TYPECAST", "IDENT", "(", "ICONST", ")">>
      BY WrittenIs
    <3> QED
      BY <3>1
  <2> QED
    BY <1>a, <2>2, <2>3 DEF Replaced
<1> QED
  BY <1>1, <1>2, <1>3, <1>4, <1>5, <1>6, <1>7, <1>8, <1>9, <1>a

\* The parts of a query.
LEMMA QueryIs ==
  ASSUME NEW q, IsQuery(q)
  PROVE  /\ Len(q) \in Nat
         /\ \A c \in 1..Len(q) :
              /\ q[c].name \in Clauses /\ q[c].operands \in Seq(Operands)
              /\ Len(q[c].operands) \in Nat
              /\ \A k \in 1..Len(q[c].operands) : q[c].operands[k] \in Operands
         /\ \A c, d \in 1..Len(q) : q[c].name = "target" /\ q[d].name = "group" => c < d
<1>1. q \in Seq([name : Clauses, operands : Seq(Operands)])
  BY DEF IsQuery
<1>2. \A c \in 1..Len(q) : q[c] \in [name : Clauses, operands : Seq(Operands)]
  BY <1>1, ElementOfSeq
<1>3. Len(q) \in Nat
  BY <1>1
<1>4. ASSUME NEW c \in 1..Len(q)
      PROVE  /\ q[c].name \in Clauses /\ q[c].operands \in Seq(Operands)
             /\ Len(q[c].operands) \in Nat
             /\ \A k \in 1..Len(q[c].operands) : q[c].operands[k] \in Operands
  <2>1. q[c].name \in Clauses /\ q[c].operands \in Seq(Operands)
    BY <1>2
  <2> QED
    BY <2>1
<1> QED
  BY <1>3, <1>4 DEF IsQuery

\* An operand that is not the first of its clause has an operator before it.
Separators(k) == IF k = 1 THEN 0 ELSE 1

\* The pieces of a clause are its operands with the operators before them.
LEMMA OperandPiecesAre ==
  ASSUME NEW c, c.operands \in Seq(Operands)
  PROVE  /\ Len(OperandPieces(c)) = Len(c.operands)
         /\ ArePieces(OperandPieces(c), Parts)
         /\ \A k \in 1..Len(c.operands) :
              /\ Len(OperandPieces(c)[k]) = Separators(k) + Len(Written[c.operands[k]])
              /\ \A j \in 1..Len(Written[c.operands[k]]) :
                   OperandPieces(c)[k][Separators(k) + j] = Written[c.operands[k]][j]
<1>0. Len(c.operands) \in Nat
  OBVIOUS
<1>1. ASSUME NEW k \in 1..Len(c.operands)
      PROVE  /\ OperandPieces(c)[k] \in Seq(Parts)
             /\ Len(OperandPieces(c)[k]) = Separators(k) + Len(Written[c.operands[k]])
             /\ \A j \in 1..Len(Written[c.operands[k]]) :
                  OperandPieces(c)[k][Separators(k) + j] = Written[c.operands[k]][j]
  <2> DEFINE w == Written[c.operands[k]]
             s == IF k = 1 THEN <<>> ELSE <<"+">>
  <2>1. w \in Seq(Parts)
    <3>1. c.operands[k] \in Operands
      OBVIOUS
    <3> QED
      BY <3>1, WrittenIsSeq
  <2>2. s \in Seq(Parts) /\ Len(s) = Separators(k)
    <3>1. CASE k = 1
      BY <3>1 DEF Separators, Parts
    <3>2. CASE k # 1
      BY <3>2 DEF Separators, Parts
    <3> QED
      BY <3>1, <3>2
  <2>3. OperandPieces(c)[k] = Joined(s, w)
    BY <1>0 DEF OperandPieces, Joined
  <2> HIDE DEF w, s
  <2>4. /\ Joined(s, w) \in Seq(Parts)
        /\ Len(Joined(s, w)) = Len(s) + Len(w)
        /\ \A j \in 1..Len(w) : Joined(s, w)[Len(s) + j] = w[j]
    BY <2>1, <2>2, JoinedIs
  <2> QED
    BY <2>2, <2>3, <2>4 DEF w
<1>2. DOMAIN OperandPieces(c) = 1..Len(c.operands)
  BY DEF OperandPieces
<1>3. OperandPieces(c) = [k \in 1..Len(c.operands) |-> OperandPieces(c)[k]]
  BY <1>2 DEF OperandPieces
<1>4. OperandPieces(c) \in Seq(Seq(Parts))
  <2>1. OperandPieces(c) \in [1..Len(c.operands) -> Seq(Parts)]
    BY <1>1, <1>3
  <2> QED
    BY <1>0, <2>1, SeqDef
<1>5. Len(OperandPieces(c)) = Len(c.operands)
  BY <1>0, <1>2, <1>4
<1> QED
  BY <1>1, <1>4, <1>5 DEF ArePieces

\* The pieces of a query are its clauses with their words.
LEMMA ClausePiecesAre ==
  ASSUME NEW q, IsQuery(q)
  PROVE  /\ Len(ClausePieces(q)) = Len(q)
         /\ ArePieces(ClausePieces(q), Parts)
         /\ \A c \in 1..Len(q) :
              /\ Len(ClausePieces(q)[c]) = 1 + Len(FlattenSeq(OperandPieces(q[c])))
              /\ \A j \in 1..Len(FlattenSeq(OperandPieces(q[c]))) :
                   ClausePieces(q)[c][1 + j] = FlattenSeq(OperandPieces(q[c]))[j]
<1>0. Len(q) \in Nat
  BY QueryIs
<1>1. ASSUME NEW c \in 1..Len(q)
      PROVE  /\ ClausePieces(q)[c] \in Seq(Parts)
             /\ Len(ClausePieces(q)[c]) = 1 + Len(FlattenSeq(OperandPieces(q[c])))
             /\ \A j \in 1..Len(FlattenSeq(OperandPieces(q[c]))) :
                  ClausePieces(q)[c][1 + j] = FlattenSeq(OperandPieces(q[c]))[j]
  <2> DEFINE w == FlattenSeq(OperandPieces(q[c]))
             s == <<q[c].name>>
  <2>1. w \in Seq(Parts)
    <3>1. q[c].operands \in Seq(Operands)
      BY QueryIs
    <3>2. ArePieces(OperandPieces(q[c]), Parts)
      BY <3>1, OperandPiecesAre
    <3> QED
      BY <3>2, FlatIs
  <2>2. s \in Seq(Parts) /\ Len(s) = 1
    <3>1. q[c].name \in Clauses
      BY QueryIs
    <3>2. Clauses \in SUBSET Parts
      BY DEF Parts
    <3> QED
      BY <3>1, <3>2
  <2>3. ClausePieces(q)[c] = Joined(s, w)
    BY <1>0 DEF ClausePieces, Joined
  <2> HIDE DEF w, s
  <2>4. /\ Joined(s, w) \in Seq(Parts)
        /\ Len(Joined(s, w)) = Len(s) + Len(w)
        /\ \A j \in 1..Len(w) : Joined(s, w)[Len(s) + j] = w[j]
    BY <2>1, <2>2, JoinedIs, ZenonT(40)
  <2> QED
    BY <2>2, <2>3, <2>4 DEF w
<1>2. DOMAIN ClausePieces(q) = 1..Len(q)
  BY DEF ClausePieces
<1>3. ClausePieces(q) = [c \in 1..Len(q) |-> ClausePieces(q)[c]]
  BY <1>2 DEF ClausePieces
<1>4. ClausePieces(q) \in Seq(Seq(Parts))
  BY <1>0, <1>1, <1>3
<1>5. Len(ClausePieces(q)) = Len(q)
  BY <1>0, <1>2, <1>4
<1> QED
  BY <1>1, <1>4, <1>5 DEF ArePieces

\* The tokens of a text are where they say.
LEMMA TextIs ==
  ASSUME NEW q, IsQuery(q)
  PROVE  /\ Len(TextOf(q)) \in Nat
         /\ Len(TextOf(q)) = Len(FlattenSeq(ClausePieces(q)))
         /\ \A p \in 1..Len(TextOf(q)) :
              /\ TextOf(q)[p].kind = FlattenSeq(ClausePieces(q))[p]
              /\ TextOf(q)[p].kind \in Parts
              /\ TextOf(q)[p].at = p - 1
         /\ EndOf(TextOf(q)) = Len(TextOf(q))
<1> DEFINE kinds == FlattenSeq(ClausePieces(q))
<1>1. kinds \in Seq(Parts)
  <2>1. ArePieces(ClausePieces(q), Parts)
    BY ClausePiecesAre
  <2> QED
    BY <2>1, FlatIs
<1> HIDE DEF kinds
<1>2. Len(kinds) \in Nat
  BY <1>1
<1>3. TextOf(q) = [p \in 1..Len(kinds) |-> [kind |-> kinds[p], at |-> p - 1]]
  BY DEF TextOf, kinds
<1>4. TextOf(q) \in Seq([kind : Parts, at : Nat])
  BY <1>1, <1>2, <1>3
<1>5. Len(TextOf(q)) = Len(kinds)
  BY <1>2, <1>3, <1>4
<1>6. ASSUME NEW p \in 1..Len(kinds)
      PROVE  TextOf(q)[p].kind = kinds[p] /\ TextOf(q)[p].at = p - 1 /\ kinds[p] \in Parts
  BY <1>1, <1>3
<1>7. EndOf(TextOf(q)) = Len(kinds)
  <2>1. CASE Len(kinds) = 0
    <3>1. TextOf(q) = <<>>
      BY <1>4, <1>5, <2>1
    <3> QED
      BY <2>1, <3>1 DEF EndOf
  <2>2. CASE Len(kinds) # 0
    <3>1. TextOf(q) # <<>> /\ Len(kinds) \in 1..Len(kinds)
      BY <1>2, <1>5, <2>2
    <3>2. EndOf(TextOf(q)) = TextOf(q)[Len(kinds)].at + 1
      BY <1>5, <3>1 DEF EndOf
    <3> QED
      BY <1>2, <1>6, <3>1, <3>2
  <2> QED
    BY <2>1, <2>2
<1> QED
  BY <1>2, <1>5, <1>6, <1>7 DEF kinds

-----------------------------------------------------------------------------
\* Where operand k of clause c is written.
WrittenAt(q, c, k) ==
  StartOf(ClausePieces(q), c) + 1 + StartOf(OperandPieces(q[c]), k) + Separators(k)

\* The tokens of an operand are in the text.
LEMMA OperandIsWritten ==
  ASSUME NEW q, IsQuery(q), NEW c \in 1..Len(q), NEW k \in 1..Len(q[c].operands),
         NEW j \in 1..Len(Written[q[c].operands[k]])
  PROVE  /\ WrittenAt(q, c, k) \in Nat
         /\ WrittenAt(q, c, k) + j \in 1..Len(TextOf(q))
         /\ TextOf(q)[WrittenAt(q, c, k) + j].kind = Written[q[c].operands[k]][j]
<1> DEFINE cp == ClausePieces(q)
           op == OperandPieces(q[c])
           w  == Written[q[c].operands[k]]
           fo == FlattenSeq(op)
<1>1. q[c].operands \in Seq(Operands) /\ Len(q) \in Nat /\ Len(q[c].operands) \in Nat
  BY QueryIs
<1>2. Len(op) = Len(q[c].operands) /\ ArePieces(op, Parts)
  BY <1>1, OperandPiecesAre
<1>3. Len(op[k]) = Separators(k) + Len(w) /\ op[k][Separators(k) + j] = w[j]
  BY <1>1, OperandPiecesAre
<1>4. Len(cp) = Len(q) /\ ArePieces(cp, Parts)
  BY ClausePiecesAre
<1>5. Len(cp[c]) = 1 + Len(fo) /\ \A n \in 1..Len(fo) : cp[c][1 + n] = fo[n]
  BY ClausePiecesAre
<1>6. Len(w) \in Nat
  <2>1. q[c].operands[k] \in Operands
    BY <1>1
  <2> QED
    BY <2>1, WrittenIsSeq
<1>7. Separators(k) \in Nat
  BY DEF Separators
<1> HIDE DEF cp, op, w, fo
<1>8. StartOf(op, k) \in Nat
  <2>1. k \in 1..Len(op) + 1
    BY <1>1, <1>2
  <2> QED
    BY <1>2, <2>1, StartIs
<1>9. StartOf(cp, c) \in Nat
  <2>1. c \in 1..Len(cp) + 1
    BY <1>1, <1>4
  <2> QED
    BY <1>4, <2>1, StartIs
<1>a. j \in 1..Len(w)
  BY DEF w
<1> DEFINE x == Separators(k) + j
           y == StartOf(op, k) + x
           z == 1 + y
<1>b. x \in 1..Len(op[k]) /\ op[k][x] = w[j]
  BY <1>3, <1>6, <1>7, <1>a
<1> HIDE DEF x
<1>c. y \in 1..Len(fo) /\ fo[y] = op[k][x]
  <2>1. k \in 1..Len(op)
    BY <1>2
  <2> QED
    BY <1>2, <1>b, <2>1, PieceIs DEF fo
<1>d. y \in Nat /\ x \in Nat
  BY <1>6, <1>7, <1>8, <1>a DEF x
<1>e. Len(fo) \in Nat
  <2>1. fo \in Seq(Parts)
    BY <1>2, FlatIs DEF fo
  <2> QED
    BY <2>1
<1> HIDE DEF y
<1>f. z \in 1..Len(cp[c]) /\ cp[c][z] = fo[y]
  BY <1>5, <1>c, <1>d, <1>e
<1> HIDE DEF z
<1>g. StartOf(cp, c) + z \in 1..Len(FlattenSeq(cp)) /\ FlattenSeq(cp)[StartOf(cp, c) + z] = cp[c][z]
  <2>1. c \in 1..Len(cp)
    BY <1>4
  <2> QED
    BY <1>4, <1>f, <2>1, PieceIs
<1>h. WrittenAt(q, c, k) \in Nat /\ WrittenAt(q, c, k) + j = StartOf(cp, c) + z
  <2>1. WrittenAt(q, c, k) = StartOf(cp, c) + 1 + StartOf(op, k) + Separators(k)
    BY DEF WrittenAt, cp, op
  <2>2. j \in Nat
    BY <1>6, <1>a
  <2> QED
    BY <1>7, <1>8, <1>9, <2>1, <2>2, SMTT(40) DEF z, y, x
<1>i. /\ StartOf(cp, c) + z \in 1..Len(TextOf(q))
      /\ TextOf(q)[StartOf(cp, c) + z].kind = FlattenSeq(cp)[StartOf(cp, c) + z]
  BY <1>g, TextIs DEF cp
<1> QED
  BY <1>b, <1>c, <1>f, <1>g, <1>h, <1>i DEF w

\* An operand ends before the next one, and before the next clause.
LEMMA OperandsAreApart ==
  ASSUME NEW q, IsQuery(q),
         NEW c \in 1..Len(q), NEW k \in 1..Len(q[c].operands),
         NEW d \in 1..Len(q), NEW l \in 1..Len(q[d].operands),
         c < d \/ (c = d /\ k < l)
  PROVE  WrittenAt(q, c, k) + Len(Written[q[c].operands[k]]) <= WrittenAt(q, d, l)
<1> DEFINE cp == ClausePieces(q)
           op(e) == OperandPieces(q[e])
           w(e, n) == Written[q[e].operands[n]]
<1>1. Len(cp) = Len(q) /\ ArePieces(cp, Parts) /\ Len(q) \in Nat
  BY ClausePiecesAre, QueryIs
<1>2. ASSUME NEW e \in 1..Len(q), NEW n \in 1..Len(q[e].operands)
      PROVE  /\ StartOf(cp, e) \in Nat /\ StartOf(op(e), n) \in Nat
             /\ Separators(n) \in Nat /\ Len(w(e, n)) \in Nat
             /\ ArePieces(op(e), Parts) /\ Len(op(e)) = Len(q[e].operands)
             /\ Len(op(e)[n]) = Separators(n) + Len(w(e, n))
             /\ n \in Nat
             /\ WrittenAt(q, e, n) = StartOf(cp, e) + 1 + StartOf(op(e), n) + Separators(n)
  <2>1. q[e].operands \in Seq(Operands) /\ Len(q[e].operands) \in Nat /\ q[e].operands[n] \in Operands
    BY QueryIs
  <2>2. /\ ArePieces(op(e), Parts) /\ Len(op(e)) = Len(q[e].operands)
        /\ Len(op(e)[n]) = Separators(n) + Len(w(e, n))
    BY <2>1, OperandPiecesAre
  <2>3. Len(w(e, n)) \in Nat
    BY <2>1, WrittenIsSeq
  <2>4. Separators(n) \in Nat
    BY DEF Separators
  <2> HIDE DEF cp, op
  <2>5. n \in 1..Len(op(e)) + 1 /\ e \in 1..Len(cp) + 1
    BY <1>1, <2>1, <2>2
  <2>6. StartOf(cp, e) \in Nat
    BY <1>1, <2>5, StartIs
  <2>7. StartOf(op(e), n) \in Nat
    BY <2>2, <2>5, StartIs
  <2>8. WrittenAt(q, e, n) = StartOf(cp, e) + 1 + StartOf(op(e), n) + Separators(n)
    BY DEF WrittenAt, op, cp
  <2> HIDE DEF w
  <2> QED
    BY <2>1, <2>2, <2>3, <2>4, <2>6, <2>7, <2>8
<1> HIDE DEF cp, op, w
<1>3. CASE c = d /\ k < l
  <2>1. StartOf(op(c), k) + Len(op(c)[k]) <= StartOf(op(c), l)
    <3>1. k \in 1..Len(op(c)) /\ l \in 1..Len(op(c)) + 1 /\ ArePieces(op(c), Parts)
      BY <1>2, <1>3, QueryIs
    <3> QED
      BY <1>3, <3>1, PiecesAreApart
  <2>2. /\ WrittenAt(q, c, k) = StartOf(cp, c) + 1 + StartOf(op(c), k) + Separators(k)
        /\ Len(op(c)[k]) = Separators(k) + Len(w(c, k))
        /\ StartOf(cp, c) \in Nat /\ StartOf(op(c), k) \in Nat
        /\ Separators(k) \in Nat /\ Len(w(c, k)) \in Nat
    BY <1>2
  <2>3. /\ WrittenAt(q, c, l) = StartOf(cp, c) + 1 + StartOf(op(c), l) + Separators(l)
        /\ StartOf(op(c), l) \in Nat /\ Separators(l) \in Nat
    BY <1>2, <1>3
  <2>4. WrittenAt(q, c, k) + Len(w(c, k)) <= WrittenAt(q, c, l)
    BY <2>1, <2>2, <2>3, SMTT(40)
  <2> QED
    BY <1>3, <2>4 DEF w
<1>4. CASE c < d
  <2>1. StartOf(cp, c) + Len(cp[c]) <= StartOf(cp, d)
    <3>1. c \in 1..Len(cp) /\ d \in 1..Len(cp) + 1
      BY <1>1
    <3> QED
      BY <1>1, <1>4, <3>1, PiecesAreApart
  <2>2. Len(cp[c]) = 1 + Len(FlattenSeq(op(c)))
    BY ClausePiecesAre DEF cp, op
  <2>3. /\ WrittenAt(q, c, k) = StartOf(cp, c) + 1 + StartOf(op(c), k) + Separators(k)
        /\ Len(op(c)[k]) = Separators(k) + Len(w(c, k))
        /\ StartOf(cp, c) \in Nat /\ StartOf(op(c), k) \in Nat
        /\ Separators(k) \in Nat /\ Len(w(c, k)) \in Nat
        /\ ArePieces(op(c), Parts) /\ Len(op(c)) = Len(q[c].operands)
    BY <1>2
  <2>4. StartOf(op(c), k) + Len(op(c)[k]) <= StartOf(op(c), Len(op(c)) + 1)
    <3>1. Len(q[c].operands) \in Nat
      BY QueryIs
    <3>2. Len(op(c)) \in Nat /\ k \in 1..Len(op(c))
      BY <2>3, <3>1
    <3>3. Len(op(c)) + 1 \in 1..Len(op(c)) + 1 /\ k < Len(op(c)) + 1
      BY <3>2
    <3> QED
      BY <2>3, <3>2, <3>3, PiecesAreApart
  <2>5. Len(FlattenSeq(op(c))) = StartOf(op(c), Len(op(c)) + 1)
    BY <2>3, FlatIs
  <2>6. /\ WrittenAt(q, d, l) = StartOf(cp, d) + 1 + StartOf(op(d), l) + Separators(l)
        /\ StartOf(cp, d) \in Nat /\ StartOf(op(d), l) \in Nat /\ Separators(l) \in Nat
    BY <1>2
  <2>7. Len(FlattenSeq(op(c))) \in Nat
    <3>1. FlattenSeq(op(c)) \in Seq(Parts)
      BY <2>3, FlatIs
    <3> QED
      BY <3>1, LenProperties
  <2>8. WrittenAt(q, c, k) + Len(w(c, k)) <= WrittenAt(q, d, l)
    <3> DEFINE a == Len(FlattenSeq(op(c)))
               b == StartOf(op(c), Len(op(c)) + 1)
    <3>1. b = a /\ a \in Nat /\ StartOf(op(c), k) + (Separators(k) + Len(w(c, k))) <= b
      BY <2>3, <2>4, <2>5, <2>7
    <3>2. StartOf(cp, c) + (1 + a) <= StartOf(cp, d)
      BY <2>1, <2>2
    <3> DEFINE v == StartOf(cp, c)
               x == StartOf(op(c), k)
               y == Separators(k)
               z == Len(w(c, k))
               r == StartOf(cp, d)
               s == StartOf(op(d), l)
               t == Separators(l)
    <3>3. WrittenAt(q, c, k) = v + 1 + x + y /\ WrittenAt(q, d, l) = r + 1 + s + t
      BY <2>3, <2>6
    <3>4. v \in Nat /\ x \in Nat /\ y \in Nat /\ z \in Nat /\ r \in Nat /\ s \in Nat /\ t \in Nat
      BY <2>3, <2>6
    <3>5. v + (1 + a) <= r /\ x + (y + z) <= b /\ b = a /\ a \in Nat
      BY <3>1, <3>2
    <3> HIDE DEF a, b, v, x, y, z, r, s, t
    <3>6. v + 1 + x + y + z <= r + 1 + s + t
      BY <3>4, <3>5
    <3> QED
      BY <3>3, <3>6 DEF z
  <2> QED
    BY <2>8 DEF w
<1> QED
  BY <1>3, <1>4

-----------------------------------------------------------------------------
(***************************************************************************)
(* Where the constants are                                                 *)
(***************************************************************************)

\* Operand k of clause c has a constant that is recorded.
Counts(q, c, k) ==
  /\ c \in 1..Len(q) /\ k \in 1..Len(q[c].operands)
  /\ HasConstant(q[c].operands[k]) /\ ~IsOrdinal(q[c])

\* Place p is that of a constant of clause c.
IsIn(q, p, c) == \E k \in 1..Len(q[c].operands) : Counts(q, c, k) /\ PlaceOf(q, c, k) = p

\* A constant is in the text, inside its operand, and starts with its sign.
LEMMA PlaceIs ==
  ASSUME NEW q, IsQuery(q), NEW c, NEW k, Counts(q, c, k)
  PROVE  /\ PlaceOf(q, c, k) = WrittenAt(q, c, k) + ConstantIn[q[c].operands[k]].offset
         /\ q[c].operands[k] \in Operands
         /\ WrittenAt(q, c, k) \in Nat
         /\ PlaceOf(q, c, k) \in Nat
         /\ PlaceOf(q, c, k) + ConstantIn[q[c].operands[k]].tokens <= Len(TextOf(q))
         /\ TextOf(q)[PlaceOf(q, c, k) + 1].kind = "-" <=> Replaced(q[c].operands[k]) = 2
         /\ PlaceOf(q, c, k) + ConstantIn[q[c].operands[k]].tokens
              <= WrittenAt(q, c, k) + Len(Written[q[c].operands[k]])
<1> DEFINE o == q[c].operands[k]
           a == WrittenAt(q, c, k)
<1>1. c \in 1..Len(q) /\ k \in 1..Len(q[c].operands) /\ HasConstant(o)
  BY DEF Counts
<1>2. o \in Operands
  BY <1>1, QueryIs
<1>3. PlaceOf(q, c, k) = a + ConstantIn[o].offset
  BY DEF PlaceOf, WrittenAt, Separators
<1>4. /\ ConstantIn[o].offset \in Nat /\ ConstantIn[o].tokens \in Nat
      /\ Replaced(o) <= ConstantIn[o].tokens
      /\ ConstantIn[o].offset + ConstantIn[o].tokens <= Len(Written[o])
      /\ Written[o][ConstantIn[o].offset + 1] = "-" <=> Replaced(o) = 2
  BY <1>1, <1>2, ConstantIsWritten
<1>5. Replaced(o) \in {1, 2} /\ Len(Written[o]) \in 1..6
  BY <1>2, WrittenIsSeq DEF Replaced
<1>6. ASSUME NEW j \in 1..Len(Written[o])
      PROVE  a \in Nat /\ a + j \in 1..Len(TextOf(q)) /\ TextOf(q)[a + j].kind = Written[o][j]
  <2>1. c \in 1..Len(q)
    BY <1>1
  <2>2. k \in 1..Len(q[c].operands)
    BY <1>1
  <2>3. j \in 1..Len(Written[q[c].operands[k]])
    BY <1>6
  <2>4. /\ WrittenAt(q, c, k) \in Nat
        /\ WrittenAt(q, c, k) + j \in 1..Len(TextOf(q))
        /\ TextOf(q)[WrittenAt(q, c, k) + j].kind = Written[q[c].operands[k]][j]
    BY <2>1, <2>2, <2>3, OperandIsWritten
  <2> QED
    BY <2>4
<1>7. Len(Written[o]) \in 1..Len(Written[o]) /\ ConstantIn[o].offset + 1 \in 1..Len(Written[o])
  <2> DEFINE x == ConstantIn[o].offset
             y == ConstantIn[o].tokens
             z == Len(Written[o])
  <2>1. x \in Nat /\ y \in Nat /\ z \in 1..6 /\ x + y <= z /\ y # 0
    BY <1>4, <1>5
  <2> HIDE DEF x, y, z
  <2>2. z \in 1..z /\ x + 1 \in 1..z
    BY <2>1
  <2> QED
    BY <2>2 DEF x, z
<1>8. a \in Nat /\ a + Len(Written[o]) \in 1..Len(TextOf(q)) /\ Len(TextOf(q)) \in Nat
  BY <1>6, <1>7, TextIs
<1>9. TextOf(q)[a + (ConstantIn[o].offset + 1)].kind = Written[o][ConstantIn[o].offset + 1]
  BY <1>6, <1>7
<1> HIDE DEF a, o
<1>a. PlaceOf(q, c, k) + 1 = a + (ConstantIn[o].offset + 1)
  BY <1>3, <1>4, <1>8
<1>b. TextOf(q)[PlaceOf(q, c, k) + 1].kind = "-" <=> Replaced(o) = 2
  BY <1>4, <1>9, <1>a
<1>c. /\ PlaceOf(q, c, k) \in Nat
      /\ PlaceOf(q, c, k) + ConstantIn[o].tokens <= Len(TextOf(q))
      /\ PlaceOf(q, c, k) + ConstantIn[o].tokens <= a + Len(Written[o])
  <2> DEFINE x == ConstantIn[o].offset
             y == ConstantIn[o].tokens
             z == Len(Written[o])
             n == Len(TextOf(q))
  <2>1. /\ x \in Nat /\ y \in Nat /\ z \in 1..6 /\ x + y <= z
        /\ a \in Nat /\ a + z \in 1..n /\ n \in Nat
    BY <1>4, <1>5, <1>8
  <2>2. PlaceOf(q, c, k) = a + x
    BY <1>3
  <2> HIDE DEF x, y, z, n
  <2>3. a + x \in Nat /\ (a + x) + y <= n /\ (a + x) + y <= a + z
    BY <2>1
  <2> QED
    BY <2>2, <2>3 DEF x, y, z, n
<1> QED
  BY <1>2, <1>3, <1>8, <1>b, <1>c DEF a, o

\* Two constants share no token.
LEMMA PlacesAreApart ==
  ASSUME NEW q, IsQuery(q), NEW c, NEW k, Counts(q, c, k), NEW d, NEW l, Counts(q, d, l),
         ~ (c = d /\ k = l)
  PROVE  \/ PlaceOf(q, c, k) + ConstantIn[q[c].operands[k]].tokens <= PlaceOf(q, d, l)
         \/ PlaceOf(q, d, l) + ConstantIn[q[d].operands[l]].tokens <= PlaceOf(q, c, k)
<1>1. ASSUME NEW e, NEW n, Counts(q, e, n), NEW f, NEW m, Counts(q, f, m), e < f \/ (e = f /\ n < m)
      PROVE  PlaceOf(q, e, n) + ConstantIn[q[e].operands[n]].tokens <= PlaceOf(q, f, m)
  <2>1. /\ e \in 1..Len(q) /\ n \in 1..Len(q[e].operands)
        /\ f \in 1..Len(q) /\ m \in 1..Len(q[f].operands) /\ HasConstant(q[f].operands[m])
        /\ HasConstant(q[e].operands[n])
    BY <1>1 DEF Counts
  <2>2. WrittenAt(q, e, n) + Len(Written[q[e].operands[n]]) <= WrittenAt(q, f, m)
    BY <1>1, <2>1, OperandsAreApart
  <2>3. /\ PlaceOf(q, e, n) \in Nat /\ WrittenAt(q, e, n) \in Nat
        /\ PlaceOf(q, e, n) + ConstantIn[q[e].operands[n]].tokens
              <= WrittenAt(q, e, n) + Len(Written[q[e].operands[n]])
        /\ q[e].operands[n] \in Operands
    BY <1>1, PlaceIs
  <2>4. /\ PlaceOf(q, f, m) = WrittenAt(q, f, m) + ConstantIn[q[f].operands[m]].offset
        /\ WrittenAt(q, f, m) \in Nat
        /\ q[f].operands[m] \in Operands
    BY <1>1, PlaceIs
  <2>5. ConstantIn[q[f].operands[m]].offset \in Nat
    BY <2>1, <2>4, ConstantIsWritten
  <2>6. ConstantIn[q[e].operands[n]].tokens \in Nat /\ Len(Written[q[e].operands[n]]) \in Nat
    BY <2>1, <2>3, ConstantIsWritten, WrittenIsSeq, SMTT(40)
  <2> DEFINE pe == PlaceOf(q, e, n)
             te == ConstantIn[q[e].operands[n]].tokens
             we == WrittenAt(q, e, n)
             le == Len(Written[q[e].operands[n]])
             pf == PlaceOf(q, f, m)
             wf == WrittenAt(q, f, m)
             of == ConstantIn[q[f].operands[m]].offset
  <2>7. /\ pe \in Nat /\ te \in Nat /\ we \in Nat /\ le \in Nat /\ wf \in Nat /\ of \in Nat
        /\ we + le <= wf /\ pe + te <= we + le /\ pf = wf + of
    BY <2>2, <2>3, <2>4, <2>5, <2>6
  <2> HIDE DEF pe, te, we, le, pf, wf, of
  <2>8. pe + te <= pf
    BY <2>7
  <2> QED
    BY <2>8 DEF pe, te, pf
<1>2. c \in Nat /\ d \in Nat /\ k \in Nat /\ l \in Nat
  BY QueryIs DEF Counts
<1>3. \/ c < d \/ (c = d /\ k < l)
      \/ d < c \/ (d = c /\ l < k)
  <2>1. c < d \/ d < c \/ c = d
    BY <1>2
  <2>2. k < l \/ l < k \/ k = l
    BY <1>2
  <2>3. CASE c = d
    BY <2>2, <2>3
  <2>4. CASE c < d
    BY <2>4
  <2>5. CASE d < c
    BY <2>5
  <2> QED
    BY <2>1, <2>3, <2>4, <2>5
<1> QED
  BY <1>1, <1>3

\* A place is that of one constant only.
LEMMA PlaceIsOne ==
  ASSUME NEW q, IsQuery(q), NEW c, NEW k, Counts(q, c, k), NEW d, NEW l, Counts(q, d, l),
         PlaceOf(q, c, k) = PlaceOf(q, d, l)
  PROVE  c = d /\ k = l
<1>1. ASSUME NEW e, NEW n, Counts(q, e, n)
      PROVE  PlaceOf(q, e, n) \in Nat /\ ConstantIn[q[e].operands[n]].tokens \in Nat \ {0}
  <2>1. HasConstant(q[e].operands[n])
    BY <1>1 DEF Counts
  <2>2. q[e].operands[n] \in Operands /\ PlaceOf(q, e, n) \in Nat
    BY <1>1, PlaceIs
  <2>3. /\ ConstantIn[q[e].operands[n]].tokens \in Nat
        /\ Replaced(q[e].operands[n]) <= ConstantIn[q[e].operands[n]].tokens
    BY <2>1, <2>2, ConstantIsWritten
  <2>4. Replaced(q[e].operands[n]) \in {1, 2}
    BY DEF Replaced
  <2> QED
    BY <2>2, <2>3, <2>4
<1>2. /\ PlaceOf(q, c, k) \in Nat /\ ConstantIn[q[c].operands[k]].tokens \in Nat \ {0}
      /\ PlaceOf(q, d, l) \in Nat /\ ConstantIn[q[d].operands[l]].tokens \in Nat \ {0}
  BY <1>1
<1>3. ~ (PlaceOf(q, c, k) + ConstantIn[q[c].operands[k]].tokens <= PlaceOf(q, d, l))
  BY <1>2
<1>4. ~ (PlaceOf(q, d, l) + ConstantIn[q[d].operands[l]].tokens <= PlaceOf(q, c, k))
  BY <1>2
<1> QED
  BY <1>3, <1>4, PlacesAreApart

-----------------------------------------------------------------------------
(***************************************************************************)
(* The scanner                                                             *)
(***************************************************************************)

\* The tokens of t are one after the other.
AreTokens(t) ==
  /\ Len(t) \in Nat
  /\ EndOf(t) = Len(t)
  /\ \A p \in 1..Len(t) : t[p].at = p - 1 /\ t[p].kind \in Parts

\* The text of a query is made of tokens that touch.
LEMMA TextIsTokens ==
  ASSUME NEW q, IsQuery(q)
  PROVE  AreTokens(TextOf(q))
BY TextIs DEF AreTokens

\* The scanner has read the first r tokens.
HasRead(t, r, f) ==
  /\ r \in 0..Len(t)
  /\ f \in [buf : [0..Len(t) -> 0..Len(t) \cup {Nul}], at : 0..Len(t),
            hold : 0..Len(t) \cup {Nul}]
  /\ f.at = r
  /\ [f.buf EXCEPT ![r] = f.hold] = Chars(t)

\* The scanner after the r-th token.
ScannerAt(t, r) ==
  [buf |-> [Chars(t) EXCEPT ![r] = Nul], at |-> r, hold |-> Chars(t)[r]]

\* The buffer of the scanner has one NUL, at its end.
LEMMA CharsAre ==
  ASSUME NEW t, AreTokens(t)
  PROVE  /\ Len(t) \in Nat
         /\ Chars(t) \in [0..Len(t) -> 0..Len(t) \cup {Nul}]
         /\ Chars(t)[Len(t)] = Nul
         /\ \A p \in 0..Len(t) : p # Len(t) => Chars(t)[p] # Nul
BY DEF AreTokens, Chars, Nul

\* The scanner after the r-th token has read r tokens.
LEMMA ScannerAtRead ==
  ASSUME NEW t, AreTokens(t), NEW r \in 0..Len(t)
  PROVE  HasRead(t, r, ScannerAt(t, r))
<1>1. Chars(t) \in [0..Len(t) -> 0..Len(t) \cup {Nul}] /\ Len(t) \in Nat
  BY CharsAre
<1>2. Chars(t)[r] \in 0..Len(t) \cup {Nul}
  BY <1>1
<1>3. ScannerAt(t, r) \in [buf : [0..Len(t) -> 0..Len(t) \cup {Nul}], at : 0..Len(t),
                           hold : 0..Len(t) \cup {Nul}]
  BY <1>1, <1>2 DEF ScannerAt
<1>4. /\ ScannerAt(t, r).at = r
      /\ [ScannerAt(t, r).buf EXCEPT ![r] = ScannerAt(t, r).hold] = Chars(t)
  BY <1>1 DEF ScannerAt
<1> QED
  BY <1>3, <1>4 DEF HasRead

\* The new scanner has read nothing.
LEMMA ScannerInitRead ==
  ASSUME NEW t, AreTokens(t)
  PROVE  HasRead(t, 0, ScannerInit(t))
<1>1. Chars(t) \in [0..Len(t) -> 0..Len(t) \cup {Nul}] /\ Len(t) \in Nat
  BY CharsAre
<1>2. 0 \in 0..Len(t) /\ Chars(t)[0] \in 0..Len(t) \cup {Nul}
  BY <1>1
<1>3. ScannerInit(t) \in [buf : [0..Len(t) -> 0..Len(t) \cup {Nul}], at : 0..Len(t),
                          hold : 0..Len(t) \cup {Nul}]
  BY <1>1, <1>2 DEF ScannerInit
<1>4. /\ ScannerInit(t).at = 0
      /\ [ScannerInit(t).buf EXCEPT ![0] = ScannerInit(t).hold] = Chars(t)
  BY <1>1 DEF ScannerInit
<1> QED
  BY <1>2, <1>3, <1>4 DEF HasRead

\* The least element of a set, as CHOOSE has it.
LEMMA LeastIs ==
  ASSUME NEW S \in SUBSET Int, NEW x \in S, \A y \in S : x <= y
  PROVE  (CHOOSE y \in S : \A z \in S : y <= z) = x
<1> DEFINE c == CHOOSE y \in S : \A z \in S : y <= z
<1>1. c \in S /\ \A z \in S : c <= z
  OBVIOUS
<1>2. c <= x /\ x <= c /\ c \in Int /\ x \in Int
  BY <1>1
<1> HIDE DEF c
<1>3. c = x
  BY <1>2
<1> QED
  BY <1>3 DEF c

\* The scanner finds the token that is next.
LEMMA NextToken ==
  ASSUME NEW t, AreTokens(t), NEW r \in 0..Len(t)
  PROVE  TokenAt(t, Chars(t), r) =
           IF r < Len(t) THEN t[r + 1] ELSE [kind |-> "EOF", at |-> Len(t)]
<1> DEFINE ahead == {p \in 1..Len(t) : t[p].at >= r}
           next  == CHOOSE p \in ahead : \A s \in ahead : p <= s
           nuls  == {p \in r..EndOf(t) : Chars(t)[p] = Nul}
           nul   == CHOOSE p \in nuls : \A s \in nuls : p <= s
<1>0. Len(t) \in Nat /\ EndOf(t) = Len(t)
  BY DEF AreTokens
<1>1. TokenAt(t, Chars(t), r) =
        IF ahead # {} /\ t[next].at < nul THEN t[next] ELSE [kind |-> "EOF", at |-> nul]
  BY DEF TokenAt
<1>2. nul = Len(t)
  <2>1. nuls \in SUBSET Int /\ Len(t) \in nuls /\ \A p \in nuls : p = Len(t)
    BY <1>0, CharsAre
  <2>2. \A p \in nuls : Len(t) <= p
    BY <1>0, <2>1
  <2> HIDE DEF nuls
  <2> QED
    BY <2>1, <2>2, LeastIs
<1>3. ahead = {p \in 1..Len(t) : p > r}
  BY <1>0 DEF AreTokens
<1>4. CASE r < Len(t)
  <2>1. r + 1 \in ahead /\ ahead \in SUBSET Int /\ \A p \in ahead : r + 1 <= p
    BY <1>0, <1>3, <1>4
  <2>2. next = r + 1
    <3> HIDE DEF ahead
    <3> QED
      BY <2>1, LeastIs
  <2>3. t[r + 1].at = r
    <3>1. r + 1 \in 1..Len(t)
      BY <1>0, <1>4
    <3> QED
      BY <3>1 DEF AreTokens
  <2> HIDE DEF ahead, next, nul
  <2> QED
    BY <1>1, <1>2, <1>4, <2>1, <2>2, <2>3
<1>5. CASE r = Len(t)
  <2>1. ahead = {}
    BY <1>0, <1>3, <1>5
  <2> HIDE DEF ahead, next, nul
  <2> QED
    BY <1>0, <1>1, <1>2, <1>5, <2>1
<1>6. r < Len(t) \/ r = Len(t)
  BY <1>0
<1> QED
  BY <1>4, <1>5, <1>6

\* core_yylex takes one token, or stays at the end.
LEMMA CoreYylexReads ==
  ASSUME NEW t, AreTokens(t), NEW r, NEW f, HasRead(t, r, f)
  PROVE  /\ r < Len(t) =>
              /\ CoreYylex(t, f).token = t[r + 1]
              /\ CoreYylex(t, f).token.kind # "EOF"
              /\ CoreYylex(t, f).token.at = r
              /\ CoreYylex(t, f).flex = ScannerAt(t, r + 1)
         /\ r = Len(t) => CoreYylex(t, f).token.kind = "EOF"
<1>0. r \in 0..Len(t) /\ Len(t) \in Nat
  BY CharsAre DEF HasRead
<1> DEFINE b == [f.buf EXCEPT ![f.at] = f.hold]
           tok == TokenAt(t, b, f.at)
           e == IF tok.kind = "EOF" THEN tok.at ELSE tok.at + 1
<1>1. CoreYylex(t, f) =
        [token |-> tok, flex |-> [buf |-> [b EXCEPT ![e] = Nul], at |-> e, hold |-> b[e]]]
  BY DEF CoreYylex
<1>2. b = Chars(t) /\ f.at = r
  BY DEF HasRead
<1>3. tok = IF r < Len(t) THEN t[r + 1] ELSE [kind |-> "EOF", at |-> Len(t)]
  <2> HIDE DEF b
  <2> QED
    BY <1>0, <1>2, NextToken
<1>4. CASE r < Len(t)
  <2>1. r + 1 \in 1..Len(t) /\ tok = t[r + 1]
    BY <1>0, <1>3, <1>4
  <2>2. t[r + 1].kind \in Parts /\ t[r + 1].at = r
    BY <1>0, <2>1 DEF AreTokens
  <2>3. "EOF" \notin Parts
    BY DEF Parts, Clauses
  <2>4. e = r + 1 /\ tok.kind # "EOF" /\ tok.at = r
    <3> HIDE DEF tok
    <3> QED
      BY <2>1, <2>2, <2>3
  <2> HIDE DEF e, tok, b
  <2> QED
    BY <1>1, <1>2, <1>4, <1>0, <2>1, <2>4 DEF ScannerAt
<1>5. CASE r = Len(t)
  <2>1. tok = [kind |-> "EOF", at |-> Len(t)]
    BY <1>0, <1>3, <1>5
  <2> HIDE DEF e, tok, b
  <2> QED
    BY <1>0, <1>1, <1>5, <2>1
<1> QED
  BY <1>0, <1>4, <1>5

\* The NUL after the last token read is at its end.
LEMMA NulAfterIs ==
  ASSUME AreTokens(text), NEW r \in 0..Len(text), NEW at \in 0..r
  PROVE  NulAfter(ScannerAt(text, r), at) = r
<1> DEFINE nuls == {p \in at..EndOf(text) : ScannerAt(text, r).buf[p] = Nul}
<1>0. Len(text) \in Nat /\ EndOf(text) = Len(text)
  BY DEF AreTokens
<1>1. ScannerAt(text, r).buf = [Chars(text) EXCEPT ![r] = Nul]
  BY DEF ScannerAt
<1>2. \A p \in 0..Len(text) :
        ScannerAt(text, r).buf[p] = IF p = r THEN Nul ELSE Chars(text)[p]
  BY <1>1, CharsAre
<1>3. nuls \in SUBSET Int /\ r \in nuls
  BY <1>0, <1>2
<1>4. ASSUME NEW p \in nuls PROVE r <= p
  <2>1. p \in 0..Len(text) /\ ScannerAt(text, r).buf[p] = Nul
    BY <1>0, <1>4
  <2>2. p = r \/ Chars(text)[p] = Nul
    BY <1>2, <2>1
  <2>3. p = r \/ p = Len(text)
    BY <2>1, <2>2, CharsAre
  <2> QED
    BY <1>0, <2>3
<1>5. NulAfter(ScannerAt(text, r), at) = CHOOSE p \in nuls : \A q \in nuls : p <= q
  BY DEF NulAfter
<1> HIDE DEF nuls
<1> QED
  BY <1>3, <1>4, <1>5, LeastIs

-----------------------------------------------------------------------------
(***************************************************************************)
(* What is recorded                                                        *)
(***************************************************************************)
\* What the walk records: no length is known yet.
Record == [location : Nat, length : {-1}, id : Int]

\* The walker, with the clauses td still to come, has been at operand k of
\* clause c.
Seen(td, w, c, k) == c \notin td /\ (w.clause = c /\ w.column = 1 => k < w.operand)

\* Place p is that of a constant of a clause with this name.
InClause(q, p, name) == \E c \in 1..Len(q) : q[c].name = name /\ IsIn(q, p, c)

\* Place p is that of a constant of a target with fingerprint fp.
InTarget(q, p, fp) ==
  \E c \in 1..Len(q) :
    q[c].name = "target" /\ Fingerprint(q[c].operands) = fp /\ IsIn(q, p, c)

\* Place p is that of a constant of a GROUP BY item, place r that of one of a
\* target with its fingerprint.
Repeats(q, p, r) ==
  \E c \in 1..Len(q) :
    /\ q[c].name = "group" /\ IsIn(q, p, c)
    /\ InTarget(q, r, Fingerprint(q[c].operands))

\* The constants seen, and only these, are recorded, once outside SET.
HasRecords(q, cl, td, w) ==
  /\ \A k \in 1..Len(cl) : \E c, o :
       Counts(q, c, o) /\ Seen(td, w, c, o) /\ cl[k].location = PlaceOf(q, c, o)
  /\ \A c, o : Counts(q, c, o) /\ Seen(td, w, c, o) =>
       \E k \in 1..Len(cl) : cl[k].location = PlaceOf(q, c, o)
  /\ \A k, l \in 1..Len(cl) :
       k # l /\ cl[k].location = cl[l].location => InClause(q, cl[k].location, "set")

\* The first n records have the numbers 1 to b - 1 and no others that were
\* given out, and share one only if one of them is in a GROUP BY item.
Numbered(q, cl, n, b, e) ==
  /\ \A k \in 1..n : cl[k].id # 0 /\ 1 - b <= cl[k].id /\ cl[k].id <= e
  /\ \A k \in 1..n : cl[k].id > 0 => InClause(q, cl[k].location, "group")
  /\ \A m \in 1..b - 1 : \E k \in 1..n : cl[k].id = -m
  /\ \A k, l \in 1..n : k # l /\ cl[k].id = cl[l].id /\ cl[k].id < 0 =>
       \/ Repeats(q, cl[k].location, cl[l].location)
       \/ Repeats(q, cl[l].location, cl[k].location)

\* The records after the first n are those of clause c, numbered from b.
ItemNumbered(q, cl, n, b, c) ==
  \A k \in n + 1..Len(cl) : cl[k].id = -(b + k - n - 1) /\ IsIn(q, cl[k].location, c)

\* The params of a target with fingerprint fp: a number given out belongs to
\* the records of such a target, and is there once.
IsRefs(q, cl, b, e, refs, fp) ==
  /\ refs \in Seq(Int)
  /\ \A j \in 1..Len(refs) : refs[j] # 0 /\ 1 - b <= refs[j] /\ refs[j] <= e
  /\ \A j \in 1..Len(refs) : \A l \in 1..Len(cl) :
       cl[l].id = refs[j] /\ refs[j] < 0 => InTarget(q, cl[l].location, fp)
  /\ \A j, k \in 1..Len(refs) : j # k /\ refs[j] = refs[k] => refs[j] > 0

\* Two lists of params share no number that was given out.
Disjoint(r, s) == \A j \in 1..Len(r) : \A k \in 1..Len(s) : r[j] = s[k] => r[j] > 0

\* The same records, those after the first n with other ids perhaps.
SameRecords(cl, cl2, n) ==
  /\ Len(cl2) = Len(cl)
  /\ \A k \in 1..Len(cl) : cl2[k].location = cl[k].location
  /\ \A k \in 1..n : cl2[k].id = cl[k].id

\* What a sequence has after Append.
LEMMA AppendIs ==
  ASSUME NEW S, NEW s \in Seq(S), NEW e \in S
  PROVE  /\ Append(s, e) \in Seq(S)
         /\ Len(s) \in Nat
         /\ Len(Append(s, e)) = Len(s) + 1
         /\ \A k \in 1..Len(s) : Append(s, e)[k] = s[k]
         /\ Append(s, e)[Len(s) + 1] = e
OBVIOUS

\* cl2 has a record of place p with number id more than cl.
Adds(cl, cl2, p, id) ==
  /\ Len(cl) \in Nat
  /\ Len(cl2) = Len(cl) + 1
  /\ \A k \in 1..Len(cl) : cl2[k] = cl[k]
  /\ cl2[Len(cl) + 1].location = p
  /\ cl2[Len(cl) + 1].id = id
  /\ \A k \in 1..Len(cl2) : k \in 1..Len(cl) \/ k = Len(cl) + 1

\* Append adds a record.
LEMMA AppendAdds ==
  ASSUME NEW cl \in Seq(Record), NEW p \in Nat, NEW id \in Int
  PROVE  LET cl2 == Append(cl, [location |-> p, length |-> -1, id |-> id])
         IN  cl2 \in Seq(Record) /\ Adds(cl, cl2, p, id)
<1> DEFINE r == [location |-> p, length |-> -1, id |-> id]
           cl2 == Append(cl, r)
<1>1. r \in Record
  BY DEF Record
<1>2. r.location = p /\ r.id = id
  OBVIOUS
<1> HIDE DEF r
<1>3. /\ cl2 \in Seq(Record) /\ Len(cl) \in Nat /\ Len(cl2) = Len(cl) + 1
      /\ \A k \in 1..Len(cl) : cl2[k] = cl[k]
      /\ cl2[Len(cl) + 1] = r
  BY <1>1, AppendIs
<1> HIDE DEF cl2
<1>4. \A k \in 1..Len(cl2) : k \in 1..Len(cl) \/ k = Len(cl) + 1
  BY <1>3
<1>5. Adds(cl, cl2, p, id)
  BY <1>2, <1>3, <1>4 DEF Adds
<1> QED
  BY <1>3, <1>5 DEF cl2, r

-----------------------------------------------------------------------------
\* A step that records nothing and visits no constant.
LEMMA HasRecordsStays ==
  ASSUME NEW q, NEW cl, NEW cl2, NEW td, NEW w, NEW td2, NEW w2,
         HasRecords(q, cl, td, w), SameRecords(cl, cl2, 0),
         \A c, o : Counts(q, c, o) => (Seen(td2, w2, c, o) <=> Seen(td, w, c, o))
  PROVE  HasRecords(q, cl2, td2, w2)
<1>1. ASSUME NEW k \in 1..Len(cl2)
      PROVE  \E c, o : Counts(q, c, o) /\ Seen(td2, w2, c, o) /\ cl2[k].location = PlaceOf(q, c, o)
  <2>1. k \in 1..Len(cl) /\ cl2[k].location = cl[k].location
    BY DEF SameRecords
  <2>2. PICK c, o : Counts(q, c, o) /\ Seen(td, w, c, o) /\ cl[k].location = PlaceOf(q, c, o)
    BY <2>1 DEF HasRecords
  <2> QED
    BY <2>1, <2>2
<1>2. ASSUME NEW c, NEW o, Counts(q, c, o), Seen(td2, w2, c, o)
      PROVE  \E k \in 1..Len(cl2) : cl2[k].location = PlaceOf(q, c, o)
  <2>1. PICK k \in 1..Len(cl) : cl[k].location = PlaceOf(q, c, o)
    BY <1>2 DEF HasRecords
  <2> QED
    BY <2>1 DEF SameRecords
<1>3. ASSUME NEW k \in 1..Len(cl2), NEW l \in 1..Len(cl2), k # l,
             cl2[k].location = cl2[l].location
      PROVE  InClause(q, cl2[k].location, "set")
  BY <1>3 DEF HasRecords, SameRecords
<1> QED
  BY <1>1, <1>2, <1>3 DEF HasRecords

\* A step that visits a constant and records it.
LEMMA HasRecordsAdds ==
  ASSUME NEW q, IsQuery(q), NEW cl, NEW cl2, NEW td, NEW w, NEW w2, NEW id,
         HasRecords(q, cl, td, w),
         w.clause \notin td, Counts(q, w.clause, w.operand),
         Adds(cl, cl2, PlaceOf(q, w.clause, w.operand), id),
         w.column # 1 => q[w.clause].name = "set",
         \A c, o : Counts(q, c, o) =>
           (Seen(td, w2, c, o) <=> Seen(td, w, c, o) \/ (c = w.clause /\ o = w.operand))
  PROVE  HasRecords(q, cl2, td, w2)
<1> DEFINE n == Len(cl) + 1
<1>0. /\ Len(cl) \in Nat /\ Len(cl2) = n /\ n \in 1..Len(cl2)
      /\ \A k \in 1..Len(cl) : cl2[k] = cl[k] /\ k \in 1..Len(cl2)
      /\ cl2[n].location = PlaceOf(q, w.clause, w.operand)
      /\ \A k \in 1..Len(cl2) : k \in 1..Len(cl) \/ k = n
  BY DEF Adds
<1> HIDE DEF n
<1>1. ASSUME NEW k \in 1..Len(cl2)
      PROVE  \E c, o : Counts(q, c, o) /\ Seen(td, w2, c, o) /\ cl2[k].location = PlaceOf(q, c, o)
  <2>1. CASE k = n
    BY <1>0, <2>1
  <2>2. CASE k \in 1..Len(cl)
    <3>1. PICK c, o : Counts(q, c, o) /\ Seen(td, w, c, o) /\ cl[k].location = PlaceOf(q, c, o)
      BY <2>2 DEF HasRecords
    <3> QED
      BY <1>0, <2>2, <3>1
  <2> QED
    BY <1>0, <2>1, <2>2
<1>2. ASSUME NEW c, NEW o, Counts(q, c, o), Seen(td, w2, c, o)
      PROVE  \E k \in 1..Len(cl2) : cl2[k].location = PlaceOf(q, c, o)
  <2>1. CASE c = w.clause /\ o = w.operand
    BY <1>0, <2>1
  <2>2. CASE Seen(td, w, c, o)
    <3>1. PICK k \in 1..Len(cl) : cl[k].location = PlaceOf(q, c, o)
      BY <1>2, <2>2 DEF HasRecords
    <3> QED
      BY <1>0, <3>1
  <2> QED
    BY <1>2, <2>1, <2>2
<1>3. ASSUME NEW k \in 1..Len(cl), cl[k].location = cl2[n].location
      PROVE  InClause(q, cl2[n].location, "set")
  <2>1. PICK c, o : Counts(q, c, o) /\ Seen(td, w, c, o) /\ cl[k].location = PlaceOf(q, c, o)
    BY DEF HasRecords
  <2>2. PlaceOf(q, c, o) = PlaceOf(q, w.clause, w.operand)
    BY <1>0, <1>3, <2>1
  <2>3. c = w.clause /\ o = w.operand
    BY <2>1, <2>2, PlaceIsOne
  <2>4. w.column # 1
    <3>1. w.operand \in 1..Len(q[w.clause].operands) /\ w.clause \in 1..Len(q)
      BY DEF Counts
    <3>2. w.operand \in Int
      BY <3>1
    <3>3. ~ (w.operand < w.operand)
      BY <3>2
    <3> QED
      BY <2>1, <2>3, <3>3 DEF Seen
  <2>5. q[w.clause].name = "set" /\ IsIn(q, PlaceOf(q, w.clause, w.operand), w.clause)
    BY <2>4 DEF IsIn, Counts
  <2> QED
    BY <1>0, <2>5 DEF InClause, Counts
<1>4. ASSUME NEW k \in 1..Len(cl2), NEW l \in 1..Len(cl2), k # l,
             cl2[k].location = cl2[l].location
      PROVE  InClause(q, cl2[k].location, "set")
  <2>1. CASE k = n
    <3>1. l \in 1..Len(cl)
      BY <1>0, <1>4, <2>1
    <3> QED
      BY <1>0, <1>3, <1>4, <2>1, <3>1
  <2>2. CASE l = n
    <3>1. k \in 1..Len(cl)
      BY <1>0, <1>4, <2>2
    <3> QED
      BY <1>0, <1>3, <1>4, <2>2, <3>1
  <2>3. CASE k \in 1..Len(cl) /\ l \in 1..Len(cl)
    <3>1. cl2[k] = cl[k] /\ cl2[l] = cl[l]
      BY <1>0, <2>3
    <3> QED
      BY <1>4, <2>3, <3>1 DEF HasRecords
  <2> QED
    BY <1>0, <2>1, <2>2, <2>3
<1> QED
  BY <1>1, <1>2, <1>4 DEF HasRecords

-----------------------------------------------------------------------------
\* Records that stay have the numbers they had.
LEMMA NumberedStays ==
  ASSUME NEW q, NEW cl, NEW cl2, NEW n \in Nat, NEW b, NEW e \in Int, NEW e2 \in Int, e <= e2,
         \A k \in 1..n : cl[k].id \in Int,
         \A k \in 1..n : cl2[k].id = cl[k].id /\ cl2[k].location = cl[k].location,
         Numbered(q, cl, n, b, e)
  PROVE  Numbered(q, cl2, n, b, e2)
<1>1. \A k \in 1..n : cl2[k].id # 0 /\ 1 - b <= cl2[k].id /\ cl2[k].id <= e2
  BY DEF Numbered
<1>2. \A k \in 1..n : cl2[k].id > 0 => InClause(q, cl2[k].location, "group")
  BY DEF Numbered
<1>3. \A m \in 1..b - 1 : \E k \in 1..n : cl2[k].id = -m
  BY DEF Numbered
<1>4. \A k, l \in 1..n : k # l /\ cl2[k].id = cl2[l].id /\ cl2[k].id < 0 =>
       \/ Repeats(q, cl2[k].location, cl2[l].location)
       \/ Repeats(q, cl2[l].location, cl2[k].location)
  BY DEF Numbered
<1> QED
  BY <1>1, <1>2, <1>3, <1>4 DEF Numbered

\* The records of a clause that are numbered as they come.
LEMMA NumberedItem ==
  ASSUME NEW q, NEW cl, NEW n \in Nat, NEW b \in Nat \ {0}, NEW e \in Nat, NEW c,
         Len(cl) \in Nat, n <= Len(cl),
         \A k \in 1..n : cl[k].id \in Int,
         Numbered(q, cl, n, b, e), ItemNumbered(q, cl, n, b, c)
  PROVE  Numbered(q, cl, Len(cl), b + (Len(cl) - n), e)
<1> DEFINE L == Len(cl)
           B == b + (L - n)
<1>0. L \in Nat /\ n <= L /\ B \in Nat \ {0} /\ b <= B
  OBVIOUS
<1>a. \A k \in 1..L : k \in 1..n \/ k \in n + 1..L
  BY <1>0
<1>1. ASSUME NEW k \in n + 1..L
      PROVE  cl[k].id \in Int /\ cl[k].id <= -b /\ 1 - B <= cl[k].id /\ cl[k].id = -(b + k - n - 1)
  <2>1. cl[k].id = -(b + k - n - 1)
    BY DEF ItemNumbered
  <2> QED
    BY <1>0, <2>1, SMTT(40)
<1>2. ASSUME NEW k \in 1..n
      PROVE  cl[k].id \in Int /\ cl[k].id # 0 /\ 1 - b <= cl[k].id /\ cl[k].id <= e
  BY DEF Numbered
<1> HIDE DEF L
<1>3. \A k \in 1..L : cl[k].id # 0 /\ 1 - B <= cl[k].id /\ cl[k].id <= e
  <2> TAKE k \in 1..L
  <2>1. CASE k \in 1..n
    BY <1>0, <1>2, <2>1
  <2>2. CASE k \in n + 1..L
    BY <1>0, <1>1, <2>2
  <2> QED
    BY <1>a, <2>1, <2>2
<1> HIDE DEF B
<1>4. \A k \in 1..L : cl[k].id > 0 => InClause(q, cl[k].location, "group")
  <2> TAKE k \in 1..L
  <2>1. CASE k \in 1..n
    BY <2>1 DEF Numbered
  <2>2. CASE k \in n + 1..L
    BY <1>1, <2>2, SMTT(40)
  <2> QED
    BY <1>a, <2>1, <2>2
<1>5. ASSUME NEW m \in 1..B - 1 PROVE \E k \in 1..L : cl[k].id = -m
  <2>1. CASE m \in 1..b - 1
    <3>1. PICK k \in 1..n : cl[k].id = -m
      BY <2>1 DEF Numbered
    <3>2. k \in 1..L
      BY <1>0
    <3> QED
      BY <3>1, <3>2
  <2>2. CASE m \notin 1..b - 1
    <3>1. m - b + 1 + n \in n + 1..L
      BY <1>0, <2>2 DEF B
    <3>2. cl[m - b + 1 + n].id = -(b + (m - b + 1 + n) - n - 1)
      BY <1>1, <3>1
    <3>3. -(b + (m - b + 1 + n) - n - 1) = -m /\ m - b + 1 + n \in 1..L
      BY <1>0, <3>1
    <3> QED
      BY <3>2, <3>3
  <2> QED
    BY <2>1, <2>2
<1>6. ASSUME NEW k \in 1..L, NEW l \in 1..L, k # l, cl[k].id = cl[l].id, cl[k].id < 0
      PROVE  \/ Repeats(q, cl[k].location, cl[l].location)
             \/ Repeats(q, cl[l].location, cl[k].location)
  <2>1. CASE k \in 1..n /\ l \in 1..n
    BY <1>6, <2>1 DEF Numbered
  <2>2. CASE k \in n + 1..L /\ l \in n + 1..L
    <3>1. -(b + k - n - 1) = -(b + l - n - 1)
      BY <1>1, <1>6, <2>2
    <3> QED
      BY <1>0, <1>6, <3>1
  <2>3. CASE k \in 1..n /\ l \in n + 1..L
    BY <1>0, <1>1, <1>2, <1>6, <2>3
  <2>4. CASE k \in n + 1..L /\ l \in 1..n
    BY <1>0, <1>1, <1>2, <1>6, <2>4
  <2> QED
    BY <1>a, <2>1, <2>2, <2>3, <2>4
<1> QED
  BY <1>3, <1>4, <1>5, <1>6 DEF Numbered, L, B

\* The records of an item of GROUP BY that get the params of a target.
LEMMA NumberedMatched ==
  ASSUME NEW q, NEW cl, NEW cl2, NEW n \in Nat, NEW b \in Nat \ {0}, NEW e \in Nat,
         NEW c \in 1..Len(q), q[c].name = "group", NEW refs,
         Len(cl) \in Nat, n <= Len(cl),
         \A k \in 1..Len(cl) : cl[k].id \in Int,
         Numbered(q, cl, n, b, e), ItemNumbered(q, cl, n, b, c),
         IsRefs(q, cl, b, e, refs, Fingerprint(q[c].operands)),
         Len(refs) = Len(cl) - n,
         SameRecords(cl, cl2, n), \A k \in n + 1..Len(cl) : cl2[k].id = refs[k - n]
  PROVE  Numbered(q, cl2, Len(cl), b, e)
<1> DEFINE L == Len(cl)
<1>0. L \in Nat /\ n <= L
  OBVIOUS
<1>a. \A k \in 1..L : k \in 1..n \/ k \in n + 1..L
  BY <1>0
<1>1. ASSUME NEW k \in n + 1..L
      PROVE  /\ k - n \in 1..Len(refs) /\ k \in 1..L /\ cl2[k].id = refs[k - n]
             /\ cl2[k].location = cl[k].location
             /\ IsIn(q, cl2[k].location, c)
             /\ refs[k - n] \in Int /\ refs[k - n] # 0
             /\ 1 - b <= refs[k - n] /\ refs[k - n] <= e
  <2>1. k - n \in 1..Len(refs) /\ k \in 1..L
    BY <1>0
  <2>2. cl2[k].location = cl[k].location
    BY <2>1 DEF SameRecords
  <2>3. IsIn(q, cl[k].location, c)
    BY DEF ItemNumbered
  <2>4. refs[k - n] \in Int
    BY <2>1 DEF IsRefs
  <2>5. refs[k - n] # 0 /\ 1 - b <= refs[k - n] /\ refs[k - n] <= e
    BY <2>1 DEF IsRefs
  <2> QED
    BY <2>1, <2>2, <2>3, <2>4, <2>5
<1>2. ASSUME NEW k \in 1..n
      PROVE  /\ cl2[k].id = cl[k].id /\ cl2[k].location = cl[k].location
             /\ cl[k].id \in Int /\ k \in 1..L
  BY <1>0 DEF SameRecords
<1> HIDE DEF L
<1>3. ASSUME NEW k \in 1..L PROVE cl2[k].id # 0 /\ 1 - b <= cl2[k].id /\ cl2[k].id <= e
  <2>1. CASE k \in 1..n
    BY <1>2, <2>1 DEF Numbered
  <2>2. CASE k \in n + 1..L
    BY <1>1, <2>2
  <2> QED
    BY <1>a, <2>1, <2>2
<1>4. ASSUME NEW k \in 1..L, cl2[k].id > 0 PROVE InClause(q, cl2[k].location, "group")
  <2>1. CASE k \in 1..n
    BY <1>2, <1>4, <2>1 DEF Numbered
  <2>2. CASE k \in n + 1..L
    BY <1>1, <2>2 DEF InClause
  <2> QED
    BY <1>a, <2>1, <2>2
<1>5. ASSUME NEW m \in 1..b - 1 PROVE \E k \in 1..L : cl2[k].id = -m
  <2>1. PICK k \in 1..n : cl[k].id = -m
    BY DEF Numbered
  <2> QED
    BY <1>2, <2>1
<1>6. ASSUME NEW k \in n + 1..L, NEW l \in 1..n, cl2[k].id = cl2[l].id, cl2[k].id < 0
      PROVE  Repeats(q, cl2[k].location, cl2[l].location)
  <2>1. k - n \in 1..Len(refs) /\ l \in 1..L /\ cl[l].id = refs[k - n] /\ refs[k - n] < 0
    BY <1>1, <1>2, <1>6
  <2>2. InTarget(q, cl[l].location, Fingerprint(q[c].operands))
    BY <2>1 DEF IsRefs, L
  <2> QED
    BY <1>1, <1>2, <2>2 DEF Repeats
<1>7. ASSUME NEW k \in 1..L, NEW l \in 1..L, k # l, cl2[k].id = cl2[l].id, cl2[k].id < 0
      PROVE  \/ Repeats(q, cl2[k].location, cl2[l].location)
             \/ Repeats(q, cl2[l].location, cl2[k].location)
  <2>1. CASE k \in 1..n /\ l \in 1..n
    <3>1. cl[k].id = cl[l].id /\ cl[k].id < 0
      BY <1>2, <1>7, <2>1
    <3>2. \/ Repeats(q, cl[k].location, cl[l].location)
          \/ Repeats(q, cl[l].location, cl[k].location)
      BY <1>7, <2>1, <3>1 DEF Numbered
    <3> QED
      BY <1>2, <2>1, <3>2
  <2>2. CASE k \in n + 1..L /\ l \in n + 1..L
    <3>1. refs[k - n] = refs[l - n] /\ ~ (refs[k - n] > 0) /\ k - n \in 1..Len(refs) /\ l - n \in 1..Len(refs)
      BY <1>1, <1>7, <2>2, SMTT(40)
    <3>2. k - n # l - n
      BY <1>0, <1>7
    <3> QED
      BY <3>1, <3>2 DEF IsRefs
  <2>3. CASE k \in 1..n /\ l \in n + 1..L
    BY <1>6, <1>7, <2>3
  <2>4. CASE k \in n + 1..L /\ l \in 1..n
    BY <1>6, <1>7, <2>4
  <2> QED
    BY <1>a, <2>1, <2>2, <2>3, <2>4
<1> QED
  BY <1>3, <1>4, <1>5, <1>7 DEF Numbered, L

-----------------------------------------------------------------------------
\* The params of a target when another param of the query is seen.
LEMMA IsRefsStays ==
  ASSUME NEW q, NEW cl, NEW b, NEW e \in Int, NEW e2 \in Int, e <= e2, NEW refs, NEW fp,
         IsRefs(q, cl, b, e, refs, fp)
  PROVE  IsRefs(q, cl, b, e2, refs, fp)
<1>1. refs \in Seq(Int)
  BY DEF IsRefs
<1>2. \A j \in 1..Len(refs) : refs[j] \in Int
  BY <1>1
<1>3. \A j \in 1..Len(refs) : refs[j] # 0 /\ 1 - b <= refs[j] /\ refs[j] <= e2
  BY <1>2 DEF IsRefs
<1> QED
  BY <1>3 DEF IsRefs

\* A record with a number that was not given out before.
LEMMA IsRefsAdds ==
  ASSUME NEW q, NEW cl, NEW cl2, NEW p, NEW id \in Int, NEW b \in Int, NEW b2 \in Int, NEW e,
         NEW refs, NEW fp, IsRefs(q, cl, b, e, refs, fp),
         Adds(cl, cl2, p, id), id < 1 - b, b <= b2
  PROVE  IsRefs(q, cl2, b2, e, refs, fp)
<1>1. refs \in Seq(Int)
  BY DEF IsRefs
<1>2. \A j \in 1..Len(refs) : refs[j] \in Int
  BY <1>1
<1>3. \A j \in 1..Len(refs) : refs[j] # 0 /\ 1 - b2 <= refs[j] /\ refs[j] <= e
  BY <1>2 DEF IsRefs
<1>4. ASSUME NEW j \in 1..Len(refs), NEW l \in 1..Len(cl2), cl2[l].id = refs[j], refs[j] < 0
      PROVE  InTarget(q, cl2[l].location, fp)
  <2>1. CASE l \in 1..Len(cl)
    <3>1. cl2[l] = cl[l]
      BY <2>1 DEF Adds
    <3> QED
      BY <1>4, <2>1, <3>1 DEF IsRefs
  <2>2. CASE l = Len(cl) + 1
    <3>1. cl2[l].id = id
      BY <2>2 DEF Adds
    <3>2. 1 - b <= refs[j] /\ refs[j] \in Int
      BY <1>2 DEF IsRefs
    <3> QED
      BY <1>4, <3>1, <3>2
  <2> QED
    BY <2>1, <2>2 DEF Adds
<1> QED
  BY <1>1, <1>3, <1>4 DEF IsRefs

\* A record of the target.
LEMMA IsRefsRecords ==
  ASSUME NEW q, NEW cl, NEW cl2, NEW p, NEW b \in Nat \ {0}, NEW e \in Nat,
         NEW refs, NEW fp, IsRefs(q, cl, b, e, refs, fp),
         Adds(cl, cl2, p, -b), \A k \in 1..Len(cl) : cl[k].id \in Int /\ 1 - b <= cl[k].id,
         InTarget(q, p, fp)
  PROVE  IsRefs(q, cl2, b + 1, e, Append(refs, -b), fp)
<1> DEFINE r == Append(refs, -b)
           n == Len(refs)
<1>1. refs \in Seq(Int) /\ -b \in Int
  BY DEF IsRefs
<1>2. /\ n \in Nat /\ r \in Seq(Int) /\ Len(r) = n + 1 /\ r[n + 1] = -b
      /\ \A j \in 1..n : r[j] = refs[j]
  BY <1>1, AppendIs
<1>3. \A j \in 1..n : refs[j] \in Int /\ refs[j] # 0 /\ 1 - b <= refs[j] /\ refs[j] <= e
  BY <1>1 DEF IsRefs
<1> HIDE DEF r
<1>4. \A j \in 1..Len(r) : j \in 1..n \/ j = n + 1
  BY <1>2
<1>5. ASSUME NEW j \in 1..Len(r) PROVE r[j] # 0 /\ 1 - (b + 1) <= r[j] /\ r[j] <= e
  <2>1. CASE j \in 1..n
    BY <1>2, <1>3, <2>1
  <2>2. CASE j = n + 1
    BY <1>2, <2>2
  <2> QED
    BY <1>4, <2>1, <2>2
<1>6. IsRefs(q, cl2, b + 1, e, refs, fp)
  <2>1. -b \in Int /\ b + 1 \in Int /\ b \in Int /\ -b < 1 - b /\ b <= b + 1
    OBVIOUS
  <2> QED
    BY <2>1, IsRefsAdds
<1>7. ASSUME NEW j \in 1..Len(r), NEW l \in 1..Len(cl2), cl2[l].id = r[j], r[j] < 0
      PROVE  InTarget(q, cl2[l].location, fp)
  <2>1. CASE j \in 1..n
    <3>1. cl2[l].id = refs[j] /\ refs[j] < 0
      BY <1>2, <1>7, <2>1
    <3> QED
      BY <1>6, <2>1, <3>1 DEF IsRefs
  <2>2. CASE j = n + 1 /\ l \in 1..Len(cl)
    <3>1. cl2[l] = cl[l] /\ cl[l].id \in Int /\ 1 - b <= cl[l].id
      BY <2>2 DEF Adds
    <3> QED
      BY <1>2, <1>7, <2>2, <3>1
  <2>3. CASE l = Len(cl) + 1
    BY <2>3 DEF Adds
  <2> QED
    BY <1>4, <2>1, <2>2, <2>3 DEF Adds
<1>8. ASSUME NEW j \in 1..Len(r), NEW k \in 1..Len(r), j # k, r[j] = r[k]
      PROVE  r[j] > 0
  <2>1. CASE j \in 1..n /\ k \in 1..n
    BY <1>2, <1>8, <2>1 DEF IsRefs
  <2>2. CASE j \in 1..n /\ k = n + 1
    BY <1>2, <1>3, <1>8, <2>2
  <2>3. CASE j = n + 1 /\ k \in 1..n
    BY <1>2, <1>3, <1>8, <2>3
  <2> QED
    BY <1>4, <1>8, <2>1, <2>2, <2>3
<1>9. IsRefs(q, cl2, b + 1, e, r, fp)
  BY <1>2, <1>5, <1>7, <1>8 DEF IsRefs
<1> QED
  BY <1>9 DEF r

\* A param of the target.
LEMMA IsRefsParam ==
  ASSUME NEW q, NEW cl, NEW b \in Nat \ {0}, NEW e \in Nat, NEW number \in 1..e,
         NEW refs, NEW fp, IsRefs(q, cl, b, e, refs, fp)
  PROVE  IsRefs(q, cl, b, e, Append(refs, number), fp)
<1> DEFINE r == Append(refs, number)
           n == Len(refs)
<1>1. refs \in Seq(Int) /\ number \in Int
  BY DEF IsRefs
<1>2. /\ n \in Nat /\ r \in Seq(Int) /\ Len(r) = n + 1 /\ r[n + 1] = number
      /\ \A j \in 1..n : r[j] = refs[j]
  BY <1>1, AppendIs
<1>3. \A j \in 1..n : refs[j] \in Int /\ refs[j] # 0 /\ 1 - b <= refs[j] /\ refs[j] <= e
  BY <1>1 DEF IsRefs
<1> HIDE DEF r
<1>4. \A j \in 1..Len(r) : j \in 1..n \/ j = n + 1
  BY <1>2
<1>5. ASSUME NEW j \in 1..Len(r) PROVE r[j] # 0 /\ 1 - b <= r[j] /\ r[j] <= e
  <2>1. CASE j \in 1..n
    BY <1>2, <1>3, <2>1
  <2>2. CASE j = n + 1
    BY <1>2, <2>2
  <2> QED
    BY <1>4, <2>1, <2>2
<1>6. ASSUME NEW j \in 1..Len(r), r[j] < 0 PROVE j \in 1..n /\ r[j] = refs[j]
  BY <1>2, <1>4, <1>6
<1>7. ASSUME NEW j \in 1..Len(r), NEW l \in 1..Len(cl), cl[l].id = r[j], r[j] < 0
      PROVE  InTarget(q, cl[l].location, fp)
  BY <1>6, <1>7 DEF IsRefs
<1>8. ASSUME NEW j \in 1..Len(r), NEW k \in 1..Len(r), j # k, r[j] = r[k]
      PROVE  r[j] > 0
  <2>1. CASE j \in 1..n /\ k \in 1..n
    BY <1>2, <1>8, <2>1 DEF IsRefs
  <2>2. CASE j = n + 1 \/ k = n + 1
    BY <1>2, <1>8, <2>2
  <2> QED
    BY <1>4, <2>1, <2>2
<1>9. IsRefs(q, cl, b, e, r, fp)
  BY <1>2, <1>5, <1>7, <1>8 DEF IsRefs
<1> QED
  BY <1>9 DEF r

\* The params of one target are given to an item: those of another stay.
LEMMA IsRefsMatched ==
  ASSUME NEW q, NEW cl, NEW cl2, NEW n \in Nat, NEW b, NEW e, NEW refs, NEW fp, NEW matched,
         Len(cl) \in Nat, n <= Len(cl), Len(matched) = Len(cl) - n,
         IsRefs(q, cl, b, e, refs, fp), Disjoint(refs, matched),
         SameRecords(cl, cl2, n), \A k \in n + 1..Len(cl) : cl2[k].id = matched[k - n]
  PROVE  IsRefs(q, cl2, b, e, refs, fp)
<1>1. ASSUME NEW j \in 1..Len(refs), NEW l \in 1..Len(cl2), cl2[l].id = refs[j], refs[j] < 0
      PROVE  InTarget(q, cl2[l].location, fp)
  <2>1. l \in 1..Len(cl) /\ cl2[l].location = cl[l].location
    BY DEF SameRecords
  <2>2. CASE l \in 1..n
    <3>1. cl2[l].id = cl[l].id
      BY <2>2 DEF SameRecords
    <3> QED
      BY <1>1, <2>1, <3>1 DEF IsRefs
  <2>3. CASE l \notin 1..n
    <3>1. l \in n + 1..Len(cl) /\ l - n \in 1..Len(matched)
      BY <2>1, <2>3
    <3>2. refs[j] = matched[l - n]
      BY <1>1, <3>1
    <3>3. refs[j] > 0
      BY <3>1, <3>2 DEF Disjoint
    <3>4. refs[j] \in Int
      BY DEF IsRefs
    <3> QED
      BY <1>1, <3>3, <3>4
  <2> QED
    BY <2>2, <2>3
<1> QED
  BY <1>1 DEF IsRefs

\* Sharing no number is symmetric.
LEMMA DisjointIsSymmetric ==
  ASSUME NEW r, NEW s, Disjoint(r, s)
  PROVE  Disjoint(s, r)
BY DEF Disjoint

-----------------------------------------------------------------------------
(***************************************************************************)
(* The walk                                                                *)
(***************************************************************************)
\* The walker is in an item of GROUP BY.
InGroupBy == walker.clause # 0 /\ query[walker.clause].name = "group"

\* Where the walker can be; the clauses it has not come to are the last ones in
\* its order.
WalkerInv ==
  /\ todo \in SUBSET (1..Len(query))
  /\ walker \in [clause : 0..Len(query), operand : Nat \ {0}, column : {1, 2}]
  /\ walker.clause = 0 => walker = Between
  /\ walker.clause # 0 =>
       /\ walker.clause \notin todo
       /\ walker.operand <= Len(query[walker.clause].operands) + 1
       /\ ~IsOrdinal(query[walker.clause])
       /\ walker.column = 2 => query[walker.clause].name = "set"
  /\ \A c \in 1..Len(query) : \A d \in todo : c \in todo \/ ComesBefore(c, d)

\* A step of the walk that comes to clause c, to the next operand, to the end
\* of a clause.
Comes(c) ==
  /\ walker.clause = 0 /\ c \in todo /\ ~IsOrdinal(query[c])
  /\ \A d \in todo \ {c} : ComesBefore(c, d)
  /\ todo' = todo \ {c}
  /\ walker' = [walker EXCEPT !.clause = c]

\* The walker goes past an operand.
Visits ==
  /\ walker.clause # 0 /\ walker.operand <= Len(query[walker.clause].operands)
  /\ todo' = todo
  /\ walker' = [walker EXCEPT !.operand = @ + 1]

\* The walker leaves a clause.
Ends ==
  /\ walker.clause # 0 /\ walker.operand > Len(query[walker.clause].operands)
  /\ todo' = todo
  /\ \/ walker' = Between
     \/ query[walker.clause].name = "set" /\ walker' = [walker EXCEPT !.operand = 1, !.column = 2]

\* The walker passes over clause c.
Skips(c) ==
  /\ walker.clause = 0 /\ c \in todo /\ IsOrdinal(query[c])
  /\ \A d \in todo \ {c} : ComesBefore(c, d)
  /\ todo' = todo \ {c}
  /\ walker' = walker

\* Each action of the walk is one of four steps of the walker.
LEMMA StepsOfTheWalker ==
  /\ \A c \in todo : BeginClause(c) \/ BeginGroup(c) => Comes(c)
  /\ \A c \in todo : BeginTarget(c) => Comes(c)
  /\ \A c \in todo : SkipOrdinal(c) => Skips(c)
  /\ VisitOperand \/ VisitSelect => Visits
  /\ EndClause \/ EndTarget \/ EndGroup => Ends
<1>1. ASSUME NEW c \in todo, BeginClause(c) \/ BeginGroup(c) PROVE Comes(c)
  BY <1>1 DEF BeginClause, BeginGroup, Enter, ComeTo, Comes
<1>2. ASSUME NEW c \in todo, BeginTarget(c) PROVE Comes(c)
  BY <1>2 DEF BeginTarget, IsOrdinal, Enter, ComeTo, Comes
<1>3. ASSUME NEW c \in todo, SkipOrdinal(c) PROVE Skips(c)
  BY <1>3 DEF SkipOrdinal, ComeTo, Skips
<1>4. ASSUME VisitOperand \/ VisitSelect PROVE Visits
  BY <1>4 DEF VisitOperand, VisitSelect, AtOperand, Clause, Visits
<1>5. ASSUME EndClause \/ EndTarget \/ EndGroup PROVE Ends
  BY <1>5 DEF EndClause, EndTarget, EndGroup, AtEnd, Clause, Ends
<1> QED
  BY <1>1, <1>2, <1>3, <1>4, <1>5

\* The walker comes to a clause.
LEMMA WalkerComes ==
  ASSUME IsQuery(query), WalkerInv, query' = query, NEW c \in todo, Comes(c)
  PROVE  WalkerInv' /\ walker' = [clause |-> c, operand |-> 1, column |-> 1]
<1>1. c \in 1..Len(query) /\ Len(query) \in Nat /\ c # 0
  BY QueryIs DEF WalkerInv
<1>2. walker = [clause |-> 0, operand |-> 1, column |-> 1]
  BY DEF WalkerInv, Comes, Between
<1>3. walker' = [clause |-> c, operand |-> 1, column |-> 1]
  BY <1>2 DEF Comes
<1>4. todo' = todo \ {c} /\ todo' \in SUBSET (1..Len(query))
  BY DEF Comes, WalkerInv
<1>5. walker' \in [clause : 0..Len(query), operand : Nat \ {0}, column : {1, 2}]
  BY <1>1, <1>3
<1>6. walker'.clause = c /\ walker'.operand = 1 /\ walker'.column = 1
  BY <1>3
<1>7. 1 <= Len(query[c].operands) + 1
  BY <1>1, QueryIs
<1>8. ASSUME NEW a \in 1..Len(query), NEW d \in todo' PROVE a \in todo' \/ ComesBefore(a, d)'
  <2>1. d \in todo /\ d # c
    BY <1>4
  <2>2. ComesBefore(a, d)' <=> ComesBefore(a, d)
    BY DEF ComesBefore
  <2>3. CASE a = c
    BY <2>1, <2>2, <2>3 DEF Comes
  <2>4. CASE a # c
    BY <1>4, <2>1, <2>2, <2>4 DEF WalkerInv
  <2> QED
    BY <2>3, <2>4
<1>9. ~IsOrdinal(query[c])
  BY DEF Comes
<1> QED
  BY <1>1, <1>3, <1>4, <1>5, <1>6, <1>7, <1>8, <1>9 DEF WalkerInv

\* The walker goes past an operand.
LEMMA WalkerVisits ==
  ASSUME IsQuery(query), WalkerInv, query' = query, Visits
  PROVE  /\ WalkerInv'
         /\ walker'.clause = walker.clause /\ walker'.column = walker.column
         /\ walker'.operand = walker.operand + 1
         /\ walker.clause \in 1..Len(query)
         /\ walker.operand \in 1..Len(query[walker.clause].operands)
<1>1. /\ walker \in [clause : 0..Len(query), operand : Nat \ {0}, column : {1, 2}]
      /\ walker.clause \in 1..Len(query) /\ walker.clause # 0 /\ Len(query) \in Nat
      /\ walker.operand \in Nat \ {0}
  BY QueryIs DEF WalkerInv, Visits
<1>2. Len(query[walker.clause].operands) \in Nat
  BY <1>1, QueryIs
<1>3. /\ walker'.clause = walker.clause /\ walker'.column = walker.column
      /\ walker'.operand = walker.operand + 1
      /\ walker' \in [clause : 0..Len(query), operand : Nat \ {0}, column : {1, 2}]
  BY <1>1 DEF Visits
<1>4. walker.operand \in 1..Len(query[walker.clause].operands)
  BY <1>1, <1>2 DEF Visits
<1>5. walker'.operand <= Len(query[walker.clause].operands) + 1
  BY <1>1, <1>2, <1>3, <1>4
<1>6. todo' = todo
  BY DEF Visits
<1>7. ASSUME NEW a, NEW d PROVE ComesBefore(a, d)' <=> ComesBefore(a, d)
  BY DEF ComesBefore
<1> QED
  BY <1>1, <1>3, <1>4, <1>5, <1>6, <1>7 DEF WalkerInv

\* The walker leaves a clause, or is back at the start of SET for its second column.
LEMMA WalkerEnds ==
  ASSUME IsQuery(query), WalkerInv, query' = query, Ends
  PROVE  /\ WalkerInv'
         /\ walker.clause \in 1..Len(query)
         /\ \A o \in 1..Len(query[walker.clause].operands) : o < walker.operand
         /\ walker'.clause = 0 \/ (walker'.clause = walker.clause /\ walker'.column = 2)
         /\ query[walker.clause].name # "set" => walker' = Between
<1>1. /\ walker \in [clause : 0..Len(query), operand : Nat \ {0}, column : {1, 2}]
      /\ walker.clause \in 1..Len(query) /\ walker.clause # 0 /\ Len(query) \in Nat
      /\ walker.operand \in Nat \ {0}
  BY QueryIs DEF WalkerInv, Ends
<1>2. Len(query[walker.clause].operands) \in Nat
  BY <1>1, QueryIs
<1>3. \A o \in 1..Len(query[walker.clause].operands) : o < walker.operand
  BY <1>1, <1>2 DEF Ends
<1>6. todo' = todo
  BY DEF Ends
<1>7. ASSUME NEW a, NEW d PROVE ComesBefore(a, d)' <=> ComesBefore(a, d)
  BY DEF ComesBefore
<1>8. CASE walker' = Between
  <2>1. walker'.clause = 0 /\ walker' \in [clause : 0..Len(query), operand : Nat \ {0}, column : {1, 2}]
    BY <1>1, <1>8 DEF Between
  <2> QED
    BY <1>1, <1>3, <1>6, <1>7, <1>8, <2>1 DEF WalkerInv, Between
<1>9. CASE query[walker.clause].name = "set" /\ walker' = [walker EXCEPT !.operand = 1, !.column = 2]
  <2>1. /\ walker'.clause = walker.clause /\ walker'.column = 2 /\ walker'.operand = 1
        /\ walker' \in [clause : 0..Len(query), operand : Nat \ {0}, column : {1, 2}]
    <3>1. walker.clause \in 0..Len(query)
      BY <1>1
    <3>2. walker' = [clause |-> walker.clause, operand |-> 1, column |-> 2]
      BY <1>1, <1>9
    <3> QED
      BY <3>1, <3>2
  <2>2. walker'.operand <= Len(query[walker.clause].operands) + 1
    BY <1>2, <2>1
  <2> QED
    BY <1>1, <1>3, <1>6, <1>7, <1>9, <2>1, <2>2 DEF WalkerInv
<1> QED
  BY <1>8, <1>9 DEF Ends

\* The walker passes over a clause.
LEMMA WalkerSkips ==
  ASSUME IsQuery(query), WalkerInv, query' = query, NEW c \in todo, Skips(c)
  PROVE  WalkerInv'
<1>4. todo' = todo \ {c} /\ todo' \in SUBSET (1..Len(query)) /\ walker' = walker
  BY DEF Skips, WalkerInv
<1>8. ASSUME NEW a \in 1..Len(query), NEW d \in todo' PROVE a \in todo' \/ ComesBefore(a, d)'
  <2>1. d \in todo /\ d # c
    BY <1>4
  <2>2. ComesBefore(a, d)' <=> ComesBefore(a, d)
    BY DEF ComesBefore
  <2>3. CASE a = c
    BY <2>1, <2>2, <2>3 DEF Skips
  <2>4. CASE a # c
    BY <1>4, <2>1, <2>2, <2>4 DEF WalkerInv
  <2> QED
    BY <2>3, <2>4
<1> QED
  BY <1>4, <1>8 DEF WalkerInv

\* Where the walker has been afterwards.
LEMMA SeenComes ==
  ASSUME IsQuery(query), WalkerInv, query' = query, NEW a \in todo, Comes(a),
         NEW c, NEW o, Counts(query, c, o)
  PROVE  Seen(todo', walker', c, o) <=> Seen(todo, walker, c, o)
<1>1. walker'.clause = a /\ walker'.operand = 1 /\ walker'.column = 1
  BY WalkerComes
<1>2. c \in 1..Len(query) /\ o \in 1..Len(query[c].operands) /\ Len(query) \in Nat
      /\ Len(query[c].operands) \in Nat
  BY QueryIs DEF Counts
<1>3. c # 0 /\ ~ (o < 1)
  BY <1>2
<1>4. todo' = todo \ {a} /\ walker.clause = 0
  BY DEF Comes
<1> QED
  BY <1>1, <1>3, <1>4 DEF Seen

\* An ordinal that is passed over has no constant that counts.
LEMMA SeenSkips ==
  ASSUME IsQuery(query), NEW a \in todo, Skips(a), NEW c, NEW o, Counts(query, c, o)
  PROVE  Seen(todo', walker', c, o) <=> Seen(todo, walker, c, o)
BY DEF Seen, Skips, Counts

\* One operand more has been seen.
LEMMA SeenVisits ==
  ASSUME IsQuery(query), WalkerInv, query' = query, Visits, NEW c, NEW o, Counts(query, c, o)
  PROVE  Seen(todo', walker', c, o) <=>
           Seen(todo, walker, c, o) \/ (c = walker.clause /\ o = walker.operand)
<1>1. o \in Int
  BY QueryIs DEF Counts
<1>2. /\ walker'.clause = walker.clause /\ walker'.column = walker.column
      /\ walker'.operand = walker.operand + 1
      /\ walker.operand \in Int
      /\ walker.clause \in 1..Len(query)
  BY WalkerVisits, QueryIs
<1>3. o < walker.operand + 1 <=> o < walker.operand \/ o = walker.operand
  BY <1>1, <1>2
<1>4. todo' = todo /\ walker.clause \notin todo
  BY <1>2 DEF Visits, WalkerInv
<1> QED
  BY <1>2, <1>3, <1>4 DEF Seen

\* At the end of a clause all its operands have been seen.
LEMMA SeenEnds ==
  ASSUME IsQuery(query), WalkerInv, query' = query, Ends, NEW c, NEW o, Counts(query, c, o)
  PROVE  Seen(todo', walker', c, o) <=> Seen(todo, walker, c, o)
<1>1. c \in 1..Len(query) /\ o \in 1..Len(query[c].operands) /\ c # 0
  BY QueryIs DEF Counts
<1>2. /\ \A n \in 1..Len(query[walker.clause].operands) : n < walker.operand
      /\ walker'.clause = 0 \/ (walker'.clause = walker.clause /\ walker'.column = 2)
  BY WalkerEnds
<1>3. todo' = todo
  BY DEF Ends
<1> QED
  BY <1>1, <1>2, <1>3 DEF Seen

-----------------------------------------------------------------------------
\* The records from before the GROUP BY item that is being walked, and the
\* first number that was free then.
Old == IF InGroupBy THEN group.count ELSE Len(js.clocations)
Base == js.highest - (Len(js.clocations) - Old)

\* An entry of the list of targets.
Target == [fp : {Fingerprint(query[c].operands) : c \in 1..Len(query)}, refs : Seq(Int)]

\* The types of what is recorded.
JsInv ==
  /\ js \in [clocations : Seq(Record), highest : Nat \ {0}, extern : 0..2,
             refs : Seq(Int) \cup {Null}]
  /\ targets \in Seq(Target)
  /\ group \in [matched : Seq(Int) \cup {Null}, count : Nat]

\* The constants the walker has been at are recorded, and no others.
RecordsInv == HasRecords(query, js.clocations, todo, walker)

\* The records before the item being walked are numbered without gaps, those of the
\* item as they came.
NumbersInv ==
  /\ Old \in 0..Len(js.clocations)
  /\ Base \in 1..Old + 1
  /\ Numbered(query, js.clocations, Old, Base, js.extern)
  /\ ItemNumbered(query, js.clocations, Old, Base, walker.clause)

\* What a step does to the records: nothing, one more, or the params of the
\* matched target for those of the item.
KeepsRecords ==
  /\ js'.clocations = js.clocations /\ js'.highest = js.highest
  /\ js.extern <= js'.extern

AddsRecord ==
  /\ Adds(js.clocations, js'.clocations, Place, -js.highest)
  /\ js'.highest = js.highest + 1
  /\ js'.extern = js.extern

GivesParams ==
  /\ group.matched \in Seq(Int)
  /\ Len(group.matched) = Len(js.clocations) - group.count
  /\ SameRecords(js.clocations, js'.clocations, group.count)
  /\ \A k \in group.count + 1..Len(js.clocations) :
       js'.clocations[k].id = group.matched[k - group.count]
  /\ js'.highest = js.highest - Len(group.matched)
  /\ js'.extern = js.extern
  /\ js'.refs = js.refs

\* The types of what is recorded, one by one.
LEMMA JsIs ==
  ASSUME JsInv
  PROVE  /\ js.clocations \in Seq(Record) /\ Len(js.clocations) \in Nat
         /\ \A k \in 1..Len(js.clocations) :
              /\ js.clocations[k] \in Record
              /\ js.clocations[k].id \in Int /\ js.clocations[k].location \in Nat
              /\ js.clocations[k].length = -1
         /\ js.highest \in Nat \ {0} /\ js.extern \in 0..2
         /\ js.refs = Null \/ js.refs \in Seq(Int)
         /\ Null \notin Seq(Int)
         /\ group.matched = Null \/ group.matched \in Seq(Int)
         /\ group.count \in Nat
         /\ js = [clocations |-> js.clocations, highest |-> js.highest,
                  extern |-> js.extern, refs |-> js.refs]
<1>1. js.clocations \in Seq(Record)
  BY DEF JsInv
<1>2. Len(js.clocations) \in Nat /\ \A k \in 1..Len(js.clocations) : js.clocations[k] \in Record
  BY <1>1, ElementOfSeq, LenProperties
<1>3. \A k \in 1..Len(js.clocations) :
        /\ js.clocations[k].id \in Int /\ js.clocations[k].location \in Nat
        /\ js.clocations[k].length = -1
  BY <1>2 DEF Record
<1>4. js.highest \in Nat \ {0} /\ js.extern \in 0..2 /\ js.refs \in Seq(Int) \cup {Null}
  BY DEF JsInv
<1>5. group.matched \in Seq(Int) \cup {Null} /\ group.count \in Nat
  BY DEF JsInv
<1>6. js = [clocations |-> js.clocations, highest |-> js.highest,
            extern |-> js.extern, refs |-> js.refs]
  BY DEF JsInv
<1> QED
  BY <1>1, <1>2, <1>3, <1>4, <1>5, <1>6, NullAssumption

\* RecordConstLocation adds a record with the next number.
LEMMA RecordIs ==
  ASSUME NEW j, NEW location,
         j \in [clocations : Seq(Record), highest : Nat \ {0}, extern : 0..2,
                refs : Seq(Int) \cup {Null}], location \in Nat
  PROVE  LET r == RecordConstLocation(j, location)
         IN  /\ r \in [clocations : Seq(Record), highest : Nat \ {0}, extern : 0..2,
                       refs : Seq(Int) \cup {Null}]
             /\ Adds(j.clocations, r.clocations, location, -j.highest)
             /\ r.highest = j.highest + 1 /\ r.extern = j.extern
             /\ r.refs = IF j.refs = Null THEN Null ELSE Append(j.refs, -j.highest)
<1> DEFINE e == [location |-> location, length |-> -1, id |-> -j.highest]
           n == IF j.refs = Null THEN Null ELSE Append(j.refs, -j.highest)
           s == [clocations |-> Append(j.clocations, e), highest |-> j.highest + 1,
                 extern |-> j.extern, refs |-> n]
<1>1. /\ j.clocations \in Seq(Record) /\ j.highest \in Nat \ {0} /\ j.extern \in 0..2
      /\ j.refs = Null \/ j.refs \in Seq(Int)
      /\ j = [clocations |-> j.clocations, highest |-> j.highest, extern |-> j.extern,
              refs |-> j.refs]
  OBVIOUS
<1>2. Append(j.clocations, e) \in Seq(Record) /\ Adds(j.clocations, Append(j.clocations, e), location, -j.highest)
  <2>1. -j.highest \in Int
    BY <1>1
  <2> QED
    BY <1>1, <2>1, AppendAdds
<1>3. n \in Seq(Int) \cup {Null}
  <2>1. -j.highest \in Int
    BY <1>1
  <2>2. CASE j.refs = Null
    BY <2>2
  <2>3. CASE j.refs # Null
    <3>1. Append(j.refs, -j.highest) \in Seq(Int)
      BY <1>1, <2>1, <2>3, AppendIs
    <3> QED
      BY <2>3, <3>1
  <2> QED
    BY <2>2, <2>3
<1>4. ~ (location < 0)
  OBVIOUS
<1>5. RecordConstLocation(j, location) =
        [j EXCEPT !.clocations = Append(@, e), !.highest = @ + 1, !.refs = n]
  BY <1>4 DEF RecordConstLocation, Recorded
<1> HIDE DEF e, n
<1>6. RecordConstLocation(j, location) = s
  BY <1>1, <1>5
<1>7. s \in [clocations : Seq(Record), highest : Nat \ {0}, extern : 0..2,
             refs : Seq(Int) \cup {Null}]
  BY <1>1, <1>2, <1>3
<1>8. /\ s.clocations = Append(j.clocations, e) /\ s.highest = j.highest + 1
      /\ s.extern = j.extern /\ s.refs = n
  OBVIOUS
<1> HIDE DEF s
<1> QED
  BY <1>2, <1>6, <1>7, <1>8 DEF n

-----------------------------------------------------------------------------
\* The operand the walker is at, and its constant.
LEMMA PlaceCounts ==
  ASSUME IsQuery(query), WalkerInv, AtOperand
  PROVE  /\ walker.clause \in 1..Len(query)
         /\ walker.operand \in 1..Len(query[walker.clause].operands)
         /\ HasConstant(Operand) <=> Counts(query, walker.clause, walker.operand)
         /\ HasConstant(Operand) => Place \in Nat
         /\ Operand \in Operands
<1>1. walker.clause \in 1..Len(query) /\ walker.operand \in Nat \ {0} /\ ~IsOrdinal(query[walker.clause])
  BY QueryIs DEF WalkerInv, AtOperand
<1>2. walker.operand \in 1..Len(query[walker.clause].operands)
  BY <1>1, QueryIs DEF AtOperand, Clause
<1>3. HasConstant(Operand) <=> Counts(query, walker.clause, walker.operand)
  BY <1>1, <1>2 DEF Counts, Operand, Clause
<1>4. HasConstant(Operand) => Place \in Nat
  BY <1>3, PlaceIs DEF Place
<1>5. Operand \in Operands
  BY <1>1, <1>2, QueryIs DEF Operand, Clause
<1> QED
  BY <1>1, <1>2, <1>3, <1>4, <1>5

\* An operand that is visited: a constant is recorded, a param is noted, anything
\* else changes nothing.
LEMMA VisitOperandDoes ==
  ASSUME IsQuery(query), WalkerInv, JsInv, VisitOperand, query' = query
  PROVE  /\ JsInv' /\ targets' = targets /\ group' = group
         /\ \/ /\ HasConstant(Operand) /\ AddsRecord
               /\ js'.refs = IF js.refs = Null THEN Null ELSE Append(js.refs, -js.highest)
            \/ /\ ~HasConstant(Operand) /\ Operand \notin {"$1", "$2"}
               /\ js' = js
            \/ /\ ~HasConstant(Operand) /\ Operand \in {"$1", "$2"} /\ KeepsRecords
               /\ \E number \in 1..js'.extern :
                    js'.refs = IF js.refs = Null THEN Null ELSE Append(js.refs, number)
<1>0. AtOperand /\ targets' = targets /\ group' = group
  BY DEF VisitOperand
<1>1. CASE HasConstant(Operand) /\ js' = RecordConstLocation(js, Place)
  <2>1. Place \in Nat
    BY <1>0, <1>1, PlaceCounts
  <2>2. /\ js' \in [clocations : Seq(Record), highest : Nat \ {0}, extern : 0..2,
                    refs : Seq(Int) \cup {Null}]
        /\ Adds(js.clocations, js'.clocations, Place, -js.highest)
        /\ js'.highest = js.highest + 1 /\ js'.extern = js.extern
        /\ js'.refs = IF js.refs = Null THEN Null ELSE Append(js.refs, -js.highest)
    BY <1>1, <2>1, RecordIs DEF JsInv
  <2>3. JsInv'
    BY <1>0, <2>2 DEF JsInv, Target
  <2> QED
    BY <1>0, <1>1, <2>2, <2>3 DEF AddsRecord
<1>2. CASE Operand = "row" /\ js' = RecordConstLocation(js, -1)
  <2>1. js' = js
    BY <1>2 DEF RecordConstLocation
  <2> QED
    BY <1>0, <1>2, <2>1, ConstantsAre DEF JsInv, Target
<1>3. CASE Operand \in {"a", "f(a)"} /\ js' = js
  BY <1>0, <1>3, ConstantsAre, ZenonT(40) DEF JsInv, Target
<1>4. CASE Operand \in {"$1", "$2"} /\ js' = RecordParamRef(js, ParamNumber(Operand))
  <2> DEFINE n == ParamNumber(Operand)
             x == IF n > js.extern THEN n ELSE js.extern
             r == IF js.refs = Null THEN Null ELSE Append(js.refs, n)
  <2>1. n \in 1..2
    BY DEF ParamNumber
  <2>2. x \in 0..2 /\ n <= x /\ js.extern <= x
    BY <2>1, JsIs
  <2>3. r \in Seq(Int) \cup {Null}
    <3>1. n \in Int
      BY <2>1
    <3>2. CASE js.refs = Null
      BY <3>2
    <3>3. CASE js.refs # Null
      <4>1. js.refs \in Seq(Int)
        BY <3>3, JsIs
      <4>2. Append(js.refs, n) \in Seq(Int)
        BY <3>1, <4>1, AppendIs
      <4> QED
        BY <3>3, <4>2
    <3> QED
      BY <3>2, <3>3
  <2>4. js' = [js EXCEPT !.extern = x, !.refs = r]
    BY <1>4 DEF RecordParamRef, Recorded
  <2> HIDE DEF n, x, r
  <2>5. js' = [clocations |-> js.clocations, highest |-> js.highest, extern |-> x, refs |-> r]
    BY <2>4, JsIs
  <2>6. /\ js'.clocations = js.clocations /\ js'.highest = js.highest /\ js'.extern = x
        /\ js'.refs = r
    BY <2>5
  <2>7. js' \in [clocations : Seq(Record), highest : Nat \ {0}, extern : 0..2,
                 refs : Seq(Int) \cup {Null}]
    BY <2>2, <2>3, <2>5, JsIs
  <2>8. JsInv'
    BY <1>0, <2>7 DEF JsInv, Target
  <2>9. KeepsRecords
    BY <2>2, <2>6 DEF KeepsRecords
  <2>a. n \in 1..x
    BY <2>1, <2>2
  <2>b. js'.refs = IF js.refs = Null THEN Null ELSE Append(js.refs, n)
    BY <2>6 DEF r
  <2> QED
    BY <1>0, <1>4, <2>6, <2>8, <2>9, <2>a, <2>b, ConstantsAre
<1> QED
  BY <1>1, <1>2, <1>3, <1>4 DEF VisitOperand

\* A nested SELECT records a constant and stops the recording of params.
LEMMA VisitSelectDoes ==
  ASSUME IsQuery(query), WalkerInv, JsInv, VisitSelect, query' = query
  PROVE  /\ JsInv' /\ targets' = targets /\ group' = group
         /\ HasConstant(Operand) /\ AddsRecord /\ js'.refs = Null
<1> DEFINE j == [js EXCEPT !.refs = <<>>]
           r == RecordConstLocation(j, Place)
<1>0. AtOperand /\ targets' = targets /\ group' = group /\ HasConstant(Operand)
  BY ConstantsAre DEF VisitSelect
<1>1. Place \in Nat
  BY <1>0, PlaceCounts
<1>2. /\ j \in [clocations : Seq(Record), highest : Nat \ {0}, extern : 0..2,
                refs : Seq(Int) \cup {Null}]
      /\ j.clocations = js.clocations /\ j.highest = js.highest /\ j.extern = js.extern
  <2>1. j = [clocations |-> js.clocations, highest |-> js.highest, extern |-> js.extern,
             refs |-> <<>>]
    BY JsIs
  <2>2. <<>> \in Seq(Int)
    OBVIOUS
  <2> HIDE DEF j
  <2> QED
    BY <2>1, <2>2, JsIs
<1>3. js' = [r EXCEPT !.refs = Null]
  BY DEF VisitSelect
<1> HIDE DEF j
<1>4. /\ r \in [clocations : Seq(Record), highest : Nat \ {0}, extern : 0..2,
                refs : Seq(Int) \cup {Null}]
      /\ Adds(j.clocations, r.clocations, Place, -j.highest)
      /\ r.highest = j.highest + 1 /\ r.extern = j.extern
  BY <1>1, <1>2, RecordIs
<1> HIDE DEF r
<1>5. js' = [clocations |-> r.clocations, highest |-> r.highest, extern |-> r.extern,
             refs |-> Null]
  BY <1>3, <1>4
<1>6. /\ js' \in [clocations : Seq(Record), highest : Nat \ {0}, extern : 0..2,
                  refs : Seq(Int) \cup {Null}]
      /\ js'.clocations = r.clocations /\ js'.highest = r.highest /\ js'.extern = r.extern
      /\ js'.refs = Null
  BY <1>4, <1>5
<1>7. JsInv'
  BY <1>0, <1>6 DEF JsInv, Target
<1>8. AddsRecord
  BY <1>2, <1>4, <1>6 DEF AddsRecord
<1> QED
  BY <1>0, <1>6, <1>7, <1>8

\* A clause other than a target or an item begins, or is skipped.
LEMMA BeginClauseDoes ==
  ASSUME JsInv, NEW c, BeginClause(c) \/ SkipOrdinal(c), query' = query
  PROVE  JsInv' /\ js' = js /\ targets' = targets /\ group' = group
BY DEF JsInv, Target, BeginClause, SkipOrdinal

\* A target begins with an empty list of params.
LEMMA BeginTargetDoes ==
  ASSUME JsInv, NEW c, BeginTarget(c), query' = query
  PROVE  /\ JsInv' /\ targets' = targets /\ group' = group
         /\ KeepsRecords /\ js'.refs = <<>>
<1>0. targets' = targets /\ group' = group /\ js' = [js EXCEPT !.refs = <<>>]
  BY DEF BeginTarget
<1>1. js' = [clocations |-> js.clocations, highest |-> js.highest, extern |-> js.extern,
             refs |-> <<>>]
  BY <1>0, JsIs
<1>2. <<>> \in Seq(Int)
  OBVIOUS
<1>3. js' \in [clocations : Seq(Record), highest : Nat \ {0}, extern : 0..2,
               refs : Seq(Int) \cup {Null}]
  BY <1>1, <1>2, JsIs
<1>4. JsInv'
  BY <1>0, <1>3 DEF JsInv, Target
<1>5. KeepsRecords /\ js'.refs = <<>>
  BY <1>1, JsIs DEF KeepsRecords
<1> QED
  BY <1>0, <1>4, <1>5

\* A clause other than a target or an item ends.
LEMMA EndClauseDoes ==
  ASSUME JsInv, EndClause, query' = query
  PROVE  JsInv' /\ js' = js /\ targets' = targets /\ group' = group
BY DEF JsInv, Target, EndClause

\* A target that ends is listed with its fingerprint and its params.
LEMMA EndTargetDoes ==
  ASSUME IsQuery(query), WalkerInv, JsInv, EndTarget, query' = query
  PROVE  /\ JsInv' /\ group' = group
         /\ targets' = Append(targets, [fp |-> Fingerprint(Clause.operands),
                                        refs |-> IF js.refs = Null THEN <<>> ELSE js.refs])
         /\ [fp |-> Fingerprint(Clause.operands),
             refs |-> IF js.refs = Null THEN <<>> ELSE js.refs] \in Target
         /\ KeepsRecords /\ js'.refs = Null
<1> DEFINE s == IF js.refs = Null THEN <<>> ELSE js.refs
           t == [fp |-> Fingerprint(Clause.operands), refs |-> s]
<1>0. targets' = Append(targets, t) /\ group' = group /\ js' = [js EXCEPT !.refs = Null]
  BY DEF EndTarget
<1>1. js' = [clocations |-> js.clocations, highest |-> js.highest, extern |-> js.extern,
             refs |-> Null]
  BY <1>0, JsIs
<1>2. js' \in [clocations : Seq(Record), highest : Nat \ {0}, extern : 0..2,
               refs : Seq(Int) \cup {Null}]
  BY <1>1, JsIs
<1>3. s \in Seq(Int)
  BY JsIs
<1>4. Fingerprint(Clause.operands) \in {Fingerprint(query[c].operands) : c \in 1..Len(query)}
  <2>1. walker.clause \in 1..Len(query)
    BY QueryIs DEF WalkerInv, EndTarget, AtEnd
  <2> QED
    BY <2>1 DEF Clause
<1> HIDE DEF s
<1>5. t \in Target
  BY <1>3, <1>4 DEF Target
<1> HIDE DEF t
<1>6. targets' \in Seq(Target)
  <2>1. targets \in Seq(Target)
    BY DEF JsInv
  <2> QED
    BY <1>0, <1>5, <2>1, AppendIs
<1>7. JsInv'
  BY <1>0, <1>2, <1>6 DEF JsInv, Target
<1>8. KeepsRecords /\ js'.refs = Null
  BY <1>1, JsIs DEF KeepsRecords
<1> QED
  BY <1>0, <1>5, <1>7, <1>8 DEF t, s

\* An item that ends gives its records the params of the matched target, or nothing.
LEMMA EndGroupDoes ==
  ASSUME JsInv, InGroupBy, NumbersInv, EndGroup, query' = query
  PROVE  /\ JsInv' /\ targets' = targets /\ group' = group
         /\ \/ Matches /\ GivesParams
            \/ ~Matches /\ js' = js
<1>0. targets' = targets /\ group' = group
  BY DEF EndGroup
<1>1. CASE ~Matches
  <2>1. js' = js
    BY <1>1 DEF EndGroup
  <2> QED
    BY <1>0, <1>1, <2>1 DEF JsInv, Target
<1>2. CASE Matches
  <2> DEFINE cl == js.clocations
             n == group.count
             m == group.matched
  <2>1. js' = [js EXCEPT !.clocations = WithMatched, !.highest = @ - Len(m)]
    BY <1>2 DEF EndGroup
  <2>2. js' = [clocations |-> WithMatched, highest |-> js.highest - Len(m),
               extern |-> js.extern, refs |-> js.refs]
    BY <2>1, JsIs
  <2>3. m \in Seq(Int) /\ Len(m) = Len(cl) - n /\ Len(cl) \in Nat /\ n \in Nat /\ n <= Len(cl)
    BY <1>2, JsIs DEF Matches, NumbersInv, Old
  <2>4. js.highest - Len(m) \in Nat \ {0}
    <3>1. Base = js.highest - (Len(js.clocations) - n) /\ Base \in Nat \ {0}
      BY <2>3 DEF Base, Old, NumbersInv
    <3> QED
      BY <2>3, <3>1
  <2>5. ASSUME NEW k \in 1..Len(cl)
        PROVE  /\ WithMatched[k] = IF k > n THEN [cl[k] EXCEPT !.id = m[k - n]] ELSE cl[k]
               /\ WithMatched[k] \in Record
               /\ WithMatched[k].location = cl[k].location
               /\ k > n => WithMatched[k].id = m[k - n]
               /\ k <= n => WithMatched[k].id = cl[k].id
    <3>1. WithMatched[k] = IF k > n THEN [cl[k] EXCEPT !.id = m[k - n]] ELSE cl[k]
      BY DEF WithMatched
    <3>2. cl[k] \in Record
      BY JsIs
    <3>3. k > n \/ k <= n
      BY <2>3
    <3>4. CASE k > n
      <4>1. m[k - n] \in Int
        <5>1. k - n \in 1..Len(m)
          BY <2>3, <3>4
        <5> QED
          BY <2>3, <5>1, ElementOfSeq
      <4> HIDE DEF m, n, cl
      <4>2. WithMatched[k] = [cl[k] EXCEPT !.id = m[k - n]] /\ ~ (k <= n)
        BY <2>3, <3>1, <3>4
      <4>3. [cl[k] EXCEPT !.id = m[k - n]] = [location |-> cl[k].location, length |-> cl[k].length, id |-> m[k - n]]
        BY <3>2 DEF Record
      <4>4. cl[k].location \in Nat /\ cl[k].length = -1
        BY <3>2 DEF Record
      <4>5. [location |-> cl[k].location, length |-> cl[k].length, id |-> m[k - n]] \in Record
        BY <4>1, <4>4 DEF Record
      <4>6. [location |-> cl[k].location, length |-> cl[k].length, id |-> m[k - n]].location = cl[k].location
        OBVIOUS
      <4>7. [location |-> cl[k].location, length |-> cl[k].length, id |-> m[k - n]].id = m[k - n]
        OBVIOUS
      <4> QED
        BY <3>1, <3>4, <4>2, <4>3, <4>5, <4>6, <4>7
    <3>5. CASE k <= n
      <4> HIDE DEF m, n, cl
      <4>1. ~ (k > n)
        BY <2>3, <3>5
      <4> QED
        BY <3>1, <3>2, <4>1
    <3> QED
      BY <3>3, <3>4, <3>5
  <2>6. DOMAIN WithMatched = 1..Len(cl) /\ WithMatched = [k \in 1..Len(cl) |-> WithMatched[k]]
    BY DEF WithMatched
  <2>7. WithMatched \in Seq(Record) /\ Len(WithMatched) = Len(cl)
    <3>1. WithMatched \in [1..Len(cl) -> Record]
      BY <2>5, <2>6
    <3>2. WithMatched \in Seq(Record)
      BY <2>3, <3>1, SeqDef
    <3> QED
      BY <2>3, <2>6, <3>2
  <2>8. /\ js'.clocations = WithMatched /\ js'.highest = js.highest - Len(m)
        /\ js'.extern = js.extern /\ js'.refs = js.refs
    BY <2>2
  <2>9. js' \in [clocations : Seq(Record), highest : Nat \ {0}, extern : 0..2,
                 refs : Seq(Int) \cup {Null}]
    BY <2>2, <2>4, <2>7, JsIs
  <2>a. JsInv'
    BY <1>0, <2>9 DEF JsInv, Target
  <2> HIDE DEF m, n, cl
  <2>b. SameRecords(cl, WithMatched, n)
    <3>1. \A k \in 1..n : k \in 1..Len(cl) /\ k <= n
      BY <2>3
    <3> QED
      BY <2>5, <2>7, <3>1 DEF SameRecords
  <2>c. \A k \in n + 1..Len(cl) : WithMatched[k].id = m[k - n]
    <3>1. \A k \in n + 1..Len(cl) : k \in 1..Len(cl) /\ k > n
      BY <2>3
    <3> QED
      BY <2>5, <3>1
  <2>d. GivesParams
    BY <2>3, <2>8, <2>b, <2>c DEF GivesParams, cl, n, m
  <2> QED
    BY <1>0, <1>2, <2>a, <2>d
<1> QED
  BY <1>1, <1>2

-----------------------------------------------------------------------------
\* s2 is s without its k-th element.
Shifted(m, k) == IF m < k THEN m ELSE m + 1

Removes(s, s2, k) ==
  /\ \A m \in 1..Len(s2) :
       Shifted(m, k) \in 1..Len(s) /\ Shifted(m, k) # k /\ s2[m] = s[Shifted(m, k)]
  /\ \A m \in 1..Len(s) : m # k => \E n \in 1..Len(s2) : s2[n] = s[m]

\* Different places are shifted to different places.
LEMMA ShiftedIsOne ==
  ASSUME NEW k \in Int, NEW m \in Int, NEW n \in Int, Shifted(m, k) = Shifted(n, k)
  PROVE  m = n
BY DEF Shifted

\* RemoveAt removes one element and keeps the others.
LEMMA RemoveAtRemoves ==
  ASSUME NEW S, NEW s \in Seq(S), NEW k \in 1..Len(s)
  PROVE  RemoveAt(s, k) \in Seq(S) /\ Removes(s, RemoveAt(s, k), k)
<1> DEFINE a == SubSeq(s, 1, k - 1)
           b == SubSeq(s, k + 1, Len(s))
           L == Len(s)
<1>0. L \in Nat /\ k \in 1..L
  OBVIOUS
<1>1. a \in Seq(S) /\ Len(a) = k - 1 /\ \A m \in 1..k - 1 : a[m] = s[m]
  BY <1>0
<1>2. b \in Seq(S) /\ Len(b) = L - k /\ \A m \in 1..L - k : b[m] = s[m + k]
  <2>1. \A m \in 1..L - k : b[m] = s[k + 1 + m - 1]
    BY <1>0
  <2>2. \A m \in 1..L - k : k + 1 + m - 1 = m + k
    BY <1>0
  <2> QED
    BY <1>0, <2>1, <2>2
<1> HIDE DEF a, b, L
<1>3. /\ Joined(a, b) \in Seq(S) /\ Len(Joined(a, b)) = Len(a) + Len(b)
      /\ \A j \in 1..Len(b) : Joined(a, b)[Len(a) + j] = b[j]
  <2>1. a \in Seq(S) /\ b \in Seq(S)
    BY <1>1, <1>2
  <2> QED
    BY <2>1, JoinedIs
<1>4. \A j \in 1..Len(a) : Joined(a, b)[j] = a[j]
  BY <1>1, <1>2 DEF Joined
<1>5. RemoveAt(s, k) = Joined(a, b)
  BY DEF RemoveAt, Joined, a, b
<1> DEFINE r == Joined(a, b)
<1>6. r \in Seq(S) /\ Len(r) = L - 1
  BY <1>0, <1>1, <1>2, <1>3
<1>7. ASSUME NEW m \in 1..k - 1 PROVE r[m] = s[m]
  BY <1>1, <1>4
<1>8. ASSUME NEW m \in k..L - 1 PROVE r[m] = s[m + 1]
  <2>1. m - k + 1 \in 1..Len(b) /\ m - k + 1 \in 1..L - k /\ Len(a) + (m - k + 1) = m /\ (m - k + 1) + k = m + 1
    BY <1>0, <1>1, <1>2
  <2>2. Joined(a, b)[Len(a) + (m - k + 1)] = b[m - k + 1]
    BY <1>3, <2>1
  <2>3. b[m - k + 1] = s[(m - k + 1) + k]
    BY <1>2, <2>1
  <2> QED
    BY <2>1, <2>2, <2>3
<1> HIDE DEF r
<1>9. ASSUME NEW m \in 1..Len(r)
      PROVE  Shifted(m, k) \in 1..L /\ Shifted(m, k) # k /\ r[m] = s[Shifted(m, k)]
  <2>1. CASE m < k
    <3>1. m \in 1..k - 1 /\ Shifted(m, k) = m
      BY <1>0, <1>6, <2>1 DEF Shifted
    <3> QED
      BY <1>0, <1>7, <2>1, <3>1
  <2>2. CASE ~ (m < k)
    <3>1. m \in k..L - 1 /\ Shifted(m, k) = m + 1
      BY <1>0, <1>6, <2>2 DEF Shifted
    <3>2. m + 1 \in 1..L /\ m + 1 # k
      BY <1>0, <3>1
    <3> QED
      BY <1>8, <3>1, <3>2
  <2> QED
    BY <2>1, <2>2
<1>a. ASSUME NEW m \in 1..L, m # k PROVE \E n \in 1..Len(r) : r[n] = s[m]
  <2>1. CASE m < k
    <3>1. m \in 1..k - 1 /\ m \in 1..Len(r)
      BY <1>0, <1>6, <2>1
    <3> QED
      BY <1>7, <3>1
  <2>2. CASE ~ (m < k)
    <3>1. m - 1 \in k..L - 1 /\ m - 1 \in 1..Len(r) /\ (m - 1) + 1 = m
      BY <1>0, <1>6, <1>a, <2>2
    <3> QED
      BY <1>8, <3>1
  <2> QED
    BY <2>1, <2>2
<1>b. Removes(s, r, k)
  BY <1>9, <1>a DEF Removes, L
<1> QED
  BY <1>5, <1>6, <1>b DEF r

\* An item that begins takes the first target with its fingerprint out of the list.
LEMMA BeginGroupDoes ==
  ASSUME JsInv, NEW c, BeginGroup(c), query' = query
  PROVE  /\ JsInv' /\ js' = js
         /\ group'.count = Len(js.clocations)
         /\ \/ /\ group'.matched = Null /\ targets' = targets
               /\ \A m \in 1..Len(targets) : targets[m].fp # Fingerprint(query[c].operands)
            \/ \E k \in 1..Len(targets) :
                 /\ targets[k].fp = Fingerprint(query[c].operands)
                 /\ group'.matched = targets[k].refs
                 /\ Removes(targets, targets', k)
<1> DEFINE same == {k \in 1..Len(targets) : targets[k].fp = Fingerprint(query[c].operands)}
           k == CHOOSE k \in same : \A l \in same : k <= l
<1>1. /\ group' = [matched |-> IF same = {} THEN Null ELSE targets[k].refs,
                   count |-> Len(js.clocations)]
      /\ targets' = IF same = {} THEN targets ELSE RemoveAt(targets, k)
      /\ js' = js
  BY DEF BeginGroup
<1>2. targets \in Seq(Target)
  BY DEF JsInv
<1>3. Target' = Target
  BY DEF Target
<1>4. CASE same = {}
  <2>1. group'.matched = Null /\ group'.count = Len(js.clocations)
    BY <1>1, <1>4
  <2>2. group' \in [matched : Seq(Int) \cup {Null}, count : Nat]
    BY <1>1, <1>4, JsIs
  <2>3. targets' = targets
    BY <1>1, <1>4
  <2>4. JsInv'
    BY <1>1, <1>3, <2>2, <2>3 DEF JsInv
  <2> QED
    BY <1>1, <1>4, <2>1, <2>3, <2>4
<1>5. CASE same # {}
  <2>1. k \in same
    <3>1. same \in SUBSET Nat
      <4>1. Len(targets) \in Nat
        BY <1>2, LenProperties
      <4> QED
        BY <4>1
    <3> HIDE DEF same
    <3> QED
      BY <1>5, <3>1, LeastNatural
  <2>2. k \in 1..Len(targets) /\ targets[k].fp = Fingerprint(query[c].operands)
    BY <2>1
  <2> HIDE DEF same, k
  <2>3. targets[k] \in Target
    BY <1>2, <2>2, ElementOfSeq
  <2>4. targets[k].refs \in Seq(Int)
    BY <2>3 DEF Target
  <2>5. group' = [matched |-> targets[k].refs, count |-> Len(js.clocations)]
    BY <1>1, <1>5
  <2>6. group' \in [matched : Seq(Int) \cup {Null}, count : Nat]
    BY <2>4, <2>5, JsIs
  <2>7. targets' \in Seq(Target) /\ Removes(targets, targets', k)
    BY <1>1, <1>2, <1>5, <2>2, RemoveAtRemoves
  <2>8. JsInv'
    BY <1>1, <1>3, <2>6, <2>7 DEF JsInv
  <2>9. group'.matched = targets[k].refs /\ group'.count = Len(js.clocations)
    BY <2>5
  <2> QED
    BY <1>1, <2>2, <2>7, <2>8, <2>9
<1> QED
  BY <1>4, <1>5

-----------------------------------------------------------------------------
\* Whether the walker is in an item of GROUP BY.
LEMMA GroupByIs ==
  ASSUME IsQuery(query), WalkerInv, query' = query
  PROVE  /\ \A c \in todo : Comes(c) => ~InGroupBy /\ (InGroupBy' <=> query[c].name = "group")
         /\ \A c \in todo : Skips(c) => ~InGroupBy /\ ~InGroupBy'
         /\ Visits => (InGroupBy' <=> InGroupBy) /\ walker'.clause = walker.clause
         /\ Ends => ~InGroupBy' /\ (query[walker.clause].name = "group" <=> InGroupBy)
<1>1. ASSUME NEW c \in todo, Comes(c)
      PROVE  ~InGroupBy /\ (InGroupBy' <=> query[c].name = "group")
  <2>1. walker'.clause = c /\ walker.clause = 0 /\ c # 0
    <3>1. walker'.clause = c
      BY <1>1, WalkerComes
    <3>2. c \in 1..Len(query)
      BY DEF WalkerInv
    <3> QED
      BY <1>1, <3>1, <3>2 DEF Comes
  <2> QED
    BY <2>1 DEF InGroupBy
<1>2. ASSUME NEW c \in todo, Skips(c) PROVE ~InGroupBy /\ ~InGroupBy'
  BY <1>2 DEF Skips, InGroupBy
<1>3. ASSUME Visits PROVE (InGroupBy' <=> InGroupBy) /\ walker'.clause = walker.clause
  <2>1. walker'.clause = walker.clause
    BY <1>3, WalkerVisits
  <2> QED
    BY <2>1 DEF InGroupBy
<1>4. ASSUME Ends PROVE ~InGroupBy' /\ (query[walker.clause].name = "group" <=> InGroupBy)
  <2>1. query[walker.clause].name = "set" \/ walker'.clause = 0
    BY <1>4 DEF Ends, Between
  <2>2. walker'.clause = 0 \/ walker'.clause = walker.clause
    BY <1>4, WalkerEnds
  <2>3. walker.clause # 0
    BY <1>4 DEF Ends
  <2> QED
    BY <2>1, <2>2, <2>3 DEF InGroupBy
<1> QED
  BY <1>1, <1>2, <1>3, <1>4

\* Records that stay are numbered as they were.
LEMMA NumbersStay ==
  ASSUME JsInv, JsInv', NumbersInv, query' = query, KeepsRecords, group' = group,
         InGroupBy' <=> InGroupBy, InGroupBy => walker'.clause = walker.clause
  PROVE  NumbersInv' /\ Base' = Base
<1>1. Old' = Old /\ Base' = Base /\ js'.clocations = js.clocations
  BY DEF Old, Base, KeepsRecords
<1>2. Old \in 0..Len(js.clocations) /\ Old \in Nat /\ Base \in 1..Old + 1
  BY JsIs DEF NumbersInv
<1>3. js.extern \in Int /\ js'.extern \in Int /\ js.extern <= js'.extern
  BY DEF KeepsRecords, JsInv
<1>4. Numbered(query, js.clocations, Old, Base, js'.extern)
  <2>1. \A k \in 1..Old : js.clocations[k].id \in Int
    BY <1>2, JsIs
  <2> QED
    BY <1>2, <1>3, <2>1, NumberedStays DEF NumbersInv
<1>5. ItemNumbered(query, js.clocations, Old, Base, walker'.clause)
  <2>1. CASE InGroupBy
    BY <2>1 DEF NumbersInv
  <2>2. CASE ~InGroupBy
    <3>1. Old = Len(js.clocations) /\ Len(js.clocations) \in Nat
      BY <2>2, JsIs DEF Old
    <3> QED
      BY <3>1 DEF ItemNumbered
  <2> QED
    BY <2>1, <2>2
<1> QED
  BY <1>1, <1>2, <1>4, <1>5 DEF NumbersInv

\* A record more is numbered.
LEMMA NumbersAdd ==
  ASSUME IsQuery(query), JsInv, JsInv', NumbersInv, query' = query, AddsRecord, group' = group,
         InGroupBy' <=> InGroupBy, walker'.clause = walker.clause,
         Counts(query, walker.clause, walker.operand)
  PROVE  /\ NumbersInv'
         /\ Base' = IF InGroupBy THEN Base ELSE Base + 1
         /\ -js.highest < 1 - Base
         /\ ~InGroupBy => Base = js.highest /\ Old = Len(js.clocations)
<1> DEFINE L == Len(js.clocations)
           cl == js.clocations
           cl2 == js'.clocations
<1>0. /\ L \in Nat /\ Len(cl2) = L + 1
      /\ \A k \in 1..L : cl2[k] = cl[k]
      /\ cl2[L + 1].id = -js.highest
      /\ cl2[L + 1].location = PlaceOf(query, walker.clause, walker.operand)
  BY DEF AddsRecord, Adds, Place
<1>1. Old \in 0..L /\ Old \in Nat /\ Base \in 1..Old + 1 /\ js.highest \in Nat /\ Base \in Nat \ {0}
  BY JsIs DEF NumbersInv
<1>2. Base = js.highest - (L - Old) /\ js.highest = Base + (L - Old)
  BY <1>1, <1>0 DEF Base
<1>3. -js.highest < 1 - Base
  BY <1>0, <1>1, <1>2
<1>4. js'.highest = js.highest + 1 /\ js'.extern = js.extern /\ js.extern \in Nat
  BY JsIs DEF AddsRecord
<1>5. \A k \in 1..L : cl[k].id \in Int
  BY JsIs
<1>6. IsIn(query, PlaceOf(query, walker.clause, walker.operand), walker.clause)
  BY DEF IsIn, Counts
<1>7. Numbered(query, cl2, Old, Base, js'.extern)
  <2>1. \A k \in 1..Old : cl[k].id \in Int /\ cl2[k].id = cl[k].id /\ cl2[k].location = cl[k].location
    BY <1>0, <1>1, <1>5
  <2>2. Numbered(query, cl, Old, Base, js.extern) /\ js.extern \in Int /\ js'.extern \in Int /\ js.extern <= js'.extern
    BY <1>4 DEF NumbersInv
  <2> HIDE DEF cl, cl2
  <2> QED
    BY <1>1, <2>1, <2>2, NumberedStays
<1>8. ItemNumbered(query, cl2, Old, Base, walker.clause)
  <2> SUFFICES ASSUME NEW k \in Old + 1..L + 1
               PROVE  /\ cl2[k].id = -(Base + k - Old - 1)
                      /\ IsIn(query, cl2[k].location, walker.clause)
    BY <1>0 DEF ItemNumbered
  <2>1. CASE k = L + 1
    <3>1. -js.highest = -(Base + k - Old - 1)
      BY <1>0, <1>1, <1>2, <2>1
    <3> QED
      BY <1>0, <1>6, <2>1, <3>1
  <2>2. CASE k # L + 1
    <3>1. k \in Old + 1..L /\ k \in 1..L
      BY <1>0, <1>1, <2>2
    <3>2. cl2[k] = cl[k]
      BY <1>0, <3>1
    <3>3. cl[k].id = -(Base + k - Old - 1) /\ IsIn(query, cl[k].location, walker.clause)
      BY <3>1 DEF NumbersInv, ItemNumbered
    <3> QED
      BY <3>2, <3>3
  <2> QED
    BY <2>1, <2>2
<1>9. CASE InGroupBy
  <2>1. Old' = Old
    BY <1>9 DEF Old
  <2>2. Base' = Base
    BY <1>0, <1>1, <1>2, <1>4, <2>1, SMTT(40) DEF Base
  <2>3. Old \in 0..Len(cl2)
    BY <1>0, <1>1
  <2> HIDE DEF cl2
  <2>4. NumbersInv'
    BY <1>1, <1>7, <1>8, <2>1, <2>2, <2>3 DEF NumbersInv, cl2
  <2> QED
    BY <1>3, <1>9, <2>2, <2>4
<1>a. CASE ~InGroupBy
  <2>1. Old = L /\ Old' = L + 1
    BY <1>0, <1>a DEF Old
  <2>2. Base = js.highest /\ Base' = Base + 1
    <3>1. Base' = (js.highest + 1) - ((L + 1) - (L + 1))
      BY <1>0, <1>4, <2>1 DEF Base
    <3>2. Base = js.highest - (L - L)
      BY <2>1 DEF Base
    <3>3. ASSUME NEW h \in Int, NEW l \in Int
          PROVE  h - (l - l) = h /\ (h + 1) - ((l + 1) - (l + 1)) = h + 1
      OBVIOUS
    <3>4. js.highest \in Int /\ L \in Int
      BY <1>0, <1>1
    <3> HIDE DEF L
    <3> QED
      BY <3>1, <3>2, <3>3, <3>4
  <2>3. Numbered(query, cl2, Len(cl2), Base + (Len(cl2) - Old), js'.extern)
    <3>1. \A k \in 1..Old : cl2[k].id \in Int
      BY <1>0, <1>5, <2>1
    <3>2. Len(cl2) \in Nat /\ Old <= Len(cl2) /\ js'.extern \in Nat
      BY <1>0, <1>4, <2>1
    <3> HIDE DEF cl2
    <3> QED
      BY <1>1, <1>7, <1>8, <3>1, <3>2, NumberedItem
  <2>4. Base + (Len(cl2) - Old) = Base' /\ Len(cl2) = Old' /\ Old' \in 0..Len(cl2) /\ Base' \in 1..Old' + 1
    BY <1>0, <1>1, <2>1, <2>2
  <2>5. ItemNumbered(query, cl2, Old', Base', walker'.clause)
    BY <1>0, <2>1 DEF ItemNumbered
  <2> HIDE DEF cl2
  <2>6. NumbersInv'
    BY <2>3, <2>4, <2>5 DEF NumbersInv, cl2
  <2> QED
    BY <1>3, <1>a, <2>1, <2>2, <2>6
<1> QED
  BY <1>9, <1>a

-----------------------------------------------------------------------------
\* The params of the targets, of the target an item has matched and of the
\* target that is being walked are known numbers, and no two of these share
\* one that was given out.
KnownRefs(refs, fp) == IsRefs(query, js.clocations, Base, js.extern, refs, fp)

TargetRefs ==
  /\ \A m \in 1..Len(targets) : KnownRefs(targets[m].refs, targets[m].fp)
  /\ \A m, n \in 1..Len(targets) : m # n => Disjoint(targets[m].refs, targets[n].refs)

GroupRefs ==
  InGroupBy /\ group.matched # Null =>
    /\ KnownRefs(group.matched, Fingerprint(query[walker.clause].operands))
    /\ \A m \in 1..Len(targets) : Disjoint(targets[m].refs, group.matched)

JsRefs ==
  js.refs # Null =>
    /\ walker.clause # 0 /\ query[walker.clause].name = "target"
    /\ KnownRefs(js.refs, Fingerprint(query[walker.clause].operands))
    /\ \A m \in 1..Len(targets) : Disjoint(targets[m].refs, js.refs)

RefsInv == TargetRefs /\ GroupRefs /\ JsRefs

\* What holds during the walk.
Core == WalkerInv /\ JsInv /\ RecordsInv /\ NumbersInv /\ RefsInv

\* What is known of params stays so.
StayKnown == \A refs, fp : KnownRefs(refs, fp) => KnownRefs(refs, fp)'

\* The params of listed targets, when the list stays.
LEMMA TargetRefsStay ==
  ASSUME TargetRefs, StayKnown, targets' = targets
  PROVE  TargetRefs'
<1>1. ASSUME NEW m \in 1..Len(targets) PROVE KnownRefs(targets[m].refs, targets[m].fp)'
  <2>1. KnownRefs(targets[m].refs, targets[m].fp)
    BY DEF TargetRefs
  <2> DEFINE r == targets[m].refs
             f == targets[m].fp
  <2>2. targets'[m].refs = r /\ targets'[m].fp = f
    OBVIOUS
  <2>3. IsRefs(query', js'.clocations, Base', js'.extern, r, f)
    BY <2>1 DEF StayKnown, KnownRefs
  <2> QED
    BY <2>2, <2>3 DEF KnownRefs
<1>2. \A m, n \in 1..Len(targets) : m # n => Disjoint(targets[m].refs, targets[n].refs)
  BY DEF TargetRefs
<1> QED
  BY <1>1, <1>2 DEF TargetRefs

\* Params stay known when nothing is recorded.
LEMMA KnownStays ==
  ASSUME JsInv, JsInv', query' = query, KeepsRecords, Base' = Base
  PROVE  StayKnown
<1>1. js.extern \in Int /\ js'.extern \in Int /\ js.extern <= js'.extern
  BY DEF KeepsRecords, JsInv
<1>2. js'.clocations = js.clocations
  BY DEF KeepsRecords
<1> QED
  BY <1>1, <1>2, IsRefsStays DEF StayKnown, KnownRefs

\* Params stay known when a new number is recorded.
LEMMA KnownAdds ==
  ASSUME JsInv, NumbersInv, query' = query, AddsRecord, -js.highest < 1 - Base,
         Base' = Base \/ Base' = Base + 1
  PROVE  StayKnown
<1>1. -js.highest \in Int /\ Base \in Int
  BY JsIs DEF NumbersInv
<1>2. Base' \in Int /\ Base <= Base'
  BY <1>1
<1>3. Adds(js.clocations, js'.clocations, Place, -js.highest) /\ js'.extern = js.extern
  BY DEF AddsRecord
<1> QED
  BY <1>1, <1>2, <1>3, IsRefsAdds DEF StayKnown, KnownRefs

\* An empty list of params.
LEMMA NoRefs ==
  ASSUME NEW fp
  PROVE  KnownRefs(<<>>, fp) /\ \A r : Disjoint(r, <<>>) /\ Disjoint(<<>>, r)
<1>1. <<>> \in Seq(Int) /\ Len(<<>>) = 0
  OBVIOUS
<1>2. 1..0 = {}
  OBVIOUS
<1> QED
  BY <1>1, <1>2 DEF KnownRefs, IsRefs, Disjoint

\* A step that changes nothing but where the walker is.
LEMMA CoreStays ==
  ASSUME IsQuery(query), Core, query' = query, WalkerInv',
         js' = js, targets' = targets, group' = group,
         InGroupBy' <=> InGroupBy, InGroupBy => walker'.clause = walker.clause,
         js.refs # Null => walker'.clause = walker.clause,
         \A c, o : Counts(query, c, o) =>
           (Seen(todo', walker', c, o) <=> Seen(todo, walker, c, o))
  PROVE  Core'
<1> USE DEF Core
<1>1. JsInv'
  BY DEF JsInv, Target
<1>2. KeepsRecords
  BY JsIs DEF KeepsRecords
<1>3. NumbersInv' /\ Base' = Base
  BY <1>1, <1>2, NumbersStay
<1>4. RecordsInv'
  <2>1. SameRecords(js.clocations, js'.clocations, 0)
    BY DEF SameRecords
  <2> QED
    BY <2>1, HasRecordsStays DEF RecordsInv
<1>5. TargetRefs'
  BY <1>1, <1>2, <1>3, TargetRefsStay, KnownStays DEF RefsInv
<1>6. GroupRefs'
  BY <1>3 DEF RefsInv, GroupRefs, KnownRefs
<1>7. JsRefs'
  BY <1>3 DEF RefsInv, JsRefs, KnownRefs
<1> QED
  BY <1>1, <1>3, <1>4, <1>5, <1>6, <1>7 DEF RefsInv

\* BeginClause preserves the invariant of the walk.
LEMMA CoreBeginClause ==
  ASSUME IsQuery(query), Core, query' = query, NEW c \in todo, BeginClause(c)
  PROVE  Core'
<1> USE DEF Core
<1>1. Comes(c) /\ query[c].name # "group"
  BY StepsOfTheWalker DEF BeginClause
<1>2. js' = js /\ targets' = targets /\ group' = group
  BY BeginClauseDoes
<1>3. ~InGroupBy /\ ~InGroupBy' /\ WalkerInv'
  BY <1>1, GroupByIs, WalkerComes
<1>4. js.refs = Null
  BY <1>1 DEF RefsInv, JsRefs, Comes
<1>5. \A a, o : Counts(query, a, o) =>
        (Seen(todo', walker', a, o) <=> Seen(todo, walker, a, o))
  BY <1>1, SeenComes
<1> QED
  BY <1>2, <1>3, <1>4, <1>5, CoreStays

\* SkipOrdinal preserves the invariant of the walk.
LEMMA CoreSkipOrdinal ==
  ASSUME IsQuery(query), Core, query' = query, NEW c \in todo, SkipOrdinal(c)
  PROVE  Core'
<1> USE DEF Core
<1>1. Skips(c)
  BY StepsOfTheWalker
<1>2. js' = js /\ targets' = targets /\ group' = group
  BY BeginClauseDoes
<1>3. ~InGroupBy /\ ~InGroupBy' /\ WalkerInv'
  BY <1>1, GroupByIs, WalkerSkips
<1>4. js.refs = Null
  BY <1>1 DEF RefsInv, JsRefs, Skips
<1>5. \A a, o : Counts(query, a, o) =>
        (Seen(todo', walker', a, o) <=> Seen(todo, walker, a, o))
  BY <1>1, SeenSkips
<1> QED
  BY <1>2, <1>3, <1>4, <1>5, CoreStays

\* EndClause preserves the invariant of the walk.
LEMMA CoreEndClause ==
  ASSUME IsQuery(query), Core, query' = query, EndClause
  PROVE  Core'
<1> USE DEF Core
<1>1. Ends /\ query[walker.clause].name \notin {"target", "group"}
  BY StepsOfTheWalker DEF EndClause, Clause
<1>2. js' = js /\ targets' = targets /\ group' = group
  BY EndClauseDoes
<1>3. ~InGroupBy /\ ~InGroupBy' /\ WalkerInv'
  BY <1>1, GroupByIs, WalkerEnds
<1>4. js.refs = Null
  BY <1>1 DEF RefsInv, JsRefs
<1>5. \A a, o : Counts(query, a, o) =>
        (Seen(todo', walker', a, o) <=> Seen(todo, walker, a, o))
  BY <1>1, SeenEnds
<1> QED
  BY <1>2, <1>3, <1>4, <1>5, CoreStays

\* BeginTarget preserves the invariant of the walk.
LEMMA CoreBeginTarget ==
  ASSUME IsQuery(query), Core, query' = query, NEW c \in todo, BeginTarget(c)
  PROVE  Core'
<1> USE DEF Core
<1>1. Comes(c) /\ query[c].name = "target"
  BY StepsOfTheWalker DEF BeginTarget
<1>2. /\ JsInv' /\ targets' = targets /\ group' = group
      /\ KeepsRecords /\ js'.refs = <<>>
  BY BeginTargetDoes
<1>3. ~InGroupBy /\ ~InGroupBy' /\ WalkerInv' /\ walker'.clause = c /\ c # 0
  <2>1. ~InGroupBy /\ ~InGroupBy'
    BY <1>1, GroupByIs
  <2>2. WalkerInv' /\ walker'.clause = c
    BY <1>1, WalkerComes
  <2>3. c # 0
    BY DEF WalkerInv
  <2> QED
    BY <2>1, <2>2, <2>3
<1>4. NumbersInv' /\ Base' = Base
  BY <1>2, <1>3, NumbersStay
<1>5. RecordsInv'
  <2>1. SameRecords(js.clocations, js'.clocations, 0)
    BY <1>2 DEF KeepsRecords, SameRecords
  <2>2. \A a, o : Counts(query, a, o) =>
          (Seen(todo', walker', a, o) <=> Seen(todo, walker, a, o))
    BY <1>1, SeenComes
  <2> QED
    BY <2>1, <2>2, HasRecordsStays DEF RecordsInv
<1>6. TargetRefs'
  BY <1>2, <1>4, TargetRefsStay, KnownStays DEF RefsInv
<1>7. GroupRefs'
  BY <1>3 DEF GroupRefs
<1>8. JsRefs'
  <2>1. KnownRefs(<<>>, Fingerprint(query[c].operands))
    BY NoRefs
  <2>2. KnownRefs(<<>>, Fingerprint(query[c].operands))'
    BY <2>1, <1>2, <1>4, KnownStays DEF StayKnown, KnownRefs
  <2>3. \A m \in 1..Len(targets) : Disjoint(targets[m].refs, <<>>)
    BY NoRefs
  <2> QED
    BY <1>1, <1>2, <1>3, <2>2, <2>3 DEF JsRefs, KnownRefs
<1> QED
  BY <1>2, <1>3, <1>4, <1>5, <1>6, <1>7, <1>8 DEF RefsInv

-----------------------------------------------------------------------------
\* VisitSelect preserves the invariant of the walk.
LEMMA CoreVisitSelect ==
  ASSUME IsQuery(query), Core, query' = query, VisitSelect
  PROVE  Core' /\ NumbersInv' /\ StayKnown
<1> USE DEF Core
<1>1. Visits /\ AtOperand
  BY StepsOfTheWalker DEF VisitSelect
<1>2. /\ JsInv' /\ targets' = targets /\ group' = group
      /\ HasConstant(Operand) /\ AddsRecord /\ js'.refs = Null
  BY VisitSelectDoes
<1>3. WalkerInv' /\ walker'.clause = walker.clause /\ (InGroupBy' <=> InGroupBy)
  BY <1>1, GroupByIs, WalkerVisits
<1>4. Counts(query, walker.clause, walker.operand)
  BY <1>1, <1>2, PlaceCounts
<1>5. /\ NumbersInv' /\ -js.highest < 1 - Base
      /\ Base' = IF InGroupBy THEN Base ELSE Base + 1
  BY <1>2, <1>3, <1>4, NumbersAdd
<1>6. StayKnown
  BY <1>2, <1>5, KnownAdds
<1>7. RecordsInv'
  <2>1. \A a, o : Counts(query, a, o) =>
          (Seen(todo', walker', a, o) <=>
             Seen(todo, walker, a, o) \/ (a = walker.clause /\ o = walker.operand))
    BY <1>1, SeenVisits
  <2>2. todo' = todo /\ walker.clause # 0
    BY <1>1 DEF Visits
  <2>3. walker.clause \notin todo /\ (walker.column # 1 => query[walker.clause].name = "set")
    BY <2>2 DEF WalkerInv
  <2>4. Adds(js.clocations, js'.clocations, PlaceOf(query, walker.clause, walker.operand), -js.highest)
    BY <1>2 DEF AddsRecord, Place
  <2> QED
    BY <1>4, <2>1, <2>2, <2>3, <2>4, HasRecordsAdds DEF RecordsInv
<1>8. TargetRefs'
  BY <1>2, <1>6, TargetRefsStay DEF RefsInv
<1>9. GroupRefs'
  BY <1>2, <1>3, <1>6 DEF RefsInv, GroupRefs, StayKnown
<1>a. JsRefs'
  BY <1>2 DEF JsRefs
<1> QED
  BY <1>2, <1>3, <1>5, <1>6, <1>7, <1>8, <1>9, <1>a DEF RefsInv

\* A number given out in a target, which is the next one.
LEMMA JsRefsAdd ==
  ASSUME IsQuery(query), Core, query' = query, WalkerInv', js.refs # Null,
         ~InGroupBy, walker'.clause = walker.clause, AddsRecord, targets' = targets,
         Counts(query, walker.clause, walker.operand),
         Base = js.highest, Base' = Base + 1, Old = Len(js.clocations), StayKnown,
         js'.refs = Append(js.refs, -js.highest)
  PROVE  JsRefs'
<1> USE DEF Core
<1> DEFINE fp == Fingerprint(query[walker.clause].operands)
<1>1. /\ walker.clause \in 1..Len(query) /\ walker.clause # 0
      /\ query[walker.clause].name = "target"
      /\ KnownRefs(js.refs, fp)
      /\ \A m \in 1..Len(targets) : Disjoint(targets[m].refs, js.refs)
  BY DEF RefsInv, JsRefs, Counts
<1>2. Base \in Nat \ {0} /\ js.extern \in Nat
  BY JsIs
<1>3. Adds(js.clocations, js'.clocations, Place, -Base) /\ js'.extern = js.extern
  BY DEF AddsRecord
<1>4. \A k \in 1..Len(js.clocations) :
        js.clocations[k].id \in Int /\ 1 - Base <= js.clocations[k].id
  <2>1. \A k \in 1..Len(js.clocations) : 1 - Base <= js.clocations[k].id
    BY DEF NumbersInv, Numbered
  <2> QED
    BY <2>1, JsIs
<1>5. InTarget(query, Place, fp)
  <2>1. IsIn(query, Place, walker.clause)
    BY DEF IsIn, Place, Counts
  <2> QED
    BY <1>1, <2>1 DEF InTarget
<1> HIDE DEF fp
<1>6. IsRefs(query, js'.clocations, Base + 1, js.extern, Append(js.refs, -Base), fp)
  BY <1>1, <1>2, <1>3, <1>4, <1>5, IsRefsRecords DEF KnownRefs
<1>7. ASSUME NEW m \in 1..Len(targets) PROVE Disjoint(targets[m].refs, Append(js.refs, -Base))
  <2> DEFINE r == targets[m].refs
  <2>1. IsRefs(query, js.clocations, Base, js.extern, r, targets[m].fp)
    BY DEF RefsInv, TargetRefs, KnownRefs
  <2>2. \A j \in 1..Len(r) : r[j] \in Int /\ 1 - Base <= r[j]
    BY <2>1, ElementOfSeq DEF IsRefs
  <2>3. Disjoint(r, js.refs)
    BY <1>1
  <2>4. js.refs \in Seq(Int) /\ -Base \in Int
    BY <1>2, JsIs
  <2> DEFINE s == Append(js.refs, -Base)
             n == Len(js.refs)
  <2>5. n \in Nat /\ Len(s) = n + 1 /\ (\A k \in 1..n : s[k] = js.refs[k]) /\ s[n + 1] = -Base
    BY <2>4, AppendIs
  <2> HIDE DEF r, s
  <2> SUFFICES ASSUME NEW j \in 1..Len(r), NEW k \in 1..Len(s), r[j] = s[k]
               PROVE  r[j] > 0
    BY DEF Disjoint, r, s
  <2>6. CASE k = n + 1
    BY <1>2, <2>2, <2>5, <2>6
  <2>7. CASE k # n + 1
    <3>1. k \in 1..n
      BY <2>5, <2>7
    <3> QED
      BY <2>3, <2>5, <3>1 DEF Disjoint
  <2> QED
    BY <2>6, <2>7
<1> QED
  BY <1>1, <1>3, <1>6, <1>7 DEF JsRefs, KnownRefs, fp

\* A param of the query in a target.
LEMMA JsRefsParam ==
  ASSUME IsQuery(query), Core, query' = query, WalkerInv', JsInv', js.refs # Null,
         walker'.clause = walker.clause, KeepsRecords, targets' = targets,
         Base' = Base, NEW number \in 1..js'.extern, StayKnown,
         js'.refs = Append(js.refs, number)
  PROVE  JsRefs'
<1> USE DEF Core
<1> DEFINE fp == Fingerprint(query[walker.clause].operands)
<1>1. /\ walker.clause # 0
      /\ query[walker.clause].name = "target"
      /\ KnownRefs(js.refs, fp)
      /\ \A m \in 1..Len(targets) : Disjoint(targets[m].refs, js.refs)
  BY DEF RefsInv, JsRefs
<1>2. Base \in Nat \ {0} /\ js'.extern \in Nat /\ js'.clocations = js.clocations
  <2>1. Base \in 1..Old + 1 /\ Old \in Nat
    BY JsIs DEF NumbersInv
  <2>2. js'.extern \in 0..2
    BY DEF JsInv
  <2> QED
    BY <2>1, <2>2 DEF KeepsRecords
<1>3. IsRefs(query, js.clocations, Base, js'.extern, js.refs, fp)
  BY <1>1, <1>2 DEF StayKnown, KnownRefs
<1> HIDE DEF fp
<1>4. IsRefs(query, js.clocations, Base, js'.extern, Append(js.refs, number), fp)
  BY <1>2, <1>3, IsRefsParam
<1>5. ASSUME NEW m \in 1..Len(targets) PROVE Disjoint(targets[m].refs, Append(js.refs, number))
  <2> DEFINE r == targets[m].refs
  <2>1. Disjoint(r, js.refs)
    BY <1>1
  <2>2. js.refs \in Seq(Int) /\ number \in Int
    BY <1>2, JsIs
  <2> DEFINE s == Append(js.refs, number)
             n == Len(js.refs)
  <2>3. n \in Nat /\ Len(s) = n + 1 /\ (\A k \in 1..n : s[k] = js.refs[k]) /\ s[n + 1] = number
    BY <2>2, AppendIs
  <2> HIDE DEF r, s
  <2> SUFFICES ASSUME NEW j \in 1..Len(r), NEW k \in 1..Len(s), r[j] = s[k]
               PROVE  r[j] > 0
    BY DEF Disjoint, r, s
  <2>4. CASE k = n + 1
    BY <1>2, <2>3, <2>4
  <2>5. CASE k # n + 1
    <3>1. k \in 1..n
      BY <2>3, <2>5
    <3> QED
      BY <2>1, <2>3, <3>1 DEF Disjoint
  <2> QED
    BY <2>4, <2>5
<1> QED
  BY <1>1, <1>2, <1>4, <1>5 DEF JsRefs, KnownRefs, fp

\* VisitOperand preserves the invariant of the walk.
LEMMA CoreVisitOperand ==
  ASSUME IsQuery(query), Core, query' = query, VisitOperand
  PROVE  Core' /\ StayKnown
<1> USE DEF Core
<1>1. Visits /\ AtOperand
  BY StepsOfTheWalker DEF VisitOperand
<1>2. JsInv' /\ targets' = targets /\ group' = group
  BY VisitOperandDoes
<1>3. WalkerInv' /\ walker'.clause = walker.clause /\ (InGroupBy' <=> InGroupBy)
  BY <1>1, GroupByIs, WalkerVisits
<1>4. js.refs # Null => ~InGroupBy
  BY DEF RefsInv, JsRefs, InGroupBy
<1>5. todo' = todo /\ walker.clause # 0
  BY <1>1 DEF Visits
<1>6. \A a, o : Counts(query, a, o) =>
        (Seen(todo', walker', a, o) <=>
           Seen(todo, walker, a, o) \/ (a = walker.clause /\ o = walker.operand))
  BY <1>1, SeenVisits
<1>7. HasConstant(Operand) <=> Counts(query, walker.clause, walker.operand)
  BY <1>1, PlaceCounts
<1>8. CASE /\ HasConstant(Operand) /\ AddsRecord
           /\ js'.refs = IF js.refs = Null THEN Null ELSE Append(js.refs, -js.highest)
  <2>1. Counts(query, walker.clause, walker.operand)
    BY <1>7, <1>8
  <2>2. /\ NumbersInv' /\ -js.highest < 1 - Base
        /\ Base' = IF InGroupBy THEN Base ELSE Base + 1
        /\ ~InGroupBy => Base = js.highest /\ Old = Len(js.clocations)
    BY <1>2, <1>3, <1>8, <2>1, NumbersAdd
  <2>3. StayKnown
    BY <1>8, <2>2, KnownAdds
  <2>4. RecordsInv'
    <3>1. walker.clause \notin todo /\ (walker.column # 1 => query[walker.clause].name = "set")
      BY <1>5 DEF WalkerInv
    <3>2. Adds(js.clocations, js'.clocations, PlaceOf(query, walker.clause, walker.operand), -js.highest)
      BY <1>8 DEF AddsRecord, Place
    <3> QED
      BY <1>5, <1>6, <2>1, <3>1, <3>2, HasRecordsAdds DEF RecordsInv
  <2>5. TargetRefs'
    BY <1>2, <2>3, TargetRefsStay DEF RefsInv
  <2>6. GroupRefs'
    BY <1>2, <1>3, <2>3 DEF RefsInv, GroupRefs, StayKnown
  <2>7. JsRefs'
    <3>1. CASE js.refs = Null
      BY <1>8, <3>1 DEF JsRefs
    <3>2. CASE js.refs # Null
      BY <1>2, <1>3, <1>4, <1>8, <2>1, <2>2, <2>3, <3>2, JsRefsAdd
    <3> QED
      BY <3>1, <3>2
  <2> QED
    BY <1>2, <1>3, <2>2, <2>3, <2>4, <2>5, <2>6, <2>7 DEF RefsInv
<1>9. ASSUME ~HasConstant(Operand)
      PROVE  \A a, o : Counts(query, a, o) =>
               (Seen(todo', walker', a, o) <=> Seen(todo, walker, a, o))
  BY <1>6, <1>7, <1>9
<1>a. CASE ~HasConstant(Operand) /\ js' = js
  <2>1. KeepsRecords
    BY <1>a, JsIs DEF KeepsRecords
  <2>2. Base' = Base
    BY <1>2, <1>3, <2>1, NumbersStay
  <2>3. StayKnown
    BY <1>2, <2>1, <2>2, KnownStays
  <2>4. Core'
    BY <1>2, <1>3, <1>9, <1>a, CoreStays
  <2> QED
    BY <2>3, <2>4
<1>b. CASE /\ ~HasConstant(Operand) /\ KeepsRecords
           /\ \E number \in 1..js'.extern :
                js'.refs = IF js.refs = Null THEN Null ELSE Append(js.refs, number)
  <2>1. NumbersInv' /\ Base' = Base
    BY <1>2, <1>3, <1>b, NumbersStay
  <2>2. StayKnown
    BY <1>2, <1>b, <2>1, KnownStays
  <2>3. RecordsInv'
    <3>1. SameRecords(js.clocations, js'.clocations, 0)
      BY <1>b DEF KeepsRecords, SameRecords
    <3> QED
      BY <1>9, <1>b, <3>1, HasRecordsStays DEF RecordsInv
  <2>4. TargetRefs'
    BY <1>2, <2>2, TargetRefsStay DEF RefsInv
  <2>5. GroupRefs'
    BY <1>2, <1>3, <2>2 DEF RefsInv, GroupRefs, StayKnown
  <2>6. JsRefs'
    <3>1. CASE js.refs = Null
      BY <1>b, <3>1 DEF JsRefs
    <3>2. CASE js.refs # Null
      <4>1. PICK number \in 1..js'.extern : js'.refs = Append(js.refs, number)
        BY <1>b, <3>2
      <4> QED
        BY <1>2, <1>3, <1>b, <2>1, <2>2, <3>2, <4>1, JsRefsParam
    <3> QED
      BY <3>1, <3>2
  <2> QED
    BY <1>2, <1>3, <2>1, <2>2, <2>3, <2>4, <2>5, <2>6 DEF RefsInv
<1> QED
  BY <1>8, <1>a, <1>b, VisitOperandDoes

-----------------------------------------------------------------------------
\* EndTarget preserves the invariant of the walk.
LEMMA CoreEndTarget ==
  ASSUME IsQuery(query), Core, query' = query, EndTarget
  PROVE  Core'
<1> USE DEF Core
<1> DEFINE s == IF js.refs = Null THEN <<>> ELSE js.refs
           fp == Fingerprint(Clause.operands)
           t == [fp |-> fp, refs |-> s]
           L == Len(targets)
<1>1. Ends /\ query[walker.clause].name = "target" /\ Clause = query[walker.clause]
  BY StepsOfTheWalker DEF EndTarget, Clause
<1>2. /\ JsInv' /\ group' = group /\ targets' = Append(targets, t) /\ t \in Target
      /\ KeepsRecords /\ js'.refs = Null
  BY EndTargetDoes
<1>3. ~InGroupBy /\ ~InGroupBy' /\ WalkerInv'
  BY <1>1, GroupByIs, WalkerEnds
<1>4. NumbersInv' /\ Base' = Base
  BY <1>2, <1>3, NumbersStay
<1>5. RecordsInv'
  <2>1. SameRecords(js.clocations, js'.clocations, 0)
    BY <1>2 DEF KeepsRecords, SameRecords
  <2>2. \A a, o : Counts(query, a, o) =>
          (Seen(todo', walker', a, o) <=> Seen(todo, walker, a, o))
    BY <1>1, SeenEnds
  <2> QED
    BY <2>1, <2>2, HasRecordsStays DEF RecordsInv
<1>6. StayKnown
  BY <1>2, <1>4, KnownStays
<1>7. KnownRefs(s, fp) /\ \A m \in 1..L : Disjoint(targets[m].refs, s)
  <2>1. CASE js.refs = Null
    BY <2>1, NoRefs
  <2>2. CASE js.refs # Null
    BY <1>1, <2>2 DEF RefsInv, JsRefs
  <2> QED
    BY <2>1, <2>2
<1>8. t.refs = s /\ t.fp = fp
  OBVIOUS
<1> HIDE DEF s, fp, t
<1>9. L \in Nat /\ Len(targets') = L + 1 /\ targets'[L + 1] = t
      /\ \A m \in 1..L : targets'[m] = targets[m]
  <2>1. targets \in Seq(Target)
    BY DEF JsInv
  <2> QED
    BY <1>2, <2>1, AppendIs
<1> HIDE DEF L
<1>a. ASSUME NEW m \in 1..Len(targets') PROVE KnownRefs(targets[m].refs, targets[m].fp)'
  <2>1. CASE m = L + 1
    BY <1>6, <1>7, <1>8, <1>9, <2>1 DEF StayKnown, KnownRefs
  <2>2. CASE m # L + 1
    <3>1. m \in 1..L
      BY <1>9, <2>2
    <3>2. KnownRefs(targets[m].refs, targets[m].fp)
      BY <3>1 DEF RefsInv, TargetRefs, L
    <3>3. targets'[m] = targets[m]
      BY <1>9, <3>1
    <3> DEFINE r == targets[m].refs
               f == targets[m].fp
    <3>4. KnownRefs(r, f)
      BY <3>2
    <3> HIDE DEF r, f
    <3>5. IsRefs(query', js'.clocations, Base', js'.extern, r, f)
      BY <1>6, <3>4 DEF StayKnown, KnownRefs
    <3> QED
      BY <3>3, <3>5 DEF KnownRefs, r, f
  <2> QED
    BY <2>1, <2>2
<1>b. ASSUME NEW m \in 1..Len(targets'), NEW n \in 1..Len(targets'), m # n
      PROVE  Disjoint(targets'[m].refs, targets'[n].refs)
  <2>1. (m \in 1..L \/ m = L + 1) /\ (n \in 1..L \/ n = L + 1)
    BY <1>9
  <2>2. CASE m \in 1..L /\ n \in 1..L
    BY <1>9, <1>b, <2>2 DEF RefsInv, TargetRefs, L
  <2>3. CASE m \in 1..L /\ n = L + 1
    BY <1>7, <1>8, <1>9, <2>3
  <2>4. CASE m = L + 1 /\ n \in 1..L
    BY <1>7, <1>8, <1>9, <2>4, DisjointIsSymmetric
  <2> QED
    BY <1>b, <2>1, <2>2, <2>3, <2>4
<1>c. TargetRefs'
  BY <1>a, <1>b DEF TargetRefs
<1>d. GroupRefs' /\ JsRefs'
  BY <1>2, <1>3 DEF GroupRefs, JsRefs
<1> QED
  BY <1>2, <1>3, <1>4, <1>5, <1>c, <1>d DEF RefsInv

\* BeginGroup preserves the invariant of the walk.
LEMMA CoreBeginGroup ==
  ASSUME IsQuery(query), Core, query' = query, NEW c \in todo, BeginGroup(c)
  PROVE  Core' /\ Old' = Old /\ Base' = Base
<1> USE DEF Core
<1> DEFINE fp == Fingerprint(query[c].operands)
<1>1. Comes(c) /\ query[c].name = "group"
  BY StepsOfTheWalker DEF BeginGroup
<1>2. JsInv' /\ js' = js /\ group'.count = Len(js.clocations)
  BY BeginGroupDoes
<1>3. ~InGroupBy /\ InGroupBy' /\ WalkerInv' /\ walker'.clause = c
  BY <1>1, GroupByIs, WalkerComes
<1>4. Old' = Old /\ Base' = Base /\ Old = Len(js.clocations) /\ Old \in Nat
  <2>1. Old' = Old /\ Old = Len(js.clocations)
    BY <1>2, <1>3 DEF Old
  <2> QED
    BY <1>2, <2>1, JsIs DEF Base
<1>5. NumbersInv'
  <2>1. ItemNumbered(query, js.clocations, Old, Base, walker'.clause)
    BY <1>4 DEF ItemNumbered
  <2> QED
    BY <1>2, <1>4, <2>1 DEF NumbersInv
<1>6. RecordsInv'
  <2>1. SameRecords(js.clocations, js'.clocations, 0)
    BY <1>2 DEF SameRecords
  <2>2. \A a, o : Counts(query, a, o) =>
          (Seen(todo', walker', a, o) <=> Seen(todo, walker, a, o))
    BY <1>1, SeenComes
  <2> QED
    BY <2>1, <2>2, HasRecordsStays DEF RecordsInv
<1>7. ASSUME NEW r, NEW f PROVE KnownRefs(r, f)' <=> IsRefs(query, js.clocations, Base, js.extern, r', f')
  BY <1>2, <1>4 DEF KnownRefs
<1>8. js'.refs = Null
  BY <1>1, <1>2 DEF RefsInv, JsRefs, Comes
<1>9. CASE /\ group'.matched = Null /\ targets' = targets
  <2>1. TargetRefs'
    BY <1>2, <1>4, <1>9 DEF RefsInv, TargetRefs, KnownRefs
  <2> QED
    BY <1>2, <1>3, <1>4, <1>5, <1>6, <1>8, <1>9, <2>1 DEF RefsInv, GroupRefs, JsRefs
<1>a. CASE \E k \in 1..Len(targets) :
             /\ targets[k].fp = fp
             /\ group'.matched = targets[k].refs
             /\ Removes(targets, targets', k)
  <2>1. PICK k \in 1..Len(targets) :
               /\ targets[k].fp = fp
               /\ group'.matched = targets[k].refs
               /\ Removes(targets, targets', k)
    BY <1>a
  <2>2. \A m \in 1..Len(targets') :
          /\ Shifted(m, k) \in 1..Len(targets) /\ Shifted(m, k) # k
          /\ targets'[m] = targets[Shifted(m, k)]
    BY <2>1 DEF Removes
  <2>3. TargetRefs
    BY DEF RefsInv
  <2>4. \A m \in 1..Len(targets') : KnownRefs(targets[m].refs, targets[m].fp)'
    BY <1>2, <1>4, <2>2, <2>3 DEF TargetRefs, KnownRefs
  <2>5. ASSUME NEW m \in 1..Len(targets'), NEW n \in 1..Len(targets'), m # n
        PROVE  Disjoint(targets'[m].refs, targets'[n].refs)
    <3>1. Shifted(m, k) # Shifted(n, k)
      BY <2>5, ShiftedIsOne
    <3> QED
      BY <2>2, <2>3, <3>1 DEF TargetRefs
  <2>6. TargetRefs'
    BY <2>4, <2>5 DEF TargetRefs
  <2>7. KnownRefs(group.matched, Fingerprint(query[walker.clause].operands))'
    BY <1>2, <1>3, <1>4, <2>1, <2>3 DEF TargetRefs, KnownRefs
  <2>8. \A m \in 1..Len(targets') : Disjoint(targets'[m].refs, group'.matched)
    BY <2>1, <2>2, <2>3 DEF TargetRefs
  <2>9. GroupRefs'
    BY <2>7, <2>8 DEF GroupRefs
  <2> QED
    BY <1>2, <1>3, <1>4, <1>5, <1>6, <1>8, <2>6, <2>9 DEF RefsInv, JsRefs
<1> QED
  BY <1>9, <1>a, BeginGroupDoes

\* EndGroup preserves the invariant of the walk: the numbers it gives back are those
\* of the last records.
LEMMA CoreEndGroup ==
  ASSUME IsQuery(query), Core, query' = query, EndGroup
  PROVE  Core'
<1> USE DEF Core
<1> DEFINE cl == js.clocations
           L == Len(cl)
           c == walker.clause
<1>1. Ends /\ query[walker.clause].name = "group"
  BY StepsOfTheWalker DEF EndGroup, Clause
<1>2. InGroupBy /\ ~InGroupBy' /\ WalkerInv' /\ c \in 1..Len(query)
  BY <1>1, GroupByIs, WalkerEnds
<1>3. /\ JsInv' /\ targets' = targets /\ group' = group
      /\ (Matches /\ GivesParams) \/ js' = js
  BY <1>2, EndGroupDoes
<1>4. /\ L \in Nat /\ Old = group.count /\ Old \in Nat /\ Old <= L
      /\ Base \in Nat \ {0} /\ Base = js.highest - (L - Old) /\ Base <= Old + 1
      /\ js.highest = Base + (L - Old) /\ js.highest <= L + 1 /\ js.extern \in Nat
      /\ \A k \in 1..L : cl[k].id \in Int
  <2>1. Old = group.count /\ Base = js.highest - (L - Old)
    BY <1>2 DEF Old, Base
  <2>2. Old \in 0..L /\ Base \in 1..Old + 1 /\ L \in Nat /\ js.highest \in Nat
    BY JsIs DEF NumbersInv
  <2> HIDE DEF L
  <2>3. Old \in Nat /\ Old <= L /\ Base \in Nat \ {0} /\ Base <= Old + 1
    BY <2>2
  <2>4. js.highest = Base + (L - Old) /\ js.highest <= L + 1
    BY <2>1, <2>2, <2>3
  <2> QED
    BY <2>1, <2>2, <2>3, <2>4, JsIs DEF L
<1>5. ItemNumbered(query, cl, Old, Base, c) /\ Numbered(query, cl, Old, Base, js.extern)
  BY DEF NumbersInv
<1>6. Old' = Len(js'.clocations)
  BY <1>2 DEF Old
<1>7. \A a, o : Counts(query, a, o) =>
        (Seen(todo', walker', a, o) <=> Seen(todo, walker, a, o))
  BY <1>1, SeenEnds
<1>8. js.refs = Null
  BY <1>1 DEF RefsInv, JsRefs
<1>9. CASE js' = js
  <2>1. Old' = L /\ Base' = js.highest /\ Base' = Base + (L - Old) /\ Base <= Base'
    <3>1. Old' = L
      BY <1>6, <1>9
    <3>2. Base' = js.highest - (L - L)
      BY <1>9, <3>1 DEF Base
    <3>3. ASSUME NEW h \in Nat, NEW l \in Nat PROVE h - (l - l) = h
      OBVIOUS
    <3>4. Base' = js.highest
      BY <1>4, <3>2, <3>3, JsIs
    <3> HIDE DEF L
    <3> QED
      BY <1>4, <3>1, <3>4
  <2>2. NumbersInv'
    <3>1. \A k \in 1..Old : cl[k].id \in Int
      BY <1>4
    <3>2. Numbered(query, cl, L, Base + (L - Old), js.extern)
      <4> HIDE DEF cl
      <4> QED
        BY <1>4, <1>5, <3>1, NumberedItem
    <3>3. ItemNumbered(query, cl, L, Base', walker'.clause)
      BY <1>4 DEF ItemNumbered
    <3>4. Old' \in 0..L /\ Base' \in 1..Old' + 1
      <4>1. L \in 0..L /\ js.highest \in 1..L + 1
        <5> HIDE DEF L
        <5> QED
          BY <1>4, JsIs
      <4> HIDE DEF L
      <4> QED
        BY <2>1, <4>1
    <3> QED
      BY <1>9, <2>1, <3>2, <3>3, <3>4 DEF NumbersInv
  <2>3. RecordsInv'
    <3>1. SameRecords(js.clocations, js'.clocations, 0)
      BY <1>9 DEF SameRecords
    <3> QED
      BY <1>7, <3>1, HasRecordsStays DEF RecordsInv
  <2>4. StayKnown
    <3> SUFFICES ASSUME NEW r, NEW f, KnownRefs(r, f)
                 PROVE  IsRefs(query, cl, Base', js.extern, r, f)
      BY <1>9 DEF StayKnown, KnownRefs
    <3>1. \A j \in 1..Len(r) : r[j] \in Int
      BY ElementOfSeq DEF KnownRefs, IsRefs
    <3>2. \A j \in 1..Len(r) : 1 - Base' <= r[j]
      <4>1. \A j \in 1..Len(r) : 1 - Base <= r[j]
        BY DEF KnownRefs, IsRefs
      <4>2. ASSUME NEW x \in Int, NEW b \in Int, NEW b2 \in Int, b <= b2, 1 - b <= x
            PROVE  1 - b2 <= x
        BY <4>2
      <4>3. Base \in Int /\ Base' \in Int /\ Base <= Base'
        BY <1>4, <2>1
      <4> QED
        BY <3>1, <4>1, <4>2, <4>3
    <3> QED
      BY <3>2 DEF KnownRefs, IsRefs
  <2>5. TargetRefs'
    BY <1>3, <2>4, TargetRefsStay DEF RefsInv
  <2> QED
    BY <1>2, <1>3, <1>8, <1>9, <2>2, <2>3, <2>5 DEF RefsInv, GroupRefs, JsRefs
<1>a. CASE Matches /\ GivesParams
  <2> DEFINE cl2 == js'.clocations
             fp == Fingerprint(query[c].operands)
             m == group.matched
  <2>1. /\ m \in Seq(Int) /\ Len(m) = L - Old
        /\ SameRecords(cl, cl2, Old)
        /\ \A k \in Old + 1..L : cl2[k].id = m[k - Old]
        /\ js'.highest = js.highest - Len(m)
        /\ js'.extern = js.extern /\ js'.refs = js.refs
    BY <1>4, <1>a DEF GivesParams
  <2>2. Len(cl2) = L
    BY <2>1 DEF SameRecords
  <2>3. Base' = Base /\ Old' = L
    <3>1. Old' = L
      BY <1>6, <2>2
    <3>2. Base' = (js.highest - (L - Old)) - (L - L)
      BY <2>1, <2>2, <3>1 DEF Base
    <3>3. ASSUME NEW h \in Int, NEW l \in Int PROVE h - (l - l) = h
      OBVIOUS
    <3>4. js.highest - (L - Old) = Base /\ Base \in Int /\ L \in Int
      BY <1>4
    <3> QED
      BY <3>1, <3>2, <3>3, <3>4
  <2>4. KnownRefs(m, fp) /\ \A n \in 1..Len(targets) : Disjoint(targets[n].refs, m)
    <3>1. m # Null
      BY <2>1, NullAssumption
    <3> QED
      BY <1>2, <3>1 DEF RefsInv, GroupRefs
  <2>5. NumbersInv'
    <3>1. IsRefs(query, cl, Base, js.extern, m, fp)
      BY <2>4 DEF KnownRefs
    <3>2. Numbered(query, cl2, L, Base, js.extern)
      <4> HIDE DEF cl, cl2, m
      <4> QED
        BY <1>1, <1>2, <1>4, <1>5, <2>1, <3>1, NumberedMatched
    <3>3. ItemNumbered(query, cl2, L, Base, walker'.clause)
      BY <1>4, <2>2 DEF ItemNumbered
    <3>4. L \in 0..Len(cl2) /\ Base \in 1..L + 1
      <4>1. Base \in 1..L + 1 /\ L \in 0..L
        <5> HIDE DEF L
        <5> QED
          BY <1>4
      <4> QED
        BY <2>2, <4>1
    <3> QED
      BY <2>1, <2>2, <2>3, <3>2, <3>3, <3>4 DEF NumbersInv
  <2>6. RecordsInv'
    <3>1. SameRecords(js.clocations, js'.clocations, 0)
      BY <2>1 DEF SameRecords
    <3> QED
      BY <1>7, <3>1, HasRecordsStays DEF RecordsInv
  <2>7. ASSUME NEW r, NEW f, KnownRefs(r, f), Disjoint(r, m) PROVE KnownRefs(r, f)'
    <3>1. IsRefs(query, cl, Base, js.extern, r, f)
      BY <2>7 DEF KnownRefs
    <3> HIDE DEF cl, cl2, m, L
    <3>2. IsRefs(query, cl2, Base, js.extern, r, f)
      BY <1>4, <2>1, <2>7, <3>1, IsRefsMatched DEF L
    <3> QED
      BY <2>1, <2>3, <3>2 DEF KnownRefs, cl2
  <2>8. TargetRefs'
    <3>1. ASSUME NEW n \in 1..Len(targets) PROVE KnownRefs(targets[n].refs, targets[n].fp)'
      <4> DEFINE r == targets[n].refs
                 f == targets[n].fp
      <4>1. KnownRefs(r, f) /\ Disjoint(r, m)
        BY <2>4 DEF RefsInv, TargetRefs
      <4>2. IsRefs(query', cl2, Base', js'.extern, r, f)
        <5> HIDE DEF r, f
        <5> QED
          BY <2>7, <4>1 DEF KnownRefs
      <4> QED
        BY <1>3, <4>2 DEF KnownRefs
    <3>2. \A a, b \in 1..Len(targets) : a # b => Disjoint(targets[a].refs, targets[b].refs)
      BY DEF RefsInv, TargetRefs
    <3> QED
      BY <1>3, <3>1, <3>2 DEF TargetRefs
  <2> QED
    BY <1>2, <1>3, <1>8, <2>1, <2>5, <2>6, <2>8 DEF RefsInv, GroupRefs, JsRefs
<1> QED
  BY <1>3, <1>9, <1>a

-----------------------------------------------------------------------------
\* The walk preserves its invariant.
LEMMA CoreWalk ==
  ASSUME IsQuery(query), Core, query' = query,
         \/ \E c \in todo : SkipOrdinal(c) \/ BeginClause(c) \/ BeginTarget(c) \/ BeginGroup(c)
         \/ VisitOperand \/ VisitSelect
         \/ EndClause \/ EndTarget \/ EndGroup
  PROVE  Core'
BY CoreSkipOrdinal, CoreBeginClause, CoreBeginTarget, CoreBeginGroup, CoreVisitOperand,
   CoreVisitSelect, CoreEndClause, CoreEndTarget, CoreEndGroup

-----------------------------------------------------------------------------
(***************************************************************************)
(* The sort                                                                *)
(***************************************************************************)

\* cl2 has the records of cl in the order p.
Reorders(cl, cl2, p) ==
  /\ Len(cl2) = Len(cl)
  /\ p \in [1..Len(cl) -> 1..Len(cl)]
  /\ \A n \in 1..Len(cl) : cl2[n].location = cl[p[n]].location /\ cl2[n].id = cl[p[n]].id
  /\ \A m, n \in 1..Len(cl) : p[m] = p[n] => m = n
  /\ \A k \in 1..Len(cl) : \E n \in 1..Len(cl) : p[n] = k

\* The records are in the order of the text.
InOrder(cl) == \A k, l \in 1..Len(cl) : k < l => cl[k].location <= cl[l].location

\* Which constants are recorded does not depend on the order of the records.
LEMMA HasRecordsReordered ==
  ASSUME NEW q, NEW cl, NEW cl2, NEW p, NEW td, NEW w,
         HasRecords(q, cl, td, w), Reorders(cl, cl2, p)
  PROVE  HasRecords(q, cl2, td, w)
<1>1. ASSUME NEW k \in 1..Len(cl2)
      PROVE  \E c, o : Counts(q, c, o) /\ Seen(td, w, c, o) /\ cl2[k].location = PlaceOf(q, c, o)
  <2>1. p[k] \in 1..Len(cl) /\ cl2[k].location = cl[p[k]].location
    BY DEF Reorders
  <2> QED
    BY <2>1 DEF HasRecords
<1>2. ASSUME NEW c, NEW o, Counts(q, c, o), Seen(td, w, c, o)
      PROVE  \E k \in 1..Len(cl2) : cl2[k].location = PlaceOf(q, c, o)
  <2>1. PICK k \in 1..Len(cl) : cl[k].location = PlaceOf(q, c, o)
    BY <1>2 DEF HasRecords
  <2>2. PICK n \in 1..Len(cl) : p[n] = k
    BY DEF Reorders
  <2>3. n \in 1..Len(cl2) /\ cl2[n].location = cl[k].location
    BY <2>2 DEF Reorders
  <2> QED
    BY <2>1, <2>3
<1>3. ASSUME NEW k \in 1..Len(cl2), NEW l \in 1..Len(cl2), k # l,
             cl2[k].location = cl2[l].location
      PROVE  InClause(q, cl2[k].location, "set")
  <2>1. /\ p[k] \in 1..Len(cl) /\ p[l] \in 1..Len(cl) /\ p[k] # p[l]
        /\ cl2[k].location = cl[p[k]].location /\ cl2[l].location = cl[p[l]].location
    BY <1>3 DEF Reorders
  <2> QED
    BY <1>3, <2>1 DEF HasRecords
<1> QED
  BY <1>1, <1>2, <1>3 DEF HasRecords

\* Nor do the numbers.
LEMMA NumberedReordered ==
  ASSUME NEW q, NEW cl, NEW cl2, NEW p, NEW b, NEW e,
         Numbered(q, cl, Len(cl), b, e), Reorders(cl, cl2, p)
  PROVE  Numbered(q, cl2, Len(cl2), b, e)
<1>0. Len(cl2) = Len(cl)
  BY DEF Reorders
<1>1. ASSUME NEW k \in 1..Len(cl2)
      PROVE  /\ p[k] \in 1..Len(cl) /\ cl2[k].location = cl[p[k]].location
             /\ cl2[k].id = cl[p[k]].id
  BY DEF Reorders
<1>2. \A k \in 1..Len(cl2) : cl2[k].id # 0 /\ 1 - b <= cl2[k].id /\ cl2[k].id <= e
  BY <1>1 DEF Numbered
<1>3. \A k \in 1..Len(cl2) : cl2[k].id > 0 => InClause(q, cl2[k].location, "group")
  BY <1>1 DEF Numbered
<1>4. ASSUME NEW m \in 1..b - 1 PROVE \E k \in 1..Len(cl2) : cl2[k].id = -m
  <2>1. PICK k \in 1..Len(cl) : cl[k].id = -m
    BY DEF Numbered
  <2>2. PICK n \in 1..Len(cl) : p[n] = k
    BY DEF Reorders
  <2> QED
    BY <1>0, <1>1, <2>1, <2>2
<1>5. ASSUME NEW k \in 1..Len(cl2), NEW l \in 1..Len(cl2), k # l,
             cl2[k].id = cl2[l].id, cl2[k].id < 0
      PROVE  \/ Repeats(q, cl2[k].location, cl2[l].location)
             \/ Repeats(q, cl2[l].location, cl2[k].location)
  <2>1. p[k] # p[l]
    BY <1>5 DEF Reorders
  <2> QED
    BY <1>1, <1>5, <2>1 DEF Numbered
<1> QED
  BY <1>2, <1>3, <1>4, <1>5 DEF Numbered

\* The order qsort uses is a strict total order that agrees with the locations.
LEMMA PrecedesIsOrder ==
  ASSUME NEW cl, NEW later, NEW L \in Nat, \A k \in 1..L : cl[k].location \in Nat
  PROVE  /\ \A k \in 1..L : ~Precedes(cl, later, k, k)
         /\ \A k, l \in 1..L : k # l => Precedes(cl, later, k, l) \/ Precedes(cl, later, l, k)
         /\ \A k, l, m \in 1..L :
              Precedes(cl, later, k, l) /\ Precedes(cl, later, l, m) => Precedes(cl, later, k, m)
         /\ \A k, l \in 1..L : Precedes(cl, later, k, l) => cl[k].location <= cl[l].location
<1> DEFINE c(k) == cl[k].location
<1>0. \A k, l : Precedes(cl, later, k, l) <=>
        IF c(k) # c(l) THEN c(k) < c(l) ELSE IF c(k) \in later THEN k > l ELSE k < l
  BY DEF Precedes
<1>1. \A k \in 1..L : c(k) \in Nat /\ k \in Nat
  OBVIOUS
<1> HIDE DEF c
<1>2. \A k \in 1..L : ~Precedes(cl, later, k, k)
  BY <1>0, <1>1
<1>3. \A k, l \in 1..L : k # l => Precedes(cl, later, k, l) \/ Precedes(cl, later, l, k)
  BY <1>0, <1>1
<1>4. ASSUME NEW k \in 1..L, NEW l \in 1..L, NEW m \in 1..L,
             Precedes(cl, later, k, l), Precedes(cl, later, l, m)
      PROVE  Precedes(cl, later, k, m)
  <2>1. c(k) \in Nat /\ c(l) \in Nat /\ c(m) \in Nat /\ k \in Nat /\ l \in Nat /\ m \in Nat
    BY <1>1
  <2>2. CASE c(k) = c(l) /\ c(l) = c(m)
    BY <1>0, <1>4, <2>1, <2>2
  <2>3. CASE c(k) # c(l) \/ c(l) # c(m)
    <3>1. c(k) <= c(l) /\ c(l) <= c(m)
      BY <1>0, <1>4, <2>1
    <3>2. c(k) < c(m)
      BY <2>1, <2>3, <3>1
    <3> QED
      BY <1>0, <2>1, <3>2
  <2> QED
    BY <2>2, <2>3
<1>5. \A k, l \in 1..L : Precedes(cl, later, k, l) => c(k) <= c(l)
  BY <1>0, <1>1
<1> QED
  BY <1>2, <1>3, <1>4, <1>5 DEF c

\* Sorting reorders the records, and leaves them in the order of the text.
LEMMA SortedReorders ==
  ASSUME NEW cl, NEW later, Len(cl) \in Nat, \A k \in 1..Len(cl) : cl[k].location \in Nat
  PROVE  /\ \E p : /\ Reorders(cl, Sorted(cl, later), p)
                   /\ \A n \in 1..Len(cl) : Sorted(cl, later)[n] = cl[p[n]]
         /\ InOrder(Sorted(cl, later))
<1> DEFINE L == Len(cl)
           P(k, l) == Precedes(cl, later, k, l)
           B(k) == {l \in 1..L : P(l, k)}
           R(k) == Rank(cl, later, k)
<1>1. /\ L \in Nat
      /\ \A k \in 1..L : ~P(k, k)
      /\ \A k, l \in 1..L : k # l => P(k, l) \/ P(l, k)
      /\ \A k, l, m \in 1..L : P(k, l) /\ P(l, m) => P(k, m)
      /\ \A k, l \in 1..L : P(k, l) => cl[k].location <= cl[l].location
  BY PrecedesIsOrder
<1>2. \A k \in 1..L : R(k) = Cardinality(B(k)) + 1
  BY DEF Rank
<1>3. IsFiniteSet(1..L) /\ Cardinality(1..L) = L
  <2>1. L \in Nat
    BY <1>1
  <2> HIDE DEF L
  <2>2. IsFiniteSet(1..L) /\ Cardinality(1..L) = IF 1 > L THEN 0 ELSE L - 1 + 1
    BY <2>1, FS_Interval
  <2> QED
    BY <2>1, <2>2
<1> HIDE DEF L, P, R
<1>4. ASSUME NEW k \in 1..L
      PROVE  IsFiniteSet(B(k)) /\ Cardinality(B(k)) \in Nat /\ R(k) \in 1..L
  <2>1. B(k) \in SUBSET (1..L) /\ k \notin B(k)
    BY <1>1
  <2> HIDE DEF B
  <2>2. IsFiniteSet(B(k)) /\ Cardinality(B(k)) <= L
    BY <1>3, <2>1, FS_Subset
  <2>3. Cardinality(B(k)) \in Nat
    BY <2>2, FS_CardinalityType
  <2>4. Cardinality(B(k)) # L
    BY <1>3, <2>1, FS_Subset
  <2> QED
    BY <1>1, <1>2, <2>2, <2>3, <2>4
<1>5. ASSUME NEW k \in 1..L, NEW l \in 1..L, P(k, l) PROVE R(k) < R(l)
  <2>1. B(k) \cup {k} \in SUBSET B(l) /\ k \notin B(k)
    BY <1>1, <1>5
  <2> HIDE DEF B
  <2>2. Cardinality(B(k) \cup {k}) = Cardinality(B(k)) + 1
    BY <1>4, <2>1, FS_AddElement
  <2>3. Cardinality(B(k) \cup {k}) <= Cardinality(B(l))
    BY <1>4, <2>1, FS_Subset
  <2> QED
    BY <1>2, <1>4, <2>2, <2>3
<1> HIDE DEF B
<1>6. \A k, l \in 1..L : R(k) = R(l) => k = l
  <2> SUFFICES ASSUME NEW k \in 1..L, NEW l \in 1..L, k # l PROVE R(k) # R(l)
    OBVIOUS
  <2>1. R(k) \in Nat /\ R(l) \in Nat
    BY <1>4, SMTT(40)
  <2>2. CASE P(k, l)
    <3>1. R(k) < R(l)
      BY <1>5, <2>2
    <3> QED
      BY <2>1, <3>1
  <2>3. CASE P(l, k)
    <3>1. R(l) < R(k)
      BY <1>5, <2>3
    <3> QED
      BY <2>1, <3>1
  <2> QED
    BY <1>1, <2>2, <2>3
<1> DEFINE f == [k \in 1..L |-> R(k)]
<1>7. f \in Injection(1..L, 1..L)
  BY <1>4, <1>6 DEF Injection, IsInjective
<1>8. f \in Surjection(1..L, 1..L)
  <2> HIDE DEF f
  <2> QED
    BY <1>3, <1>7, FS_Injection
<1>9. \A n \in 1..L : \E k \in 1..L : R(k) = n
  BY <1>8 DEF Surjection
<1> DEFINE p == [n \in 1..L |-> CHOOSE k \in 1..L : R(k) = n]
           s == Sorted(cl, later)
<1>a. \A n \in 1..L : p[n] \in 1..L /\ R(p[n]) = n
  BY <1>9
<1>b. p \in [1..L -> 1..L]
  BY <1>a
<1>c. Len(s) = L /\ \A n \in 1..L : s[n] = cl[p[n]]
  BY <1>1 DEF Sorted, L, R
<1> HIDE DEF p, s, f
<1>d. \A m, n \in 1..L : p[m] = p[n] => m = n
  BY <1>a
<1>e. ASSUME NEW k \in 1..L PROVE \E n \in 1..L : p[n] = k
  <2>1. R(k) \in 1..L /\ p[R(k)] \in 1..L /\ R(p[R(k)]) = R(k)
    BY <1>4, <1>a
  <2> QED
    BY <1>6, <2>1
<1>f. ASSUME NEW m \in 1..L, NEW n \in 1..L, m < n PROVE s[m].location <= s[n].location
  <2>1. p[m] # p[n] /\ p[m] \in 1..L /\ p[n] \in 1..L
    BY <1>a, <1>f
  <2>2. P(p[m], p[n])
    <3>1. ~P(p[n], p[m])
      <4>1. P(p[n], p[m]) => n < m
        BY <1>5, <1>a, <2>1
      <4> QED
        BY <1>f, <4>1
    <3> QED
      BY <1>1, <2>1, <3>1
  <2> QED
    BY <1>1, <1>c, <2>1, <2>2
<1>g. Reorders(cl, s, p)
  BY <1>b, <1>c, <1>d, <1>e DEF Reorders, L
<1>h. InOrder(s)
  BY <1>c, <1>f DEF InOrder
<1> QED
  BY <1>c, <1>g, <1>h DEF s, L

-----------------------------------------------------------------------------
(***************************************************************************)
(* What the walk has found, sorted, and its lengths                        *)
(***************************************************************************)
\* What is known of a constant afterwards.
Found == [location : Nat, length : {-1, 1, 2}, id : Int]

\* The text is that of the query.
HasText == text = TextOf(query)

\* After the walk the records are those of the whole query, sorted.
FoundInv ==
  pc # "walk" =>
    /\ js \in [clocations : Seq(Found), highest : Nat \ {0}, extern : 0..2,
               refs : Seq(Int) \cup {Null}]
    /\ todo = {} /\ walker.clause = 0
    /\ HasRecords(query, js.clocations, todo, walker)
    /\ Numbered(query, js.clocations, Len(js.clocations), js.highest, js.extern)
    /\ js.highest <= Len(js.clocations) + 1
    /\ InOrder(js.clocations)

\* Record k is the first of its place.
IsFirst(cl, k) == \A l \in 1..k - 1 : cl[l].location # cl[k].location

\* The first records of a location, when n says so, have been measured.
Measured(t, cl, n) ==
  \A k \in 1..Len(cl) :
    cl[k].length = IF IsFirst(cl, k) /\ k <= n THEN Measure(t, cl[k].location) ELSE -1

\* The records before i are measured, and the scanner has not passed a constant that
\* is not; later all are.
LengthsInv ==
  /\ pc = "lengths" =>
       /\ i \in 1..Len(js.clocations) + 1
       /\ Measured(text, js.clocations, i - 1)
       /\ lastLoc = IF i = 1 THEN -1 ELSE js.clocations[i - 1].location
       /\ \E r \in 0..Len(text) :
            /\ HasRead(text, r, flex)
            /\ \A k \in i..Len(js.clocations) :
                 js.clocations[k].location > lastLoc => r <= js.clocations[k].location
  /\ pc \in {"generate", "done"} => Measured(text, js.clocations, Len(js.clocations))

\* The walk comes before anything else.
WalkInv ==
  pc = "walk" => Core /\ flex = ScannerInit(text) /\ i = 1 /\ lastLoc = -1

\* The types of the records after the walk.
LEMMA FoundIs ==
  ASSUME FoundInv, pc # "walk"
  PROVE  /\ js.clocations \in Seq(Found) /\ Len(js.clocations) \in Nat
         /\ \A k \in 1..Len(js.clocations) :
              /\ js.clocations[k] \in Found
              /\ js.clocations[k].id \in Int /\ js.clocations[k].location \in Nat
              /\ js.clocations[k].length \in {-1, 1, 2}
         /\ js.highest \in Nat \ {0} /\ js.extern \in 0..2
         /\ js = [clocations |-> js.clocations, highest |-> js.highest,
                  extern |-> js.extern, refs |-> js.refs]
         /\ js.refs \in Seq(Int) \cup {Null}
<1>1. js.clocations \in Seq(Found)
  BY DEF FoundInv
<1>2. Len(js.clocations) \in Nat /\ \A k \in 1..Len(js.clocations) : js.clocations[k] \in Found
  BY <1>1, ElementOfSeq, LenProperties
<1>3. \A k \in 1..Len(js.clocations) :
        /\ js.clocations[k].id \in Int /\ js.clocations[k].location \in Nat
        /\ js.clocations[k].length \in {-1, 1, 2}
  BY <1>2 DEF Found
<1>4. js.highest \in Nat \ {0} /\ js.extern \in 0..2 /\ js.refs \in Seq(Int) \cup {Null}
  BY DEF FoundInv
<1>5. js = [clocations |-> js.clocations, highest |-> js.highest,
            extern |-> js.extern, refs |-> js.refs]
  BY DEF FoundInv
<1> QED
  BY <1>1, <1>2, <1>3, <1>4, <1>5

\* A constant of the query is in the text, and its record says where.
LEMMA MeasureIs ==
  ASSUME IsQuery(query), HasText, NEW c, NEW o, Counts(query, c, o)
  PROVE  LET p == PlaceOf(query, c, o)
         IN  /\ p \in Nat
             /\ Measure(text, p) = Replaced(query[c].operands[o])
             /\ Measure(text, p) \in {1, 2}
             /\ Measure(text, p) <= ConstantIn[query[c].operands[o]].tokens
             /\ p + Measure(text, p) <= p + ConstantIn[query[c].operands[o]].tokens
             /\ p + Measure(text, p) <= Len(text)
             /\ query[c].operands[o] \in Operands /\ HasConstant(query[c].operands[o])
             /\ ConstantIn[query[c].operands[o]].tokens \in Nat
             /\ p + ConstantIn[query[c].operands[o]].tokens <= Len(text)
<1> DEFINE w == query[c].operands[o]
           p == PlaceOf(query, c, o)
           n == ConstantIn[w].tokens
<1>1. /\ w \in Operands /\ p \in Nat /\ p + n <= Len(text)
      /\ text[p + 1].kind = "-" <=> Replaced(w) = 2
  BY PlaceIs DEF HasText
<1>2. HasConstant(w)
  BY DEF Counts
<1>3. n \in Nat /\ Replaced(w) <= n
  BY <1>1, <1>2, ConstantIsWritten
<1>4. Replaced(w) \in {1, 2}
  BY DEF Replaced
<1>5. Measure(text, p) = Replaced(w)
  BY <1>1, <1>4 DEF Measure
<1>6. Len(text) \in Nat
  BY TextIs DEF HasText
<1> HIDE DEF w, p, n
<1>7. p + Replaced(w) <= p + n /\ p + Replaced(w) <= Len(text)
  BY <1>1, <1>3, <1>4, <1>6
<1> QED
  BY <1>1, <1>2, <1>3, <1>4, <1>5, <1>7 DEF w, p, n

\* A constant ends before a later one starts.
LEMMA ConstantsApart ==
  ASSUME IsQuery(query), HasText, NEW c, NEW o, Counts(query, c, o),
         NEW d, NEW l, Counts(query, d, l), PlaceOf(query, c, o) < PlaceOf(query, d, l)
  PROVE  /\ PlaceOf(query, c, o) + ConstantIn[query[c].operands[o]].tokens <= PlaceOf(query, d, l)
         /\ PlaceOf(query, c, o) + Measure(text, PlaceOf(query, c, o)) <= PlaceOf(query, d, l)
<1> DEFINE p == PlaceOf(query, c, o)
           s == PlaceOf(query, d, l)
           m == ConstantIn[query[c].operands[o]].tokens
           n == ConstantIn[query[d].operands[l]].tokens
<1>1. p \in Nat /\ s \in Nat /\ m \in Nat /\ n \in Nat /\ Measure(text, p) \in Nat /\ Measure(text, p) <= m
  BY MeasureIs
<1>2. p < s
  OBVIOUS
<1>3. ~ (c = d /\ o = l)
  BY <1>1, <1>2
<1>4. p + m <= s \/ s + n <= p
  BY <1>3, PlacesAreApart
<1> HIDE DEF p, s, m, n
<1>5. p + m <= s /\ p + Measure(text, p) <= s
  BY <1>1, <1>2, <1>4
<1> QED
  BY <1>5 DEF p, s, m, n

\* What is replaced for a record is in the text, and ends before the next one.
LEMMA RecordMeasure ==
  ASSUME IsQuery(query), HasText, FoundInv, pc # "walk", NEW k \in 1..Len(js.clocations)
  PROVE  LET p == js.clocations[k].location
         IN  /\ p \in Nat /\ Measure(text, p) \in {1, 2} /\ p + Measure(text, p) <= Len(text)
             /\ Len(text) \in Nat
             /\ \A l \in 1..Len(js.clocations) :
                  p < js.clocations[l].location => p + Measure(text, p) <= js.clocations[l].location
<1>1. \A l \in 1..Len(js.clocations) : \E c, o :
        Counts(query, c, o) /\ js.clocations[l].location = PlaceOf(query, c, o)
  BY DEF FoundInv, HasRecords
<1>2. PICK c, o : Counts(query, c, o) /\ js.clocations[k].location = PlaceOf(query, c, o)
  BY <1>1
<1>3. ASSUME NEW l \in 1..Len(js.clocations), js.clocations[k].location < js.clocations[l].location
      PROVE  js.clocations[k].location + Measure(text, js.clocations[k].location)
               <= js.clocations[l].location
  <2>1. PICK d, m : Counts(query, d, m) /\ js.clocations[l].location = PlaceOf(query, d, m)
    BY <1>1
  <2> QED
    BY <1>2, <1>3, <2>1, ConstantsApart
<1>4. Len(text) \in Nat
  BY TextIs DEF HasText
<1> QED
  BY <1>2, <1>3, <1>4, MeasureIs

\* SortConstants begins the scan with the records of the whole query.
LEMMA SortFinds ==
  ASSUME IsQuery(query), HasText, WalkInv, SortConstants
  PROVE  FoundInv' /\ LengthsInv'
<1> DEFINE cl == js.clocations
           cl2 == js'.clocations
           L == Len(cl)
<1>0. /\ pc = "walk" /\ todo = {} /\ walker.clause = 0 /\ pc' = "lengths"
      /\ query' = query /\ text' = text /\ todo' = todo /\ walker' = walker
      /\ flex' = flex /\ i' = i /\ lastLoc' = lastLoc
  BY DEF SortConstants, Walked
<1>1. JsInv /\ RecordsInv /\ NumbersInv /\ flex = ScannerInit(text) /\ i = 1 /\ lastLoc = -1
  BY <1>0 DEF WalkInv, Core
<1>2. PICK later : js' = [js EXCEPT !.clocations = Sorted(js.clocations, later)]
  BY DEF SortConstants
<1>3. /\ cl \in Seq(Record) /\ L \in Nat /\ js.highest \in Nat \ {0} /\ js.extern \in 0..2
      /\ js.refs \in Seq(Int) \cup {Null}
      /\ \A k \in 1..L : cl[k].location \in Nat /\ cl[k].length = -1 /\ cl[k].id \in Int /\ cl[k] \in Record
      /\ js = [clocations |-> js.clocations, highest |-> js.highest,
                  extern |-> js.extern, refs |-> js.refs]
  BY <1>1, JsIs
<1>4. /\ cl2 = Sorted(cl, later) /\ js'.highest = js.highest /\ js'.extern = js.extern
      /\ js'.refs = js.refs
      /\ js' = [clocations |-> cl2, highest |-> js.highest, extern |-> js.extern, refs |-> js.refs]
  BY <1>2, <1>3
<1>5. PICK p : Reorders(cl, cl2, p) /\ \A n \in 1..L : cl2[n] = cl[p[n]]
  BY <1>3, <1>4, SortedReorders
<1>6. InOrder(cl2)
  BY <1>3, <1>4, SortedReorders
<1> HIDE DEF cl, L
<1>7. Len(cl2) = L /\ \A n \in 1..L : cl2[n] \in Record /\ cl2[n].length = -1 /\ cl2[n].location \in Nat
  <2>1. Len(cl2) = L /\ \A n \in 1..L : p[n] \in 1..L
    BY <1>5 DEF Reorders, L
  <2> HIDE DEF cl2
  <2> QED
    BY <1>3, <1>5, <2>1, SMTT(40)
<1>8. cl2 \in Seq(Found)
  <2>1. cl2 = [n \in 1..L |-> cl2[n]]
    BY <1>4, <1>7 DEF Sorted, L
  <2>2. Record \in SUBSET Found
    BY DEF Record, Found
  <2>3. cl2 \in [1..L -> Found]
    BY <1>7, <2>1, <2>2
  <2>4. L \in Nat
    BY <1>3
  <2> HIDE DEF cl2
  <2> QED
    BY <2>3, <2>4, SeqDef, ZenonT(40)
<1>9. HasRecords(query, cl2, todo, walker)
  BY <1>1, <1>5, HasRecordsReordered DEF RecordsInv, cl
<1>a. Old = L /\ Base = js.highest
  <2>1. Old = L
    BY <1>0 DEF Old, InGroupBy, L, cl
  <2>2. Base = js.highest - (L - L)
    BY <2>1 DEF Base, L, cl
  <2>3. ASSUME NEW h \in Int, NEW l \in Int PROVE h - (l - l) = h
    OBVIOUS
  <2>4. js.highest \in Int /\ L \in Int
    BY <1>3
  <2> QED
    BY <2>1, <2>2, <2>3, <2>4
<1>b. Numbered(query, cl, L, js.highest, js.extern) /\ js.highest <= L + 1
  BY <1>1, <1>3, <1>a DEF NumbersInv, L, cl
<1>c. Numbered(query, cl2, Len(cl2), js.highest, js.extern)
  BY <1>5, <1>b, NumberedReordered DEF L
<1>d. FoundInv'
  <2>1. js' \in [clocations : Seq(Found), highest : Nat \ {0}, extern : 0..2,
                 refs : Seq(Int) \cup {Null}]
    BY <1>3, <1>4, <1>8
  <2> QED
    BY <1>0, <1>4, <1>6, <1>7, <1>9, <1>b, <1>c, <2>1 DEF FoundInv
<1>e. AreTokens(text)
  BY TextIsTokens DEF HasText
<1>f. HasRead(text, 0, flex) /\ 0 \in 0..Len(text)
  BY <1>1, <1>e, ScannerInitRead DEF AreTokens
<1>g. Measured(text, js.clocations, 0)'
  <2>1. \A k \in 1..Len(cl2) : ~ (k <= 0) /\ cl2[k].length = -1
    BY <1>3, <1>7
  <2> QED
    BY <2>1 DEF Measured
<1>h. \A k \in 1..Len(cl2) : 0 <= cl2[k].location
  BY <1>7
<1>i. LengthsInv'
  <2>1. i' = 1 /\ i' \in 1..Len(cl2) + 1 /\ i' - 1 = 0 /\ lastLoc' = -1
    BY <1>0, <1>1, <1>3, <1>7
  <2> QED
    BY <1>0, <1>f, <1>g, <1>h, <2>1 DEF LengthsInv
<1> QED
  BY <1>d, <1>i

-----------------------------------------------------------------------------
\* cl2 has another length for record n.
ChangesLength(cl, cl2, n, v) ==
  /\ Len(cl2) = Len(cl)
  /\ \A k \in 1..Len(cl) : cl2[k].location = cl[k].location /\ cl2[k].id = cl[k].id
  /\ \A k \in 1..Len(cl) : cl2[k].length = IF k = n THEN v ELSE cl[k].length

\* Setting one length keeps everything else of the records.
LEMMA LengthChanges ==
  ASSUME NEW cl \in Seq(Found), NEW n \in 1..Len(cl), NEW v \in {1, 2}
  PROVE  LET cl2 == [cl EXCEPT ![n].length = v]
         IN  cl2 \in Seq(Found) /\ ChangesLength(cl, cl2, n, v)
<1> DEFINE cl2 == [cl EXCEPT ![n].length = v]
           r == [cl[n] EXCEPT !.length = v]
<1>1. cl[n] \in Found
  BY ElementOfSeq
<1>2. r = [location |-> cl[n].location, length |-> v, id |-> cl[n].id]
  BY <1>1, SMTT(40) DEF Found
<1>3. cl[n].location \in Nat /\ cl[n].id \in Int
  BY <1>1 DEF Found
<1> HIDE DEF r
<1>4. r \in Found /\ r.location = cl[n].location /\ r.id = cl[n].id /\ r.length = v
  BY <1>2, <1>3 DEF Found
<1>5. cl2 = [cl EXCEPT ![n] = r]
  BY DEF r
<1>6. cl2 \in Seq(Found) /\ Len(cl2) = Len(cl)
      /\ \A k \in 1..Len(cl) : cl2[k] = IF k = n THEN r ELSE cl[k]
  BY <1>4, <1>5, SMTT(40)
<1> HIDE DEF cl2
<1>7. ChangesLength(cl, cl2, n, v)
  BY <1>4, <1>6 DEF ChangesLength
<1> QED
  BY <1>6, <1>7 DEF cl2

\* The records keep their places and numbers.
LEMMA FoundStays ==
  ASSUME IsQuery(query), FoundInv, pc # "walk", query' = query, pc' # "walk",
         todo' = todo, walker' = walker,
         js' \in [clocations : Seq(Found), highest : Nat \ {0}, extern : 0..2,
                  refs : Seq(Int) \cup {Null}],
         js'.highest = js.highest, js'.extern = js.extern,
         Len(js'.clocations) = Len(js.clocations),
         \A k \in 1..Len(js.clocations) :
           /\ js'.clocations[k].location = js.clocations[k].location
           /\ js'.clocations[k].id = js.clocations[k].id
  PROVE  FoundInv'
<1> DEFINE cl == js.clocations
           cl2 == js'.clocations
           p == [n \in 1..Len(cl) |-> n]
<1>1. Reorders(cl, cl2, p)
  BY DEF Reorders
<1> HIDE DEF p
<1>2. HasRecords(query, cl2, todo, walker)
  BY <1>1, HasRecordsReordered DEF FoundInv
<1>3. Numbered(query, cl2, Len(cl2), js.highest, js.extern)
  BY <1>1, NumberedReordered DEF FoundInv
<1>4. InOrder(cl2)
  BY DEF FoundInv, InOrder
<1> QED
  BY <1>2, <1>3, <1>4 DEF FoundInv

\* The places of the records do not change, nor which are first.
LEMMA FirstStays ==
  ASSUME NEW cl, NEW cl2, NEW n, NEW v, ChangesLength(cl, cl2, n, v), Len(cl) \in Nat,
         NEW k \in 1..Len(cl)
  PROVE  IsFirst(cl2, k) <=> IsFirst(cl, k)
<1>1. 1..k - 1 \in SUBSET (1..Len(cl))
  OBVIOUS
<1>2. \A l \in 1..k - 1 : cl2[l].location = cl[l].location
  BY <1>1 DEF ChangesLength
<1>3. cl2[k].location = cl[k].location
  BY DEF ChangesLength
<1> QED
  BY <1>2, <1>3 DEF IsFirst

\* A record in a sorted list is the first of its place unless the one before
\* it has that place.
LEMMA FirstIs ==
  ASSUME NEW cl, Len(cl) \in Nat, InOrder(cl), NEW k \in 1..Len(cl),
         \A l \in 1..Len(cl) : cl[l].location \in Nat
  PROVE  IsFirst(cl, k) <=> k = 1 \/ cl[k - 1].location < cl[k].location
<1>1. CASE k = 1
  BY <1>1 DEF IsFirst
<1>2. CASE k # 1
  <2>1. k - 1 \in 1..Len(cl) /\ k - 1 \in 1..k - 1 /\ cl[k - 1].location <= cl[k].location
    <3>1. k - 1 \in 1..Len(cl) /\ k - 1 < k /\ k - 1 \in 1..k - 1
      BY <1>2
    <3> QED
      BY <3>1 DEF InOrder
  <2>2. cl[k].location \in Nat /\ cl[k - 1].location \in Nat
    BY <2>1
  <2>3. ASSUME cl[k - 1].location < cl[k].location PROVE IsFirst(cl, k)
    <3> SUFFICES ASSUME NEW l \in 1..k - 1 PROVE cl[l].location # cl[k].location
      BY DEF IsFirst
    <3>1. l \in 1..Len(cl) /\ (l = k - 1 \/ l < k - 1)
      OBVIOUS
    <3>2. cl[l].location <= cl[k - 1].location
      BY <2>1, <2>2, <3>1 DEF InOrder
    <3>3. cl[l].location \in Nat
      BY <3>1
    <3> QED
      BY <2>2, <2>3, <3>2, <3>3
  <2>4. ASSUME IsFirst(cl, k) PROVE cl[k - 1].location < cl[k].location
    <3>1. cl[k - 1].location # cl[k].location
      BY <2>1, <2>4 DEF IsFirst
    <3> QED
      BY <2>1, <2>2, <3>1
  <2> QED
    BY <1>2, <2>3, <2>4
<1> QED
  BY <1>1, <1>2

\* The text does not end where a constant is.
LEMMA ScanFinds ==
  ASSUME IsQuery(query), HasText, FoundInv, LengthsInv, pc = "lengths", i <= Len(js.clocations),
         js.clocations[i].location > lastLoc
  PROVE  LET loc    == js.clocations[i].location
             first  == CoreYylex(text, flex)
             second == IF text[loc + 1].kind = "-" THEN CoreYylex(text, first.flex) ELSE first
         IN  /\ i \in 1..Len(js.clocations) /\ loc \in Nat
             /\ first.token.kind # "EOF"
             /\ \/ /\ ~ (first.token.at >= loc)
                   /\ \E r \in 0..loc : r \in 0..Len(text) /\ HasRead(text, r, first.flex)
                \/ /\ first.token.at >= loc
                   /\ second.token.kind # "EOF"
                   /\ loc + Measure(text, loc) \in 0..Len(text)
                   /\ second.flex = ScannerAt(text, loc + Measure(text, loc))
<1> DEFINE loc    == js.clocations[i].location
           first  == CoreYylex(text, flex)
           second == IF text[loc + 1].kind = "-" THEN CoreYylex(text, first.flex) ELSE first
<1>1. i \in 1..Len(js.clocations) /\ i \in i..Len(js.clocations)
  BY FoundIs DEF LengthsInv
<1>2. loc \in Nat /\ Measure(text, loc) \in {1, 2} /\ loc + Measure(text, loc) <= Len(text) /\ Len(text) \in Nat
  BY <1>1, RecordMeasure
<1>3. PICK r \in 0..Len(text) : HasRead(text, r, flex) /\ r <= loc
  BY <1>1 DEF LengthsInv
<1>4. AreTokens(text)
  BY TextIsTokens DEF HasText
<1>5. Measure(text, loc) = IF text[loc + 1].kind = "-" THEN 2 ELSE 1
  BY DEF Measure
<1> HIDE DEF loc
<1>6. r < Len(text) /\ r + 1 \in 0..Len(text)
  BY <1>2, <1>3
<1>7. /\ first.token.kind # "EOF" /\ first.token.at = r
      /\ first.flex = ScannerAt(text, r + 1)
  BY <1>3, <1>4, <1>6, CoreYylexReads
<1>8. HasRead(text, r + 1, first.flex)
  BY <1>4, <1>6, <1>7, ScannerAtRead
<1> HIDE DEF first
<1>9. CASE r < loc
  <2>1. r + 1 \in 0..loc
    BY <1>2, <1>9
  <2> QED
    BY <1>1, <1>2, <1>6, <1>7, <1>8, <1>9, <2>1 DEF loc, first
<1>a. CASE r = loc
  <2>1. first.token.at >= loc
    BY <1>2, <1>7, <1>a
  <2>2. loc + Measure(text, loc) \in 0..Len(text)
    BY <1>2
  <2>3. CASE text[loc + 1].kind = "-"
    <3>1. r + 1 < Len(text) /\ r + 1 + 1 = loc + Measure(text, loc)
      BY <1>2, <1>5, <1>a, <2>3
    <3>2. /\ CoreYylex(text, first.flex).token.kind # "EOF"
          /\ CoreYylex(text, first.flex).flex = ScannerAt(text, r + 1 + 1)
      BY <1>4, <1>8, <3>1, CoreYylexReads
    <3>3. second = CoreYylex(text, first.flex)
      BY <2>3
    <3> QED
      BY <1>1, <1>2, <1>7, <2>1, <2>2, <3>1, <3>2, <3>3 DEF loc, first
  <2>4. CASE text[loc + 1].kind # "-"
    <3>1. r + 1 = loc + Measure(text, loc)
      BY <1>2, <1>5, <1>a, <2>4
    <3>2. second = first
      BY <2>4
    <3> QED
      BY <1>1, <1>2, <1>7, <2>1, <2>2, <3>1, <3>2 DEF loc, first
  <2> QED
    BY <2>3, <2>4
<1> QED
  BY <1>2, <1>3, <1>9, <1>a

-----------------------------------------------------------------------------
\* What a step of the scan does.
LEMMA FillInLengthDoes ==
  ASSUME IsQuery(query), HasText, FoundInv, LengthsInv, FillInLength
  PROVE  LET loc == js.clocations[i].location
         IN  /\ pc = "lengths" /\ i \in 1..Len(js.clocations) /\ loc \in Nat
             /\ pc' = pc /\ query' = query /\ text' = text /\ todo' = todo /\ walker' = walker
             /\ \/ /\ loc <= lastLoc
                   /\ i' = i + 1 /\ js' = js /\ flex' = flex /\ lastLoc' = lastLoc
                \/ /\ loc > lastLoc
                   /\ \E r \in 0..loc : r \in 0..Len(text) /\ HasRead(text, r, flex')
                   /\ js' = js /\ i' = i /\ lastLoc' = lastLoc
                \/ /\ loc > lastLoc
                   /\ loc + Measure(text, loc) \in 0..Len(text)
                   /\ flex' = ScannerAt(text, loc + Measure(text, loc))
                   /\ js' = [js EXCEPT !.clocations[i].length = NulAfter(flex', loc) - loc]
                   /\ lastLoc' = loc /\ i' = i + 1
<1> DEFINE loc    == js.clocations[i].location
           first  == CoreYylex(text, flex)
           second == IF text[loc + 1].kind = "-" THEN CoreYylex(text, first.flex) ELSE first
           found  == first.token.kind # "EOF" /\ first.token.at >= loc
<1>1. pc = "lengths" /\ i <= Len(js.clocations)
  BY DEF FillInLength
<1>2. /\ pc' = pc /\ query' = query /\ text' = text /\ todo' = todo /\ walker' = walker
  BY DEF FillInLength
<1>3. i \in 1..Len(js.clocations) /\ loc \in Nat
  BY <1>1, FoundIs DEF LengthsInv
<1>4. \/ loc <= lastLoc /\ i' = i + 1 /\ js' = js /\ flex' = flex /\ lastLoc' = lastLoc
      \/ /\ loc > lastLoc /\ ~found /\ first.token.kind # "EOF"
         /\ flex' = first.flex /\ js' = js /\ i' = i /\ lastLoc' = lastLoc
      \/ /\ loc > lastLoc /\ (found \/ first.token.kind = "EOF")
         /\ IF "EOF" \in {first.token.kind, second.token.kind}
            THEN i' = Len(js.clocations) + 1 /\ js' = js /\ flex' = flex /\ lastLoc' = lastLoc
            ELSE /\ flex' = second.flex
                 /\ js' = [js EXCEPT !.clocations[i].length = NulAfter(second.flex, loc) - loc]
                 /\ lastLoc' = loc
                 /\ i' = i + 1
  BY DEF FillInLength
<1>5. CASE loc <= lastLoc /\ i' = i + 1 /\ js' = js /\ flex' = flex /\ lastLoc' = lastLoc
  BY <1>1, <1>2, <1>3, <1>5
<1>6. ASSUME loc > lastLoc
      PROVE  /\ first.token.kind # "EOF"
             /\ \/ /\ ~ (first.token.at >= loc)
                   /\ \E r \in 0..loc : r \in 0..Len(text) /\ HasRead(text, r, first.flex)
                \/ /\ first.token.at >= loc
                   /\ second.token.kind # "EOF"
                   /\ loc + Measure(text, loc) \in 0..Len(text)
                   /\ second.flex = ScannerAt(text, loc + Measure(text, loc))
  BY <1>1, <1>6, ScanFinds
<1>7. ASSUME NEW r \in 0..loc, r \in 0..Len(text), HasRead(text, r, first.flex)
      PROVE  first.flex = flex' => HasRead(text, r, flex')
  BY <1>7
<1> HIDE DEF loc, first, second
<1>8. CASE /\ loc > lastLoc /\ ~found /\ first.token.kind # "EOF"
           /\ flex' = first.flex /\ js' = js /\ i' = i /\ lastLoc' = lastLoc
  <2>1. \E r \in 0..loc : r \in 0..Len(text) /\ HasRead(text, r, flex')
    BY <1>6, <1>7, <1>8
  <2> QED
    BY <1>1, <1>2, <1>3, <1>8, <2>1 DEF loc
<1>9. CASE /\ loc > lastLoc /\ (found \/ first.token.kind = "EOF")
           /\ IF "EOF" \in {first.token.kind, second.token.kind}
              THEN i' = Len(js.clocations) + 1 /\ js' = js /\ flex' = flex /\ lastLoc' = lastLoc
              ELSE /\ flex' = second.flex
                   /\ js' = [js EXCEPT !.clocations[i].length = NulAfter(second.flex, loc) - loc]
                   /\ lastLoc' = loc
                   /\ i' = i + 1
  <2>1. first.token.kind # "EOF" /\ first.token.at >= loc
    BY <1>6, <1>9
  <2>3. /\ second.token.kind # "EOF"
        /\ loc + Measure(text, loc) \in 0..Len(text)
        /\ second.flex = ScannerAt(text, loc + Measure(text, loc))
    BY <1>6, <1>9, <2>1
  <2>4. /\ flex' = second.flex
        /\ js' = [js EXCEPT !.clocations[i].length = NulAfter(second.flex, loc) - loc]
        /\ lastLoc' = loc
        /\ i' = i + 1
    BY <1>9, <2>1, <2>3
  <2>5. /\ flex' = ScannerAt(text, loc + Measure(text, loc))
        /\ js' = [js EXCEPT !.clocations[i].length = NulAfter(flex', loc) - loc]
    BY <2>3, <2>4
  <2> QED
    BY <1>1, <1>2, <1>3, <1>9, <2>3, <2>4, <2>5 DEF loc
<1> QED
  BY <1>4, <1>5, <1>8, <1>9 DEF loc, first, second

-----------------------------------------------------------------------------
\* Whether record i is the first of its place.
LEMMA NextIsFirst ==
  ASSUME FoundInv, LengthsInv, pc = "lengths", i \in 1..Len(js.clocations)
  PROVE  /\ IsFirst(js.clocations, i) <=> js.clocations[i].location > lastLoc
         /\ js.clocations[i].location <= lastLoc =>
              lastLoc = js.clocations[i].location /\ i # 1
<1> DEFINE cl == js.clocations
<1>1. Len(cl) \in Nat /\ InOrder(cl) /\ \A k \in 1..Len(cl) : cl[k].location \in Nat
  BY FoundIs DEF FoundInv
<1>2. lastLoc = IF i = 1 THEN -1 ELSE cl[i - 1].location
  BY DEF LengthsInv
<1> HIDE DEF cl
<1>3. IsFirst(cl, i) <=> i = 1 \/ cl[i - 1].location < cl[i].location
  BY <1>1, FirstIs DEF cl
<1>4. cl[i].location \in Nat
  BY <1>1 DEF cl
<1>5. CASE i = 1
  BY <1>2, <1>3, <1>4, <1>5 DEF cl
<1>6. CASE i # 1
  <2>1. i - 1 \in 1..Len(cl) /\ i \in 1..Len(cl) /\ i - 1 < i
    BY <1>1, <1>6 DEF cl
  <2>2. cl[i - 1].location <= cl[i].location /\ cl[i - 1].location \in Nat
    BY <1>1, <2>1 DEF InOrder
  <2> QED
    BY <1>2, <1>3, <1>4, <1>6, <2>2 DEF cl
<1> QED
  BY <1>5, <1>6

\* FillInLength preserves the invariants of the records and their lengths.
LEMMA FillInLengthStays ==
  ASSUME IsQuery(query), HasText, FoundInv, LengthsInv, FillInLength
  PROVE  FoundInv' /\ LengthsInv'
<1> DEFINE cl == js.clocations
           cl2 == js'.clocations
           loc == cl[i].location
           L == Len(cl)
<1>0. /\ pc = "lengths" /\ i \in 1..L /\ loc \in Nat
      /\ pc' = pc /\ query' = query /\ text' = text /\ todo' = todo /\ walker' = walker
  BY FillInLengthDoes
<1>1. /\ cl \in Seq(Found) /\ L \in Nat
      /\ \A k \in 1..L : cl[k].location \in Nat
      /\ InOrder(cl) /\ Measured(text, cl, i - 1)
      /\ js = [clocations |-> cl, highest |-> js.highest, extern |-> js.extern, refs |-> js.refs]
      /\ js.highest \in Nat \ {0} /\ js.extern \in 0..2 /\ js.refs \in Seq(Int) \cup {Null}
  BY <1>0, FoundIs DEF FoundInv, LengthsInv
<1>2. /\ IsFirst(cl, i) <=> loc > lastLoc
      /\ loc <= lastLoc => lastLoc = loc /\ i # 1
  BY <1>0, NextIsFirst
<1>3. AreTokens(text)
  BY TextIsTokens DEF HasText
<1>4. (i + 1) - 1 = i /\ i + 1 \in 1..L + 1 /\ i + 1 # 1 /\ i \in Nat
  BY <1>0, <1>1
<1>5. CASE /\ loc <= lastLoc
           /\ i' = i + 1 /\ js' = js /\ flex' = flex /\ lastLoc' = lastLoc
  <2>1. FoundInv'
    BY <1>0, <1>5 DEF FoundInv
  <2>2. Measured(text, cl, i)
    <3> SUFFICES ASSUME NEW k \in 1..Len(cl)
                 PROVE  cl[k].length = IF IsFirst(cl, k) /\ k <= i
                                       THEN Measure(text, cl[k].location) ELSE -1
      BY DEF Measured
    <3>1. cl[k].length = IF IsFirst(cl, k) /\ k <= i - 1
                         THEN Measure(text, cl[k].location) ELSE -1
      BY <1>1 DEF Measured
    <3>2. ~IsFirst(cl, i)
      <4>1. loc = lastLoc
        BY <1>2, <1>5
      <4>2. ~ (loc > lastLoc)
        BY <1>0, <4>1
      <4> QED
        BY <1>2, <4>2
    <3>3. k # i => (k <= i - 1 <=> k <= i)
      BY <1>4
    <3> HIDE DEF cl
    <3> QED
      BY <3>1, <3>2, <3>3
  <2>3. Measured(text', js'.clocations, i' - 1)
    BY <1>0, <1>4, <1>5, <2>2
  <2>4. lastLoc' = js'.clocations[i' - 1].location
    BY <1>2, <1>4, <1>5
  <2>5. \E r \in 0..Len(text) :
          /\ HasRead(text, r, flex)
          /\ \A k \in i + 1..Len(js.clocations) :
               js.clocations[k].location > lastLoc => r <= js.clocations[k].location
    <3>1. PICK r \in 0..Len(text) :
            /\ HasRead(text, r, flex)
            /\ \A k \in i..Len(js.clocations) :
                 js.clocations[k].location > lastLoc => r <= js.clocations[k].location
      BY <1>0 DEF LengthsInv
    <3>2. \A k \in i + 1..Len(js.clocations) : k \in i..Len(js.clocations)
      BY <1>4
    <3> QED
      BY <3>1, <3>2
  <2>6. i' \in 1..Len(js'.clocations) + 1 /\ i' # 1
    BY <1>4, <1>5
  <2>7. LengthsInv'
    BY <1>0, <1>5, <2>3, <2>4, <2>5, <2>6 DEF LengthsInv
  <2> QED
    BY <2>1, <2>7
<1>6. CASE /\ loc > lastLoc
           /\ \E r \in 0..loc : r \in 0..Len(text) /\ HasRead(text, r, flex')
           /\ js' = js /\ i' = i /\ lastLoc' = lastLoc
  <2>1. FoundInv'
    BY <1>0, <1>6 DEF FoundInv
  <2>2. PICK r \in 0..loc : r \in 0..Len(text) /\ HasRead(text, r, flex')
    BY <1>6
  <2>3. ASSUME NEW k \in i..L PROVE r <= cl[k].location
    <3>1. k \in 1..L /\ (k = i \/ i < k)
      BY <1>0, <1>1
    <3>2. loc <= cl[k].location
      BY <1>0, <1>1, <3>1 DEF InOrder
    <3> QED
      BY <1>0, <1>1, <2>2, <3>1, <3>2
  <2>4. LengthsInv'
    BY <1>0, <1>1, <1>6, <2>2, <2>3 DEF LengthsInv
  <2> QED
    BY <2>1, <2>4
<1>7. CASE /\ loc > lastLoc
           /\ loc + Measure(text, loc) \in 0..Len(text)
           /\ flex' = ScannerAt(text, loc + Measure(text, loc))
           /\ js' = [js EXCEPT !.clocations[i].length = NulAfter(flex', loc) - loc]
           /\ lastLoc' = loc /\ i' = i + 1
  <2> DEFINE v == Measure(text, loc)
             e == loc + v
  <2>1. v \in {1, 2} /\ \A k \in 1..L : loc < cl[k].location => e <= cl[k].location
    BY <1>0, RecordMeasure
  <2>2. e \in 0..Len(text) /\ loc \in 0..e /\ e - loc = v
    <3>1. e \in 0..Len(text)
      BY <1>7
    <3> HIDE DEF loc, v
    <3> QED
      BY <1>0, <2>1, <3>1
  <2> HIDE DEF e
  <2>3. NulAfter(flex', loc) = e
    <3>1. flex' = ScannerAt(text, e)
      BY <1>7 DEF e
    <3> HIDE DEF loc
    <3> QED
      BY <1>3, <2>2, <3>1, NulAfterIs
  <2>4. js' = [js EXCEPT !.clocations[i].length = v]
    BY <1>7, <2>2, <2>3
  <2> HIDE DEF v
  <2>5. js' = [clocations |-> [cl EXCEPT ![i].length = v], highest |-> js.highest,
               extern |-> js.extern, refs |-> js.refs]
    BY <1>1, <2>4
  <2>6. cl2 \in Seq(Found) /\ ChangesLength(cl, cl2, i, v)
    <3>1. cl2 = [cl EXCEPT ![i].length = v]
      BY <2>5
    <3> HIDE DEF cl, cl2, L
    <3> QED
      BY <1>0, <1>1, <2>1, <3>1, LengthChanges DEF L
  <2>7. FoundInv'
    <3>1. js' \in [clocations : Seq(Found), highest : Nat \ {0}, extern : 0..2,
                    refs : Seq(Int) \cup {Null}]
      BY <1>1, <2>5, <2>6
    <3>2. js'.highest = js.highest /\ js'.extern = js.extern
      BY <2>5
    <3> QED
      BY <1>0, <2>6, <3>1, <3>2, FoundStays DEF ChangesLength
  <2>8. Len(cl2) = L /\ \A k \in 1..L : cl2[k].location = cl[k].location
    BY <2>6 DEF ChangesLength
  <2>9. Measured(text, cl2, i)
    <3> SUFFICES ASSUME NEW k \in 1..L
                 PROVE  cl2[k].length = IF IsFirst(cl2, k) /\ k <= i
                                        THEN Measure(text, cl2[k].location) ELSE -1
      BY <2>8 DEF Measured
    <3>1. cl[k].length = IF IsFirst(cl, k) /\ k <= i - 1
                         THEN Measure(text, cl[k].location) ELSE -1
      BY <1>1 DEF Measured
    <3>2. IsFirst(cl2, k) <=> IsFirst(cl, k)
      <4> HIDE DEF cl, cl2
      <4> QED
        BY <1>1, <2>6, FirstStays
    <3>3. cl2[k].length = IF k = i THEN v ELSE cl[k].length
      BY <2>6 DEF ChangesLength
    <3>4. cl2[k].location = cl[k].location
      BY <2>8
    <3>5. k # i => (k <= i - 1 <=> k <= i)
      BY <1>4
    <3>6. k = i => k <= i /\ IsFirst(cl, k) /\ v = Measure(text, cl[k].location)
      BY <1>2, <1>4, <1>7 DEF v
    <3> HIDE DEF cl, cl2, L
    <3> QED
      BY <3>1, <3>2, <3>3, <3>4, <3>5, <3>6
  <2>a. HasRead(text, e, flex')
    <3>1. flex' = ScannerAt(text, e)
      BY <1>7 DEF e, v
    <3> QED
      BY <1>3, <2>2, <3>1, ScannerAtRead
  <2>b. \A k \in i + 1..Len(cl2) : cl2[k].location > loc => e <= cl2[k].location
    <3>1. \A k \in i + 1..L : k \in 1..L
      BY <1>4, <1>1
    <3>2. ASSUME NEW k \in i + 1..L, cl2[k].location > loc PROVE e <= cl2[k].location
      <4>1. k \in 1..L /\ cl2[k].location = cl[k].location /\ cl[k].location \in Nat
        BY <1>1, <2>8, <3>1
      <4>2. loc < cl[k].location
        BY <1>0, <3>2, <4>1
      <4> QED
        BY <2>1, <4>1, <4>2
    <3> QED
      BY <2>8, <3>2
  <2>c. lastLoc' = cl2[i].location
    BY <1>0, <1>7, <2>8
  <2>d. i' = i + 1 /\ i' \in 1..Len(cl2) + 1 /\ i' # 1 /\ i' - 1 = i /\ lastLoc' = loc
    BY <1>4, <1>7, <2>8
  <2>e. LengthsInv'
    BY <1>0, <2>2, <2>9, <2>a, <2>b, <2>c, <2>d DEF LengthsInv
  <2> QED
    BY <2>7, <2>e
<1> QED
  BY <1>5, <1>6, <1>7, FillInLengthDoes

-----------------------------------------------------------------------------
(***************************************************************************)
(* The numbers of the constants                                            *)
(***************************************************************************)
\* The constant of operand o of clause c.
ConstantAt(q, c, o) ==
  [clause |-> c, operand |-> o, at |-> PlaceOf(q, c, o),
   tokens |-> ConstantIn[q[c].operands[o]].tokens]

\* The recordable constants are those of the operands that count.
LEMMA RecordableIs ==
  ASSUME NEW r
  PROVE  r \in Recordable <=> \E c, o : Counts(query, c, o) /\ r = ConstantAt(query, c, o)
<1>1. ASSUME r \in Recordable
      PROVE  \E c, o : Counts(query, c, o) /\ r = ConstantAt(query, c, o)
  <2>1. r \in ConstantsOf(query) /\ ~IsOrdinal(query[r.clause])
    BY <1>1 DEF Recordable
  <2>2. PICK c \in 1..Len(query) :
          r \in {ConstantAt(query, c, k) :
                   k \in {k \in 1..Len(query[c].operands) : HasConstant(query[c].operands[k])}}
    BY <2>1 DEF ConstantsOf, ConstantAt
  <2>3. PICK o \in 1..Len(query[c].operands) :
          HasConstant(query[c].operands[o]) /\ r = ConstantAt(query, c, o)
    BY <2>2
  <2>4. r.clause = c
    BY <2>3 DEF ConstantAt
  <2> QED
    BY <2>1, <2>3, <2>4 DEF Counts
<1>2. ASSUME NEW c, NEW o, Counts(query, c, o), r = ConstantAt(query, c, o)
      PROVE  r \in Recordable
  <2>1. r.clause = c
    BY <1>2 DEF ConstantAt
  <2>2. r \in ConstantsOf(query)
    BY <1>2 DEF ConstantsOf, ConstantAt, Counts
  <2> QED
    BY <1>2, <2>1, <2>2 DEF Recordable, Counts
<1> QED
  BY <1>1, <1>2

\* Constants at one place are the same constant.
LEMMA RecordableIsOne ==
  ASSUME IsQuery(query), NEW r \in Recordable, NEW s \in Recordable, r.at = s.at
  PROVE  r = s
<1>1. PICK c, o : Counts(query, c, o) /\ r = ConstantAt(query, c, o)
  BY RecordableIs
<1>2. PICK d, l : Counts(query, d, l) /\ s = ConstantAt(query, d, l)
  BY RecordableIs
<1>3. r.at = PlaceOf(query, c, o) /\ s.at = PlaceOf(query, d, l)
  BY <1>1, <1>2 DEF ConstantAt
<1> QED
  BY <1>1, <1>2, <1>3, PlaceIsOne

\* A constant is in one clause.
LEMMA ClauseIs ==
  ASSUME IsQuery(query), NEW r \in Recordable, NEW d, IsIn(query, r.at, d)
  PROVE  d = r.clause
<1>1. PICK c, o : Counts(query, c, o) /\ r = ConstantAt(query, c, o)
  BY RecordableIs
<1>2. PICK l : Counts(query, d, l) /\ PlaceOf(query, d, l) = r.at
  BY DEF IsIn
<1>3. r.at = PlaceOf(query, c, o) /\ r.clause = c
  BY <1>1 DEF ConstantAt
<1> QED
  BY <1>1, <1>2, <1>3, PlaceIsOne

\* A record of the place of a constant, the first one, has its number.
LEMMA NumberIs ==
  ASSUME IsQuery(query), HasText, FoundInv, LengthsInv, pc = "done", NEW r \in Recordable
  PROVE  \E k \in 1..Len(js.clocations) :
           js.clocations[k].location = r.at /\ NumberOf(r) = ParamId(js.clocations[k].id)
<1> DEFINE cl == js.clocations
           S == {k \in 1..Len(cl) : cl[k].location = r.at}
           G(k) == cl[k].location = r.at /\ cl[k].length >= 0
<1>1. Len(cl) \in Nat
  BY FoundIs
<1>2. PICK c, o : Counts(query, c, o) /\ r = ConstantAt(query, c, o)
  BY RecordableIs
<1>3. r.at = PlaceOf(query, c, o)
  BY <1>2 DEF ConstantAt
<1>4. \E k \in 1..Len(cl) : cl[k].location = r.at
  <2>1. Seen(todo, walker, c, o)
    <3>1. todo = {} /\ walker.clause = 0 /\ c # 0
      BY <1>2 DEF FoundInv, Counts
    <3> QED
      BY <3>1 DEF Seen
  <2> QED
    BY <1>2, <1>3, <2>1 DEF FoundInv, HasRecords
<1>5. S \in SUBSET Nat /\ S # {}
  BY <1>1, <1>4
<1>6. PICK k \in S : \A l \in S : k <= l
  <2> HIDE DEF S
  <2> QED
    BY <1>5, LeastNatural
<1>7. IsFirst(cl, k)
  <2> SUFFICES ASSUME NEW l \in 1..k - 1, cl[l].location = cl[k].location PROVE FALSE
    BY DEF IsFirst
  <2>1. l \in S
    BY <1>1, <1>6
  <2>2. k <= l
    BY <1>6, <2>1
  <2> QED
    BY <1>1, <1>6, <2>2
<1>8. k \in 1..Len(cl) /\ cl[k].location = r.at
  BY <1>6
<1>9. cl[k].length >= 0
  <2>1. Measured(text, cl, Len(cl))
    BY DEF LengthsInv
  <2>2. cl[k].length = Measure(text, cl[k].location)
    <3>1. k <= Len(cl)
      BY <1>1, <1>8
    <3> QED
      BY <1>7, <1>8, <2>1, <3>1 DEF Measured
  <2>3. Measure(text, cl[k].location) \in {1, 2}
    BY DEF Measure
  <2> QED
    BY <2>2, <2>3
<1> DEFINE n == CHOOSE m \in 1..Len(cl) : G(m)
<1>a. n \in 1..Len(cl) /\ G(n)
  BY <1>8, <1>9
<1>b. NumberOf(r) = ParamId(cl[n].id)
  BY DEF NumberOf
<1> HIDE DEF n
<1> QED
  BY <1>a, <1>b

\* A negative id stands for a number above those in the query, the others for these.
LEMMA ParamIdIs ==
  ASSUME FoundInv, pc = "done", NEW k \in 1..Len(js.clocations)
  PROVE  LET id == js.clocations[k].id
         IN  /\ id \in Int /\ id # 0 /\ id <= js.extern /\ 1 - js.highest <= id
             /\ ParamId(id) > js.extern <=> id < 0
             /\ id < 0 => ParamId(id) = js.extern - id
<1> DEFINE id == js.clocations[k].id
<1>1. id \in Int /\ js.extern \in Nat
  BY FoundIs
<1>2. id # 0 /\ id <= js.extern /\ 1 - js.highest <= id
  BY DEF FoundInv, Numbered
<1> HIDE DEF id
<1>3. /\ ParamId(id) > js.extern <=> id < 0
      /\ id < 0 => ParamId(id) = js.extern - id
  BY <1>1, <1>2 DEF ParamId
<1> QED
  BY <1>1, <1>2, <1>3 DEF id

\* Two constants with one number that was given out.
LEMMA SharedNumber ==
  ASSUME IsQuery(query), HasText, FoundInv, LengthsInv, pc = "done",
         NEW r \in Recordable, NEW s \in Recordable, r # s,
         NumberOf(r) = NumberOf(s), NumberOf(r) > js.extern
  PROVE  Repeats(query, r.at, s.at) \/ Repeats(query, s.at, r.at)
<1> DEFINE cl == js.clocations
<1>1. PICK k \in 1..Len(cl) : cl[k].location = r.at /\ NumberOf(r) = ParamId(cl[k].id)
  BY NumberIs
<1>2. PICK l \in 1..Len(cl) : cl[l].location = s.at /\ NumberOf(s) = ParamId(cl[l].id)
  BY NumberIs
<1>3. cl[k].id < 0 /\ ParamId(cl[k].id) = js.extern - cl[k].id /\ cl[k].id \in Int
  BY <1>1, ParamIdIs
<1>4. cl[l].id < 0 /\ ParamId(cl[l].id) = js.extern - cl[l].id /\ cl[l].id \in Int
  BY <1>2, ParamIdIs
<1>5. js.extern \in Int
  BY FoundIs
<1>6. cl[k].id = cl[l].id
  <2> DEFINE x == cl[k].id
             y == cl[l].id
             e == js.extern
  <2>1. x \in Int /\ y \in Int /\ e \in Int /\ e - x = e - y
    BY <1>1, <1>2, <1>3, <1>4, <1>5
  <2> HIDE DEF x, y, e
  <2>2. x = y
    BY <2>1
  <2> QED
    BY <2>2 DEF x, y
<1>7. k # l
  <2>1. r.at # s.at
    BY RecordableIsOne
  <2> QED
    BY <1>1, <1>2, <2>1
<1> QED
  BY <1>1, <1>2, <1>3, <1>6, <1>7 DEF FoundInv, Numbered

\* A number is shared in targets and items of one fingerprint only.
LEMMA SharedNumbers ==
  ASSUME IsQuery(query), HasText, FoundInv, LengthsInv
  PROVE  SharedNumbersMatch
<1> SUFFICES ASSUME pc = "done", NEW r \in Recordable, NEW s \in Recordable,
                    r # s, InGroup(r), NumberOf(r) = NumberOf(s), NumberOf(r) > js.extern
             PROVE  /\ query[s.clause].name = "target"
                    /\ Fingerprint(query[r.clause].operands) = Fingerprint(query[s.clause].operands)
  BY DEF SharedNumbersMatch
<1>1. CASE Repeats(query, r.at, s.at)
  <2>1. PICK c : IsIn(query, r.at, c) /\ InTarget(query, s.at, Fingerprint(query[c].operands))
    BY <1>1 DEF Repeats
  <2>2. PICK d : /\ query[d].name = "target" /\ IsIn(query, s.at, d)
                 /\ Fingerprint(query[d].operands) = Fingerprint(query[c].operands)
    BY <2>1 DEF InTarget
  <2> QED
    BY <2>1, <2>2, ClauseIs
<1>2. CASE Repeats(query, s.at, r.at)
  <2>1. PICK d : query[d].name = "target" /\ IsIn(query, r.at, d)
    BY <1>2 DEF Repeats, InTarget
  <2>2. d = r.clause
    BY <2>1, ClauseIs
  <2> QED
    BY <2>1, <2>2 DEF InGroup
<1> QED
  BY <1>1, <1>2, SharedNumber

\* Outside GROUP BY a number is new, and of one constant; without records of
\* one place none is left out.
LEMMA FreshNumbers ==
  ASSUME IsQuery(query), HasText, FoundInv, LengthsInv, pc = "done"
  PROVE  LET own == {c \in Recordable : ~InGroup(c)}
             fresh == {n \in {NumberOf(c) : c \in Recordable} : n > js.extern}
         IN  /\ \A c \in own : NumberOf(c) > js.extern
             /\ \A c, d \in own : NumberOf(c) = NumberOf(d) => c = d
             /\ HasDuplicates \/ \A n \in fresh : n - js.extern <= Cardinality(fresh)
<1> DEFINE own == {c \in Recordable : ~InGroup(c)}
           fresh == {n \in {NumberOf(c) : c \in Recordable} : n > js.extern}
           cl == js.clocations
           b == js.highest
           e == js.extern
<1>0. b \in Nat \ {0} /\ e \in Nat
  BY FoundIs
<1>1. ASSUME NEW r \in own PROVE NumberOf(r) > e
  <2>1. PICK k \in 1..Len(cl) : cl[k].location = r.at /\ NumberOf(r) = ParamId(cl[k].id)
    BY NumberIs
  <2>2. ~ (cl[k].id > 0)
    <3> SUFFICES ASSUME cl[k].id > 0 PROVE FALSE
      OBVIOUS
    <3>1. InClause(query, cl[k].location, "group")
      BY DEF FoundInv, Numbered
    <3>2. PICK c : query[c].name = "group" /\ IsIn(query, r.at, c)
      BY <2>1, <3>1 DEF InClause
    <3>3. c = r.clause
      BY <3>2, ClauseIs
    <3> QED
      BY <3>2, <3>3 DEF InGroup
  <2>3. cl[k].id < 0
    BY <2>2, ParamIdIs
  <2> QED
    BY <2>1, <2>3, ParamIdIs
<1>2. ASSUME NEW r \in own, NEW s \in own, NumberOf(r) = NumberOf(s), r # s PROVE FALSE
  <2>1. Repeats(query, r.at, s.at) \/ Repeats(query, s.at, r.at)
    BY <1>1, <1>2, SharedNumber
  <2>2. ASSUME NEW x \in own, NEW y, Repeats(query, x.at, y) PROVE FALSE
    <3>1. PICK c : query[c].name = "group" /\ IsIn(query, x.at, c)
      BY <2>2 DEF Repeats
    <3>2. c = x.clause
      BY <3>1, ClauseIs
    <3> QED
      BY <3>1, <3>2 DEF InGroup
  <2> QED
    BY <2>1, <2>2
<1>3. ASSUME ~HasDuplicates, NEW n \in fresh PROVE n - e <= Cardinality(fresh)
  <2>1. fresh \in SUBSET (e + 1..e + b - 1)
    <3> SUFFICES ASSUME NEW r \in Recordable, NumberOf(r) > e
                 PROVE  NumberOf(r) \in e + 1..e + b - 1
      OBVIOUS
    <3>1. PICK k \in 1..Len(cl) : cl[k].location = r.at /\ NumberOf(r) = ParamId(cl[k].id)
      BY NumberIs
    <3> DEFINE x == cl[k].id
    <3>2. x \in Int /\ 1 - b <= x /\ x < 0 /\ NumberOf(r) = e - x
      BY <3>1, ParamIdIs
    <3> HIDE DEF x, b, e
    <3> QED
      BY <1>0, <3>2 DEF b, e
  <2>2. ASSUME NEW m \in 1..b - 1 PROVE e + m \in fresh
    <3>1. PICK k \in 1..Len(cl) : cl[k].id = -m
      BY DEF FoundInv, Numbered
    <3>2. PICK c, o : Counts(query, c, o) /\ cl[k].location = PlaceOf(query, c, o)
      BY DEF FoundInv, HasRecords
    <3> DEFINE r == ConstantAt(query, c, o)
    <3>3. r \in Recordable /\ r.at = cl[k].location
      <4>1. r \in Recordable
        BY <3>2, RecordableIs
      <4>2. r.at = PlaceOf(query, c, o)
        BY DEF ConstantAt
      <4> QED
        BY <3>2, <4>1, <4>2
    <3> HIDE DEF r
    <3>4. PICK l \in 1..Len(cl) : cl[l].location = r.at /\ NumberOf(r) = ParamId(cl[l].id)
      BY <3>3, NumberIs
    <3>5. l = k
      <4> SUFFICES ASSUME l # k PROVE FALSE
        OBVIOUS
      <4>1. InClause(query, cl[l].location, "set")
        BY <3>3, <3>4 DEF FoundInv, HasRecords
      <4> QED
        BY <1>3, <4>1 DEF InClause, HasDuplicates
    <3>6. -m < 0 /\ e - (-m) = e + m /\ e + m > e
      BY <1>0
    <3>7. NumberOf(r) = e + m
      BY <3>1, <3>4, <3>5, <3>6, ParamIdIs
    <3> QED
      BY <3>3, <3>6, <3>7
  <2>3. fresh = e + 1..e + b - 1
    <3>1. ASSUME NEW x \in e + 1..e + b - 1 PROVE x \in fresh
      <4>1. x - e \in 1..b - 1 /\ e + (x - e) = x
        <5> HIDE DEF b, e
        <5> QED
          BY <1>0
      <4>2. e + (x - e) \in fresh
        <5> HIDE DEF fresh, b, e
        <5> QED
          BY <2>2, <4>1
      <4> QED
        BY <4>1, <4>2
    <3> HIDE DEF fresh, b, e
    <3> QED
      BY <2>1, <3>1
  <2>4. n \in e + 1..e + b - 1
    <3> HIDE DEF fresh
    <3> QED
      BY <1>3, <2>3
  <2>5. Cardinality(fresh) = b - 1
    <3> HIDE DEF fresh, b, e
    <3>1. e + 1 \in Int /\ e + b - 1 \in Int
      BY <1>0
    <3>2. Cardinality(e + 1..e + b - 1) = IF e + 1 > e + b - 1 THEN 0 ELSE (e + b - 1) - (e + 1) + 1
      BY <3>1, FS_Interval
    <3> QED
      BY <1>0, <2>3, <2>4, <3>2
  <2> HIDE DEF fresh, b, e
  <2> QED
    BY <1>0, <2>4, <2>5
<1> QED
  BY <1>1, <1>2, <1>3

-----------------------------------------------------------------------------
(***************************************************************************)
(* The normalized text                                                     *)
(***************************************************************************)
\* How many of the places K are before e, and up to p.
Below(K, e) == Cardinality({r \in K : r < e})
Upto(K, p) == Cardinality({r \in K : r <= p})

\* t is the text up to e: the places K of it, with params for the places S.
CopiedTo(K, S, t, e) ==
  /\ t \in Seq(Int)
  /\ Len(t) = Below(K, e)
  /\ \A p \in K : p < e => IF p \in S THEN t[Upto(K, p)] < 0 ELSE t[Upto(K, p)] = p

\* Counting places below a bound.
LEMMA BelowIs ==
  ASSUME NEW L \in Nat, NEW K \in SUBSET (0..L)
  PROVE  /\ \A e \in Int : Below(K, e) \in Nat
         /\ \A p \in Int : Upto(K, p) = Below(K, p + 1)
         /\ \A e \in Int : \A p \in K : p < e => Upto(K, p) \in 1..Below(K, e)
<1>1. IsFiniteSet(0..L)
  BY FS_Interval
<1>2. IsFiniteSet(K)
  BY <1>1, FS_Subset
<1>3. ASSUME NEW e \in Int
      PROVE  IsFiniteSet({r \in K : r < e}) /\ Below(K, e) \in Nat
  <2>1. {r \in K : r < e} \in SUBSET K
    OBVIOUS
  <2>2. IsFiniteSet({r \in K : r < e})
    BY <1>2, <2>1, FS_Subset
  <2> QED
    BY <2>2, FS_CardinalityType DEF Below
<1>4. ASSUME NEW p \in Int PROVE Upto(K, p) = Below(K, p + 1)
  <2>0. ASSUME NEW r \in K PROVE r <= p <=> r < p + 1
    <3>1. r \in Int
      OBVIOUS
    <3> QED
      BY <3>1
  <2>1. {r \in K : r <= p} = {r \in K : r < p + 1}
    BY <2>0
  <2> QED
    BY <2>1 DEF Upto, Below
<1>5. ASSUME NEW e \in Int, NEW p \in K, p < e PROVE Upto(K, p) \in 1..Below(K, e)
  <2> DEFINE A == {r \in K : r <= p}
             B == {r \in K : r < e}
  <2>0. ASSUME NEW r \in K PROVE (r <= p => r < e) /\ p <= p
    <3>1. r \in Int /\ p \in Int
      OBVIOUS
    <3> QED
      BY <1>5, <3>1
  <2>1. A \in SUBSET B /\ p \in A /\ A \in SUBSET K
    BY <2>0
  <2>2. IsFiniteSet(A) /\ IsFiniteSet(B)
    <3> HIDE DEF A
    <3> QED
      BY <1>2, <1>3, <2>1, FS_Subset
  <2> HIDE DEF A, B
  <2>3. Cardinality(A) \in Nat /\ Cardinality(A) # 0 /\ Cardinality(A) <= Cardinality(B)
    <3>1. Cardinality(A) \in Nat
      BY <2>2, FS_CardinalityType
    <3>2. Cardinality(A) # 0
      BY <2>1, <2>2, FS_EmptySet
    <3>3. Cardinality(A) <= Cardinality(B)
      BY <2>1, <2>2, FS_Subset
    <3> QED
      BY <3>1, <3>2, <3>3
  <2>4. Cardinality(B) \in Nat
    BY <2>2, FS_CardinalityType
  <2>5. Upto(K, p) = Cardinality(A) /\ Below(K, e) = Cardinality(B)
    BY DEF Upto, Below, A, B
  <2> QED
    BY <2>3, <2>4, <2>5
<1> QED
  BY <1>3, <1>4, <1>5

\* Counting a block of places.
LEMMA BelowBlock ==
  ASSUME NEW L \in Nat, NEW K \in SUBSET (0..L), NEW e \in Nat, NEW l \in Nat,
         e..e + l - 1 \in SUBSET K
  PROVE  Below(K, e + l) = Below(K, e) + l
<1> DEFINE A == {r \in K : r < e}
           B == e..e + l - 1
           C == {r \in K : r < e + l}
<1>1. IsFiniteSet(0..L)
  BY FS_Interval
<1>2. IsFiniteSet(K)
  BY <1>1, FS_Subset
<1>3. A \in SUBSET K /\ C = A \cup B /\ A \cap B = {}
  <2>1. ASSUME NEW r \in K
        PROVE  (r < e + l <=> r < e \/ r \in B) /\ ~ (r < e /\ r \in B)
    <3>1. r \in Int
      OBVIOUS
    <3> QED
      BY <3>1
  <2>2. B \in SUBSET K
    OBVIOUS
  <2> HIDE DEF B
  <2> QED
    BY <2>1, <2>2
<1>4. IsFiniteSet(B) /\ Cardinality(B) = l
  <2>1. IsFiniteSet(B) /\ Cardinality(B) = IF e > e + l - 1 THEN 0 ELSE (e + l - 1) - e + 1
    BY FS_Interval
  <2> HIDE DEF B
  <2> QED
    BY <2>1
<1> HIDE DEF A, B, C
<1>5. IsFiniteSet(A)
  BY <1>2, <1>3, FS_Subset
<1>6. Cardinality(A \cup B) = Cardinality(A) + Cardinality(B) - Cardinality(A \cap B)
  BY <1>4, <1>5, FS_Union
<1>7. Cardinality(A \cap B) = 0
  BY <1>3, FS_EmptySet
<1>8. Cardinality(A) \in Nat
  BY <1>5, FS_CardinalityType
<1>9. Cardinality(C) = Cardinality(A) + l
  BY <1>3, <1>4, <1>6, <1>7, <1>8
<1> QED
  BY <1>9 DEF A, C, Below

\* A piece of the text as it is copied.
LEMMA CopiedIs ==
  ASSUME NEW e \in Nat, NEW l \in Nat
  PROVE  /\ Copied(e, l) \in Seq(Int) /\ Len(Copied(e, l)) = l
         /\ \A p \in 1..l : Copied(e, l)[p] = e + p - 1
<1>1. Copied(e, l) = [p \in 1..l |-> e + p - 1]
  BY DEF Copied
<1>2. Copied(e, l) \in [1..l -> Int]
  BY <1>1
<1>3. Copied(e, l) \in Seq(Int)
  BY <1>2, SeqDef
<1> QED
  BY <1>1, <1>3

\* A block of the text without constants is copied.
LEMMA CopiedBlock ==
  ASSUME NEW L \in Nat, NEW K \in SUBSET (0..L), NEW S, NEW t, NEW e \in Nat, NEW l \in Nat,
         CopiedTo(K, S, t, e), e..e + l - 1 \in SUBSET K,
         \A p \in e..e + l - 1 : p \notin S
  PROVE  CopiedTo(K, S, Joined(t, Copied(e, l)), e + l)
<1> DEFINE c == Copied(e, l)
           u == Joined(t, c)
<1>1. c \in Seq(Int) /\ Len(c) = l /\ \A p \in 1..l : c[p] = e + p - 1
  BY CopiedIs
<1>2. t \in Seq(Int) /\ Len(t) = Below(K, e) /\ Below(K, e) \in Nat
  BY BelowIs DEF CopiedTo
<1>3. Below(K, e + l) = Below(K, e) + l
  BY BelowBlock
<1> HIDE DEF c
<1>4. /\ u \in Seq(Int) /\ Len(u) = Len(t) + Len(c)
      /\ \A j \in 1..Len(c) : u[Len(t) + j] = c[j]
  BY <1>1, <1>2, JoinedIs, ZenonT(40)
<1>5. \A j \in 1..Len(t) : u[j] = t[j]
  BY <1>1, <1>2 DEF Joined
<1> HIDE DEF u
<1>6. ASSUME NEW p \in K, p < e + l
      PROVE  IF p \in S THEN u[Upto(K, p)] < 0 ELSE u[Upto(K, p)] = p
  <2>1. CASE p < e
    <3>0. Upto(K, p) \in 1..Below(K, e)
      BY <2>1, BelowIs
    <3>1. Upto(K, p) \in 1..Len(t)
      BY <1>2, <3>0
    <3>2. IF p \in S THEN t[Upto(K, p)] < 0 ELSE t[Upto(K, p)] = p
      BY <2>1 DEF CopiedTo
    <3> QED
      BY <1>5, <3>1, <3>2
  <2>2. CASE ~ (p < e)
    <3> DEFINE m == p + 1 - e
    <3>1. p \in e..e + l - 1 /\ m \in 1..l /\ e + m = p + 1 /\ e + m - 1 = p
      BY <1>6, <2>2
    <3>2. p \notin S
      BY <3>1
    <3> HIDE DEF m
    <3>3. e..e + m - 1 \in SUBSET K
      <4>1. e..e + m - 1 \in SUBSET (e..e + l - 1)
        BY <3>1
      <4> QED
        BY <4>1
    <3>4. Upto(K, p) = Len(t) + m
      <4>0. m \in Nat /\ p \in Int
        BY <3>1
      <4>1. Below(K, e + m) = Below(K, e) + m
        BY <3>3, <4>0, BelowBlock
      <4>2. Upto(K, p) = Below(K, p + 1)
        BY <4>0, BelowIs
      <4> QED
        BY <1>2, <3>1, <4>1, <4>2
    <3>5. u[Len(t) + m] = c[m] /\ c[m] = p
      BY <1>1, <1>4, <3>1
    <3> QED
      BY <3>2, <3>4, <3>5
  <2> QED
    BY <2>1, <2>2
<1>7. Len(u) = Below(K, e + l)
  BY <1>1, <1>2, <1>3, <1>4
<1>8. CopiedTo(K, S, u, e + l)
  BY <1>4, <1>6, <1>7 DEF CopiedTo
<1> QED
  BY <1>8 DEF u, c

\* A constant is replaced: the places until e2 that are inside it are left out.
LEMMA CopiedParam ==
  ASSUME NEW L \in Nat, NEW K \in SUBSET (0..L), NEW S, NEW t, NEW e \in K, NEW e2 \in Nat,
         NEW v \in Int, v < 0, e \in S, e < e2,
         CopiedTo(K, S, t, e), \A p \in K : p < e2 => p <= e
  PROVE  CopiedTo(K, S, Joined(t, <<v>>), e2)
<1> DEFINE c == <<v>>
           u == Joined(t, c)
<1>0. e \in Nat
  OBVIOUS
<1>1. c \in Seq(Int) /\ Len(c) = 1 /\ c[1] = v
  OBVIOUS
<1>2. t \in Seq(Int) /\ Len(t) = Below(K, e) /\ Below(K, e) \in Nat
  BY <1>0, BelowIs DEF CopiedTo
<1>3. Upto(K, e) = Below(K, e) + 1
  <2>1. e..e + 1 - 1 \in SUBSET K
    <3>1. e..e + 1 - 1 = {e}
      BY <1>0
    <3> QED
      BY <3>1
  <2>2. 1 \in Nat
    OBVIOUS
  <2>3. Below(K, e + 1) = Below(K, e) + 1
    BY <1>0, <2>1, <2>2, BelowBlock
  <2>4. Upto(K, e) = Below(K, e + 1)
    <3>1. e \in Int
      BY <1>0
    <3> QED
      BY <3>1, BelowIs
  <2> QED
    BY <2>3, <2>4
<1>4. Below(K, e2) = Upto(K, e)
  <2>0. ASSUME NEW p \in K PROVE p < e2 <=> p <= e
    <3>1. p \in Int
      OBVIOUS
    <3> QED
      BY <1>0, <3>1
  <2>1. {p \in K : p < e2} = {p \in K : p <= e}
    BY <2>0
  <2> QED
    BY <2>1 DEF Below, Upto
<1> HIDE DEF c
<1>5. /\ u \in Seq(Int) /\ Len(u) = Len(t) + Len(c)
      /\ \A j \in 1..Len(c) : u[Len(t) + j] = c[j]
  BY <1>1, <1>2, JoinedIs, ZenonT(40)
<1>6. \A j \in 1..Len(t) : u[j] = t[j]
  BY <1>1, <1>2 DEF Joined
<1> HIDE DEF u
<1>7. ASSUME NEW p \in K, p < e2
      PROVE  IF p \in S THEN u[Upto(K, p)] < 0 ELSE u[Upto(K, p)] = p
  <2>1. CASE p < e
    <3>0. Upto(K, p) \in 1..Below(K, e)
      <4>1. e \in Int
        BY <1>0
      <4> QED
        BY <2>1, <4>1, BelowIs
    <3>1. Upto(K, p) \in 1..Len(t)
      BY <1>2, <3>0
    <3>2. IF p \in S THEN t[Upto(K, p)] < 0 ELSE t[Upto(K, p)] = p
      BY <2>1 DEF CopiedTo
    <3> QED
      BY <1>6, <3>1, <3>2
  <2>2. CASE p = e
    <3>1. u[Len(t) + 1] = v
      BY <1>1, <1>5
    <3> QED
      BY <1>2, <1>3, <2>2, <3>1
  <2>3. p < e \/ p = e
    BY <1>0, <1>7
  <2> QED
    BY <2>1, <2>2, <2>3
<1>8. Len(u) = Below(K, e2)
  BY <1>1, <1>2, <1>3, <1>4, <1>5
<1>9. CopiedTo(K, S, u, e2)
  BY <1>5, <1>7, <1>8 DEF CopiedTo
<1> QED
  BY <1>9 DEF u, c

-----------------------------------------------------------------------------
\* The text is copied up to norm.loc, with the constants before it replaced.
Starts == {c.at : c \in Recordable}

\* The copy ends between the constants before i and those after.
NormInv ==
  /\ pc \in {"walk", "lengths"} => norm = [query |-> <<>>, loc |-> 0, off |-> 0, len |-> 0]
  /\ pc = "generate" =>
       /\ i \in 1..Len(js.clocations) + 1
       /\ norm \in [query : Seq(Int), loc : 0..Len(text), off : Nat, len : Nat]
       /\ norm.loc = norm.off + norm.len
       /\ \A k \in 1..Len(js.clocations) : IsFirst(js.clocations, k) =>
            IF k < i
            THEN js.clocations[k].location + Measure(text, js.clocations[k].location) <= norm.loc
            ELSE norm.loc <= js.clocations[k].location
  /\ pc = "done" => i = Len(js.clocations) + 1 /\ norm.loc \in 0..Len(text)

\* What is copied has the constants up to there replaced.
TextInv ==
  /\ pc = "generate" => CopiedTo(Kept, Starts, norm.query, norm.loc)
  /\ pc = "done" => CopiedTo(Kept, Starts, norm.query, Len(text))

\* The kept places are those not inside a constant.
LEMMA KeptIs ==
  ASSUME IsQuery(query), HasText
  PROVE  /\ Kept \in SUBSET (0..Len(text))
         /\ Len(text) \in Nat /\ EndOf(text) = Len(text)
         /\ \A p \in Kept : p < Len(text)
         /\ \A p \in 0..Len(text) - 1 :
              p \in Kept <=>
                ~ \E c, o : /\ Counts(query, c, o) /\ PlaceOf(query, c, o) < p
                            /\ p < PlaceOf(query, c, o) + Measure(text, PlaceOf(query, c, o))
<1>1. Len(text) \in Nat /\ EndOf(text) = Len(text)
  BY TextIs DEF HasText
<1>2. \A p : p \in Kept <=> p \in 0..Len(text) - 1 /\ ~ \E c \in Recordable : c.at < p /\ p < c.at + Measure(text, c.at)
  BY <1>1 DEF Kept
<1>3. ASSUME NEW p
      PROVE  (\E c \in Recordable : c.at < p /\ p < c.at + Measure(text, c.at)) <=>
                \E c, o : /\ Counts(query, c, o) /\ PlaceOf(query, c, o) < p
                          /\ p < PlaceOf(query, c, o) + Measure(text, PlaceOf(query, c, o))
  <2>1. \A c, o : ConstantAt(query, c, o).at = PlaceOf(query, c, o)
    BY DEF ConstantAt
  <2>2. \A r : r \in Recordable <=> \E c, o : Counts(query, c, o) /\ r = ConstantAt(query, c, o)
    BY RecordableIs
  <2> QED
    BY <2>1, <2>2
<1>4. Kept \in SUBSET (0..Len(text)) /\ \A p \in Kept : p < Len(text)
  <2>1. \A p \in 0..Len(text) - 1 : p \in 0..Len(text) /\ p < Len(text)
    BY <1>1
  <2> QED
    BY <1>2, <2>1
<1> QED
  BY <1>1, <1>2, <1>3, <1>4

\* The places where constants start.
LEMMA StartsAre ==
  ASSUME NEW p
  PROVE  p \in Starts <=> \E c, o : Counts(query, c, o) /\ p = PlaceOf(query, c, o)
<1>1. \A c, o : ConstantAt(query, c, o).at = PlaceOf(query, c, o)
  BY DEF ConstantAt
<1>2. \A r : r \in Recordable <=> \E c, o : Counts(query, c, o) /\ r = ConstantAt(query, c, o)
  BY RecordableIs
<1> QED
  BY <1>1, <1>2 DEF Starts

\* Where the constants are while the text is copied.
LEMMA ConstantsBetween ==
  ASSUME IsQuery(query), HasText, FoundInv, NormInv, pc = "generate",
         NEW c, NEW o, Counts(query, c, o)
  PROVE  \/ PlaceOf(query, c, o) + Measure(text, PlaceOf(query, c, o)) <= norm.loc
         \/ i <= Len(js.clocations) /\ js.clocations[i].location <= PlaceOf(query, c, o)
<1> DEFINE cl == js.clocations
           p == PlaceOf(query, c, o)
           S == {k \in 1..Len(cl) : cl[k].location = p}
<1>1. Len(cl) \in Nat
  BY FoundIs
<1>2. \E k \in 1..Len(cl) : cl[k].location = p
  <2>1. Seen(todo, walker, c, o)
    BY DEF FoundInv, Counts, Seen
  <2> QED
    BY <2>1 DEF FoundInv, HasRecords
<1>3. S \in SUBSET Nat /\ S # {}
  BY <1>1, <1>2
<1>4. PICK k \in S : \A l \in S : k <= l
  <2> HIDE DEF S
  <2> QED
    BY <1>3, LeastNatural
<1>5. IsFirst(cl, k)
  <2> SUFFICES ASSUME NEW l \in 1..k - 1, cl[l].location = cl[k].location PROVE FALSE
    BY DEF IsFirst
  <2>1. l \in S
    BY <1>1, <1>4
  <2>2. k <= l
    BY <1>4, <2>1
  <2> QED
    BY <1>1, <1>4, <2>2
<1>6. k \in 1..Len(cl) /\ cl[k].location = p
  BY <1>4
<1>7. i \in 1..Len(cl) + 1
  BY DEF NormInv
<1>8. CASE k < i
  <2>1. p + Measure(text, p) <= norm.loc
    BY <1>5, <1>6, <1>8 DEF NormInv
  <2> QED
    BY <2>1
<1>9. CASE ~ (k < i)
  <2>1. i \in 1..Len(cl) /\ i <= Len(cl) /\ (i = k \/ i < k)
    BY <1>1, <1>6, <1>7, <1>9
  <2>2. p \in Nat
    BY MeasureIs
  <2>3. cl[i].location <= p
    <3>1. CASE i = k
      BY <1>6, <2>2, <3>1
    <3>2. CASE i < k
      BY <1>6, <2>1, <3>2 DEF FoundInv, InOrder
    <3> QED
      BY <2>1, <3>1, <3>2
  <2> QED
    BY <2>1, <2>3
<1> QED
  BY <1>8, <1>9

\* The text up to place e, where the next constant is or the end, is copied.
LEMMA BlockIsKept ==
  ASSUME IsQuery(query), HasText, FoundInv, NormInv, pc = "generate",
         NEW e \in 0..Len(text), norm.loc <= e,
         \/ i > Len(js.clocations) /\ e = Len(text)
         \/ i <= Len(js.clocations) /\ e = js.clocations[i].location
  PROVE  /\ norm.loc..norm.loc + (e - norm.loc) - 1 \in SUBSET Kept
         /\ \A p \in norm.loc..norm.loc + (e - norm.loc) - 1 : p \notin Starts
<1>1. Len(text) \in Nat
  BY KeptIs
<1>2. norm.loc \in Nat
  BY <1>1 DEF NormInv
<1>3. i \in Nat /\ Len(js.clocations) \in Nat
  BY FoundIs DEF NormInv
<1>4. ASSUME NEW p \in norm.loc..norm.loc + (e - norm.loc) - 1
      PROVE  p \in Kept /\ p \notin Starts
  <2>1. p \in 0..Len(text) - 1 /\ norm.loc <= p /\ p < e
    BY <1>1, <1>2
  <2>2. ASSUME NEW c, NEW o, Counts(query, c, o)
        PROVE  /\ p # PlaceOf(query, c, o)
               /\ ~ (/\ PlaceOf(query, c, o) < p
                     /\ p < PlaceOf(query, c, o) + Measure(text, PlaceOf(query, c, o)))
    <3> DEFINE a == PlaceOf(query, c, o)
               n == Measure(text, PlaceOf(query, c, o))
    <3>1. a \in Nat /\ n \in Nat /\ n # 0 /\ a + n <= Len(text)
      <4>1. a \in Nat /\ n \in {1, 2} /\ a + n <= Len(text)
        BY <2>2, MeasureIs
      <4> HIDE DEF a, n
      <4> QED
        BY <4>1
    <3>2. a + n <= norm.loc \/ (i <= Len(js.clocations) /\ js.clocations[i].location <= a)
      BY <2>2, ConstantsBetween
    <3>3. a + n <= norm.loc \/ e <= a
      BY <1>3, <3>2
    <3> HIDE DEF a, n
    <3>4. p # a /\ ~ (a < p /\ p < a + n)
      BY <1>1, <1>2, <2>1, <3>1, <3>3
    <3> QED
      BY <3>4 DEF a, n
  <2>3. p \in Kept
    BY <2>1, <2>2, KeptIs
  <2>4. p \notin Starts
    BY <2>2, StartsAre
  <2> QED
    BY <2>3, <2>4
<1> QED
  BY <1>4

-----------------------------------------------------------------------------
\* The inductive invariant of the walk, the scan and the copy.
IInv ==
  /\ IsQuery(query) /\ HasText
  /\ pc \in {"walk", "lengths", "generate", "done"}
  /\ WalkInv /\ FoundInv /\ LengthsInv /\ NormInv /\ TextInv

\* The next constant starts where the copy ends, and the rest of it is left out.
LEMMA ConstantIsKept ==
  ASSUME IsQuery(query), HasText, NEW c, NEW o, Counts(query, c, o)
  PROVE  LET e == PlaceOf(query, c, o)
         IN  /\ e \in Kept /\ e \in Starts
             /\ e < e + Measure(text, e)
             /\ \A p \in Kept : p < e + Measure(text, e) => p <= e
<1> DEFINE e == PlaceOf(query, c, o)
           m == Measure(text, e)
<1>1. e \in Nat /\ m \in {1, 2} /\ e + m <= Len(text) /\ Len(text) \in Nat
  BY MeasureIs, KeptIs
<1>2. e \in Starts
  BY StartsAre
<1>3. e \in 0..Len(text) - 1
  <2> HIDE DEF e, m
  <2> QED
    BY <1>1
<1>4. e \in Kept
  <2> SUFFICES ASSUME NEW d, NEW l, Counts(query, d, l), PlaceOf(query, d, l) < e,
                      e < PlaceOf(query, d, l) + Measure(text, PlaceOf(query, d, l))
               PROVE  FALSE
    BY <1>3, KeptIs
  <2>1. PlaceOf(query, d, l) + Measure(text, PlaceOf(query, d, l)) <= e
    BY ConstantsApart
  <2>2. PlaceOf(query, d, l) \in Nat /\ Measure(text, PlaceOf(query, d, l)) \in {1, 2}
    BY MeasureIs
  <2> HIDE DEF e
  <2> QED
    BY <1>1, <2>1, <2>2
<1>5. ASSUME NEW p \in Kept, p < e + m PROVE p <= e
  <2>1. p \in 0..Len(text) - 1
    BY KeptIs
  <2>2. ~ (e < p /\ p < e + m)
    BY <2>1, KeptIs
  <2> HIDE DEF e, m
  <2> QED
    BY <1>1, <1>5, <2>1, <2>2
<1>6. e < e + m
  <2> HIDE DEF e, m
  <2> QED
    BY <1>1
<1> QED
  BY <1>2, <1>4, <1>5, <1>6

\* LengthsKnown preserves the invariant.
LEMMA LengthsKnownStays ==
  ASSUME IInv, LengthsKnown
  PROVE  IInv'
<1> DEFINE cl == js.clocations
           L == Len(cl)
<1>0. /\ pc = "lengths" /\ i > L /\ pc' = "generate" /\ i' = 1
      /\ query' = query /\ text' = text /\ todo' = todo /\ walker' = walker
      /\ js' = js /\ norm' = norm
  BY DEF LengthsKnown
<1>1. /\ IsQuery(query)' /\ HasText' /\ pc' \in {"walk", "lengths", "generate", "done"}
  BY <1>0 DEF IInv, HasText
<1>2. WalkInv'
  BY <1>0 DEF WalkInv
<1>3. FoundInv'
  BY <1>0 DEF IInv, FoundInv
<1>4. L \in Nat /\ \A k \in 1..L : cl[k].location \in Nat
  BY <1>0, FoundIs DEF IInv
<1>5. i - 1 = L /\ Measured(text, cl, i - 1)
  <2>1. i \in 1..L + 1
    BY <1>0 DEF IInv, LengthsInv
  <2>2. i = L + 1
    BY <1>0, <1>4, <2>1
  <2>3. i - 1 = L
    BY <1>4, <2>2
  <2> QED
    BY <1>0, <2>3 DEF IInv, LengthsInv
<1>6. LengthsInv'
  BY <1>0, <1>5 DEF LengthsInv
<1>7. /\ norm = [query |-> <<>>, loc |-> 0, off |-> 0, len |-> 0]
  BY <1>0 DEF IInv, NormInv
<1>8. norm.query = <<>> /\ norm.loc = 0 /\ norm.off = 0 /\ norm.len = 0
      /\ Len(text) \in Nat
  BY <1>7, KeptIs DEF IInv
<1>9. norm \in [query : Seq(Int), loc : 0..Len(text), off : Nat, len : Nat]
  BY <1>7, <1>8
<1>a. NormInv'
  <2>1. \A k \in 1..L : ~ (k < 1) /\ 0 <= cl[k].location
    BY <1>4
  <2>2. 1 \in 1..L + 1 /\ 0 = 0 + 0
    BY <1>4
  <2> QED
    BY <1>0, <1>8, <1>9, <2>1, <2>2 DEF NormInv
<1>b. Kept' = Kept /\ Starts' = Starts
  BY <1>0 DEF Kept, Starts, Recordable, Measure
<1>c. CopiedTo(Kept, Starts, <<>>, 0)
  <2>1. Kept \in SUBSET (0..Len(text))
    BY KeptIs DEF IInv
  <2>2. {r \in Kept : r < 0} = {}
    <3>1. ASSUME NEW r \in Kept PROVE ~ (r < 0)
      <4>1. r \in Nat
        BY <1>8, <2>1
      <4> QED
        BY <4>1
    <3> QED
      BY <3>1
  <2>3. Below(Kept, 0) = 0 /\ \A p \in Kept : ~ (p < 0)
    BY <2>2, FS_EmptySet DEF Below
  <2>4. <<>> \in Seq(Int) /\ Len(<<>>) = 0
    OBVIOUS
  <2> QED
    BY <2>3, <2>4 DEF CopiedTo
<1>d. TextInv'
  BY <1>0, <1>8, <1>b, <1>c DEF TextInv
<1> QED
  BY <1>1, <1>2, <1>3, <1>6, <1>a, <1>d DEF IInv

\* CopyConstant preserves the invariant.
LEMMA CopyConstantStays ==
  ASSUME IInv, CopyConstant
  PROVE  IInv'
<1> DEFINE cl == js.clocations
           L == Len(cl)
           loc == cl[i].location
           m == cl[i].length
           len == loc - norm.off - norm.len
           v == -ParamId(cl[i].id)
           t == Joined(Joined(norm.query, Copied(norm.loc, len)), <<v>>)
           n == [query |-> t, loc |-> loc + m, off |-> loc, len |-> m]
<1>0. /\ pc = "generate" /\ i <= L /\ pc' = pc /\ i' = i + 1
      /\ query' = query /\ text' = text /\ todo' = todo /\ walker' = walker
      /\ js' = js
      /\ norm' = IF m < 0 THEN norm ELSE n
  BY DEF CopyConstant, Joined
<1>1. /\ IsQuery(query) /\ HasText /\ FoundInv /\ LengthsInv /\ NormInv /\ TextInv
  BY DEF IInv
<1>2. /\ IsQuery(query)' /\ HasText' /\ pc' \in {"walk", "lengths", "generate", "done"}
      /\ WalkInv' /\ FoundInv' /\ LengthsInv'
  BY <1>0, <1>1 DEF HasText, WalkInv, FoundInv, LengthsInv
<1>3. L \in Nat /\ InOrder(cl)
      /\ \A k \in 1..L : cl[k].location \in Nat /\ cl[k].length \in {-1, 1, 2} /\ cl[k].id \in Int
  BY <1>0, <1>1, FoundIs DEF FoundInv
<1>4. i \in 1..L /\ i \in Nat /\ i + 1 \in 1..L + 1
  BY <1>0, <1>1, <1>3, SMTT(40) DEF NormInv
<1>5. Measured(text, cl, L)
  BY <1>0, <1>1 DEF LengthsInv
<1>6. m = IF IsFirst(cl, i) THEN Measure(text, loc) ELSE -1
  BY <1>3, <1>4, <1>5 DEF Measured
<1>7. /\ Measure(text, loc) \in {1, 2} /\ loc + Measure(text, loc) <= Len(text)
      /\ Len(text) \in Nat /\ loc \in Nat
      /\ \A k \in 1..L : loc < cl[k].location => loc + Measure(text, loc) <= cl[k].location
  BY <1>0, <1>1, <1>4, RecordMeasure
<1>8. /\ norm \in [query : Seq(Int), loc : 0..Len(text), off : Nat, len : Nat]
      /\ norm.loc = norm.off + norm.len
      /\ \A k \in 1..L : IsFirst(cl, k) =>
           IF k < i THEN cl[k].location + Measure(text, cl[k].location) <= norm.loc
           ELSE norm.loc <= cl[k].location
  BY <1>0, <1>1 DEF NormInv
<1>9. Kept' = Kept /\ Starts' = Starts
  BY <1>0 DEF Kept, Starts, Recordable, Measure
<1> HIDE DEF cl, L
<1>a. CASE ~IsFirst(cl, i)
  <2>1. norm' = norm
    BY <1>0, <1>6, <1>a
  <2>2. ASSUME NEW k \in 1..L, IsFirst(cl, k)
        PROVE  IF k < i + 1 THEN cl[k].location + Measure(text, cl[k].location) <= norm.loc
               ELSE norm.loc <= cl[k].location
    <3>1. k # i
      BY <1>a, <2>2
    <3>2. k < i + 1 <=> k < i
      BY <1>3, <1>4, <3>1
    <3> QED
      BY <1>8, <2>2, <3>2
  <2>3. NormInv'
    BY <1>0, <1>4, <1>8, <2>1, <2>2 DEF NormInv, cl, L
  <2>4. TextInv'
    BY <1>0, <1>1, <1>9, <2>1 DEF TextInv
  <2> QED
    BY <1>2, <2>3, <2>4 DEF IInv
<1>b. CASE IsFirst(cl, i)
  <2>1. m = Measure(text, loc) /\ m \in {1, 2} /\ ~ (m < 0)
    BY <1>6, <1>7, <1>b
  <2>2. norm' = n
    BY <1>0, <2>1
  <2>3. norm.loc <= loc /\ norm.loc \in Nat
    <3>1. ~ (i < i)
      BY <1>4
    <3> QED
      BY <1>4, <1>7, <1>8, <1>b, <3>1
  <2>4. len = loc - norm.loc /\ len \in Nat /\ norm.loc + len = loc
    <3> DEFINE a == norm.off
               b == norm.len
               e == norm.loc
    <3>1. a \in Nat /\ b \in Nat /\ e = a + b
      BY <1>8
    <3>2. loc \in Nat /\ e <= loc /\ e \in Nat
      BY <1>7, <2>3
    <3>3. len = loc - a - b
      OBVIOUS
    <3> HIDE DEF loc, len, a, b, e
    <3>4. len = loc - e /\ len \in Nat /\ e + len = loc
      BY <3>1, <3>2, <3>3
    <3> QED
      BY <3>4 DEF e
  <2>5. v \in Int /\ v < 0
    <3>1. cl[i].id \in Int /\ js.extern \in Nat
      BY <1>0, <1>1, <1>3, <1>4, FoundIs
    <3>2. cl[i].id # 0
      BY <1>0, <1>1, <1>4 DEF FoundInv, Numbered, cl, L
    <3> DEFINE d == cl[i].id
    <3>3. d \in Int /\ d # 0
      BY <3>1, <3>2
    <3> HIDE DEF d
    <3>4. -ParamId(d) \in Int /\ -ParamId(d) < 0
      BY <3>1, <3>3 DEF ParamId
    <3> QED
      BY <3>4 DEF d
  <2>6. norm.query \in Seq(Int)
    BY <1>8
  <2> HIDE DEF v, len, m, loc
  <2>7. t \in Seq(Int)
    <3>1. Copied(norm.loc, len) \in Seq(Int)
      BY <2>3, <2>4, CopiedIs
    <3>2. Joined(norm.query, Copied(norm.loc, len)) \in Seq(Int)
      BY <2>6, <3>1, JoinedIs
    <3>3. <<v>> \in Seq(Int)
      BY <2>5
    <3> QED
      BY <3>2, <3>3, JoinedIs
  <2> HIDE DEF t
  <2>8. /\ n \in [query : Seq(Int), loc : 0..Len(text), off : Nat, len : Nat]
        /\ n.loc = n.off + n.len /\ n.query = t /\ n.loc = loc + m
    <3>1. loc + m \in 0..Len(text) /\ loc \in Nat /\ m \in Nat
      BY <1>7, <2>1
    <3> QED
      BY <2>7, <3>1
  <2>9. ASSUME NEW k \in 1..L, IsFirst(cl, k)
        PROVE  IF k < i + 1
               THEN cl[k].location + Measure(text, cl[k].location) <= loc + m
               ELSE loc + m <= cl[k].location
    <3>0. cl[k].location \in Nat /\ Measure(text, cl[k].location) \in Nat /\ cl[i].location = loc
      BY <1>3 DEF Measure, loc
    <3>1. CASE k < i
      <4>1. cl[k].location + Measure(text, cl[k].location) <= norm.loc
        BY <1>8, <2>9, <3>1
      <4>2. k < i + 1
        BY <1>4, <3>1
      <4> DEFINE x == cl[k].location
                 y == Measure(text, cl[k].location)
      <4>3. x + y <= norm.loc /\ x \in Nat /\ y \in Nat
        BY <3>0, <4>1
      <4> HIDE DEF x, y
      <4>4. x + y <= loc + m
        BY <1>7, <2>1, <2>3, <4>3
      <4> QED
        BY <4>2, <4>4 DEF x, y
    <3>2. CASE k = i
      <4>1. k < i + 1 /\ loc + Measure(text, loc) <= loc + m
        BY <1>4, <1>7, <2>1, <3>2
      <4> QED
        BY <3>0, <3>2, <4>1
    <3>3. CASE i < k
      <4>1. ~ (k < i + 1) /\ i \in 1..k - 1
        BY <1>3, <1>4, <3>3
      <4>2. cl[i].location # cl[k].location /\ cl[i].location <= cl[k].location
        <5>1. cl[i].location # cl[k].location
          BY <2>9, <4>1 DEF IsFirst
        <5>2. cl[i].location <= cl[k].location
          BY <1>3, <1>4, <3>3 DEF InOrder, cl, L
        <5> QED
          BY <5>1, <5>2
      <4>3. loc < cl[k].location
        BY <1>7, <3>0, <4>2
      <4>4. loc + m <= cl[k].location
        BY <1>7, <2>1, <4>3
      <4> QED
        BY <4>1, <4>4
    <3>4. k < i \/ k = i \/ i < k
      BY <1>3, <1>4
    <3> QED
      BY <3>1, <3>2, <3>3, <3>4
  <2> HIDE DEF n
  <2>a. NormInv'
    BY <1>0, <1>4, <2>2, <2>8, <2>9 DEF NormInv, cl, L
  <2>b. CopiedTo(Kept, Starts, t, loc + m)
    <3> DEFINE s == Joined(norm.query, Copied(norm.loc, len))
    <3>1. CopiedTo(Kept, Starts, norm.query, norm.loc)
      BY <1>0, <1>1 DEF TextInv
    <3>2. loc \in 0..Len(text) /\ loc = js.clocations[i].location /\ i <= Len(js.clocations)
      <4>1. loc = js.clocations[i].location /\ i <= Len(js.clocations)
        BY <1>0 DEF loc, cl, L
      <4> QED
        BY <1>7, <4>1
    <3>3. /\ norm.loc..norm.loc + (loc - norm.loc) - 1 \in SUBSET Kept
          /\ \A p \in norm.loc..norm.loc + (loc - norm.loc) - 1 : p \notin Starts
      BY <1>0, <1>1, <2>3, <3>2, BlockIsKept
    <3>4. Kept \in SUBSET (0..Len(text))
      BY <1>1, KeptIs
    <3>5. CopiedTo(Kept, Starts, s, loc)
      <4>1. CopiedTo(Kept, Starts, s, norm.loc + len)
        BY <1>7, <2>3, <2>4, <3>1, <3>3, <3>4, CopiedBlock
      <4> QED
        BY <2>4, <4>1
    <3>6. PICK c, o : Counts(query, c, o) /\ loc = PlaceOf(query, c, o)
      BY <1>0, <1>1, <1>4 DEF FoundInv, HasRecords, loc, cl, L
    <3>7. loc \in Kept /\ loc \in Starts /\ loc < loc + m /\ \A p \in Kept : p < loc + m => p <= loc
      BY <1>1, <2>1, <3>6, ConstantIsKept
    <3>8. loc + m \in Nat
      BY <1>7, <2>1
    <3> HIDE DEF s
    <3>9. CopiedTo(Kept, Starts, Joined(s, <<v>>), loc + m)
      BY <1>7, <2>5, <3>4, <3>5, <3>7, <3>8, CopiedParam
    <3> QED
      BY <3>9 DEF t, s
  <2>c. TextInv'
    BY <1>0, <1>9, <2>2, <2>8, <2>b DEF TextInv
  <2> QED
    BY <1>2, <2>a, <2>c DEF IInv
<1> QED
  BY <1>a, <1>b

-----------------------------------------------------------------------------
\* CopyRest preserves the invariant.
LEMMA CopyRestStays ==
  ASSUME IInv, CopyRest
  PROVE  IInv'
<1> DEFINE cl == js.clocations
           L == Len(cl)
           len == Len(text) - norm.loc
           t == Joined(norm.query, Copied(norm.loc, len))
           n == [query |-> t, loc |-> norm.loc, off |-> norm.off, len |-> norm.len]
<1>1. /\ IsQuery(query) /\ HasText /\ FoundInv /\ LengthsInv /\ NormInv /\ TextInv
  BY DEF IInv
<1>2. Len(text) \in Nat /\ EndOf(text) = Len(text) /\ Kept \in SUBSET (0..Len(text))
  BY <1>1, KeptIs
<1>3. /\ pc = "generate" /\ i > L /\ pc' = "done" /\ i' = i
      /\ query' = query /\ text' = text /\ todo' = todo /\ walker' = walker
      /\ js' = js
      /\ norm' = [norm EXCEPT !.query = Joined(norm.query, Copied(norm.loc, len))]
  BY <1>2 DEF CopyRest, Joined
<1>4. /\ norm \in [query : Seq(Int), loc : 0..Len(text), off : Nat, len : Nat]
      /\ i \in 1..L + 1
  BY <1>1, <1>3 DEF NormInv
<1>5. /\ L \in Nat
  BY <1>1, <1>3, FoundIs
<1>6. i = L + 1 /\ norm.loc \in 0..Len(text) /\ norm.loc \in Nat /\ norm.query \in Seq(Int)
  BY <1>2, <1>3, <1>4, <1>5
<1>7. norm' = n
  BY <1>3, <1>4
<1>8. len \in Nat /\ norm.loc + len = Len(text) /\ norm.loc <= Len(text)
      /\ Len(text) \in 0..Len(text)
  <2> DEFINE x == norm.loc
  <2>1. x \in 0..Len(text)
    BY <1>6
  <2> HIDE DEF x
  <2>2. Len(text) - x \in Nat /\ x + (Len(text) - x) = Len(text) /\ x <= Len(text)
        /\ Len(text) \in 0..Len(text)
    BY <1>2, <2>1
  <2> QED
    BY <2>2 DEF x
<1>9. Kept' = Kept /\ Starts' = Starts
  BY <1>3 DEF Kept, Starts, Recordable, Measure
<1>a. norm'.loc = norm.loc /\ norm'.query = t
  BY <1>7
<1>b. /\ IsQuery(query)' /\ HasText' /\ pc' \in {"walk", "lengths", "generate", "done"}
      /\ WalkInv' /\ FoundInv' /\ LengthsInv'
  BY <1>1, <1>3 DEF HasText, WalkInv, FoundInv, LengthsInv
<1>c. NormInv'
  BY <1>3, <1>6, <1>a DEF NormInv
<1>d. CopiedTo(Kept, Starts, t, Len(text))
  <2>1. CopiedTo(Kept, Starts, norm.query, norm.loc)
    BY <1>1, <1>3 DEF TextInv
  <2>2. /\ norm.loc..norm.loc + (Len(text) - norm.loc) - 1 \in SUBSET Kept
        /\ \A p \in norm.loc..norm.loc + (Len(text) - norm.loc) - 1 : p \notin Starts
    BY <1>1, <1>3, <1>8, BlockIsKept
  <2>3. CopiedTo(Kept, Starts, Joined(norm.query, Copied(norm.loc, len)), norm.loc + len)
    <3> DEFINE K == Kept
               S == Starts
    <3>1. norm.loc..norm.loc + len - 1 \in SUBSET K
      BY <2>2
    <3>2. \A p \in norm.loc..norm.loc + len - 1 : p \notin S
      BY <2>2
    <3> HIDE DEF len, K, S
    <3>3. CopiedTo(K, S, Joined(norm.query, Copied(norm.loc, len)), norm.loc + len)
      BY <1>2, <1>6, <1>8, <2>1, <3>1, <3>2, CopiedBlock DEF K, S
    <3> QED
      BY <3>3 DEF K, S
  <2> QED
    BY <1>8, <2>3
<1>e. TextInv'
  BY <1>3, <1>9, <1>a, <1>d DEF TextInv
<1> QED
  BY <1>b, <1>c, <1>e DEF IInv

\* Walk preserves the invariant.
LEMMA WalkStays ==
  ASSUME IInv, Walk
  PROVE  IInv'
<1>1. /\ pc = "walk" /\ pc' = pc /\ query' = query /\ text' = text /\ flex' = flex
      /\ i' = i /\ lastLoc' = lastLoc /\ norm' = norm
      /\ \/ \E c \in todo : SkipOrdinal(c) \/ BeginClause(c) \/ BeginTarget(c) \/ BeginGroup(c)
         \/ VisitOperand \/ VisitSelect
         \/ EndClause \/ EndTarget \/ EndGroup
  BY DEF Walk
<1>2. /\ IsQuery(query) /\ HasText /\ Core
      /\ flex = ScannerInit(text) /\ i = 1 /\ lastLoc = -1
      /\ norm = [query |-> <<>>, loc |-> 0, off |-> 0, len |-> 0]
  BY <1>1 DEF IInv, WalkInv, NormInv
<1>3. Core'
  BY <1>1, <1>2, CoreWalk
<1>4. WalkInv'
  BY <1>1, <1>2, <1>3 DEF WalkInv
<1>5. FoundInv' /\ LengthsInv' /\ NormInv' /\ TextInv'
  BY <1>1, <1>2 DEF FoundInv, LengthsInv, NormInv, TextInv
<1>6. IsQuery(query)' /\ HasText' /\ pc' \in {"walk", "lengths", "generate", "done"}
  BY <1>1, <1>2 DEF HasText
<1> QED
  BY <1>4, <1>5, <1>6 DEF IInv

\* SortConstants preserves the invariant.
LEMMA SortConstantsStays ==
  ASSUME IInv, SortConstants
  PROVE  IInv'
<1>1. /\ pc = "walk" /\ pc' = "lengths" /\ query' = query /\ text' = text /\ norm' = norm
  BY DEF SortConstants, Walked
<1>2. IsQuery(query) /\ HasText /\ WalkInv /\ NormInv
  BY DEF IInv
<1>3. FoundInv' /\ LengthsInv'
  BY <1>2, SortFinds
<1>4. NormInv' /\ TextInv' /\ WalkInv'
  BY <1>1, <1>2 DEF NormInv, TextInv, WalkInv
<1>5. IsQuery(query)' /\ HasText' /\ pc' \in {"walk", "lengths", "generate", "done"}
  BY <1>1, <1>2 DEF HasText
<1> QED
  BY <1>3, <1>4, <1>5 DEF IInv

\* FillInLength preserves the invariant.
LEMMA FillInLengthKeeps ==
  ASSUME IInv, FillInLength
  PROVE  IInv'
<1>1. /\ pc = "lengths" /\ pc' = pc /\ query' = query /\ text' = text /\ norm' = norm
  BY DEF FillInLength
<1>2. IsQuery(query) /\ HasText /\ FoundInv /\ LengthsInv /\ NormInv
  BY DEF IInv
<1>3. FoundInv' /\ LengthsInv'
  BY <1>2, FillInLengthStays
<1>4. NormInv' /\ TextInv' /\ WalkInv'
  BY <1>1, <1>2 DEF NormInv, TextInv, WalkInv
<1>5. IsQuery(query)' /\ HasText' /\ pc' \in {"walk", "lengths", "generate", "done"}
  BY <1>1, <1>2 DEF HasText
<1> QED
  BY <1>3, <1>4, <1>5 DEF IInv

\* A stuttering step preserves the invariant.
LEMMA VarsStay ==
  ASSUME IInv, UNCHANGED vars
  PROVE  IInv'
<1> USE DEF vars
<1>1. /\ query' = query /\ text' = text /\ pc' = pc /\ todo' = todo /\ walker' = walker
      /\ js' = js /\ targets' = targets /\ group' = group /\ flex' = flex /\ i' = i
      /\ lastLoc' = lastLoc /\ norm' = norm
  OBVIOUS
<1>2. InGroupBy' = InGroupBy
  BY <1>1 DEF InGroupBy
<1>3. Old' = Old
  BY <1>1, <1>2 DEF Old
<1>4. Base' = Base
  BY <1>1, <1>3 DEF Base
<1>5. WalkerInv' = WalkerInv
  BY <1>1 DEF WalkerInv, ComesBefore
<1>6. JsInv' = JsInv /\ RecordsInv' = RecordsInv /\ NumbersInv' = NumbersInv
  BY <1>1, <1>3, <1>4 DEF JsInv, RecordsInv, NumbersInv, Target
<1>7. RefsInv' = RefsInv
  BY <1>1, <1>2, <1>4 DEF RefsInv, TargetRefs, GroupRefs, JsRefs, KnownRefs
<1>8. WalkInv'
  BY <1>1, <1>5, <1>6, <1>7 DEF IInv, WalkInv, Core
<1>9. FoundInv' /\ LengthsInv' /\ NormInv'
  BY <1>1 DEF IInv, FoundInv, LengthsInv, NormInv
<1>a. Kept' = Kept /\ Starts' = Starts
  BY <1>1 DEF Kept, Starts, Recordable, Measure
<1>b. TextInv'
  BY <1>1, <1>a DEF IInv, TextInv
<1> QED
  BY <1>1, <1>8, <1>9, <1>b DEF IInv, HasText

-----------------------------------------------------------------------------
\* The walk begins with its invariant.
LEMMA CoreInit ==
  ASSUME Init
  PROVE  Core
<1>1. /\ query \in Queries /\ todo = 1..Len(query) /\ walker = Between
      /\ js = [clocations |-> <<>>, highest |-> 1, extern |-> 0, refs |-> Null]
      /\ targets = <<>> /\ group = [matched |-> Null, count |-> 0]
  BY DEF Init
<1>2. IsQuery(query)
  BY <1>1, QueriesAssumption
<1>3. Len(query) \in Nat
  BY <1>2, QueryIs
<1>4. /\ walker.clause = 0 /\ walker.operand = 1 /\ walker.column = 1
      /\ walker = [clause |-> 0, operand |-> 1, column |-> 1]
  BY <1>1 DEF Between
<1>5. /\ js.clocations = <<>> /\ js.highest = 1 /\ js.extern = 0 /\ js.refs = Null
      /\ group.matched = Null /\ group.count = 0
  BY <1>1
<1>6. Len(js.clocations) = 0 /\ Len(targets) = 0
  BY <1>1, <1>5
<1>7. WalkerInv
  <2>1. todo \in SUBSET (1..Len(query))
    BY <1>1
  <2>2. walker \in [clause : 0..Len(query), operand : Nat \ {0}, column : {1, 2}]
    BY <1>3, <1>4
  <2> QED
    BY <1>1, <1>4, <2>1, <2>2 DEF WalkerInv
<1>8. JsInv
  <2>1. <<>> \in Seq(Record) /\ <<>> \in Seq(Target)
    OBVIOUS
  <2> QED
    BY <1>1, <2>1 DEF JsInv
<1>9. ~InGroupBy /\ Old = 0 /\ Base = 1
  BY <1>4, <1>5, <1>6 DEF InGroupBy, Old, Base
<1>a. RecordsInv
  BY <1>1, <1>6 DEF RecordsInv, HasRecords, Seen, Counts
<1>b. NumbersInv
  BY <1>6, <1>9 DEF NumbersInv, Numbered, ItemNumbered
<1>c. RefsInv
  BY <1>5, <1>6, <1>9 DEF RefsInv, TargetRefs, GroupRefs, JsRefs
<1> QED
  BY <1>7, <1>8, <1>a, <1>b, <1>c DEF Core

\* The initial states satisfy the invariant.
LEMMA IInvInit ==
  ASSUME Init
  PROVE  IInv
<1>1. Core
  BY CoreInit
<1>2. /\ pc = "walk" /\ text = TextOf(query) /\ flex = ScannerInit(text) /\ i = 1 /\ lastLoc = -1
      /\ norm = [query |-> <<>>, loc |-> 0, off |-> 0, len |-> 0] /\ query \in Queries
  BY DEF Init
<1>3. IsQuery(query)
  BY <1>2, QueriesAssumption
<1> QED
  BY <1>1, <1>2, <1>3 DEF IInv, HasText, WalkInv, FoundInv, LengthsInv, NormInv, TextInv

\* Every step preserves the invariant.
LEMMA NextStays ==
  ASSUME IInv, [Next]_vars
  PROVE  IInv'
<1>1. CASE Walk
  BY <1>1, WalkStays
<1>2. CASE SortConstants
  BY <1>2, SortConstantsStays
<1>3. CASE FillInLength
  BY <1>3, FillInLengthKeeps
<1>4. CASE LengthsKnown
  BY <1>4, LengthsKnownStays
<1>5. CASE CopyConstant
  BY <1>5, CopyConstantStays
<1>6. CASE CopyRest
  BY <1>6, CopyRestStays
<1>7. CASE Done \/ UNCHANGED vars
  BY <1>7, VarsStay DEF Done
<1> QED
  BY <1>1, <1>2, <1>3, <1>4, <1>5, <1>6, <1>7 DEF Next

\* The types of the variables in the walk and after it.
LEMMA TypesAre ==
  ASSUME IInv
  PROVE  TypeOK
<1> DEFINE cl == js.clocations
           L == Len(cl)
<1>1. /\ IsQuery(query) /\ HasText /\ pc \in {"walk", "lengths", "generate", "done"}
      /\ WalkInv /\ FoundInv /\ LengthsInv /\ NormInv
  BY DEF IInv
<1>2. Len(text) \in Nat /\ EndOf(text) = Len(text)
  BY <1>1, KeptIs
<1>3. CASE pc = "walk"
  <2>1. Core /\ i = 1 /\ norm = [query |-> <<>>, loc |-> 0, off |-> 0, len |-> 0]
    BY <1>1, <1>3 DEF WalkInv, NormInv
  <2>2. JsInv /\ NumbersInv
    BY <2>1 DEF Core
  <2>3. L \in Nat /\ js.highest \in Nat /\ js.extern \in 0..2 /\ \A k \in 1..L : cl[k].id \in Int
    BY <2>2, JsIs
  <2>4. /\ Old \in 0..L /\ Base \in 1..Old + 1
        /\ \A k \in 1..Old : cl[k].id # 0 /\ 1 - Base <= cl[k].id /\ cl[k].id <= js.extern
        /\ \A k \in Old + 1..L : cl[k].id = -(Base + k - Old - 1)
    BY <2>2 DEF NumbersInv, Numbered, ItemNumbered
  <2>5. js.highest = Base + (L - Old) /\ Base \in Nat /\ Old \in Nat
    BY <2>3, <2>4 DEF Base
  <2> DEFINE o == Old
             b == Base
             x == js.extern
  <2>6. o \in 0..L /\ b \in 1..o + 1 /\ x \in 0..2 /\ o \in Nat /\ b \in Nat
    BY <2>3, <2>4, <2>5
  <2> HIDE DEF o, b, x, L
  <2>7. b + (L - o) \in 1..L + 1
    BY <2>3, <2>6
  <2>8. ASSUME NEW d \in Int, d # 0, 1 - b <= d, d <= x PROVE d \in -L..2 \ {0}
    BY <2>3, <2>6, <2>8
  <2>9. ASSUME NEW k \in o + 1..L PROVE -(b + k - o - 1) \in -L..2 \ {0}
    BY <2>3, <2>6, <2>9
  <2>a. ASSUME NEW k \in 1..L PROVE cl[k].id \in -L..2 \ {0}
    <3>1. CASE k \in 1..o
      BY <2>3, <2>4, <2>8, <3>1 DEF b, o, x, L
    <3>2. CASE k \in o + 1..L
      BY <2>4, <2>9, <3>2 DEF b, o, L
    <3>3. k \in 1..o \/ k \in o + 1..L
      BY <2>3, <2>6
    <3> QED
      BY <3>1, <3>2, <3>3
  <2>b. 1 \in 1..L + 1 /\ norm.loc = 0 /\ 0 \in 0..Len(text)
    BY <1>2, <2>1, <2>3
  <2> QED
    BY <1>1, <1>2, <2>1, <2>3, <2>5, <2>7, <2>a, <2>b DEF TypeOK, b, o, L
<1>4. CASE pc # "walk"
  <2>1. /\ L \in Nat /\ js.highest \in Nat \ {0} /\ js.extern \in 0..2
        /\ \A k \in 1..L : cl[k].id \in Int
    BY <1>1, <1>4, FoundIs
  <2>2. /\ js.highest <= L + 1
        /\ \A k \in 1..L : cl[k].id # 0 /\ 1 - js.highest <= cl[k].id /\ cl[k].id <= js.extern
    BY <1>1, <1>4 DEF FoundInv, Numbered
  <2>3. i \in 1..L + 1
    <3>1. L + 1 \in 1..L + 1
      BY <2>1
    <3> QED
      BY <1>1, <1>4, <3>1 DEF LengthsInv, NormInv
  <2>4. norm.loc \in 0..Len(text)
    <3>1. CASE pc = "lengths"
      <4>1. norm.loc = 0
        BY <1>1, <3>1 DEF NormInv
      <4> QED
        BY <1>2, <4>1
    <3>2. CASE pc \in {"generate", "done"}
      BY <1>1, <3>2 DEF NormInv
    <3> QED
      BY <1>1, <1>4, <3>1, <3>2
  <2> DEFINE h == js.highest
             x == js.extern
  <2>5. h \in Nat \ {0} /\ h <= L + 1 /\ x \in 0..2
    BY <2>1, <2>2
  <2> HIDE DEF h, x, L
  <2>6. h \in 1..L + 1
    BY <2>1, <2>5
  <2>7. ASSUME NEW d \in Int, d # 0, 1 - h <= d, d <= x PROVE d \in -L..2 \ {0}
    BY <2>1, <2>5, <2>7
  <2>8. \A k \in 1..L : cl[k].id \in -L..2 \ {0}
    BY <2>1, <2>2, <2>7 DEF h, x, L
  <2> QED
    BY <1>1, <1>2, <2>3, <2>4, <2>5, <2>6, <2>8 DEF TypeOK, h, x, L
<1> QED
  BY <1>3, <1>4

\* The copy is complete.
LEMMA TextIsCopied ==
  ASSUME IInv
  PROVE  ConstantsAreReplaced
<1> SUFFICES ASSUME pc = "done"
             PROVE  /\ Len(norm.query) = Cardinality(Kept)
                    /\ \A p \in Kept :
                         LET n == Cardinality({r \in Kept : r <= p})
                         IN  IF \E c \in Recordable : c.at = p THEN norm.query[n] < 0
                             ELSE norm.query[n] = p
  BY DEF ConstantsAreReplaced
<1>1. CopiedTo(Kept, Starts, norm.query, Len(text))
  BY DEF IInv, TextInv
<1>2. \A p \in Kept : p < Len(text)
  BY KeptIs DEF IInv
<1>3. {r \in Kept : r < Len(text)} = Kept
  BY <1>2
<1>4. Below(Kept, Len(text)) = Cardinality(Kept)
  BY <1>3 DEF Below
<1>5. \A p : p \in Starts <=> \E c \in Recordable : c.at = p
  BY DEF Starts
<1>6. ASSUME NEW p \in Kept
      PROVE  IF \E c \in Recordable : c.at = p
             THEN norm.query[Cardinality({r \in Kept : r <= p})] < 0
             ELSE norm.query[Cardinality({r \in Kept : r <= p})] = p
  BY <1>1, <1>2, <1>5 DEF CopiedTo, Upto
<1> QED
  BY <1>1, <1>4, <1>6 DEF CopiedTo

\* The walk, the scan and the copy keep their invariant, for any set of queries
\* (pg_query_normalize_ext from the first clause to the end of the copy).
THEOREM Invariant == Spec => []IInv
<1>1. Init => IInv
  BY IInvInit
<1>2. IInv /\ [Next]_vars => IInv'
  BY NextStays
<1> QED
  BY <1>1, <1>2, PTL DEF Spec

\* The normalized query is the text with every constant replaced by a param and
\* nothing else changed (generate_normalized_query, after a walk in another order).
THEOREM ReplacesConstants == Spec => []ConstantsAreReplaced
<1>1. IInv => ConstantsAreReplaced
  BY TextIsCopied
<1> QED
  BY <1>1, Invariant, PTL

\* Every variable has its type, constants outside GROUP BY get numbers nothing else
\* has, and what GROUP BY gives back is used again (RecordConstLocation and the
\* GROUP BY loop of const_record_walker).
THEOREM GivesFreshNumbers == Spec => []NumbersAreFresh
<1>1. IInv => NumbersAreFresh
  <2>1. ASSUME IInv PROVE TypeOK
    BY <2>1, TypesAre
  <2>2. ASSUME IInv, pc = "done"
        PROVE  LET own == {c \in Recordable : ~InGroup(c)}
                   fresh == {n \in {NumberOf(c) : c \in Recordable} : n > js.extern}
               IN  /\ \A c \in own : NumberOf(c) > js.extern
                   /\ \A c, d \in own : NumberOf(c) = NumberOf(d) => c = d
                   /\ HasDuplicates \/ \A n \in fresh : n - js.extern <= Cardinality(fresh)
    BY <2>2, FreshNumbers DEF IInv
  <2> QED
    BY <2>1, <2>2 DEF NumbersAreFresh
<1> QED
  BY <1>1, Invariant, PTL

\* A constant of GROUP BY shares its number only with one of a target that has the
\* same fingerprint, or of an item that does (param_refs of const_record_walker).
THEOREM SharesMatchingNumbers == Spec => []SharedNumbersMatch
<1>1. IInv => SharedNumbersMatch
  BY SharedNumbers DEF IInv
<1> QED
  BY <1>1, Invariant, PTL

-----------------------------------------------------------------------------
(***************************************************************************)
(* GROUP BY items written like a target                                    *)
(***************************************************************************)

\* How many constants the first k operands of clause c have.
Nth(q, c, k) == Cardinality({j \in 1..k : HasConstant(q[c].operands[j])})

\* refs has the numbers of the constants of the first k operands of clause c,
\* which are among the first n records.
Holds(q, cl, n, refs, c, k) ==
  /\ Len(refs) = Nth(q, c, k)
  /\ \A o \in 1..k : Counts(q, c, o) =>
       \E l \in 1..n : /\ cl[l].location = PlaceOf(q, c, o)
                       /\ cl[l].id = refs[Nth(q, c, o)]

\* Among the first n records those of clauses c and d have the same numbers.
Follows(q, cl, n, c, d) ==
  \A o : Counts(q, c, o) =>
    \E l, m \in 1..n : /\ cl[l].location = PlaceOf(q, c, o)
                       /\ cl[m].location = PlaceOf(q, d, o)
                       /\ cl[l].id = cl[m].id

\* The first n records of cl are there in cl2.
KeepsFirst(cl, cl2, n) ==
  \A l \in 1..n : cl2[l].location = cl[l].location /\ cl2[l].id = cl[l].id

\* Counting the constants of the first operands.
LEMMA NthIs ==
  ASSUME NEW q, NEW c
  PROVE  /\ Nth(q, c, 0) = 0
         /\ \A k \in Nat : Nth(q, c, k) \in Nat
         /\ \A k \in Nat \ {0} :
              IF HasConstant(q[c].operands[k])
              THEN Nth(q, c, k) = Nth(q, c, k - 1) + 1
              ELSE Nth(q, c, k) = Nth(q, c, k - 1)
         /\ \A j, k \in Nat : j <= k => Nth(q, c, j) <= Nth(q, c, k)
<1> DEFINE H(j) == HasConstant(q[c].operands[j])
           S(k) == {j \in 1..k : H(j)}
<1> HIDE DEF H
<1>1. \A k : Nth(q, c, k) = Cardinality(S(k))
  BY DEF Nth, H
<1>2. ASSUME NEW k \in Nat PROVE IsFiniteSet(S(k)) /\ Cardinality(S(k)) \in Nat
  <2>1. IsFiniteSet(1..k)
    BY FS_Interval
  <2>2. S(k) \in SUBSET (1..k)
    OBVIOUS
  <2>3. IsFiniteSet(S(k))
    BY <2>1, <2>2, FS_Subset
  <2> QED
    BY <2>3, FS_CardinalityType
<1>3. Cardinality(S(0)) = 0
  <2>1. S(0) = {}
    OBVIOUS
  <2> QED
    BY <2>1, FS_EmptySet
<1>4. ASSUME NEW k \in Nat \ {0}
      PROVE  IF H(k) THEN Cardinality(S(k)) = Cardinality(S(k - 1)) + 1
             ELSE Cardinality(S(k)) = Cardinality(S(k - 1))
  <2>1. k - 1 \in Nat /\ 1..k = (1..k - 1) \cup {k} /\ k \notin 1..k - 1
    OBVIOUS
  <2>2. CASE H(k)
    <3>1. S(k) = S(k - 1) \cup {k} /\ k \notin S(k - 1)
      BY <2>1, <2>2
    <3>2. IsFiniteSet(S(k - 1))
      BY <1>2, <2>1
    <3> HIDE DEF S
    <3>3. Cardinality(S(k - 1) \cup {k}) = Cardinality(S(k - 1)) + 1
      BY <3>1, <3>2, FS_AddElement
    <3> QED
      BY <2>2, <3>1, <3>3
  <2>3. CASE ~H(k)
    <3>1. S(k) = S(k - 1)
      BY <2>1, <2>3
    <3> QED
      BY <2>3, <3>1
  <2> QED
    BY <2>2, <2>3
<1>5. ASSUME NEW j \in Nat, NEW k \in Nat, j <= k PROVE Cardinality(S(j)) <= Cardinality(S(k))
  <2>1. S(j) \in SUBSET S(k)
    <3>1. 1..j \in SUBSET (1..k)
      BY <1>5
    <3> QED
      BY <3>1
  <2>2. IsFiniteSet(S(k))
    BY <1>2
  <2> HIDE DEF S
  <2> QED
    BY <2>1, <2>2, FS_Subset
<1> HIDE DEF S
<1> QED
  BY <1>1, <1>2, <1>3, <1>4, <1>5 DEF H

\* What the numbers of records are does not depend on what is recorded later.
LEMMA HoldsStays ==
  ASSUME NEW q, NEW cl, NEW cl2, NEW n \in Nat, NEW n2 \in Nat, n <= n2,
         KeepsFirst(cl, cl2, n), NEW refs, NEW c, NEW k, Holds(q, cl, n, refs, c, k)
  PROVE  Holds(q, cl2, n2, refs, c, k)
<1>1. ASSUME NEW o \in 1..k, Counts(q, c, o)
      PROVE  \E l \in 1..n2 : cl2[l].location = PlaceOf(q, c, o) /\ cl2[l].id = refs[Nth(q, c, o)]
  <2>1. PICK l \in 1..n : cl[l].location = PlaceOf(q, c, o) /\ cl[l].id = refs[Nth(q, c, o)]
    BY <1>1 DEF Holds
  <2>2. cl2[l].location = cl[l].location /\ cl2[l].id = cl[l].id /\ l \in 1..n2
    BY DEF KeepsFirst
  <2> QED
    BY <2>1, <2>2
<1> QED
  BY <1>1 DEF Holds

\* Nor does which numbers follow which.
LEMMA FollowsStays ==
  ASSUME NEW q, NEW cl, NEW cl2, NEW n \in Nat, NEW n2 \in Nat, n <= n2,
         KeepsFirst(cl, cl2, n), NEW c, NEW d, Follows(q, cl, n, c, d)
  PROVE  Follows(q, cl2, n2, c, d)
<1> SUFFICES ASSUME NEW o, Counts(q, c, o)
             PROVE  \E l, m \in 1..n2 : /\ cl2[l].location = PlaceOf(q, c, o)
                                        /\ cl2[m].location = PlaceOf(q, d, o)
                                        /\ cl2[l].id = cl2[m].id
  BY DEF Follows
<1>1. PICK l, m \in 1..n : /\ cl[l].location = PlaceOf(q, c, o)
                           /\ cl[m].location = PlaceOf(q, d, o)
                           /\ cl[l].id = cl[m].id
  BY DEF Follows
<1>2. l \in 1..n2 /\ m \in 1..n2
  OBVIOUS
<1> QED
  BY <1>1, <1>2 DEF KeepsFirst

-----------------------------------------------------------------------------
\* Clauses c and d are a target and an item that copies it.
Copies(c, d) == c \in GroupsAndTargets /\ d \in GroupsAndTargets /\ IsCopy(c, d)

\* What a target and its copy have in common, and nothing else has.
LEMMA CopiesAre ==
  ASSUME IsQuery(query), NEW c, NEW d, Copies(c, d)
  PROVE  /\ c \in 1..Len(query) /\ d \in 1..Len(query) /\ c < d /\ c # d
         /\ query[c].name = "target" /\ query[d].name = "group"
         /\ ~IsOrdinal(query[c]) /\ ~IsOrdinal(query[d])
         /\ query[c].operands = query[d].operands
         /\ \A o \in 1..Len(query[c].operands) :
              query[c].operands[o] \notin {"$1", "$2", "(select_5)"}
         /\ \A k : Nth(query, c, k) = Nth(query, d, k)
         /\ \A o : Counts(query, c, o) <=> Counts(query, d, o)
         /\ \A e \in 1..Len(query) :
              /\ query[e].name \in {"group", "target"} /\ ~IsOrdinal(query[e])
              /\ Fingerprint(query[e].operands) = Fingerprint(query[c].operands)
              => e = c \/ e = d
<1>1. /\ c \in 1..Len(query) /\ d \in 1..Len(query)
      /\ ~IsOrdinal(query[c]) /\ ~IsOrdinal(query[d])
  BY DEF Copies, GroupsAndTargets
<1>2. /\ query[c].name = "target" /\ query[d].name = "group"
      /\ query[c].operands = query[d].operands
      /\ Range(query[c].operands) \cap {"$1", "$2", "(select_5)"} = {}
      /\ \A e \in GroupsAndTargets \ {c, d} :
           Fingerprint(query[e].operands) # Fingerprint(query[c].operands)
  BY DEF Copies, IsCopy
<1>3. c < d
  BY <1>1, <1>2, QueryIs
<1>4. c # d
  BY <1>2
<1>5. ASSUME NEW o \in 1..Len(query[c].operands)
      PROVE  query[c].operands[o] \notin {"$1", "$2", "(select_5)"}
  <2>1. DOMAIN query[c].operands = 1..Len(query[c].operands)
    <3>1. query[c].operands \in Seq(Operands)
      BY <1>1, QueryIs
    <3> QED
      BY <3>1, LenProperties
  <2>2. query[c].operands[o] \in Range(query[c].operands)
    BY <2>1 DEF Range
  <2> QED
    BY <1>2, <2>2
<1>6. \A k : Nth(query, c, k) = Nth(query, d, k)
  BY <1>2 DEF Nth
<1>7. \A o : Counts(query, c, o) <=> Counts(query, d, o)
  BY <1>1, <1>2 DEF Counts
<1>8. ASSUME NEW e \in 1..Len(query), query[e].name \in {"group", "target"}, ~IsOrdinal(query[e]),
             Fingerprint(query[e].operands) = Fingerprint(query[c].operands)
      PROVE  e = c \/ e = d
  <2>1. e \in GroupsAndTargets
    BY <1>8 DEF GroupsAndTargets
  <2> QED
    BY <1>2, <1>8, <2>1
<1> QED
  BY <1>1, <1>2, <1>3, <1>4, <1>5, <1>6, <1>7, <1>8

-----------------------------------------------------------------------------
\* The target that an item copies is being walked, is in the list, is matched
\* by the item that is being walked; the item has been walked.
TargetIsWalked(c) ==
  walker.clause = c =>
    /\ js.refs # Null
    /\ Holds(query, js.clocations, Old, js.refs, c, walker.operand - 1)

TargetIsListed(c, d) ==
  c \notin todo /\ walker.clause # c /\ d \in todo =>
    /\ \E m \in 1..Len(targets) : targets[m].fp = Fingerprint(query[c].operands)
    /\ \A m \in 1..Len(targets) : targets[m].fp = Fingerprint(query[c].operands) =>
         Holds(query, js.clocations, Old, targets[m].refs, c, Len(query[c].operands))

ItemIsWalked(c, d) ==
  walker.clause = d =>
    /\ group.matched # Null
    /\ Holds(query, js.clocations, Old, group.matched, c, Len(query[c].operands))
    /\ Len(js.clocations) - group.count = Nth(query, d, walker.operand - 1)
    /\ \A o \in 1..walker.operand - 1 : Counts(query, d, o) =>
         js.clocations[group.count + Nth(query, d, o)].location = PlaceOf(query, d, o)

ItemFollows(c, d) ==
  d \notin todo /\ d # walker.clause => Follows(query, js.clocations, Old, c, d)

CopyInv(c, d) ==
  TargetIsWalked(c) /\ TargetIsListed(c, d) /\ ItemIsWalked(c, d) /\ ItemFollows(c, d)

CopiesInv == \A c, d : Copies(c, d) => CopyInv(c, d)

\* A target in the list is one that has been walked.
TargetsInv ==
  \A m \in 1..Len(targets) : \E e \in 1..Len(query) :
    /\ e \notin todo /\ e # walker.clause /\ query[e].name = "target"
    /\ targets[m].fp = Fingerprint(query[e].operands)

\* The records from before the item that is being walked stay as they are.
OldStay ==
  /\ Old \in Nat /\ Old' \in Nat /\ Old <= Old'
  /\ KeepsFirst(js.clocations, js'.clocations, Old)

\* How many records are from before the item being walked.
LEMMA OldIs ==
  ASSUME JsInv, NumbersInv
  PROVE  /\ Old \in Nat /\ Old <= Len(js.clocations) /\ Len(js.clocations) \in Nat
         /\ ~InGroupBy => Old = Len(js.clocations)
         /\ InGroupBy => Old = group.count
<1>1. Len(js.clocations) \in Nat /\ Old \in 0..Len(js.clocations)
  BY JsIs DEF NumbersInv
<1> QED
  BY <1>1 DEF Old

\* The records stay when an item ends.
LEMMA OldStaysSame ==
  ASSUME JsInv, NumbersInv, JsInv', NumbersInv',
         ~InGroupBy', SameRecords(js.clocations, js'.clocations, Old)
  PROVE  OldStay
<1>1. Old \in Nat /\ Old <= Len(js.clocations) /\ Len(js.clocations) \in Nat
  BY OldIs
<1>2. Old' = Len(js'.clocations)
  BY DEF Old
<1>3. Len(js'.clocations) = Len(js.clocations)
      /\ (\A k \in 1..Len(js.clocations) : js'.clocations[k].location = js.clocations[k].location)
      /\ \A k \in 1..Old : js'.clocations[k].id = js.clocations[k].id
  BY DEF SameRecords
<1>4. \A k \in 1..Old : k \in 1..Len(js.clocations)
  BY <1>1
<1> QED
  BY <1>1, <1>2, <1>3, <1>4 DEF OldStay, KeepsFirst

\* The records stay when an operand is visited.
LEMMA OldStaysVisit ==
  ASSUME JsInv, NumbersInv, JsInv', NumbersInv', group' = group, InGroupBy' <=> InGroupBy,
         KeepsRecords \/ AddsRecord
  PROVE  /\ OldStay
         /\ InGroupBy => Old' = Old
         /\ ~InGroupBy => Old' = Len(js'.clocations)
<1>1. Old \in Nat /\ Old <= Len(js.clocations) /\ Len(js.clocations) \in Nat
  BY OldIs
<1>2. /\ \A k \in 1..Len(js.clocations) : js'.clocations[k] = js.clocations[k]
      /\ Len(js'.clocations) = Len(js.clocations) \/ Len(js'.clocations) = Len(js.clocations) + 1
  BY DEF KeepsRecords, AddsRecord, Adds
<1>3. /\ InGroupBy => Old' = Old
      /\ ~InGroupBy => Old' = Len(js'.clocations) /\ Old = Len(js.clocations)
  BY DEF Old
<1>4. Old' \in Nat /\ Old <= Old'
  BY <1>1, <1>2, <1>3
<1>5. KeepsFirst(js.clocations, js'.clocations, Old)
  <2>1. \A k \in 1..Old : k \in 1..Len(js.clocations)
    BY <1>1
  <2> QED
    BY <1>2, <2>1 DEF KeepsFirst
<1> QED
  BY <1>1, <1>3, <1>4, <1>5 DEF OldStay

\* An item that comes keeps its target in the list: the same fingerprint is
\* nowhere else.
StillListed(fp) ==
  /\ (\E m \in 1..Len(targets) : targets[m].fp = fp)
       => \E m \in 1..Len(targets') : targets'[m].fp = fp
  /\ \A m \in 1..Len(targets') : targets'[m].fp = fp =>
       \E n \in 1..Len(targets) : targets[n].fp = fp /\ targets[n].refs = targets'[m].refs

\* A list of params still has the numbers of its target.
LEMMA HoldsStill ==
  ASSUME OldStay, query' = query, NEW refs, NEW c, NEW k,
         Holds(query, js.clocations, Old, refs, c, k)
  PROVE  Holds(query, js'.clocations, Old', refs, c, k)
BY HoldsStays DEF OldStay

\* An item that was walked still follows its target.
LEMMA FollowsStill ==
  ASSUME OldStay, query' = query, NEW c, NEW d, ItemFollows(c, d), d \notin todo, d # walker.clause
  PROVE  Follows(query, js'.clocations, Old', c, d)
BY FollowsStays DEF OldStay, ItemFollows

\* A target that was walked is still listed.
LEMMA ListedStill ==
  ASSUME OldStay, query' = query, NEW c, NEW d, TargetIsListed(c, d),
         c \notin todo, walker.clause # c, d \in todo,
         NEW fp, fp = Fingerprint(query[c].operands), StillListed(fp)
  PROVE  TargetIsListed(c, d)'
<1>1. \E m \in 1..Len(targets) : targets[m].fp = fp
  BY DEF TargetIsListed
<1>2. \E m \in 1..Len(targets') : targets'[m].fp = fp
  BY <1>1 DEF StillListed
<1>3. ASSUME NEW m \in 1..Len(targets'), targets'[m].fp = fp
      PROVE  Holds(query, js'.clocations, Old', targets'[m].refs, c, Len(query[c].operands))
  <2>1. PICK n \in 1..Len(targets) : targets[n].fp = fp /\ targets[n].refs = targets'[m].refs
    BY <1>3 DEF StillListed
  <2> DEFINE r == targets[n].refs
  <2>2. Holds(query, js.clocations, Old, r, c, Len(query[c].operands))
    BY <2>1 DEF TargetIsListed
  <2> HIDE DEF r
  <2>3. Holds(query, js'.clocations, Old', r, c, Len(query[c].operands))
    BY <2>2, HoldsStill
  <2> QED
    BY <2>1, <2>3 DEF r
<1> QED
  BY <1>2, <1>3 DEF TargetIsListed

\* A step elsewhere in the query.
LEMMA CopyStays ==
  ASSUME OldStay, query' = query, NEW c, NEW d, CopyInv(c, d),
         walker.clause # c, walker.clause # d, walker'.clause # c, walker'.clause # d,
         c \in todo' <=> c \in todo, d \in todo' <=> d \in todo,
         StillListed(Fingerprint(query[c].operands))
  PROVE  CopyInv(c, d)'
<1>1. TargetIsWalked(c)' /\ ItemIsWalked(c, d)'
  BY DEF TargetIsWalked, ItemIsWalked
<1>2. TargetIsListed(c, d)'
  <2>1. CASE c \notin todo /\ d \in todo
    BY <2>1, ListedStill DEF CopyInv
  <2>2. CASE ~ (c \notin todo /\ d \in todo)
    BY <2>2 DEF TargetIsListed
  <2> QED
    BY <2>1, <2>2
<1>3. ItemFollows(c, d)'
  <2>1. CASE d \notin todo
    BY <2>1, FollowsStill DEF ItemFollows, CopyInv
  <2>2. CASE d \in todo
    BY <2>2 DEF ItemFollows
  <2> QED
    BY <2>1, <2>2
<1> QED
  BY <1>1, <1>2, <1>3 DEF CopyInv

\* The list stays as it is.
LEMMA SameListed ==
  ASSUME targets' = targets, NEW fp
  PROVE  StillListed(fp)
BY DEF StillListed

-----------------------------------------------------------------------------
\* The steps of the target that is copied.
LEMMA CopyBeginTarget ==
  ASSUME IsQuery(query), Core, Core', query' = query, NEW c \in todo, BeginTarget(c),
         OldStay, NEW d, Copies(c, d), CopyInv(c, d)
  PROVE  CopyInv(c, d)'
<1>1. /\ c # d /\ d \in 1..Len(query) /\ c \in 1..Len(query) /\ Len(query) \in Nat
      /\ query[c].name = "target" /\ query[d].name = "group" /\ c < d
  BY CopiesAre, QueryIs
<1>2. Comes(c) /\ JsInv /\ WalkerInv
  BY StepsOfTheWalker DEF Core
<1>3. walker' = [clause |-> c, operand |-> 1, column |-> 1] /\ todo' = todo \ {c}
  BY <1>2, WalkerComes DEF Comes
<1>4. walker'.clause = c /\ walker'.operand = 1
  BY <1>3
<1>5. js'.refs = <<>> /\ js'.refs # Null
  <2>1. js'.refs = <<>>
    BY <1>2, BeginTargetDoes
  <2>2. <<>> \in Seq(Int)
    OBVIOUS
  <2> QED
    BY <2>1, <2>2, NullAssumption
<1>6. Holds(query, js'.clocations, Old', <<>>, c, 0)
  BY NthIs DEF Holds
<1>7. TargetIsWalked(c)'
  BY <1>4, <1>5, <1>6 DEF TargetIsWalked
<1>8. d \in todo
  <2>1. d \in todo \/ ComesBefore(d, c)
    BY <1>1, <1>2 DEF WalkerInv
  <2>2. ~ComesBefore(d, c)
    BY <1>1 DEF ComesBefore
  <2> QED
    BY <2>1, <2>2
<1>9. TargetIsListed(c, d)' /\ ItemIsWalked(c, d)' /\ ItemFollows(c, d)'
  BY <1>1, <1>3, <1>4, <1>8 DEF TargetIsListed, ItemIsWalked, ItemFollows
<1> QED
  BY <1>7, <1>9 DEF CopyInv

\* An operand of the copied target is visited.
LEMMA CopyVisitTarget ==
  ASSUME IsQuery(query), Core, Core', query' = query, VisitOperand,
         OldStay, NEW c, NEW d, Copies(c, d), CopyInv(c, d), walker.clause = c
  PROVE  CopyInv(c, d)'
<1> DEFINE o == walker.operand
           n == Len(js.clocations)
           refs == js.refs
<1>1. /\ c # d /\ query[c].name = "target"
      /\ query[c].operands[o] \notin {"$1", "$2", "(select_5)"} \/ o \notin 1..Len(query[c].operands)
  BY CopiesAre
<1>2. Visits /\ JsInv /\ WalkerInv /\ NumbersInv /\ AtOperand
  BY StepsOfTheWalker DEF Core, VisitOperand
<1>3. /\ walker'.clause = c /\ walker'.operand = o + 1 /\ todo' = todo
      /\ o \in 1..Len(query[c].operands)
  BY <1>2, WalkerVisits DEF Visits
<1>4. o \in Nat \ {0} /\ o - 1 \in Nat /\ (o + 1) - 1 = o
  BY <1>2, <1>3 DEF WalkerInv
<1>5. Operand = query[c].operands[o] /\ Operand \notin {"$1", "$2", "(select_5)"}
  BY <1>1, <1>3 DEF Operand, Clause
<1>6. HasConstant(Operand) <=> Counts(query, c, o)
  BY <1>2, PlaceCounts
<1>7. ~InGroupBy /\ ~InGroupBy'
  BY <1>1, <1>3 DEF InGroupBy
<1>8. Old = n /\ n \in Nat /\ Old' = Len(js'.clocations)
  BY <1>2, <1>7, OldIs DEF Old
<1>9. refs # Null /\ Holds(query, js.clocations, Old, refs, c, o - 1) /\ refs \in Seq(Int)
  BY <1>2, JsIs DEF CopyInv, TargetIsWalked
<1>a. TargetIsWalked(c)'
  <2>1. CASE ~HasConstant(Operand) /\ js' = js
    <3>1. Nth(query, c, o) = Nth(query, c, o - 1)
      BY <1>4, <1>5, <2>1, NthIs
    <3>2. Holds(query, js'.clocations, Old', refs, c, o - 1)
      BY <1>9, HoldsStill
    <3>3. ASSUME NEW k \in 1..o, Counts(query, c, k) PROVE k \in 1..o - 1
      BY <1>4, <1>6, <2>1, <3>3
    <3>4. Holds(query, js'.clocations, Old', refs, c, o)
      BY <3>1, <3>2, <3>3 DEF Holds
    <3> QED
      BY <1>3, <1>4, <1>9, <2>1, <3>4 DEF TargetIsWalked
  <2>2. CASE /\ HasConstant(Operand) /\ AddsRecord
             /\ js'.refs = IF js.refs = Null THEN Null ELSE Append(js.refs, -js.highest)
    <3> DEFINE s == Append(refs, -js.highest)
               N(k) == Nth(query, c, k)
    <3>0. -js.highest \in Int
      BY <1>2, JsIs
    <3>1. /\ js'.refs = s /\ s \in Seq(Int) /\ Len(refs) \in Nat /\ Len(s) = Len(refs) + 1
          /\ \A k \in 1..Len(refs) : s[k] = refs[k]
          /\ s[Len(refs) + 1] = -js.highest
      BY <1>9, <2>2, <3>0, AppendIs
    <3>2. N(o) = N(o - 1) + 1 /\ Len(refs) = N(o - 1) /\ N(o) = Len(s)
      BY <1>4, <1>5, <1>9, <2>2, <3>1, NthIs DEF Holds
    <3>3. s # Null
      BY <3>1, NullAssumption
    <3>4. Adds(js.clocations, js'.clocations, PlaceOf(query, c, o), -js.highest)
      BY <2>2 DEF AddsRecord, Place
    <3>5. Old' = n + 1 /\ n + 1 \in 1..Old'
          /\ js'.clocations[n + 1].location = PlaceOf(query, c, o)
          /\ js'.clocations[n + 1].id = -js.highest
      BY <1>8, <3>4 DEF Adds
    <3>6. Holds(query, js'.clocations, Old', refs, c, o - 1)
      BY <1>9, HoldsStill
    <3> HIDE DEF s, n, refs
    <3>7. ASSUME NEW k \in 1..o, Counts(query, c, k)
          PROVE  \E l \in 1..Old' : /\ js'.clocations[l].location = PlaceOf(query, c, k)
                                    /\ js'.clocations[l].id = s[N(k)]
      <4>1. CASE k = o
        BY <3>1, <3>2, <3>5, <4>1
      <4>2. CASE k # o
        <5>1. k \in 1..o - 1 /\ k \in Nat \ {0} /\ k - 1 \in Nat /\ k <= o - 1
          BY <1>4, <4>2
        <5>2. PICK l \in 1..Old' : /\ js'.clocations[l].location = PlaceOf(query, c, k)
                                   /\ js'.clocations[l].id = refs[N(k)]
          BY <3>6, <3>7, <5>1 DEF Holds
        <5>3. N(k) \in 1..N(o - 1)
          <6>1. HasConstant(query[c].operands[k])
            BY <3>7 DEF Counts
          <6>2. N(k) = N(k - 1) + 1 /\ N(k - 1) \in Nat /\ N(k) \in Nat /\ N(k) <= N(o - 1) /\ N(o - 1) \in Nat
            BY <1>4, <5>1, <6>1, NthIs
          <6> HIDE DEF N
          <6> QED
            BY <6>2
        <5>4. s[N(k)] = refs[N(k)]
          BY <3>1, <3>2, <5>3
        <5> QED
          BY <5>2, <5>4
      <4> QED
        BY <4>1, <4>2
    <3>8. Holds(query, js'.clocations, Old', s, c, o)
      BY <3>2, <3>7 DEF Holds
    <3> QED
      BY <1>3, <1>4, <3>1, <3>3, <3>8 DEF TargetIsWalked
  <2> QED
    BY <1>2, <1>5, <2>1, <2>2, VisitOperandDoes
<1>b. TargetIsListed(c, d)' /\ ItemIsWalked(c, d)'
  BY <1>1, <1>3 DEF TargetIsListed, ItemIsWalked
<1>c. ItemFollows(c, d)'
  <2>1. CASE d \notin todo
    BY <1>1, <1>3, <2>1, FollowsStill DEF ItemFollows, CopyInv
  <2>2. CASE d \in todo
    BY <1>3, <2>2 DEF ItemFollows
  <2> QED
    BY <2>1, <2>2
<1> QED
  BY <1>a, <1>b, <1>c DEF CopyInv

\* The copied target ends, and is listed.
LEMMA CopyEndTarget ==
  ASSUME IsQuery(query), Core, Core', query' = query, EndTarget, TargetsInv,
         OldStay, NEW c, NEW d, Copies(c, d), CopyInv(c, d), walker.clause = c
  PROVE  CopyInv(c, d)'
<1> DEFINE fp == Fingerprint(query[c].operands)
           L == Len(targets)
           refs == js.refs
           K == Len(query[c].operands)
<1>1. /\ c # d /\ query[c].name = "target" /\ query[d].name = "group"
      /\ c \in 1..Len(query) /\ d \in 1..Len(query) /\ K \in Nat /\ Len(query) \in Nat
      /\ \A e \in 1..Len(query) :
           /\ query[e].name \in {"group", "target"} /\ ~IsOrdinal(query[e])
           /\ Fingerprint(query[e].operands) = fp
           => e = c \/ e = d
  BY CopiesAre, QueryIs
<1>2. Ends /\ JsInv /\ WalkerInv /\ NumbersInv /\ AtEnd
  BY StepsOfTheWalker DEF Core, EndTarget
<1>3. walker' = Between /\ todo' = todo /\ walker'.clause = 0 /\ c # 0 /\ d # 0
  BY <1>1, <1>2 DEF EndTarget, Between
<1>4. walker.operand - 1 = K
  <2>1. walker.operand > K /\ walker.operand <= K + 1 /\ walker.operand \in Nat
    BY <1>2 DEF WalkerInv, AtEnd, Clause
  <2> QED
    BY <1>1, <2>1
<1>5. refs # Null /\ Holds(query, js.clocations, Old, refs, c, K)
  BY <1>4 DEF CopyInv, TargetIsWalked
<1>6. Holds(query, js'.clocations, Old', refs, c, K)
  BY <1>5, HoldsStill
<1> DEFINE t == [fp |-> fp, refs |-> refs]
<1>7. targets' = Append(targets, t) /\ t \in Target
  <2>1. Fingerprint(Clause.operands) = fp
    BY DEF Clause
  <2> QED
    BY <1>2, <1>5, <2>1, EndTargetDoes
<1>8. t.fp = fp /\ t.refs = refs
  OBVIOUS
<1> HIDE DEF t
<1>9. L \in Nat /\ Len(targets') = L + 1 /\ targets'[L + 1] = t
      /\ \A m \in 1..L : targets'[m] = targets[m]
  <2>1. targets \in Seq(Target)
    BY <1>2 DEF JsInv
  <2> QED
    BY <1>7, <2>1, AppendIs
<1>a. \A m \in 1..L : targets[m].fp # fp
  <2> SUFFICES ASSUME NEW m \in 1..L, targets[m].fp = fp PROVE FALSE
    OBVIOUS
  <2>1. PICK e \in 1..Len(query) : /\ e # c /\ query[e].name = "target"
                                   /\ Fingerprint(query[e].operands) = fp
    BY DEF TargetsInv
  <2>2. ~IsOrdinal(query[e])
    BY <2>1 DEF IsOrdinal
  <2>3. e = d
    BY <1>1, <2>1, <2>2
  <2> QED
    BY <1>1, <2>1, <2>3
<1> HIDE DEF L, fp, refs, K
<1>b. ASSUME NEW m \in 1..Len(targets'), targets'[m].fp = fp PROVE targets'[m].refs = refs
  <2>1. m \in 1..L \/ m = L + 1
    BY <1>9
  <2>2. m = L + 1
    BY <1>9, <1>a, <1>b, <2>1
  <2> QED
    BY <1>8, <1>9, <2>2
<1>c. TargetIsListed(c, d)'
  <2>1. L + 1 \in 1..Len(targets')
    BY <1>9
  <2>2. \E m \in 1..Len(targets') : targets'[m].fp = fp
    BY <1>8, <1>9, <2>1
  <2>3. \A m \in 1..Len(targets') : targets'[m].fp = fp =>
          Holds(query, js'.clocations, Old', targets'[m].refs, c, K)
    BY <1>6, <1>b
  <2> QED
    BY <2>2, <2>3 DEF TargetIsListed, fp, K
<1>d. TargetIsWalked(c)' /\ ItemIsWalked(c, d)'
  BY <1>3 DEF TargetIsWalked, ItemIsWalked
<1>e. ItemFollows(c, d)'
  <2>1. CASE d \notin todo
    BY <1>1, <1>3, <2>1, FollowsStill DEF ItemFollows, CopyInv
  <2>2. CASE d \in todo
    BY <1>3, <2>2 DEF ItemFollows
  <2> QED
    BY <2>1, <2>2
<1> QED
  BY <1>c, <1>d, <1>e DEF CopyInv

-----------------------------------------------------------------------------
\* The steps of the item that copies.
LEMMA CopyBeginGroup ==
  ASSUME IsQuery(query), Core, Core', query' = query, NEW d \in todo, BeginGroup(d),
         OldStay, NEW c, Copies(c, d), CopyInv(c, d)
  PROVE  CopyInv(c, d)'
<1> DEFINE fp == Fingerprint(query[c].operands)
           K == Len(query[c].operands)
<1>1. /\ c # d /\ d \in 1..Len(query) /\ c \in 1..Len(query) /\ Len(query) \in Nat
      /\ query[c].name = "target" /\ query[d].name = "group" /\ c < d
      /\ Fingerprint(query[d].operands) = fp
      /\ \A k : Nth(query, c, k) = Nth(query, d, k)
  BY CopiesAre, QueryIs
<1>2. Comes(d) /\ JsInv /\ WalkerInv /\ NumbersInv
  BY StepsOfTheWalker DEF Core
<1>3. walker' = [clause |-> d, operand |-> 1, column |-> 1] /\ todo' = todo \ {d}
      /\ walker.clause = 0
  BY <1>2, WalkerComes DEF Comes
<1>4. walker'.clause = d /\ walker'.operand = 1
  BY <1>3
<1>5. c \notin todo /\ walker.clause # c
  <2>1. CASE c \in todo
    <3>1. ComesBefore(d, c)
      BY <1>1, <1>2, <2>1 DEF Comes
    <3>2. ~ComesBefore(d, c)
      BY <1>1 DEF ComesBefore
    <3> QED
      BY <3>1, <3>2
  <2>2. c # 0
    BY <1>1
  <2> QED
    BY <1>3, <2>1, <2>2
<1>6. /\ \E m \in 1..Len(targets) : targets[m].fp = fp
      /\ \A m \in 1..Len(targets) : targets[m].fp = fp =>
           Holds(query, js.clocations, Old, targets[m].refs, c, K)
  BY <1>5 DEF CopyInv, TargetIsListed
<1>7. /\ js' = js /\ group'.count = Len(js.clocations)
      /\ \E m \in 1..Len(targets) :
           /\ targets[m].fp = fp /\ group'.matched = targets[m].refs
  BY <1>1, <1>2, <1>6, BeginGroupDoes
<1>8. PICK m \in 1..Len(targets) : targets[m].fp = fp /\ group'.matched = targets[m].refs
  BY <1>7
<1> DEFINE r == targets[m].refs
<1>9. r \in Seq(Int) /\ r # Null
  <2>1. targets[m] \in Target
    BY <1>2, ElementOfSeq DEF JsInv
  <2> QED
    BY <2>1, NullAssumption DEF Target
<1>a. Holds(query, js.clocations, Old, r, c, K)
  BY <1>6, <1>8
<1> HIDE DEF r
<1>b. Holds(query, js'.clocations, Old', r, c, K)
  BY <1>a, HoldsStill
<1>c. Len(js'.clocations) - group'.count = Nth(query, d, 0)
  <2>1. Len(js.clocations) \in Nat
    BY <1>2, JsIs
  <2>2. Nth(query, d, 0) = 0
    BY NthIs
  <2> QED
    BY <1>7, <2>1, <2>2
<1>d. ItemIsWalked(c, d)'
  BY <1>4, <1>8, <1>9, <1>b, <1>c DEF ItemIsWalked, r, K
<1>e. TargetIsWalked(c)' /\ TargetIsListed(c, d)' /\ ItemFollows(c, d)'
  BY <1>1, <1>3, <1>4 DEF TargetIsWalked, TargetIsListed, ItemFollows
<1> QED
  BY <1>d, <1>e DEF CopyInv

\* An operand of the copy is visited.
LEMMA CopyVisitItem ==
  ASSUME IsQuery(query), Core, Core', query' = query, VisitOperand,
         OldStay, Old' = Old, NEW c, NEW d, Copies(c, d), CopyInv(c, d), walker.clause = d
  PROVE  CopyInv(c, d)'
<1> DEFINE o == walker.operand
           n == Len(js.clocations)
           b == group.count
           N(k) == Nth(query, d, k)
<1>1. /\ c # d /\ query[d].name = "group"
      /\ query[d].operands[o] \notin {"$1", "$2", "(select_5)"} \/ o \notin 1..Len(query[d].operands)
  BY CopiesAre
<1>2. Visits /\ JsInv /\ WalkerInv /\ NumbersInv /\ AtOperand
  BY StepsOfTheWalker DEF Core, VisitOperand
<1>3. /\ walker'.clause = d /\ walker'.operand = o + 1 /\ todo' = todo
      /\ o \in 1..Len(query[d].operands)
  BY <1>2, WalkerVisits DEF Visits
<1>4. o \in Nat \ {0} /\ o - 1 \in Nat /\ (o + 1) - 1 = o
  BY <1>2, <1>3 DEF WalkerInv
<1>5. Operand = query[d].operands[o] /\ Operand \notin {"$1", "$2", "(select_5)"}
  BY <1>1, <1>3 DEF Operand, Clause
<1>6. HasConstant(Operand) <=> Counts(query, d, o)
  BY <1>2, PlaceCounts
<1>7. n \in Nat /\ b \in Nat /\ group' = group
  BY <1>2, JsIs, VisitOperandDoes
<1>8. /\ group.matched # Null
      /\ Holds(query, js.clocations, Old, group.matched, c, Len(query[c].operands))
      /\ n - b = N(o - 1)
      /\ \A k \in 1..o - 1 : Counts(query, d, k) =>
           js.clocations[b + N(k)].location = PlaceOf(query, d, k)
  BY DEF CopyInv, ItemIsWalked
<1>9. Holds(query, js'.clocations, Old', group.matched, c, Len(query[c].operands))
  BY <1>8, HoldsStill
<1>a. ASSUME NEW k \in 1..o - 1, Counts(query, d, k) PROVE b + N(k) \in 1..n
  <2>1. k \in Nat \ {0} /\ k - 1 \in Nat /\ k <= o - 1
    BY <1>4
  <2>2. HasConstant(query[d].operands[k])
    BY <1>a DEF Counts
  <2>3. N(k) = N(k - 1) + 1 /\ N(k - 1) \in Nat /\ N(k) \in Nat /\ N(k) <= N(o - 1) /\ N(o - 1) \in Nat
    BY <1>4, <2>1, <2>2, NthIs
  <2> HIDE DEF N, n, b
  <2> QED
    BY <1>7, <1>8, <2>3
<1>b. /\ Len(js'.clocations) - b = N(o)
      /\ \A k \in 1..o : Counts(query, d, k) =>
           js'.clocations[b + N(k)].location = PlaceOf(query, d, k)
  <2>1. CASE ~HasConstant(Operand) /\ js' = js
    <3>1. N(o) = N(o - 1)
      BY <1>4, <1>5, <2>1, NthIs
    <3>2. ASSUME NEW k \in 1..o, Counts(query, d, k) PROVE k \in 1..o - 1
      BY <1>4, <1>6, <2>1, <3>2
    <3> QED
      BY <1>8, <2>1, <3>1, <3>2
  <2>2. CASE HasConstant(Operand) /\ AddsRecord
    <3>1. N(o) = N(o - 1) + 1 /\ N(o - 1) \in Nat
      BY <1>4, <1>5, <2>2, NthIs
    <3>2. Adds(js.clocations, js'.clocations, PlaceOf(query, d, o), -js.highest)
      BY <2>2 DEF AddsRecord, Place
    <3>3. Len(js'.clocations) = n + 1
          /\ js'.clocations[n + 1].location = PlaceOf(query, d, o)
          /\ \A k \in 1..n : js'.clocations[k] = js.clocations[k]
      BY <3>2 DEF Adds
    <3> HIDE DEF N, n, b
    <3>4. Len(js'.clocations) - b = N(o) /\ b + N(o) = n + 1
      BY <1>7, <1>8, <3>1, <3>3
    <3>5. ASSUME NEW k \in 1..o, Counts(query, d, k)
          PROVE  js'.clocations[b + N(k)].location = PlaceOf(query, d, k)
      <4>1. CASE k = o
        BY <3>3, <3>4, <4>1
      <4>2. CASE k # o
        <5>1. k \in 1..o - 1
          BY <1>4, <4>2
        <5> QED
          BY <1>8, <1>a, <3>3, <3>5, <5>1
      <4> QED
        BY <4>1, <4>2
    <3> QED
      BY <3>4, <3>5
  <2> QED
    BY <1>2, <1>5, <2>1, <2>2, VisitOperandDoes
<1>c. ItemIsWalked(c, d)'
  BY <1>3, <1>4, <1>7, <1>8, <1>9, <1>b DEF ItemIsWalked
<1>d. TargetIsWalked(c)' /\ TargetIsListed(c, d)' /\ ItemFollows(c, d)'
  <2>1. d \notin todo
    BY <1>2 DEF WalkerInv, Visits
  <2> QED
    BY <1>1, <1>3, <2>1 DEF TargetIsWalked, TargetIsListed, ItemFollows
<1> QED
  BY <1>c, <1>d DEF CopyInv

\* The copy ends, and gets the numbers of its target.
LEMMA CopyEndGroup ==
  ASSUME IsQuery(query), Core, Core', query' = query, EndGroup,
         OldStay, NEW c, NEW d, Copies(c, d), CopyInv(c, d), walker.clause = d
  PROVE  CopyInv(c, d)'
<1> DEFINE n == Len(js.clocations)
           b == group.count
           r == group.matched
           N(k) == Nth(query, d, k)
           K == Len(query[d].operands)
<1>1. /\ c # d /\ query[d].name = "group" /\ K \in Nat /\ c \in 1..Len(query) /\ d \in 1..Len(query)
      /\ \A k : Nth(query, c, k) = N(k)
      /\ \A o : Counts(query, c, o) <=> Counts(query, d, o)
      /\ query[c].operands = query[d].operands /\ Len(query) \in Nat
  BY CopiesAre, QueryIs
<1>2. Ends /\ JsInv /\ WalkerInv /\ NumbersInv /\ AtEnd
  BY StepsOfTheWalker DEF Core, EndGroup
<1>3. walker' = Between /\ todo' = todo /\ walker'.clause = 0 /\ c # 0 /\ d # 0
  BY <1>1, <1>2 DEF EndGroup, Between
<1>4. walker.operand - 1 = K
  <2>1. walker.operand > K /\ walker.operand <= K + 1 /\ walker.operand \in Nat
    BY <1>2 DEF WalkerInv, AtEnd, Clause
  <2> QED
    BY <1>1, <2>1
<1>5. InGroupBy /\ d \notin todo /\ ~InGroupBy'
  BY <1>1, <1>2, <1>3 DEF InGroupBy, WalkerInv
<1>6. Old = b /\ b \in Nat /\ n \in Nat /\ b <= n /\ Old' = Len(js'.clocations)
  <2>1. Old = b /\ Old <= n /\ n \in Nat /\ Old \in Nat
    BY <1>2, <1>5, OldIs
  <2>2. Old' = Len(js'.clocations)
    BY <1>5 DEF Old
  <2> QED
    BY <2>1, <2>2
<1>7. /\ r # Null
      /\ Holds(query, js.clocations, Old, r, c, K)
      /\ n - b = N(K)
      /\ \A k \in 1..K : Counts(query, d, k) =>
           js.clocations[b + N(k)].location = PlaceOf(query, d, k)
  BY <1>1, <1>4 DEF CopyInv, ItemIsWalked
<1>8. Matches
  <2>1. Len(r) = N(K)
    BY <1>1, <1>7 DEF Holds
  <2> QED
    BY <1>7, <2>1 DEF Matches
<1>9. GivesParams
  BY <1>2, <1>5, <1>8, EndGroupDoes
<1>a. /\ Len(js'.clocations) = n
      /\ \A k \in 1..n : js'.clocations[k].location = js.clocations[k].location
      /\ \A k \in b + 1..n : js'.clocations[k].id = r[k - b]
  BY <1>9 DEF GivesParams, SameRecords
<1>b. Holds(query, js'.clocations, b, r, c, K)
  <2>1. KeepsFirst(js.clocations, js'.clocations, b) /\ Old = b /\ b \in Nat /\ b <= b
    BY <1>6 DEF OldStay
  <2> HIDE DEF b, r
  <2> QED
    BY <1>7, <2>1, HoldsStays
<1>c. Follows(query, js'.clocations, Old', c, d)
  <2> SUFFICES ASSUME NEW o, Counts(query, c, o)
               PROVE  \E l, m \in 1..Old' :
                        /\ js'.clocations[l].location = PlaceOf(query, c, o)
                        /\ js'.clocations[m].location = PlaceOf(query, d, o)
                        /\ js'.clocations[l].id = js'.clocations[m].id
    BY DEF Follows
  <2>1. Counts(query, d, o) /\ o \in 1..K /\ HasConstant(query[d].operands[o])
    BY <1>1 DEF Counts
  <2>2. PICK l \in 1..b : /\ js'.clocations[l].location = PlaceOf(query, c, o)
                          /\ js'.clocations[l].id = r[N(o)]
    BY <1>1, <1>b, <2>1 DEF Holds
  <2>3. N(o) \in 1..N(K) /\ N(K) \in Nat /\ N(o) \in Nat \ {0}
    <3>1. o \in Nat \ {0} /\ o - 1 \in Nat /\ o <= K /\ o \in Nat
      BY <1>1, <2>1
    <3>2. N(o) = N(o - 1) + 1 /\ N(o - 1) \in Nat /\ N(o) \in Nat /\ N(o) <= N(K) /\ N(K) \in Nat
      BY <1>1, <2>1, <3>1, NthIs
    <3> HIDE DEF N, K
    <3> QED
      BY <3>2
  <2> DEFINE x == N(o)
  <2>4. x \in 1..n - b /\ js.clocations[b + x].location = PlaceOf(query, d, o)
        /\ js'.clocations[l].id = r[x]
    BY <1>7, <2>1, <2>2, <2>3
  <2> HIDE DEF x, N, b, n, r, K
  <2>5. b + x \in 1..n /\ b + x \in b + 1..n /\ (b + x) - b = x /\ l \in 1..n
    BY <1>6, <2>4
  <2>6. js'.clocations[b + x].location = PlaceOf(query, d, o) /\ js'.clocations[b + x].id = r[x]
    BY <1>a, <2>4, <2>5
  <2>7. Old' = n
    BY <1>6, <1>a
  <2> QED
    BY <2>2, <2>4, <2>5, <2>6, <2>7
<1>d. ItemFollows(c, d)'
  BY <1>c DEF ItemFollows
<1>e. TargetIsWalked(c)' /\ TargetIsListed(c, d)' /\ ItemIsWalked(c, d)'
  BY <1>3, <1>5 DEF TargetIsWalked, TargetIsListed, ItemIsWalked
<1> QED
  BY <1>d, <1>e DEF CopyInv

-----------------------------------------------------------------------------
\* The old records stay when a clause begins or is skipped.
LEMMA OldStaysSkip ==
  ASSUME IsQuery(query), Core, Core', query' = query, NEW a \in todo,
         SkipOrdinal(a) \/ BeginClause(a) \/ BeginTarget(a) \/ BeginGroup(a)
  PROVE  OldStay
<1> USE DEF Core
<1>1. CASE SkipOrdinal(a)
  <2>1. ~InGroupBy'
    BY <1>1, StepsOfTheWalker, GroupByIs
  <2>2. js' = js
    BY <1>1, BeginClauseDoes
  <2>3. SameRecords(js.clocations, js'.clocations, Old)
    BY <2>2 DEF SameRecords
  <2> QED
    BY <2>1, <2>3, OldStaysSame
<1>2. CASE BeginClause(a)
  <2>1. ~InGroupBy'
    BY <1>2, StepsOfTheWalker, GroupByIs DEF BeginClause
  <2>2. js' = js
    BY <1>2, BeginClauseDoes
  <2>3. SameRecords(js.clocations, js'.clocations, Old)
    BY <2>2 DEF SameRecords
  <2> QED
    BY <2>1, <2>3, OldStaysSame
<1>3. CASE BeginTarget(a)
  <2>1. ~InGroupBy'
    BY <1>3, StepsOfTheWalker, GroupByIs DEF BeginTarget
  <2>2. js'.clocations = js.clocations
    BY <1>3, BeginTargetDoes DEF KeepsRecords
  <2>3. SameRecords(js.clocations, js'.clocations, Old)
    BY <2>2 DEF SameRecords
  <2> QED
    BY <2>1, <2>3, OldStaysSame
<1>4. CASE BeginGroup(a)
  <2>1. Old' = Old /\ js' = js
    BY <1>4, CoreBeginGroup, BeginGroupDoes
  <2>2. Old \in Nat /\ Old <= Old
    BY OldIs
  <2> QED
    BY <2>1, <2>2 DEF OldStay, KeepsFirst
<1> QED
  BY <1>1, <1>2, <1>3, <1>4

\* The old records stay when a clause ends.
LEMMA OldStaysEnd ==
  ASSUME IsQuery(query), Core, Core', query' = query, EndClause \/ EndTarget \/ EndGroup
  PROVE  OldStay
<1> USE DEF Core
<1>1. ~InGroupBy' /\ (query[walker.clause].name = "group" <=> InGroupBy)
  BY StepsOfTheWalker, GroupByIs
<1>2. CASE EndClause \/ EndTarget
  <2>1. js'.clocations = js.clocations
    BY <1>2, EndClauseDoes, EndTargetDoes DEF KeepsRecords
  <2>2. SameRecords(js.clocations, js'.clocations, Old)
    BY <2>1 DEF SameRecords
  <2> QED
    BY <1>1, <2>2, OldStaysSame
<1>3. CASE EndGroup
  <2>1. InGroupBy
    BY <1>1, <1>3 DEF EndGroup, Clause
  <2>2. Old = group.count
    BY <2>1, OldIs
  <2>3. SameRecords(js.clocations, js'.clocations, Old)
    <3>1. CASE GivesParams
      BY <2>2, <3>1 DEF GivesParams
    <3>2. CASE js' = js
      BY <3>2 DEF SameRecords
    <3> QED
      BY <1>3, <2>1, <3>1, <3>2, EndGroupDoes
  <2> QED
    BY <1>1, <2>3, OldStaysSame
<1> QED
  BY <1>2, <1>3

\* The old records stay when an operand is visited, also a nested SELECT.
LEMMA OldStaysVisits ==
  ASSUME IsQuery(query), Core, Core', query' = query, VisitOperand \/ VisitSelect
  PROVE  /\ OldStay
         /\ InGroupBy => Old' = Old
<1> USE DEF Core
<1>1. InGroupBy' <=> InGroupBy
  BY StepsOfTheWalker, GroupByIs
<1>2. group' = group
  BY VisitOperandDoes, VisitSelectDoes
<1>3. KeepsRecords \/ AddsRecord
  <2>1. js' = js => KeepsRecords
    BY JsIs DEF KeepsRecords
  <2> QED
    BY <2>1, VisitOperandDoes, VisitSelectDoes
<1> QED
  BY <1>1, <1>2, <1>3, OldStaysVisit

-----------------------------------------------------------------------------
\* Listed targets stay targets that have been walked.
LEMMA TargetsStay ==
  ASSUME TargetsInv, query' = query,
         \A e \in 1..Len(query) :
           e \notin todo /\ e # walker.clause => e \notin todo' /\ e # walker'.clause,
         \A m \in 1..Len(targets') :
           \/ \E n \in 1..Len(targets) : targets'[m] = targets[n]
           \/ \E e \in 1..Len(query) :
                /\ e \notin todo' /\ e # walker'.clause /\ query[e].name = "target"
                /\ targets'[m].fp = Fingerprint(query[e].operands)
  PROVE  TargetsInv'
<1> SUFFICES ASSUME NEW m \in 1..Len(targets')
             PROVE  \E e \in 1..Len(query) :
                      /\ e \notin todo' /\ e # walker'.clause /\ query[e].name = "target"
                      /\ targets'[m].fp = Fingerprint(query[e].operands)
  BY DEF TargetsInv
<1>1. ASSUME NEW n \in 1..Len(targets), targets'[m] = targets[n]
      PROVE  \E e \in 1..Len(query) :
               /\ e \notin todo' /\ e # walker'.clause /\ query[e].name = "target"
               /\ targets'[m].fp = Fingerprint(query[e].operands)
  <2>1. PICK e \in 1..Len(query) :
          /\ e \notin todo /\ e # walker.clause /\ query[e].name = "target"
          /\ targets[n].fp = Fingerprint(query[e].operands)
    BY DEF TargetsInv
  <2> QED
    BY <1>1, <2>1
<1> QED
  BY <1>1

\* The walk lists targets it has been through only.
LEMMA TargetsWalk ==
  ASSUME IsQuery(query), Core, Core', TargetsInv, query' = query,
         \/ \E a \in todo : SkipOrdinal(a) \/ BeginClause(a) \/ BeginTarget(a) \/ BeginGroup(a)
         \/ VisitOperand \/ VisitSelect
         \/ EndClause \/ EndTarget \/ EndGroup
  PROVE  TargetsInv'
<1> USE DEF Core
<1> DEFINE Stays == \A e \in 1..Len(query) :
                      e \notin todo /\ e # walker.clause => e \notin todo' /\ e # walker'.clause
           Same == targets' = targets
<1>1. ASSUME NEW a \in todo, Comes(a) \/ Skips(a) PROVE Stays
  <2>1. walker.clause = 0 /\ todo' = todo \ {a} /\ (walker' = walker \/ walker'.clause = a)
    BY <1>1, WalkerComes DEF Comes, Skips
  <2> QED
    BY <2>1
<1>2. ASSUME Visits PROVE Stays
  BY <1>2, WalkerVisits DEF Visits
<1>3. ASSUME Ends PROVE Stays
  <2>1. todo' = todo /\ (walker'.clause = 0 \/ walker'.clause = walker.clause)
    BY <1>3, WalkerEnds DEF Ends
  <2>2. \A e \in 1..Len(query) : e # 0
    BY QueryIs
  <2> QED
    BY <2>1, <2>2
<1>4. ASSUME Stays, Same PROVE TargetsInv'
  BY <1>4, TargetsStay
<1>5. ASSUME NEW a \in todo, SkipOrdinal(a) \/ BeginClause(a) \/ BeginTarget(a)
      PROVE  TargetsInv'
  <2>1. Stays
    BY <1>1, <1>5, StepsOfTheWalker
  <2>2. Same
    BY <1>5, BeginClauseDoes, BeginTargetDoes
  <2> QED
    BY <1>4, <2>1, <2>2
<1>6. ASSUME NEW a \in todo, BeginGroup(a) PROVE TargetsInv'
  <2>1. Stays
    BY <1>1, <1>6, StepsOfTheWalker
  <2>2. Same \/ \E k \in 1..Len(targets) : Removes(targets, targets', k)
    BY <1>6, BeginGroupDoes
  <2>3. CASE \E k \in 1..Len(targets) : Removes(targets, targets', k)
    <3>1. \A m \in 1..Len(targets') : \E n \in 1..Len(targets) : targets'[m] = targets[n]
      BY <2>3 DEF Removes
    <3> QED
      BY <2>1, <3>1, TargetsStay
  <2> QED
    BY <1>4, <2>1, <2>2, <2>3
<1>7. CASE VisitOperand \/ VisitSelect
  <2>1. Stays
    BY <1>2, <1>7, StepsOfTheWalker
  <2>2. Same
    BY <1>7, VisitOperandDoes, VisitSelectDoes
  <2> QED
    BY <1>4, <2>1, <2>2
<1>8. CASE EndClause \/ EndGroup
  <2>1. Stays
    BY <1>3, <1>8, StepsOfTheWalker
  <2>2. Same
    BY <1>8 DEF EndClause, EndGroup
  <2> QED
    BY <1>4, <2>1, <2>2
<1>9. CASE EndTarget
  <2>1. Stays /\ Ends
    BY <1>3, <1>9, StepsOfTheWalker
  <2>2. /\ walker'.clause = 0 /\ todo' = todo /\ query[walker.clause].name = "target"
        /\ walker.clause \in 1..Len(query) /\ walker.clause \notin todo
        /\ Clause = query[walker.clause] /\ walker.clause # 0
    BY <1>9, <2>1, WalkerEnds DEF EndTarget, Between, Clause, WalkerInv, AtEnd
  <2> DEFINE t == [fp |-> Fingerprint(Clause.operands),
                   refs |-> IF js.refs = Null THEN <<>> ELSE js.refs]
             L == Len(targets)
  <2>3. targets' = Append(targets, t) /\ t \in Target
    BY <1>9, EndTargetDoes
  <2>4. t.fp = Fingerprint(query[walker.clause].operands)
    BY <2>2
  <2> HIDE DEF t
  <2>5. L \in Nat /\ Len(targets') = L + 1 /\ targets'[L + 1] = t
        /\ \A m \in 1..L : targets'[m] = targets[m]
    <3>1. targets \in Seq(Target)
      BY DEF JsInv
    <3> QED
      BY <2>3, <3>1, AppendIs
  <2>6. ASSUME NEW m \in 1..Len(targets')
        PROVE  \/ \E n \in 1..Len(targets) : targets'[m] = targets[n]
               \/ \E e \in 1..Len(query) :
                    /\ e \notin todo' /\ e # walker'.clause /\ query[e].name = "target"
                    /\ targets'[m].fp = Fingerprint(query[e].operands)
    <3>1. CASE m = L + 1
      BY <2>2, <2>4, <2>5, <3>1
    <3>2. CASE m # L + 1
      BY <2>5, <3>2
    <3> QED
      BY <3>1, <3>2
  <2> QED
    BY <2>1, <2>6, TargetsStay
<1> QED
  BY <1>5, <1>6, <1>7, <1>8, <1>9

-----------------------------------------------------------------------------
\* The list of the targets in the steps of other targets and items.
LEMMA ListedAdds ==
  ASSUME NEW t, t \in Target, targets \in Seq(Target), targets' = Append(targets, t),
         NEW fp, t.fp # fp
  PROVE  StillListed(fp)
<1> DEFINE L == Len(targets)
<1>1. L \in Nat /\ Len(targets') = L + 1 /\ targets'[L + 1] = t
      /\ \A m \in 1..L : targets'[m] = targets[m]
  BY AppendIs
<1>2. \A m \in 1..L : m \in 1..Len(targets')
  BY <1>1
<1>3. ASSUME NEW m \in 1..Len(targets'), targets'[m].fp = fp PROVE m \in 1..L
  BY <1>1, <1>3
<1> QED
  BY <1>1, <1>2, <1>3 DEF StillListed

\* Another target is taken out of the list.
LEMMA ListedRemoves ==
  ASSUME NEW k, Removes(targets, targets', k), NEW fp, targets[k].fp # fp
  PROVE  StillListed(fp)
<1>1. ASSUME NEW m \in 1..Len(targets), targets[m].fp = fp
      PROVE  \E n \in 1..Len(targets') : targets'[n].fp = fp
  <2>1. m # k
    BY <1>1
  <2>2. PICK n \in 1..Len(targets') : targets'[n] = targets[m]
    BY <2>1 DEF Removes
  <2> QED
    BY <1>1, <2>2
<1>2. ASSUME NEW m \in 1..Len(targets'), targets'[m].fp = fp
      PROVE  \E n \in 1..Len(targets) : targets[n].fp = fp /\ targets[n].refs = targets'[m].refs
  <2>1. PICK n \in 1..Len(targets) : targets'[m] = targets[n]
    BY DEF Removes
  <2> QED
    BY <1>2, <2>1
<1> QED
  BY <1>1, <1>2 DEF StillListed

-----------------------------------------------------------------------------
\* The walker comes to a clause: the copied target, the copy or another one.
LEMMA CopiesComes ==
  ASSUME IsQuery(query), Core, Core', CopiesInv, query' = query, NEW a \in todo,
         SkipOrdinal(a) \/ BeginClause(a) \/ BeginTarget(a) \/ BeginGroup(a),
         NEW c, NEW d, Copies(c, d)
  PROVE  CopyInv(c, d)'
<1> USE DEF Core
<1> DEFINE fp == Fingerprint(query[c].operands)
<1>1. OldStay /\ CopyInv(c, d)
  BY OldStaysSkip DEF CopiesInv
<1>2. /\ c # d /\ c # 0 /\ d # 0 /\ a \in 1..Len(query)
      /\ query[c].name = "target" /\ query[d].name = "group"
      /\ ~IsOrdinal(query[c]) /\ ~IsOrdinal(query[d])
      /\ \A e \in 1..Len(query) :
           /\ query[e].name \in {"group", "target"} /\ ~IsOrdinal(query[e])
           /\ Fingerprint(query[e].operands) = fp
           => e = c \/ e = d
  <2>1. c # 0 /\ d # 0
    BY CopiesAre, QueryIs
  <2> QED
    BY <2>1, CopiesAre DEF WalkerInv
<1> HIDE DEF fp
<1>3. /\ walker.clause = 0 /\ todo' = todo \ {a}
      /\ walker'.clause = a \/ (IsOrdinal(query[a]) /\ walker'.clause = 0)
  <2>1. Comes(a) \/ Skips(a)
    BY StepsOfTheWalker
  <2>2. CASE Comes(a)
    BY <2>2, WalkerComes DEF Comes
  <2>3. CASE Skips(a)
    BY <2>3 DEF Skips
  <2> QED
    BY <2>1, <2>2, <2>3
<1>4. ASSUME a # c, a # d, StillListed(fp) PROVE CopyInv(c, d)'
  <2>1. /\ walker.clause # c /\ walker.clause # d /\ walker'.clause # c /\ walker'.clause # d
        /\ (c \in todo' <=> c \in todo) /\ (d \in todo' <=> d \in todo)
    BY <1>2, <1>3, <1>4
  <2> QED
    BY <1>1, <1>4, <2>1, CopyStays DEF fp
<1>5. CASE SkipOrdinal(a) \/ BeginClause(a)
  <2>1. a # c /\ a # d
    BY <1>2, <1>5 DEF SkipOrdinal, BeginClause
  <2>2. StillListed(fp)
    BY <1>5, BeginClauseDoes, SameListed
  <2> QED
    BY <1>4, <2>1, <2>2
<1>6. CASE BeginTarget(a)
  <2>1. CASE a = c
    BY <1>1, <1>6, <2>1, CopyBeginTarget
  <2>2. CASE a # c
    <3>1. a # d
      BY <1>2, <1>6 DEF BeginTarget
    <3>2. StillListed(fp)
      BY <1>6, BeginTargetDoes, SameListed
    <3> QED
      BY <1>4, <2>2, <3>1, <3>2
  <2> QED
    BY <2>1, <2>2
<1>7. CASE BeginGroup(a)
  <2>1. CASE a = d
    BY <1>1, <1>7, <2>1, CopyBeginGroup
  <2>2. CASE a # d
    <3>1. query[a].name = "group" /\ ~IsOrdinal(query[a])
      BY <1>7 DEF BeginGroup
    <3>2. a # c
      BY <1>2, <3>1
    <3>3. Fingerprint(query[a].operands) # fp
      BY <1>2, <2>2, <3>1, <3>2
    <3>4. StillListed(fp)
      <4>1. CASE targets' = targets
        BY <4>1, SameListed
      <4>2. CASE \E k \in 1..Len(targets) :
                   targets[k].fp = Fingerprint(query[a].operands) /\ Removes(targets, targets', k)
        BY <3>3, <4>2, ListedRemoves
      <4> QED
        BY <1>7, <4>1, <4>2, BeginGroupDoes
    <3> QED
      BY <1>4, <2>2, <3>2, <3>4
  <2> QED
    BY <2>1, <2>2
<1> QED
  BY <1>5, <1>6, <1>7

\* The walker visits an operand of any clause.
LEMMA CopiesVisits ==
  ASSUME IsQuery(query), Core, Core', CopiesInv, query' = query, VisitOperand \/ VisitSelect,
         NEW c, NEW d, Copies(c, d)
  PROVE  CopyInv(c, d)'
<1> USE DEF Core
<1>1. OldStay /\ CopyInv(c, d) /\ (InGroupBy => Old' = Old)
  BY OldStaysVisits DEF CopiesInv
<1>2. /\ Visits /\ AtOperand /\ walker'.clause = walker.clause /\ todo' = todo
      /\ walker.operand \in 1..Len(query[walker.clause].operands) /\ walker.clause # 0
  <2>1. Visits /\ AtOperand
    BY StepsOfTheWalker DEF VisitOperand, VisitSelect
  <2> QED
    BY <2>1, WalkerVisits DEF Visits
<1>3. /\ query[d].name = "group" /\ query[c].operands = query[d].operands
      /\ \A o \in 1..Len(query[c].operands) : query[c].operands[o] # "(select_5)"
  BY CopiesAre
<1>4. CASE walker.clause = c \/ walker.clause = d
  <2>1. ~VisitSelect
    BY <1>2, <1>3, <1>4 DEF VisitSelect, Operand, Clause
  <2>2. walker.clause = d => Old' = Old
    BY <1>1, <1>2, <1>3 DEF InGroupBy
  <2> QED
    BY <1>1, <1>4, <2>1, <2>2, CopyVisitTarget, CopyVisitItem
<1>5. CASE walker.clause # c /\ walker.clause # d
  <2>1. targets' = targets
    BY VisitOperandDoes, VisitSelectDoes
  <2>2. StillListed(Fingerprint(query[c].operands))
    BY <2>1, SameListed
  <2> QED
    BY <1>1, <1>2, <1>5, <2>2, CopyStays
<1> QED
  BY <1>4, <1>5

\* The walker leaves any clause.
LEMMA CopiesEnds ==
  ASSUME IsQuery(query), Core, Core', CopiesInv, TargetsInv, query' = query,
         EndClause \/ EndTarget \/ EndGroup,
         NEW c, NEW d, Copies(c, d)
  PROVE  CopyInv(c, d)'
<1> USE DEF Core
<1> DEFINE fp == Fingerprint(query[c].operands)
<1>1. OldStay /\ CopyInv(c, d)
  BY OldStaysEnd DEF CopiesInv
<1>2. /\ c # d /\ c # 0 /\ d # 0
      /\ query[c].name = "target" /\ query[d].name = "group"
      /\ \A e \in 1..Len(query) :
           /\ query[e].name \in {"group", "target"} /\ ~IsOrdinal(query[e])
           /\ Fingerprint(query[e].operands) = fp
           => e = c \/ e = d
  <2>1. c # 0 /\ d # 0
    BY CopiesAre, QueryIs
  <2> QED
    BY <2>1, CopiesAre
<1> HIDE DEF fp
<1>3. /\ walker'.clause = 0 \/ walker'.clause = walker.clause
      /\ walker.clause \in 1..Len(query) /\ Clause = query[walker.clause] /\ walker.clause # 0
      /\ ~IsOrdinal(query[walker.clause]) /\ todo' = todo
  <2>1. Ends
    BY StepsOfTheWalker
  <2>2. walker.clause # 0
    BY <2>1 DEF Ends
  <2> QED
    BY <2>1, <2>2, WalkerEnds DEF Ends, Clause, WalkerInv
<1>4. ASSUME walker.clause # c, walker.clause # d, StillListed(fp) PROVE CopyInv(c, d)'
  <2>1. walker'.clause # c /\ walker'.clause # d
    BY <1>2, <1>3, <1>4
  <2> QED
    BY <1>1, <1>3, <1>4, <2>1, CopyStays DEF fp
<1>5. CASE EndClause
  <2>1. walker.clause # c /\ walker.clause # d
    BY <1>2, <1>3, <1>5 DEF EndClause
  <2>2. StillListed(fp)
    BY <1>5, EndClauseDoes, SameListed
  <2> QED
    BY <1>4, <2>1, <2>2
<1>6. CASE EndTarget
  <2>1. CASE walker.clause = c
    BY <1>1, <1>6, <2>1, CopyEndTarget
  <2>2. CASE walker.clause # c
    <3>1. query[walker.clause].name = "target" /\ walker.clause # d
      BY <1>2, <1>3, <1>6 DEF EndTarget
    <3>2. Fingerprint(query[walker.clause].operands) # fp
      BY <1>2, <1>3, <2>2, <3>1
    <3> DEFINE t == [fp |-> Fingerprint(Clause.operands),
                     refs |-> IF js.refs = Null THEN <<>> ELSE js.refs]
    <3>3. targets' = Append(targets, t) /\ t \in Target
      BY <1>6, EndTargetDoes
    <3>4. t.fp # fp
      BY <1>3, <3>2
    <3>5. targets \in Seq(Target)
      BY DEF JsInv
    <3> HIDE DEF t
    <3>6. StillListed(fp)
      BY <3>3, <3>4, <3>5, ListedAdds
    <3> QED
      BY <1>4, <2>2, <3>1, <3>6
  <2> QED
    BY <2>1, <2>2
<1>7. CASE EndGroup
  <2>1. CASE walker.clause = d
    BY <1>1, <1>7, <2>1, CopyEndGroup
  <2>2. CASE walker.clause # d
    <3>1. walker.clause # c
      BY <1>2, <1>3, <1>7 DEF EndGroup
    <3>2. StillListed(fp)
      BY <1>7, SameListed DEF EndGroup
    <3> QED
      BY <1>4, <2>2, <3>1, <3>2
  <2> QED
    BY <2>1, <2>2
<1> QED
  BY <1>5, <1>6, <1>7

\* Which clauses are copies does not change.
LEMMA CopiesSame ==
  ASSUME query' = query, NEW c, NEW d
  PROVE  Copies(c, d)' <=> Copies(c, d)
BY DEF Copies, GroupsAndTargets, IsCopy

\* The walk preserves what is known of copies.
LEMMA CopiesWalk ==
  ASSUME IsQuery(query), Core, Core', CopiesInv, TargetsInv, query' = query,
         \/ \E a \in todo : SkipOrdinal(a) \/ BeginClause(a) \/ BeginTarget(a) \/ BeginGroup(a)
         \/ VisitOperand \/ VisitSelect
         \/ EndClause \/ EndTarget \/ EndGroup
  PROVE  CopiesInv'
<1>1. ASSUME NEW c, NEW d, Copies(c, d) PROVE CopyInv(c, d)'
  <2>1. ASSUME NEW a \in todo, SkipOrdinal(a) \/ BeginClause(a) \/ BeginTarget(a) \/ BeginGroup(a)
        PROVE  CopyInv(c, d)'
    BY <1>1, <2>1, CopiesComes
  <2>2. CASE VisitOperand \/ VisitSelect
    BY <1>1, <2>2, CopiesVisits
  <2>3. CASE EndClause \/ EndTarget \/ EndGroup
    BY <1>1, <2>3, CopiesEnds
  <2> QED
    BY <2>1, <2>2, <2>3
<1> QED
  BY <1>1, CopiesSame DEF CopiesInv

-----------------------------------------------------------------------------
\* After the walk the items have the numbers of their targets, whatever the
\* order of the records and their lengths.
CopiesFollow ==
  \A c, d : Copies(c, d) => Follows(query, js.clocations, Len(js.clocations), c, d)

\* The inductive invariant about copies of targets.
CInv ==
  /\ IInv
  /\ pc = "walk" => TargetsInv /\ CopiesInv
  /\ pc # "walk" => CopiesFollow

\* The initial states satisfy the invariant about copies.
LEMMA CInvInit ==
  ASSUME Init
  PROVE  CInv
<1>1. IInv
  BY IInvInit
<1>2. /\ pc = "walk" /\ todo = 1..Len(query) /\ walker = Between /\ targets = <<>>
  BY DEF Init
<1>3. walker.clause = 0 /\ Len(targets) = 0
  BY <1>2 DEF Between
<1>4. TargetsInv
  BY <1>3 DEF TargetsInv
<1>5. CopiesInv
  <2> SUFFICES ASSUME NEW c, NEW d, Copies(c, d) PROVE CopyInv(c, d)
    BY DEF CopiesInv
  <2>1. c \in todo /\ d \in todo /\ c # 0 /\ d # 0
    BY <1>1, <1>2, CopiesAre, QueryIs DEF IInv
  <2> QED
    BY <1>3, <2>1 DEF CopyInv, TargetIsWalked, TargetIsListed, ItemIsWalked, ItemFollows
<1> QED
  BY <1>1, <1>2, <1>4, <1>5 DEF CInv

\* Sorting changes no number.
LEMMA FollowsReordered ==
  ASSUME NEW q, NEW cl, NEW cl2, NEW p, Reorders(cl, cl2, p), NEW c, NEW d,
         Follows(q, cl, Len(cl), c, d)
  PROVE  Follows(q, cl2, Len(cl2), c, d)
<1> SUFFICES ASSUME NEW o, Counts(q, c, o)
             PROVE  \E l, m \in 1..Len(cl2) : /\ cl2[l].location = PlaceOf(q, c, o)
                                              /\ cl2[m].location = PlaceOf(q, d, o)
                                              /\ cl2[l].id = cl2[m].id
  BY DEF Follows
<1>1. PICK l, m \in 1..Len(cl) : /\ cl[l].location = PlaceOf(q, c, o)
                                 /\ cl[m].location = PlaceOf(q, d, o)
                                 /\ cl[l].id = cl[m].id
  BY DEF Follows
<1>2. PICK a \in 1..Len(cl) : p[a] = l
  BY DEF Reorders
<1>3. PICK b \in 1..Len(cl) : p[b] = m
  BY DEF Reorders
<1>4. /\ Len(cl2) = Len(cl)
      /\ cl2[a].location = cl[l].location /\ cl2[a].id = cl[l].id
      /\ cl2[b].location = cl[m].location /\ cl2[b].id = cl[m].id
  BY <1>2, <1>3 DEF Reorders
<1> QED
  BY <1>1, <1>4

\* SortConstants keeps the numbers of copies.
LEMMA SortFollows ==
  ASSUME CInv, SortConstants
  PROVE  CopiesFollow'
<1> DEFINE cl == js.clocations
           cl2 == js'.clocations
<1>1. /\ pc = "walk" /\ todo = {} /\ walker.clause = 0 /\ query' = query
  BY DEF SortConstants, Walked
<1>2. Core /\ JsInv /\ NumbersInv /\ CopiesInv /\ IsQuery(query)
  BY <1>1 DEF CInv, IInv, WalkInv, Core
<1>3. Len(cl) \in Nat /\ \A k \in 1..Len(cl) : cl[k].location \in Nat
  BY <1>2, JsIs
<1>4. PICK later : js' = [js EXCEPT !.clocations = Sorted(js.clocations, later)]
  BY DEF SortConstants
<1>5. cl2 = Sorted(cl, later)
  BY <1>2, <1>4, JsIs
<1>6. PICK p : Reorders(cl, cl2, p)
  BY <1>3, <1>5, SortedReorders
<1>7. Old = Len(cl)
  BY <1>1 DEF Old, InGroupBy
<1>8. ASSUME NEW c, NEW d, Copies(c, d) PROVE Follows(query, cl2, Len(cl2), c, d)
  <2>1. d # 0
    BY <1>2, <1>8, CopiesAre, QueryIs
  <2>2. Follows(query, cl, Len(cl), c, d)
    BY <1>1, <1>2, <1>7, <1>8, <2>1 DEF CopiesInv, CopyInv, ItemFollows
  <2> QED
    BY <1>6, <2>2, FollowsReordered
<1> QED
  BY <1>1, <1>8, CopiesSame DEF CopiesFollow

\* Measuring a constant changes no place and no number.
LEMMA LengthKeeps ==
  ASSUME NEW cl \in Seq(Found), NEW n \in 1..Len(cl), NEW v
  PROVE  LET cl2 == [cl EXCEPT ![n].length = v]
         IN  Len(cl2) = Len(cl) /\ KeepsFirst(cl, cl2, Len(cl))
<1> DEFINE r == [cl[n] EXCEPT !.length = v]
           cl2 == [cl EXCEPT ![n].length = v]
           S == Found \cup {r}
<1>1. cl[n] \in Found
  BY ElementOfSeq
<1>2. r.location = cl[n].location /\ r.id = cl[n].id
  BY <1>1 DEF Found
<1>3. cl2 = [cl EXCEPT ![n] = r]
  OBVIOUS
<1> HIDE DEF r, cl2
<1>4. cl \in Seq(S) /\ r \in S
  OBVIOUS
<1> HIDE DEF S
<1>5. Len(cl2) = Len(cl) /\ \A k \in 1..Len(cl) : cl2[k] = IF k = n THEN r ELSE cl[k]
  BY <1>3, <1>4
<1>6. KeepsFirst(cl, cl2, Len(cl))
  BY <1>2, <1>5 DEF KeepsFirst
<1> QED
  BY <1>5, <1>6 DEF cl2

\* Records that keep their places and numbers.
LEMMA FollowStays ==
  ASSUME CopiesFollow, query' = query, Len(js.clocations) \in Nat,
         Len(js'.clocations) = Len(js.clocations),
         KeepsFirst(js.clocations, js'.clocations, Len(js.clocations))
  PROVE  CopiesFollow'
<1>1. ASSUME NEW c, NEW d, Copies(c, d)
      PROVE  Follows(query, js'.clocations, Len(js'.clocations), c, d)
  <2>1. Follows(query, js.clocations, Len(js.clocations), c, d)
    BY <1>1 DEF CopiesFollow
  <2>2. Len(js.clocations) <= Len(js.clocations)
    OBVIOUS
  <2> QED
    BY <2>1, <2>2, FollowsStays
<1> QED
  BY <1>1, CopiesSame DEF CopiesFollow

\* FillInLength keeps the numbers of copies.
LEMMA FillInLengthFollows ==
  ASSUME CInv, FillInLength
  PROVE  CopiesFollow'
<1> DEFINE cl == js.clocations
           cl2 == js'.clocations
<1>1. pc = "lengths" /\ query' = query
  BY DEF FillInLength
<1>2. IsQuery(query) /\ HasText /\ FoundInv /\ LengthsInv /\ CopiesFollow
  BY <1>1 DEF CInv, IInv
<1>3. cl \in Seq(Found) /\ Len(cl) \in Nat
      /\ js = [clocations |-> cl, highest |-> js.highest, extern |-> js.extern, refs |-> js.refs]
  BY <1>1, <1>2, FoundIs
<1>4. i \in 1..Len(cl)
  BY <1>2, FillInLengthDoes
<1>5. Len(cl2) = Len(cl) /\ KeepsFirst(cl, cl2, Len(cl))
  <2>1. CASE js' = js
    BY <2>1 DEF KeepsFirst
  <2>2. CASE \E v : js' = [js EXCEPT !.clocations[i].length = v]
    <3>1. PICK v : js' = [js EXCEPT !.clocations[i].length = v]
      BY <2>2
    <3>2. cl2 = [cl EXCEPT ![i].length = v]
      BY <1>3, <3>1
    <3> HIDE DEF cl, cl2
    <3>3. /\ Len([cl EXCEPT ![i].length = v]) = Len(cl)
          /\ KeepsFirst(cl, [cl EXCEPT ![i].length = v], Len(cl))
      BY <1>3, <1>4, LengthKeeps
    <3> QED
      BY <3>2, <3>3
  <2>3. js' = js \/ \E v : js' = [js EXCEPT !.clocations[i].length = v]
    <3> DEFINE v == NulAfter(flex', js.clocations[i].location) - js.clocations[i].location
    <3>1. js' = js \/ js' = [js EXCEPT !.clocations[i].length = v]
      BY <1>2, FillInLengthDoes
    <3> HIDE DEF v
    <3> QED
      BY <3>1
  <2> QED
    BY <2>1, <2>2, <2>3
<1> QED
  BY <1>1, <1>2, <1>3, <1>5, FollowStays

\* Every step preserves the invariant about copies.
LEMMA CInvNext ==
  ASSUME CInv, [Next]_vars
  PROVE  CInv'
<1>1. IInv'
  BY NextStays DEF CInv
<1>2. CASE Walk
  <2>1. /\ pc = "walk" /\ pc' = pc /\ query' = query
        /\ \/ \E c \in todo : SkipOrdinal(c) \/ BeginClause(c) \/ BeginTarget(c) \/ BeginGroup(c)
           \/ VisitOperand \/ VisitSelect
           \/ EndClause \/ EndTarget \/ EndGroup
    BY <1>2 DEF Walk
  <2>2. IsQuery(query) /\ Core /\ TargetsInv /\ CopiesInv
    BY <2>1 DEF CInv, IInv, WalkInv
  <2>3. Core'
    BY <1>1, <2>1 DEF IInv, WalkInv
  <2>4. TargetsInv' /\ CopiesInv'
    BY <2>1, <2>2, <2>3, TargetsWalk, CopiesWalk
  <2> QED
    BY <1>1, <2>1, <2>4 DEF CInv
<1>3. CASE SortConstants
  <2>1. pc' = "lengths" /\ CopiesFollow'
    BY <1>3, SortFollows DEF SortConstants
  <2> QED
    BY <1>1, <2>1 DEF CInv
<1>4. CASE FillInLength
  <2>1. pc' = "lengths" /\ CopiesFollow'
    BY <1>4, FillInLengthFollows DEF FillInLength
  <2> QED
    BY <1>1, <2>1 DEF CInv
<1>5. CASE LengthsKnown \/ CopyConstant \/ CopyRest
  <2>1. pc # "walk" /\ pc' # "walk" /\ js' = js /\ query' = query
    BY <1>5 DEF LengthsKnown, CopyConstant, CopyRest
  <2>2. CopiesFollow'
    BY <2>1, CopiesSame DEF CInv, CopiesFollow
  <2> QED
    BY <1>1, <2>1, <2>2 DEF CInv
<1>6. CASE Done \/ UNCHANGED vars
  <2>1. /\ pc' = pc /\ js' = js /\ query' = query /\ todo' = todo /\ walker' = walker
        /\ targets' = targets /\ group' = group
    BY <1>6 DEF Done, vars
  <2>2. TargetsInv' = TargetsInv
    BY <2>1 DEF TargetsInv
  <2>3. Old' = Old
    BY <2>1 DEF Old, InGroupBy
  <2>4. ASSUME NEW c, NEW d PROVE CopyInv(c, d)' <=> CopyInv(c, d)
    BY <2>1, <2>3 DEF CopyInv, TargetIsWalked, TargetIsListed, ItemIsWalked, ItemFollows
  <2>5. CopiesInv => CopiesInv'
    BY <2>1, <2>4, CopiesSame DEF CopiesInv
  <2>6. CopiesFollow => CopiesFollow'
    BY <2>1, CopiesSame DEF CopiesFollow
  <2> QED
    BY <1>1, <2>1, <2>2, <2>5, <2>6 DEF CInv
<1> QED
  BY <1>2, <1>3, <1>4, <1>5, <1>6 DEF Next

-----------------------------------------------------------------------------
\* A constant outside SET has one record.
LEMMA NumberOfIs ==
  ASSUME IsQuery(query), HasText, FoundInv, LengthsInv, pc = "done",
         NEW c, NEW o, Counts(query, c, o), query[c].name # "set",
         NEW k \in 1..Len(js.clocations), js.clocations[k].location = PlaceOf(query, c, o)
  PROVE  NumberOf(ConstantAt(query, c, o)) = ParamId(js.clocations[k].id)
<1> DEFINE r == ConstantAt(query, c, o)
           cl == js.clocations
<1>1. r \in Recordable /\ r.at = PlaceOf(query, c, o)
  BY RecordableIs DEF ConstantAt
<1>2. PICK l \in 1..Len(cl) : cl[l].location = r.at /\ NumberOf(r) = ParamId(cl[l].id)
  BY <1>1, NumberIs
<1>3. l = k
  <2> SUFFICES ASSUME l # k PROVE FALSE
    OBVIOUS
  <2>1. InClause(query, cl[l].location, "set")
    BY <1>1, <1>2 DEF FoundInv, HasRecords
  <2>2. PICK e : query[e].name = "set" /\ IsIn(query, PlaceOf(query, c, o), e)
    BY <1>1, <1>2, <2>1 DEF InClause
  <2>3. PICK m : Counts(query, e, m) /\ PlaceOf(query, e, m) = PlaceOf(query, c, o)
    BY <2>2 DEF IsIn
  <2>4. e = c
    BY <2>3, PlaceIsOne
  <2> QED
    BY <2>2, <2>4
<1> QED
  BY <1>2, <1>3

\* The numbers of the constants of a clause.
LEMMA NumbersAre ==
  ASSUME NEW c
  PROVE  Numbers(c) = [o \in {o \in 1..Len(query[c].operands) : Counts(query, c, o)} |->
                         NumberOf(ConstantAt(query, c, o))]
<1> DEFINE D == {d.operand : d \in {d \in Recordable : d.clause = c}}
           E == {o \in 1..Len(query[c].operands) : Counts(query, c, o)}
           F(o) == CHOOSE d \in Recordable : d.clause = c /\ d.operand = o
<1>1. ASSUME NEW a, NEW o
      PROVE  ConstantAt(query, a, o).clause = a /\ ConstantAt(query, a, o).operand = o
  BY DEF ConstantAt
<1>2. ASSUME NEW o
      PROVE  \A d \in Recordable : d.clause = c /\ d.operand = o <=>
               Counts(query, c, o) /\ d = ConstantAt(query, c, o)
  <2>1. ASSUME NEW d \in Recordable
        PROVE  d.clause = c /\ d.operand = o <=> Counts(query, c, o) /\ d = ConstantAt(query, c, o)
    <3>1. PICK a, k : Counts(query, a, k) /\ d = ConstantAt(query, a, k)
      BY RecordableIs
    <3>2. d.clause = a /\ d.operand = k
      BY <1>1, <3>1
    <3> QED
      BY <1>1, <3>1, <3>2
  <2> QED
    BY <2>1
<1>3. \A o : Counts(query, c, o) => ConstantAt(query, c, o) \in Recordable
  BY RecordableIs
<1>4. ASSUME NEW o PROVE o \in D <=> o \in E
  <2>1. o \in D <=> \E d \in Recordable : d.clause = c /\ d.operand = o
    OBVIOUS
  <2>2. o \in D <=> Counts(query, c, o)
    BY <1>2, <1>3, <2>1
  <2>3. Counts(query, c, o) => o \in 1..Len(query[c].operands)
    BY DEF Counts
  <2> QED
    BY <2>2, <2>3
<1>5. ASSUME NEW o \in E PROVE F(o) = ConstantAt(query, c, o)
  <2>1. ConstantAt(query, c, o) \in Recordable
    BY <1>3
  <2>2. \A d \in Recordable : d.clause = c /\ d.operand = o <=> d = ConstantAt(query, c, o)
    BY <1>2
  <2> QED
    BY <2>1, <2>2
<1>6. D = E
  BY <1>4
<1>7. Numbers(c) = [o \in D |-> NumberOf(F(o))]
  BY DEF Numbers
<1> HIDE DEF D, E, F
<1>8. \A o \in E : NumberOf(F(o)) = NumberOf(ConstantAt(query, c, o))
  BY <1>5
<1> QED
  BY <1>6, <1>7, <1>8 DEF E

\* At the end copies have the numbers of their targets.
LEMMA CopiesHaveNumbers ==
  ASSUME CInv
  PROVE  GroupItemsFollowTargets
<1> SUFFICES ASSUME pc = "done", NEW c, NEW d, Copies(c, d)
             PROVE  Numbers(c) = Numbers(d)
  BY DEF GroupItemsFollowTargets, Copies
<1>1. IsQuery(query) /\ HasText /\ FoundInv /\ LengthsInv /\ CopiesFollow
  BY DEF CInv, IInv
<1>2. /\ query[c].name = "target" /\ query[d].name = "group"
      /\ query[c].operands = query[d].operands
      /\ \A o : Counts(query, c, o) <=> Counts(query, d, o)
  BY <1>1, CopiesAre
<1>3. ASSUME NEW o, Counts(query, c, o)
      PROVE  NumberOf(ConstantAt(query, c, o)) = NumberOf(ConstantAt(query, d, o))
  <2>1. PICK l, m \in 1..Len(js.clocations) :
          /\ js.clocations[l].location = PlaceOf(query, c, o)
          /\ js.clocations[m].location = PlaceOf(query, d, o)
          /\ js.clocations[l].id = js.clocations[m].id
    BY <1>1, <1>3 DEF CopiesFollow, Follows
  <2>2. NumberOf(ConstantAt(query, c, o)) = ParamId(js.clocations[l].id)
    BY <1>1, <1>2, <1>3, <2>1, NumberOfIs
  <2>3. NumberOf(ConstantAt(query, d, o)) = ParamId(js.clocations[m].id)
    BY <1>1, <1>2, <1>3, <2>1, NumberOfIs
  <2> QED
    BY <2>1, <2>2, <2>3
<1> DEFINE E == {o \in 1..Len(query[c].operands) : Counts(query, c, o)}
<1>4. E = {o \in 1..Len(query[d].operands) : Counts(query, d, o)}
  BY <1>2
<1>5. \A o \in E : NumberOf(ConstantAt(query, c, o)) = NumberOf(ConstantAt(query, d, o))
  BY <1>3
<1>6. /\ Numbers(c) = [o \in E |-> NumberOf(ConstantAt(query, c, o))]
      /\ Numbers(d) = [o \in E |-> NumberOf(ConstantAt(query, d, o))]
  BY <1>4, NumbersAre
<1> HIDE DEF E
<1> QED
  BY <1>5, <1>6

\* Copies of targets are followed through the walk, the sort and the scan (the
\* fppr list of const_record_walker, and the qsort of fill_in_constant_lengths).
THEOREM CopiesInvariant == Spec => []CInv
<1>1. Init => CInv
  BY CInvInit
<1>2. CInv /\ [Next]_vars => CInv'
  BY CInvNext
<1> QED
  BY <1>1, <1>2, PTL DEF Spec

\* A GROUP BY item written like a target is still written like it afterwards (the
\* GROUP BY loop of const_record_walker).
THEOREM ItemsFollowTargets == Spec => []GroupItemsFollowTargets
<1>1. CInv => GroupItemsFollowTargets
  BY CopiesHaveNumbers
<1> QED
  BY <1>1, CopiesInvariant, PTL
=============================================================================
