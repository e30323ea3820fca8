-------------------------- MODULE ExecFilterProofs --------------------------
(***************************************************************************)
(* Proofs about ExecFilter, for any lists of snippets: what a run has saved *)
(* are its first seeds, in order; and the seeds replay.  The invariant      *)
(* follows the run with the states of a replay that has come as far         *)
(* (Replayed), and inside a snippet with those of a query (Queried).        *)
(***************************************************************************)
EXTENDS ExecFilter, SequenceTheorems, WellFoundedInduction, TLAPS

Executing == {"loop", "exec", "committed"}

\* There are at most as many seeds as snippets tried, and none is saved before
\* the last one was tried.
CountInv ==
  /\ Len(seeds) <= cnt
  /\ pc \in {"exec", "committed"} => cnt < Len(sqls)
  /\ pc \in Executing => saved = 0
  /\ pc = "saving" => saved < Len(seeds)

\* The files this run has written.
SavedInv == \A k \in 1..saved : dir[k] = sqls[seeds[k]]

IInv == TypeOK /\ CountInv /\ SavedInv

-----------------------------------------------------------------------------
\* The snippets of a run, and the statements of a snippet.
LEMMA InputTypes ==
  ASSUME TypeOK
  PROVE  /\ Len(sqls) \in 0..MaxSeeds /\ Len(seeds) \in Nat
         /\ \A k \in 1..Len(sqls) :
              /\ Len(sqls[k]) \in Nat
              /\ \A j \in 1..Len(sqls[k]) : sqls[k][j] \in Statement
<1>1. sqls \in Seq(Snippet) /\ Len(sqls) <= MaxSeeds /\ MaxSeeds \in Nat
  BY ExecFilterAssumption DEF TypeOK
<1>2. seeds \in Seq(1..Len(sqls))
  BY DEF TypeOK
<1>3. \A k \in 1..Len(sqls) : sqls[k] \in Seq(Statement)
  BY <1>1, ElementOfSeq DEF Snippet
<1>4. \A k \in 1..Len(sqls) : \A j \in 1..Len(sqls[k]) : sqls[k][j] \in Statement
  BY <1>3, ElementOfSeq
<1> QED
  BY <1>1, <1>2, <1>3, <1>4, LenProperties

\* What a statement does stays within the database's objects.
LEMMA StatementType ==
  ASSUME NEW st \in Statement, NEW committed \in SUBSET Objects, NEW seen \in SUBSET Objects
  PROVE  Seen(st, committed, seen) \subseteq Objects /\ Committed(st, committed, seen) \subseteq Objects
<1>1. CASE st.op = "create"
  <2>1. st.obj \in Objects
    BY <1>1 DEF Statement
  <2> QED
    BY <1>1, <2>1 DEF Seen, Committed
<1>2. CASE st.op # "create"
  BY <1>2 DEF Seen, Committed
<1> QED
  BY <1>1, <1>2

\* One more seed.
LEMMA SeedAdded ==
  ASSUME TypeOK, CountInv, pc = "committed"
  PROVE  /\ Append(seeds, cnt + 1) \in Seq(1..Len(sqls))
         /\ Len(Append(seeds, cnt + 1)) = Len(seeds) + 1
<1>1. cnt + 1 \in 1..Len(sqls) /\ seeds \in Seq(1..Len(sqls))
  BY InputTypes DEF TypeOK, CountInv
<1> QED
  BY <1>1, AppendProperties

LEMMA NextInv ==
  ASSUME IInv, [Next]_vars
  PROVE  IInv'
<1> USE DEF IInv, TypeOK, CountInv, SavedInv, Executing
<1>0. /\ Len(sqls) \in 0..MaxSeeds /\ Len(seeds) \in Nat /\ MaxSeeds \in Nat
      /\ \A k \in 1..Len(sqls) : Len(sqls[k]) \in Nat
  BY InputTypes, ExecFilterAssumption
<1>1. CASE Start
  <2>1. /\ sqls' \in Inputs /\ seeds' = <<>> /\ Len(sqls') \in Nat
        /\ seeds' \in Seq(1..Len(sqls')) /\ Len(seeds') = 0
    BY <1>1, ExecFilterAssumption DEF Start
  <2> QED
    BY <1>1, <2>1 DEF Start
<1>2. CASE Begin
  BY <1>0, <1>2 DEF Begin
<1>3. CASE Execute
  <2>1. sqls[cnt + 1][pos + 1] \in Statement
    <3>1. cnt + 1 \in 1..Len(sqls)
      BY <1>0, <1>3 DEF Execute
    <3>2. pos + 1 \in 1..Len(sqls[cnt + 1])
      BY <1>0, <1>3, <3>1 DEF Execute
    <3> QED
      BY <3>1, <3>2, InputTypes
  <2>2. db' \subseteq Objects /\ work' \subseteq Objects
    BY <1>3, <2>1, StatementType DEF Execute
  <2> QED
    BY <1>0, <1>3, <2>2 DEF Execute
<1>4. CASE ExecuteFails
  BY <1>0, <1>4 DEF ExecuteFails
<1>5. CASE Commit
  BY <1>0, <1>5 DEF Commit
<1>6. CASE CommitFails
  BY <1>0, <1>6 DEF CommitFails
<1>7. CASE Rollback
  BY <1>0, <1>7, SeedAdded DEF Rollback
<1>8. CASE Executed
  BY <1>0, <1>8 DEF Executed
<1>9. CASE OpenSeed
  <2>1. DOMAIN dir' = 1..MaxSeeds /\ \A k \in 1..saved : dir'[k] = dir[k]
    BY <1>0, <1>9 DEF OpenSeed
  <2> QED
    BY <1>0, <1>9, <2>1 DEF OpenSeed
<1>10. CASE WriteSeed
  <2>1. saved + 1 \in 1..MaxSeeds
    BY <1>0, <1>10 DEF WriteSeed
  <2>2. /\ DOMAIN dir' = 1..MaxSeeds /\ \A k \in 1..saved : dir'[k] = dir[k]
        /\ dir'[saved + 1] = sqls[seeds[saved + 1]]
    BY <1>0, <1>10, <2>1 DEF WriteSeed
  <2>3. \A k \in 1..saved + 1 : k \in 1..saved \/ k = saved + 1
    BY <1>0
  <2> QED
    BY <1>0, <1>10, <2>2, <2>3 DEF WriteSeed
<1>11. CASE Finish
  BY <1>0, <1>11 DEF Finish
<1>12. CASE Kill
  BY <1>0, <1>12 DEF Kill
<1>13. CASE ResetDatabase
  BY <1>0, <1>13 DEF ResetDatabase
<1>14. CASE UNCHANGED vars
  BY <1>14 DEF vars
<1> QED
  BY <1>1, <1>2, <1>3, <1>4, <1>5, <1>6, <1>7, <1>8, <1>9, <1>10, <1>11, <1>12,
     <1>13, <1>14
  DEF Next

LEMMA InitInv == Init => IInv
<1>1. ASSUME Init
      PROVE  /\ sqls \in Inputs /\ Len(sqls) \in Nat /\ seeds = <<>>
             /\ seeds \in Seq(1..Len(sqls)) /\ Len(seeds) = 0
  BY <1>1, ExecFilterAssumption DEF Init
<1> QED
  BY <1>1 DEF Init, IInv, TypeOK, CountInv, SavedInv, Executing

LEMMA Invariant == Spec => []IInv
<1>1. IInv /\ [Next]_vars => IInv'
  BY NextInv
<1> QED
  BY <1>1, InitInv, PTL DEF Spec

-----------------------------------------------------------------------------
(***************************************************************************)
(* The seeds replay                                                        *)
(***************************************************************************)

States == [ok : BOOLEAN, db : SUBSET Objects, seen : SUBSET Objects]

\* f has the states of a query after its first k statements.
Queried(f, s, snippet, k) ==
  /\ f \in [0..k -> States]
  /\ f[0] = [ok |-> s.ok, db |-> s.db, seen |-> s.db]
  /\ \A n \in 1..k : f[n] = Step(f[n - 1], snippet[n])

\* r has the states of a replay after the first k seeds.
Replayed(r, k) ==
  /\ r \in [0..k -> States]
  /\ r[0] = [ok |-> TRUE, db |-> db0, seen |-> db0]
  /\ \A n \in 1..k : r[n] = Query(r[n - 1], sqls[seeds[n]])

\* The state the database had before the snippet that is being executed.
Reached(s) == \E r : Replayed(r, Len(seeds)) /\ r[Len(seeds)] = s /\ s.ok

ReplayInv ==
  NoTransactionControl =>
    /\ pc = "loop" => \E s \in States : Reached(s) /\ s.db = db
    /\ pc = "exec" =>
         \E s \in States : \E f :
           /\ Reached(s) /\ s.db = db /\ Queried(f, s, sqls[cnt + 1], pos)
           /\ f[pos] = [ok |-> TRUE, db |-> db, seen |-> work]
    /\ pc = "committed" =>
         \E s \in States :
           Reached(s) /\ Query(s, sqls[cnt + 1]) = [ok |-> TRUE, db |-> db, seen |-> db]
    /\ pc = "exec" => pos <= Len(sqls[cnt + 1])

\* Induction, for a set in place of a property.
LEMMA UpTo ==
  ASSUME NEW k \in Nat, NEW T, 0 \in T, \A n \in 1..k : n - 1 \in T => n \in T
  PROVE  \A n \in 0..k : n \in T
<1> DEFINE R == {ss \in Nat \X Nat : ss[1] < ss[2]}
           Out == {n \in 0..k : n \notin T}
<1>1. IsWellFoundedOn(R, Nat)
  BY NatLessThanWellFounded DEF OpToRel
<1>2. \A y, z \in Nat : y < z => <<y, z>> \in R
  OBVIOUS
<1>3. Out = {}
  <2> SUFFICES ASSUME Out # {} PROVE FALSE
    OBVIOUS
  <2>1. Out \in SUBSET Nat
    OBVIOUS
  <2> HIDE DEF R, Out
  <2>2. PICK n \in Out : \A y \in Out : ~ (<<y, n>> \in R)
    BY <1>1, <2>1, WFMin, Zenon
  <2>3. n \in 0..k /\ n \notin T
    BY <2>2 DEF Out
  <2>4. n \in 1..k /\ n - 1 \in 0..k /\ n - 1 < n
    BY <2>3
  <2>5. n - 1 \in Out /\ n - 1 \in Nat /\ n \in Nat
    BY <2>3, <2>4 DEF Out
  <2> QED
    BY <1>2, <2>2, <2>4, <2>5
<1> QED
  BY <1>3

LEMMA StepType ==
  ASSUME NEW s \in States, NEW st \in Statement
  PROVE  Step(s, st) \in States
<1>1. s.db \in SUBSET Objects /\ s.seen \in SUBSET Objects
  BY DEF States
<1>2. Seen(st, s.db, s.seen) \subseteq Objects /\ Committed(st, s.db, s.seen) \subseteq Objects
  BY <1>1, StatementType
<1> QED
  BY <1>2 DEF Step, States

\* The states of a query are what it is computed from.
LEMMA QueryIs ==
  ASSUME NEW s, NEW snippet \in Snippet, NEW f, Queried(f, s, snippet, Len(snippet))
  PROVE  Query(s, snippet) = Ended(f[Len(snippet)])
<1> DEFINE k == Len(snippet)
           first == [ok |-> s.ok, db |-> s.db, seen |-> s.db]
           after == CHOOSE g : g = [n \in 0..k |-> IF n = 0 THEN first ELSE Step(g[n - 1], snippet[n])]
<1>1. k \in Nat
  BY LenProperties DEF Snippet
<1>2. f = [n \in 0..k |-> IF n = 0 THEN first ELSE Step(f[n - 1], snippet[n])]
  BY <1>1 DEF Queried
<1>3. after = [n \in 0..k |-> IF n = 0 THEN first ELSE Step(after[n - 1], snippet[n])]
  BY <1>2
<1>4. after = f
  <2> HIDE DEF after, first, k
  <2>1. \A n \in 1..k : n # 0 /\ n \in 0..k
    BY <1>1
  <2>2. /\ f[0] = after[0]
        /\ f = [n \in 0..k |-> f[n]] /\ after = [n \in 0..k |-> after[n]]
    BY <1>1, <1>2, <1>3
  <2>3. \A n \in 1..k : f[n - 1] = after[n - 1] => f[n] = after[n]
    BY <1>2, <1>3, <2>1
  <2> DEFINE T == {n \in 0..k : f[n] = after[n]}
  <2>4. \A n \in 0..k : n \in T
    <3>1. 0 \in T
      BY <1>1, <2>2
    <3>2. \A n \in 1..k : n - 1 \in T => n \in T
      BY <2>1, <2>3
    <3> HIDE DEF T
    <3> QED
      BY <1>1, <3>1, <3>2, UpTo
  <2> QED
    BY <2>2, <2>4
<1>5. Query(s, snippet) = Ended(after[k])
  BY DEF Query
<1> QED
  BY <1>4, <1>5

LEMMA EndedIs ==
  ASSUME NEW committed, NEW seen
  PROVE  Ended([ok |-> TRUE, db |-> committed, seen |-> seen]) =
           [ok |-> TRUE, db |-> seen, seen |-> seen]
BY DEF Ended

\* And the states of a replay.
LEMMA ReplayIs ==
  ASSUME seeds \in Seq(1..Len(sqls)), NEW r, Replayed(r, Len(seeds))
  PROVE  Replay(db0, SeedList) = r[Len(seeds)]
<1> DEFINE k == Len(seeds)
           list == SeedList
           first == [ok |-> TRUE, db |-> db0, seen |-> db0]
           after == CHOOSE g : g = [n \in 0..Len(list) |->
                                      IF n = 0 THEN first ELSE Query(g[n - 1], list[n])]
<1>1. k \in Nat /\ Len(list) = k /\ \A n \in 1..k : list[n] = sqls[seeds[n]]
  <2>1. k \in Nat
    BY LenProperties
  <2> QED
    BY <2>1 DEF SeedList
<1>2. r = [n \in 0..k |-> IF n = 0 THEN first ELSE Query(r[n - 1], list[n])]
  BY <1>1 DEF Replayed
<1>3. after = [n \in 0..k |-> IF n = 0 THEN first ELSE Query(after[n - 1], list[n])]
  BY <1>1, <1>2
<1>4. after = r
  <2> HIDE DEF after, first, k, list
  <2>1. \A n \in 1..k : n # 0 /\ n \in 0..k
    BY <1>1
  <2>2. /\ r[0] = after[0]
        /\ r = [n \in 0..k |-> r[n]] /\ after = [n \in 0..k |-> after[n]]
    BY <1>1, <1>2, <1>3
  <2>3. \A n \in 1..k : r[n - 1] = after[n - 1] => r[n] = after[n]
    BY <1>2, <1>3, <2>1
  <2> DEFINE T == {n \in 0..k : r[n] = after[n]}
  <2>4. \A n \in 0..k : n \in T
    <3>1. 0 \in T
      BY <1>1, <2>2
    <3>2. \A n \in 1..k : n - 1 \in T => n \in T
      BY <2>1, <2>3
    <3> HIDE DEF T
    <3> QED
      BY <1>1, <3>1, <3>2, UpTo
  <2> QED
    BY <2>2, <2>4
<1>5. Replay(db0, list) = after[Len(list)]
  BY DEF Replay
<1> QED
  BY <1>1, <1>4, <1>5

-----------------------------------------------------------------------------
\* The first seeds, without the one that is added to them.
LEMMA SeedsBefore ==
  ASSUME TypeOK, CountInv, pc = "committed", seeds' = Append(seeds, cnt + 1)
  PROVE  /\ Len(seeds') = Len(seeds) + 1 /\ Len(seeds) \in Nat
         /\ seeds'[Len(seeds) + 1] = cnt + 1
         /\ \A n \in 1..Len(seeds) : seeds'[n] = seeds[n]
<1>1. cnt + 1 \in 1..Len(sqls) /\ seeds \in Seq(1..Len(sqls))
  BY InputTypes DEF TypeOK, CountInv
<1>2. Len(seeds) \in Nat
  BY <1>1, LenProperties
<1> QED
  BY <1>1, <1>2, AppendProperties

\* A snippet with no transaction control that has come one statement further.
LEMMA QueryGoesOn ==
  ASSUME TypeOK, CountInv, NoTransactionControl, Execute,
         NEW s, NEW f, Queried(f, s, sqls[cnt + 1], pos),
         f[pos] = [ok |-> TRUE, db |-> db, seen |-> work]
  PROVE  \E g : /\ Queried(g, s, sqls[cnt + 1], pos + 1)
                /\ g[pos + 1] = [ok |-> TRUE, db |-> db', seen |-> work']
                /\ db' = db
<1> DEFINE st == sqls[cnt + 1][pos + 1]
           next == Step(f[pos], st)
           g == [n \in 0..pos + 1 |-> IF n = pos + 1 THEN next ELSE f[n]]
<1>1. /\ pos \in Nat /\ cnt + 1 \in 1..Len(sqls) /\ pos + 1 \in 1..Len(sqls[cnt + 1])
      /\ st \in Statement
  <2>1. pos \in Nat /\ cnt + 1 \in 1..Len(sqls)
    BY InputTypes DEF Execute, TypeOK, CountInv
  <2>2. Len(sqls[cnt + 1]) \in Nat
    BY <2>1, InputTypes
  <2>3. pos + 1 \in 1..Len(sqls[cnt + 1])
    BY <2>1, <2>2 DEF Execute
  <2> QED
    BY <2>1, <2>3, InputTypes
<1>2. st.op \in {"create", "use"}
  BY <1>1 DEF NoTransactionControl
<1>3. /\ Accepts(st, work) /\ work' = Seen(st, db, work) /\ db' = Committed(st, db, work)
  BY DEF Execute
<1>4. db' = db
  BY <1>2, <1>3 DEF Committed
<1>5. next = [ok |-> TRUE, db |-> db', seen |-> work']
  <2> HIDE DEF st
  <2>1. Accepts(st, f[pos].seen) /\ f[pos].ok /\ f[pos].db = db /\ f[pos].seen = work
    BY <1>3
  <2>2. next = [ok |-> TRUE, db |-> Committed(st, f[pos].db, f[pos].seen),
                seen |-> Seen(st, f[pos].db, f[pos].seen)]
    BY <2>1, Zenon DEF Step
  <2>3. /\ Committed(st, f[pos].db, f[pos].seen) = db'
        /\ Seen(st, f[pos].db, f[pos].seen) = work'
    BY <1>3, <2>1
  <2> HIDE DEF next
  <2> QED
    BY <2>2, <2>3
<1>6. f[pos] \in States /\ next \in States
  <2>1. f[pos] \in States
    <3>1. f \in [0..pos -> States]
      BY DEF Queried
    <3>2. pos \in 0..pos
      BY <1>1
    <3> QED
      BY <3>1, <3>2
  <2> QED
    BY <1>1, <2>1, StepType
<1>7. Queried(g, s, sqls[cnt + 1], pos + 1)
  <2> HIDE DEF next
  <2>1. g \in [0..pos + 1 -> States]
    BY <1>1, <1>6 DEF Queried
  <2>2. g[0] = [ok |-> s.ok, db |-> s.db, seen |-> s.db]
    BY <1>1 DEF Queried
  <2>3. ASSUME NEW n \in 1..pos + 1
        PROVE  g[n] = Step(g[n - 1], sqls[cnt + 1][n])
    <3>1. CASE n = pos + 1
      <4>1. g[n] = next /\ g[n - 1] = f[pos]
        BY <1>1, <3>1
      <4> QED
        BY <3>1, <4>1 DEF next
    <3>2. CASE n \in 1..pos
      <4>1. g[n] = f[n] /\ g[n - 1] = f[n - 1]
        BY <1>1, <3>2
      <4> QED
        BY <3>2, <4>1 DEF Queried
    <3> QED
      BY <1>1, <3>1, <3>2
  <2> HIDE DEF g
  <2> QED
    BY <2>1, <2>2, <2>3 DEF Queried
<1>8. g[pos + 1] = next
  BY <1>1
<1> HIDE DEF g
<1> QED
  BY <1>4, <1>5, <1>7, <1>8

\* One more seed to replay.
LEMMA ReplayGoesOn ==
  ASSUME TypeOK, CountInv, Rollback, NEW s \in States, Reached(s),
         Query(s, sqls[cnt + 1]) = [ok |-> TRUE, db |-> db, seen |-> db]
  PROVE  \E q \in States : Reached(q)' /\ q.db = db'
<1> DEFINE k == Len(seeds)
<1>0. PICK q : q = Query(s, sqls[cnt + 1])
  OBVIOUS
<1>1. PICK r : Replayed(r, k) /\ r[k] = s
  BY DEF Reached
<1>2. /\ Len(seeds') = k + 1 /\ k \in Nat /\ seeds'[k + 1] = cnt + 1
      /\ \A n \in 1..k : seeds'[n] = seeds[n]
  BY SeedsBefore DEF Rollback
<1>3. db' = db /\ db0' = db0 /\ sqls' = sqls
  BY DEF Rollback
<1>4. q \in States /\ q.ok /\ q.db = db
  <2>1. q = [ok |-> TRUE, db |-> db, seen |-> db] /\ db \subseteq Objects
    BY <1>0 DEF TypeOK
  <2> QED
    BY <2>1 DEF States
<1> HIDE DEF k
<1>p. PICK p : p = [n \in 0..k + 1 |-> IF n = k + 1 THEN q ELSE r[n]]
  OBVIOUS
<1>5. p \in [0..k + 1 -> States] /\ p[0] = [ok |-> TRUE, db |-> db0, seen |-> db0]
  <2>1. k + 1 # 0 /\ 0 \in 0..k + 1 /\ \A n \in 0..k + 1 : n # k + 1 => n \in 0..k
    BY <1>2
  <2>2. r \in [0..k -> States] /\ r[0] = [ok |-> TRUE, db |-> db0, seen |-> db0]
    BY <1>1 DEF Replayed
  <2> QED
    BY <1>2, <1>4, <1>p, <2>1, <2>2
<1>6. ASSUME NEW n \in 1..k + 1
      PROVE  p[n] = Query(p[n - 1], sqls[seeds'[n]])
  <2>1. CASE n = k + 1
    <3>1. p[n] = q /\ p[n - 1] = s
      BY <1>1, <1>2, <1>p, <2>1
    <3> QED
      BY <1>0, <1>2, <2>1, <3>1
  <2>2. CASE n \in 1..k
    <3>1. p[n] = r[n] /\ p[n - 1] = r[n - 1] /\ seeds'[n] = seeds[n]
      BY <1>2, <1>p, <2>2
    <3> QED
      BY <1>1, <2>2, <3>1 DEF Replayed
  <2> QED
    BY <1>2, <2>1, <2>2
<1>7. p[k + 1] = q
  BY <1>2, <1>p
<1>8. Replayed(p, Len(seeds))'
  BY <1>2, <1>3, <1>5, <1>6 DEF Replayed
<1>9. Reached(q)'
  BY <1>2, <1>4, <1>7, <1>8 DEF Reached
<1> QED
  BY <1>3, <1>4, <1>9

\* What has been replayed depends on nothing else.
LEMMA ReachedStays ==
  ASSUME UNCHANGED <<sqls, seeds, db0>>
  PROVE  \A s : Reached(s) => Reached(s)'
BY DEF Reached, Replayed

LEMMA ReplayNext ==
  ASSUME IInv, ReplayInv, [Next]_vars
  PROVE  ReplayInv'
<1> SUFFICES ASSUME NoTransactionControl'
             PROVE  ReplayInv'
  BY DEF ReplayInv
<1>0. TypeOK /\ CountInv
  BY DEF IInv
<1>1. sqls' = sqls => NoTransactionControl
  BY DEF NoTransactionControl
<1>2. CASE Start
  <2>1. /\ pc' = "loop" /\ seeds' = <<>> /\ db0' = db /\ db' = db
    BY <1>2 DEF Start
  <2>2. PICK s, r : /\ s = [ok |-> TRUE, db |-> db, seen |-> db]
                    /\ r = [n \in 0..0 |-> s]
    OBVIOUS
  <2>3. s \in States /\ s.ok /\ s.db = db'
    BY <1>0, <2>1, <2>2 DEF States, TypeOK
  <2>4. r \in [0..0 -> States] /\ r[0] = [ok |-> TRUE, db |-> db0', seen |-> db0']
    BY <2>1, <2>2, <2>3
  <2>5. Len(seeds') = 0 /\ r[0] = s
    BY <2>1, <2>2
  <2>6. Replayed(r, Len(seeds))'
    BY <2>4, <2>5 DEF Replayed
  <2>7. Reached(s)'
    BY <2>3, <2>5, <2>6 DEF Reached
  <2> QED
    BY <2>1, <2>3, <2>7 DEF ReplayInv
<1>3. CASE Begin
  <2>1. PICK s \in States : Reached(s) /\ s.db = db
    BY <1>1, <1>3 DEF Begin, ReplayInv
  <2> DEFINE first == [ok |-> TRUE, db |-> db, seen |-> db]
             f == [n \in 0..0 |-> first]
  <2>2. Reached(s)' /\ s.ok
    BY <1>3, <2>1, ReachedStays DEF Begin, Reached
  <2>3. first \in States /\ first = [ok |-> s.ok, db |-> s.db, seen |-> s.db]
    <3>1. db \subseteq Objects
      BY <1>0 DEF TypeOK
    <3>2. s.ok \in BOOLEAN
      BY <2>1 DEF States
    <3>3. s.ok = TRUE /\ s.db = db
      BY <2>1, <2>2, <3>2
    <3>4. first \in States
      BY <3>1 DEF States
    <3> QED
      BY <3>3, <3>4
  <2>4. Queried(f, s, sqls'[cnt' + 1], 0) /\ f[0] = first
    <3>1. f \in [0..0 -> States] /\ f[0] = first
      BY <2>3
    <3> HIDE DEF f, first
    <3> QED
      BY <2>3, <3>1 DEF Queried
  <2>5. /\ pc' = "exec" /\ pos' = 0 /\ work' = db' /\ db' = db /\ s.db = db'
    BY <1>3, <2>1 DEF Begin
  <2>6. 0 <= Len(sqls'[cnt' + 1])
    <3>1. cnt + 1 \in 1..Len(sqls)
      BY <1>0, <1>3, InputTypes DEF Begin, TypeOK
    <3> QED
      BY <1>0, <1>3, <3>1, InputTypes DEF Begin
  <2> HIDE DEF f
  <2> QED
    BY <2>2, <2>4, <2>5, <2>6 DEF ReplayInv
<1>4. CASE Execute
  <2>1. PICK s, f :
           /\ s \in States /\ Reached(s) /\ s.db = db /\ Queried(f, s, sqls[cnt + 1], pos)
           /\ f[pos] = [ok |-> TRUE, db |-> db, seen |-> work]
    BY <1>1, <1>4 DEF Execute, ReplayInv
  <2>2. Reached(s)'
    BY <1>4, <2>1, ReachedStays DEF Execute
  <2>3. PICK g : /\ Queried(g, s, sqls[cnt + 1], pos + 1)
                 /\ g[pos + 1] = [ok |-> TRUE, db |-> db', seen |-> work']
                 /\ db' = db
    BY <1>0, <1>1, <1>4, <2>1, QueryGoesOn DEF Execute
  <2>4. /\ pc' = "exec" /\ pos' = pos + 1 /\ sqls'[cnt' + 1] = sqls[cnt + 1]
    BY <1>4 DEF Execute
  <2>5. pos' <= Len(sqls'[cnt' + 1]) /\ s.db = db'
    <3>1. cnt + 1 \in 1..Len(sqls) /\ pos \in Nat
      BY <1>0, <1>4, InputTypes DEF Execute, TypeOK, CountInv
    <3> QED
      BY <1>0, <1>4, <2>1, <2>3, <2>4, <3>1, InputTypes DEF Execute
  <2> QED
    BY <2>1, <2>2, <2>3, <2>4, <2>5 DEF ReplayInv
<1>5. CASE ExecuteFails \/ CommitFails
  <2>1. PICK s, f :
           /\ s \in States /\ Reached(s) /\ s.db = db /\ Queried(f, s, sqls[cnt + 1], pos)
           /\ f[pos] = [ok |-> TRUE, db |-> db, seen |-> work]
    BY <1>1, <1>5 DEF ExecuteFails, CommitFails, ReplayInv
  <2>2. Reached(s)' /\ pc' = "loop" /\ db' = db
    BY <1>5, <2>1, ReachedStays DEF ExecuteFails, CommitFails
  <2> QED
    BY <2>1, <2>2 DEF ReplayInv
<1>6. CASE Commit
  <2>1. PICK s, f :
           /\ s \in States /\ Reached(s) /\ s.db = db /\ Queried(f, s, sqls[cnt + 1], pos)
           /\ f[pos] = [ok |-> TRUE, db |-> db, seen |-> work]
    BY <1>1, <1>6 DEF Commit, ReplayInv
  <2>2. /\ Reached(s)' /\ pc' = "committed" /\ db' = work
        /\ pos = Len(sqls[cnt + 1]) /\ sqls'[cnt' + 1] = sqls[cnt + 1]
    BY <1>6, <2>1, ReachedStays DEF Commit
  <2>3. sqls[cnt + 1] \in Snippet
    <3>1. cnt + 1 \in 1..Len(sqls)
      BY <1>0, <1>6, InputTypes DEF Commit, TypeOK, CountInv
    <3>2. sqls \in Seq(Snippet)
      BY <1>0, ExecFilterAssumption DEF TypeOK
    <3> QED
      BY <3>1, <3>2, ElementOfSeq
  <2>4. /\ Queried(f, s, sqls[cnt + 1], Len(sqls[cnt + 1]))
        /\ f[Len(sqls[cnt + 1])] = [ok |-> TRUE, db |-> db, seen |-> work]
    BY <2>1, <2>2
  <2>5. Query(s, sqls[cnt + 1]) = [ok |-> TRUE, db |-> work, seen |-> work]
    <3>1. PICK snippet : snippet = sqls[cnt + 1]
      OBVIOUS
    <3>2. /\ snippet \in Snippet /\ Queried(f, s, snippet, Len(snippet))
          /\ f[Len(snippet)] = [ok |-> TRUE, db |-> db, seen |-> work]
      BY <2>3, <2>4, <3>1
    <3>3. Query(s, snippet) = Ended(f[Len(snippet)])
      BY <3>2, QueryIs
    <3> QED
      BY <3>1, <3>2, <3>3, EndedIs
  <2> QED
    BY <2>1, <2>2, <2>5 DEF ReplayInv
<1>7. CASE Rollback
  <2>1. PICK s \in States :
          Reached(s) /\ Query(s, sqls[cnt + 1]) = [ok |-> TRUE, db |-> db, seen |-> db]
    BY <1>1, <1>7 DEF Rollback, ReplayInv
  <2>2. \E q \in States : Reached(q)' /\ q.db = db'
    BY <1>0, <1>7, <2>1, ReplayGoesOn
  <2> QED
    BY <1>7, <2>2 DEF Rollback, ReplayInv
<1>8. CASE Executed \/ OpenSeed \/ WriteSeed \/ Finish \/ Kill \/ ResetDatabase
  <2>1. pc' \notin {"loop", "exec", "committed"}
    BY <1>8 DEF Executed, OpenSeed, WriteSeed, Finish, Kill, ResetDatabase
  <2> QED
    BY <2>1 DEF ReplayInv
<1>9. CASE UNCHANGED vars
  <2>1. \A s : Reached(s) => Reached(s)'
    BY <1>9, ReachedStays DEF vars
  <2>2. /\ sqls' = sqls /\ pc' = pc /\ cnt' = cnt /\ pos' = pos /\ db' = db /\ work' = work
    BY <1>9 DEF vars
  <2> QED
    BY <1>1, <2>1, <2>2 DEF ReplayInv, Queried
<1> QED
  BY <1>2, <1>3, <1>4, <1>5, <1>6, <1>7, <1>8, <1>9 DEF Next

LEMMA ReplayInvariant == Spec => []ReplayInv
<1>1. Init => ReplayInv
  BY DEF Init, ReplayInv
<1>2. IInv /\ ReplayInv /\ [Next]_vars => ReplayInv'
  BY ReplayNext
<1> QED
  BY <1>1, <1>2, Invariant, PTL DEF Spec

\* The seeds, executed one after the other on the database the run started with,
\* all succeed and give the database as it is: for any snippets that do not end
\* their transaction, whatever statements failed, ran into the timeout or could
\* not be committed.
THEOREM SeedsCanBeReplayed == Spec => []SeedsReplay
<1>1. IInv /\ ReplayInv => SeedsReplay
  <2> SUFFICES ASSUME IInv, ReplayInv, pc = "loop", NoTransactionControl
               PROVE  Replay(db0, SeedList).ok /\ Replay(db0, SeedList).db = db
    BY DEF SeedsReplay
  <2>1. PICK r : /\ Replayed(r, Len(seeds))
                 /\ r[Len(seeds)].ok /\ r[Len(seeds)].db = db
    BY DEF ReplayInv, Reached
  <2>2. seeds \in Seq(1..Len(sqls))
    BY DEF IInv, TypeOK
  <2>3. Replay(db0, SeedList) = r[Len(seeds)]
    BY <2>1, <2>2, ReplayIs
  <2> QED
    BY <2>1, <2>3
<1> QED
  BY <1>1, Invariant, ReplayInvariant, PTL

\* Type correctness of ExecFilter, for all lists of snippets.
THEOREM TypeCorrect == Spec => []TypeOK
<1>1. IInv => TypeOK
  BY DEF IInv
<1> QED
  BY <1>1, Invariant, PTL

\* The files a run has written, whether it was killed or not, are its first seeds
\* in order: a failed snippet leaves no gap in the numbers, and no file of an
\* earlier run is among them.
THEOREM SeedsAreNumbered == Spec => []SavedSeedsAreFirst
<1>1. IInv => SavedSeedsAreFirst
  BY DEF IInv, SavedInv, SavedSeedsAreFirst
<1> QED
  BY <1>1, Invariant, PTL
=============================================================================
