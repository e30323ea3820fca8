--------------------------- MODULE PipelineProofs ---------------------------
(***************************************************************************)
(* Proofs about Pipeline, for any messages, SQL texts and section files:    *)
(* what is collected parses, the outputs are disjoint, no message is        *)
(* dropped between them, and errors go with the SQL they are about.         *)
(***************************************************************************)
EXTENDS Pipeline, FiniteSetTheorems, WellFoundedInduction, TLAPS

\* A set of natural numbers with a bound has a greatest one: the least distance
\* from the bound.
LEMMA GreatestNatural ==
  ASSUME NEW b \in Nat, NEW T \in SUBSET 0..b, T # {}
  PROVE  \E x \in T : \A y \in T : y <= x
<1> DEFINE R == {ss \in Nat \X Nat : ss[1] < ss[2]}
           D == {b - y : y \in T}
<1>1. IsWellFoundedOn(R, Nat)
  BY NatLessThanWellFounded DEF OpToRel
<1>2. D \in SUBSET Nat /\ D # {}
  <2>1. \A y \in T : b - y \in Nat
    OBVIOUS
  <2>2. PICK y \in T : TRUE
    OBVIOUS
  <2> QED
    BY <2>1, <2>2
<1>3. \A y, z \in Nat : y < z => <<y, z>> \in R
  OBVIOUS
<1>4. \A y \in T : b - y \in D
  OBVIOUS
<1>5. \A d \in D : \E y \in T : d = b - y
  OBVIOUS
<1> HIDE DEF R, D
<1>6. PICK d \in D : \A e \in D : ~ (<<e, d>> \in R)
  BY <1>1, <1>2, WFMin, Zenon
<1>7. PICK x \in T : d = b - x
  BY <1>5
<1>8. \A y \in T : y <= x
  <2> TAKE y \in T
  <2>1. b - y \in Nat /\ d \in Nat /\ ~ (<<b - y, d>> \in R)
    BY <1>2, <1>4, <1>6
  <2>2. ~ (b - y < d)
    BY <2>1, <1>3, Zenon
  <2> QED
    BY <2>1, <2>2, <1>7
<1> QED
  BY <1>8

\* A flaw file since its check opened it: truncated, or the verdict on the
\* section file as it is now.
Verdict(n) ==
  \/ flaw[n] = Corrupt
  \/ sqls[n] \notin {Missing, Corrupt} /\ flaw[n] = FlawsOf(sqls[n])

\* No flaw file that was opened since the section file was written is of an
\* earlier pass.
CheckInv ==
  /\ \A n \in checked : Verdict(n)
  /\ step = "syntax_check" =>
       /\ \A n \in todo : sqls[n] # Missing
       /\ pc = "write" => cur \in todo /\ flaw[cur] = Corrupt

\* A running step follows the last one that is done.
StepInv ==
  /\ step # "none" => done = StepNo(step) - 1
  /\ step = "none" => pc = "open"

\* What the result v of each writer is, given the files it was made from.
IsJoin(v) ==
  /\ v \in Dict(Flawed)
  /\ \A m \in Msgs :
       /\ v[m] = NoSql <=> Holding(flaw, m) = {} \/ Holding(sqls, m) = {}
       /\ v[m] # NoSql => \E i \in Holding(sqls, m), j \in Holding(flaw, m) :
            v[m].sql = sqls[i][m] /\ v[m].error_hint = flaw[j][m]
       /\ \A j \in Holding(flaw, m) \cap checked :
            j \in Holding(sqls, m) /\ flaw[j][m] = sqls[j][m]
IsRepair(v) ==
  /\ v \in Dict(Sqls)
  /\ \A m \in Msgs : v[m] # NoSql => file["collect_flaw_sqls"][m] # NoSql
IsVerdict(v) == v \in {FlawsOf(file["llm_fixer"]), Corrupt}
IsCorrect(v) ==
  \A m \in Msgs :
    /\ v[m] \in Broken => ~ (Holding(sqls, m) \subseteq checked)
    /\ v[m] # NoSql => Holding(flaw, m) = {} /\ Holding(sqls, m) # {}
    /\ v[m] = NoSql /\ Holding(flaw, m) = {} => Holding(sqls, m) = {}
IsFixed(v) ==
  \A m \in Msgs :
    /\ v[m] \in Broken => ~rechecked
    /\ v[m] # NoSql => file["llm_fixer"][m] # NoSql

IsResult(s, v) ==
  /\ s = "collect_flaw_sqls" => IsJoin(v)
  /\ s = "llm_fixer" => IsRepair(v)
  /\ s = "filter_syntax_fixed_sqls" => IsVerdict(v)
  /\ s = "collect_correct_sql" => IsCorrect(v)
  /\ s = "collect_fixed_sqls" => IsFixed(v)

\* The files of the steps that are done were made from one another and from the
\* section files and verdicts on the disk, and so will be the next one.  Only
\* flaws.json may be of an earlier pass.
ResultInv ==
  /\ \A s \in Writers \ {"filter_syntax_fixed_sqls"} :
       done >= StepNo(s) => IsResult(s, file[s])
  /\ step \in Writers => IsResult(step, out)

\* Since a check opened flaws.json it is truncated or the verdict on the repairs.
RecheckInv ==
  /\ rechecked => IsVerdict(file["filter_syntax_fixed_sqls"])
  /\ step = "llm_fixer" /\ pc = "write" => ~rechecked

IInv == TypeOK /\ StepInv /\ CheckInv /\ ResultInv /\ RecheckInv

-----------------------------------------------------------------------------
\* The steps and their numbers.
LEMMA StepNumbers ==
  /\ StepNo("llm_extract") = 1
  /\ StepNo("syntax_check") = 2
  /\ StepNo("collect_flaw_sqls") = 3
  /\ StepNo("llm_fixer") = 4
  /\ StepNo("filter_syntax_fixed_sqls") = 5
  /\ StepNo("collect_correct_sql") = 6
  /\ StepNo("collect_fixed_sqls") = 7
<1>1. /\ Len(Steps) = 7
      /\ Steps[1] = "llm_extract" /\ Steps[2] = "syntax_check"
      /\ Steps[3] = "collect_flaw_sqls" /\ Steps[4] = "llm_fixer"
      /\ Steps[5] = "filter_syntax_fixed_sqls" /\ Steps[6] = "collect_correct_sql"
      /\ Steps[7] = "collect_fixed_sqls"
  BY DEF Steps
<1>2. \A i \in 1..7 : i = 1 \/ i = 2 \/ i = 3 \/ i = 4 \/ i = 5 \/ i = 6 \/ i = 7
  OBVIOUS
<1>3. \A k \in 1..7 : \A i \in 1..7 : Steps[i] = Steps[k] => i = k
  BY <1>1, <1>2
<1>4. \A k \in 1..7 : StepNo(Steps[k]) = k
  BY <1>1, <1>3 DEF StepNo
<1> QED
  BY <1>1, <1>4

LEMMA WritersAre ==
  Writers = {"collect_flaw_sqls", "llm_fixer", "filter_syntax_fixed_sqls",
             "collect_correct_sql", "collect_fixed_sqls"}
<1>1. Len(Steps) = 7
  BY DEF Steps
<1>2. \A i \in 3..7 : i = 3 \/ i = 4 \/ i = 5 \/ i = 6 \/ i = 7
  OBVIOUS
<1> QED
  BY <1>1, <1>2 DEF Steps, Writers

\* What dict.update makes of the files of a directory has a message exactly if
\* one of them has, and then what one of them has.
LEMMA MergedFrom ==
  ASSUME NEW dir, NEW r \in Merges(dir), NEW m \in Msgs
  PROVE  /\ Holding(dir, m) = {} => r[m] = NoSql
         /\ Holding(dir, m) # {} => \E n \in Holding(dir, m) : r[m] = dir[n][m]
<1> DEFINE b == Cardinality(Names)
<1>1. b \in Nat
  BY NamesAssumption, FS_CardinalityType
<1> DEFINE Latest(pos) ==
      [l \in Msgs |->
         IF Holding(dir, l) = {} THEN NoSql
         ELSE LET last == CHOOSE n \in Holding(dir, l) :
                            \A k \in Holding(dir, l) : pos[k] <= pos[n]
              IN  dir[last][l]]
<1>2. PICK pos \in [Names -> 1..b] : r = Latest(pos)
  BY DEF Merges
<1>3. ASSUME Holding(dir, m) # {}
      PROVE  \E n \in Holding(dir, m) : \A k \in Holding(dir, m) : pos[k] <= pos[n]
  <2> DEFINE P == {pos[n] : n \in Holding(dir, m)}
  <2>1. Holding(dir, m) \subseteq Names
    BY DEF Holding
  <2>2. P \in SUBSET (0..b) /\ P # {}
    BY <1>1, <1>2, <1>3, <2>1
  <2>3. PICK x \in P : \A y \in P : y <= x
    <3> HIDE DEF P
    <3> QED
      BY <1>1, <2>2, GreatestNatural
  <2>4. PICK n \in Holding(dir, m) : x = pos[n]
    BY <2>3
  <2> QED
    BY <2>3, <2>4
<1>4. Holding(dir, m) = {} => r[m] = NoSql
  BY <1>2
<1>5. ASSUME Holding(dir, m) # {}
      PROVE  \E n \in Holding(dir, m) : r[m] = dir[n][m]
  <2> DEFINE last == CHOOSE n \in Holding(dir, m) :
                       \A k \in Holding(dir, m) : pos[k] <= pos[n]
  <2>1. last \in Holding(dir, m)
    BY <1>3, <1>5
  <2>2. r[m] = dir[last][m]
    BY <1>2, <1>5
  <2> QED
    BY <2>1, <2>2
<1> QED
  BY <1>4, <1>5

LEMMA MergedType ==
  ASSUME NEW V, NEW dir \in [Names -> Dict(V) \cup {Missing, Corrupt}],
         Readable(dir), NEW r \in Merges(dir)
  PROVE  r \in Dict(V)
<1>1. r = [m \in Msgs |-> r[m]]
  BY DEF Merges
<1>2. ASSUME NEW m \in Msgs
      PROVE  r[m] \in V \cup {NoSql}
  <2>1. CASE Holding(dir, m) = {}
    BY <2>1, MergedFrom
  <2>2. CASE Holding(dir, m) # {}
    <3>1. PICK n \in Holding(dir, m) : r[m] = dir[n][m]
      BY <2>2, MergedFrom
    <3>2. dir[n] \in Dict(V)
      BY DEF Holding, Readable
    <3> QED
      BY <3>1, <3>2 DEF Dict
  <2> QED
    BY <2>1, <2>2
<1> QED
  BY <1>1, <1>2 DEF Dict

LEMMA FlawsOfType ==
  ASSUME NEW d
  PROVE  FlawsOf(d) \in Dict(Broken)
BY DEF FlawsOf, Dict

LEMMA DictsGrow ==
  /\ Dict(Broken) \subseteq Dict(Sqls)
  /\ Sections \subseteq Dict(Sqls)
BY PipelineAssumption DEF Dict

\* What collect_flaw_sqls.py computes.
LEMMA JoinType ==
  ASSUME NEW raw \in Dict(Sqls), NEW hints \in Dict(Broken)
  PROVE  [m \in Msgs |-> IF hints[m] = NoSql \/ raw[m] = NoSql THEN NoSql
                         ELSE [sql |-> raw[m], error_hint |-> hints[m]]] \in Dict(Flawed)
<1>1. \A m \in Msgs : raw[m] \in Sqls \cup {NoSql} /\ hints[m] \in Broken \cup {NoSql}
  BY DEF Dict
<1>2. ASSUME NEW m \in Msgs, hints[m] # NoSql, raw[m] # NoSql
      PROVE  [sql |-> raw[m], error_hint |-> hints[m]] \in Flawed
  BY <1>1, <1>2 DEF Flawed
<1> QED
  BY <1>2 DEF Dict

LEMMA InitType == Init => TypeOK
<1>1. 0 \in 0..Len(Steps)
  BY DEF Steps
<1> QED
  BY <1>1 DEF Init, TypeOK

\* The number of a step is one of the steps'.
LEMMA StepNoType ==
  ASSUME NEW s \in {Steps[i] : i \in 1..Len(Steps)}
  PROVE  StepNo(s) \in 1..Len(Steps)
BY DEF StepNo

Running == {Steps[i] : i \in 2..Len(Steps)}

LEMMA RunningAre ==
  /\ Running = {"syntax_check"} \cup Writers
  /\ Len(Steps) = 7
<1>1. Len(Steps) = 7 /\ Steps[2] = "syntax_check"
  BY DEF Steps
<1>2. \A i \in 2..7 : i = 2 \/ i \in 3..7
  OBVIOUS
<1> QED
  BY <1>1, <1>2 DEF Running, Writers

LEMMA IdleType ==
  ASSUME TypeOK, Idle
  PROVE  /\ step' \in Running \cup {"none"}
         /\ pc' \in {"open", "write"}
         /\ out' \in Result \cup {Missing, Corrupt}
         /\ todo' \subseteq Names
         /\ cur' \in Names \cup {Missing}
BY DEF Idle

\* What a writer is about to write has its type.
LEMMA ComputeType ==
  ASSUME TypeOK, NEW s \in Writers, NEW result \in Result \cup {Corrupt},
         Compute(s, result)
  PROVE  TypeOK'
<1>1. StepNo(s) \in 3..7
  BY WritersAre, StepNumbers
<1>2. step' \in Running
  BY RunningAre DEF Compute, Begin
<1>3. done' \in 0..Len(Steps)
  BY <1>1, RunningAre DEF Compute, Begin
<1> QED
  BY <1>2, <1>3 DEF Compute, TypeOK, Running

LEMMA NextType ==
  ASSUME TypeOK, [Next]_vars
  PROVE  TypeOK'
<1> USE DEF TypeOK
<1>1. CASE Write
  <2>1. PICK n \in Names, body \in Sections \cup {Corrupt} : WriteSection(n, body)
    BY <1>1 DEF Write
  <2>2. done' \in 0..Len(Steps)
    BY <2>1, RunningAre DEF WriteSection
  <2> QED
    BY <2>1, <2>2 DEF WriteSection
<1>2. CASE SyntaxClean
  <2>1. done' \in 0..Len(Steps)
    BY <1>2, RunningAre DEF SyntaxClean
  <2> QED
    BY <1>2, <2>1 DEF SyntaxClean
<1>3. CASE SyntaxCheck
  <2>1. done' \in 0..Len(Steps) /\ step' \in Running
    BY <1>3, RunningAre, StepNumbers DEF SyntaxCheck, Begin
  <2> QED
    BY <1>3, <2>1 DEF SyntaxCheck, Begin, Running
<1>4. CASE \E n \in Names : CheckCannotOpen(n) \/ CheckOpen(n)
  BY <1>4 DEF CheckCannotOpen, CheckOpen
<1>5. CASE CheckWrite
  BY <1>5, FlawsOfType DEF CheckWrite, CheckNext
<1>6. CASE CheckFails
  BY <1>6 DEF CheckFails, CheckNext
<1>7. CASE SyntaxCheckDone
  <2>1. done' \in 0..Len(Steps)
    BY <1>7, RunningAre, StepNumbers DEF SyntaxCheckDone
  <2> QED
    BY <1>7, <2>1, IdleType DEF SyntaxCheckDone, Running
<1>8. CASE CollectFlawSqls
  <2>1. PICK raw \in Merges(sqls), hints \in Merges(flaw) :
          Compute("collect_flaw_sqls",
            [m \in Msgs |-> IF hints[m] = NoSql \/ raw[m] = NoSql THEN NoSql
                            ELSE [sql |-> raw[m], error_hint |-> hints[m]]])
    BY <1>8 DEF CollectFlawSqls
  <2>2. raw \in Dict(Sqls) /\ hints \in Dict(Broken)
    BY <1>8, MergedType, DictsGrow DEF CollectFlawSqls
  <2> QED
    BY <2>1, <2>2, JoinType, ComputeType, WritersAre DEF Result
<1>9. CASE LlmFixer
  BY <1>9, ComputeType, WritersAre DEF LlmFixer, Result
<1>10. CASE FilterSyntaxFixedSqls
  BY <1>10, ComputeType, WritersAre, FlawsOfType, DictsGrow
  DEF FilterSyntaxFixedSqls, Result
<1>11. CASE CollectCorrectSql
  <2>1. PICK raw \in Merges(sqls), flaw_sqls \in Merges(flaw) :
          Compute("collect_correct_sql",
            [m \in Msgs |-> IF flaw_sqls[m] = NoSql THEN raw[m] ELSE NoSql])
    BY <1>11 DEF CollectCorrectSql
  <2>2. raw \in Dict(Sqls)
    BY <1>11, MergedType, DictsGrow DEF CollectCorrectSql
  <2>3. [m \in Msgs |-> IF flaw_sqls[m] = NoSql THEN raw[m] ELSE NoSql] \in Dict(Sqls)
    BY <2>2 DEF Dict
  <2> QED
    BY <2>1, <2>3, ComputeType, WritersAre DEF Result
<1>12. CASE CollectFixedSqls
  <2> DEFINE fixed == [m \in Msgs |-> IF file["filter_syntax_fixed_sqls"][m] = NoSql
                                      THEN file["llm_fixer"][m] ELSE NoSql]
  <2>1. file["llm_fixer"] \in Result
    BY <1>12, WritersAre DEF CollectFixedSqls
  <2>2. fixed \in Result
    BY <2>1 DEF Result, Dict
  <2> QED
    BY <1>12, <2>2, ComputeType, WritersAre DEF CollectFixedSqls
<1>13. CASE \E s \in Writers : Raise(s)
  <2>1. PICK s \in Writers : Raise(s)
    BY <1>13
  <2>2. done' \in 0..Len(Steps)
    BY <2>1, RunningAre, WritersAre, StepNumbers DEF Raise
  <2> QED
    BY <2>1, <2>2 DEF Raise
<1>14. CASE OpenFile
  BY <1>14 DEF OpenFile
<1>15. CASE WriteFile
  <2>1. done' \in 0..Len(Steps)
    BY <1>15, RunningAre, WritersAre, StepNumbers DEF WriteFile
  <2> QED
    BY <1>15, <2>1, IdleType DEF WriteFile, Running
<1>16. CASE Kill
  BY <1>16, IdleType DEF Kill, Running
<1>17. CASE UNCHANGED vars
  BY <1>17 DEF vars
<1>18. CASE FilterCannotOpen
  <2>1. done' \in 0..Len(Steps)
    BY <1>18, RunningAre, StepNumbers DEF FilterCannotOpen
  <2> QED
    BY <1>18, <2>1 DEF FilterCannotOpen
<1> QED
  BY <1>1, <1>2, <1>3, <1>4, <1>5, <1>6, <1>7, <1>8, <1>9, <1>10, <1>11, <1>12,
     <1>13, <1>14, <1>15, <1>16, <1>17, <1>18
  DEF Next, Check, Collect

\* Type correctness of Pipeline, for every set of messages and section files.
THEOREM TypeCorrect == Spec => []TypeOK
<1>1. Init => TypeOK
  BY InitType
<1>2. TypeOK /\ [Next]_vars => TypeOK'
  BY NextType
<1> QED
  BY <1>1, <1>2, PTL DEF Spec

-----------------------------------------------------------------------------
\* A writer's step begins after the check is done.
LEMMA StepPreserved ==
  ASSUME TypeOK, StepInv, [Next]_vars
  PROVE  StepInv'
<1> USE DEF StepInv
<1>1. CASE Write
  BY <1>1 DEF Write, WriteSection, Run
<1>2. CASE SyntaxClean
  BY <1>2 DEF SyntaxClean
<1>3. CASE SyntaxCheck
  BY <1>3 DEF SyntaxCheck, Begin
<1>4. CASE \E n \in Names : CheckCannotOpen(n) \/ CheckOpen(n)
  BY <1>4 DEF CheckCannotOpen, CheckOpen
<1>5. CASE CheckWrite \/ CheckFails
  BY <1>5 DEF CheckWrite, CheckFails, CheckNext
<1>6. CASE SyntaxCheckDone
  BY <1>6 DEF SyntaxCheckDone, Idle
<1>7. ASSUME NEW s \in Writers, NEW result, Compute(s, result)
      PROVE  StepInv'
  BY <1>7, WritersAre DEF Compute, Begin
<1>8. CASE Collect
  <2>1. CASE (\E s \in Writers : Raise(s)) \/ FilterCannotOpen
    BY <2>1 DEF Raise, FilterCannotOpen, Run
  <2> QED
    BY <1>7, <1>8, <2>1, WritersAre
    DEF Collect, CollectFlawSqls, LlmFixer, FilterSyntaxFixedSqls,
        CollectCorrectSql, CollectFixedSqls
<1>9. CASE OpenFile
  BY <1>9, WritersAre DEF OpenFile
<1>10. CASE WriteFile \/ Kill
  BY <1>10 DEF WriteFile, Kill, Idle
<1>11. CASE UNCHANGED vars
  BY <1>11 DEF vars
<1> QED
  BY <1>1, <1>2, <1>3, <1>4, <1>5, <1>6, <1>8, <1>9, <1>10, <1>11 DEF Next, Check

LEMMA VerdictKept ==
  ASSUME NEW n, Verdict(n), sqls'[n] = sqls[n], flaw'[n] = flaw[n]
  PROVE  Verdict(n)'
BY DEF Verdict, FlawsOf

\* A step other than the check that leaves the section and flaw files alone keeps
\* what is known of them.
LEMMA CheckFrame ==
  ASSUME CheckInv, UNCHANGED <<sqls, flaw, checked>>, step' # "syntax_check"
  PROVE  CheckInv'
BY VerdictKept DEF CheckInv

LEMMA CheckPreserved ==
  ASSUME TypeOK, StepInv, CheckInv, [Next]_vars
  PROVE  CheckInv'
<1>0. checked \subseteq Names /\ todo \subseteq Names
  BY DEF TypeOK
<1>1. CASE Write
  <2>1. PICK n \in Names, body \in Sections \cup {Corrupt} : WriteSection(n, body)
    BY <1>1 DEF Write
  <2>2. /\ step' = "none" /\ flaw' = flaw /\ checked' = checked \ {n}
        /\ \A k \in Names \ {n} : sqls'[k] = sqls[k]
    BY <2>1 DEF WriteSection, Run, TypeOK
  <2>3. \A k \in checked' : Verdict(k)'
    BY <1>0, <2>2, VerdictKept DEF CheckInv
  <2> QED
    BY <2>2, <2>3 DEF CheckInv
<1>2. CASE SyntaxClean
  BY <1>2 DEF SyntaxClean, CheckInv
<1>3. CASE SyntaxCheck
  <2>1. UNCHANGED <<sqls, flaw, checked>> /\ pc' = "open" /\ \A n \in todo' : sqls'[n] # Missing
    BY <1>3 DEF SyntaxCheck, Begin, Run, StepInv
  <2> QED
    BY <2>1, VerdictKept DEF CheckInv
<1>4. ASSUME NEW n \in Names, CheckCannotOpen(n)
      PROVE  CheckInv'
  <2>1. /\ UNCHANGED <<sqls, flaw, checked>> /\ pc' = "open"
        /\ todo' \subseteq todo /\ step = "syntax_check"
    BY <1>4 DEF CheckCannotOpen
  <2> QED
    BY <2>1, VerdictKept DEF CheckInv
<1>5. ASSUME NEW n \in Names, CheckOpen(n)
      PROVE  CheckInv'
  <2>1. /\ sqls' = sqls /\ checked' = checked \cup {n} /\ todo' = todo /\ n \in todo
        /\ cur' = n /\ step = "syntax_check"
        /\ flaw'[n] = Corrupt /\ \A k \in Names \ {n} : flaw'[k] = flaw[k]
    BY <1>5 DEF CheckOpen, TypeOK
  <2>2. \A k \in checked' : Verdict(k)'
    <3> TAKE k \in checked'
    <3>1. CASE k = n
      BY <2>1, <3>1 DEF Verdict
    <3>2. CASE k # n
      BY <1>0, <2>1, <3>2, VerdictKept DEF CheckInv
    <3> QED
      BY <3>1, <3>2
  <2> QED
    BY <2>1, <2>2 DEF CheckInv
<1>6. CASE CheckWrite \/ CheckFails
  <2>1. /\ sqls' = sqls /\ checked' = checked /\ pc' = "open" /\ todo' \subseteq todo
        /\ step = "syntax_check" /\ cur \in todo /\ flaw[cur] = Corrupt
        /\ cur \in Names /\ sqls[cur] # Missing
    BY <1>0, <1>6 DEF CheckWrite, CheckFails, CheckNext, CheckInv
  <2>2. \A k \in Names \ {cur} : flaw'[k] = flaw[k]
    BY <1>6 DEF CheckWrite, CheckFails, TypeOK
  <2>3. ASSUME NEW n, n = cur
        PROVE  Verdict(n)'
    <3>1. CASE CheckWrite
      <4>1. flaw'[n] = FlawsOf(sqls[n]) /\ sqls[n] \notin {Missing, Corrupt}
        BY <2>1, <2>3, <3>1 DEF CheckWrite, TypeOK
      <4>2. flaw'[n] = FlawsOf(sqls'[n]) /\ sqls'[n] \notin {Missing, Corrupt}
        BY <2>1, <4>1
      <4> QED
        BY <4>2 DEF Verdict, FlawsOf
    <3>2. CASE CheckFails
      BY <2>1, <2>3, <3>2 DEF CheckFails, Verdict
    <3> QED
      BY <1>6, <3>1, <3>2
  <2>4. \A k \in checked' : Verdict(k)'
    BY <1>0, <2>1, <2>2, <2>3, VerdictKept DEF CheckInv
  <2> QED
    BY <2>1, <2>4 DEF CheckInv
<1>7. CASE SyntaxCheckDone
  BY <1>7, CheckFrame DEF SyntaxCheckDone, Idle
<1>8. ASSUME NEW s \in Writers, NEW result, Compute(s, result)
      PROVE  CheckInv'
  BY <1>8, WritersAre, CheckFrame DEF Compute, Begin
<1>9. CASE Collect
  <2>1. CASE (\E s \in Writers : Raise(s)) \/ FilterCannotOpen
    BY <2>1, CheckFrame DEF Raise, FilterCannotOpen, Run
  <2> QED
    BY <1>8, <1>9, <2>1, WritersAre
    DEF Collect, CollectFlawSqls, LlmFixer, FilterSyntaxFixedSqls,
        CollectCorrectSql, CollectFixedSqls
<1>10. CASE OpenFile \/ WriteFile \/ Kill
  BY <1>10, CheckFrame, WritersAre DEF OpenFile, WriteFile, Kill, Idle
<1>11. CASE UNCHANGED vars
  BY <1>11, VerdictKept DEF vars, CheckInv
<1> QED
  BY <1>1, <1>2, <1>3, <1>4, <1>5, <1>6, <1>7, <1>9, <1>10, <1>11 DEF Next, Check

-----------------------------------------------------------------------------
\* What a result was made from are files that no later step writes.
LEMMA ResultFrame ==
  ASSUME NEW s \in Writers, NEW v, IsResult(s, v), UNCHANGED <<sqls, flaw, checked>>,
         s = "collect_fixed_sqls" => rechecked' = rechecked,
         \A w \in Writers : StepNo(w) < StepNo(s) => file'[w] = file[w]
  PROVE  IsResult(s, v)'
<1>1. \A m : Holding(sqls, m)' = Holding(sqls, m) /\ Holding(flaw, m)' = Holding(flaw, m)
  BY DEF Holding
<1>2. CASE s = "collect_flaw_sqls"
  BY <1>1, <1>2 DEF IsResult, IsJoin
<1>3. CASE s = "llm_fixer"
  <2>1. file'["collect_flaw_sqls"] = file["collect_flaw_sqls"]
    BY <1>3, WritersAre, StepNumbers
  <2> QED
    BY <1>3, <2>1 DEF IsResult, IsRepair
<1>4. CASE s = "filter_syntax_fixed_sqls"
  <2>1. file'["llm_fixer"] = file["llm_fixer"]
    BY <1>4, WritersAre, StepNumbers
  <2> QED
    BY <1>4, <2>1 DEF IsResult, IsVerdict, FlawsOf
<1>5. CASE s = "collect_correct_sql"
  BY <1>1, <1>5 DEF IsResult, IsCorrect
<1>6. CASE s = "collect_fixed_sqls"
  <2>1. file'["llm_fixer"] = file["llm_fixer"]
    BY <1>6, WritersAre, StepNumbers
  <2> QED
    BY <1>6, <2>1 DEF IsResult, IsFixed
<1> QED
  BY <1>2, <1>3, <1>4, <1>5, <1>6, WritersAre

\* Before the first writer there is nothing to know.
LEMMA NoResults ==
  ASSUME done' \in {0, 1, 2}, step' \notin Writers
  PROVE  ResultInv'
<1>1. \A s \in Writers : StepNo(s) \in 3..7
  BY WritersAre, StepNumbers
<1>2. \A s \in Writers : ~ (done' >= StepNo(s))
  BY <1>1
<1> QED
  BY <1>2 DEF ResultInv

\* A step that does not touch the files keeps what is known of them.
LEMMA FilesKept ==
  ASSUME ResultInv, UNCHANGED <<sqls, flaw, file, checked, rechecked>>,
         \A s \in Writers \ {"filter_syntax_fixed_sqls"} :
           done' >= StepNo(s) => done >= StepNo(s)
  PROVE  \A s \in Writers \ {"filter_syntax_fixed_sqls"} :
           done' >= StepNo(s) => IsResult(s, file[s])'
<1>1. ASSUME NEW s \in Writers \ {"filter_syntax_fixed_sqls"}, done' >= StepNo(s)
      PROVE  IsResult(s, file[s])'
  <2>1. IsResult(s, file[s])
    BY <1>1 DEF ResultInv
  <2>2. \A v : IsResult(s, v) => IsResult(s, v)'
    BY ResultFrame
  <2> QED
    BY <2>1, <2>2
<1> QED
  BY <1>1

\* A writer has computed its result.
LEMMA ResultComputed ==
  ASSUME TypeOK, ResultInv, NEW s \in Writers, NEW v, IsResult(s, v), Compute(s, v)
  PROVE  ResultInv'
<1>1. done \in Nat
  BY RunningAre DEF TypeOK
<1>2. /\ UNCHANGED <<sqls, flaw, file, checked, rechecked>> /\ step' = s /\ out' = v
      /\ done' \in Nat /\ done' <= done
  BY <1>1, WritersAre, StepNumbers DEF Compute, Begin, Run
<1>3. IsResult(s, v)'
  BY <1>2, ResultFrame
<1>4. \A w \in Writers : StepNo(w) \in Nat
  BY WritersAre, StepNumbers
<1>5. \A w \in Writers \ {"filter_syntax_fixed_sqls"} :
        done' >= StepNo(w) => IsResult(w, file[w])'
  BY <1>1, <1>2, <1>4, FilesKept
<1> QED
  BY <1>2, <1>3, <1>5 DEF ResultInv

-----------------------------------------------------------------------------
\* If no flaw file is truncated, the messages of those that were opened by a check
\* are the ones of the section files whose SQL is broken.
LEMMA FlawsHeld ==
  ASSUME TypeOK, CheckInv, Readable(flaw), NEW m \in Msgs
  PROVE  /\ \A n \in Holding(flaw, m) \cap checked :
              n \in Holding(sqls, m) /\ flaw[n][m] = sqls[n][m]
         /\ \A n \in Holding(sqls, m) \cap checked :
              sqls[n][m] \in Broken => n \in Holding(flaw, m)
<1>1. \A n \in checked : n \in Names /\ sqls[n] # Missing /\ flaw[n] = FlawsOf(sqls[n])
  BY DEF CheckInv, Readable, Verdict, TypeOK
<1>2. NoSql \notin Broken
  BY PipelineAssumption, ValuesAssumption
<1>3. \A n \in checked : flaw[n][m] = IF sqls[n][m] \in Broken THEN sqls[n][m] ELSE NoSql
  BY <1>1 DEF FlawsOf
<1>4. ASSUME NEW n \in checked
      PROVE  flaw[n] # Missing
  <2>1. flaw[n] \in Dict(Sqls)
    BY <1>1, FlawsOfType, DictsGrow
  <2> QED
    BY <2>1, ValuesAssumption
<1> QED
  BY <1>1, <1>2, <1>3, <1>4 DEF Holding

LEMMA JoinComputed ==
  ASSUME TypeOK, CheckInv, Readable(sqls), Readable(flaw),
         NEW raw \in Merges(sqls), NEW hints \in Merges(flaw)
  PROVE  IsJoin([m \in Msgs |-> IF hints[m] = NoSql \/ raw[m] = NoSql THEN NoSql
                                ELSE [sql |-> raw[m], error_hint |-> hints[m]]])
<1> DEFINE v == [m \in Msgs |-> IF hints[m] = NoSql \/ raw[m] = NoSql THEN NoSql
                                ELSE [sql |-> raw[m], error_hint |-> hints[m]]]
<1>1. v \in Dict(Flawed)
  <2>1. raw \in Dict(Sqls) /\ hints \in Dict(Broken)
    BY MergedType, DictsGrow DEF TypeOK
  <2> QED
    BY <2>1, JoinType
<1>2. ASSUME NEW m \in Msgs
      PROVE  /\ v[m] = NoSql <=> Holding(flaw, m) = {} \/ Holding(sqls, m) = {}
             /\ v[m] # NoSql => \E i \in Holding(sqls, m), j \in Holding(flaw, m) :
                  v[m].sql = sqls[i][m] /\ v[m].error_hint = flaw[j][m]
             /\ \A j \in Holding(flaw, m) \cap checked :
                  j \in Holding(sqls, m) /\ flaw[j][m] = sqls[j][m]
  <2>1. \A j \in Holding(flaw, m) \cap checked :
          j \in Holding(sqls, m) /\ flaw[j][m] = sqls[j][m]
    BY FlawsHeld
  <2>2. CASE Holding(flaw, m) = {} \/ Holding(sqls, m) = {}
    BY <2>1, <2>2, MergedFrom
  <2>3. CASE Holding(flaw, m) # {} /\ Holding(sqls, m) # {}
    <3>1. PICK j \in Holding(flaw, m) : hints[m] = flaw[j][m]
      BY <2>3, MergedFrom
    <3>2. PICK i \in Holding(sqls, m) : raw[m] = sqls[i][m]
      BY <2>3, MergedFrom
    <3>3. hints[m] # NoSql /\ raw[m] # NoSql
      BY <3>1, <3>2 DEF Holding
    <3>4. v[m] = [sql |-> raw[m], error_hint |-> hints[m]]
      BY <3>3
    <3>5. v[m] # NoSql
      BY <1>1, <3>4, ValuesAssumption, MergedType, DictsGrow, <3>3 DEF TypeOK, Flawed, Dict
    <3>6. v[m].sql = sqls[i][m] /\ v[m].error_hint = flaw[j][m]
      BY <3>1, <3>2, <3>4
    <3> HIDE DEF v
    <3> QED
      BY <2>1, <2>3, <3>5, <3>6
  <2> QED
    BY <2>2, <2>3
<1> HIDE DEF v
<1>3. IsJoin(v)
  BY <1>1, <1>2 DEF IsJoin
<1> QED
  BY <1>3 DEF v

LEMMA CorrectComputed ==
  ASSUME TypeOK, CheckInv, Readable(sqls), Readable(flaw),
         NEW raw \in Merges(sqls), NEW flaw_sqls \in Merges(flaw)
  PROVE  IsCorrect([m \in Msgs |-> IF flaw_sqls[m] = NoSql THEN raw[m] ELSE NoSql])
<1> DEFINE v == [m \in Msgs |-> IF flaw_sqls[m] = NoSql THEN raw[m] ELSE NoSql]
<1>1. NoSql \notin Broken
  BY PipelineAssumption, ValuesAssumption
<1>2. ASSUME NEW m \in Msgs
      PROVE  /\ v[m] \in Broken => ~ (Holding(sqls, m) \subseteq checked)
             /\ v[m] # NoSql => Holding(flaw, m) = {} /\ Holding(sqls, m) # {}
             /\ v[m] = NoSql /\ Holding(flaw, m) = {} => Holding(sqls, m) = {}
  <2>1. CASE Holding(flaw, m) # {}
    <3>1. PICK j \in Holding(flaw, m) : flaw_sqls[m] = flaw[j][m]
      BY <2>1, MergedFrom
    <3>2. v[m] = NoSql
      BY <3>1 DEF Holding
    <3> QED
      BY <1>1, <2>1, <3>2
  <2>2. CASE Holding(flaw, m) = {} /\ Holding(sqls, m) = {}
    <3>1. v[m] = NoSql
      BY <2>2, MergedFrom
    <3> QED
      BY <1>1, <2>2, <3>1
  <2>3. CASE Holding(flaw, m) = {} /\ Holding(sqls, m) # {}
    <3>1. PICK i \in Holding(sqls, m) : raw[m] = sqls[i][m]
      BY <2>3, MergedFrom
    <3>2. v[m] = sqls[i][m]
      BY <2>3, <3>1, MergedFrom
    <3>3. sqls[i][m] \in Broken => i \notin checked
      BY <2>3, FlawsHeld
    <3>4. sqls[i][m] # NoSql
      BY DEF Holding
    <3> QED
      BY <2>3, <3>2, <3>3, <3>4
  <2> QED
    BY <2>1, <2>2, <2>3
<1> HIDE DEF v
<1>3. IsCorrect(v)
  BY <1>2 DEF IsCorrect
<1> QED
  BY <1>3 DEF v

LEMMA FixedComputed ==
  ASSUME IsRepair(file["llm_fixer"]), RecheckInv,
         file["filter_syntax_fixed_sqls"] # Corrupt
  PROVE  IsFixed([m \in Msgs |-> IF file["filter_syntax_fixed_sqls"][m] = NoSql
                                 THEN file["llm_fixer"][m] ELSE NoSql])
<1>1. rechecked => file["filter_syntax_fixed_sqls"] = FlawsOf(file["llm_fixer"])
  BY DEF RecheckInv, IsVerdict
<1>2. NoSql \notin Broken
  BY PipelineAssumption, ValuesAssumption
<1> QED
  BY <1>1, <1>2 DEF IsFixed, FlawsOf

LEMMA ResultPreserved ==
  ASSUME TypeOK, StepInv, CheckInv, ResultInv, RecheckInv, [Next]_vars
  PROVE  ResultInv'
<1>0. done \in Nat /\ \A s \in Writers : StepNo(s) \in 3..7
  BY RunningAre, WritersAre, StepNumbers DEF TypeOK
<1>1. CASE Write
  BY <1>1, NoResults, WritersAre DEF Write, WriteSection, Run
<1>2. CASE SyntaxClean
  BY <1>2, NoResults, WritersAre DEF SyntaxClean
<1>3. CASE SyntaxCheck
  BY <1>3, NoResults, WritersAre, StepNumbers DEF SyntaxCheck, Begin
<1>4. CASE (\E n \in Names : CheckCannotOpen(n) \/ CheckOpen(n)) \/ CheckWrite \/ CheckFails
  <2>1. step' = "syntax_check" /\ done' = 1
    BY <1>4, StepNumbers DEF CheckCannotOpen, CheckOpen, CheckWrite, CheckFails, CheckNext, StepInv
  <2> QED
    BY <2>1, NoResults, WritersAre
<1>5. CASE SyntaxCheckDone
  BY <1>5, NoResults, WritersAre, StepNumbers DEF SyntaxCheckDone, Idle
<1>6. CASE CollectFlawSqls
  <2>1. PICK raw \in Merges(sqls), hints \in Merges(flaw) :
          Compute("collect_flaw_sqls",
            [m \in Msgs |-> IF hints[m] = NoSql \/ raw[m] = NoSql THEN NoSql
                            ELSE [sql |-> raw[m], error_hint |-> hints[m]]])
    BY <1>6 DEF CollectFlawSqls
  <2>3. IsJoin([m \in Msgs |-> IF hints[m] = NoSql \/ raw[m] = NoSql THEN NoSql
                               ELSE [sql |-> raw[m], error_hint |-> hints[m]]])
    BY <1>6, JoinComputed DEF CollectFlawSqls
  <2> QED
    BY <2>1, <2>3, ResultComputed, WritersAre DEF IsResult
<1>7. CASE LlmFixer
  <2>1. PICK answer \in Dict(Sqls) :
          /\ \A m \in Msgs : file["collect_flaw_sqls"][m] = NoSql => answer[m] = NoSql
          /\ Compute("llm_fixer", answer)
    BY <1>7 DEF LlmFixer
  <2>2. IsRepair(answer)
    BY <2>1 DEF IsRepair
  <2> QED
    BY <2>1, <2>2, ResultComputed, WritersAre DEF IsResult
<1>8. CASE FilterSyntaxFixedSqls
  <2>1. PICK result \in {FlawsOf(file["llm_fixer"]), Corrupt} :
          Compute("filter_syntax_fixed_sqls", result)
    BY <1>8 DEF FilterSyntaxFixedSqls
  <2> QED
    BY <2>1, ResultComputed, WritersAre DEF IsResult, IsVerdict
<1>9. CASE CollectCorrectSql
  <2>1. PICK raw \in Merges(sqls), flaw_sqls \in Merges(flaw) :
          Compute("collect_correct_sql",
            [m \in Msgs |-> IF flaw_sqls[m] = NoSql THEN raw[m] ELSE NoSql])
    BY <1>9 DEF CollectCorrectSql
  <2>3. IsCorrect([m \in Msgs |-> IF flaw_sqls[m] = NoSql THEN raw[m] ELSE NoSql])
    BY <1>9, CorrectComputed DEF CollectCorrectSql
  <2> QED
    BY <2>1, <2>3, ResultComputed, WritersAre DEF IsResult
<1>10. CASE CollectFixedSqls
  <2>1. done >= 6
    BY <1>0, <1>10, StepNumbers DEF CollectFixedSqls, Compute, Begin, Run
  <2>2. IsRepair(file["llm_fixer"])
    BY <1>0, <2>1, WritersAre, StepNumbers DEF ResultInv, IsResult
  <2> QED
    BY <1>10, <2>2, FixedComputed, ResultComputed, WritersAre
    DEF CollectFixedSqls, IsResult
<1>11. CASE \E s \in Writers : Raise(s)
  <2>1. PICK s \in Writers : Raise(s)
    BY <1>11
  <2>2. /\ done' \in Nat /\ done' <= done /\ step' \notin Writers
        /\ UNCHANGED <<sqls, flaw, file, checked, rechecked>>
    BY <1>0, <2>1, WritersAre DEF Raise, Run
  <2>3. \A w \in Writers \ {"filter_syntax_fixed_sqls"} :
          done' >= StepNo(w) => IsResult(w, file[w])'
    BY <1>0, <2>2, FilesKept
  <2> QED
    BY <2>2, <2>3 DEF ResultInv
<1>12. CASE OpenFile
  <2>1. step \in Writers /\ done = StepNo(step) - 1
    BY <1>12, WritersAre DEF OpenFile, StepInv
  <2>2. UNCHANGED <<sqls, flaw, checked, done, step, out>>
    BY <1>12 DEF OpenFile
  <2>3. \A w \in Writers : w # step => file'[w] = file[w]
    BY <1>12 DEF OpenFile, TypeOK
  <2>0. step = "collect_fixed_sqls" => rechecked' = rechecked
    BY <1>12, WritersAre DEF OpenFile, TypeOK
  <2>4. ASSUME NEW s \in Writers, StepNo(s) <= StepNo(step), NEW v, IsResult(s, v)
        PROVE  IsResult(s, v)'
    <3>1. \A w \in Writers : StepNo(w) < StepNo(s) => file'[w] = file[w]
      BY <1>0, <2>1, <2>3, <2>4
    <3>2. s = "collect_fixed_sqls" => step = "collect_fixed_sqls"
      BY <2>1, <2>4, WritersAre, StepNumbers
    <3> QED
      BY <2>0, <2>2, <2>4, <3>1, <3>2, ResultFrame
  <2>5. ASSUME NEW s \in Writers \ {"filter_syntax_fixed_sqls"}, done' >= StepNo(s)
        PROVE  IsResult(s, file[s])'
    <3>1. s # step /\ StepNo(s) <= StepNo(step) /\ done >= StepNo(s)
      BY <1>0, <2>1, <2>2, <2>5
    <3>2. IsResult(s, file[s]) /\ file'[s] = file[s]
      BY <2>3, <3>1 DEF ResultInv
    <3> QED
      BY <2>4, <3>1, <3>2
  <2>6. IsResult(step, out)'
    BY <1>0, <2>1, <2>2, <2>4 DEF ResultInv
  <2> QED
    BY <2>5, <2>6 DEF ResultInv
<1>13. CASE WriteFile
  <2>1. step \in Writers /\ done = StepNo(step) - 1 /\ done' = StepNo(step)
    BY <1>13, WritersAre DEF WriteFile, StepInv
  <2>2. UNCHANGED <<sqls, flaw, checked, rechecked>> /\ step' = "none"
    BY <1>13 DEF WriteFile, Idle
  <2>3. file'[step] = out /\ \A w \in Writers : w # step => file'[w] = file[w]
    BY <1>13, <2>1 DEF WriteFile, TypeOK
  <2>4. ASSUME NEW s \in Writers, StepNo(s) <= StepNo(step), NEW v, IsResult(s, v)
        PROVE  IsResult(s, v)'
    <3>1. \A w \in Writers : StepNo(w) < StepNo(s) => file'[w] = file[w]
      BY <1>0, <2>1, <2>3, <2>4
    <3> QED
      BY <2>2, <2>4, <3>1, ResultFrame
  <2>5. ASSUME NEW s \in Writers \ {"filter_syntax_fixed_sqls"}, done' >= StepNo(s)
        PROVE  IsResult(s, file[s])'
    <3>1. StepNo(s) <= StepNo(step)
      BY <2>1, <2>5
    <3>2. CASE s = step
      BY <2>3, <2>4, <3>1, <3>2 DEF ResultInv
    <3>3. CASE s # step
      <4>1. done >= StepNo(s)
        BY <1>0, <2>1, <3>1, <3>3, WritersAre, StepNumbers
      <4>2. IsResult(s, file[s]) /\ file'[s] = file[s]
        BY <2>3, <3>3, <4>1 DEF ResultInv
      <4> QED
        BY <2>4, <3>1, <4>2
    <3> QED
      BY <3>2, <3>3
  <2> QED
    BY <2>2, <2>5, WritersAre DEF ResultInv
<1>14. CASE Kill
  BY <1>0, <1>14, FilesKept, WritersAre DEF Kill, Idle, ResultInv
<1>16. CASE FilterCannotOpen
  <2>1. /\ UNCHANGED <<sqls, flaw, file, checked, rechecked>> /\ step' \notin Writers
        /\ done' = 5 /\ done >= 4
    BY <1>0, <1>16, WritersAre, StepNumbers DEF FilterCannotOpen, Run
  <2>2. \A w \in Writers \ {"filter_syntax_fixed_sqls"} : done' >= StepNo(w) => done >= StepNo(w)
    BY <1>0, <2>1, WritersAre, StepNumbers
  <2>3. \A w \in Writers \ {"filter_syntax_fixed_sqls"} :
          done' >= StepNo(w) => IsResult(w, file[w])'
    BY <2>1, <2>2, FilesKept
  <2> QED
    BY <2>1, <2>3 DEF ResultInv
<1>15. CASE UNCHANGED vars
  <2>1. /\ UNCHANGED <<sqls, flaw, file, checked, rechecked>> /\ step' = step /\ out' = out
        /\ done' \in Nat /\ done' <= done
    BY <1>0, <1>15 DEF vars
  <2>2. ASSUME step \in Writers
        PROVE  IsResult(step, out)'
    <3>1. \A v : IsResult(step, v) => IsResult(step, v)'
      BY <2>1, <2>2, ResultFrame
    <3> QED
      BY <2>1, <2>2, <3>1 DEF ResultInv
  <2> QED
    BY <1>0, <2>1, <2>2, FilesKept DEF ResultInv
<1> QED
  BY <1>1, <1>2, <1>3, <1>4, <1>5, <1>6, <1>7, <1>8, <1>9, <1>10, <1>11, <1>12,
     <1>13, <1>14, <1>15, <1>16
  DEF Next, Check, Collect

\* flaws.json stays what it is until a check opens it, and the repairs until they
\* are made again.
LEMMA RecheckFrame ==
  ASSUME RecheckInv, rechecked' = rechecked, ~ (step' = "llm_fixer" /\ pc' = "write"),
         file'["llm_fixer"] = file["llm_fixer"],
         file'["filter_syntax_fixed_sqls"] = file["filter_syntax_fixed_sqls"]
  PROVE  RecheckInv'
BY DEF RecheckInv, IsVerdict, FlawsOf

LEMMA RecheckPreserved ==
  ASSUME TypeOK, StepInv, ResultInv, RecheckInv, [Next]_vars
  PROVE  RecheckInv'
<1>0. {"llm_fixer", "filter_syntax_fixed_sqls"} \subseteq Writers /\ "syntax_check" \notin Writers
  BY WritersAre
<1>1. CASE OpenFile
  <2>1. /\ step \in Writers /\ step' = step /\ file'[step] = Corrupt
        /\ \A w \in Writers \ {step} : file'[w] = file[w]
        /\ rechecked' = IF step = "llm_fixer" THEN FALSE
                        ELSE step = "filter_syntax_fixed_sqls" \/ rechecked
    BY <1>1 DEF OpenFile, TypeOK
  <2>2. CASE step = "llm_fixer"
    BY <2>1, <2>2 DEF RecheckInv
  <2>3. CASE step = "filter_syntax_fixed_sqls"
    BY <2>1, <2>3 DEF RecheckInv, IsVerdict
  <2>4. CASE step \notin {"llm_fixer", "filter_syntax_fixed_sqls"}
    BY <1>0, <2>1, <2>4, RecheckFrame DEF TypeOK
  <2> QED
    BY <2>2, <2>3, <2>4
<1>2. CASE WriteFile
  <2>1. /\ step \in Writers /\ step' = "none" /\ file'[step] = out /\ rechecked' = rechecked
        /\ \A w \in Writers \ {step} : file'[w] = file[w]
    BY <1>2 DEF WriteFile, Idle, TypeOK
  <2>2. CASE step = "llm_fixer"
    BY <1>2, <2>1, <2>2 DEF WriteFile, RecheckInv
  <2>3. CASE step = "filter_syntax_fixed_sqls"
    <3>1. file'["filter_syntax_fixed_sqls"] \in {FlawsOf(file["llm_fixer"]), Corrupt}
      BY <2>1, <2>3 DEF ResultInv, IsResult, IsVerdict
    <3>2. file'["llm_fixer"] = file["llm_fixer"]
      BY <1>0, <2>1, <2>3
    <3> QED
      BY <2>1, <3>1, <3>2 DEF RecheckInv, IsVerdict, FlawsOf
  <2>4. CASE step \notin {"llm_fixer", "filter_syntax_fixed_sqls"}
    BY <1>0, <2>1, <2>4, RecheckFrame
  <2> QED
    BY <2>2, <2>3, <2>4
<1>3. ASSUME NEW s \in Writers, NEW result, Compute(s, result)
      PROVE  RecheckInv'
  BY <1>3, RecheckFrame DEF Compute, Begin, Run, StepInv
<1>4. CASE Collect
  <2>1. CASE (\E s \in Writers : Raise(s)) \/ FilterCannotOpen
    BY <2>1, RecheckFrame DEF Raise, FilterCannotOpen, Run
  <2> QED
    BY <1>3, <1>4, <2>1, WritersAre
    DEF Collect, CollectFlawSqls, LlmFixer, FilterSyntaxFixedSqls,
        CollectCorrectSql, CollectFixedSqls
<1>5. CASE Write \/ SyntaxClean \/ Check
  <2>1. /\ rechecked' = rechecked /\ file' = file
        /\ step' \in {"none", "syntax_check"}
    BY <1>5 DEF Write, WriteSection, SyntaxClean, Check, SyntaxCheck, Begin, Run,
       CheckCannotOpen, CheckOpen, CheckWrite, CheckFails, CheckNext, SyntaxCheckDone, Idle
  <2> QED
    BY <2>1, RecheckFrame
<1>6. CASE Kill
  BY <1>6, RecheckFrame DEF Kill, Idle
<1>7. CASE UNCHANGED vars
  BY <1>7 DEF vars, RecheckInv, IsVerdict, FlawsOf
<1> QED
  BY <1>1, <1>2, <1>4, <1>5, <1>6, <1>7 DEF Next

-----------------------------------------------------------------------------
LEMMA InitInv == Init => IInv
<1>1. ASSUME Init
      PROVE  done = 0 /\ step = "none" /\ step \notin Writers /\ pc = "open"
  BY <1>1, WritersAre DEF Init
<1>2. \A s \in Writers : StepNo(s) \in 3..7
  BY WritersAre, StepNumbers
<1>3. ASSUME Init
      PROVE  CheckInv /\ RecheckInv
  BY <1>1, <1>3 DEF Init, CheckInv, RecheckInv
<1>4. ASSUME Init
      PROVE  ResultInv
  BY <1>1, <1>2, <1>4 DEF ResultInv
<1> QED
  BY <1>1, <1>3, <1>4, InitType DEF IInv, StepInv

LEMMA Invariant == Spec => []IInv
<1>1. IInv /\ [Next]_vars => IInv'
  BY NextType, StepPreserved, CheckPreserved, ResultPreserved, RecheckPreserved DEF IInv
<1> QED
  BY <1>1, InitInv, PTL DEF Spec

\* What is known of the files of the steps that are done.
LEMMA FilesDone ==
  ASSUME IInv
  PROVE  /\ Done("collect_flaw_sqls") => IsJoin(file["collect_flaw_sqls"])
         /\ Done("llm_fixer") => IsRepair(file["llm_fixer"])
         /\ Done("collect_correct_sql") =>
              /\ IsCorrect(file["collect_correct_sql"])
              /\ Done("llm_fixer") /\ Done("collect_flaw_sqls")
         /\ Done("collect_fixed_sqls") =>
              /\ IsFixed(file["collect_fixed_sqls"])
              /\ Done("collect_correct_sql")
<1>1. done \in Nat
  BY RunningAre DEF IInv, TypeOK
<1> QED
  BY <1>1, WritersAre, StepNumbers DEF IInv, ResultInv, IsResult, Done

\* A broken SQL text is kept as correct only if a check of one of its section
\* files did not get to open the flaw file.
THEOREM CollectedSqlParses == Spec => []CorrectSqlParses
<1>1. IInv => CorrectSqlParses
  BY FilesDone DEF CorrectSqlParses, IsCorrect
<1> QED
  BY <1>1, Invariant, PTL

\* Every repaired SQL text that is kept parses, if the check of the repairs got to
\* open flaws.json.
THEOREM RepairedSqlParses == Spec => []FixedSqlParses
<1>1. IInv => FixedSqlParses
  BY FilesDone DEF FixedSqlParses, IsFixed
<1> QED
  BY <1>1, Invariant, PTL

\* No message is in both outputs: a repaired one had an error, which keeps it
\* out of the correct ones.
THEOREM OutputsStayDisjoint == Spec => []OutputsAreDisjoint
<1>1. ASSUME IInv, Done("collect_fixed_sqls"), NEW m \in Msgs,
             file["collect_fixed_sqls"][m] # NoSql
      PROVE  file["collect_correct_sql"][m] = NoSql
  <2>1. file["llm_fixer"][m] # NoSql
    BY <1>1, FilesDone DEF IsFixed
  <2>2. file["collect_flaw_sqls"][m] # NoSql
    BY <1>1, <2>1, FilesDone DEF IsRepair
  <2>3. Holding(flaw, m) # {}
    BY <1>1, <2>2, FilesDone DEF IsJoin
  <2> QED
    BY <1>1, <2>3, FilesDone DEF IsCorrect
<1>2. IInv => OutputsAreDisjoint
  BY <1>1 DEF OutputsAreDisjoint
<1> QED
  BY <1>2, Invariant, PTL

\* A message of a section file is correct or was given to the repair, and no
\* other message is.
THEOREM NoMessageGetsLost == Spec => []NoMessageIsDropped
<1>1. ASSUME IInv, Done("collect_correct_sql"), NEW m \in Msgs
      PROVE  (/\ file["collect_correct_sql"][m] = NoSql
              /\ file["collect_flaw_sqls"][m] = NoSql) <=> Holding(sqls, m) = {}
  <2>1. IsJoin(file["collect_flaw_sqls"]) /\ IsCorrect(file["collect_correct_sql"])
    BY <1>1, FilesDone
  <2>2. file["collect_flaw_sqls"][m] = NoSql <=> Holding(flaw, m) = {} \/ Holding(sqls, m) = {}
    BY <2>1 DEF IsJoin
  <2> QED
    BY <2>1, <2>2 DEF IsCorrect
<1>2. IInv => NoMessageIsDropped
  BY <1>1 DEF NoMessageIsDropped
<1> QED
  BY <1>2, Invariant, PTL

\* The error that is sent to the repair is that of an SQL text the message has, and
\* of the one it is sent with if it has only one, if the checks of the flaw files
\* that have the message got to open them.
THEOREM HintsStayCurrent == Spec => []HintsAreCurrent
<1> DEFINE f(m) == file["collect_flaw_sqls"][m]
<1>1. ASSUME IInv, Done("collect_flaw_sqls"), NEW m \in Msgs,
             f(m) # NoSql, Holding(flaw, m) \subseteq checked
      PROVE  /\ \E n \in Holding(sqls, m) : f(m).error_hint = sqls[n][m]
             /\ Cardinality(Holding(sqls, m)) = 1 => f(m).error_hint = f(m).sql
  <2>1. IsFiniteSet(Holding(sqls, m))
    BY NamesAssumption, FS_Subset DEF Holding
  <2>2. IsJoin(file["collect_flaw_sqls"])
    BY <1>1, FilesDone
  <2>3. PICK i \in Holding(sqls, m), j \in Holding(flaw, m) :
          f(m).sql = sqls[i][m] /\ f(m).error_hint = flaw[j][m]
    BY <1>1, <2>2 DEF IsJoin
  <2>4. j \in Holding(sqls, m) /\ flaw[j][m] = sqls[j][m]
    BY <1>1, <2>2 DEF IsJoin
  <2>5. ASSUME Cardinality(Holding(sqls, m)) = 1
        PROVE  i = j
    <3>1. PICK n : Holding(sqls, m) = {n}
      BY <2>1, <2>5, FS_Singleton
    <3> QED
      BY <2>4, <3>1
  <2> QED
    BY <2>3, <2>4, <2>5
<1>2. IInv => HintsAreCurrent
  BY <1>1 DEF HintsAreCurrent
<1> QED
  BY <1>2, Invariant, PTL
=============================================================================
