------------------------------ MODULE Pipeline ------------------------------
(***************************************************************************)
(* Steps 4 to 7 of the README: the section files llm_extract.py writes, the *)
(* syntax check of each of them, the repair of the flawed SQL, and the      *)
(* scripts that collect correct and repaired SQL for the execution filter.  *)
(* The steps communicate through files under ./tmp only; none looks at the  *)
(* exit status of another.  The user runs them in the README's order, may   *)
(* go back to any step already done, and runs a step again when it raised   *)
(* or was killed.  Extract and SyntaxValid model two of the steps in full.  *)
(***************************************************************************)
EXTENDS Naturals, Sequences, FiniteSets

CONSTANTS
  Msgs,      \* message ids
  Sqls,      \* SQL texts
  Broken,    \* the SQL texts the parser rejects
  Names,     \* names of section files
  Sections,  \* the dicts a section file may hold
  NoSql,     \* a message that is not in a dict
  Missing,   \* no file
  Corrupt    \* a file truncated by a step that has not written it

Dict(values) == [Msgs -> values \cup {NoSql}]

ASSUME PipelineAssumption ==
  /\ Broken \subseteq Sqls
  /\ Sections \subseteq Dict(Sqls)

\* The steps in the README's order, and those that write a file of their own.
Steps == <<"llm_extract", "syntax_check", "collect_flaw_sqls", "llm_fixer",
           "filter_syntax_fixed_sqls", "collect_correct_sql",
           "collect_fixed_sqls">>
StepNo(s) == CHOOSE i \in 1..Len(Steps) : Steps[i] = s
Writers == {Steps[i] : i \in 3..Len(Steps)}

\* An error message is identified with the SQL text it is about.
Flawed == [sql : Sqls, error_hint : Broken]

ASSUME NamesAssumption == IsFiniteSet(Names)
ASSUME ValuesAssumption ==
  /\ NoSql \notin Sqls \cup Flawed
  /\ Missing # Corrupt
  /\ {Missing, Corrupt} \cap (Dict(Sqls) \cup Dict(Flawed)) = {}

VARIABLES
  sqls,    \* ./tmp/raw/sqls/{name}.json
  flaw,    \* ./tmp/raw/flaw/{name}.json
  file,    \* the file each of Writers writes
  done,    \* number of the last README step of this pass that ended normally
  step,    \* the step that is running, or "none"
  pc,      \* where it is: about to open a file, or to write it
  out,     \* a writer's result
  todo,    \* syntax_check: section files not checked yet
  cur,     \* syntax_check: the section file being checked, or Missing
  checked, \* history: section files whose flaw file was opened by a check since
           \* they were written
  rechecked \* history: flaws.json was opened by a check since llm_fixer wrote

vars == <<sqls, flaw, file, done, step, pc, out, todo, cur, checked, rechecked>>

\* What a writer's file may hold.
Result == Dict(Sqls) \cup Dict(Flawed)

TypeOK ==
  /\ sqls \in [Names -> Sections \cup {Missing, Corrupt}]
  /\ flaw \in [Names -> Dict(Broken) \cup {Missing, Corrupt}]
  /\ file \in [Writers -> Result \cup {Missing, Corrupt}]
  /\ done \in 0..Len(Steps)
  /\ step \in {Steps[i] : i \in 2..Len(Steps)} \cup {"none"}
  /\ pc \in {"open", "write"}
  /\ out \in Result \cup {Missing, Corrupt}
  /\ todo \subseteq Names
  /\ cur \in Names \cup {Missing}
  /\ checked \subseteq Names
  /\ rechecked \in BOOLEAN

Init ==
  /\ sqls = [n \in Names |-> Missing]
  /\ flaw = [n \in Names |-> Missing]
  /\ file = [w \in Writers |-> Missing]
  /\ done = 0
  /\ step = "none"
  /\ pc = "open"
  /\ out = Missing
  /\ todo = {}
  /\ cur = Missing
  /\ checked = {}
  /\ rechecked = FALSE

-----------------------------------------------------------------------------
\* The user runs step s: the one after the last that is done, or an earlier one.
Run(s) ==
  /\ step = "none"
  /\ StepNo(s) <= done + 1

Begin(s) ==
  /\ Run(s)
  /\ step' = s
  /\ done' = StepNo(s) - 1

\* The step ends; its memory is gone.
Idle ==
  /\ step' = "none"
  /\ pc' = "open"
  /\ out' = Missing
  /\ todo' = {}
  /\ cur' = Missing

\* llm_extract.py writes a section file, and may be killed while it does.  It
\* can write a message into two files: answers that were saved but not recorded
\* are asked for again, and files get other names when a call fails.
WriteSection(n, body) ==
  /\ Run("llm_extract")
  /\ sqls' = [sqls EXCEPT ![n] = body]
  /\ done' = IF body = Corrupt THEN 0 ELSE 1
  /\ checked' = checked \ {n}
  /\ UNCHANGED <<flaw, file, step, pc, out, todo, cur, rechecked>>

\* syntax_clean.sh removes the flaw files (and the reports).
SyntaxClean ==
  /\ step = "none"
  /\ flaw' = [n \in Names |-> Missing]
  /\ done' = IF done = 0 THEN 0 ELSE 1
  /\ checked' = {}
  /\ UNCHANGED <<sqls, file, step, pc, out, todo, cur, rechecked>>

-----------------------------------------------------------------------------
\* syntax_check.sh lists the section files, and runs syntax_valid on each.
SyntaxCheck ==
  /\ Begin("syntax_check")
  /\ todo' = {n \in Names : sqls[n] # Missing}
  /\ UNCHANGED <<sqls, flaw, file, pc, out, cur, checked, rechecked>>

\* Mutant: the program writes an entry for every message.
FlawsOfAll(d) == d

\* The broken entries of a dict.
FlawsOf(d) == [m \in Msgs |-> IF d[m] \in Broken THEN d[m] ELSE NoSql]

\* syntax_valid ends before it has opened the flaw file: the report or the flaw
\* file cannot be opened, or it is killed.  An older flaw file stays.
CheckCannotOpen(n) ==
  /\ step = "syntax_check"
  /\ pc = "open"
  /\ n \in todo
  /\ todo' = todo \ {n}
  /\ UNCHANGED <<sqls, flaw, file, done, step, pc, out, cur, checked, rechecked>>

\* Mutant: syntax_valid leaves the flaw file alone until it has a verdict.
CheckOpenWithoutTruncating(n) ==
  /\ step = "syntax_check"
  /\ pc = "open"
  /\ n \in todo
  /\ checked' = checked \cup {n}
  /\ cur' = n
  /\ pc' = "write"
  /\ UNCHANGED <<sqls, flaw, file, done, step, out, todo, rechecked>>

\* syntax_valid truncates the flaw file before it reads the section file.
CheckOpen(n) ==
  /\ step = "syntax_check"
  /\ pc = "open"
  /\ n \in todo
  /\ flaw' = [flaw EXCEPT ![n] = Corrupt]
  /\ checked' = checked \cup {n}
  /\ cur' = n
  /\ pc' = "write"
  /\ UNCHANGED <<sqls, file, done, step, out, todo, rechecked>>

CheckNext ==
  /\ todo' = todo \ {cur}
  /\ cur' = Missing
  /\ pc' = "open"
  /\ UNCHANGED <<sqls, file, done, step, out, checked, rechecked>>

\* It writes the verdict of a section file it can read.
CheckWrite ==
  /\ step = "syntax_check"
  /\ pc = "write"
  /\ sqls[cur] # Corrupt
  /\ flaw' = [flaw EXCEPT ![cur] = FlawsOf(sqls[cur])]
  /\ CheckNext

\* It fails on a section file it cannot read, or crashes; the shell goes on.
CheckFails ==
  /\ step = "syntax_check"
  /\ pc = "write"
  /\ UNCHANGED flaw
  /\ CheckNext

SyntaxCheckDone ==
  /\ step = "syntax_check"
  /\ pc = "open"
  /\ todo = {}
  /\ done' = StepNo("syntax_check")
  /\ Idle
  /\ UNCHANGED <<sqls, flaw, file, checked, rechecked>>

-----------------------------------------------------------------------------
Readable(dir) == \A n \in Names : dir[n] # Corrupt
Holding(dir, m) == {n \in Names : dir[n] # Missing /\ dir[n][m] # NoSql}

\* Mutant: the last file replaces what was loaded before.
MergesLast(dir) ==
  LET files == {n \in Names : dir[n] # Missing}
  IN  IF files = {} THEN {[m \in Msgs |-> NoSql]} ELSE {dir[n] : n \in files}

\* The dicts that dict.update makes of a directory's files: os.listdir gives
\* them in any order, and the last file that has a message decides.
Merges(dir) ==
  {[m \in Msgs |-> IF Holding(dir, m) = {} THEN NoSql
                   ELSE LET last == CHOOSE n \in Holding(dir, m) :
                                      \A k \in Holding(dir, m) : pos[k] <= pos[n]
                        IN dir[last][m]] :
     pos \in {p \in [Names -> 1..Cardinality(Names)] :
                \A i, j \in Names : p[i] = p[j] => i = j}}

\* A writer has read its inputs and computed what it will write.
Compute(s, result) ==
  /\ Begin(s)
  /\ out' = result
  /\ UNCHANGED <<sqls, flaw, file, pc, todo, cur, checked, rechecked>>

\* collect_flaw_sqls.py joins the SQL of a message with its error.
CollectFlawSqls ==
  /\ Readable(sqls)
  /\ Readable(flaw)
  /\ \E raw \in Merges(sqls), hints \in Merges(flaw) :
       Compute("collect_flaw_sqls",
         [m \in Msgs |-> IF hints[m] = NoSql \/ raw[m] = NoSql THEN NoSql
                         ELSE [sql |-> raw[m], error_hint |-> hints[m]]])

\* llm_fixer.py asks for a repair of each; failed and empty answers are dropped.
LlmFixer ==
  /\ file["collect_flaw_sqls"] \notin {Missing, Corrupt}
  /\ \E answer \in Dict(Sqls) :
       /\ \A m \in Msgs : file["collect_flaw_sqls"][m] = NoSql => answer[m] = NoSql
       /\ Compute("llm_fixer", answer)

\* filter_syntax_fixed_sqls.sh runs syntax_valid on the repaired SQL; a crash
\* after the opening of flaws.json leaves it empty.
FilterSyntaxFixedSqls ==
  /\ file["llm_fixer"] \notin {Missing, Corrupt}
  /\ \E result \in {FlawsOf(file["llm_fixer"]), Corrupt} :
       Compute("filter_syntax_fixed_sqls", result)

\* It cannot open report.txt or flaws.json in ./tmp/raw/fixed, a directory that
\* no script makes, or is killed before: an older flaws.json stays.
FilterCannotOpen ==
  /\ Run("filter_syntax_fixed_sqls")
  /\ done' = StepNo("filter_syntax_fixed_sqls")
  /\ UNCHANGED <<sqls, flaw, file, step, pc, out, todo, cur, checked, rechecked>>

\* Mutant: flawed messages are not left out.
CollectCorrectSqlAll ==
  /\ Readable(sqls)
  /\ Readable(flaw)
  /\ \E raw \in Merges(sqls) : Compute("collect_correct_sql", raw)

\* collect_correct_sql.py keeps the SQL of the messages without an error.
CollectCorrectSql ==
  /\ Readable(sqls)
  /\ Readable(flaw)
  /\ \E raw \in Merges(sqls), flaw_sqls \in Merges(flaw) :
       Compute("collect_correct_sql",
         [m \in Msgs |-> IF flaw_sqls[m] = NoSql THEN raw[m] ELSE NoSql])

\* collect_fixed_sqls.py keeps the repaired SQL that parses.
CollectFixedSqls ==
  /\ file["llm_fixer"] \notin {Missing, Corrupt}
  /\ file["filter_syntax_fixed_sqls"] \notin {Missing, Corrupt}
  /\ Compute("collect_fixed_sqls",
       [m \in Msgs |-> IF file["filter_syntax_fixed_sqls"][m] = NoSql
                       THEN file["llm_fixer"][m] ELSE NoSql])

\* open or json.load raises on a missing or truncated file, before anything is
\* written.
Raise(s) ==
  /\ Run(s)
  /\ \/ /\ s \in {"collect_flaw_sqls", "collect_correct_sql"}
        /\ ~Readable(sqls) \/ ~Readable(flaw)
     \/ /\ s = "collect_fixed_sqls"
        /\ file["filter_syntax_fixed_sqls"] \in {Missing, Corrupt}
  /\ done' = StepNo(s) - 1
  /\ UNCHANGED <<sqls, flaw, file, step, pc, out, todo, cur, checked, rechecked>>

\* Mutant: the check of the repairs leaves flaws.json alone until it has a verdict.
OpenFileWithoutTruncating ==
  /\ step \in Writers
  /\ pc = "open"
  /\ file' = IF step = "filter_syntax_fixed_sqls" THEN file
             ELSE [file EXCEPT ![step] = Corrupt]
  /\ rechecked' = IF step = "llm_fixer" THEN FALSE
                  ELSE step = "filter_syntax_fixed_sqls" \/ rechecked
  /\ pc' = "write"
  /\ UNCHANGED <<sqls, flaw, done, step, out, todo, cur, checked>>

OpenFile ==
  /\ step \in Writers
  /\ pc = "open"
  /\ file' = [file EXCEPT ![step] = Corrupt]
  /\ rechecked' = IF step = "llm_fixer" THEN FALSE
                  ELSE step = "filter_syntax_fixed_sqls" \/ rechecked
  /\ pc' = "write"
  /\ UNCHANGED <<sqls, flaw, done, step, out, todo, cur, checked>>

WriteFile ==
  /\ step \in Writers
  /\ pc = "write"
  /\ file' = [file EXCEPT ![step] = out]
  /\ done' = StepNo(step)
  /\ Idle
  /\ UNCHANGED <<sqls, flaw, checked, rechecked>>

\* A step is killed, or raises at a later point.
Kill ==
  /\ step # "none"
  /\ Idle
  /\ UNCHANGED <<sqls, flaw, file, done, checked, rechecked>>

Write == \E n \in Names, body \in Sections \cup {Corrupt} : WriteSection(n, body)
Check == SyntaxCheck \/ (\E n \in Names : CheckCannotOpen(n) \/ CheckOpen(n))
           \/ CheckWrite \/ CheckFails \/ SyntaxCheckDone
Collect == CollectFlawSqls \/ LlmFixer \/ FilterSyntaxFixedSqls
             \/ FilterCannotOpen \/ CollectCorrectSql \/ CollectFixedSqls
             \/ \E s \in Writers : Raise(s)

Next == Write \/ SyntaxClean \/ Check \/ Collect \/ OpenFile \/ WriteFile \/ Kill

Spec == Init /\ [][Next]_vars

-----------------------------------------------------------------------------
Done(s) == done >= StepNo(s)

\* A broken SQL text is kept as correct only if the last run of syntax_valid on
\* a section file that has the message did not get to open the flaw file.  A
\* run that fails or crashes later does no harm, although syntax_check.sh ignores
\* it: it leaves a file that makes the collection raise.
CorrectSqlParses ==
  Done("collect_correct_sql") =>
    \A m \in Msgs :
      file["collect_correct_sql"][m] \in Broken => ~ (Holding(sqls, m) \subseteq checked)

\* Every repaired SQL text that is kept parses, if syntax_valid got to open
\* flaws.json since the repairs were made: later failures do no harm.
FixedSqlParses ==
  Done("collect_fixed_sqls") /\ rechecked =>
    \A m \in Msgs : file["collect_fixed_sqls"][m] \notin Broken

\* execution_filter.py merges the two outputs with dict.update; no message is
\* in both, so that neither hides an entry of the other.
OutputsAreDisjoint ==
  Done("collect_fixed_sqls") =>
    \A m \in Msgs : NoSql \in {file["collect_correct_sql"][m],
                               file["collect_fixed_sqls"][m]}

\* The collection partitions what was extracted: every message of a section
\* file is either correct or was given to the repair.
NoMessageIsDropped ==
  Done("collect_correct_sql") =>
    \A m \in Msgs :
      (file["collect_correct_sql"][m] = NoSql /\ file["collect_flaw_sqls"][m] = NoSql)
        <=> Holding(sqls, m) = {}

\* The error that is sent to the repair is that of an SQL text the message has
\* now, and the one it is sent with if it has only one: no verdict of an earlier
\* pass is used, if every check got to open the flaw files that have the message.
HintsAreCurrent ==
  Done("collect_flaw_sqls") =>
    \A m \in Msgs :
      LET f == file["collect_flaw_sqls"][m]
      IN  f # NoSql /\ Holding(flaw, m) \subseteq checked =>
            /\ \E n \in Holding(sqls, m) : f.error_hint = sqls[n][m]
            /\ Cardinality(Holding(sqls, m)) = 1 => f.error_hint = f.sql
=============================================================================
