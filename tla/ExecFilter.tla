----------------------------- MODULE ExecFilter -----------------------------
(***************************************************************************)
(* execution_filter.py: execute every collected SQL snippet on a            *)
(* PostgreSQL database over one connection, and save those that execute     *)
(* without an error to ./seeds/{idx}.sql.                                   *)
(*                                                                         *)
(* PostgreSQL and SQLAlchemy are external.  A snippet is a sequence of      *)
(* statements that create or use a database object or end the transaction;  *)
(* psycopg2 sends it as one query inside a transaction block.  A statement  *)
(* after a COMMIT or ROLLBACK is in a transaction of its own, which ends    *)
(* with the query.                                                          *)
(***************************************************************************)
EXTENDS Naturals, Sequences

CONSTANTS
  Objects,   \* names of database objects
  Inputs,    \* the lists of snippets the run may load (correct, then fixed)
  MaxSeeds,  \* bound: files of ./seeds
  NoFile,    \* ./seeds/{idx}.sql does not exist
  Empty      \* ./seeds/{idx}.sql after open(path, "w")

Statement == [op : {"create", "use"}, obj : Objects]
               \cup [op : {"commit", "rollback"}]
Snippet == Seq(Statement)

ASSUME ExecFilterAssumption ==
  /\ MaxSeeds \in Nat
  /\ \A in \in Inputs :
       /\ in \in Seq(Snippet)
       /\ Len(in) <= MaxSeeds

VARIABLES
  sqls,     \* the snippets of this run
  pc,       \* where the script is; "stopped" when it is not running
  cnt,      \* snippets tried
  pos,      \* statements of the current snippet executed
  db,       \* database objects committed
  work,     \* database objects the open transaction sees
  seeds,    \* seed_sql_snippets, as indexes into sqls
  dir,      \* ./seeds, by file number + 1
  saved,    \* files of this run written
  db0       \* history: db when the run started

vars == <<sqls, pc, cnt, pos, db, work, seeds, dir, saved, db0>>

TypeOK ==
  /\ sqls \in Inputs
  /\ pc \in {"stopped", "loop", "exec", "committed", "save", "saving"}
  /\ cnt \in 0..Len(sqls)
  /\ pos \in Nat
  /\ db \subseteq Objects
  /\ work \subseteq Objects
  /\ seeds \in Seq(1..Len(sqls))
  /\ DOMAIN dir = 1..MaxSeeds
  /\ saved \in 0..Len(seeds)
  /\ db0 \subseteq Objects

Init ==
  /\ sqls \in Inputs
  /\ pc = "stopped"
  /\ cnt = 0
  /\ pos = 0
  /\ db = {}
  /\ work = {}
  /\ seeds = <<>>
  /\ dir = [f \in 1..MaxSeeds |-> NoFile]
  /\ saved = 0
  /\ db0 = {}

\* Read both files of collected SQL (other ones than the last run, perhaps).
Start ==
  /\ pc = "stopped"
  /\ sqls' \in Inputs
  /\ pc' = "loop"
  /\ cnt' = 0
  /\ pos' = 0
  /\ work' = db
  /\ seeds' = <<>>
  /\ saved' = 0
  /\ db0' = db
  /\ UNCHANGED <<db, dir>>

\* conn.begin().
Begin ==
  /\ pc = "loop"
  /\ cnt < Len(sqls)
  /\ pc' = "exec"
  /\ pos' = 0
  /\ work' = db
  /\ UNCHANGED <<sqls, cnt, db, seeds, dir, saved, db0>>

\* What PostgreSQL does with one statement: whether it is accepted, and the
\* objects committed and seen afterwards.
Accepts(st, seen) ==
  CASE st.op = "create" -> st.obj \notin seen
    [] st.op = "use"    -> st.obj \in seen
    [] OTHER            -> TRUE
Seen(st, committed, seen) ==
  CASE st.op = "create"   -> seen \cup {st.obj}
    [] st.op = "rollback" -> committed
    [] OTHER              -> seen
Committed(st, committed, seen) == IF st.op = "commit" THEN seen ELSE committed

Execute ==
  /\ pc = "exec"
  /\ pos < Len(sqls[cnt + 1])
  /\ LET st == sqls[cnt + 1][pos + 1]
     IN  /\ Accepts(st, work)
         /\ work' = Seen(st, db, work)
         /\ db' = Committed(st, db, work)
  /\ pos' = pos + 1
  /\ UNCHANGED <<sqls, pc, cnt, seeds, dir, saved, db0>>

\* Mutant: the transaction of a snippet that failed stays open.
ExecuteFailsWithoutRollback ==
  /\ pc = "exec"
  /\ pos < Len(sqls[cnt + 1])
  /\ pc' = "loop"
  /\ cnt' = cnt + 1
  /\ db' = work
  /\ UNCHANGED <<sqls, pos, work, seeds, dir, saved, db0>>

\* A statement that is not accepted, or runs into the statement timeout, raises:
\* the transaction that is open is rolled back, and the snippet is no seed.
ExecuteFails ==
  /\ pc = "exec"
  /\ pos < Len(sqls[cnt + 1])
  /\ pc' = "loop"
  /\ cnt' = cnt + 1
  /\ work' = db
  /\ UNCHANGED <<sqls, pos, db, seeds, dir, saved, db0>>

\* Leaving "with conn.begin()" commits.
Commit ==
  /\ pc = "exec"
  /\ pos = Len(sqls[cnt + 1])
  /\ db' = work
  /\ pc' = "committed"
  /\ UNCHANGED <<sqls, cnt, pos, work, seeds, dir, saved, db0>>

\* COMMIT may raise too (a deferred constraint, a lost connection).
CommitFails ==
  /\ pc = "exec"
  /\ pos = Len(sqls[cnt + 1])
  /\ pc' = "loop"
  /\ cnt' = cnt + 1
  /\ work' = db
  /\ UNCHANGED <<sqls, pos, db, seeds, dir, saved, db0>>

\* Mutant: the counter is appended after it was advanced.
RollbackOffByOne ==
  /\ pc = "committed"
  /\ seeds' = Append(seeds, cnt + 2)
  /\ cnt' = cnt + 1
  /\ pc' = "loop"
  /\ UNCHANGED <<sqls, pos, db, work, dir, saved, db0>>

\* trans.rollback() on a transaction that has ended does nothing.
Rollback ==
  /\ pc = "committed"
  /\ seeds' = Append(seeds, cnt + 1)
  /\ cnt' = cnt + 1
  /\ pc' = "loop"
  /\ UNCHANGED <<sqls, pos, db, work, dir, saved, db0>>

Executed ==
  /\ pc = "loop"
  /\ cnt = Len(sqls)
  /\ pc' = "save"
  /\ UNCHANGED <<sqls, cnt, pos, db, work, seeds, dir, saved, db0>>

OpenSeed ==
  /\ pc = "save"
  /\ saved < Len(seeds)
  /\ dir' = [dir EXCEPT ![saved + 1] = Empty]
  /\ pc' = "saving"
  /\ UNCHANGED <<sqls, cnt, pos, db, work, seeds, saved, db0>>

\* Mutant: files are numbered by the position of the snippet in the input.
WriteSeedByPosition ==
  /\ pc = "saving"
  /\ dir' = [dir EXCEPT ![seeds[saved + 1]] = sqls[seeds[saved + 1]]]
  /\ saved' = saved + 1
  /\ pc' = "save"
  /\ UNCHANGED <<sqls, cnt, pos, db, work, seeds, db0>>

WriteSeed ==
  /\ pc = "saving"
  /\ dir' = [dir EXCEPT ![saved + 1] = sqls[seeds[saved + 1]]]
  /\ saved' = saved + 1
  /\ pc' = "save"
  /\ UNCHANGED <<sqls, cnt, pos, db, work, seeds, db0>>

Finish ==
  /\ pc = "save"
  /\ saved = Len(seeds)
  /\ pc' = "stopped"
  /\ UNCHANGED <<sqls, cnt, pos, db, work, seeds, dir, saved, db0>>

\* The script is killed: the server rolls its open transaction back.
Kill ==
  /\ pc # "stopped"
  /\ pc' = "stopped"
  /\ work' = db
  /\ UNCHANGED <<sqls, cnt, pos, db, seeds, dir, saved, db0>>

\* The user gives the script an empty database again.
ResetDatabase ==
  /\ pc = "stopped"
  /\ db' = {}
  /\ work' = {}
  /\ UNCHANGED <<sqls, pc, cnt, pos, seeds, dir, saved, db0>>

Next ==
  \/ Start \/ Begin \/ Execute \/ ExecuteFails \/ Commit \/ CommitFails
  \/ Rollback \/ Executed \/ OpenSeed \/ WriteSeed \/ Finish \/ Kill
  \/ ResetDatabase

Spec == Init /\ [][Next]_vars

-----------------------------------------------------------------------------
\* A database as a reference definition: the state of a query, then the query.
Step(s, st) ==
  IF s.ok /\ Accepts(st, s.seen)
  THEN [ok |-> TRUE, db |-> Committed(st, s.db, s.seen),
        seen |-> Seen(st, s.db, s.seen)]
  ELSE [s EXCEPT !.ok = FALSE]
Ended(s) == IF s.ok THEN [s EXCEPT !.db = s.seen] ELSE s
Query(s, snippet) ==
  LET after[n \in 0..Len(snippet)] ==
        IF n = 0 THEN [ok |-> s.ok, db |-> s.db, seen |-> s.db]
        ELSE Step(after[n - 1], snippet[n])
  IN  Ended(after[Len(snippet)])
Replay(objs, list) ==
  LET after[n \in 0..Len(list)] ==
        IF n = 0 THEN [ok |-> TRUE, db |-> objs, seen |-> objs]
        ELSE Query(after[n - 1], list[n])
  IN  after[Len(list)]

NoTransactionControl ==
  \A i \in 1..Len(sqls) : \A j \in 1..Len(sqls[i]) :
    sqls[i][j].op \in {"create", "use"}

SeedList == [k \in 1..Len(seeds) |-> sqls[seeds[k]]]

\* What a run may rely on, although it commits what it was to roll back (see
\* SeedsAreIndependent): a snippet that fails half-way leaves no trace.  So the
\* seeds alone, executed one after the other where the run started, all succeed
\* and build the database as it is, unless a snippet ends the transaction it
\* runs in.
SeedsReplay ==
  pc = "loop" /\ NoTransactionControl =>
    LET end == Replay(db0, SeedList) IN end.ok /\ end.db = db

\* While a run saves its seeds, and when it has, the files it has written are
\* its first seeds in order, and no other run's file is among them.
SavedSeedsAreFirst ==
  pc \in {"save", "stopped"} => \A k \in 1..saved : dir[k] = sqls[seeds[k]]

-----------------------------------------------------------------------------
\* What the script says of its seeds, which it does not keep: "Rollback the
\* transaction to prevent changes" and "SQL snippet can be executed
\* independently".  Each seed alone succeeds where the run started; if that is
\* the empty database of README.md, step 8, on an empty database.
SeedsAreIndependent ==
  \A k \in 1..Len(seeds) : Replay(db0, <<sqls[seeds[k]]>>).ok
=============================================================================
