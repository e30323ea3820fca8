--------------------------- MODULE MCExecFilter ---------------------------
(***************************************************************************)
(* Instances of ExecFilter for TLC.                                        *)
(***************************************************************************)
EXTENDS ExecFilter

CONSTANTS a, b

MCObjects == {a, b}

Create(o) == [op |-> "create", obj |-> o]
Use(o) == [op |-> "use", obj |-> o]
CommitStatement == [op |-> "commit"]
RollbackStatement == [op |-> "rollback"]

\* Snippets that depend on, repeat or partly repeat one another, and snippets
\* that end their transaction before they fail.
MCInputs == {
  <<<<Create(a)>>, <<Use(a), Create(b)>>, <<Create(b), Use(a)>>>>,
  <<<<Create(a), Create(a)>>, <<Create(a), Use(a)>>>>,
  <<<<Create(b), CommitStatement, Use(a)>>,
    <<Create(a), RollbackStatement, Create(a)>>>>}
============================================================================
