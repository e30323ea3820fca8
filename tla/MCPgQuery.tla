----------------------------- MODULE MCPgQuery -----------------------------
(***************************************************************************)
(* The main thread, which may call pg_query_exit, and another thread.       *)
(***************************************************************************)
EXTENDS PgQuery

CONSTANTS main, worker

MCThreads == {main, worker}
MCExits == {main}
MCContexts == 1..6
MCFrames == 1..7
=============================================================================
