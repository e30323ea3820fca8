---------------------------- MODULE MCPipeline ----------------------------
(***************************************************************************)
(* Instances of Pipeline for TLC.                                          *)
(***************************************************************************)
EXTENDS Pipeline, TLC

CONSTANTS m1, m2, good, bad

MCMsgs == {m1, m2}
MCSqls == {good, bad}
MCBroken == {bad}

\* One message with correct SQL beside a broken one, or with broken SQL.
MCSections == {(m1 :> good) @@ (m2 :> bad), (m1 :> bad) @@ (m2 :> NoSql)}

\* Two states are the same if they differ only in what a writer that has not run
\* in this pass left of an earlier one: its file is truncated before it is read
\* again.  Only flaws.json may be read without having been truncated.
View == <<sqls, flaw, done, step, pc, out, todo, cur, checked, rechecked,
          file["filter_syntax_fixed_sqls"],
          {<<w, file[w]>> : w \in {x \in Writers : done >= StepNo(x)}}>>
===========================================================================
