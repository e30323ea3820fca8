---------------------------- MODULE SyntaxValid ----------------------------
(***************************************************************************)
(* syntax_valid.c: parse the SQL of every message of a JSON file with       *)
(* libpg_query, and write the messages whose SQL does not parse, with the   *)
(* parser's error, to a flaw file.  One run of the program, from its        *)
(* arguments to the end of main; the parser and cJSON are the libraries'.   *)
(***************************************************************************)
EXTENDS Naturals, Sequences

CONSTANTS
  Keys,        \* message ids
  Sqls,        \* SQL texts
  Broken,      \* the SQL texts the parser rejects
  Documents,   \* the entries a JSON object of messages may have
  Unreadable,  \* an input file that cannot be opened
  NotJson,     \* an input file that is not JSON
  NotObject,   \* an input file that holds a JSON value other than an object
  Old,         \* what the flaw file holds before the run
  Truncated    \* the flaw file after fopen(path, "w")

\* "object": an object with a string "sql"; "bare": any other object;
\* "string": a string; "other": any other JSON value.
Entry == [key : Keys, kind : {"object", "bare", "string", "other"}, sql : Sqls]

ASSUME SyntaxValidAssumption ==
  /\ Broken \subseteq Sqls
  /\ Documents \subseteq Seq(Entry)

\* The error a broken SQL text gives is identified with the text.
Verdicts == SUBSET (Keys \X Broken)

\* Old stands for any earlier content, told apart from what the run writes.
ASSUME FileAssumption ==
  /\ Old # Truncated
  /\ \A v \in Verdicts : v # Old

VARIABLES
  argc,      \* 1 + number of arguments; the third one is the report file
  doc,       \* the input file
  pc,        \* the next step of main; "ended" when there is none
  status,    \* "running", or how the run ended
  report,    \* the FILE of the report: "null", "open" or "closed"
  output,    \* the flaw file
  cnt,       \* entries seen
  result,    \* the parse whose result the variable holds; 0: uninitialized
  live,      \* the parses whose results are allocated
  flaws      \* output_json

vars == <<argc, doc, pc, status, report, output, cnt, result, live, flaws>>

Flawed(d) ==
  {<<d[i].key, d[i].sql>> : i \in {j \in 1..Len(d) : d[j].sql \in Broken}}

TypeOK ==
  /\ argc \in 1..5
  /\ doc \in Documents \cup {Unreadable, NotJson, NotObject}
  /\ pc \in {"args", "report", "output", "read", "parse", "loop", "print",
             "write", "close", "free", "ended"}
  /\ status \in {"running", "ok", "failed", "crashed", "killed"}
  /\ report \in {"null", "open", "closed"}
  /\ output \in Verdicts \cup {Old, Truncated}
  /\ cnt \in Nat
  /\ cnt > 0 => cnt <= Len(doc)
  /\ result \in 0..cnt
  /\ live \subseteq 1..cnt
  /\ flaws \in Verdicts

Init ==
  /\ argc \in 1..5
  /\ doc \in Documents \cup {Unreadable, NotJson, NotObject}
  /\ pc = "args"
  /\ status = "running"
  /\ report = "null"
  /\ output = Old
  /\ cnt = 0
  /\ result = 0
  /\ live = {}
  /\ flaws = {}

End(how) ==
  /\ pc' = "ended"
  /\ status' = how

\* return 1, after fclose(report_file) where the code does that.
Fail == End("failed") /\ report' = IF report = "open" THEN "closed" ELSE report

heap == <<cnt, result, live, flaws>>

Usage ==
  /\ pc = "args"
  /\ IF argc \in {3, 4}
     THEN /\ pc' = IF argc = 4 THEN "report" ELSE "output"
          /\ UNCHANGED status
     ELSE End("failed")
  /\ UNCHANGED <<argc, doc, report, output, heap>>

OpenReport ==
  /\ pc = "report"
  /\ report' = "open"
  /\ pc' = "output"
  /\ UNCHANGED <<argc, doc, status, output, heap>>

OpenReportFails ==
  /\ pc = "report"
  /\ Fail
  /\ UNCHANGED <<argc, doc, output, heap>>

\* The flaw file is truncated before the input is looked at.
OpenOutput ==
  /\ pc = "output"
  /\ output' = Truncated
  /\ pc' = "read"
  /\ UNCHANGED <<argc, doc, status, report, heap>>

OpenOutputFails ==
  /\ pc = "output"
  /\ Fail
  /\ UNCHANGED <<argc, doc, output, heap>>

Read ==
  /\ pc = "read"
  /\ IF doc = Unreadable
     THEN Fail
     ELSE pc' = "parse" /\ UNCHANGED <<status, report>>
  /\ UNCHANGED <<argc, doc, output, heap>>

\* A value that is not an object fails an assertion, which aborts.
Parse ==
  /\ pc = "parse"
  /\ CASE doc = NotJson   -> Fail
       [] doc = NotObject -> End("crashed") /\ UNCHANGED report
       [] OTHER           -> pc' = "loop" /\ UNCHANGED <<status, report>>
  /\ UNCHANGED <<argc, doc, output, heap>>

\* Mutant: an entry of another type is passed over.
RejectEntrySkips ==
  /\ pc = "loop"
  /\ cnt < Len(doc)
  /\ doc[cnt + 1].kind \in {"bare", "other"}
  /\ cnt' = cnt + 1
  /\ IF doc[cnt + 1].kind = "bare" THEN End("crashed") ELSE UNCHANGED <<pc, status>>
  /\ UNCHANGED <<argc, doc, report, output, result, live, flaws>>

\* An entry without a SQL text ends the run: an assertion, or return 1.
RejectEntry ==
  /\ pc = "loop"
  /\ cnt < Len(doc)
  /\ doc[cnt + 1].kind \in {"bare", "other"}
  /\ cnt' = cnt + 1
  /\ End(IF doc[cnt + 1].kind = "bare" THEN "crashed" ELSE "failed")
  /\ UNCHANGED <<argc, doc, report, output, result, live, flaws>>

\* Mutants: the flaws are written to the file one by one as they are found;
\* the counter is also advanced for the error.
CheckEntryStreams ==
  /\ pc = "loop"
  /\ cnt < Len(doc)
  /\ doc[cnt + 1].kind \in {"object", "string"}
  /\ cnt' = cnt + 1
  /\ result' = cnt + 1
  /\ live' = live \cup {cnt + 1}
  /\ flaws' = IF doc[cnt + 1].sql \in Broken
              THEN flaws \cup {<<doc[cnt + 1].key, doc[cnt + 1].sql>>}
              ELSE flaws
  /\ output' = flaws'
  /\ UNCHANGED <<argc, doc, pc, status, report>>
CheckEntryCountsErrors ==
  /\ pc = "loop"
  /\ cnt < Len(doc)
  /\ doc[cnt + 1].kind \in {"object", "string"}
  /\ cnt' = IF doc[cnt + 1].sql \in Broken THEN cnt + 2 ELSE cnt + 1
  /\ result' = cnt + 1
  /\ live' = live \cup {cnt + 1}
  /\ UNCHANGED <<argc, doc, pc, status, report, output, flaws>>

\* The result of the previous parse is overwritten; an error goes to the flaws
\* and to the report, which fprintf dereferences whether it is open or not.
CheckEntry ==
  /\ pc = "loop"
  /\ cnt < Len(doc)
  /\ doc[cnt + 1].kind \in {"object", "string"}
  /\ cnt' = cnt + 1
  /\ result' = cnt + 1
  /\ live' = live \cup {cnt + 1}
  /\ IF doc[cnt + 1].sql \in Broken
     THEN /\ flaws' = flaws \cup {<<doc[cnt + 1].key, doc[cnt + 1].sql>>}
          /\ IF report = "null" THEN End("crashed") ELSE UNCHANGED <<pc, status>>
     ELSE UNCHANGED <<flaws, pc, status>>
  /\ UNCHANGED <<argc, doc, report, output>>

LoopDone ==
  /\ pc = "loop"
  /\ cnt = Len(doc)
  /\ pc' = "print"
  /\ UNCHANGED <<argc, doc, status, report, output, heap>>

\* cJSON_Print returns NULL when it cannot allocate.
PrintOutput ==
  /\ pc = "print"
  /\ \/ pc' = "write" /\ UNCHANGED status
     \/ End("failed")
  /\ UNCHANGED <<argc, doc, report, output, heap>>

Write ==
  /\ pc = "write"
  /\ output' = flaws
  /\ pc' = "close"
  /\ UNCHANGED <<argc, doc, status, report, heap>>

\* fclose(report_file), which crashes on a null pointer.
CloseReport ==
  /\ pc = "close"
  /\ IF report = "null"
     THEN End("crashed") /\ UNCHANGED report
     ELSE pc' = "free" /\ report' = "closed" /\ UNCHANGED status
  /\ UNCHANGED <<argc, doc, output, heap>>

\* Frees the result the variable holds.  When no entry was parsed it holds
\* whatever the stack did: freeing that may crash or go unnoticed.
Free ==
  /\ pc = "free"
  /\ live' = live \ {result}
  /\ End("ok") \/ (result = 0 /\ End("crashed"))
  /\ UNCHANGED <<argc, doc, report, output, cnt, result, flaws>>

\* The program is killed, or the parser brings it down.
Kill ==
  /\ pc # "ended"
  /\ End("killed")
  /\ UNCHANGED <<argc, doc, report, output, heap>>

Next ==
  \/ Usage \/ OpenReport \/ OpenReportFails \/ OpenOutput \/ OpenOutputFails
  \/ Read \/ Parse \/ RejectEntry \/ CheckEntry \/ LoopDone \/ PrintOutput
  \/ Write \/ CloseReport \/ Free \/ Kill

Spec == Init /\ [][Next]_vars

-----------------------------------------------------------------------------
\* However the run ends, the flaw file is what it was (only if the run could
\* not open it, and it then reports failure), empty, or the complete verdict on
\* the input; success means that it is the verdict.
Check == INSTANCE FlawCheck
           WITH verdict <- IF doc \in Documents THEN Flawed(doc) ELSE {},
                file <- output
ImplementsFlawCheck == Check!Spec

\* A file that holds an answer holds the answer to the whole input: the run
\* that wrote it found every entry well-formed.
VerdictCoversInput ==
  output \notin {Old, Truncated} =>
    /\ doc \in Documents
    /\ output = Flawed(doc)
    /\ \A i \in 1..Len(doc) : doc[i].kind \in {"object", "string"}

\* What the comment "free the used memory" says of the end of main: the result
\* it frees was assigned by a parse, and no other result is still allocated.
FreesUsedMemory == pc = "free" => result # 0 /\ live = {result}
=============================================================================
