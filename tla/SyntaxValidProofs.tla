------------------------- MODULE SyntaxValidProofs -------------------------
(***************************************************************************)
(* Proofs about SyntaxValid, for inputs of any length: main implements      *)
(* FlawCheck, and a flaw file with a verdict is the verdict on a whole,     *)
(* well-formed input.                                                      *)
(***************************************************************************)
EXTENDS SyntaxValid, TLAPS

\* The places of main before and after the input has been parsed.
Before == {"args", "report", "output", "read", "parse"}
After == {"loop", "print", "write", "close", "free"}

\* The flaws of the first n entries.
FlawedUpTo(n) ==
  {<<doc[i].key, doc[i].sql>> : i \in {j \in 1..n : doc[j].sql \in Broken}}

\* Until the loop, nothing has been counted, parsed or collected; what is being
\* parsed could be read.
StartInv ==
  /\ pc \in Before => cnt = 0 /\ result = 0 /\ live = {} /\ flaws = {}
  /\ pc = "parse" => doc # Unreadable

\* From the loop on, output_json has the flaws of the entries seen, and these
\* are well-formed.
LoopInv ==
  /\ pc \in After =>
       /\ doc \in Documents
       /\ cnt \in 0..Len(doc)
       /\ flaws = FlawedUpTo(cnt)
       /\ \A i \in 1..cnt : doc[i].kind \in {"object", "string"}
  /\ pc \in After \ {"loop"} => cnt = Len(doc)

\* What the flaw file holds at each place.
FileInv ==
  /\ pc \in {"args", "report", "output"} => output = Old
  /\ pc \in {"read", "parse", "loop", "print", "write"} => output = Truncated
  /\ pc \in {"close", "free"} => output = flaws

\* main has not ended as long as there is a next step.
StatusInv == pc # "ended" <=> status = "running"

IInv == TypeOK /\ StartInv /\ LoopInv /\ FileInv /\ StatusInv /\ VerdictCoversInput

-----------------------------------------------------------------------------
\* The flaws of an input are those of all its entries.
LEMMA FlawedAll == FlawedUpTo(Len(doc)) = Flawed(doc)
<1> QED
  BY DEF FlawedUpTo, Flawed

\* One more entry adds its flaw if its SQL is broken, and nothing otherwise.
LEMMA FlawedNext ==
  ASSUME NEW n \in Nat
  PROVE  FlawedUpTo(n + 1) =
           IF doc[n + 1].sql \in Broken
           THEN FlawedUpTo(n) \cup {<<doc[n + 1].key, doc[n + 1].sql>>}
           ELSE FlawedUpTo(n)
<1> DEFINE B(m) == {j \in 1..m : doc[j].sql \in Broken}
<1>1. 1..(n + 1) = (1..n) \cup {n + 1}
  OBVIOUS
<1>2. CASE doc[n + 1].sql \in Broken
  <2>1. B(n + 1) = B(n) \cup {n + 1}
    BY <1>1, <1>2
  <2> QED
    BY <1>2, <2>1 DEF FlawedUpTo
<1>3. CASE doc[n + 1].sql \notin Broken
  <2>1. B(n + 1) = B(n)
    BY <1>1, <1>3
  <2> QED
    BY <1>3, <2>1 DEF FlawedUpTo
<1> QED
  BY <1>2, <1>3

\* The entries of an input are entries.
LEMMA EntryType ==
  ASSUME doc \in Documents, cnt \in Nat, cnt < Len(doc)
  PROVE  doc[cnt + 1] \in Entry /\ cnt + 1 \in 0..Len(doc)
<1>1. doc \in Seq(Entry)
  BY SyntaxValidAssumption
<1> QED
  BY <1>1

\* The initial states satisfy the invariant.
LEMMA InitIInv == Init => IInv
<1> QED
  BY DEF Init, IInv, TypeOK, StartInv, LoopInv, FileInv, StatusInv, Verdicts,
         VerdictCoversInput, Before, After

\* A step that ends main leaves the files and the heap as they are.
LEMMA EndStep ==
  ASSUME IInv, NEW how \in {"ok", "failed", "crashed", "killed"}, End(how),
         report' \in {"null", "open", "closed"},
         UNCHANGED <<argc, doc, output, heap>>
  PROVE  IInv'
<1> USE DEF End, heap
<1>1. TypeOK'
  BY DEF IInv, TypeOK
<1>2. (StartInv /\ LoopInv /\ FileInv /\ StatusInv)'
  BY DEF StartInv, LoopInv, FileInv, StatusInv, Before, After
<1>3. VerdictCoversInput'
  BY DEF IInv, VerdictCoversInput, Flawed
<1> QED
  BY <1>1, <1>2, <1>3 DEF IInv

\* The loop body on an entry with SQL.
LEMMA CheckEntryStep ==
  ASSUME IInv, CheckEntry
  PROVE  IInv'
<1> USE DEF CheckEntry
<1>1. /\ doc \in Documents /\ cnt \in Nat /\ cnt < Len(doc)
      /\ output = Truncated /\ flaws = FlawedUpTo(cnt)
      /\ \A i \in 1..cnt : doc[i].kind \in {"object", "string"}
      /\ status = "running"
  BY DEF IInv, TypeOK, LoopInv, FileInv, After, StatusInv
<1>2. doc[cnt + 1] \in Entry /\ cnt' \in 0..Len(doc) /\ cnt' = cnt + 1
  BY <1>1, EntryType
<1>3. flaws' = FlawedUpTo(cnt + 1)
  BY <1>1, FlawedNext
<1>4. flaws' \in Verdicts
  BY <1>1, <1>2 DEF IInv, TypeOK, Verdicts, Entry
<1>5. \/ pc' = "loop" /\ status' = "running"
      \/ pc' = "ended" /\ status' = "crashed"
  <2>1. pc = "loop"
    OBVIOUS
  <2>2. CASE UNCHANGED <<pc, status>>
    BY <1>1, <2>1, <2>2
  <2>3. CASE End("crashed")
    BY <2>3 DEF End
  <2> QED
    BY <2>2, <2>3
<1>6. TypeOK'
  <2>1. result' \in 0..cnt' /\ live' \subseteq 1..cnt' /\ cnt' \in Nat
    BY <1>1, <1>2 DEF IInv, TypeOK
  <2> QED
    BY <1>2, <1>4, <1>5, <2>1 DEF IInv, TypeOK
<1>7. (StartInv /\ StatusInv /\ FileInv)'
  BY <1>1, <1>5 DEF StartInv, StatusInv, FileInv, Before
<1>8. LoopInv'
  <2>1. UNCHANGED doc
    OBVIOUS
  <2>2. (flaws = FlawedUpTo(cnt))'
    BY <1>2, <1>3, <2>1 DEF FlawedUpTo
  <2>3. (\A i \in 1..cnt : doc[i].kind \in {"object", "string"})'
    <3>1. doc[cnt + 1].kind \in {"object", "string"}
      OBVIOUS
    <3> QED
      BY <1>1, <1>2, <2>1, <3>1
  <2>4. (doc \in Documents /\ cnt \in 0..Len(doc))'
    BY <1>1, <1>2, <2>1
  <2> HIDE DEF CheckEntry
  <2> QED
    BY <1>5, <2>2, <2>3, <2>4 DEF LoopInv, After
<1>9. VerdictCoversInput'
  BY <1>1 DEF VerdictCoversInput
<1> QED
  BY <1>6, <1>7, <1>8, <1>9 DEF IInv

\* The entry that ends the run.
LEMMA RejectEntryStep ==
  ASSUME IInv, RejectEntry
  PROVE  IInv'
<1> USE DEF RejectEntry
<1>1. doc \in Documents /\ cnt \in Nat /\ cnt < Len(doc) /\ output = Truncated
  BY DEF IInv, TypeOK, LoopInv, FileInv, After
<1>2. cnt' \in 1..Len(doc) /\ cnt' = cnt + 1
  BY <1>1, EntryType
<1>3. pc' = "ended" /\ status' \in {"crashed", "failed"}
  BY DEF End
<1>4. result' \in 0..cnt' /\ live' \subseteq 1..cnt'
  BY <1>1, <1>2 DEF IInv, TypeOK
<1>5. TypeOK'
  BY <1>2, <1>3, <1>4 DEF IInv, TypeOK
<1>6. (StartInv /\ LoopInv /\ FileInv /\ StatusInv /\ VerdictCoversInput)'
  BY <1>1, <1>3 DEF StartInv, LoopInv, FileInv, StatusInv, VerdictCoversInput,
                    Before, After
<1> QED
  BY <1>5, <1>6 DEF IInv

\* The verdict is written once, when every entry has been seen.
LEMMA WriteStep ==
  ASSUME IInv, Write
  PROVE  IInv'
<1> USE DEF Write, heap
<1>1. TypeOK'
  BY DEF IInv, TypeOK
<1>2. (StartInv /\ FileInv /\ StatusInv)'
  BY DEF IInv, StartInv, FileInv, StatusInv, Before
<1>3. LoopInv'
  BY DEF IInv, LoopInv, After, FlawedUpTo
<1>4. VerdictCoversInput'
  <2>1. cnt = Len(doc) /\ doc \in Documents /\ flaws = FlawedUpTo(Len(doc))
    BY DEF IInv, LoopInv, After
  <2>2. \A i \in 1..Len(doc) : doc[i].kind \in {"object", "string"}
    BY <2>1 DEF IInv, LoopInv, After
  <2>3. output' = Flawed(doc)
    BY <2>1, FlawedAll
  <2> QED
    BY <2>1, <2>2, <2>3 DEF VerdictCoversInput, Flawed
<1> QED
  BY <1>1, <1>2, <1>3, <1>4 DEF IInv

\* A step from one place to the next that touches neither the flaw file nor
\* the heap.
LEMMA WalkStep ==
  ASSUME IInv, UNCHANGED <<argc, doc, status, output, heap>>,
         report' \in {"null", "open", "closed"},
         \/ pc = "args" /\ pc' \in {"report", "output"}
         \/ pc = "report" /\ pc' = "output"
         \/ pc = "read" /\ pc' = "parse" /\ doc # Unreadable
         \/ pc = "parse" /\ pc' = "loop" /\ doc \in Documents
         \/ pc = "loop" /\ pc' = "print" /\ cnt = Len(doc)
         \/ pc = "print" /\ pc' = "write"
         \/ pc = "close" /\ pc' = "free"
  PROVE  IInv'
<1> USE DEF heap
<1>1. TypeOK'
  BY DEF IInv, TypeOK
<1>2. (StartInv /\ FileInv /\ StatusInv)'
  BY DEF IInv, StartInv, FileInv, StatusInv, Before
<1>3. LoopInv'
  <2>1. CASE pc = "parse"
    <3>1. cnt = 0 /\ flaws = {} /\ doc \in Seq(Entry)
      BY <2>1, SyntaxValidAssumption DEF IInv, StartInv, Before
    <3>2. FlawedUpTo(0) = {} /\ Len(doc) \in Nat
      BY <3>1 DEF FlawedUpTo
    <3> QED
      BY <2>1, <3>1, <3>2 DEF LoopInv, After, FlawedUpTo
  <2>2. CASE pc # "parse"
    BY <2>2 DEF IInv, LoopInv, After, FlawedUpTo
  <2> QED
    BY <2>1, <2>2
<1>4. VerdictCoversInput'
  BY DEF IInv, VerdictCoversInput, Flawed
<1> QED
  BY <1>1, <1>2, <1>3, <1>4 DEF IInv

\* Every step keeps the invariant.
LEMMA NextIInv == IInv /\ [Next]_vars => IInv'
<1> SUFFICES ASSUME IInv, [Next]_vars PROVE IInv'
  OBVIOUS
<1>0. report \in {"null", "open", "closed"} /\ doc \in Documents \cup {Unreadable, NotJson, NotObject}
  BY DEF IInv, TypeOK
<1>1. CASE Usage
  <2>1. CASE argc \in {3, 4}
    BY <1>0, <1>1, <2>1, WalkStep DEF Usage
  <2>2. CASE argc \notin {3, 4}
    BY <1>0, <1>1, <2>2, EndStep DEF Usage
  <2> QED
    BY <2>1, <2>2
<1>2. CASE OpenReport
  BY <1>2, WalkStep DEF OpenReport
<1>3. CASE OpenReportFails \/ OpenOutputFails
  BY <1>0, <1>3, EndStep DEF OpenReportFails, OpenOutputFails, Fail
<1>4. CASE OpenOutput
  <2> USE <1>4 DEF OpenOutput, heap
  <2>1. TypeOK'
    BY DEF IInv, TypeOK
  <2>2. (StartInv /\ LoopInv /\ FileInv /\ StatusInv /\ VerdictCoversInput)'
    BY DEF IInv, StartInv, LoopInv, FileInv, StatusInv, VerdictCoversInput,
           Before, After
  <2> QED
    BY <2>1, <2>2 DEF IInv
<1>5. CASE Read
  <2>1. CASE doc = Unreadable
    BY <1>0, <1>5, <2>1, EndStep DEF Read, Fail
  <2>2. CASE doc # Unreadable
    BY <1>0, <1>5, <2>2, WalkStep DEF Read
  <2> QED
    BY <2>1, <2>2
<1>6. CASE Parse
  <2>1. CASE doc = NotJson
    <3>1. Fail \/ (End("crashed") /\ UNCHANGED report)
      BY <1>6, <2>1 DEF Parse
    <3> QED
      BY <1>0, <1>6, <3>1, EndStep DEF Parse, Fail
  <2>2. CASE doc = NotObject /\ doc # NotJson
    BY <1>0, <1>6, <2>2, EndStep DEF Parse
  <2>3. CASE doc \notin {NotJson, NotObject}
    <3>1. doc \in Documents
      BY <1>0, <1>6, <2>3 DEF Parse, IInv, StartInv
    <3>2. pc = "parse" /\ pc' = "loop" /\ UNCHANGED <<argc, doc, status, report, output, heap>>
      BY <1>6, <2>3 DEF Parse
    <3> QED
      BY <1>0, <3>1, <3>2, WalkStep
  <2> QED
    BY <2>1, <2>2, <2>3
<1>7. CASE RejectEntry
  BY <1>7, RejectEntryStep
<1>8. CASE CheckEntry
  BY <1>8, CheckEntryStep
<1>9. CASE LoopDone
  BY <1>0, <1>9, WalkStep DEF LoopDone
<1>10. CASE PrintOutput
  <2>1. CASE pc' = "write" /\ UNCHANGED status
    BY <1>0, <1>10, <2>1, WalkStep DEF PrintOutput
  <2>2. CASE End("failed")
    BY <1>0, <1>10, <2>2, EndStep DEF PrintOutput
  <2> QED
    BY <1>10, <2>1, <2>2 DEF PrintOutput
<1>11. CASE Write
  BY <1>11, WriteStep
<1>12. CASE CloseReport
  <2>1. CASE report = "null"
    BY <1>0, <1>12, <2>1, EndStep DEF CloseReport
  <2>2. CASE report # "null"
    BY <1>0, <1>12, <2>2, WalkStep DEF CloseReport
  <2> QED
    BY <2>1, <2>2
<1>13. CASE Free
  <2> USE <1>13 DEF Free, End
  <2>1. TypeOK'
    BY DEF IInv, TypeOK
  <2>2. (StartInv /\ LoopInv /\ FileInv /\ StatusInv)'
    BY DEF StartInv, LoopInv, FileInv, StatusInv, Before, After
  <2>3. VerdictCoversInput'
    BY DEF IInv, VerdictCoversInput, Flawed
  <2> QED
    BY <2>1, <2>2, <2>3 DEF IInv
<1>14. CASE Kill
  BY <1>0, <1>14, EndStep DEF Kill
<1>15. CASE UNCHANGED vars
  BY <1>15 DEF vars, IInv, TypeOK, StartInv, LoopInv, FileInv, StatusInv,
               VerdictCoversInput, Flawed, FlawedUpTo
<1> QED
  BY <1>1, <1>2, <1>3, <1>4, <1>5, <1>6, <1>7, <1>8, <1>9, <1>10, <1>11, <1>12,
     <1>13, <1>14, <1>15 DEF Next

LEMMA SpecIInv == Spec => []IInv
<1> QED
  BY InitIInv, NextIInv, PTL DEF Spec

\* Every reachable state of main is well-typed: the counter stays within the
\* input, and the results counted are those of entries seen.
THEOREM TypeCorrect == Spec => []TypeOK
<1>1. IInv => TypeOK
  BY DEF IInv
<1> QED
  BY <1>1, SpecIInv, PTL

\* A flaw file that main has written holds the flaws of the whole input, every
\* entry of which had SQL: no flaw is lost at an entry that ends the run.
THEOREM VerdictIsComplete == Spec => []VerdictCoversInput
<1>1. IInv => VerdictCoversInput
  BY DEF IInv
<1> QED
  BY <1>1, SpecIInv, PTL

-----------------------------------------------------------------------------
\* main starts where FlawCheck does.
LEMMA InitMaps == Init => Check!Init
<1> QED
  BY DEF Init, Check!Init

\* A step that ends a run that has not truncated the file, or that ends it
\* without an abort, maps to Fail.
LEMMA EndMaps ==
  ASSUME IInv, NEW how \in {"failed", "crashed", "killed"}, End(how), pc # "ended",
         how = "crashed" => output # Old, UNCHANGED <<doc, output>>
  PROVE  Check!Fail
<1>1. status = "running"
  BY DEF IInv, StatusInv
<1> QED
  BY <1>1 DEF End, Check!Fail

\* Every step of main is one of FlawCheck's, or changes nothing it can see.
LEMMA NextMaps == IInv /\ [Next]_vars => [Check!Next]_(Check!vars)
<1> SUFFICES ASSUME IInv, [Next]_vars PROVE [Check!Next]_(Check!vars)
  OBVIOUS
<1> USE DEF heap
<1> DEFINE Stutters == UNCHANGED <<doc, output, status>>
<1>0. ASSUME Stutters PROVE [Check!Next]_(Check!vars)
  BY <1>0 DEF Check!vars
<1>a. ASSUME Check!Fail PROVE [Check!Next]_(Check!vars)
  BY <1>a DEF Check!Next
<1> HIDE DEF Stutters
<1>1. CASE Usage
  <2>1. CASE argc \in {3, 4}
    BY <1>0, <1>1, <2>1 DEF Usage, Stutters
  <2>2. CASE argc \notin {3, 4}
    BY <1>a, <1>1, <2>2, EndMaps DEF Usage
  <2> QED
    BY <2>1, <2>2
<1>2. CASE OpenReport \/ LoopDone
  BY <1>0, <1>2 DEF OpenReport, LoopDone, Stutters
<1>3. CASE OpenReportFails \/ OpenOutputFails
  BY <1>a, <1>3, EndMaps DEF OpenReportFails, OpenOutputFails, Fail
<1>4. CASE OpenOutput
  <2>1. status = "running" /\ output = Old
    BY <1>4 DEF OpenOutput, IInv, StatusInv, FileInv
  <2>2. Check!Truncate
    BY <1>4, <2>1 DEF OpenOutput, Check!Truncate
  <2> QED
    BY <2>2 DEF Check!Next
<1>5. CASE Read
  <2>1. CASE doc = Unreadable
    BY <1>a, <1>5, <2>1, EndMaps DEF Read, Fail
  <2>2. CASE doc # Unreadable
    BY <1>0, <1>5, <2>2 DEF Read, Stutters
  <2> QED
    BY <2>1, <2>2
<1>6. CASE Parse
  <2>1. /\ pc = "parse" /\ UNCHANGED <<doc, output>>
        /\ End("failed") \/ End("crashed") \/ Stutters
    BY <1>6 DEF Parse, Fail, Stutters
  <2>2. output # Old
    BY <2>1, FileAssumption DEF IInv, FileInv
  <2> QED
    BY <1>0, <1>a, <2>1, <2>2, EndMaps
<1>7. CASE RejectEntry
  <2>1. pc = "loop" /\ (End("failed") \/ End("crashed")) /\ UNCHANGED <<doc, output>>
    BY <1>7 DEF RejectEntry
  <2>2. output # Old
    BY <2>1, FileAssumption DEF IInv, FileInv
  <2> QED
    BY <1>a, <2>1, <2>2, EndMaps
<1>8. CASE CheckEntry
  <2>1. pc = "loop" /\ (Stutters \/ End("crashed")) /\ UNCHANGED <<doc, output>>
    BY <1>8 DEF CheckEntry, Stutters
  <2>2. output # Old
    BY <2>1, FileAssumption DEF IInv, FileInv
  <2> QED
    BY <1>0, <1>a, <2>1, <2>2, EndMaps
<1>9. CASE PrintOutput
  <2>1. pc = "print" /\ (Stutters \/ End("failed")) /\ UNCHANGED <<doc, output>>
    BY <1>9 DEF PrintOutput, Stutters
  <2> QED
    BY <1>0, <1>a, <2>1, EndMaps
<1>10. CASE Write
  <2>1. status = "running" /\ output = Truncated
    BY <1>10 DEF Write, IInv, StatusInv, FileInv
  <2>2. doc \in Documents /\ flaws = Flawed(doc)
    BY <1>10, FlawedAll DEF Write, IInv, LoopInv, After
  <2>3. Check!Write
    BY <1>10, <2>1, <2>2 DEF Write, Check!Write
  <2> QED
    BY <2>3 DEF Check!Next
<1>11. CASE CloseReport
  <2>1. pc = "close" /\ (Stutters \/ End("crashed")) /\ UNCHANGED <<doc, output>>
    BY <1>11 DEF CloseReport, Stutters
  <2>2. output # Old
    BY <2>1, FileAssumption DEF IInv, FileInv, TypeOK
  <2> QED
    BY <1>0, <1>a, <2>1, <2>2, EndMaps
<1>12. CASE Free
  <2>1. pc = "free" /\ (End("ok") \/ End("crashed")) /\ UNCHANGED <<doc, output>>
    BY <1>12 DEF Free
  <2>2. output # Old /\ status = "running"
    BY <2>1, FileAssumption DEF IInv, FileInv, TypeOK, StatusInv
  <2>3. doc \in Documents /\ output = Flawed(doc)
    BY <2>1, FlawedAll DEF IInv, LoopInv, FileInv, After
  <2>4. CASE End("ok")
    <3>1. Check!Succeed
      BY <2>1, <2>2, <2>3, <2>4 DEF End, Check!Succeed
    <3> QED
      BY <3>1 DEF Check!Next
  <2> QED
    BY <1>a, <2>1, <2>2, <2>4, EndMaps
<1>13. CASE Kill
  BY <1>a, <1>13, EndMaps DEF Kill
<1>14. CASE UNCHANGED vars
  BY <1>0, <1>14 DEF vars, Stutters
<1> QED
  BY <1>1, <1>2, <1>3, <1>4, <1>5, <1>6, <1>7, <1>8, <1>9, <1>10, <1>11, <1>12,
     <1>13, <1>14 DEF Next

\* main keeps what FlawCheck promises the scripts, for any input: it truncates
\* the flaw file once, writes it once and whole, reports success only after
\* that, and does not abort before it has truncated the file.
THEOREM MainImplementsFlawCheck == Spec => ImplementsFlawCheck
<1> QED
  BY InitMaps, NextMaps, SpecIInv, PTL DEF Spec, ImplementsFlawCheck, Check!Spec
=============================================================================
