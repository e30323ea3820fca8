------------------------------ MODULE Extract ------------------------------
(***************************************************************************)
(* llm_extract.py: ask a language model for the SQL in every filtered mail *)
(* message, save the answers of a section of messages to a checkpoint file *)
(* of ./tmp/raw/sqls, then save the set of processed message ids to        *)
(* ./tmp/raw/record.json, from which an interrupted run resumes.           *)
(*                                                                         *)
(* The script is one process; it may be killed between any two steps       *)
(* (Crash), and open(path, "w") truncates the file before anything is      *)
(* written to it, so that a file being written is unreadable (Corrupt).    *)
(***************************************************************************)
EXTENDS Naturals, Sequences, FiniteSets

CONSTANTS
  Keys,       \* keys of the filtered message file
  MsgIds,     \* the stripped message ids
  Strip,      \* Strip[k] is k.strip()
  Inputs,     \* the contents the filtered message file may have (dict order)
  Sqls,       \* the SQL texts the language model may answer
  NoSql,      \* no answer: a failed call or an empty text
  Corrupt,    \* the content of a file truncated by open(path, "w")
  Threshold   \* messages per checkpoint (200)

ASSUME ExtractAssumption ==
  /\ IsFiniteSet(MsgIds)
  /\ Strip \in [Keys -> MsgIds]
  /\ Inputs \subseteq Seq(Keys)
  /\ \A in \in Inputs : \A i, j \in 1..Len(in) : in[i] = in[j] => i = j
  /\ NoSql \notin Sqls
  /\ Threshold \in Nat \ {0}

\* A dict from message ids to SQL texts; NoSql marks a key it does not have.
Answers == [MsgIds -> Sqls \cup {NoSql}]

\* A dict from message ids to arrival numbers; 0 marks a key it does not have.
Pools == [MsgIds -> Nat]

ASSUME CorruptAssumption == Corrupt \notin Answers \cup Pools

VARIABLES
  input,      \* ./tmp/filter/pgsql-bugs-msgs.json
  sections,   \* ./tmp/raw/sqls/{upto - Threshold}-{upto}.json
  record,     \* ./tmp/raw/record.json ({} while it does not exist)
  pc,         \* where the process is; "stopped" when there is none
  exit,       \* how the last run ended; "running" while one is going on
  cnt,        \* keys of the input iterated over
  pool,       \* exist_msg_id_pool
  section,    \* section_info, the answers since the last checkpoint
  answer      \* history: the last answer received for each message

files == <<sections, record>>
vars == <<input, sections, record, pc, exit, cnt, pool, section, answer>>

NoAnswers == [m \in MsgIds |-> NoSql]
EmptyPool == [m \in MsgIds |-> 0]
Known(p) == {m \in MsgIds : p[m] # 0}
Size(p) == Cardinality(Known(p))

TypeOK ==
  /\ input \in Inputs
  /\ sections \subseteq [upto : Nat \ {0}, body : Answers \cup {Corrupt}]
  /\ record \in Pools \cup {Corrupt}
  /\ pc \in {"stopped", "loop", "save", "saving", "saved", "recording"}
  /\ exit \in {"running", "completed", "raised", "killed"}
  /\ cnt \in 0..Len(input)
  /\ pool \in Pools
  /\ section \in Answers
  /\ answer \in Answers

Init ==
  /\ input \in Inputs
  /\ sections = {}
  /\ record = EmptyPool
  /\ pc = "stopped"
  /\ exit = "completed"
  /\ cnt = 0
  /\ pool = EmptyPool
  /\ section = NoAnswers
  /\ answer = NoAnswers

\* The process ends and its memory is gone.
Stop(how) ==
  /\ pc' = "stopped"
  /\ exit' = how
  /\ cnt' = 0
  /\ pool' = EmptyPool
  /\ section' = NoAnswers

\* Mutant: the record of an earlier run is not loaded.
StartWithoutRecord ==
  /\ pc = "stopped"
  /\ record # Corrupt
  /\ pc' = "loop"
  /\ exit' = "running"
  /\ pool' = EmptyPool
  /\ UNCHANGED <<input, files, cnt, section, answer>>

\* Load the messages and, when it is there, the record of an earlier run.
Start ==
  /\ pc = "stopped"
  /\ record # Corrupt
  /\ pc' = "loop"
  /\ exit' = "running"
  /\ pool' = record
  /\ UNCHANGED <<input, files, cnt, section, answer>>

\* json.load raises on a truncated record, and no run gets any further.
StartFails ==
  /\ pc = "stopped"
  /\ record = Corrupt
  /\ Stop("raised")
  /\ UNCHANGED <<input, files, answer>>

\* The message the loop has reached, and the number it gets if it is new.
Current == Strip[input[cnt + 1]]

\* Mutant: messages are numbered by the loop counter.
idxFromCount == cnt + 1

idx == Size(pool) + 1

\* A message of the pool is passed over, the checkpoint test included.
Skip ==
  /\ pc = "loop"
  /\ cnt < Len(input)
  /\ pool[Current] # 0
  /\ cnt' = cnt + 1
  /\ UNCHANGED <<input, files, pc, exit, pool, section, answer>>

\* Mutant: a failed call also discards the section.
CallFailsAndClears ==
  /\ pc = "loop"
  /\ cnt < Len(input)
  /\ pool[Current] = 0
  /\ cnt' = cnt + 1
  /\ pool' = [pool EXCEPT ![Current] = idx]
  /\ answer' = [answer EXCEPT ![Current] = NoSql]
  /\ section' = NoAnswers
  /\ UNCHANGED <<input, files, pc, exit>>

\* A call that raises puts the message in the pool without an answer, and
\* passes over the checkpoint test.
CallFails ==
  /\ pc = "loop"
  /\ cnt < Len(input)
  /\ pool[Current] = 0
  /\ cnt' = cnt + 1
  /\ pool' = [pool EXCEPT ![Current] = idx]
  /\ answer' = [answer EXCEPT ![Current] = NoSql]
  /\ UNCHANGED <<input, files, pc, exit, section>>

\* Mutant: no checkpoint at the last key.
CheckpointDueAtThreshold == idx % Threshold = 0

\* A checkpoint is due at every Threshold-th new message and at the last key.
CheckpointDue == idx % Threshold = 0 \/ cnt + 1 = Len(input)

\* A call that returns: an empty text is not kept in the section.
CallReturns(sql) ==
  /\ pc = "loop"
  /\ cnt < Len(input)
  /\ pool[Current] = 0
  /\ cnt' = cnt + 1
  /\ pool' = [pool EXCEPT ![Current] = idx]
  /\ section' = IF sql = NoSql THEN section ELSE [section EXCEPT ![Current] = sql]
  /\ answer' = [answer EXCEPT ![Current] = sql]
  /\ pc' = IF CheckpointDue THEN "save" ELSE "loop"
  /\ UNCHANGED <<input, files, exit>>

\* Mutants: the file is named after the start of its range, or after the
\* position in the input.
WithSectionFromStart(body) ==
  LET from == IF Size(pool) < Threshold THEN 0 ELSE Size(pool) - Threshold
  IN  {s \in sections : s.upto # from} \cup {[upto |-> from, body |-> body]}
WithSectionByCount(body) ==
  {s \in sections : s.upto # cnt} \cup {[upto |-> cnt, body |-> body]}

\* The checkpoint file is named after the last message's arrival number.
WithSection(body) ==
  {s \in sections : s.upto # Size(pool)} \cup {[upto |-> Size(pool), body |-> body]}

OpenSection ==
  /\ pc = "save"
  /\ sections' = WithSection(Corrupt)
  /\ pc' = "saving"
  /\ UNCHANGED <<input, record, exit, cnt, pool, section, answer>>

WriteSection ==
  /\ pc = "saving"
  /\ sections' = WithSection(section)
  /\ pc' = "saved"
  /\ UNCHANGED <<input, record, exit, cnt, pool, section, answer>>

OpenRecord ==
  /\ pc = "saved"
  /\ record' = Corrupt
  /\ pc' = "recording"
  /\ UNCHANGED <<input, sections, exit, cnt, pool, section, answer>>

WriteRecord ==
  /\ pc = "recording"
  /\ record' = pool
  /\ section' = NoAnswers
  /\ pc' = "loop"
  /\ UNCHANGED <<input, sections, exit, cnt, pool, answer>>

\* The loop is over; answers still in the section are dropped.
Finish ==
  /\ pc = "loop"
  /\ cnt = Len(input)
  /\ Stop("completed")
  /\ UNCHANGED <<input, files, answer>>

\* The process is killed, or raises outside the try block (a reply without
\* a text content has no strip method).
Crash ==
  /\ pc # "stopped"
  /\ Stop("killed")
  /\ UNCHANGED <<input, files, answer>>

\* filter.py writes another message file between two runs.
Refilter ==
  /\ pc = "stopped"
  /\ input' \in Inputs \ {input}
  /\ UNCHANGED <<files, pc, exit, cnt, pool, section, answer>>

Call == CallFails \/ \E sql \in Sqls \cup {NoSql} : CallReturns(sql)
Checkpoint == OpenSection \/ WriteSection \/ OpenRecord \/ WriteRecord
Run == Start \/ StartFails \/ Skip \/ Call \/ Checkpoint \/ Finish

Next == Run \/ Crash \/ Refilter

Spec == Init /\ [][Next]_vars

-----------------------------------------------------------------------------
\* The arrival numbers of a pool are 1..Size, each given to one message.
Numbered(p) ==
  /\ \A m \in Known(p) : p[m] \in 1..Size(p)
  /\ \A m, n \in Known(p) : p[m] = p[n] => m = n

\* Resuming from the record continues the numbering: however often the script
\* is killed and restarted, len(exist_msg_id_pool) + 1 is a number no message
\* of the pool has, so that no two checkpoints of a record share a file name.
ArrivalNumbers ==
  /\ Numbered(pool)
  /\ record # Corrupt => Numbered(record)

\* The checkpoint files up to the size of p hold the answers of its messages.
Saved(p) ==
  \A m \in Known(p) : answer[m] # NoSql =>
    \E s \in sections :
      /\ s.upto <= Size(p)
      /\ s.body # Corrupt
      /\ s.body[m] = answer[m]

\* Every SQL answer received for a message that the record lists (and that no
\* later run will therefore ask for again) is in a readable checkpoint file of
\* that record: the section is written before the record, never after it.
NoLostAnswer == record # Corrupt => Saved(record)

\* A checkpoint file the record covers is final: later runs write files with
\* greater numbers, and only files left by an interrupted checkpoint are ever
\* overwritten.
CheckpointsAreFinal ==
  [][record # Corrupt =>
       \A s \in sections : s.upto <= Size(record) => s \in sections']_vars

\* No message of the record is sent to the language model again, so its answer
\* is final (the model answers differently every time: temperature 1.0).
RecordedAnswersAreFinal ==
  [][record # Corrupt =>
       \A m \in Known(record) : answer'[m] = answer[m]]_vars

\* What the comment "Save the processed messages" promises of the test
\* cnt == n: a run that reaches the end of its input drops no answer.
CompletedRunSavesAnswers ==
  [][pc # "stopped" /\ exit' = "completed" => section = NoAnswers]_vars

-----------------------------------------------------------------------------
\* The process keeps running and is started again when it ends, and the
\* language model does not fail for one message forever.
FairSpec ==
  /\ Spec
  /\ WF_vars(Run)
  /\ \A m \in MsgIds :
       SF_vars(\E sql \in Sqls \cup {NoSql} : CallReturns(sql) /\ Current = m)

AllRecorded ==
  record # Corrupt /\ \A i \in 1..Len(input) : record[Strip[input[i]]] # 0

\* The last message of the input is not recorded, and is no earlier one: a run
\* that skips it drops the answers it has not saved (CompletedRunSavesAnswers).
LastIsOpen ==
  LET Message(i) == Strip[input[i]]
      last == Len(input)
  IN  record # Corrupt /\ record[Message(last)] = 0
        /\ \A i \in 1..last - 1 : Message(i) # Message(last)

\* Once the script is no longer killed and its input stays, every message of it
\* is eventually recorded, whatever earlier runs on other inputs have recorded;
\* unless a kill left the record truncated, or a run skips the last message
\* while others are missing.
EventuallyAllRecorded ==
  \A in \in Inputs :
    <>[](exit # "killed" /\ input = in /\ (LastIsOpen \/ AllRecorded))
      => <>[]AllRecorded
=============================================================================
