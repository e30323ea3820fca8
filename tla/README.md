# ComFuzzSeeds in TLA+

ComFuzzSeeds turns the pgsql-bugs mailing list into SQL seeds for fuzzers. It
is a chain of scripts and one C program that communicate through files under
`./tmp`. Nothing locks those files, nothing is written atomically, and no step
looks at the exit status of another one, so what can go wrong is mostly about
runs that are killed or fail half-way, are run again, and meet files of an
earlier run. These modules model that chain from the mbox files to `./seeds`,
and of the two C libraries that come with it what keeps state: the item trees of
`cJSON`, and in `libpg_query` the calls with their memory and errors, the
scanner under the parser, the splits of a text and its normalization.

## The system

| part | code | state it keeps | operations |
|---|---|---|---|
| segmentation | `segement.sh`, `segmentation.py` | `tmp/titleAndText/{dir}.json`, one per directory of `data` | run over all directories; one directory; raise; be killed |
| keyword filter | `filter.py` | `tmp/filter/pgsql-bugs-msgs.json` | filter a directory of files, filter one file |
| extraction | `llm_extract.py` | section files `tmp/raw/sqls/*.json`, `tmp/raw/record.json`; in memory the pool of processed ids and the open section | resume, skip, call the model, fail, checkpoint |
| syntax checker | `syntax_valid.c` | the flaw file and the report it writes; its heap | one run of `main` |
| syntax check | `syntax_check.sh`, `syntax_clean.sh` | `tmp/raw/flaw/*.json` | check every section file; remove the verdicts |
| repair | `collect_flaw_sqls.py`, `llm_fixer.py`, `filter_syntax_fixed_sqls.sh` | `flaw_sqls.json`, `fixed_flaw_sqls.json`, `fixed/flaws.json` | join SQL and errors, ask for repairs, check them |
| collection | `collect_correct_sql.py`, `collect_fixed_sqls.py` | `clean_sqls/correct_sqls.json`, `clean_sqls/fixed_flaw_sqls.json` | select what parses |
| execution filter | `execution_filter.py` | a PostgreSQL database, `seeds/{idx}.sql` | execute, commit or roll back, save |
| classification | `classify.ipynb`, `manual/` | `classified_seeds/` | copy by number |
| JSON library | `cJSON.c` | trees of items on the heap, children as linked lists | parse, create, add, insert, detach, delete, replace, duplicate |
| parser calls | `pg_query.c`, `pg_query_*.c`, `mcxt.c`, `aset.c`, `elog.c` | per thread: memory contexts and their freelist, `PG_exception_stack`, the error stack, the parser options; per program: a thread key | parse, scan, fingerprint, split, normalize, parse PL/pgSQL; leave a thread, `pg_query_exit` |
| scanner | `scan.c`, `base_yylex` in `parser.c` | the scan buffer with its NULs, the token read ahead | one token |
| splits | `pg_query_split.c`, `gram.c` (`stmtmulti`) | counters of two passes; the list of `RawStmt`s | with the scanner; with the parser |
| normalization | `pg_query_normalize.c` | recorded constants, params of the targets, the new text | walk, measure, generate |

Each step reads the files of earlier steps as a whole (`json.load`,
`cJSON_Parse`) and writes its own with `open(path, "w")` or `fopen(path, "w")`,
which truncates first. A reader that meets a truncated file raises; a reader
that meets an old complete file cannot tell. `syntax_valid` is the only caller
of the two libraries; `libpg_query` is also used by itself, from several
threads, and its own interface says what its callers may do. The external parties are the
language model (`client.chat.completions.create`: an answer, an empty one, or an
exception; different on every call), PostgreSQL behind SQLAlchemy, and the user,
who runs the steps in the order of the repository's README, goes back, and runs
a step again when it was killed or raised.

What is hard here, and what makes each part correct:

* **extraction**: killed between two writes, resumed on another input, failing
  calls between checkpoints. No answer of a recorded message may be lost, no
  section file of the record overwritten, no number given twice.
* **syntax checker**: its exit status is ignored, so the flaw file must tell a
  failed run from an empty verdict.
* **repair and collection**: verdict, SQL and repair come from different files
  and perhaps different passes. What is kept must parse, the two outputs must be
  disjoint, and no message may disappear between them.
* **execution filter**: a snippet that fails half-way must leave nothing behind;
  a seed should not need another one, and does (`SeedsAreIndependent`).
* **JSON library**: the end of a list is only known from the `prev` of its first
  child. After any sequence of calls `next` and `prev` must describe the same
  sequence, and every item must have one holder, who deletes it.
* **parser calls**: every call may fail anywhere, by `longjmp` out of C frames
  that hold a memory context, a handler and parser options. Afterwards the
  thread must be as it was, the error must be the one of the call, and what a
  thread allocated must go when it ends, although the key that arranges this is
  shared by threads that start at the same time.
* **scanner**: flex and `base_yylex` both write into the text they read. An
  error must quote the right word, and no word may be lost or seen twice.
* **splits**: two passes over the tokens must agree, or the second writes beyond
  what the first allocated; and the split by tokens must be that of the grammar,
  where the library does not say otherwise.
* **normalization**: constants are found in the order of the tree, replaced in
  the order of the text, and numbered so that `GROUP BY` still matches.
* **segmentation and filter**: directories that fail, mails with one Message-ID,
  files listed in any order.

## Modules

| module | models | notes |
|---|---|---|
| `Extract` | `llm_extract.py` | every statement that changes memory or a file is an action; `Crash` between any two |
| `FlawCheck` | what the scripts rely on when they run the checker | abstract: truncate, write at once, succeed only after that |
| `SyntaxValid` | `syntax_valid.c` | `main` step by step; implements `FlawCheck` |
| `SyntaxValidProofs` | theorems about `SyntaxValid` | TLAPS |
| `Pipeline` | steps 4 to 7 of the README | composes all scripts over their shared files |
| `PipelineProofs` | theorems about `Pipeline` | TLAPS |
| `ExecFilter` | `execution_filter.py` with a small transactional database | |
| `ExecFilterProofs` | theorems about `ExecFilter` | TLAPS |
| `Mails` | `segement.sh`, `segmentation.py`, `filter.py` | |
| `MailExtractProofs` | theorems about `Mails` and `Extract` | TLAPS; extends both, whose states are disjoint |
| `JsonList` | `cJSON.c`: the items on the heap | every public call that changes an item is an action |
| `JsonListProofs` | theorems about `JsonList` | TLAPS |
| `Scanner` | `core_yylex` | the scan buffer; operators only |
| `TokenFilter` | `base_yylex` | extends `Scanner` |
| `Split` | `pg_query_split.c` | composes the scanner's split with `TokenFilter` and the grammar's on one text |
| `SplitProofs` | theorems about `Split` and `TokenFilter` | TLAPS |
| `Normalize` | `pg_query_normalize.c` for `SELECT` and `UPDATE` | extends `Scanner` |
| `NormalizeProofs` | theorems about `Normalize` | TLAPS |
| `PgQuery` | `pg_query.c`, the frame of every call, contexts and errors | threads interleave |
| `PgQueryProofs` | theorems about `PgQuery` | TLAPS |
| `MC` modules | instances for TLC | one for each module above that has a specification, except `FlawCheck` and `TokenFilter` |

In every module a dict of messages is a total function, with `NoSql` or `NoMail`
for keys it does not have; a file is its content, `Missing`, or `Corrupt` (`Truncated` in `Mails` and `SyntaxValid`)
while it is truncated. SQL texts, message ids and mails are model values or small
records. Operators whose comment starts with "Mutant" are not part of the model:
each is a variant of an action or helper with a plausible bug, and a property of
the module is violated when it takes its place.

### Extract

`pool` is `exist_msg_id_pool`, `section` is `section_info`, `cnt` is `cnt`, `idx`
is the number the code gives a new message. `Skip`, `CallFails` and
`CallReturns` are the three ways through the loop body; only the last reaches
the checkpoint test (`CheckpointDue`). A checkpoint is four steps: the section
file is truncated and written, then the record. `sections` holds the files by
the number after the dash of their name. `answer` is a history variable: the
last answer received for each message. `Refilter` gives the next run another
message file. The path from an existing `key.txt` is assumed.

### SyntaxValid and FlawCheck

`pc` walks through `main`; `report` and `output` are its two files, `live` the
parse results that were allocated and not freed, `result` the one the variable
holds. An entry that makes an assertion fail aborts; a null report is a crash;
freeing the uninitialized result may crash or go unnoticed. Whether the parser
rejects a text is the constant `Broken`. `FlawCheck` is the interface: the
refinement maps the flaw file and the exit status, and takes the set of flawed
messages of the input for the verdict.

### Pipeline

`done` is the number of the last step of the README that ended normally in this
pass. The user may run the next one or any earlier one (`Run`); going back
reduces `done`, so what later steps wrote earlier is old and must not be
trusted, but is still on disk. `WriteSection` is the effect of `llm_extract.py`;
it may put a message into two files, which that script does when it is killed
between its two writes and a call fails after the restart. `CheckCannotOpen`,
`CheckOpen`, `CheckWrite` and `CheckFails` together are what `FlawCheck` allows for
each section file: `syntax_valid` may end before it has opened the flaw file, and
then leaves that of an earlier pass (`CheckCannotOpen`); or after that, and then
leaves an empty one (`CheckFails`), or the verdict. `FilterSyntaxFixedSqls` and
`FilterCannotOpen` are the same for the repairs. Two history variables say which
verdicts are of this pass: `checked`, the section files whose flaw file was opened
by a check since they were written, and `rechecked`, the same for `flaws.json` and
`llm_fixer.py`. `CorrectSqlParses`, `FixedSqlParses` and `HintsAreCurrent` say that
nothing goes wrong beyond what these two exclude. There the code has no defence:
SQL whose check did not get that far is kept as correct, or by an old verdict. The
Python scripts share `OpenFile` and `WriteFile`, since each computes its result first
and then writes its only file. Not in the model: a build that fails inside
`syntax_check.sh`.

### ExecFilter

A snippet is a sequence of statements that create an object, use one, commit or
roll back. `work` is what the open transaction sees, `db` what is committed.
`Execute` and `ExecuteFails` are the statements of one `conn.execute`; any
statement may fail (statement timeout). `Commit` is the exit of `with
conn.begin()`, and `Rollback` the call after it, which has nothing to roll back.
The script says that it rolls back and that its seeds can be executed
independently: `SeedsAreIndependent` is that claim, and is violated. `SeedsReplay`
is what holds in its place: the list of seeds as a whole can be executed.
Between runs the user may empty the database, or not. PostgreSQL is external;
effects that survive a rollback (sequences) are not modelled.

### Mails

`SegmentDir`, `SegmentMbox`, `OpenDirFile` and `WriteDirFile` are one run of
`segmentation.py`, which raises on a subject that is not a string
(`SegmentRaises`) while the shell goes on. `FilterDir` and `FilterFile` are the
two modes of `filter.py`. `fresh` and `complete` are history variables that say
which outputs are up to date. `job` is what runs, and the specification is
`MailsSpec`, so that the proofs can extend `Mails` and `Extract` together.

### JsonList

`live` is the set of allocated items, `child`, `next` and `prev` are the fields
of `cJSON`. Two history variables say what the calls mean: `kids` is the sequence
of children each item should have, `roots` the items the caller got from the
library and has not given back. The library has no threads and no callbacks, so
a call is one step. A lookup by index, name or pointer is a choice of any child
met along `next`; one that finds nothing changes nothing. Freed memory is
scrubbed to `Null`, so reading it shows as a broken list. Callers do what the
header asks: they add an item they own, and not below itself. `Parse` builds one
array or object with its children; a nested text is parsed level by level, and
its heap is the one `Create`, `Parse` and `AddItem` reach. A call that fails to
allocate frees what it had and is a stutter, or `Create` for what the caller
passed in.

### Scanner and TokenFilter

A text is the sequence of its tokens with their places, each one character long;
which characters make a token is left to the generated tables. The buffer is
modelled character by character, as a function from places to what stands there:
flex keeps a NUL behind the token it returned last and the character in its hold
(`flex.hold`), `base_yylex` another behind the token it delivered (`la.hold`),
and they overlap when tokens touch. `CoreYylex` is one call of the scanner, which
puts its character back first. `BaseYylex` is a call of the filter, with the
inner loop over comments; `lexing` says whether it is in that loop, and how it
ended. `scanner_yyerror` quotes up to the next NUL, so `ErrorsQuoteTheToken`
speaks of the buffer, and is checked after every delivery because the grammar may
reject any token.

### Split

`pc` goes through the two passes of `pg_query_split_with_scanner` (`count`,
`fill`) and then lets the parser read the same text. `open_parens` is unsigned
and wraps (`SizeMod`). The grammar is reduced to what decides locations:
statements are separated by semicolons outside parentheses and outside the
bodies of functions, have a keyword, and their parentheses match
(`raw.accepted`). A body is what is between `BEGIN ATOMIC`, here the token
`ATOMIC`, and `END`; `raw.body` is the number of bodies that are open, and
`raw.atomic` says that there was one. `Stmtmulti` and `WithEnd` are the actions of
its rules that set `stmt_location` and `stmt_len`. The grammar keeps the
semicolons of a body in one statement, and `pg_query_split_with_scanner` splits
there: `SplitsAgree` is about the other texts, and `SplitsNest` says for all that
the scanner's statements are inside the parser's, which begin and end with one.
That the parser's split is the more accurate one is said in `pg_query.h`, lines
110 to 112, and in the CHANGELOG of 13-2.0.0.

### Normalize

A query is a sequence of clauses with operands, each of which stands for one way
to write a constant, a param, a column, a call, a cast or a nested `SELECT`
(`Written`, with `ConstantIn` for the constant, if there is one); the modifier of
the type in a cast is a constant that the walker leaves in place, and
`U&'x' UESCAPE '!'` is a constant of three tokens. `TextOf` puts
them together and `PlaceOf` is a constant's place in it. The walk has an action
for each thing `const_record_walker` does: coming to the next clause, target or
item (`BeginClause`, `BeginTarget`, `BeginGroup`, `SkipOrdinal`), in an order that
is not that of the text (`ComesBefore`), an operand (`VisitOperand`,
`VisitSelect`), and what follows the walk of a clause (`EndClause`, `EndTarget`,
`EndGroup`). `walker` is where it is, which in the code is the C stack, and `todo`
the clauses to come. `SortConstants` has the two orders `qsort` may give to equal
locations, `FillInLength` reads tokens with
`Scanner` and measures up to the NUL it finds, and `CopyConstant` and `CopyRest`
build the result. A piece of copied text is the places it was copied from, so
that `ConstantsAreReplaced` compares the result with the query place by place:
a param for the first token of each constant, or for its sign and the token after
that (`Measure`), and everything else as it was. Of a constant with more tokens
the rest stays in the text, which is not what the code's comment says (lines 84 and
85), and what the property asks.

### PgQuery

A call is a script, the sequence of things its C function does (`todo`); `Parse`,
`Scan`, `Normalize` and `ParsePlpgsql` are those scripts, and `Tree` and `Visit`
the recursion of a walker over unknown and known nodes. A function for
`pg_query_parse_plpgsql` may be in another language (`OtherFunction`), for which no
function context is made. `PgTry` puts a frame with the
rest of the script on the C stack, and `Throw` takes the thread to the frame
`PG_exception_stack` points to. `const_record_walker` returns from inside
`PG_TRY`, which leaves that pointer on a frame that is gone; the model reuses
places of frames as the stack does. `mem` are the contexts: `malloced` are the
addresses that are not free, `live` the contexts in use, `free` the freelist of
`aset.c`. `Enter`, `CreateKey` and `SetSpecific` are the first call of a thread,
in which other threads can step in between, as they can anywhere else.

## What is checked

| run | result |
|---|---|
| `extract_safety` | `TypeOK`; numbers stay unique over kills, restarts and changed inputs; answers of recorded messages are in readable section files; those files and answers are final; once kills stop and the input stays, every message of it is recorded, unless the record was left truncated or a run skips the last message |
| `extract_tail` | **violated**: a run that ends normally may drop the answers since the last checkpoint |
| `syntax_safety` | `TypeOK`; a flaw file with a verdict has the verdict on a whole well-formed input; `main` implements `FlawCheck` |
| `syntax_leak` | **violated**: one result is freed however many were allocated, even none |
| `pipeline_safety` | `TypeOK`; what is collected as correct or as repaired parses, if a check got to open the flaw files it goes by; the outputs are disjoint; no message is dropped; errors are of this pass under the same condition, and belong to the SQL they are sent with, unless a message is in two section files |
| `exec_safety` | `TypeOK`; the seeds replay from the database the run started with and give the one it has; saved seeds are numbered in order |
| `exec_independent` | **violated**: a seed needs an object of an earlier snippet |
| `mails_safety` | `MailsTypeOK`; a complete pass loses no question with a keyword that its Message-ID identifies |
| `json_lists` | `TypeOK`; the pointers of every list are the sequence the calls say; every item has one holder; deleting what the caller holds frees everything |
| `split_texts` | an error quotes the token it is about; the grammar receives the words of the text; the second pass of the split fills what the first counted; statements are disjoint; both splits find the same ones, and in texts with `BEGIN ATOMIC` bodies the scanner's are parts of the parser's |
| `normalize_queries` | each constant is replaced from its first token, with its sign, and nothing else changes; the numbers are new and without gaps; constants share a number only where `GROUP BY` repeats a target, and then they do |
| `pg_query` | no context is freed while something points to it; a call leaves no context, handler or error; errors find a handler and are returned; threads free everything; options are set back unless the call failed |

Bounds. `Extract`: three messages (one under two keys), checkpoints every two,
two SQL texts, three inputs: enough for a checkpoint in the middle and one at
the end, for a resumed run that skips, fails and answers, and for answers that
differ between calls. `SyntaxValid`: all objects of up to
two entries of every kind and three of two kinds. `Pipeline`: two messages, two
section files, one correct and one broken text, so that sections can agree,
differ in a message, or be overwritten. `View` leaves out of a state the files
of writers that have not run in this pass: such a file is truncated by its writer
before another step may read it, so that states that differ only there behave
alike, and no property looks at it; `flaws.json`, for which that is not so
(`FilterCannotOpen`), is in it.
`ExecFilter`: two objects and three lists of two or three snippets that depend
on, repeat or fail after one another, `MaxSeeds` the length of the longest.
`Mails`: two directories, two ids, three archives with each kind of mail.
`JsonList`: a heap of seven items and arrays of up to three parsed children,
enough for a change at the first, a middle and the last child, for lists of one,
and to duplicate a tree of three levels; addresses are symmetric, because
`malloc` prefers none and no temporal property is checked.
`Split`: all texts of up to four words that matter to `base_yylex` (`MaxWords`,
three words and one after them for `UESCAPE`), touching or apart, and all of up
to five that matter to the split (`MaxSplit`), such as two statements and an
empty one, or parentheses that do not match, and of up to five with a body
(`MaxBody`), such as one with two semicolons in it; `SizeMod` is 16 in place of 2^64,
more than the parentheses of a text can get back from. `Normalize`: `SELECT`s of
up to two targets and two `GROUP BY` items of eight shapes, with other clauses
before and after, and `UPDATE`s of two columns. `PgQuery`: the thread that may
call `pg_query_exit` and one that ends, scripts with two nodes under a root and
up to two functions; a freelist of one (`MaxFree`, 100 in the code) is full and
emptied in the second call already; two keys (`MaxKeys`) are reached by the two
threads, or used up by others before; `Contexts` and `Frames` are as many as one
thread can have at once, and running out of them would be an error in TLC.
Deadlock is checked everywhere except for `SyntaxValid`, a program that ends;
where all is done the modules have an explicit step that stays (`Returned`,
`Done`, `AllGone`).

Fairness is assumed in `extract_safety` only: weak fairness of the running
script (one sequential process that the user starts again), and strong fairness
of an answered call for each message (the model does not fail for one message
forever). Kills and changes of the input are not fair; the property assumes that
they stop.

## What is proved

For every set of messages, answers, inputs and every threshold, `MailExtractProofs`
proves that `Extract` satisfies `TypeOK`, `ArrivalNumbers`, `NoLostAnswer`,
`CheckpointsAreFinal` and `RecordedAnswersAreFinal`. The assumptions are those of
the module: finitely many ids, inputs without a repeated key, a positive
threshold, and a truncated file that is no dict. None of the properties is
inductive alone. `IInv` adds that a running process extends the record it
resumed from (`ResumeInv`), that a checkpoint is under a number beyond the
record (`GrowthInv`), that the section has the answers of all messages in the
pool and not in the record (`SectionInv`), and that the section is on disk
before the record is touched (`WrittenInv`). `NextNumber` is the lemma about
numbering: giving a new message the size plus one keeps numbers unique. The
action properties follow from `IInv` step by step.

`SyntaxValidProofs` proves for all inputs, of any length, `TypeOK`,
`VerdictCoversInput` and that `SyntaxValid` implements `FlawCheck`
(`MainImplementsFlawCheck`). The assumptions are that the rejected texts are SQL
texts, that an input is a sequence of entries, and that `Old`, which stands for
whatever the flaw file held before, is told apart from everything the run puts
there. The invariant says that before the loop nothing has been collected
(`StartInv`), that `output_json` has exactly the flaws of the entries seen so
far, all of which are well-formed (`LoopInv`), that the flaw file follows the
program counter (`FileInv`), and that the status does (`StatusInv`). The
refinement then takes each action: opening and writing the flaw file are
`Truncate` and `Write`, a successful `Free` is `Succeed` because `LoopInv` makes
the file the verdict, every other end is `Fail`, and the rest are stutters.

`JsonListProofs` proves the four invariants of `json_lists` for any set of items
and any `MaxParsed`; the only assumption is that `Null` is no address. The
invariant has two parts. `Heap` says of the pointers and the histories that they
have their types (`Typed`), that each list is linked as its sequence says
(`Linked`), that an item outside every list has no neighbour (`Alone`), that no
item is twice among the children (`Unique`), that every item is a child or the
caller's (`Owned`), and that unallocated memory is clear (`Clear`). `Layered` says
that depths can be given that grow by one from each item to its children:
without it a ring of items, each the child of the next, would satisfy `Heap` and
leak. The argument follows the code: `OneListChanges` is the lemma for every
call that rewrites one list (`LinkHeap`, `InsertHeap`, `DetachHeap`,
`ReplaceHeap` show that each does); `FreedIsTree` shows that `cJSON_Delete`
frees whole lists and so leaves the others as they are (`DeleteHeap`); and
`MovedLayered` shifts the depths of the tree that is moved. `LeastNatural` stands
in for induction over depths: an item that no root reaches has one of least
depth, and its holder is reached.

`PipelineProofs` proves all invariants of `pipeline_safety` for any messages, SQL
texts and section files. The assumptions are that file names are finitely many
(merging goes through them in some order) and that `NoSql`, `Missing` and
`Corrupt` are told apart from what they stand beside. The invariant says what a
step of a pass may rely on. `StepInv`: a running step follows the last one that
ended normally. `CheckInv`: the flaw file of a section file in `checked` is either
truncated or the verdict on the section file as it is now, never one of an
earlier pass; and `RecheckInv` says the same of `flaws.json` and the repairs when
`rechecked` is true.
`ResultInv`: the file of every step that is done, and the result of a writer
that runs, was made from the files of the steps before it as they are now
(`IsJoin`, `IsRepair`, `IsVerdict`, `IsCorrect`, `IsFixed`). `ResultFrame` is the
lemma on interference: a result stays what it is when section files, verdicts
and the files of earlier steps do. A check that fails after it has opened the
flaw file leaves it empty, on which the collection raises: so `CorrectSqlParses`
follows from `CheckInv` for the section files in `checked`, and says nothing of a
section file outside. The five properties follow from what the results are.

`MailExtractProofs` proves all invariants of `mails_safety` for any directories,
archives and Message-IDs, with the same assumption on sentinels. `KeyInv` says
that every mail, in memory and in the files, is under its own id and that what
`filter.py` collects has a keyword; `SegmentInv` that `segmentation.py` has a mail
for the Message-ID of every question in the mbox files it has read (`Covers`), and
only archived mails (`From`), and that this holds of the output for every
directory segmented since the archive changed; `FilterInv` that `filter.py` has an
entry for everything with a keyword in the files it has been through. Which of
two mails with one id is kept depends on the order of the files, and the
invariant says nothing of it: `NoQuestionIsLost` has the condition that no mail
of that id lacks a keyword.

`ExecFilterProofs` proves all invariants of `exec_safety` for all inputs: nothing
is saved before the last snippet was tried (`CountInv`), and the files saved are
those of the first seeds (`SavedInv`). For `SeedsReplay`, `ReplayInv` follows the
run with a replay of the seeds: between two snippets the replay of the seeds so
far has succeeded and gives the committed objects, and inside a snippet without
transaction control the open transaction sees what the replay of the snippet's
first `pos` statements gives, while nothing is committed. A failure therefore
leaves the replay where it was, and a commit is one more seed of it
(`ReplayGoesOn`). The states of a replay are the values of a function by the
number of seeds (`Reached`), and `UpTo`, which takes the least number at which a
claim about them is wrong, stands in for induction over the list.

`SplitProofs` proves all invariants of `split_texts` for texts of any length and
any range of `size_t`, under the assumptions that the tokens of a text are in
order, that there are fewer of them than a `size_t` can count, the text being in
memory, and that the tokens for parse modes are none of the scanner's and none
that `base_yylex` puts in their place. `CoreYylexReads` is the lemma about the
scanner: putting its NUL back gives the text (`HasRead`), so what it returns
depends only on how many tokens it has read. The two loops of the split then
start alike and take the same tokens: `Trace` is the list of the states and
counts the first loop goes through, and `FillInv` says that the second one is
somewhere on the same list, with as many statements written as the list had
counted there (`Filling`), all before the start of the next (`Before`). That no
token is rejected in the second loop follows, since none was in the first. For
`base_yylex`, `Lexed` says between two calls how many tokens were read, that a
token kept for the next call is the last of them (`Pending`), and that the
buffer without the cut (`Uncut`) is one the scanner leaves; `RawInv` gives the
statements of the grammar locations before the last `;`, which `updateRawStmtEnd`
subtracts. `BaseYylexInv` has a lemma for each way through `base_yylex`.

Two more invariants count the tokens that the grammar is past, which are fewer
than the scanner has read when one is kept for the next call (`UsedUp`).
`TakesFrom` lists what a call can do there: skip a comment, or deliver a token
for the next one or for three. `ReceivedInv` says that every token delivered is
the one the text asks for from the end of the one before it (`AsExpected`), and
that only comments lie between that end and what comes next (`ReceivedUpTo`);
`GrammarReceivesTheWords` is stated in these steps, from one delivery to the next,
so that no definition has to go through the whole text. For `SplitsAgree`, the
states of the second loop are kept as a function of the tokens read, with the
statements it had written by then (`Trail`, `Written`). `Agrees` relates the
grammar, past `k` tokens, to the loop after the same `k`: as many open
parentheses, a keyword only where the loop has seen one, words wherever the loop
has a keyword, the same start of the next statement, and, once the last length
is filled in as the next `;` will do (`Closed`), the statements the loop had
written. Of an accepted text, the grammar has then no statement without a
keyword, so both end the same ones (`TerminatorAgrees`, `EndAgrees`); and
`open_parens` has not wrapped, since it is not negative and no greater than `k`
(`CountedAgrees`). All this is while no body was opened (`raw.atomic`); after
that, `SplitsAgree` says nothing, and `SplitsNest` is left to TLC. If the split has returned an error, the parser does not get
past the token it was about (`Rejected`).

`PgQueryProofs` proves all invariants of `pg_query` for any threads, any place for
contexts and frames, any number of keys and any length of the freelist. The
assumptions are that `Null` is no place, and that there is room
(`RoomAssumption`): for a fourth context beside three, and for a frame that is
none of those two frames of a call and their saved pointers occupy. Without room
the code raises an error or dies of its stack, neither of which is modelled. The
invariant has a part for each phase of a thread, `Idle`, `Entering`,
`MakingKey`, `UsingKey`, `InCall` and `Over`, and three ideas.

* Scripts. The situation of a thread in a call is what is left of its script
  with its C stack, its handler, the error stack, the options and the variables
  of the call. `Fine` says what must never fail there: an operation that may
  raise an error has a handler whose frame is on the stack (`Armed`), a pointer
  left over by `const_record_walker` is covered by a frame that will set it
  right, and at the end of the call nothing is left (`Finished`). A situation is
  `Safe` if it is in a set of fine situations that is closed under `Successors`,
  whatever can happen next, errors included. Such a set replaces an induction
  over scripts, which the provers do not do: the lemmas go backwards through a
  script, each saying that an operation is safe where the rest is (`ExitSafe`,
  `TrySafe`, `VisitSafe`, `TreeSafe`, `RawParseSafe`, `FunctionSafe`, ...), up to
  `ScriptsRun`: every function of the library is safe from the top context.
* Memory. `Memory` says that exactly the top context, the error context, and
  those that the variables of the call name are in use, and `Pool` that the
  freelist is short, without repetition, and apart from them. `EnterMemory`,
  `FunctionMemory`, `FreeFunctionMemory`, `ExitMemory` and `FreeTopMemory` are the
  operations on it.
* Threads. They meet only at the key. `KeysOK` says that the key in use is the
  last one made, and `Registered` that a thread has a value for one key, not
  necessarily its own: so its exit function runs once. `OthersStay` and
  `StepKeepsThread` reduce a step to the thread that takes it.

Then there is one lemma per action (`EnterStep`, `PgTryStep`, `ThrowIsCaught`,
`WorkStep`, ...), and `ErrorsAlwaysReachHandlers`, `NothingIsLeft` and the other
theorems read off what the phases say.

`NormalizeProofs` proves all invariants of `normalize_queries` for any set of
queries (`QueriesAssumption`: targets come before `GROUP BY`) of any length, the
other assumption being that `Null` is no sequence of numbers. The text of a query
is a flattened sequence of pieces, for which `FlatIs` and `PieceIs` say where each
piece is; hence `PlaceIs` says which tokens a constant is made of, and
`PlacesAreApart` that two constants share none. `CoreYylexReads` and `NulAfterIs`
are what the scanner and its NUL give. The invariant `IInv` follows the phases:

* The walk (`Core`). `WalkerInv`: what is still to come is last in the order of
  the walk. `RecordsInv` (`HasRecords`): the constants the walker has been at, and
  only these, are recorded, once outside `SET`. `NumbersInv`: of the records from
  before the `GROUP BY` item that is being walked (`Old`), the numbers given out
  go from 1 to `Base - 1`, each is used, and two records share one only if one is
  in a `GROUP BY` item and the other in a target with its fingerprint (`Numbered`,
  `Repeats`); the records of the item itself are numbered in order
  (`ItemNumbered`), which is why the item can give back as many numbers as it has
  records. `RefsInv`: the params noted for a target, listed, matched or being
  walked, have numbers of that target's records only, and no two targets share one
  that was given out (`IsRefs`, `Disjoint`). Without the last part a second item
  could give records of two targets one number. There is a lemma for each action
  of the walk (`CoreBeginTarget`, `CoreEndGroup`, ...).
* The sort and the scan. `SortedReorders`: whatever `qsort` does with equal
  locations, the records are a permutation, in order (`FoundInv`), and both
  `HasRecords` and `Numbered` survive a permutation. `LengthsInv`: the scanner has
  not passed a constant that has no length, so it never meets the end of the text
  (`ScanFinds`), and the first record of each place gets its length (`Measured`).
* The copy. `NormInv`: the copy ends behind the constants before `i` and not
  behind the next one, so no length to copy is negative, which is what the two
  `Assert`s of `generate_normalized_query` ask. `TextInv`: up to there the result
  is the text with a param for each constant (`CopiedTo`).

`ConstantsAreReplaced`, `NumbersAreFresh` and `SharedNumbersMatch` follow at the
end. `GroupItemsFollowTargets` needs a second invariant, `CInv`, about a target
and the item that copies it (`CopyInv`): while the target is walked the params
noted are those of the constants seen so far, in their order (`Holds`); from its
end to the item it is the only one in the list with its fingerprint; while the
item is walked its constants are recorded in the order of the target's; and from
then on both have the same numbers (`Follows`), which sorting and measuring leave.

Only model-checked are liveness (`EventuallyAllRecorded`), which is out of reach
of the prover, `SplitsNest`, and the runs that show a violation.

## What the code does otherwise

Runs that show a violation are about claims that the repository makes of itself
and the code does not keep; each has an entry under "findings" in `PROJECT.json`.
Some of the other properties have an exception in them, because the code does
not do what one would expect. The models have the code's behaviour:

* The last section of an extraction is dropped if its last message fails or was
  recorded (`CompletedRunSavesAnswers`), and `syntax_valid` frees one result of
  several, or of none (`FreesUsedMemory`).
* `syntax_valid` may end before it has truncated the flaw file (lines 75 to 91):
  SQL that was not checked is then kept as correct, and
  broken repairs by the verdict on earlier ones, although step 6 of the README says
  that they "will be removed": `CorrectSqlParses` and `FixedSqlParses` are about
  what was checked. Nothing makes the directory `tmp/raw/fixed` that the report is
  opened in; without it, there is no `flaws.json` either, and the collection
  raises.
* The report file of `syntax_valid` is not optional, whatever line 62 of
  `syntax_valid.c` says: without one, lines 156 and 173 use a null pointer.
* `execution_filter.py` rolls back at line 57 what line 56 has committed: a
  snippet finds the objects of the earlier ones (`SeedsAreIndependent`;
  `SeedsReplay` speaks of seeds one after the other, not each by itself).
* `segement.sh` says that the segmentation is complete when it has failed on a
  directory; `NoQuestionIsLost` is about passes in which none failed.
* `filter.py -f` saves an empty dict: the result of the filter is not used.
* A message in two section files can be sent to repair with SQL that parses,
  since SQL and errors are joined by message id, in the order of `os.listdir` (`HintsAreCurrent`).
* `pg_query_split_with_scanner` splits inside the body of a function with
  `BEGIN ATOMIC`; see `SplitsNest`.
* A comment behind a word that looks ahead hides what follows (`NOT /**/ IN`), in
  spite of lines 108 to 110 of `src_backend_parser_parser.c`; see
  `NoCommentAhead`.
* Items of `GROUP BY` that equal a target keep equal to it only if they have no
  nested `SELECT` and no param of their own, and no third one looks like them;
  see `IsCopy`.
* Of a negative constant with something between the sign and the number, `-(5)`,
  `fill_in_constant_lengths` takes two tokens, and of `U&'x' UESCAPE '!'` one; the
  rest stays in the text (`Measure` in `ConstantsAreReplaced`).
* A record that a kill left truncated stops every later extraction, and no
  step repairs it: `NoLostAnswer` and `EventuallyAllRecorded` exempt it.
* Seeds of an earlier run with higher numbers stay in `./seeds`.
* A parse that fails leaves its parser options set for calls of the thread that
  do not set them: `OptionsAreSetBack` says that this is the only way.

## Not modelled

Most lines of the repository are generated or tables: the protocol buffer code
(`protobuf/`, more than half of all), the grammar's and the scanner's tables
(`gram.c`, `scan.c`), and one function for each of several hundred node types in
the output, copy, fingerprint and deparse files. They have no state beyond the
call, and what a caller relies on is in `PgQuery`, `Split` and `Normalize`; a
share of lines says little about them.

* `libpg_query`: running out of memory, which is an error raised at any
  allocation; blocks and chunks inside a context; JSON and protobuf results and
  the functions that free them (`stderr_buffer` leaks at line 467 of
  `pg_query_parse_plpgsql.c`); deparsing and fingerprints; the pipe for
  `stderr`, which `#define DEBUG` compiles out; in the normalization, statements
  other than `SELECT` and `UPDATE`, and operands other than those of `Written`,
  such as set operations, windows and strings of utility statements; calls after `pg_query_exit`, which leaves
  `pg_query_initialized` set, so that they would use freed contexts. The parser
  is deterministic, so whether it rejects a text is a constant of `SyntaxValid`.
* `cJSON.c`: references to other items' children, the names and values of items,
  scanning, printing and comparison.
* The notebooks and `manual/`, where files are copied by hand by their numbers,
  the smoke test `syntax_test.c`, the data directories.
* Texts of prompts, mails and SQL, and the keyword list, are data.
  `segmentation.py -f` raises before it writes a file. A build that fails inside
  `syntax_check.sh`. Interruptions while a file is flushed leave a file that is
  not JSON, which is the same as a truncated one to every reader.

## Plan

1. Done: `Extract`, `SyntaxValid`, `Pipeline`, `ExecFilter`, `Mails`, `JsonList`,
   `TokenFilter`, `Split`, `Normalize`, `PgQuery`, and the proofs of every safety
   property about them.
2. Next: references in `cJSON.c` (`cJSON_AddItemReferenceToArray`), whose items
   share the children of another holder, and its print buffer; blocks and chunks
   of `aset.c`; classification by seed number.
