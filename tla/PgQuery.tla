------------------------------ MODULE PgQuery ------------------------------
(***************************************************************************)
(* Threads that call libpg_query: each has its memory contexts, its handler *)
(* stack, its error stack and its parser options, all thread-local; only    *)
(* the key of the thread exit function is shared.                           *)
(*                                                                         *)
(* A call is a script of what its C function does, and todo is what is left *)
(* of it.  A PG_TRY puts a frame on the C stack with the script of its      *)
(* PG_CATCH and of what follows; an error takes the thread to the frame     *)
(* PG_exception_stack points to.                                            *)
(***************************************************************************)
EXTENDS Integers, FiniteSets, Sequences, SequencesExt

CONSTANTS
  Threads,      \* the threads of the program
  Exits,        \* threads that call pg_query_exit; they do not exit otherwise
  Contexts,     \* where malloc can put a memory context
  MaxFree,      \* MAX_FREE_CONTEXTS
  MaxKeys,      \* PTHREAD_KEYS_MAX
  Frames,       \* where the C stack can have a PG_TRY
  Null          \* a null pointer

ASSUME ExitsAssumption == Exits \subseteq Threads
ASSUME LimitsAssumption == MaxFree \in Nat \ {0} /\ MaxKeys \in Nat \ {0}
ASSUME NullAssumption == Null \notin Contexts \cup Frames

\* Running out of memory or of stack is not modelled: malloc has a place for a
\* fourth context, and the stack for a PG_TRY inside two others.
ASSUME RoomAssumption ==
  /\ \A a, b, c \in Contexts \cup {Null} : Contexts \ {a, b, c} # {}
  /\ \A a, b, c, d, e \in Frames \cup {Null} : Frames \ {a, b, c, d, e} # {}

VARIABLES
  threadKey,  \* pg_query_thread_exit_key, 0 before there is one
  keys,       \* how many keys the program has, others' keys included
  life,       \* "running", "exited" (pg_query_exit), "ended"
  values,     \* keys for which the thread has its TopMemoryContext as value
  mem,        \* contexts: initialized; those malloc gave and free did not get;
              \* those in use; parent, top, error, current; the freelist
  frames,     \* PG_TRYs the thread is in, innermost last
  handler,    \* PG_exception_stack: id of a frame, or Null
  errors,     \* errordata_stack_depth + 1, and whether ErrorContext has data
  options,    \* backslash_quote and the two others: now; and a history variable:
              \* whether the parse that set them last failed
  call,       \* ctx, func and result.error of the call; and history variables:
              \* whether its work failed, whether it set the options
  todo        \* what is left of it

perThread == <<life, values, mem, frames, handler, errors, options, call, todo>>
vars == <<threadKey, keys, perThread>>

NoCall == [ctx |-> Null, func |-> Null, error |-> FALSE, failed |-> FALSE,
           sets |-> FALSE]
NoMemory == [initialized |-> FALSE, malloced |-> {}, live |-> {}, parent |-> [c \in Contexts |-> Null],
             top |-> Null, error |-> Null, current |-> Null, free |-> <<>>]

Do(op) == <<[do |-> op]>>

-----------------------------------------------------------------------------
(***************************************************************************)
(* The functions of the library                                            *)
(***************************************************************************)

\* What a PG_CATCH does after it went back to the context of before PG_TRY: the
\* API functions copy the error, the walkers forget it.
Report == Do("CopyErrorData") \o Do("FlushErrorState")
Forget == Do("FlushErrorState")

\* leave: how the body is left when nothing fails, "end" or "return".
Try(body, catch, leave) ==
  <<[do |-> "try", body |-> body, catch |-> catch, leave |-> leave]>>

\* Mutant: the options are not set back.
RawParseKeepsOptions(opts) ==
  Try(<<[do |-> "set options", to |-> opts]>> \o Do("parse"), Report, "end")

RawParse(opts) ==
  Try(<<[do |-> "set options", to |-> opts]>> \o Do("parse") \o
        <<[do |-> "set options", to |-> "default"]>>,
      Report, "end")

\* Mutant: an unknown node is not found before PG_TRY was left.
VisitUnprotected(node, leave) ==
  Try(<<>>, Forget, leave) \o (IF node = "unknown" THEN Do("throw") ELSE <<>>)

\* Each node is visited in a PG_TRY of its own, where an unknown one is an error
\* that stops only at that node.
Visit(node, leave) ==
  Try(IF node = "unknown" THEN Do("throw") ELSE <<>>, Forget, leave)

\* A node and its two children.
Tree(children, leave) ==
  Try(Visit(children[1], leave) \o Visit(children[2], leave), Forget, leave)

Children == {<<"known", "unknown">>, <<"unknown", "known">>}

\* pg_query_parse_opts, pg_query_parse_protobuf_opts,
\* pg_query_fingerprint_with_opts, pg_query_split_with_parser
Parse(opts) == Do("enter") \o RawParse(opts) \o Do("exit")

\* pg_query_scan, pg_query_split_with_scanner, pg_query_deparse_protobuf
Scan == Do("enter") \o Try(Do("parse"), Report, "end") \o Do("exit")

\* pg_query_normalize_ext; const_record_walker returns from inside its PG_TRY.
Normalize(children) ==
  Do("enter") \o Try(Do("parse") \o Tree(children, "return"), Report, "end") \o
    Do("exit")

\* Mutant: a function that does not compile ends the call where it is.
FunctionReturns ==
  Try(Do("new function") \o Do("compile") \o Do("function done"), Report, "end")
    \o Do("return if error") \o Do("free function")

\* pg_query_raw_parse_plpgsql for a function, and what is done with the result.
Function ==
  Try(Do("new function") \o Do("compile") \o Do("function done"), Report, "end")
    \o Do("exit if error") \o Do("free function")

\* For one in another language there is no context: nothing is compiled, and the
\* zeroed function that comes back has nothing to free.
OtherFunction == Try(<<>>, Report, "end") \o Do("exit if error")

\* None, two, or one behind a function in another language.
PlpgsqlFunctions == {<<>>, Function \o Function, OtherFunction \o Function}

\* pg_query_parse_plpgsql; stmts_walker leaves its PG_TRY at its end.
ParsePlpgsql(children, functions) ==
  Do("enter") \o RawParse("default") \o Do("exit if error") \o
    Tree(children, "end") \o functions \o Do("exit")

Scripts ==
  {Parse("default"), Parse("other"), Scan}
    \cup {Normalize(c) : c \in Children}
    \cup {ParsePlpgsql(c, f) : c \in Children, f \in PlpgsqlFunctions}

-----------------------------------------------------------------------------
(***************************************************************************)
(* Memory contexts: m is the memory of a thread                            *)
(***************************************************************************)

Unused(m) == Contexts \ m.malloced
AnyOf(places) == CHOOSE p \in places : TRUE

WithContext(m, c, parent) ==
  [m EXCEPT !.malloced = @ \cup {c}, !.live = @ \cup {c}, !.parent[c] = parent]

\* AllocSetContextCreate with ALLOCSET_DEFAULT_SIZES: a context of the freelist,
\* or a new one.
Created(m) == IF m.free # <<>> THEN Head(m.free) ELSE AnyOf(Unused(m))
Create(m, parent) ==
  WithContext([m EXCEPT !.free = IF @ = <<>> THEN @ ELSE Tail(@)], Created(m), parent)

\* MemoryContextInit; the sizes of ErrorContext are not those of the freelist.
MemoryContextInit(m) ==
  LET top   == Created(m)
      made  == Create(m, Null)
      error == AnyOf(Unused(made))
  IN  [WithContext(made, error, top) EXCEPT
         !.initialized = TRUE, !.top = top, !.current = top, !.error = error]

\* AllocSetDelete: ErrorContext is freed, any other goes to the freelist, which
\* is emptied first when it is full.
AllocSetDelete(m, c) ==
  LET deleted == [m EXCEPT !.live = @ \ {c}, !.parent[c] = Null]
  IN  IF c = m.error THEN [deleted EXCEPT !.malloced = @ \ {c}]
      ELSE IF Len(m.free) < MaxFree THEN [deleted EXCEPT !.free = <<c>> \o @]
      ELSE [deleted EXCEPT !.malloced = @ \ Range(m.free), !.free = <<c>>]

ChildrenOf(m, c) == {d \in m.live : m.parent[d] = c}

\* The contexts of a sequence deleted one after the other.
AllDeleted(m, contexts) ==
  LET after[n \in 0..Len(contexts)] ==
        IF n = 0 THEN m ELSE AllocSetDelete(after[n - 1], contexts[n])
  IN  after[Len(contexts)]

\* MemoryContextDeleteChildren; the contexts of functions have no children.
DeleteChildren(m, c) ==
  LET kids  == SetToSeq(ChildrenOf(m, c))
      below == SetToSeq(UNION {ChildrenOf(m, d) : d \in ChildrenOf(m, c)})
  IN  AllDeleted(m, below \o kids)
MemoryContextDelete(m, c) == AllocSetDelete(DeleteChildren(m, c), c)

\* AllocSetDeleteFreeList
DeleteFreeList(m) == [m EXCEPT !.malloced = @ \ Range(m.free), !.free = <<>>]

\* pg_query_free_top_memory_context: the top context is put on the freelist and
\* freed as well.
FreeTop(m) ==
  [AllocSetDelete(DeleteFreeList(DeleteChildren(m, m.top)), m.top) EXCEPT
     !.malloced = @ \ {m.top}, !.top = Null, !.current = Null, !.error = Null]

-----------------------------------------------------------------------------
Init ==
  /\ threadKey = 0
  /\ keys \in 0..MaxKeys - 1
  /\ life = [t \in Threads |-> "running"]
  /\ values = [t \in Threads |-> {}]
  /\ mem = [t \in Threads |-> NoMemory]
  /\ frames = [t \in Threads |-> <<>>]
  /\ handler = [t \in Threads |-> Null]
  /\ errors = [t \in Threads |-> [depth |-> 0, data |-> FALSE]]
  /\ options = [t \in Threads |-> [now |-> "default", failed |-> FALSE]]
  /\ call = [t \in Threads |-> NoCall]
  /\ todo = [t \in Threads |-> <<>>]

\* What thread t does next, and that it does it.
Operation(t) == Head(todo[t])
Does(t, op) ==
  /\ life[t] = "running"
  /\ todo[t] # <<>>
  /\ Head(todo[t]).do = op
GoesOn(t) == todo' = [todo EXCEPT ![t] = Tail(@)]

Call(t) ==
  /\ life[t] = "running"
  /\ todo[t] = <<>>
  /\ \E script \in Scripts : todo' = [todo EXCEPT ![t] = script]
  /\ call' = [call EXCEPT ![t] = NoCall]
  /\ UNCHANGED <<threadKey, keys, life, values, mem, frames, handler, errors, options>>

\* pg_query_enter_memory_context, the first time after pg_query_init.
Enter(t) ==
  /\ Does(t, "enter")
  /\ IF mem[t].initialized
     THEN /\ mem' = [mem EXCEPT ![t] = [Create(@, @.top) EXCEPT
                                           !.current = Created(mem[t])]]
          /\ call' = [call EXCEPT ![t].ctx = Created(mem[t])]
          /\ GoesOn(t)
     ELSE /\ mem' = [mem EXCEPT ![t] = MemoryContextInit(@)]
          /\ todo' = [todo EXCEPT ![t] = Do("create key") \o Do("set specific") \o @]
          /\ UNCHANGED call
  /\ UNCHANGED <<threadKey, keys, life, values, frames, handler, errors, options>>

\* Every thread makes a key, which becomes the one of all threads; when there
\* can be no more keys the last one stays.  The first thread finds room.
CreateKey(t) ==
  /\ Does(t, "create key")
  /\ IF keys < MaxKeys THEN keys' = keys + 1 /\ threadKey' = keys + 1
     ELSE UNCHANGED <<keys, threadKey>>
  /\ GoesOn(t)
  /\ UNCHANGED <<life, values, mem, frames, handler, errors, options, call>>

\* Mutant: only the thread whose key it is has a value for it.
SetSpecificOnce(t) ==
  /\ Does(t, "set specific")
  /\ values' = [values EXCEPT ![t] =
                   IF \E u \in Threads \ {t} : threadKey \in values[u] THEN @
                   ELSE @ \cup {threadKey}]
  /\ GoesOn(t)
  /\ UNCHANGED <<threadKey, keys, life, mem, frames, handler, errors, options, call>>

\* Another thread may have changed the key since this one made its own.
SetSpecific(t) ==
  /\ Does(t, "set specific")
  /\ values' = [values EXCEPT ![t] = @ \cup {threadKey}]
  /\ GoesOn(t)
  /\ UNCHANGED <<threadKey, keys, life, mem, frames, handler, errors, options, call>>

\* Where the next PG_TRY has its jump buffer: not where a pointer leads to.
FreshFrame(t) ==
  AnyOf(Frames \ ({f.id : f \in Range(frames[t])} \cup {f.saved : f \in Range(frames[t])}
                      \cup {handler[t]}))

PgTry(t) ==
  /\ Does(t, "try")
  /\ LET op   == Operation(t)
         rest == Tail(todo[t])
         back == <<[do |-> "switch back", to |-> mem[t].current]>>
         end  == Do(IF op.leave = "end" THEN "end try" ELSE "return")
     IN  /\ frames' = [frames EXCEPT ![t] =
              Append(@, [id |-> FreshFrame(t), saved |-> handler[t],
                         catch |-> back \o op.catch \o rest])]
         /\ handler' = [handler EXCEPT ![t] = FreshFrame(t)]
         /\ todo' = [todo EXCEPT ![t] = op.body \o end \o rest]
  /\ UNCHANGED <<threadKey, keys, life, values, mem, errors, options, call>>

PgEndTry(t) ==
  /\ Does(t, "end try")
  /\ handler' = [handler EXCEPT ![t] = Last(frames[t]).saved]
  /\ frames' = [frames EXCEPT ![t] = Front(@)]
  /\ GoesOn(t)
  /\ UNCHANGED <<threadKey, keys, life, values, mem, errors, options, call>>

\* PG_exception_stack is left where it was.
ReturnFromTry(t) ==
  /\ Does(t, "return")
  /\ frames' = [frames EXCEPT ![t] = Front(@)]
  /\ GoesOn(t)
  /\ UNCHANGED <<threadKey, keys, life, values, mem, handler, errors, options, call>>

\* ereport(ERROR): without a handler the process exits, with a full error stack
\* it panics, with a handler that is gone anything may happen.
Throw(t) ==
  LET at == {k \in 1..Len(frames[t]) : frames[t][k].id = handler[t]}
      k  == CHOOSE k \in at : TRUE
  IN
  /\ errors' = [errors EXCEPT ![t] = [depth |-> @.depth + 1, data |-> TRUE]]
  /\ mem' = [mem EXCEPT ![t].current = mem[t].error]
  /\ IF handler[t] # Null /\ at # {} /\ errors[t].depth < 5
     THEN /\ handler' = [handler EXCEPT ![t] = frames[t][k].saved]
          /\ frames' = [frames EXCEPT ![t] = SubSeq(@, 1, k - 1)]
          /\ todo' = [todo EXCEPT ![t] = frames[t][k].catch]
          /\ UNCHANGED life
     ELSE /\ life' = [life EXCEPT ![t] = "lost"]
          /\ UNCHANGED <<handler, frames, todo>>

\* The work of a call: parsing, compiling, printing.
Work(t) ==
  /\ Does(t, "parse") \/ Does(t, "compile")
  /\ \/ /\ GoesOn(t)
        /\ UNCHANGED <<life, mem, frames, handler, errors, options, call>>
     \/ /\ Throw(t)
        /\ call' = [call EXCEPT ![t].failed = TRUE]
        /\ options' = [options EXCEPT ![t].failed =
                          IF Does(t, "parse") /\ call[t].sets THEN TRUE ELSE @]
  /\ UNCHANGED <<threadKey, keys, values>>

\* raw_expression_tree_walker meets a node it does not know.
UnknownNode(t) ==
  /\ Does(t, "throw")
  /\ Throw(t)
  /\ UNCHANGED <<threadKey, keys, values, options, call>>

SwitchBack(t) ==
  /\ Does(t, "switch back")
  /\ mem' = [mem EXCEPT ![t].current = Operation(t).to]
  /\ GoesOn(t)
  /\ UNCHANGED <<threadKey, keys, life, values, frames, handler, errors, options, call>>

\* Mutant: ErrorContext has been reset.
CopyErrorDataOfNone(t) ==
  /\ Does(t, "CopyErrorData")
  /\ call' = [call EXCEPT ![t].error = errors[t].depth > 1]
  /\ GoesOn(t)
  /\ UNCHANGED <<threadKey, keys, life, values, mem, frames, handler, errors, options>>

\* There is an error to copy as long as ErrorContext has it.
CopyErrorData(t) ==
  /\ Does(t, "CopyErrorData")
  /\ call' = [call EXCEPT ![t].error = errors[t].depth > 0 /\ errors[t].data]
  /\ GoesOn(t)
  /\ UNCHANGED <<threadKey, keys, life, values, mem, frames, handler, errors, options>>

FlushErrorState(t) ==
  /\ Does(t, "FlushErrorState")
  /\ errors' = [errors EXCEPT ![t] = [depth |-> 0, data |-> FALSE]]
  /\ GoesOn(t)
  /\ UNCHANGED <<threadKey, keys, life, values, mem, frames, handler, options, call>>

SetOptions(t) ==
  /\ Does(t, "set options")
  /\ options' = [options EXCEPT ![t] = [now |-> Operation(t).to, failed |-> FALSE]]
  /\ call' = [call EXCEPT ![t].sets = TRUE]
  /\ GoesOn(t)
  /\ UNCHANGED <<threadKey, keys, life, values, mem, frames, handler, errors>>

\* compile_create_function_stmt keeps what it makes in a context of its own.
NewFunction(t) ==
  /\ Does(t, "new function")
  /\ mem' = [mem EXCEPT ![t] = [Create(@, @.current) EXCEPT
                                  !.current = Created(mem[t])]]
  /\ call' = [call EXCEPT ![t].func = Created(mem[t])]
  /\ GoesOn(t)
  /\ UNCHANGED <<threadKey, keys, life, values, frames, handler, errors, options>>

FunctionDone(t) ==
  /\ Does(t, "function done")
  /\ mem' = [mem EXCEPT ![t].current = call[t].ctx]
  /\ GoesOn(t)
  /\ UNCHANGED <<threadKey, keys, life, values, frames, handler, errors, options, call>>

\* plpgsql_free_function_memory
FreeFunction(t) ==
  /\ Does(t, "free function")
  /\ mem' = [mem EXCEPT ![t] = MemoryContextDelete(@, call[t].func)]
  /\ call' = [call EXCEPT ![t].func = Null]
  /\ GoesOn(t)
  /\ UNCHANGED <<threadKey, keys, life, values, frames, handler, errors, options>>

ExitIfError(t) ==
  /\ Does(t, "exit if error") \/ Does(t, "return if error")
  /\ todo' = [todo EXCEPT ![t] =
                IF ~call[t].error THEN Tail(@)
                ELSE IF Does(t, "exit if error") THEN Do("exit") ELSE <<>>]
  /\ UNCHANGED <<threadKey, keys, life, values, mem, frames, handler, errors, options,
                 call>>

\* Mutant: the thread stays in the context that is deleted.
ExitInContext(t) ==
  /\ Does(t, "exit")
  /\ mem' = [mem EXCEPT ![t] = MemoryContextDelete(@, call[t].ctx)]
  /\ call' = [call EXCEPT ![t].ctx = Null, ![t].func = Null]
  /\ todo' = [todo EXCEPT ![t] = <<>>]
  /\ UNCHANGED <<threadKey, keys, life, values, frames, handler, errors, options>>

\* pg_query_exit_memory_context, and the return to the caller.
Exit(t) ==
  /\ Does(t, "exit")
  /\ mem' = [mem EXCEPT ![t] =
               [MemoryContextDelete(@, call[t].ctx) EXCEPT !.current = mem[t].top]]
  /\ call' = [call EXCEPT ![t].ctx = Null, ![t].func = Null]
  /\ todo' = [todo EXCEPT ![t] = <<>>]
  /\ UNCHANGED <<threadKey, keys, life, values, frames, handler, errors, options>>

\* A thread ends: for each key with a value of its own the exit function frees
\* the top context, which cannot be done twice.
ThreadExit(t) ==
  /\ life[t] = "running" /\ todo[t] = <<>>
  /\ t \notin Exits
  /\ IF values[t] = {} THEN UNCHANGED mem
     ELSE mem' = [mem EXCEPT ![t] = FreeTop(@)]
  /\ life' = [life EXCEPT ![t] = IF Cardinality(values[t]) > 1 THEN "lost" ELSE "ended"]
  /\ values' = [values EXCEPT ![t] = {}]
  /\ UNCHANGED <<threadKey, keys, frames, handler, errors, options, call, todo>>

\* pg_query_exit: nothing may be called after it.
PgQueryExit(t) ==
  /\ life[t] = "running" /\ todo[t] = <<>>
  /\ t \in Exits
  /\ mem[t].initialized
  /\ mem' = [mem EXCEPT ![t] = FreeTop(@)]
  /\ life' = [life EXCEPT ![t] = "exited"]
  /\ UNCHANGED <<threadKey, keys, values, frames, handler, errors, options, call, todo>>

AllGone == (\A t \in Threads : life[t] # "running") /\ UNCHANGED vars

Step(t) ==
  \/ Call(t) \/ Enter(t) \/ CreateKey(t) \/ SetSpecific(t)
  \/ PgTry(t) \/ PgEndTry(t) \/ ReturnFromTry(t)
  \/ Work(t) \/ UnknownNode(t) \/ SetOptions(t)
  \/ SwitchBack(t) \/ CopyErrorData(t) \/ FlushErrorState(t)
  \/ NewFunction(t) \/ FunctionDone(t) \/ FreeFunction(t)
  \/ ExitIfError(t) \/ Exit(t)
  \/ ThreadExit(t) \/ PgQueryExit(t)

Next == (\E t \in Threads : Step(t)) \/ AllGone

Spec == Init /\ [][Next]_vars

-----------------------------------------------------------------------------
(***************************************************************************)
(* Properties                                                              *)
(***************************************************************************)

MemoryOK(m) ==
  /\ m.live \subseteq Contexts /\ m.malloced \subseteq Contexts
  /\ m.parent \in [Contexts -> Contexts \cup {Null}]
  /\ {m.top, m.error, m.current} \subseteq Contexts \cup {Null}
  /\ Len(m.free) <= MaxFree

TypeOK ==
  /\ threadKey \in 0..keys /\ keys \in 0..MaxKeys
  /\ \A t \in Threads :
       /\ life[t] \in {"running", "exited", "ended", "lost"}
       /\ values[t] \subseteq 1..MaxKeys
       /\ MemoryOK(mem[t])
       /\ handler[t] \in Frames \cup {Null}
       /\ errors[t].depth \in 0..5

Calling(t) == todo[t] # <<>>

\* Whatever call a thread is in, and however it got there, no context is in
\* use twice or on the freelist as well, every context hangs below the top
\* context, the one memory is taken from is there, and the freelist keeps its
\* limit.
PointersAreLive ==
  /\ TypeOK
  /\ \A t \in Threads : life[t] = "running" /\ mem[t].initialized =>
       LET m == mem[t] IN
       /\ {m.top, m.error, m.current} \subseteq m.live
       /\ m.live \cup Range(m.free) \subseteq m.malloced
       /\ m.live \cap Range(m.free) = {}
       /\ IsInjective(m.free)
       /\ \A c \in m.live \ {m.top} : m.parent[c] \in m.live
       /\ call[t].ctx = Null \/ call[t].ctx \in m.live

\* A call leaves nothing behind, failed or not: no context, no handler, no
\* error, and the next call starts in the top context.
CallsLeaveNothing ==
  \A t \in Threads : life[t] = "running" /\ ~Calling(t) =>
    /\ mem[t].live = {mem[t].top, mem[t].error} \ {Null}
    /\ mem[t].current = mem[t].top
    /\ handler[t] = Null /\ frames[t] = <<>>
    /\ errors[t] = [depth |-> 0, data |-> FALSE]

\* An error always finds a handler whose function has not returned, although
\* const_record_walker leaves PG_exception_stack behind when it returns, and
\* no top context is freed twice.
ErrorsReachHandlers == \A t \in Threads : life[t] # "lost"

\* A call returns an error exactly if its work failed: what the walkers forget
\* is not an error, and does not hide one.
ErrorsAreReturned ==
  \A t \in Threads : ~Calling(t) => call[t].error = call[t].failed

\* However the threads' first calls interleave, and whoever made the key that
\* is used, a thread that has ended or has called pg_query_exit has freed every
\* context it got, those of the freelist too.
ThreadsFreeEverything ==
  \A t \in Threads : life[t] \in {"ended", "exited"} =>
    mem[t].malloced = {}

\* The parser options of a call last after it only if it failed; a later call
\* that does not set them still has them.
OptionsAreSetBack ==
  \A t \in Threads : ~Calling(t) /\ options[t].now # "default" => options[t].failed
=============================================================================
