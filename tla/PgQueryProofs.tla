---------------------------- MODULE PgQueryProofs ---------------------------
(***************************************************************************)
(* What the calls of libpg_query guarantee, for every set of threads, every *)
(* memory and stack with room for what a call needs, every length of the    *)
(* freelist and number of keys: Spec => []IInv.                             *)
(*                                                                         *)
(* A situation of a thread is the rest of its script with its C stack,      *)
(* handler, error stack, options and the variables of its call.  It is safe *)
(* if a set of fine situations contains it and is closed under whatever can *)
(* happen next (Successors).  Each operation, and so each function, is safe *)
(* if what follows is; the sets take the place of an induction over the     *)
(* script.  The memory is the top context, the error context and those the  *)
(* variables of the call point to (Memory); threads meet only at the keys   *)
(* (KeysOK).                                                               *)
(***************************************************************************)
EXTENDS PgQuery, SequenceTheorems, FiniteSetTheorems, TLAPS

-----------------------------------------------------------------------------
(***************************************************************************)
(* Sequences of anything                                                   *)
(***************************************************************************)

IsSeq(s) == \E S : s \in Seq(S)

LEMMA OneIsSeq ==
  /\ IsSeq(<<>>)
  /\ \A x : IsSeq(<<x>>)
<1>1. \A x : <<x>> \in Seq({x})
  OBVIOUS
<1>2. <<>> \in Seq({})
  OBVIOUS
<1> QED
  BY <1>1, <1>2 DEF IsSeq

\* The provers look at sequences put one after the other only where they must.
a ++ b == a \o b

LEMMA CatIsSeq ==
  ASSUME NEW s, NEW r, IsSeq(s), IsSeq(r)
  PROVE  IsSeq(s ++ r)
<1>1. PICK S : s \in Seq(S)
  BY DEF IsSeq
<1>2. PICK R : r \in Seq(R)
  BY DEF IsSeq
<1>3. s \in Seq(S \cup R) /\ r \in Seq(S \cup R)
  BY <1>1, <1>2
<1>4. s \o r \in Seq(S \cup R)
  BY <1>3
<1> QED
  BY <1>4 DEF IsSeq, ++

LEMMA CatAssociative ==
  ASSUME NEW a, NEW b, NEW c, IsSeq(a), IsSeq(b), IsSeq(c)
  PROVE  (a ++ b) ++ c = a ++ (b ++ c)
<1>1. PICK A : a \in Seq(A)
  BY DEF IsSeq
<1>2. PICK B : b \in Seq(B)
  BY DEF IsSeq
<1>3. PICK C : c \in Seq(C)
  BY DEF IsSeq
<1> DEFINE D == A \cup B \cup C
<1>4. a \in Seq(D) /\ b \in Seq(D) /\ c \in Seq(D)
  BY <1>1, <1>2, <1>3
<1> HIDE DEF D
<1> QED
  BY <1>4, ConcatAssociative DEF ++

LEMMA CatThree ==
  ASSUME NEW a, NEW b, NEW c, NEW d, IsSeq(a), IsSeq(b), IsSeq(c), IsSeq(d)
  PROVE  a ++ b ++ c ++ d = a ++ (b ++ (c ++ d))
<1>1. IsSeq(a ++ b) /\ IsSeq(c ++ d)
  BY CatIsSeq
<1>2. (a ++ b) ++ c ++ d = (a ++ b) ++ (c ++ d)
  BY <1>1, CatAssociative
<1>3. (a ++ b) ++ (c ++ d) = a ++ (b ++ (c ++ d))
  BY <1>1, CatAssociative
<1> QED
  BY <1>2, <1>3

LEMMA CatEmpty ==
  ASSUME NEW s, IsSeq(s)
  PROVE  <<>> ++ s = s /\ s ++ <<>> = s
<1>1. PICK S : s \in Seq(S)
  BY DEF IsSeq
<1> QED
  BY <1>1 DEF ++

LEMMA OneThenRest ==
  ASSUME NEW x, NEW s, IsSeq(s)
  PROVE  /\ <<x>> ++ s # <<>>
         /\ Head(<<x>> ++ s) = x
         /\ Tail(<<x>> ++ s) = s
<1>1. PICK S : s \in Seq(S)
  BY DEF IsSeq
<1>2. s \in Seq(S \cup {x}) /\ <<x>> \in Seq(S \cup {x})
  BY <1>1
<1> QED
  BY <1>2 DEF ++

LEMMA AppendToEmpty == \A x : Append(<<>>, x) = <<x>>
OBVIOUS

LEMMA Pushed ==
  ASSUME NEW s, NEW x, IsSeq(s)
  PROVE  /\ Append(s, x) # <<>>
         /\ IsSeq(Append(s, x))
         /\ Last(Append(s, x)) = x
         /\ Front(Append(s, x)) = s
         /\ Len(s) \in Nat /\ Len(Append(s, x)) = Len(s) + 1
         /\ \A k \in 1..Len(s) : Append(s, x)[k] = s[k]
         /\ Range(Append(s, x)) = Range(s) \cup {x}
<1>1. PICK S : s \in Seq(S)
  BY DEF IsSeq
<1>2. s \in Seq(S \cup {x}) /\ Append(s, x) \in Seq(S \cup {x})
  BY <1>1
<1> DEFINE A == Append(s, x)
<1>3. /\ A # <<>> /\ Len(s) \in Nat /\ Len(A) = Len(s) + 1
      /\ A[Len(s) + 1] = x
      /\ \A k \in 1..Len(s) : A[k] = s[k]
  BY <1>2
<1>4. Front(A) = s
  <2>1. Len(A) - 1 = Len(s)
    BY <1>3
  <2>2. SubSeq(A, 1, Len(s)) \in Seq(S \cup {x}) /\ Len(SubSeq(A, 1, Len(s))) = Len(s)
    BY <1>2, <1>3
  <2>3. \A k \in 1..Len(s) : SubSeq(A, 1, Len(s))[k] = s[k]
    BY <1>2, <1>3
  <2> QED
    BY <1>2, <2>1, <2>2, <2>3, SeqEqual DEF Front
<1>5. Range(A) = Range(s) \cup {x}
  <2>1. DOMAIN A = 1..Len(s) + 1 /\ DOMAIN s = 1..Len(s)
    BY <1>2, <1>3
  <2> QED
    BY <1>3, <2>1 DEF Range
<1> QED
  BY <1>2, <1>3, <1>4, <1>5 DEF IsSeq, Last

-----------------------------------------------------------------------------
(***************************************************************************)
(* A thread inside a call: what is left of its script, the stack of its     *)
(* PG_TRYs, and what else the script reads and writes: h, its handler; e,   *)
(* its errors; o, its options; c, its call; k, its current context; and r,  *)
(* its ErrorContext.                                                       *)
(***************************************************************************)

NoError == [depth |-> 0, data |-> FALSE]
Error == [depth |-> 1, data |-> TRUE]
Pointers == Contexts \cup {Null}
Calls == [ctx : Pointers, func : Pointers, error : BOOLEAN, failed : BOOLEAN,
          sets : BOOLEAN]
Settings == [now : {"default", "other"}, failed : BOOLEAN]

\* Where no new PG_TRY can have its jump buffer.
Taken(stack, h) ==
  {f.id : f \in Range(stack)} \cup {f.saved : f \in Range(stack)} \cup {h}

\* An error would get to the innermost PG_CATCH.
Armed(stack, h, e) ==
  /\ Len(stack) \in Nat \ {0}
  /\ h = Last(stack).id /\ h # Null
  /\ \A n \in 1..Len(stack) - 1 : stack[n].id # h
  /\ e = NoError

\* Options that last after a call are those of a parse that failed.
Excused(o) == o.now # "default" => o.failed

Finished(stack, h, e, o, c) ==
  /\ stack = <<>> /\ h = Null /\ e = NoError
  /\ c.error = c.failed
  /\ Excused(o)

\* The context memory is taken from is one of the thread's.
Placed(h, e, o, c, k, r) ==
  /\ h \in Frames \cup {Null} /\ e \in {NoError, Error}
  /\ o \in Settings /\ c \in Calls
  /\ k \in Contexts /\ r \in Contexts
  /\ c.ctx # Null
  /\ k \in {r, c.ctx, c.func}

\* Nothing goes wrong in the next step.
Fine(script, stack, h, e, o, c, k, r) ==
  /\ Placed(h, e, o, c, k, r)
  /\ script # <<>>
  /\ LET op == Head(script).do IN
     /\ op \notin {"enter", "create key", "set specific", "return if error"}
     /\ op = "exit" => Finished(stack, h, e, o, c)
     /\ op = "try" => Frames \ Taken(stack, h) # {}
     /\ op \in {"parse", "compile", "throw"} => Armed(stack, h, e)
     /\ op = "new function" => c.func = Null /\ k = c.ctx
     /\ op = "free function" => c.func # Null /\ k = c.ctx

\* What an error leads to.
Caught(stack, o, c, r) ==
  <<Last(stack).catch, Front(stack), Last(stack).saved, Error, o, c, r, r>>

Ending(leave) == Do(IF leave = "end" THEN "end try" ELSE "return")
Frame(id, h, k, catch, rest) ==
  [id |-> id, saved |-> h,
   catch |-> <<[do |-> "switch back", to |-> k]>> ++ catch ++ rest]
WhenParseFails(o, c) == [o EXCEPT !.failed = IF c.sets THEN TRUE ELSE @]

\* What the next step can lead to, but for the one that ends the call.
Successors(script, stack, h, e, o, c, k, r) ==
  LET op   == Head(script)
      rest == Tail(script)
  IN
  CASE op.do = "try" ->
         {<<op.body ++ Ending(op.leave) ++ rest,
            Append(stack, Frame(x, h, k, op.catch, rest)),
            x, e, o, c, k, r>> : x \in Frames \ Taken(stack, h)}
    [] op.do = "end try" -> {<<rest, Front(stack), Last(stack).saved, e, o, c, k, r>>}
    [] op.do = "return" -> {<<rest, Front(stack), h, e, o, c, k, r>>}
    [] op.do = "parse" ->
         {<<rest, stack, h, e, o, c, k, r>>,
          Caught(stack, WhenParseFails(o, c), [c EXCEPT !.failed = TRUE], r)}
    [] op.do = "compile" ->
         {<<rest, stack, h, e, o, c, k, r>>,
          Caught(stack, o, [c EXCEPT !.failed = TRUE], r)}
    [] op.do = "throw" -> {Caught(stack, o, c, r)}
    [] op.do = "set options" ->
         {<<rest, stack, h, e, [now |-> op.to, failed |-> FALSE],
            [c EXCEPT !.sets = TRUE], k, r>>}
    [] op.do = "switch back" -> {<<rest, stack, h, e, o, c, op.to, r>>}
    [] op.do = "CopyErrorData" ->
         {<<rest, stack, h, e, o, [c EXCEPT !.error = (e = Error)], k, r>>}
    [] op.do = "FlushErrorState" -> {<<rest, stack, h, NoError, o, c, k, r>>}
    [] op.do = "new function" ->
         {<<rest, stack, h, e, o, [c EXCEPT !.func = x], x, r>> : x \in Contexts}
    [] op.do = "function done" -> {<<rest, stack, h, e, o, c, c.ctx, r>>}
    [] op.do = "free function" ->
         {<<rest, stack, h, e, o, [c EXCEPT !.func = Null], k, r>>}
    [] op.do = "exit if error" ->
         {<<IF c.error THEN Do("exit") ELSE rest, stack, h, e, o, c, k, r>>}
    [] OTHER -> {}

(***************************************************************************)
(* A thread is safe if it is in a set of fine situations that no step       *)
(* leaves.  Every script is shown to be safe from its end to its start, as  *)
(* each of its steps leads only to what is safe, without an induction over  *)
(* how much of it is left.                                                 *)
(***************************************************************************)

Closed(W) ==
  \A script, stack, h, e, o, c, k, r : <<script, stack, h, e, o, c, k, r>> \in W =>
    /\ Fine(script, stack, h, e, o, c, k, r)
    /\ Successors(script, stack, h, e, o, c, k, r) \subseteq W
InClosed(situation) == \E W : situation \in W /\ Closed(W)
Safe(script, stack, h, e, o, c, k, r) ==
  InClosed(<<script, stack, h, e, o, c, k, r>>)

LEMMA SafeIsFine ==
  ASSUME NEW script, NEW stack, NEW h, NEW e, NEW o, NEW c, NEW k, NEW r,
         Safe(script, stack, h, e, o, c, k, r)
  PROVE  Fine(script, stack, h, e, o, c, k, r)
BY DEF Safe, InClosed, Closed

LEMMA SafeLeadsToSafe ==
  ASSUME NEW script, NEW stack, NEW h, NEW e, NEW o, NEW c, NEW k, NEW r,
         Safe(script, stack, h, e, o, c, k, r),
         NEW d \in Successors(script, stack, h, e, o, c, k, r)
  PROVE  InClosed(d)
BY DEF Safe, InClosed, Closed

LEMMA SafeStep ==
  ASSUME NEW script, NEW stack, NEW h, NEW e, NEW o, NEW c, NEW k, NEW r,
         Fine(script, stack, h, e, o, c, k, r),
         \A d \in Successors(script, stack, h, e, o, c, k, r) : InClosed(d)
  PROVE  Safe(script, stack, h, e, o, c, k, r)
<1> DEFINE D == Successors(script, stack, h, e, o, c, k, r)
           here == <<script, stack, h, e, o, c, k, r>>
           V(d) == CHOOSE W : d \in W /\ Closed(W)
           W == {here} \cup UNION {V(d) : d \in D}
<1> HIDE DEF D
<1>1. \A d \in D : d \in V(d) /\ Closed(V(d))
  BY DEF InClosed, D
<1> HIDE DEF V
<1>2. D \subseteq W
  BY <1>1
<1>3. ASSUME NEW p, NEW s, NEW h2, NEW e2, NEW o2, NEW c2, NEW k2, NEW r2,
             <<p, s, h2, e2, o2, c2, k2, r2>> \in W
      PROVE  /\ Fine(p, s, h2, e2, o2, c2, k2, r2)
             /\ Successors(p, s, h2, e2, o2, c2, k2, r2) \subseteq W
  <2>1. CASE <<p, s, h2, e2, o2, c2, k2, r2>> = here
    BY <1>2, <2>1 DEF D
  <2>2. CASE \E d \in D : <<p, s, h2, e2, o2, c2, k2, r2>> \in V(d)
    BY <1>1, <2>2 DEF Closed
  <2> QED
    BY <1>3, <2>1, <2>2
<1>4. Closed(W)
  <2> HIDE DEF W
  <2> QED
    BY <1>3 DEF Closed
<1> QED
  BY <1>4 DEF Safe, InClosed

-----------------------------------------------------------------------------
(***************************************************************************)
(* The steps, one by one: each is safe if it leads only to what is safe     *)
(***************************************************************************)

\* What is first in a script.
LEMMA FirstIs ==
  ASSUME NEW op, NEW rest, IsSeq(rest), NEW script, script = <<op>> ++ rest
  PROVE  /\ script # <<>> /\ Tail(script) = rest
         /\ Head(script) = op /\ Head(script).do = op.do
<1>1. script # <<>> /\ Tail(script) = rest /\ Head(script) = op
  BY OneThenRest
<1> QED
  BY <1>1

LEMMA ExitSafe ==
  ASSUME NEW h, NEW e, NEW o, NEW c, NEW k, NEW r, Placed(h, e, o, c, k, r),
         Finished(<<>>, h, e, o, c)
  PROVE  Safe(Do("exit"), <<>>, h, e, o, c, k, r)
<1> DEFINE script == Do("exit")
           op == [do |-> "exit"]
<1>1. script # <<>> /\ Head(script) = op
  BY DEF Do
<1>2. op.do = "exit"
  OBVIOUS
<1> HIDE DEF script, op
<1>3. Head(script).do = "exit"
  BY <1>1, <1>2
<1>4. Fine(script, <<>>, h, e, o, c, k, r)
  BY <1>1, <1>3 DEF Fine
<1>5. Successors(script, <<>>, h, e, o, c, k, r) = {}
  BY <1>3 DEF Successors
<1> QED
  BY <1>4, <1>5, SafeStep DEF script

LEMMA TrySafe ==
  ASSUME NEW body, NEW catch, NEW leave, NEW rest, IsSeq(rest), NEW stack,
         NEW h, NEW e, NEW o, NEW c, NEW k, NEW r, Placed(h, e, o, c, k, r),
         Frames \ Taken(stack, h) # {},
         \A x \in Frames \ Taken(stack, h) :
           Safe(body ++ Ending(leave) ++ rest, Append(stack, Frame(x, h, k, catch, rest)),
                x, e, o, c, k, r)
  PROVE  Safe(Try(body, catch, leave) ++ rest, stack, h, e, o, c, k, r)
<1> DEFINE op == [do |-> "try", body |-> body, catch |-> catch, leave |-> leave]
           script == Try(body, catch, leave) ++ rest
<1>1. script = <<op>> ++ rest
  BY DEF Try
<1>2. op.do = "try" /\ op.body = body /\ op.catch = catch /\ op.leave = leave
  OBVIOUS
<1> HIDE DEF script, op
<1>3. /\ script # <<>> /\ Tail(script) = rest
      /\ Head(script) = op /\ Head(script).do = "try"
  BY <1>1, <1>2, FirstIs
<1>4. Fine(script, stack, h, e, o, c, k, r)
  BY <1>3 DEF Fine
<1>5. Successors(script, stack, h, e, o, c, k, r) =
        {<<op.body ++ Ending(op.leave) ++ rest,
           Append(stack, Frame(x, h, k, op.catch, rest)),
           x, e, o, c, k, r>> : x \in Frames \ Taken(stack, h)}
  BY <1>3 DEF Successors
<1>6. ASSUME NEW d \in Successors(script, stack, h, e, o, c, k, r)
      PROVE  InClosed(d)
  <2>1. PICK x \in Frames \ Taken(stack, h) :
          d = <<op.body ++ Ending(op.leave) ++ rest,
                Append(stack, Frame(x, h, k, op.catch, rest)),
                x, e, o, c, k, r>>
    BY <1>5
  <2> QED
    BY <1>2, <2>1 DEF Safe
<1> QED
  BY <1>4, <1>6, SafeStep DEF script

LEMMA EndTrySafe ==
  ASSUME NEW rest, IsSeq(rest), NEW stack, IsSeq(stack), NEW f,
         NEW h, NEW e, NEW o, NEW c, NEW k, NEW r, Placed(h, e, o, c, k, r),
         Safe(rest, stack, f.saved, e, o, c, k, r)
  PROVE  Safe(Do("end try") ++ rest, Append(stack, f), h, e, o, c, k, r)
<1> DEFINE script == Do("end try") ++ rest
           op == [do |-> "end try"]
           full == Append(stack, f)
<1>1. script = <<op>> ++ rest
  BY DEF Do
<1>2. op.do = "end try"
  OBVIOUS
<1>3. Front(full) = stack /\ Last(full) = f
  BY Pushed
<1> HIDE DEF script, op, full
<1>4. /\ script # <<>> /\ Tail(script) = rest
      /\ Head(script) = op /\ Head(script).do = "end try"
  BY <1>1, <1>2, FirstIs
<1>5. Fine(script, full, h, e, o, c, k, r)
  BY <1>4 DEF Fine
<1>6. Successors(script, full, h, e, o, c, k, r) =
        {<<rest, stack, f.saved, e, o, c, k, r>>}
  BY <1>2, <1>3, <1>4 DEF Successors
<1> QED
  BY <1>5, <1>6, SafeStep DEF Safe, script, full

LEMMA ReturnSafe ==
  ASSUME NEW rest, IsSeq(rest), NEW stack, IsSeq(stack), NEW f,
         NEW h, NEW e, NEW o, NEW c, NEW k, NEW r, Placed(h, e, o, c, k, r),
         Safe(rest, stack, h, e, o, c, k, r)
  PROVE  Safe(Do("return") ++ rest, Append(stack, f), h, e, o, c, k, r)
<1> DEFINE script == Do("return") ++ rest
           op == [do |-> "return"]
           full == Append(stack, f)
<1>1. script = <<op>> ++ rest
  BY DEF Do
<1>2. op.do = "return"
  OBVIOUS
<1>3. Front(full) = stack
  BY Pushed
<1> HIDE DEF script, op, full
<1>4. /\ script # <<>> /\ Tail(script) = rest
      /\ Head(script) = op /\ Head(script).do = "return"
  BY <1>1, <1>2, FirstIs
<1>5. Fine(script, full, h, e, o, c, k, r)
  BY <1>4 DEF Fine
<1>6. Successors(script, full, h, e, o, c, k, r) =
        {<<rest, stack, h, e, o, c, k, r>>}
  BY <1>2, <1>3, <1>4 DEF Successors
<1> QED
  BY <1>5, <1>6, SafeStep DEF Safe, script, full

LEMMA SetOptionsSafe ==
  ASSUME NEW rest, IsSeq(rest), NEW stack, NEW to,
         NEW h, NEW e, NEW o, NEW c, NEW k, NEW r, Placed(h, e, o, c, k, r),
         Safe(rest, stack, h, e, [now |-> to, failed |-> FALSE],
              [c EXCEPT !.sets = TRUE], k, r)
  PROVE  Safe(<<[do |-> "set options", to |-> to]>> ++ rest, stack, h, e, o, c, k, r)
<1> DEFINE script == <<[do |-> "set options", to |-> to]>> ++ rest
           op == [do |-> "set options", to |-> to]
<1>1. script = <<op>> ++ rest
  BY DEF Do
<1>2. op.do = "set options" /\ op.to = to
  OBVIOUS
<1> HIDE DEF script, op
<1>3. /\ script # <<>> /\ Tail(script) = rest
      /\ Head(script) = op /\ Head(script).do = "set options"
  BY <1>1, <1>2, FirstIs
<1>4. Fine(script, stack, h, e, o, c, k, r)
  BY <1>3 DEF Fine
<1>5. Successors(script, stack, h, e, o, c, k, r) =
        {<<rest, stack, h, e, [now |-> to, failed |-> FALSE],
                 [c EXCEPT !.sets = TRUE], k, r>>}
  BY <1>2, <1>3 DEF Successors
<1> QED
  BY <1>4, <1>5, SafeStep DEF Safe, script

LEMMA SwitchBackSafe ==
  ASSUME NEW rest, IsSeq(rest), NEW stack, NEW to,
         NEW h, NEW e, NEW o, NEW c, NEW k, NEW r, Placed(h, e, o, c, k, r),
         Safe(rest, stack, h, e, o, c, to, r)
  PROVE  Safe(<<[do |-> "switch back", to |-> to]>> ++ rest, stack, h, e, o, c, k, r)
<1> DEFINE script == <<[do |-> "switch back", to |-> to]>> ++ rest
           op == [do |-> "switch back", to |-> to]
<1>1. script = <<op>> ++ rest
  BY DEF Do
<1>2. op.do = "switch back" /\ op.to = to
  OBVIOUS
<1> HIDE DEF script, op
<1>3. /\ script # <<>> /\ Tail(script) = rest
      /\ Head(script) = op /\ Head(script).do = "switch back"
  BY <1>1, <1>2, FirstIs
<1>4. Fine(script, stack, h, e, o, c, k, r)
  BY <1>3 DEF Fine
<1>5. Successors(script, stack, h, e, o, c, k, r) =
        {<<rest, stack, h, e, o, c, to, r>>}
  BY <1>2, <1>3 DEF Successors
<1> QED
  BY <1>4, <1>5, SafeStep DEF Safe, script

LEMMA CopyErrorDataSafe ==
  ASSUME NEW rest, IsSeq(rest), NEW stack,
         NEW h, NEW e, NEW o, NEW c, NEW k, NEW r, Placed(h, e, o, c, k, r),
         Safe(rest, stack, h, e, o, [c EXCEPT !.error = (e = Error)], k, r)
  PROVE  Safe(Do("CopyErrorData") ++ rest, stack, h, e, o, c, k, r)
<1> DEFINE script == Do("CopyErrorData") ++ rest
           op == [do |-> "CopyErrorData"]
<1>1. script = <<op>> ++ rest
  BY DEF Do
<1>2. op.do = "CopyErrorData"
  OBVIOUS
<1> HIDE DEF script, op
<1>3. /\ script # <<>> /\ Tail(script) = rest
      /\ Head(script) = op /\ Head(script).do = "CopyErrorData"
  BY <1>1, <1>2, FirstIs
<1>4. Fine(script, stack, h, e, o, c, k, r)
  BY <1>3 DEF Fine
<1>5. Successors(script, stack, h, e, o, c, k, r) =
        {<<rest, stack, h, e, o, [c EXCEPT !.error = (e = Error)], k, r>>}
  BY <1>2, <1>3 DEF Successors
<1> QED
  BY <1>4, <1>5, SafeStep DEF Safe, script

LEMMA FlushErrorStateSafe ==
  ASSUME NEW rest, IsSeq(rest), NEW stack,
         NEW h, NEW e, NEW o, NEW c, NEW k, NEW r, Placed(h, e, o, c, k, r),
         Safe(rest, stack, h, NoError, o, c, k, r)
  PROVE  Safe(Do("FlushErrorState") ++ rest, stack, h, e, o, c, k, r)
<1> DEFINE script == Do("FlushErrorState") ++ rest
           op == [do |-> "FlushErrorState"]
<1>1. script = <<op>> ++ rest
  BY DEF Do
<1>2. op.do = "FlushErrorState"
  OBVIOUS
<1> HIDE DEF script, op
<1>3. /\ script # <<>> /\ Tail(script) = rest
      /\ Head(script) = op /\ Head(script).do = "FlushErrorState"
  BY <1>1, <1>2, FirstIs
<1>4. Fine(script, stack, h, e, o, c, k, r)
  BY <1>3 DEF Fine
<1>5. Successors(script, stack, h, e, o, c, k, r) =
        {<<rest, stack, h, NoError, o, c, k, r>>}
  BY <1>2, <1>3 DEF Successors
<1> QED
  BY <1>4, <1>5, SafeStep DEF Safe, script

LEMMA FunctionDoneSafe ==
  ASSUME NEW rest, IsSeq(rest), NEW stack,
         NEW h, NEW e, NEW o, NEW c, NEW k, NEW r, Placed(h, e, o, c, k, r),
         Safe(rest, stack, h, e, o, c, c.ctx, r)
  PROVE  Safe(Do("function done") ++ rest, stack, h, e, o, c, k, r)
<1> DEFINE script == Do("function done") ++ rest
           op == [do |-> "function done"]
<1>1. script = <<op>> ++ rest
  BY DEF Do
<1>2. op.do = "function done"
  OBVIOUS
<1> HIDE DEF script, op
<1>3. /\ script # <<>> /\ Tail(script) = rest
      /\ Head(script) = op /\ Head(script).do = "function done"
  BY <1>1, <1>2, FirstIs
<1>4. Fine(script, stack, h, e, o, c, k, r)
  BY <1>3 DEF Fine
<1>5. Successors(script, stack, h, e, o, c, k, r) =
        {<<rest, stack, h, e, o, c, c.ctx, r>>}
  BY <1>2, <1>3 DEF Successors
<1> QED
  BY <1>4, <1>5, SafeStep DEF Safe, script

LEMMA FreeFunctionSafe ==
  ASSUME NEW rest, IsSeq(rest), NEW stack,
         NEW h, NEW e, NEW o, NEW c, NEW k, NEW r, Placed(h, e, o, c, k, r),
         c.func # Null, k = c.ctx,
         Safe(rest, stack, h, e, o, [c EXCEPT !.func = Null], k, r)
  PROVE  Safe(Do("free function") ++ rest, stack, h, e, o, c, k, r)
<1> DEFINE script == Do("free function") ++ rest
           op == [do |-> "free function"]
<1>1. script = <<op>> ++ rest
  BY DEF Do
<1>2. op.do = "free function"
  OBVIOUS
<1> HIDE DEF script, op
<1>3. /\ script # <<>> /\ Tail(script) = rest
      /\ Head(script) = op /\ Head(script).do = "free function"
  BY <1>1, <1>2, FirstIs
<1>4. Fine(script, stack, h, e, o, c, k, r)
  BY <1>3 DEF Fine
<1>5. Successors(script, stack, h, e, o, c, k, r) =
        {<<rest, stack, h, e, o, [c EXCEPT !.func = Null], k, r>>}
  BY <1>2, <1>3 DEF Successors
<1> QED
  BY <1>4, <1>5, SafeStep DEF Safe, script

LEMMA ExitIfErrorSafe ==
  ASSUME NEW rest, IsSeq(rest), NEW stack,
         NEW h, NEW e, NEW o, NEW c, NEW k, NEW r, Placed(h, e, o, c, k, r),
         Safe(IF c.error THEN Do("exit") ELSE rest, stack, h, e, o, c, k, r)
  PROVE  Safe(Do("exit if error") ++ rest, stack, h, e, o, c, k, r)
<1> DEFINE script == Do("exit if error") ++ rest
           op == [do |-> "exit if error"]
<1>1. script = <<op>> ++ rest
  BY DEF Do
<1>2. op.do = "exit if error"
  OBVIOUS
<1> HIDE DEF script, op
<1>3. /\ script # <<>> /\ Tail(script) = rest
      /\ Head(script) = op /\ Head(script).do = "exit if error"
  BY <1>1, <1>2, FirstIs
<1>4. Fine(script, stack, h, e, o, c, k, r)
  BY <1>3 DEF Fine
<1>5. Successors(script, stack, h, e, o, c, k, r) =
        {<<IF c.error THEN Do("exit") ELSE rest, stack, h, e, o, c, k, r>>}
  BY <1>2, <1>3 DEF Successors
<1> QED
  BY <1>4, <1>5, SafeStep DEF Safe, script

LEMMA NewFunctionSafe ==
  ASSUME NEW rest, IsSeq(rest), NEW stack,
         NEW h, NEW e, NEW o, NEW c, NEW k, NEW r, Placed(h, e, o, c, k, r),
         c.func = Null, k = c.ctx,
         \A x \in Contexts : Safe(rest, stack, h, e, o, [c EXCEPT !.func = x], x, r)
  PROVE  Safe(Do("new function") ++ rest, stack, h, e, o, c, k, r)
<1> DEFINE script == Do("new function") ++ rest
           op == [do |-> "new function"]
<1>1. script = <<op>> ++ rest
  BY DEF Do
<1>2. op.do = "new function"
  OBVIOUS
<1> HIDE DEF script, op
<1>3. /\ script # <<>> /\ Tail(script) = rest
      /\ Head(script) = op /\ Head(script).do = "new function"
  BY <1>1, <1>2, FirstIs
<1>4. Fine(script, stack, h, e, o, c, k, r)
  BY <1>3 DEF Fine
<1>5. Successors(script, stack, h, e, o, c, k, r) =
        {<<rest, stack, h, e, o, [c EXCEPT !.func = x], x, r>> : x \in Contexts}
  BY <1>3 DEF Successors
<1>6. \A d \in Successors(script, stack, h, e, o, c, k, r) : InClosed(d)
  BY <1>5 DEF Safe
<1> QED
  BY <1>4, <1>6, SafeStep DEF script

\* An error with the innermost PG_TRY of the stack in place.
Guarded(stack, f, h, e) ==
  /\ IsSeq(stack) /\ f.id \in Frames \ {g.id : g \in Range(stack)}
  /\ h = f.id /\ e = NoError

LEMMA GuardedIsArmed ==
  ASSUME NEW stack, NEW f, NEW h, NEW e, Guarded(stack, f, h, e)
  PROVE  /\ Armed(Append(stack, f), h, e)
         /\ \A o, c, r : Caught(Append(stack, f), o, c, r)
                           = <<f.catch, stack, f.saved, Error, o, c, r, r>>
<1> DEFINE full == Append(stack, f)
<1>1. /\ full # <<>> /\ Last(full) = f /\ Front(full) = stack
      /\ Len(stack) \in Nat /\ Len(full) = Len(stack) + 1
      /\ \A n \in 1..Len(stack) : full[n] = stack[n]
  BY Pushed DEF Guarded
<1>2. \A n \in 1..Len(stack) : stack[n] \in Range(stack)
  <2>1. PICK S : stack \in Seq(S)
    BY DEF Guarded, IsSeq
  <2>2. DOMAIN stack = 1..Len(stack)
    BY <2>1
  <2> QED
    BY <2>2 DEF Range
<1> HIDE DEF full
<1>3. \A n \in 1..Len(full) - 1 : full[n].id # h
  BY <1>1, <1>2 DEF Guarded
<1>4. Armed(full, h, e)
  BY <1>1, <1>3, NullAssumption DEF Armed, Guarded
<1>5. \A o, c, r : Caught(full, o, c, r) = <<f.catch, stack, f.saved, Error, o, c, r, r>>
  BY <1>1 DEF Caught
<1> QED
  BY <1>4, <1>5 DEF full

LEMMA ThrowSafe ==
  ASSUME NEW rest, IsSeq(rest), NEW stack, NEW f,
         NEW h, NEW e, NEW o, NEW c, NEW k, NEW r, Placed(h, e, o, c, k, r),
         Guarded(stack, f, h, e),
         Safe(f.catch, stack, f.saved, Error, o, c, r, r)
  PROVE  Safe(Do("throw") ++ rest, Append(stack, f), h, e, o, c, k, r)
<1> DEFINE script == Do("throw") ++ rest
           op == [do |-> "throw"]
           full == Append(stack, f)
<1>1. script = <<op>> ++ rest
  BY DEF Do
<1>2. op.do = "throw"
  OBVIOUS
<1>3. /\ Armed(full, h, e)
      /\ \A o2, c2, r2 : Caught(full, o2, c2, r2)
                           = <<f.catch, stack, f.saved, Error, o2, c2, r2, r2>>
  BY GuardedIsArmed
<1> HIDE DEF script, op, full
<1>4. /\ script # <<>> /\ Tail(script) = rest
      /\ Head(script) = op /\ Head(script).do = "throw"
  BY <1>1, <1>2, FirstIs
<1>5. Fine(script, full, h, e, o, c, k, r)
  BY <1>3, <1>4 DEF Fine
<1>6. Successors(script, full, h, e, o, c, k, r) =
        {Caught(full, o, c, r)}
  BY <1>4 DEF Successors
<1> QED
  BY <1>3, <1>5, <1>6, SafeStep DEF Safe, script, full

LEMMA ParseSafe ==
  ASSUME NEW rest, IsSeq(rest), NEW stack, NEW f,
         NEW h, NEW e, NEW o, NEW c, NEW k, NEW r, Placed(h, e, o, c, k, r),
         Guarded(stack, f, h, e),
         Safe(rest, Append(stack, f), h, e, o, c, k, r),
         Safe(f.catch, stack, f.saved, Error, WhenParseFails(o, c), [c EXCEPT !.failed = TRUE], r, r)
  PROVE  Safe(Do("parse") ++ rest, Append(stack, f), h, e, o, c, k, r)
<1> DEFINE script == Do("parse") ++ rest
           op == [do |-> "parse"]
           full == Append(stack, f)
<1>1. script = <<op>> ++ rest
  BY DEF Do
<1>2. op.do = "parse"
  OBVIOUS
<1>3. /\ Armed(full, h, e)
      /\ \A o2, c2, r2 : Caught(full, o2, c2, r2)
                           = <<f.catch, stack, f.saved, Error, o2, c2, r2, r2>>
  BY GuardedIsArmed
<1> HIDE DEF script, op, full
<1>4. /\ script # <<>> /\ Tail(script) = rest
      /\ Head(script) = op /\ Head(script).do = "parse"
  BY <1>1, <1>2, FirstIs
<1>5. Fine(script, full, h, e, o, c, k, r)
  BY <1>3, <1>4 DEF Fine
<1>6. Successors(script, full, h, e, o, c, k, r) =
        {<<rest, full, h, e, o, c, k, r>>,
         Caught(full, WhenParseFails(o, c), [c EXCEPT !.failed = TRUE], r)}
  BY <1>4 DEF Successors
<1>7. \A d \in Successors(script, full, h, e, o, c, k, r) : InClosed(d)
  BY <1>3, <1>6 DEF Safe, full
<1> QED
  BY <1>5, <1>7, SafeStep DEF script, full

LEMMA CompileSafe ==
  ASSUME NEW rest, IsSeq(rest), NEW stack, NEW f,
         NEW h, NEW e, NEW o, NEW c, NEW k, NEW r, Placed(h, e, o, c, k, r),
         Guarded(stack, f, h, e),
         Safe(rest, Append(stack, f), h, e, o, c, k, r),
         Safe(f.catch, stack, f.saved, Error, o, [c EXCEPT !.failed = TRUE], r, r)
  PROVE  Safe(Do("compile") ++ rest, Append(stack, f), h, e, o, c, k, r)
<1> DEFINE script == Do("compile") ++ rest
           op == [do |-> "compile"]
           full == Append(stack, f)
<1>1. script = <<op>> ++ rest
  BY DEF Do
<1>2. op.do = "compile"
  OBVIOUS
<1>3. /\ Armed(full, h, e)
      /\ \A o2, c2, r2 : Caught(full, o2, c2, r2)
                           = <<f.catch, stack, f.saved, Error, o2, c2, r2, r2>>
  BY GuardedIsArmed
<1> HIDE DEF script, op, full
<1>4. /\ script # <<>> /\ Tail(script) = rest
      /\ Head(script) = op /\ Head(script).do = "compile"
  BY <1>1, <1>2, FirstIs
<1>5. Fine(script, full, h, e, o, c, k, r)
  BY <1>3, <1>4 DEF Fine
<1>6. Successors(script, full, h, e, o, c, k, r) =
        {<<rest, full, h, e, o, c, k, r>>,
         Caught(full, o, [c EXCEPT !.failed = TRUE], r)}
  BY <1>4 DEF Successors
<1>7. \A d \in Successors(script, full, h, e, o, c, k, r) : InClosed(d)
  BY <1>3, <1>6 DEF Safe, full
<1> QED
  BY <1>5, <1>7, SafeStep DEF script, full

-----------------------------------------------------------------------------
(***************************************************************************)
(* Stacks                                                                  *)
(***************************************************************************)

Shallow(stack, n) ==
  /\ IsSeq(stack) /\ Len(stack) <= n
  /\ \A f \in Range(stack) : f.id \in Frames /\ f.saved \in Frames \cup {Null}

LEMMA EmptyIsShallow == Shallow(<<>>, 0) /\ Range(<<>>) = {}
BY OneIsSeq DEF Shallow, Range

LEMMA PushIsShallow ==
  ASSUME NEW n \in Nat, NEW stack, Shallow(stack, n), NEW f,
         f.id \in Frames, f.saved \in Frames \cup {Null}
  PROVE  Shallow(Append(stack, f), n + 1)
<1>1. /\ IsSeq(Append(stack, f)) /\ Range(Append(stack, f)) = Range(stack) \cup {f}
      /\ Len(stack) \in Nat /\ Len(Append(stack, f)) = Len(stack) + 1
  BY Pushed DEF Shallow
<1> QED
  BY <1>1 DEF Shallow

\* There is room for a PG_TRY inside two others.
LEMMA RoomForTry ==
  ASSUME NEW stack, Shallow(stack, 2), NEW h \in Frames \cup {Null}
  PROVE  Frames \ Taken(stack, h) # {}
<1>1. PICK S : stack \in Seq(S)
  BY DEF Shallow, IsSeq
<1>2. /\ Len(stack) \in 0..2 /\ DOMAIN stack = 1..Len(stack)
      /\ \A k \in 1..Len(stack) :
           stack[k].id \in Frames /\ stack[k].saved \in Frames \cup {Null}
  <2>1. Len(stack) \in 0..2 /\ DOMAIN stack = 1..Len(stack)
    <3>1. Len(stack) \in Nat /\ DOMAIN stack = 1..Len(stack)
      BY <1>1
    <3>2. Len(stack) <= 2
      BY DEF Shallow
    <3> QED
      BY <3>1, <3>2
  <2>2. \A k \in 1..Len(stack) : stack[k] \in Range(stack)
    BY <2>1 DEF Range
  <2> QED
    BY <2>1, <2>2 DEF Shallow
<1> DEFINE Id(k) == IF k <= Len(stack) THEN stack[k].id ELSE Null
           Saved(k) == IF k <= Len(stack) THEN stack[k].saved ELSE Null
           places == {Id(1), Id(2), Saved(1), Saved(2), h}
<1>3. /\ Id(1) \in Frames \cup {Null} /\ Id(2) \in Frames \cup {Null}
      /\ Saved(1) \in Frames \cup {Null} /\ Saved(2) \in Frames \cup {Null}
  BY <1>2
<1>4. \A f \in Range(stack) : f.id \in places /\ f.saved \in places
  <2>1. ASSUME NEW k \in 1..Len(stack)
        PROVE  stack[k].id \in places /\ stack[k].saved \in places
    <3>1. k \in Nat /\ k <= Len(stack) /\ (k = 1 \/ k = 2)
      BY <1>2
    <3>2. Id(k) = stack[k].id /\ Saved(k) = stack[k].saved
      BY <3>1
    <3> HIDE DEF Id, Saved
    <3> QED
      BY <3>1, <3>2
  <2> QED
    BY <1>2, <2>1 DEF Range
<1>5. Frames \ places # {}
  <2> HIDE DEF Id, Saved
  <2>1. \A a, b, c, d, e \in Frames \cup {Null} : Frames \ {a, b, c, d, e} # {}
    BY RoomAssumption
  <2> QED
    BY <1>3, <2>1, Zenon
<1>6. h \in places
  OBVIOUS
<1> HIDE DEF places
<1>7. Taken(stack, h) \subseteq places
  BY <1>4, <1>6 DEF Taken
<1> QED
  BY <1>5, <1>7

-----------------------------------------------------------------------------
(***************************************************************************)
(* The functions of the library                                            *)
(***************************************************************************)

\* What is first in a PG_CATCH that forgets the error, and in one that reports it.
LEMMA CatchScripts ==
  ASSUME NEW x, NEW rest, IsSeq(rest)
  PROVE  /\ <<x>> ++ Forget ++ rest = <<x>> ++ (Do("FlushErrorState") ++ rest)
         /\ <<x>> ++ Report ++ rest
              = <<x>> ++ (Do("CopyErrorData") ++ (Do("FlushErrorState") ++ rest))
<1> DEFINE copy == Do("CopyErrorData")
           flush == Do("FlushErrorState")
<1>1. IsSeq(<<x>>) /\ IsSeq(copy) /\ IsSeq(flush)
  BY OneIsSeq DEF Do
<1>2. Report = copy ++ flush /\ Forget = flush
  BY DEF Report, Forget, ++
<1> HIDE DEF copy, flush
<1> QED
  BY <1>1, <1>2, CatAssociative, CatIsSeq DEF copy, flush

LEMMA DoIsSeq ==
  /\ \A op : IsSeq(Do(op))
  /\ \A op, rest : IsSeq(rest) => IsSeq(Do(op) ++ rest)
  /\ \A body, catch, leave : IsSeq(Try(body, catch, leave))
  /\ \A body, catch, leave, rest : IsSeq(rest) => IsSeq(Try(body, catch, leave) ++ rest)
  /\ \A leave : IsSeq(Ending(leave))
<1>1. /\ \A op : IsSeq(Do(op))
      /\ \A body, catch, leave : IsSeq(Try(body, catch, leave))
  BY OneIsSeq DEF Do, Try
<1>2. \A leave : IsSeq(Ending(leave))
  BY <1>1 DEF Ending
<1> QED
  BY <1>1, <1>2, CatIsSeq

LEMMA ForgetSafe ==
  ASSUME NEW rest, IsSeq(rest), NEW stack,
         NEW h, NEW o, NEW c, NEW k, NEW r, Placed(h, NoError, o, c, k, r),
         Safe(rest, stack, h, NoError, o, c, k, r)
  PROVE  Safe(<<[do |-> "switch back", to |-> k]>> ++ Forget ++ rest,
              stack, h, Error, o, c, r, r)
<1> DEFINE flush == Do("FlushErrorState") ++ rest
<1>1. Placed(h, Error, o, c, k, r) /\ Placed(h, Error, o, c, r, r)
  BY DEF Placed
<1>2. IsSeq(flush)
  BY DoIsSeq
<1>3. Safe(flush, stack, h, Error, o, c, k, r)
  BY <1>1, FlushErrorStateSafe
<1> HIDE DEF flush
<1>4. Safe(<<[do |-> "switch back", to |-> k]>> ++ flush, stack, h, Error, o, c, r, r)
  BY <1>1, <1>2, <1>3, SwitchBackSafe
<1> QED
  BY <1>4, CatchScripts DEF flush

LEMMA ReportSafe ==
  ASSUME NEW rest, IsSeq(rest), NEW stack,
         NEW h, NEW o, NEW c, NEW k, NEW r, Placed(h, NoError, o, c, k, r),
         \A c2 \in Calls :
           /\ c2.ctx = c.ctx /\ c2.func = c.func
           /\ c2.failed = c.failed /\ c2.error = TRUE
           => Safe(rest, stack, h, NoError, o, c2, k, r)
  PROVE  Safe(<<[do |-> "switch back", to |-> k]>> ++ Report ++ rest,
              stack, h, Error, o, c, r, r)
<1> DEFINE flush == Do("FlushErrorState") ++ rest
           copy == Do("CopyErrorData") ++ flush
           c2 == [c EXCEPT !.error = (Error = Error)]
<1>1. Placed(h, Error, o, c, k, r) /\ Placed(h, Error, o, c, r, r)
  BY DEF Placed
<1>2. c2 \in Calls /\ c2.ctx = c.ctx /\ c2.func = c.func /\ c2.failed = c.failed
      /\ c2.error = TRUE
  BY DEF Placed, Calls
<1> HIDE DEF c2
<1>3. Placed(h, Error, o, c2, k, r)
  BY <1>1, <1>2 DEF Placed
<1>4. IsSeq(flush) /\ IsSeq(copy)
  BY DoIsSeq
<1>5. Safe(flush, stack, h, Error, o, c2, k, r)
  BY <1>2, <1>3, FlushErrorStateSafe
<1> HIDE DEF flush
<1>6. Safe(copy, stack, h, Error, o, c, k, r)
  BY <1>1, <1>4, <1>5, CopyErrorDataSafe DEF c2
<1> HIDE DEF copy
<1>7. Safe(<<[do |-> "switch back", to |-> k]>> ++ copy, stack, h, Error, o, c, r, r)
  BY <1>1, <1>4, <1>6, SwitchBackSafe
<1> QED
  BY <1>7, CatchScripts DEF copy, flush

\* What may follow a PG_TRY: the handler is the one before it, unless its function
\* returned from inside.
After(rest, stack, h, o, c, k, r, leave) ==
  \A x \in Frames \cup {Null} :
    (leave = "end" => x = h) => Safe(rest, stack, x, NoError, o, c, k, r)

\* The ways to leave a PG_TRY.
LEMMA EndingSafe ==
  ASSUME NEW leave \in {"end", "return"}, NEW rest, IsSeq(rest),
         NEW stack, IsSeq(stack), NEW f, f.saved \in Frames \cup {Null},
         NEW h, NEW o, NEW c, NEW k, NEW r, Placed(h, NoError, o, c, k, r),
         After(rest, stack, f.saved, o, c, k, r, leave)
  PROVE  Safe(Ending(leave) ++ rest, Append(stack, f), h, NoError, o, c, k, r)
<1>1. CASE leave = "end"
  <2>1. Safe(rest, stack, f.saved, NoError, o, c, k, r)
    BY DEF After
  <2>2. Ending(leave) = Do("end try")
    BY <1>1 DEF Ending
  <2> QED
    BY <2>1, <2>2, EndTrySafe
<1>2. CASE leave = "return"
  <2>1. h \in Frames \cup {Null}
    BY DEF Placed
  <2>2. Safe(rest, stack, h, NoError, o, c, k, r)
    BY <1>2, <2>1 DEF After
  <2>3. Ending(leave) = Do("return")
    BY <1>2 DEF Ending
  <2> QED
    BY <2>2, <2>3, ReturnSafe
<1> QED
  BY <1>1, <1>2

\* A node of a tree, in a PG_TRY inside at most two others.
LEMMA VisitSafe ==
  ASSUME NEW node \in {"known", "unknown"}, NEW leave \in {"end", "return"},
         NEW rest, IsSeq(rest), NEW stack, Shallow(stack, 2),
         NEW h, NEW o, NEW c, NEW k, NEW r, Placed(h, NoError, o, c, k, r),
         After(rest, stack, h, o, c, k, r, leave)
  PROVE  Safe(Visit(node, leave) ++ rest, stack, h, NoError, o, c, k, r)
<1> DEFINE body == IF node = "unknown" THEN Do("throw") ELSE <<>>
<1>1. h \in Frames \cup {Null} /\ IsSeq(stack)
  BY DEF Placed, Shallow
<1>2. Safe(rest, stack, h, NoError, o, c, k, r)
  BY <1>1 DEF After
<1>3. ASSUME NEW x \in Frames \ Taken(stack, h)
      PROVE  Safe(body ++ Ending(leave) ++ rest,
                  Append(stack, Frame(x, h, k, Forget, rest)), x, NoError, o, c, k, r)
  <2> DEFINE f == Frame(x, h, k, Forget, rest)
             end == Ending(leave)
  <2>1. /\ f.id = x /\ f.saved = h
        /\ f.catch = <<[do |-> "switch back", to |-> k]>> ++ Forget ++ rest
        /\ Guarded(stack, f, x, NoError)
    <3>1. /\ f.id = x /\ f.saved = h
          /\ f.catch = <<[do |-> "switch back", to |-> k]>> ++ Forget ++ rest
      BY DEF Frame
    <3>2. x \in Frames /\ x \notin {g.id : g \in Range(stack)}
      BY DEF Taken
    <3> HIDE DEF f
    <3> QED
      BY <1>1, <3>1, <3>2 DEF Guarded
  <2>2. Placed(x, NoError, o, c, k, r)
    BY DEF Placed
  <2>3. IsSeq(end) /\ IsSeq(end ++ rest) /\ IsSeq(Do("throw"))
    BY DoIsSeq, CatIsSeq
  <2> HIDE DEF f
  <2>4. CASE node = "known"
    <3>1. body ++ end ++ rest = end ++ rest
      BY <2>3, <2>4, CatEmpty
    <3>2. Safe(end ++ rest, Append(stack, f), x, NoError, o, c, k, r)
      BY <1>1, <2>1, <2>2, EndingSafe
    <3> QED
      BY <3>1, <3>2 DEF f
  <2>5. CASE node = "unknown"
    <3>1. body ++ end ++ rest = Do("throw") ++ (end ++ rest)
      BY <2>3, <2>5, CatAssociative
    <3>2. Safe(f.catch, stack, f.saved, Error, o, c, r, r)
      BY <1>2, <2>1, ForgetSafe
    <3>3. Safe(Do("throw") ++ (end ++ rest), Append(stack, f), x, NoError, o, c, k, r)
      BY <2>1, <2>2, <2>3, <3>2, ThrowSafe
    <3> QED
      BY <3>1, <3>3 DEF f
  <2> QED
    BY <2>4, <2>5
<1>4. Visit(node, leave) = Try(body, Forget, leave)
  BY DEF Visit
<1> HIDE DEF body
<1>5. Frames \ Taken(stack, h) # {}
  BY <1>1, RoomForTry
<1> QED
  BY <1>3, <1>4, <1>5, TrySafe

LEMMA TreeSafe ==
  ASSUME NEW children \in Children, NEW leave \in {"end", "return"},
         NEW rest, IsSeq(rest), NEW stack, Shallow(stack, 1),
         NEW h, NEW o, NEW c, NEW k, NEW r, Placed(h, NoError, o, c, k, r),
         After(rest, stack, h, o, c, k, r, leave)
  PROVE  Safe(Tree(children, leave) ++ rest, stack, h, NoError, o, c, k, r)
<1> DEFINE first == Visit(children[1], leave)
           second == Visit(children[2], leave)
           end == Ending(leave)
<1>1. children[1] \in {"known", "unknown"} /\ children[2] \in {"known", "unknown"}
  BY DEF Children
<1>2. h \in Frames \cup {Null} /\ IsSeq(stack) /\ Shallow(stack, 2)
  BY Pushed DEF Placed, Shallow
<1>3. /\ IsSeq(first) /\ IsSeq(second) /\ IsSeq(end) /\ IsSeq(end ++ rest)
      /\ IsSeq(second ++ (end ++ rest))
  BY DoIsSeq, CatIsSeq DEF Visit
<1>4. ASSUME NEW x \in Frames \ Taken(stack, h)
      PROVE  Safe((first ++ second) ++ Ending(leave) ++ rest,
                  Append(stack, Frame(x, h, k, Forget, rest)), x, NoError, o, c, k, r)
  <2> DEFINE f == Frame(x, h, k, Forget, rest)
             full == Append(stack, f)
  <2>1. f.id = x /\ f.saved = h
    BY DEF Frame
  <2> HIDE DEF f
  <2>2. Shallow(full, 2)
    BY <1>2, <2>1, PushIsShallow
  <2>3. \A y \in Frames \cup {Null} : Placed(y, NoError, o, c, k, r)
    BY DEF Placed
  <2>4. \A y \in Frames \cup {Null} : Safe(end ++ rest, full, y, NoError, o, c, k, r)
    BY <1>2, <2>1, <2>3, EndingSafe
  <2> HIDE DEF full
  <2>5. \A y \in Frames \cup {Null} :
          After(end ++ rest, full, y, o, c, k, r, leave)
    BY <2>4 DEF After
  <2> HIDE DEF end
  <2>6. \A y \in Frames \cup {Null} :
          Safe(second ++ (end ++ rest), full, y, NoError, o, c, k, r)
    BY <1>1, <1>3, <2>2, <2>3, <2>5, VisitSafe
  <2> HIDE DEF second
  <2>7. After(second ++ (end ++ rest), full, x, o, c, k, r, leave)
    BY <2>6 DEF After
  <2>8. Safe(first ++ (second ++ (end ++ rest)), full, x, NoError, o, c, k, r)
    BY <1>1, <1>3, <2>2, <2>3, <2>7, VisitSafe
  <2> HIDE DEF first
  <2>9. (first ++ second) ++ end ++ rest = first ++ (second ++ (end ++ rest))
    BY <1>3, CatAssociative, CatIsSeq
  <2> QED
    BY <2>8, <2>9 DEF f, full, end
<1>5. Tree(children, leave) = Try(first ++ second, Forget, leave)
  BY DEF Tree, ++
<1> HIDE DEF first, second, end
<1>6. Frames \ Taken(stack, h) # {}
  BY <1>2, RoomForTry
<1> QED
  BY <1>4, <1>5, <1>6, TrySafe

\* A call of which nothing has failed yet, and one that has failed and says so.
Going(c2, c) ==
  /\ c2 \in Calls /\ c2.ctx = c.ctx /\ c2.func = c.func
  /\ c2.failed = FALSE /\ c2.error = FALSE
Failed(c2, c) ==
  /\ c2 \in Calls /\ c2.ctx = c.ctx
  /\ c2.failed = TRUE /\ c2.error = TRUE

\* The work of a call in a PG_TRY that is not in another one.
LEMMA ParseInTrySafe ==
  ASSUME NEW next, IsSeq(next), NEW rest, IsSeq(rest),
         NEW x, NEW o, NEW c, NEW k, NEW r, Placed(Null, NoError, o, c, k, r),
         NEW f, f.id = x, f.saved = Null, x \in Frames,
         f.catch = <<[do |-> "switch back", to |-> k]>> ++ Report ++ rest,
         c.sets = TRUE \/ Excused(o),
         Safe(next, <<f>>, x, NoError, o, c, k, r),
         \A o2 \in Settings, c2 \in Calls : Excused(o2) /\ Failed(c2, c) =>
           Safe(rest, <<>>, Null, NoError, o2, c2, k, r)
  PROVE  Safe(Do("parse") ++ next, <<f>>, x, NoError, o, c, k, r)
<1> DEFINE o2 == WhenParseFails(o, c)
           c2 == [c EXCEPT !.failed = TRUE]
<1>1. o2 \in Settings /\ Excused(o2)
  <2>1. CASE c.sets = TRUE
    BY <2>1 DEF WhenParseFails, Settings, Excused, Placed
  <2>2. CASE c.sets # TRUE /\ Excused(o)
    BY <2>2 DEF WhenParseFails, Settings, Excused, Placed, Calls
  <2> QED
    BY <2>1, <2>2
<1>2. c2 \in Calls /\ c2.ctx = c.ctx /\ c2.func = c.func /\ c2.failed = TRUE
  BY DEF Calls, Placed
<1> HIDE DEF o2, c2
<1>3. Placed(Null, NoError, o2, c2, k, r) /\ Placed(x, NoError, o, c, k, r)
  BY <1>1, <1>2 DEF Placed
<1>4. Safe(f.catch, <<>>, Null, Error, o2, c2, r, r)
  BY <1>1, <1>2, <1>3, ReportSafe DEF Failed
<1>5. Guarded(<<>>, f, x, NoError)
  BY OneIsSeq, EmptyIsShallow DEF Guarded
<1>6. Append(<<>>, f) = <<f>>
  BY AppendToEmpty
<1>7. Safe(Do("parse") ++ next, Append(<<>>, f), x, NoError, o, c, k, r)
  BY <1>3, <1>4, <1>5, <1>6, ParseSafe DEF o2, c2
<1> QED
  BY <1>6, <1>7

Defaults == [now |-> "default", failed |-> FALSE]

\* The frame of a PG_TRY that is not in another one.
LEMMA OuterFrame ==
  ASSUME NEW f, f.id \in Frames, f.saved = Null
  PROVE  /\ Append(<<>>, f) = <<f>> /\ Shallow(<<f>>, 1)
         /\ Guarded(<<>>, f, f.id, NoError)
<1>1. Append(<<>>, f) = <<f>>
  BY AppendToEmpty
<1>2. Shallow(Append(<<>>, f), 0 + 1)
  BY EmptyIsShallow, PushIsShallow
<1>3. Shallow(<<f>>, 1)
  BY <1>1, <1>2
<1>4. Guarded(<<>>, f, f.id, NoError)
  BY OneIsSeq, EmptyIsShallow DEF Guarded
<1> QED
  BY <1>1, <1>3, <1>4

LEMMA OuterEndSafe ==
  ASSUME NEW rest, IsSeq(rest), NEW f, f.saved = Null,
         NEW h, NEW e, NEW o, NEW c, NEW k, NEW r, Placed(h, e, o, c, k, r),
         Safe(rest, <<>>, Null, e, o, c, k, r)
  PROVE  Safe(Ending("end") ++ rest, <<f>>, h, e, o, c, k, r)
<1>1. Safe(Do("end try") ++ rest, Append(<<>>, f), h, e, o, c, k, r)
  BY OneIsSeq, EndTrySafe
<1> QED
  BY <1>1, AppendToEmpty DEF Ending

LEMMA RawParseSafe ==
  ASSUME NEW opts \in {"default", "other"}, NEW rest, IsSeq(rest),
         NEW o, NEW c, NEW k, NEW r, Placed(Null, NoError, o, c, k, r),
         c.error = FALSE, c.failed = FALSE,
         \A c2 \in Calls : Going(c2, c) =>
           Safe(rest, <<>>, Null, NoError, Defaults, c2, k, r),
         \A o2 \in Settings, c2 \in Calls : Excused(o2) /\ Failed(c2, c) =>
           Safe(rest, <<>>, Null, NoError, o2, c2, k, r)
  PROVE  Safe(RawParse(opts) ++ rest, <<>>, Null, NoError, o, c, k, r)
<1> DEFINE set == <<[do |-> "set options", to |-> opts]>>
           back == <<[do |-> "set options", to |-> "default"]>>
           end == Ending("end")
           next == back ++ (end ++ rest)
           body == set ++ Do("parse") ++ back
           o1 == [now |-> opts, failed |-> FALSE]
           c1 == [c EXCEPT !.sets = TRUE]
           c2 == [c1 EXCEPT !.sets = TRUE]
<1>1. /\ IsSeq(set) /\ IsSeq(back) /\ IsSeq(end) /\ IsSeq(end ++ rest) /\ IsSeq(next)
      /\ IsSeq(Do("parse")) /\ IsSeq(Do("parse") ++ next)
  BY OneIsSeq, DoIsSeq, CatIsSeq
<1>2. RawParse(opts) = Try(body, Report, "end")
  BY DEF RawParse, ++
<1>3. /\ c1 \in Calls /\ c1.ctx = c.ctx /\ c1.func = c.func
      /\ c1.error = FALSE /\ c1.failed = FALSE /\ c1.sets = TRUE
  BY DEF Placed, Calls
<1> HIDE DEF c1
<1>4. c2 \in Calls /\ Going(c2, c)
  BY <1>3 DEF Calls, Going
<1>5. o1 \in Settings /\ Defaults \in Settings
  BY DEF Settings, Defaults
<1> HIDE DEF set, back, end, next, o1, c2
<1>6. ASSUME NEW y \in Frames \cup {Null}
      PROVE  /\ Placed(y, NoError, o, c, k, r) /\ Placed(y, NoError, o1, c1, k, r)
             /\ Placed(y, NoError, Defaults, c2, k, r)
  BY <1>3, <1>4, <1>5 DEF Placed, Going
<1>7. ASSUME NEW x \in Frames \ Taken(<<>>, Null)
      PROVE  Safe(body ++ Ending("end") ++ rest,
                  Append(<<>>, Frame(x, Null, k, Report, rest)), x, NoError, o, c, k, r)
  <2>1. PICK f : f = Frame(x, Null, k, Report, rest)
    OBVIOUS
  <2>2. /\ f.id = x /\ f.saved = Null
        /\ f.catch = <<[do |-> "switch back", to |-> k]>> ++ Report ++ rest
        /\ Append(<<>>, f) = <<f>>
    <3>1. /\ f.id = x /\ f.saved = Null
          /\ f.catch = <<[do |-> "switch back", to |-> k]>> ++ Report ++ rest
      BY <2>1 DEF Frame
    <3> QED
      BY <3>1, AppendToEmpty
  <2>3. Safe(end ++ rest, <<f>>, x, NoError, Defaults, c2, k, r)
    BY <1>4, <1>6, <2>2, OuterEndSafe DEF end
  <2>4. Safe(next, <<f>>, x, NoError, o1, c1, k, r)
    BY <1>1, <1>6, <2>2, <2>3, SetOptionsSafe DEF next, back, c2, Defaults
  <2>5. \A o2 \in Settings, c3 \in Calls : Excused(o2) /\ Failed(c3, c1) =>
           Safe(rest, <<>>, Null, NoError, o2, c3, k, r)
    BY <1>3 DEF Failed
  <2>6. Safe(Do("parse") ++ next, <<f>>, x, NoError, o1, c1, k, r)
    BY <1>1, <1>3, <1>6, <2>2, <2>4, <2>5, ParseInTrySafe
  <2>7. Safe(set ++ (Do("parse") ++ next), <<f>>, x, NoError, o, c, k, r)
    BY <1>1, <1>6, <2>2, <2>6, SetOptionsSafe DEF set, c1, o1
  <2>8. body ++ end ++ rest = set ++ (Do("parse") ++ next)
    BY <1>1, CatAssociative, CatIsSeq DEF next
  <2> QED
    BY <2>1, <2>2, <2>7, <2>8 DEF end
<1>8. Frames \ Taken(<<>>, Null) # {}
  BY EmptyIsShallow, RoomForTry DEF Shallow
<1> HIDE DEF body
<1> QED
  BY <1>2, <1>7, <1>8, TrySafe

\* Parsing with the options as they are, in a call that reports what fails.
LEMMA ParseOrReportSafe ==
  ASSUME NEW body, NEW next, IsSeq(next), NEW rest, IsSeq(rest),
         body ++ Ending("end") ++ rest = Do("parse") ++ next,
         NEW o, NEW c, NEW k, NEW r, Placed(Null, NoError, o, c, k, r), Excused(o),
         \A f : \A x \in Frames : f.saved = Null /\ Shallow(<<f>>, 1) =>
           Safe(next, <<f>>, x, NoError, o, c, k, r),
         \A o2 \in Settings, c2 \in Calls : Excused(o2) /\ Failed(c2, c) =>
           Safe(rest, <<>>, Null, NoError, o2, c2, k, r)
  PROVE  Safe(Try(body, Report, "end") ++ rest, <<>>, Null, NoError, o, c, k, r)
<1>1. ASSUME NEW x \in Frames \ Taken(<<>>, Null)
      PROVE  Safe(body ++ Ending("end") ++ rest,
                  Append(<<>>, Frame(x, Null, k, Report, rest)), x, NoError, o, c, k, r)
  <2>1. PICK f : f = Frame(x, Null, k, Report, rest)
    OBVIOUS
  <2>2. /\ f.id = x /\ f.saved = Null
        /\ f.catch = <<[do |-> "switch back", to |-> k]>> ++ Report ++ rest
        /\ Append(<<>>, f) = <<f>> /\ Shallow(<<f>>, 1)
    <3>1. /\ f.id = x /\ f.saved = Null
          /\ f.catch = <<[do |-> "switch back", to |-> k]>> ++ Report ++ rest
      BY <2>1 DEF Frame
    <3>2. f.id \in Frames
      BY <3>1
    <3> QED
      BY <3>1, <3>2, OuterFrame
  <2>3. Safe(next, <<f>>, x, NoError, o, c, k, r)
    BY <2>2
  <2>4. Safe(Do("parse") ++ next, <<f>>, x, NoError, o, c, k, r)
    BY <2>2, <2>3, ParseInTrySafe
  <2> QED
    BY <2>1, <2>2, <2>4
<1>2. Frames \ Taken(<<>>, Null) # {}
  BY EmptyIsShallow, RoomForTry DEF Shallow
<1> QED
  BY <1>1, <1>2, TrySafe

\* A call of which nothing has failed yet, right after pg_query_enter_memory_context.
Entered(o, c, k, r) ==
  /\ Placed(Null, NoError, o, c, k, r) /\ Excused(o)
  /\ k = c.ctx /\ c.func = Null /\ c.error = FALSE /\ c.failed = FALSE

LEMMA LastExitSafe ==
  ASSUME NEW o, NEW c, NEW k, NEW r, Placed(Null, NoError, o, c, k, r), k = c.ctx
  PROVE  \A o2 \in Settings, c2 \in Calls :
           c2.ctx = c.ctx /\ c2.error = c2.failed /\ Excused(o2)
             => Safe(Do("exit"), <<>>, Null, NoError, o2, c2, k, r)
<1> SUFFICES ASSUME NEW o2 \in Settings, NEW c2 \in Calls,
                    c2.ctx = c.ctx, c2.error = c2.failed, Excused(o2)
             PROVE  Safe(Do("exit"), <<>>, Null, NoError, o2, c2, k, r)
  OBVIOUS
<1>1. Placed(Null, NoError, o2, c2, k, r)
  BY DEF Placed
<1>2. Finished(<<>>, Null, NoError, o2, c2)
  BY DEF Finished
<1> QED
  BY <1>1, <1>2, ExitSafe

LEMMA ParseCallSafe ==
  ASSUME NEW opts \in {"default", "other"}, NEW o, NEW c, NEW k, NEW r,
         Entered(o, c, k, r)
  PROVE  Safe(RawParse(opts) ++ Do("exit"), <<>>, Null, NoError, o, c, k, r)
<1>1. Defaults \in Settings /\ Excused(Defaults)
  BY DEF Defaults, Settings, Excused
<1>2. \A o2 \in Settings, c2 \in Calls :
        c2.ctx = c.ctx /\ c2.error = c2.failed /\ Excused(o2)
          => Safe(Do("exit"), <<>>, Null, NoError, o2, c2, k, r)
  BY LastExitSafe DEF Entered
<1>3. /\ \A c2 \in Calls : Going(c2, c) =>
           Safe(Do("exit"), <<>>, Null, NoError, Defaults, c2, k, r)
      /\ \A o2 \in Settings, c2 \in Calls : Excused(o2) /\ Failed(c2, c) =>
           Safe(Do("exit"), <<>>, Null, NoError, o2, c2, k, r)
  BY <1>1, <1>2 DEF Going, Failed
<1> QED
  BY <1>3, DoIsSeq, RawParseSafe DEF Entered

LEMMA ScanSafe ==
  ASSUME NEW o, NEW c, NEW k, NEW r, Entered(o, c, k, r)
  PROVE  Safe(Try(Do("parse"), Report, "end") ++ Do("exit"),
              <<>>, Null, NoError, o, c, k, r)
<1> DEFINE exit == Do("exit")
           next == Ending("end") ++ exit
<1>1. IsSeq(exit) /\ IsSeq(next) /\ IsSeq(Ending("end")) /\ IsSeq(Do("parse"))
  BY DoIsSeq, CatIsSeq
<1>2. \A o2 \in Settings, c2 \in Calls :
        c2.ctx = c.ctx /\ c2.error = c2.failed /\ Excused(o2)
          => Safe(exit, <<>>, Null, NoError, o2, c2, k, r)
  BY LastExitSafe DEF Entered
<1> HIDE DEF exit
<1>3. \A o2 \in Settings, c2 \in Calls : Excused(o2) /\ Failed(c2, c) =>
        Safe(exit, <<>>, Null, NoError, o2, c2, k, r)
  BY <1>2 DEF Failed
<1>4. Safe(exit, <<>>, Null, NoError, o, c, k, r)
  BY <1>2 DEF Entered, Placed
<1>5. \A x \in Frames : Placed(x, NoError, o, c, k, r)
  BY DEF Entered, Placed
<1>6. \A f : \A x \in Frames : f.saved = Null /\ Shallow(<<f>>, 1) =>
        Safe(next, <<f>>, x, NoError, o, c, k, r)
  BY <1>1, <1>4, <1>5, OuterEndSafe
<1>7. Do("parse") ++ Ending("end") ++ exit = Do("parse") ++ next
  BY <1>1, CatAssociative
<1> HIDE DEF next
<1> QED
  BY <1>1, <1>3, <1>6, <1>7, ParseOrReportSafe DEF Entered, exit

LEMMA NormalizeSafe ==
  ASSUME NEW children \in Children, NEW o, NEW c, NEW k, NEW r, Entered(o, c, k, r)
  PROVE  Safe(Try(Do("parse") ++ Tree(children, "return"), Report, "end") ++ Do("exit"),
              <<>>, Null, NoError, o, c, k, r)
<1> DEFINE exit == Do("exit")
           leaving == Ending("end") ++ exit
           tree == Tree(children, "return")
           next == tree ++ leaving
           body == Do("parse") ++ tree
<1>1. /\ IsSeq(exit) /\ IsSeq(leaving) /\ IsSeq(Ending("end")) /\ IsSeq(Do("parse"))
      /\ IsSeq(tree) /\ IsSeq(next)
  BY DoIsSeq, CatIsSeq DEF Tree
<1>2. \A o2 \in Settings, c2 \in Calls :
        c2.ctx = c.ctx /\ c2.error = c2.failed /\ Excused(o2)
          => Safe(exit, <<>>, Null, NoError, o2, c2, k, r)
  BY LastExitSafe DEF Entered
<1> HIDE DEF exit
<1>3. \A o2 \in Settings, c2 \in Calls : Excused(o2) /\ Failed(c2, c) =>
        Safe(exit, <<>>, Null, NoError, o2, c2, k, r)
  BY <1>2 DEF Failed
<1>4. Safe(exit, <<>>, Null, NoError, o, c, k, r)
  BY <1>2 DEF Entered, Placed
<1>5. \A x \in Frames \cup {Null} : Placed(x, NoError, o, c, k, r)
  BY DEF Entered, Placed
<1>6. ASSUME NEW f, NEW x \in Frames, f.saved = Null, Shallow(<<f>>, 1)
      PROVE  Safe(next, <<f>>, x, NoError, o, c, k, r)
  <2>1. \A y \in Frames \cup {Null} : Safe(leaving, <<f>>, y, NoError, o, c, k, r)
    BY <1>1, <1>4, <1>5, <1>6, OuterEndSafe
  <2> HIDE DEF leaving
  <2>2. After(leaving, <<f>>, x, o, c, k, r, "return")
    BY <2>1 DEF After
  <2> QED
    BY <1>1, <1>5, <1>6, <2>2, TreeSafe
<1>7. body ++ Ending("end") ++ exit = Do("parse") ++ next
  <2> HIDE DEF tree
  <2> QED
    BY <1>1, CatAssociative, CatIsSeq
<1> HIDE DEF next, body
<1>8. Safe(Try(body, Report, "end") ++ exit, <<>>, Null, NoError, o, c, k, r)
  BY <1>1, <1>3, <1>6, <1>7, ParseOrReportSafe DEF Entered
<1> QED
  BY <1>8 DEF body, exit

\* A call that goes on, or ends when its error is set.
LEMMA GoesOnSafe ==
  ASSUME NEW rest, IsSeq(rest), NEW o, NEW c, NEW k, NEW r,
         Placed(Null, NoError, o, c, k, r), c.error = FALSE,
         Safe(rest, <<>>, Null, NoError, o, c, k, r)
  PROVE  Safe(Do("exit if error") ++ rest, <<>>, Null, NoError, o, c, k, r)
BY ExitIfErrorSafe

LEMMA EndsSafe ==
  ASSUME NEW rest, IsSeq(rest), NEW o, NEW c, NEW k, NEW r,
         Placed(Null, NoError, o, c, k, r), k = c.ctx
  PROVE  \A o2 \in Settings, c2 \in Calls : Excused(o2) /\ Failed(c2, c) =>
           Safe(Do("exit if error") ++ rest, <<>>, Null, NoError, o2, c2, k, r)
<1> SUFFICES ASSUME NEW o2 \in Settings, NEW c2 \in Calls, Excused(o2), Failed(c2, c)
             PROVE  Safe(Do("exit if error") ++ rest, <<>>, Null, NoError, o2, c2, k, r)
  OBVIOUS
<1>1. c2.ctx = c.ctx /\ c2.failed = TRUE /\ c2.error = TRUE
  BY DEF Failed
<1>2. Safe(Do("exit"), <<>>, Null, NoError, o2, c2, k, r)
  BY <1>1, LastExitSafe
<1>3. Placed(Null, NoError, o2, c2, k, r)
  BY <1>1 DEF Placed
<1> QED
  BY <1>1, <1>2, <1>3, ExitIfErrorSafe

LEMMA FunctionSafe ==
  ASSUME NEW rest, IsSeq(rest), NEW o, NEW c, NEW k, NEW r, Entered(o, c, k, r),
         \A c2 \in Calls : Going(c2, c) => Safe(rest, <<>>, Null, NoError, o, c2, k, r)
  PROVE  Safe(Function ++ rest, <<>>, Null, NoError, o, c, k, r)
<1> DEFINE freeing == Do("free function") ++ rest
           leaving == Do("exit if error") ++ freeing
           end == Do("end try") ++ leaving
           done == Do("function done") ++ end
           compile == Do("compile") ++ done
           body == Do("new function") ++ Do("compile") ++ Do("function done")
<1>1. /\ IsSeq(freeing) /\ IsSeq(leaving) /\ IsSeq(end) /\ IsSeq(done) /\ IsSeq(compile)
      /\ \A op : IsSeq(Do(op))
  BY DoIsSeq
<1>2. Placed(Null, NoError, o, c, k, r) /\ k = c.ctx /\ Excused(o)
  BY DEF Entered
<1>3. \A o2 \in Settings, c2 \in Calls : Excused(o2) /\ Failed(c2, c) =>
        Safe(leaving, <<>>, Null, NoError, o2, c2, k, r)
  BY <1>1, <1>2, EndsSafe
<1>4. ASSUME NEW x \in Frames \ Taken(<<>>, Null)
      PROVE  Safe(body ++ Ending("end") ++ leaving,
                  Append(<<>>, Frame(x, Null, k, Report, leaving)), x, NoError, o, c, k, r)
  <2>1. PICK f : f = Frame(x, Null, k, Report, leaving)
    OBVIOUS
  <2>2. /\ f.id = x /\ f.saved = Null
        /\ f.catch = <<[do |-> "switch back", to |-> k]>> ++ Report ++ leaving
    BY <2>1 DEF Frame
  <2>3. x \in Frames /\ Append(<<>>, f) = <<f>> /\ Guarded(<<>>, f, x, NoError)
    BY <2>2, OuterFrame
  <2>4. ASSUME NEW y \in Contexts
        PROVE  Safe(compile, <<f>>, x, NoError, o, [c EXCEPT !.func = y], y, r)
    <3> DEFINE c1 == [c EXCEPT !.func = y]
               c2 == [c1 EXCEPT !.failed = TRUE]
               c3 == [c1 EXCEPT !.func = Null]
    <3>1. /\ c1 \in Calls /\ c1.ctx = c.ctx /\ c1.func = y
          /\ c1.error = FALSE /\ c1.failed = FALSE
      BY DEF Entered, Placed, Calls, Pointers
    <3> HIDE DEF c1
    <3>2. c2 \in Calls /\ c2.ctx = c.ctx /\ c2.func = y /\ c2.failed = TRUE
      BY <3>1 DEF Calls
    <3>3. c3 \in Calls /\ Going(c3, c)
      BY <3>1, NullAssumption DEF Calls, Pointers, Going, Entered
    <3> HIDE DEF c2, c3
    <3>4. /\ Placed(Null, NoError, o, c1, k, r) /\ Placed(x, NoError, o, c1, k, r)
          /\ Placed(x, NoError, o, c1, y, r) /\ Placed(Null, NoError, o, c2, y, r)
          /\ Placed(Null, NoError, o, c2, k, r)
      BY <1>2, <2>3, <3>1, <3>2 DEF Placed
    <3>5. Safe(rest, <<>>, Null, NoError, o, c3, k, r)
      BY <3>3
    <3>6. Safe(freeing, <<>>, Null, NoError, o, c1, k, r)
      <4>1. c1.func # Null /\ k = c1.ctx
        BY <1>2, <3>1, NullAssumption
      <4> QED
        BY <3>4, <3>5, <4>1, FreeFunctionSafe DEF c3
    <3> HIDE DEF freeing
    <3>7. Safe(leaving, <<>>, Null, NoError, o, c1, k, r)
      BY <1>1, <3>1, <3>4, <3>6, GoesOnSafe
    <3>8. Safe(f.catch, <<>>, f.saved, Error, o, c2, r, r)
      <4>1. \A c4 \in Calls :
              c4.ctx = c2.ctx /\ c4.func = c2.func /\ c4.failed = c2.failed /\ c4.error = TRUE
                => Safe(leaving, <<>>, Null, NoError, o, c4, k, r)
        BY <1>2, <1>3, <3>2 DEF Failed, Placed
      <4> HIDE DEF leaving
      <4> QED
        BY <1>1, <2>2, <3>4, <4>1, ReportSafe
    <3> HIDE DEF leaving
    <3>9. Safe(end, <<f>>, x, NoError, o, c1, k, r)
      BY <1>1, <2>2, <3>4, <3>7, OuterEndSafe DEF Ending
    <3> HIDE DEF end
    <3>10. Safe(done, <<f>>, x, NoError, o, c1, y, r)
      BY <1>1, <1>2, <3>1, <3>4, <3>9, FunctionDoneSafe
    <3> HIDE DEF done
    <3>11. Safe(compile, Append(<<>>, f), x, NoError, o, c1, y, r)
      BY <1>1, <2>3, <3>4, <3>8, <3>10, CompileSafe DEF c2
    <3> QED
      BY <2>3, <3>11 DEF c1
  <2>5. Safe(Do("new function") ++ compile, <<f>>, x, NoError, o, c, k, r)
    <3>1. Placed(x, NoError, o, c, k, r) /\ c.func = Null
      BY <1>2, <2>3 DEF Entered, Placed
    <3> HIDE DEF compile
    <3> QED
      BY <1>1, <1>2, <2>4, <3>1, NewFunctionSafe
  <2>6. body ++ Ending("end") ++ leaving = Do("new function") ++ compile
    <3>1. Ending("end") = Do("end try")
      BY DEF Ending
    <3> DEFINE made == Do("new function")
               compiled == Do("compile")
               finished == Do("function done")
               left == Do("end try")
    <3>2. IsSeq(made) /\ IsSeq(compiled) /\ IsSeq(finished) /\ IsSeq(left) /\ IsSeq(leaving)
      BY <1>1
    <3> HIDE DEF leaving, made, compiled, finished, left
    <3>3. made ++ compiled ++ finished ++ (left ++ leaving)
            = made ++ (compiled ++ (finished ++ (left ++ leaving)))
      BY <3>2, CatThree, CatIsSeq
    <3>4. (made ++ compiled ++ finished) ++ left ++ leaving
            = made ++ compiled ++ finished ++ (left ++ leaving)
      BY <3>2, CatAssociative, CatIsSeq
    <3> QED
      BY <3>1, <3>3, <3>4 DEF made, compiled, finished, left
  <2> HIDE DEF body, leaving, compile
  <2> QED
    BY <2>1, <2>3, <2>5, <2>6
<1>5. Function ++ rest = Try(body, Report, "end") ++ leaving
  <2>1. Function = Try(body, Report, "end") ++ Do("exit if error") ++ Do("free function")
    BY DEF Function, ++
  <2> DEFINE try == Try(body, Report, "end")
             stopping == Do("exit if error")
             free == Do("free function")
  <2>2. IsSeq(try) /\ IsSeq(stopping) /\ IsSeq(free)
    BY DoIsSeq
  <2> HIDE DEF body, try, stopping, free
  <2>3. try ++ stopping ++ free ++ rest = try ++ (stopping ++ (free ++ rest))
    BY <2>2, CatThree
  <2> QED
    BY <2>1, <2>3 DEF try, stopping, free
<1>6. Frames \ Taken(<<>>, Null) # {}
  BY EmptyIsShallow, RoomForTry DEF Shallow
<1> HIDE DEF body, leaving
<1> QED
  BY <1>1, <1>2, <1>4, <1>5, <1>6, TrySafe

LEMMA GoingIsEntered ==
  ASSUME NEW o, NEW c, NEW k, NEW r, Entered(o, c, k, r)
  PROVE  /\ \A o2 \in Settings : Excused(o2) => Entered(o2, c, k, r)
         /\ \A o2 \in Settings, c2 \in Calls :
              Excused(o2) /\ Going(c2, c) => Entered(o2, c2, k, r)
         /\ o \in Settings /\ Excused(o)
BY DEF Entered, Placed, Going

LEMMA FunctionIsSeq == IsSeq(Function)
<1>1. Function = Try(Do("new function") ++ Do("compile") ++ Do("function done"),
                     Report, "end")
                   ++ Do("exit if error") ++ Do("free function")
  BY DEF Function, ++
<1> QED
  BY <1>1, DoIsSeq, CatIsSeq

\* A function in another language is a PG_TRY in which nothing happens.
LEMMA OtherFunctionSafe ==
  ASSUME NEW rest, IsSeq(rest), NEW o, NEW c, NEW k, NEW r, Entered(o, c, k, r),
         Safe(rest, <<>>, Null, NoError, o, c, k, r)
  PROVE  Safe(OtherFunction ++ rest, <<>>, Null, NoError, o, c, k, r)
<1> DEFINE leaving == Do("exit if error") ++ rest
<1>1. IsSeq(leaving) /\ IsSeq(Do("exit if error"))
  BY DoIsSeq
<1>2. Placed(Null, NoError, o, c, k, r) /\ c.error = FALSE
  BY DEF Entered
<1>3. Safe(leaving, <<>>, Null, NoError, o, c, k, r)
  BY <1>2, GoesOnSafe
<1>4. OtherFunction ++ rest = Try(<<>>, Report, "end") ++ leaving
  <2> DEFINE try == Try(<<>>, Report, "end")
             stopping == Do("exit if error")
  <2>1. OtherFunction = try ++ stopping
    BY DEF OtherFunction, ++
  <2>2. IsSeq(try) /\ IsSeq(stopping)
    BY DoIsSeq
  <2> HIDE DEF try, stopping
  <2>3. (try ++ stopping) ++ rest = try ++ (stopping ++ rest)
    BY <2>2, CatAssociative
  <2> QED
    BY <2>1, <2>3 DEF try, stopping
<1> HIDE DEF leaving
<1>5. ASSUME NEW x \in Frames \ Taken(<<>>, Null)
      PROVE  Safe(<<>> ++ Ending("end") ++ leaving,
                  Append(<<>>, Frame(x, Null, k, Report, leaving)), x, NoError, o, c, k, r)
  <2>1. PICK f : f = Frame(x, Null, k, Report, leaving)
    OBVIOUS
  <2>2. f.id = x /\ f.saved = Null
    BY <2>1 DEF Frame
  <2>3. x \in Frames /\ Append(<<>>, f) = <<f>>
    BY <2>2, OuterFrame
  <2>4. Placed(x, NoError, o, c, k, r)
    BY <1>2, <2>3 DEF Placed
  <2>5. Safe(Ending("end") ++ leaving, <<f>>, x, NoError, o, c, k, r)
    BY <1>1, <1>3, <2>2, <2>4, OuterEndSafe
  <2>6. <<>> ++ Ending("end") = Ending("end")
    <3>1. IsSeq(Ending("end"))
      BY DoIsSeq DEF Ending
    <3> QED
      BY <3>1, CatEmpty
  <2> QED
    BY <2>1, <2>3, <2>5, <2>6
<1>6. Frames \ Taken(<<>>, Null) # {}
  BY EmptyIsShallow, RoomForTry DEF Shallow
<1> QED
  BY <1>1, <1>2, <1>4, <1>5, <1>6, TrySafe

LEMMA OtherFunctionIsSeq == IsSeq(OtherFunction)
<1>1. OtherFunction = Try(<<>>, Report, "end") ++ Do("exit if error")
  BY DEF OtherFunction, ++
<1> QED
  BY <1>1, DoIsSeq, CatIsSeq

LEMMA FunctionsAreSeq ==
  ASSUME NEW functions \in PlpgsqlFunctions
  PROVE  IsSeq(functions)
<1>1. \/ functions = <<>>
      \/ functions = Function ++ Function
      \/ functions = OtherFunction ++ Function
  BY DEF PlpgsqlFunctions, ++
<1> QED
  BY <1>1, FunctionIsSeq, OtherFunctionIsSeq, OneIsSeq, CatIsSeq

LEMMA FunctionsSafe ==
  ASSUME NEW functions \in PlpgsqlFunctions,
         NEW o, NEW c, NEW k, NEW r, Entered(o, c, k, r)
  PROVE  Safe(functions ++ Do("exit"), <<>>, Null, NoError, o, c, k, r)
<1> DEFINE exit == Do("exit")
<1>1. IsSeq(Function) /\ IsSeq(OtherFunction) /\ IsSeq(exit) /\ IsSeq(Function ++ exit)
  BY FunctionIsSeq, OtherFunctionIsSeq, DoIsSeq, CatIsSeq
<1>2. \A c2 \in Calls : Going(c2, c) => Entered(o, c2, k, r)
  BY GoingIsEntered
<1>3. \A c2 : Entered(o, c2, k, r) => Safe(exit, <<>>, Null, NoError, o, c2, k, r)
  <2> SUFFICES ASSUME NEW c2, Entered(o, c2, k, r)
               PROVE  Safe(exit, <<>>, Null, NoError, o, c2, k, r)
    OBVIOUS
  <2> QED
    BY LastExitSafe DEF Entered, Placed
<1> HIDE DEF exit
<1>4. ASSUME NEW c2, Entered(o, c2, k, r)
      PROVE  Safe(Function ++ exit, <<>>, Null, NoError, o, c2, k, r)
  <2>1. \A c3 \in Calls : Going(c3, c2) => Safe(exit, <<>>, Null, NoError, o, c3, k, r)
    BY <1>3, <1>4, GoingIsEntered
  <2> QED
    BY <1>1, <1>4, <2>1, FunctionSafe
<1>5. CASE functions = <<>>
  <2>1. functions ++ exit = exit
    BY <1>1, <1>5, CatEmpty
  <2> QED
    BY <1>3, <2>1 DEF exit
<1>6. CASE functions = Function \o Function
  <2>1. functions ++ exit = Function ++ (Function ++ exit)
    <3>1. functions = Function ++ Function
      BY <1>6 DEF ++
    <3> QED
      BY <1>1, <3>1, CatAssociative
  <2>2. \A c2 \in Calls : Going(c2, c) =>
          Safe(Function ++ exit, <<>>, Null, NoError, o, c2, k, r)
    BY <1>2, <1>4
  <2>3. Safe(Function ++ (Function ++ exit), <<>>, Null, NoError, o, c, k, r)
    BY <1>1, <2>2, FunctionSafe
  <2> QED
    BY <2>1, <2>3 DEF exit
<1>7. CASE functions = OtherFunction \o Function
  <2>1. functions ++ exit = OtherFunction ++ (Function ++ exit)
    <3>1. functions = OtherFunction ++ Function
      BY <1>7 DEF ++
    <3> QED
      BY <1>1, <3>1, CatAssociative
  <2>2. Safe(OtherFunction ++ (Function ++ exit), <<>>, Null, NoError, o, c, k, r)
    BY <1>1, <1>4, OtherFunctionSafe
  <2> QED
    BY <2>1, <2>2 DEF exit
<1> QED
  BY <1>5, <1>6, <1>7 DEF PlpgsqlFunctions

LEMMA PlpgsqlSafe ==
  ASSUME NEW children \in Children, NEW functions \in PlpgsqlFunctions,
         NEW o, NEW c, NEW k, NEW r, Entered(o, c, k, r)
  PROVE  Safe(RawParse("default") ++ (Do("exit if error") ++
                (Tree(children, "end") ++ (functions ++ Do("exit")))),
              <<>>, Null, NoError, o, c, k, r)
<1> DEFINE last == functions ++ Do("exit")
           walk == Tree(children, "end") ++ last
           next == Do("exit if error") ++ walk
<1>1. IsSeq(last) /\ IsSeq(walk) /\ IsSeq(next)
  <2>1. IsSeq(functions)
    BY FunctionsAreSeq
  <2> QED
    BY <2>1, DoIsSeq, CatIsSeq DEF Tree
<1>2. Defaults \in Settings /\ Excused(Defaults)
  BY DEF Defaults, Settings, Excused
<1>3. ASSUME NEW c2 \in Calls, Going(c2, c)
      PROVE  Safe(next, <<>>, Null, NoError, Defaults, c2, k, r)
  <2>1. Entered(Defaults, c2, k, r)
    BY <1>2, <1>3, GoingIsEntered
  <2>2. Safe(last, <<>>, Null, NoError, Defaults, c2, k, r)
    BY <2>1, FunctionsSafe
  <2> HIDE DEF last
  <2>3. After(last, <<>>, Null, Defaults, c2, k, r, "end")
    BY <2>2 DEF After
  <2>4. Shallow(<<>>, 1)
    BY EmptyIsShallow DEF Shallow
  <2>5. Placed(Null, NoError, Defaults, c2, k, r) /\ c2.error = FALSE
    BY <2>1 DEF Entered
  <2>6. Safe(walk, <<>>, Null, NoError, Defaults, c2, k, r)
    BY <1>1, <2>3, <2>4, <2>5, TreeSafe
  <2> HIDE DEF walk
  <2> QED
    BY <1>1, <2>5, <2>6, GoesOnSafe
<1> HIDE DEF last, walk
<1>4. Placed(Null, NoError, o, c, k, r) /\ k = c.ctx /\ c.error = FALSE /\ c.failed = FALSE
  BY DEF Entered
<1>5. \A o2 \in Settings, c2 \in Calls : Excused(o2) /\ Failed(c2, c) =>
        Safe(next, <<>>, Null, NoError, o2, c2, k, r)
  BY <1>1, <1>4, EndsSafe
<1> HIDE DEF next
<1>6. Safe(RawParse("default") ++ next, <<>>, Null, NoError, o, c, k, r)
  BY <1>1, <1>3, <1>4, <1>5, RawParseSafe
<1> QED
  BY <1>6 DEF next, walk, last

\* What a call does after pg_query_enter_memory_context goes wrong nowhere.
Runs(rest) ==
  /\ IsSeq(rest)
  /\ \A o, c, k, r : Entered(o, c, k, r) =>
       Safe(rest, <<>>, Null, NoError, o, c, k, r)

LEMMA ScriptsRun ==
  ASSUME NEW script \in Scripts
  PROVE  \E rest : script = Do("enter") ++ rest /\ Runs(rest)
<1> DEFINE enter == Do("enter")
           exit == Do("exit")
<1>1. IsSeq(enter) /\ IsSeq(exit)
  BY DoIsSeq
<1>2. ASSUME NEW opts \in {"default", "other"}
      PROVE  Parse(opts) = enter ++ (RawParse(opts) ++ exit) /\ Runs(RawParse(opts) ++ exit)
  <2>1. IsSeq(RawParse(opts))
    BY DoIsSeq DEF RawParse
  <2>2. Parse(opts) = enter ++ RawParse(opts) ++ exit
    BY DEF Parse, ++
  <2>3. Runs(RawParse(opts) ++ exit)
    BY <1>1, <2>1, ParseCallSafe, CatIsSeq DEF Runs
  <2> HIDE DEF enter, exit
  <2> QED
    BY <1>1, <2>1, <2>2, <2>3, CatAssociative
<1>3. \E rest : Scan = enter ++ rest /\ Runs(rest)
  <2> DEFINE try == Try(Do("parse"), Report, "end")
  <2>1. IsSeq(try)
    BY DoIsSeq
  <2>2. Scan = enter ++ try ++ exit
    BY DEF Scan, ++
  <2>3. Runs(try ++ exit)
    BY <1>1, <2>1, ScanSafe, CatIsSeq DEF Runs
  <2> HIDE DEF enter, exit, try
  <2> QED
    BY <1>1, <2>1, <2>2, <2>3, CatAssociative
<1>4. ASSUME NEW children \in Children
      PROVE  \E rest : Normalize(children) = enter ++ rest /\ Runs(rest)
  <2> DEFINE try == Try(Do("parse") ++ Tree(children, "return"), Report, "end")
  <2>1. IsSeq(try)
    BY DoIsSeq
  <2>2. Normalize(children) = enter ++ try ++ exit
    BY DEF Normalize, ++
  <2>3. Runs(try ++ exit)
    BY <1>1, <2>1, NormalizeSafe, CatIsSeq DEF Runs
  <2> HIDE DEF enter, exit, try
  <2> QED
    BY <1>1, <2>1, <2>2, <2>3, CatAssociative
<1>5. ASSUME NEW children \in Children, NEW functions \in PlpgsqlFunctions
      PROVE  \E rest : ParsePlpgsql(children, functions) = enter ++ rest /\ Runs(rest)
  <2> DEFINE parse == RawParse("default")
             stop == Do("exit if error")
             tree == Tree(children, "end")
             rest == parse ++ (stop ++ (tree ++ (functions ++ exit)))
  <2>1. IsSeq(functions)
    BY FunctionsAreSeq
  <2>2. /\ IsSeq(parse) /\ IsSeq(stop) /\ IsSeq(tree)
        /\ IsSeq(functions ++ exit) /\ IsSeq(tree ++ (functions ++ exit))
        /\ IsSeq(stop ++ (tree ++ (functions ++ exit))) /\ IsSeq(rest)
    BY <1>1, <2>1, DoIsSeq, CatIsSeq DEF RawParse, Tree
  <2>3. ParsePlpgsql(children, functions)
          = enter ++ parse ++ stop ++ tree ++ functions ++ exit
    BY DEF ParsePlpgsql, ++
  <2>4. Runs(rest)
    BY <2>2, PlpgsqlSafe DEF Runs
  <2> HIDE DEF enter, exit, parse, stop, tree
  <2>5. enter ++ parse ++ stop ++ tree ++ functions ++ exit = enter ++ rest
    <3>1. /\ IsSeq(enter ++ parse) /\ IsSeq(enter ++ parse ++ stop)
          /\ IsSeq(enter ++ parse ++ stop ++ tree)
      BY <1>1, <2>2, CatIsSeq
    <3>2. enter ++ parse ++ stop ++ tree ++ functions ++ exit
            = enter ++ parse ++ stop ++ (tree ++ (functions ++ exit))
      BY <1>1, <2>1, <2>2, <3>1, CatThree, CatAssociative
    <3>3. enter ++ parse ++ stop ++ (tree ++ (functions ++ exit)) = enter ++ rest
      BY <1>1, <2>2, CatThree
    <3> QED
      BY <3>2, <3>3
  <2> HIDE DEF rest
  <2> QED
    BY <2>3, <2>4, <2>5
<1> HIDE DEF enter
<1>6. \/ script \in {Parse("default"), Parse("other"), Scan}
      \/ \E children \in Children : script = Normalize(children)
      \/ \E children \in Children, functions \in PlpgsqlFunctions :
           script = ParsePlpgsql(children, functions)
  BY DEF Scripts
<1>7. CASE script \in {Parse("default"), Parse("other"), Scan}
  BY <1>2, <1>3, <1>7 DEF enter
<1>8. CASE \E children \in Children : script = Normalize(children)
  BY <1>4, <1>8 DEF enter
<1>9. CASE \E children \in Children, functions \in PlpgsqlFunctions :
             script = ParsePlpgsql(children, functions)
  BY <1>5, <1>9 DEF enter
<1> QED
  BY <1>6, <1>7, <1>8, <1>9

-----------------------------------------------------------------------------
(***************************************************************************)
(* The memory of a thread                                                  *)
(***************************************************************************)

Memories ==
  [initialized : BOOLEAN, malloced : SUBSET Contexts, live : SUBSET Contexts,
   parent : [Contexts -> Pointers], top : Pointers, error : Pointers,
   current : Pointers, free : Seq(Contexts)]

\* Every context malloc gave is in use or once on the freelist.
Pool(m) ==
  /\ m \in Memories
  /\ Len(m.free) <= MaxFree /\ IsInjective(m.free)
  /\ Range(m.free) \cap m.live = {}
  /\ m.malloced = m.live \cup Range(m.free)

LEMMA FirstOfFreelist ==
  ASSUME NEW s \in Seq(Contexts), IsInjective(s), s # <<>>
  PROVE  /\ Head(s) \in Range(s) /\ Tail(s) \in Seq(Contexts)
         /\ Range(Tail(s)) = Range(s) \ {Head(s)}
         /\ IsInjective(Tail(s)) /\ Len(Tail(s)) = Len(s) - 1
<1>1. Len(s) \in Nat \ {0} /\ DOMAIN s = 1..Len(s)
  OBVIOUS
<1>2. /\ Tail(s) \in Seq(Contexts) /\ Len(Tail(s)) = Len(s) - 1
      /\ DOMAIN Tail(s) = 1..Len(s) - 1
      /\ \A i \in 1..Len(s) - 1 : Tail(s)[i] = s[i + 1]
  BY <1>1
<1>3. Head(s) = s[1]
  OBVIOUS
<1>4. IsInjective(Tail(s))
  BY <1>1, <1>2 DEF IsInjective
<1>5. Head(s) \in Range(s)
  BY <1>1, <1>3 DEF Range
<1>6. Range(Tail(s)) = Range(s) \ {Head(s)}
  <2>1. ASSUME NEW x \in Range(Tail(s))
        PROVE  x \in Range(s) \ {Head(s)}
    <3>1. PICK i \in 1..Len(s) - 1 : x = s[i + 1]
      BY <1>2 DEF Range
    <3>2. i + 1 \in DOMAIN s /\ 1 \in DOMAIN s /\ i + 1 # 1
      BY <1>1
    <3> QED
      BY <1>3, <3>1, <3>2 DEF Range, IsInjective
  <2>2. ASSUME NEW x \in Range(s) \ {Head(s)}
        PROVE  x \in Range(Tail(s))
    <3>1. PICK i \in 1..Len(s) : x = s[i]
      BY <1>1 DEF Range
    <3>2. i - 1 \in 1..Len(s) - 1 /\ (i - 1) + 1 = i
      BY <1>1, <1>3, <3>1
    <3>3. Tail(s)[i - 1] = x
      BY <1>2, <3>1, <3>2
    <3> QED
      BY <1>2, <3>2, <3>3 DEF Range
  <2> QED
    BY <2>1, <2>2
<1> QED
  BY <1>2, <1>4, <1>5, <1>6

LEMMA BackOnFreelist ==
  ASSUME NEW s \in Seq(Contexts), IsInjective(s), NEW x \in Contexts, x \notin Range(s)
  PROVE  /\ <<x>> \o s \in Seq(Contexts) /\ IsInjective(<<x>> \o s)
         /\ Range(<<x>> \o s) = Range(s) \cup {x} /\ Len(<<x>> \o s) = Len(s) + 1
<1> DEFINE r == <<x>> \o s
<1>1. Len(s) \in Nat /\ DOMAIN s = 1..Len(s)
  OBVIOUS
<1>2. /\ r \in Seq(Contexts) /\ Len(r) = Len(s) + 1 /\ DOMAIN r = 1..Len(s) + 1
      /\ r[1] = x /\ \A i \in 1..Len(s) : r[i + 1] = s[i]
  BY <1>1
<1> HIDE DEF r
<1>3. \A i \in DOMAIN r : i = 1 \/ (i - 1 \in 1..Len(s) /\ r[i] = s[i - 1])
  <2> SUFFICES ASSUME NEW i \in DOMAIN r, i # 1
               PROVE  i - 1 \in 1..Len(s) /\ r[i] = s[i - 1]
    OBVIOUS
  <2>1. i - 1 \in 1..Len(s) /\ (i - 1) + 1 = i
    BY <1>1, <1>2
  <2> QED
    BY <1>2, <2>1
<1>4. IsInjective(r)
  <2> SUFFICES ASSUME NEW i \in DOMAIN r, NEW j \in DOMAIN r, r[i] = r[j]
               PROVE  i = j
    BY DEF IsInjective
  <2>0. i \in Int /\ j \in Int
    BY <1>2
  <2>1. \A n \in 1..Len(s) : s[n] # x
    BY <1>1 DEF Range
  <2>2. CASE i = 1 /\ j = 1
    BY <2>2
  <2>3. CASE i = 1 /\ j # 1
    BY <1>2, <1>3, <2>1, <2>3
  <2>4. CASE i # 1 /\ j = 1
    BY <1>2, <1>3, <2>1, <2>4
  <2>5. CASE i # 1 /\ j # 1
    <3>1. i - 1 \in DOMAIN s /\ j - 1 \in DOMAIN s /\ s[i - 1] = s[j - 1]
      BY <1>1, <1>3, <2>5
    <3>2. i - 1 = j - 1
      BY <3>1 DEF IsInjective
    <3> QED
      BY <2>0, <3>2
  <2> QED
    BY <2>2, <2>3, <2>4, <2>5
<1>5. Range(r) = Range(s) \cup {x}
  <2>1. ASSUME NEW y \in Range(r)
        PROVE  y \in Range(s) \cup {x}
    BY <1>1, <1>2, <1>3 DEF Range
  <2>2. ASSUME NEW y \in Range(s)
        PROVE  y \in Range(r)
    <3>1. PICK i \in 1..Len(s) : y = s[i]
      BY <1>1 DEF Range
    <3>2. i + 1 \in DOMAIN r /\ r[i + 1] = y
      BY <1>1, <1>2, <3>1
    <3> QED
      BY <3>2 DEF Range
  <2>3. x \in Range(r)
    <3>1. 1 \in DOMAIN r
      BY <1>1, <1>2
    <3> QED
      BY <1>2, <3>1 DEF Range
  <2> QED
    BY <2>1, <2>2, <2>3
<1> QED
  BY <1>2, <1>4, <1>5 DEF r

LEMMA ShortFreelists ==
  /\ <<>> \in Seq(Contexts) /\ IsInjective(<<>>) /\ Range(<<>>) = {} /\ Len(<<>>) = 0
  /\ \A x \in Contexts : /\ <<x>> \in Seq(Contexts) /\ IsInjective(<<x>>)
                         /\ Range(<<x>>) = {x} /\ Len(<<x>>) = 1
<1>1. <<>> \in Seq(Contexts) /\ IsInjective(<<>>) /\ Range(<<>>) = {} /\ Len(<<>>) = 0
  BY DEF IsInjective, Range
<1>2. ASSUME NEW x \in Contexts
      PROVE  /\ <<x>> \in Seq(Contexts) /\ IsInjective(<<x>>)
             /\ Range(<<x>>) = {x} /\ Len(<<x>>) = 1
  BY DEF IsInjective, Range
<1> QED
  BY <1>1, <1>2

\* A context of the freelist or a new one is none of those in use.
LEMMA CreatePool ==
  ASSUME NEW m, Pool(m), Contexts \ m.live # {}, NEW parent \in Pointers
  PROVE  /\ Created(m) \in Contexts \ m.live
         /\ Pool(Create(m, parent))
         /\ Create(m, parent).live = m.live \cup {Created(m)}
         /\ Create(m, parent).parent = [m.parent EXCEPT ![Created(m)] = parent]
         /\ Create(m, parent).top = m.top /\ Create(m, parent).error = m.error
         /\ Create(m, parent).current = m.current
         /\ Create(m, parent).initialized = m.initialized
<1> DEFINE x == Created(m)
           free == IF m.free = <<>> THEN m.free ELSE Tail(m.free)
           n == Create(m, parent)
<1>1. /\ m \in Memories /\ m.free \in Seq(Contexts) /\ Len(m.free) <= MaxFree
      /\ IsInjective(m.free) /\ Range(m.free) \cap m.live = {}
      /\ m.malloced = m.live \cup Range(m.free)
      /\ m.live \subseteq Contexts /\ m.parent \in [Contexts -> Pointers]
  BY DEF Pool, Memories
<1>2. /\ x \in Contexts /\ x \notin m.live
      /\ free \in Seq(Contexts) /\ IsInjective(free) /\ Len(free) <= MaxFree
      /\ Range(free) = Range(m.free) \ {x}
  <2>1. CASE m.free = <<>>
    <3>1. Range(m.free) = {}
      BY <2>1, ShortFreelists
    <3>2. x = AnyOf(Contexts \ m.live)
      BY <1>1, <2>1, <3>1 DEF Created, Unused
    <3>3. x \in Contexts \ m.live
      BY <3>2 DEF AnyOf
    <3> QED
      BY <1>1, <2>1, <3>1, <3>3
  <2>2. CASE m.free # <<>>
    <3>1. x = Head(m.free) /\ free = Tail(m.free)
      BY <2>2 DEF Created
    <3>2. /\ Head(m.free) \in Range(m.free) /\ Tail(m.free) \in Seq(Contexts)
          /\ Range(Tail(m.free)) = Range(m.free) \ {Head(m.free)}
          /\ IsInjective(Tail(m.free)) /\ Len(Tail(m.free)) = Len(m.free) - 1
      BY <1>1, <2>2, FirstOfFreelist
    <3>3. x \in Contexts
      BY <1>1, <2>2, <3>1
    <3>4. Len(m.free) \in Nat /\ MaxFree \in Nat
      BY <1>1, LimitsAssumption
    <3>5. Len(Tail(m.free)) <= MaxFree
      BY <1>1, <3>2, <3>4
    <3> HIDE DEF x, free
    <3> QED
      BY <1>1, <3>1, <3>2, <3>3, <3>5
  <2> QED
    BY <2>1, <2>2
<1>3. n = [m EXCEPT !.free = free, !.malloced = m.malloced \cup {x},
                    !.live = m.live \cup {x}, !.parent = [m.parent EXCEPT ![x] = parent]]
  BY <1>1 DEF Create, WithContext, Memories
<1>4. /\ n.free = free /\ n.malloced = m.malloced \cup {x} /\ n.live = m.live \cup {x}
      /\ n.parent = [m.parent EXCEPT ![x] = parent]
      /\ n.top = m.top /\ n.error = m.error /\ n.current = m.current
      /\ n.initialized = m.initialized
  <2> HIDE DEF n, x, free
  <2> QED
    BY <1>1, <1>3 DEF Memories
<1>5. n \in Memories
  <2>1. [m.parent EXCEPT ![x] = parent] \in [Contexts -> Pointers]
    BY <1>1
  <2>2. m.malloced \cup {x} \in SUBSET Contexts /\ m.live \cup {x} \in SUBSET Contexts
    BY <1>1, <1>2 DEF Memories
  <2> HIDE DEF n, x, free
  <2> QED
    BY <1>1, <1>2, <1>3, <2>1, <2>2 DEF Memories
<1>6. Pool(n)
  <2> HIDE DEF n, x, free
  <2> QED
    BY <1>1, <1>2, <1>4, <1>5 DEF Pool
<1> QED
  BY <1>2, <1>4, <1>6

LEMMA DeletePool ==
  ASSUME NEW m, Pool(m), NEW x \in m.live
  PROVE  /\ Pool(AllocSetDelete(m, x))
         /\ AllocSetDelete(m, x).live = m.live \ {x}
         /\ AllocSetDelete(m, x).parent = [m.parent EXCEPT ![x] = Null]
         /\ AllocSetDelete(m, x).top = m.top /\ AllocSetDelete(m, x).error = m.error
         /\ AllocSetDelete(m, x).current = m.current
         /\ AllocSetDelete(m, x).initialized = m.initialized
<1> DEFINE n == AllocSetDelete(m, x)
           d == [m EXCEPT !.live = m.live \ {x}, !.parent = [m.parent EXCEPT ![x] = Null]]
           parent == [m.parent EXCEPT ![x] = Null]
<1>1. /\ m \in Memories /\ m.free \in Seq(Contexts) /\ Len(m.free) <= MaxFree
      /\ IsInjective(m.free) /\ Range(m.free) \cap m.live = {}
      /\ m.malloced = m.live \cup Range(m.free)
      /\ m.live \subseteq Contexts /\ m.malloced \subseteq Contexts
      /\ m.parent \in [Contexts -> Pointers] /\ x \in Contexts /\ x \notin Range(m.free)
  BY DEF Pool, Memories
<1>2. parent \in [Contexts -> Pointers]
  BY <1>1 DEF Pointers
<1>3. /\ d \in Memories /\ d.free = m.free /\ d.malloced = m.malloced
      /\ d.live = m.live \ {x} /\ d.parent = parent
      /\ d.top = m.top /\ d.error = m.error /\ d.current = m.current
      /\ d.initialized = m.initialized
  <2> HIDE DEF parent
  <2> QED
    BY <1>1, <1>2 DEF Memories, parent
<1>4. n = IF x = m.error THEN [d EXCEPT !.malloced = d.malloced \ {x}]
          ELSE IF Len(m.free) < MaxFree THEN [d EXCEPT !.free = <<x>> \o d.free]
          ELSE [d EXCEPT !.malloced = d.malloced \ Range(m.free), !.free = <<x>>]
  BY <1>1 DEF AllocSetDelete, Memories
<1> HIDE DEF n, d, parent
<1>5. CASE x = m.error
  <2>1. n = [d EXCEPT !.malloced = d.malloced \ {x}]
    BY <1>4, <1>5
  <2>2. /\ n \in Memories /\ n.free = m.free /\ n.malloced = m.malloced \ {x}
        /\ n.live = m.live \ {x} /\ n.parent = parent
        /\ n.top = m.top /\ n.error = m.error /\ n.current = m.current
        /\ n.initialized = m.initialized
    BY <1>1, <1>3, <2>1 DEF Memories
  <2>3. Pool(n)
    BY <1>1, <2>2 DEF Pool
  <2> QED
    BY <2>2, <2>3 DEF n, parent
<1>6. CASE x # m.error /\ Len(m.free) < MaxFree
  <2>1. n = [d EXCEPT !.free = <<x>> \o d.free]
    BY <1>4, <1>6
  <2> DEFINE free == <<x>> \o m.free
  <2>2. /\ free \in Seq(Contexts) /\ IsInjective(free)
        /\ Range(free) = Range(m.free) \cup {x} /\ Len(free) = Len(m.free) + 1
    BY <1>1, BackOnFreelist
  <2>3. Len(free) <= MaxFree
    BY <1>1, <1>6, <2>2, LimitsAssumption
  <2> HIDE DEF free
  <2>4. /\ n \in Memories /\ n.free = free /\ n.malloced = m.malloced
        /\ n.live = m.live \ {x} /\ n.parent = parent
        /\ n.top = m.top /\ n.error = m.error /\ n.current = m.current
        /\ n.initialized = m.initialized
    BY <1>1, <1>3, <2>1, <2>2 DEF Memories, free
  <2>5. Pool(n)
    BY <1>1, <2>2, <2>3, <2>4 DEF Pool
  <2> QED
    BY <2>4, <2>5 DEF n, parent
<1>7. CASE x # m.error /\ ~(Len(m.free) < MaxFree)
  <2>1. n = [d EXCEPT !.malloced = d.malloced \ Range(m.free), !.free = <<x>>]
    BY <1>4, <1>7
  <2>2. /\ <<x>> \in Seq(Contexts) /\ IsInjective(<<x>>)
        /\ Range(<<x>>) = {x} /\ Len(<<x>>) = 1
    BY <1>1, ShortFreelists
  <2>3. Len(<<x>>) <= MaxFree
    BY <2>2, LimitsAssumption
  <2>4. /\ n \in Memories /\ n.free = <<x>> /\ n.malloced = m.malloced \ Range(m.free)
        /\ n.live = m.live \ {x} /\ n.parent = parent
        /\ n.top = m.top /\ n.error = m.error /\ n.current = m.current
        /\ n.initialized = m.initialized
    BY <1>1, <1>3, <2>1, <2>2 DEF Memories
  <2>5. Pool(n)
    BY <1>1, <2>2, <2>3, <2>4 DEF Pool
  <2> QED
    BY <2>4, <2>5 DEF n, parent
<1> QED
  BY <1>5, <1>6, <1>7

LEMMA ShortSequences ==
  /\ SetToSeq({}) = <<>>
  /\ \A x : SetToSeq({x}) = <<x>>
<1>1. SetToSeq({}) = <<>>
  <2>1. Cardinality({}) = 0
    BY FS_EmptySet
  <2>2. <<>> \in [1..0 -> {}] /\ IsInjective(<<>>)
    BY DEF IsInjective
  <2>3. SetToSeq({}) \in [1..0 -> {}]
    BY <2>1, <2>2 DEF SetToSeq
  <2> QED
    BY <2>3
<1>2. ASSUME NEW x
      PROVE  SetToSeq({x}) = <<x>>
  <2>1. Cardinality({x}) = 1
    BY FS_Singleton
  <2>2. <<x>> \in [1..1 -> {x}] /\ IsInjective(<<x>>)
    BY DEF IsInjective
  <2>3. SetToSeq({x}) \in [1..1 -> {x}]
    BY <2>1, <2>2 DEF SetToSeq
  <2> QED
    BY <2>3
<1> QED
  BY <1>1, <1>2

LEMMA NoneDeleted ==
  ASSUME NEW m
  PROVE  AllDeleted(m, <<>>) = m
<1> DEFINE Is(after) ==
             after = [n \in 0..Len(<<>>) |->
                        IF n = 0 THEN m ELSE AllocSetDelete(after[n - 1], <<>>[n])]
           given == [n \in 0..Len(<<>>) |-> m]
<1>1. Len(<<>>) = 0
  OBVIOUS
<1>2. Is(given)
  BY <1>1
<1>3. \A after : Is(after) => after[Len(<<>>)] = m
  BY <1>1
<1>4. AllDeleted(m, <<>>) = (CHOOSE after : Is(after))[Len(<<>>)]
  BY DEF AllDeleted
<1> HIDE DEF Is
<1>5. Is(CHOOSE after : Is(after))
  BY <1>2
<1> QED
  BY <1>3, <1>4, <1>5

LEMMA OneDeleted ==
  ASSUME NEW m, NEW x
  PROVE  AllDeleted(m, <<x>>) = AllocSetDelete(m, x)
<1> DEFINE Is(after) ==
             after = [n \in 0..Len(<<x>>) |->
                        IF n = 0 THEN m ELSE AllocSetDelete(after[n - 1], <<x>>[n])]
           given == [n \in 0..Len(<<x>>) |-> IF n = 0 THEN m ELSE AllocSetDelete(m, x)]
<1>1. Len(<<x>>) = 1 /\ <<x>>[1] = x
  OBVIOUS
<1>2. Is(given)
  BY <1>1
<1>3. \A after : Is(after) => after[Len(<<x>>)] = AllocSetDelete(m, x)
  BY <1>1
<1>4. AllDeleted(m, <<x>>) = (CHOOSE after : Is(after))[Len(<<x>>)]
  BY DEF AllDeleted
<1> HIDE DEF Is
<1>5. Is(CHOOSE after : Is(after))
  BY <1>2
<1> QED
  BY <1>3, <1>4, <1>5

\* The contexts of a thread that is in a call with this context, and inside it
\* makes this function; Null for what it has not.
Uses(m, ctx, func) ==
  /\ Pool(m) /\ m.initialized = TRUE
  /\ m.top \in Contexts /\ m.error \in Contexts /\ m.error # m.top
  /\ ctx \in Pointers /\ func \in Pointers /\ (ctx = Null => func = Null)
  /\ ctx # Null => ctx \notin {m.top, m.error, func}
  /\ func # Null => func \notin {m.top, m.error}
  /\ m.live = {m.top, m.error, ctx, func} \ {Null}
  /\ m.parent[m.top] = Null /\ m.parent[m.error] = m.top
  /\ ctx # Null => m.parent[ctx] = m.top
  /\ func # Null => m.parent[func] = ctx

Memory(m, ctx, func) == Uses(m, ctx, func) /\ m.current \in m.live

LEMMA SwitchMemory ==
  ASSUME NEW m, NEW ctx, NEW func, Uses(m, ctx, func), NEW k \in m.live
  PROVE  /\ Memory([m EXCEPT !.current = k], ctx, func)
         /\ [m EXCEPT !.current = k].current = k
         /\ [m EXCEPT !.current = k].error = m.error
         /\ [m EXCEPT !.current = k].top = m.top
<1> DEFINE n == [m EXCEPT !.current = k]
<1>1. m \in Memories /\ k \in Pointers
  BY DEF Uses, Pool, Memories, Pointers
<1>2. /\ n \in Memories /\ n.current = k /\ n.error = m.error /\ n.top = m.top
      /\ n.live = m.live /\ n.malloced = m.malloced /\ n.parent = m.parent
      /\ n.free = m.free /\ n.initialized = m.initialized
  BY <1>1 DEF Memories
<1> HIDE DEF n
<1>3. Pool(n)
  BY <1>2 DEF Pool, Uses
<1>4. Uses(n, ctx, func)
  BY <1>2, <1>3 DEF Uses
<1> QED
  BY <1>2, <1>4 DEF Memory, n

LEMMA NoMemoryIsPool ==
  /\ Pool(NoMemory) /\ NoMemory.live = {} /\ NoMemory.free = <<>>
  /\ NoMemory.malloced = {} /\ NoMemory.initialized = FALSE
  /\ NoMemory.top = Null /\ NoMemory.error = Null /\ NoMemory.current = Null
<1> DEFINE m == NoMemory
<1>1. /\ m.live = {} /\ m.malloced = {} /\ m.initialized = FALSE
      /\ m.top = Null /\ m.error = Null /\ m.current = Null /\ m.free = <<>>
  BY DEF NoMemory
<1>2. [x \in Contexts |-> Null] \in [Contexts -> Pointers] /\ Null \in Pointers
  BY DEF Pointers
<1>3. m \in Memories
  BY <1>2, ShortFreelists DEF NoMemory, Memories
<1> HIDE DEF m
<1>4. Pool(m)
  BY <1>1, <1>3, ShortFreelists, LimitsAssumption DEF Pool
<1> QED
  BY <1>1, <1>4 DEF m

LEMMA InitMemory ==
  /\ Memory(MemoryContextInit(NoMemory), Null, Null)
  /\ MemoryContextInit(NoMemory).current = MemoryContextInit(NoMemory).top
<1> DEFINE top == AnyOf(Contexts)
           error == AnyOf(Contexts \ {top})
           made == Create(NoMemory, Null)
           both == WithContext(made, error, top)
           n == MemoryContextInit(NoMemory)
<1>1. top \in Contexts /\ error \in Contexts /\ error # top
  <2>1. PICK a : a \in Contexts
    <3>1. Contexts \ {Null, Null, Null} # {}
      BY RoomAssumption
    <3> QED
      BY <3>1
  <2>2. top \in Contexts
    BY <2>1 DEF AnyOf
  <2>3. Contexts \ {top, top, top} # {}
    BY <2>2, RoomAssumption
  <2>4. PICK b : b \in Contexts \ {top}
    BY <2>3
  <2> HIDE DEF top
  <2>5. error \in Contexts \ {top}
    BY <2>4 DEF AnyOf
  <2> QED
    BY <2>2, <2>5
<1>2. Created(NoMemory) = top
  BY NoMemoryIsPool DEF Created, Unused
<1> HIDE DEF top
<1>3. /\ Pool(made) /\ made.live = {top} /\ made.parent = [NoMemory.parent EXCEPT ![top] = Null]
      /\ made.parent[top] = Null
  <2>1. Contexts \ NoMemory.live # {}
    BY <1>1, NoMemoryIsPool
  <2>2. /\ Pool(made) /\ made.live = NoMemory.live \cup {top}
        /\ made.parent = [NoMemory.parent EXCEPT ![top] = Null]
    BY <1>2, <2>1, NoMemoryIsPool, CreatePool DEF Pointers
  <2>3. NoMemory.parent \in [Contexts -> Pointers]
    BY NoMemoryIsPool DEF Pool, Memories
  <2> HIDE DEF made
  <2> QED
    BY <1>1, <2>2, <2>3, NoMemoryIsPool
<1>4. made.free = <<>>
  <2>1. NoMemory \in Memories
    BY NoMemoryIsPool DEF Pool
  <2> QED
    BY <2>1, NoMemoryIsPool DEF Create, WithContext, Memories
<1>5. made.malloced = {top}
  <2> HIDE DEF made
  <2> QED
    BY <1>3, <1>4, ShortFreelists DEF Pool
<1>6. AnyOf(Unused(made)) = error
  BY <1>5 DEF Unused
<1>7. n = [both EXCEPT !.initialized = TRUE, !.top = top, !.current = top, !.error = error]
  BY <1>2, <1>6 DEF MemoryContextInit
<1> HIDE DEF n, error, made
<1> DEFINE parent == [made.parent EXCEPT ![error] = top]
<1>8. made \in Memories /\ made.parent \in [Contexts -> Pointers]
  BY <1>3 DEF Pool, Memories
<1>9. /\ parent \in [Contexts -> Pointers] /\ parent[top] = Null /\ parent[error] = top
  BY <1>1, <1>3, <1>8 DEF Pointers
<1>10. both = [made EXCEPT !.malloced = made.malloced \cup {error},
                           !.live = made.live \cup {error}, !.parent = parent]
  BY <1>8 DEF WithContext, Memories
<1> HIDE DEF both, parent
<1>11. /\ both \in Memories /\ both.live = {top, error} /\ both.malloced = {top, error}
       /\ both.parent = parent /\ both.free = <<>>
  BY <1>1, <1>3, <1>4, <1>5, <1>8, <1>9, <1>10 DEF Memories
<1>12. /\ n \in Memories /\ n.live = {top, error} /\ n.malloced = {top, error}
       /\ n.parent = parent /\ n.free = <<>> /\ n.initialized = TRUE
       /\ n.top = top /\ n.error = error /\ n.current = top
  BY <1>1, <1>7, <1>11 DEF Memories, Pointers
<1>13. Pool(n)
  BY <1>12, ShortFreelists, LimitsAssumption DEF Pool
<1> QED
  BY <1>1, <1>9, <1>12, <1>13, NullAssumption DEF Memory, Uses, Pointers, n

LEMMA EnterMemory ==
  ASSUME NEW m, Memory(m, Null, Null),
         NEW n, n = [Create(m, m.top) EXCEPT !.current = Created(m)]
  PROVE  /\ Created(m) \in Contexts /\ Memory(n, Created(m), Null)
         /\ n.current = Created(m) /\ n.error \in Contexts
<1> DEFINE x == Created(m)
           made == Create(m, m.top)
<1>1. Uses(m, Null, Null)
  BY DEF Memory
<1>2. m.top \in Contexts /\ m.error \in Contexts /\ m.live = {m.top, m.error}
      /\ m \in Memories
  BY <1>1, NullAssumption DEF Uses, Pool
<1>3. Contexts \ m.live # {}
  <2>1. Contexts \ {m.top, m.error, m.error} # {}
    BY <1>2, RoomAssumption
  <2> QED
    BY <1>2, <2>1
<1>4. /\ x \in Contexts \ m.live /\ Pool(made)
      /\ made.live = m.live \cup {x} /\ made.parent = [m.parent EXCEPT ![x] = m.top]
      /\ made.top = m.top /\ made.error = m.error /\ made.initialized = m.initialized
  BY <1>1, <1>2, <1>3, CreatePool DEF Uses, Pointers
<1>5. m.parent \in [Contexts -> Pointers]
  BY <1>2 DEF Memories
<1> HIDE DEF x, made
<1>6. Uses(made, x, Null)
  BY <1>1, <1>2, <1>4, <1>5, NullAssumption DEF Uses, Pointers
<1>7. x \in made.live
  BY <1>4
<1>8. n = [made EXCEPT !.current = x]
  BY DEF made, x
<1>9. /\ Memory([made EXCEPT !.current = x], x, Null)
      /\ [made EXCEPT !.current = x].current = x
      /\ [made EXCEPT !.current = x].error = made.error
  BY <1>6, <1>7, SwitchMemory
<1> QED
  BY <1>2, <1>4, <1>8, <1>9 DEF x

LEMMA FunctionMemory ==
  ASSUME NEW m, NEW ctx, Memory(m, ctx, Null), ctx # Null, m.current = ctx,
         NEW n, n = [Create(m, m.current) EXCEPT !.current = Created(m)]
  PROVE  /\ Created(m) \in Contexts /\ Memory(n, ctx, Created(m))
         /\ n.current = Created(m) /\ n.error = m.error
<1> DEFINE x == Created(m)
           made == Create(m, m.current)
<1>1. Uses(m, ctx, Null)
  BY DEF Memory
<1>2. /\ m.top \in Contexts /\ m.error \in Contexts /\ ctx \in Contexts
      /\ m.live = {m.top, m.error, ctx} /\ m \in Memories
  BY <1>1, NullAssumption DEF Uses, Pool, Pointers
<1>3. Contexts \ m.live # {}
  <2>1. Contexts \ {m.top, m.error, ctx} # {}
    BY <1>2, RoomAssumption
  <2> QED
    BY <1>2, <2>1
<1>4. /\ x \in Contexts \ m.live /\ Pool(made)
      /\ made.live = m.live \cup {x} /\ made.parent = [m.parent EXCEPT ![x] = ctx]
      /\ made.top = m.top /\ made.error = m.error /\ made.initialized = m.initialized
  BY <1>1, <1>2, <1>3, CreatePool DEF Uses, Pointers
<1>5. m.parent \in [Contexts -> Pointers]
  BY <1>2 DEF Memories
<1> HIDE DEF x, made
<1>6. Uses(made, ctx, x)
  BY <1>1, <1>2, <1>4, <1>5, NullAssumption DEF Uses, Pointers
<1>7. x \in made.live
  BY <1>4
<1>8. n = [made EXCEPT !.current = x]
  BY DEF made, x
<1>9. /\ Memory([made EXCEPT !.current = x], ctx, x)
      /\ [made EXCEPT !.current = x].current = x
      /\ [made EXCEPT !.current = x].error = made.error
  BY <1>6, <1>7, SwitchMemory
<1> QED
  BY <1>2, <1>4, <1>8, <1>9 DEF x

LEMMA ChildrenAre ==
  ASSUME NEW m, NEW ctx, NEW func, Uses(m, ctx, func)
  PROVE  /\ func # Null => ChildrenOf(m, func) = {}
         /\ ctx # Null => ChildrenOf(m, ctx) = {func} \ {Null}
         /\ ChildrenOf(m, m.error) = {}
         /\ ctx = Null => ChildrenOf(m, m.top) = {m.error}
BY NullAssumption DEF ChildrenOf, Uses, Pointers

LEMMA DeleteNoChildren ==
  ASSUME NEW m, NEW x, ChildrenOf(m, x) = {}
  PROVE  DeleteChildren(m, x) = m
<1>1. UNION {ChildrenOf(m, d) : d \in ChildrenOf(m, x)} = {}
  OBVIOUS
<1>2. DeleteChildren(m, x) = AllDeleted(m, SetToSeq({}) \o SetToSeq({}))
  BY <1>1 DEF DeleteChildren
<1>3. SetToSeq({}) \o SetToSeq({}) = <<>>
  BY ShortSequences
<1> QED
  BY <1>2, <1>3, NoneDeleted

LEMMA DeleteOneChild ==
  ASSUME NEW m, NEW x, NEW y, ChildrenOf(m, x) = {y}, ChildrenOf(m, y) = {}
  PROVE  DeleteChildren(m, x) = AllocSetDelete(m, y)
<1>1. UNION {ChildrenOf(m, d) : d \in ChildrenOf(m, x)} = {}
  OBVIOUS
<1>2. DeleteChildren(m, x) = AllDeleted(m, SetToSeq({}) \o SetToSeq({y}))
  BY <1>1 DEF DeleteChildren
<1>3. SetToSeq({}) \o SetToSeq({y}) = <<y>>
  <2>1. SetToSeq({}) = <<>> /\ SetToSeq({y}) = <<y>>
    BY ShortSequences
  <2>2. <<>> \o <<y>> = <<y>>
    OBVIOUS
  <2> QED
    BY <2>1, <2>2
<1> QED
  BY <1>2, <1>3, OneDeleted

\* plpgsql_free_function_memory
LEMMA FreeFunctionMemory ==
  ASSUME NEW m, NEW ctx, NEW func, Memory(m, ctx, func), func # Null, m.current = ctx
  PROVE  /\ Memory(MemoryContextDelete(m, func), ctx, Null)
         /\ MemoryContextDelete(m, func).current = ctx
         /\ MemoryContextDelete(m, func).error = m.error
<1> DEFINE n == AllocSetDelete(m, func)
<1>1. Uses(m, ctx, func) /\ func \in m.live /\ func \in Contexts /\ ctx # Null
  BY DEF Memory, Uses, Pointers
<1>2. MemoryContextDelete(m, func) = n
  BY <1>1, ChildrenAre, DeleteNoChildren DEF MemoryContextDelete
<1>3. /\ Pool(n) /\ n.live = m.live \ {func} /\ n.parent = [m.parent EXCEPT ![func] = Null]
      /\ n.top = m.top /\ n.error = m.error /\ n.current = m.current
      /\ n.initialized = m.initialized
  BY <1>1, DeletePool DEF Uses
<1>4. m.parent \in [Contexts -> Pointers]
  BY <1>1 DEF Uses, Pool, Memories
<1> HIDE DEF n
<1>5. Uses(n, ctx, Null)
  BY <1>1, <1>3, <1>4, NullAssumption DEF Uses, Pointers
<1> QED
  BY <1>1, <1>2, <1>3, <1>5 DEF Memory, Uses

\* pg_query_exit_memory_context
LEMMA ExitMemory ==
  ASSUME NEW m, NEW ctx, NEW func, Memory(m, ctx, func), ctx # Null,
         NEW n, n = [MemoryContextDelete(m, ctx) EXCEPT !.current = m.top]
  PROVE  Memory(n, Null, Null) /\ n.current = n.top
<1> DEFINE a == DeleteChildren(m, ctx)
           b == AllocSetDelete(a, ctx)
<1>1. /\ Uses(m, ctx, func) /\ ctx \in m.live /\ ctx \in Contexts
      /\ m.parent \in [Contexts -> Pointers] /\ m.top # Null /\ m.error # Null
  BY NullAssumption DEF Memory, Uses, Pointers, Pool, Memories
<1>2. /\ Pool(a) /\ a.live = {m.top, m.error, ctx} /\ a.initialized = TRUE
      /\ a.parent \in [Contexts -> Pointers]
      /\ a.parent[m.top] = Null /\ a.parent[m.error] = m.top
      /\ a.top = m.top /\ a.error = m.error
  <2>1. CASE func = Null
    <3>1. a = m
      BY <1>1, <2>1, ChildrenAre, DeleteNoChildren
    <3> HIDE DEF a
    <3> QED
      BY <1>1, <2>1, <3>1 DEF Uses
  <2>2. CASE func # Null
    <3>1. ChildrenOf(m, ctx) = {func} /\ ChildrenOf(m, func) = {}
      BY <1>1, <2>2, ChildrenAre
    <3>2. a = AllocSetDelete(m, func)
      BY <3>1, DeleteOneChild
    <3>3. func \in m.live /\ func \in Contexts
      BY <1>1, <2>2 DEF Uses, Pointers
    <3> HIDE DEF a
    <3>4. /\ Pool(a) /\ a.live = m.live \ {func} /\ a.parent = [m.parent EXCEPT ![func] = Null]
          /\ a.top = m.top /\ a.error = m.error /\ a.initialized = m.initialized
      BY <1>1, <3>2, <3>3, DeletePool DEF Uses
    <3>5. a.parent \in [Contexts -> Pointers]
      BY <3>4 DEF Pool, Memories
    <3> QED
      BY <1>1, <2>2, <3>3, <3>4, <3>5 DEF Uses
  <2> QED
    BY <2>1, <2>2
<1> HIDE DEF a
<1>3. /\ Pool(b) /\ b.live = {m.top, m.error} /\ b.initialized = TRUE
      /\ b.parent[m.top] = Null /\ b.parent[m.error] = m.top
      /\ b.top = m.top /\ b.error = m.error
  <2>1. /\ Pool(b) /\ b.live = a.live \ {ctx} /\ b.initialized = a.initialized
        /\ b.parent = [a.parent EXCEPT ![ctx] = Null]
        /\ b.top = a.top /\ b.error = a.error
    <3>1. Pool(a) /\ ctx \in a.live
      BY <1>2
    <3> QED
      BY <3>1, DeletePool
  <2> HIDE DEF b
  <2> QED
    BY <1>1, <1>2, <2>1 DEF Uses
<1>4. n = [b EXCEPT !.current = m.top]
  BY DEF MemoryContextDelete, a
<1> HIDE DEF b
<1>5. Uses(b, Null, Null) /\ m.top \in b.live
  BY <1>1, <1>3 DEF Uses, Pointers
<1>6. /\ Memory([b EXCEPT !.current = m.top], Null, Null)
      /\ [b EXCEPT !.current = m.top].current = m.top
      /\ [b EXCEPT !.current = m.top].top = b.top
  BY <1>5, SwitchMemory
<1> QED
  BY <1>3, <1>4, <1>6

\* pg_query_free_top_memory_context
LEMMA FreeTopMemory ==
  ASSUME NEW m, Memory(m, Null, Null)
  PROVE  FreeTop(m).malloced = {} /\ MemoryOK(FreeTop(m)) /\ FreeTop(m).live = {}
<1> DEFINE a == DeleteChildren(m, m.top)
           b == DeleteFreeList(a)
           c == AllocSetDelete(b, m.top)
           n == FreeTop(m)
<1>1. Uses(m, Null, Null) /\ m.live = {m.top, m.error} /\ m.top # m.error
  BY NullAssumption DEF Memory, Uses
<1>2. a = AllocSetDelete(m, m.error)
  BY <1>1, ChildrenAre, DeleteOneChild
<1> HIDE DEF a
<1>3. /\ Pool(a) /\ a.live = {m.top} /\ a.top = m.top /\ a.error = m.error
  <2>1. Pool(m) /\ m.error \in m.live
    BY <1>1 DEF Uses
  <2>2. Pool(a) /\ a.live = m.live \ {m.error} /\ a.top = m.top /\ a.error = m.error
    BY <1>2, <2>1, DeletePool
  <2>3. {m.top, m.error} \ {m.error} = {m.top}
    BY <1>1
  <2> QED
    BY <1>1, <2>2, <2>3
<1>4. b = [a EXCEPT !.malloced = a.malloced \ Range(a.free), !.free = <<>>]
  BY <1>3 DEF DeleteFreeList, Pool, Memories
<1> HIDE DEF b
<1>5. /\ b \in Memories /\ b.malloced = {m.top} /\ b.live = {m.top} /\ b.free = <<>>
      /\ b.top = m.top /\ b.error = m.error
  BY <1>3, <1>4, ShortFreelists DEF Pool, Memories
<1>6. Pool(b)
  BY <1>5, ShortFreelists, LimitsAssumption DEF Pool
<1>7. Pool(c) /\ c.live = {}
  <2>1. m.top \in b.live
    BY <1>5
  <2>2. \A x \in b.live : Pool(AllocSetDelete(b, x))
                           /\ AllocSetDelete(b, x).live = b.live \ {x}
    BY <1>6, DeletePool
  <2>3. Pool(c) /\ c.live = b.live \ {m.top}
    BY <2>1, <2>2
  <2> QED
    BY <1>5, <2>3
<1>8. c.malloced = {m.top}
  <2>1. Len(b.free) < MaxFree /\ m.top # b.error
    BY <1>1, <1>5, ShortFreelists, LimitsAssumption
  <2>2. c = [[b EXCEPT !.live = @ \ {m.top}, !.parent[m.top] = Null]
               EXCEPT !.free = <<m.top>> \o @]
    BY <2>1 DEF AllocSetDelete
  <2>3. c.malloced = b.malloced
    BY <1>5, <2>2 DEF Memories
  <2> QED
    BY <1>5, <2>3
<1>9. n = [c EXCEPT !.malloced = c.malloced \ {m.top}, !.top = Null, !.current = Null,
                    !.error = Null]
  BY <1>7 DEF FreeTop, a, b, Pool, Memories
<1> HIDE DEF c, n
<1>10. /\ n.malloced = {} /\ n.live = {} /\ n.parent = c.parent /\ n.free = c.free
       /\ n.top = Null /\ n.current = Null /\ n.error = Null
  BY <1>7, <1>8, <1>9 DEF Pool, Memories
<1>11. c.parent \in [Contexts -> Pointers] /\ Len(c.free) <= MaxFree
  BY <1>7 DEF Pool, Memories
<1>12. MemoryOK(n)
  BY <1>10, <1>11 DEF MemoryOK, Pointers
<1> QED
  BY <1>10, <1>12 DEF n

-----------------------------------------------------------------------------
(***************************************************************************)
(* The inductive invariant: where a thread can be                          *)
(***************************************************************************)

Domains ==
  /\ DOMAIN life = Threads /\ DOMAIN values = Threads /\ DOMAIN mem = Threads
  /\ DOMAIN frames = Threads /\ DOMAIN handler = Threads /\ DOMAIN errors = Threads
  /\ DOMAIN options = Threads /\ DOMAIN call = Threads /\ DOMAIN todo = Threads

\* The key in use is the last one that was made; there is room for the first.
KeysOK ==
  /\ keys \in 0..MaxKeys /\ threadKey \in {0, keys}
  /\ keys = MaxKeys => threadKey = keys

\* Nothing is left of an earlier call but options of a failed parse.
Quiet(t) ==
  /\ frames[t] = <<>> /\ handler[t] = Null /\ errors[t] = NoError
  /\ call[t] \in Calls /\ call[t].ctx = Null /\ call[t].func = Null
  /\ options[t] \in Settings /\ Excused(options[t])
  /\ mem[t].current = mem[t].top

\* The thread has registered its exit function, with one key.
Registered(t) == \E key \in 1..MaxKeys : values[t] = {key}

\* Before and after pg_query_init.
HasMemory(t) ==
  \/ mem[t] = NoMemory /\ values[t] = {}
  \/ Memory(mem[t], Null, Null) /\ Registered(t)

Idle(t) ==
  todo[t] = <<>> /\ Quiet(t) /\ HasMemory(t) /\ call[t].error = call[t].failed

Entering(t) ==
  /\ Quiet(t) /\ HasMemory(t) /\ call[t] = NoCall
  /\ \E rest : todo[t] = Do("enter") ++ rest /\ Runs(rest)

\* In pg_query_init: the memory is there and the exit function is not.
Starting(t) ==
  /\ Quiet(t) /\ call[t] = NoCall
  /\ Memory(mem[t], Null, Null) /\ values[t] = {}
MakingKey(t) ==
  /\ Starting(t)
  /\ \E rest : todo[t] = Do("create key") ++ (Do("set specific") ++ (Do("enter") ++ rest))
               /\ Runs(rest)
UsingKey(t) ==
  /\ Starting(t) /\ threadKey # 0
  /\ \E rest : todo[t] = Do("set specific") ++ (Do("enter") ++ rest) /\ Runs(rest)

InCall(t) ==
  /\ Safe(todo[t], frames[t], handler[t], errors[t], options[t], call[t],
          mem[t].current, mem[t].error)
  /\ Memory(mem[t], call[t].ctx, call[t].func)
  /\ Registered(t)

Over(t) ==
  /\ todo[t] = <<>> /\ handler[t] = Null /\ errors[t] = NoError
  /\ call[t].error = call[t].failed /\ Excused(options[t])
  /\ MemoryOK(mem[t]) /\ mem[t].malloced = {}
  /\ values[t] \subseteq 1..MaxKeys

ThreadOK(t) ==
  \/ /\ life[t] = "running"
     /\ Idle(t) \/ Entering(t) \/ MakingKey(t) \/ UsingKey(t) \/ InCall(t)
  \/ life[t] \in {"exited", "ended"} /\ Over(t)

IInv == Domains /\ KeysOK /\ \A t \in Threads : ThreadOK(t)

-----------------------------------------------------------------------------

LEMMA WhatIsNext ==
  ASSUME NEW t \in Threads, ThreadOK(t), life[t] = "running"
  PROVE  /\ todo[t] = <<>> => Idle(t)
         /\ todo[t] # <<>> /\ Head(todo[t]).do = "enter" => Entering(t)
         /\ todo[t] # <<>> /\ Head(todo[t]).do = "create key" => MakingKey(t)
         /\ todo[t] # <<>> /\ Head(todo[t]).do = "set specific" => UsingKey(t)
         /\ todo[t] # <<>>
              /\ Head(todo[t]).do \notin {"enter", "create key", "set specific"} => InCall(t)
<1>1. Idle(t) => todo[t] = <<>>
  BY DEF Idle
<1> DEFINE Starts(op) == todo[t] # <<>> /\ Head(todo[t]).do = op
<1>2. ASSUME NEW op, NEW rest, IsSeq(rest), todo[t] = Do(op) ++ rest
      PROVE  Starts(op)
  <2> DEFINE x == [do |-> op]
  <2>1. x.do = op
    OBVIOUS
  <2>2. todo[t] = <<x>> ++ rest
    BY <1>2 DEF Do
  <2> HIDE DEF x
  <2> QED
    BY <1>2, <2>1, <2>2, FirstIs
<1> HIDE DEF Starts
<1>3. Entering(t) => Starts("enter")
  BY <1>2 DEF Entering, Runs
<1>4. ASSUME NEW rest, IsSeq(rest)
      PROVE  IsSeq(Do("enter") ++ rest) /\ IsSeq(Do("set specific") ++ (Do("enter") ++ rest))
  BY <1>4, DoIsSeq
<1>5. MakingKey(t) => Starts("create key")
  BY <1>2, <1>4 DEF MakingKey, Runs
<1>6. UsingKey(t) => Starts("set specific")
  BY <1>2, <1>4 DEF UsingKey, Runs
<1>7. InCall(t) => todo[t] # <<>>
                   /\ Head(todo[t]).do \notin {"enter", "create key", "set specific"}
  BY SafeIsFine DEF InCall, Fine
<1>8. Idle(t) \/ Entering(t) \/ MakingKey(t) \/ UsingKey(t) \/ InCall(t)
  BY DEF ThreadOK
<1> QED
  BY <1>1, <1>3, <1>5, <1>6, <1>7, <1>8 DEF Starts

\* What the next step of a thread in a call can lead to.
Following(t) ==
  Successors(todo[t], frames[t], handler[t], errors[t], options[t], call[t],
             mem[t].current, mem[t].error)

LEMMA InCallStep ==
  ASSUME NEW t \in Threads, InCall(t), life[t] = "running", life'[t] = life[t],
         <<todo'[t], frames'[t], handler'[t], errors'[t], options'[t], call'[t],
           mem'[t].current, mem'[t].error>> \in Following(t),
         Memory(mem'[t], call'[t].ctx, call'[t].func), values'[t] = values[t]
  PROVE  ThreadOK(t)'
<1>1. Safe(todo'[t], frames'[t], handler'[t], errors'[t], options'[t], call'[t],
           mem'[t].current, mem'[t].error)
  BY SafeLeadsToSafe DEF InCall, Following, Safe
<1>2. InCall(t)'
  BY <1>1 DEF InCall, Registered
<1> QED
  BY <1>2 DEF ThreadOK

LEMMA InCallFacts ==
  ASSUME NEW t \in Threads, ThreadOK(t), NEW op, Does(t, op),
         op \notin {"enter", "create key", "set specific"}
  PROVE  /\ InCall(t) /\ life[t] = "running" /\ Head(todo[t]).do = op
         /\ Fine(todo[t], frames[t], handler[t], errors[t], options[t], call[t],
                 mem[t].current, mem[t].error)
         /\ Placed(handler[t], errors[t], options[t], call[t], mem[t].current, mem[t].error)
         /\ Memory(mem[t], call[t].ctx, call[t].func)
         /\ Uses(mem[t], call[t].ctx, call[t].func)
<1>1. InCall(t) /\ life[t] = "running" /\ Head(todo[t]).do = op
  BY WhatIsNext DEF Does
<1>2. Fine(todo[t], frames[t], handler[t], errors[t], options[t], call[t],
           mem[t].current, mem[t].error)
  BY <1>1, SafeIsFine DEF InCall
<1> QED
  BY <1>1, <1>2 DEF Fine, InCall, Memory

LEMMA PgTryStep ==
  ASSUME Domains, NEW t \in Threads, ThreadOK(t), PgTry(t)
  PROVE  ThreadOK(t)'
<1> DEFINE stack == frames[t]
           h == handler[t]
           k == mem[t].current
           op == Head(todo[t])
           rest == Tail(todo[t])
           x == FreshFrame(t)
<1>1. /\ InCall(t) /\ life[t] = "running" /\ op.do = "try"
      /\ Fine(todo[t], stack, h, errors[t], options[t], call[t], k, mem[t].error)
      /\ Memory(mem[t], call[t].ctx, call[t].func)
  BY InCallFacts DEF PgTry
<1>2. x \in Frames \ Taken(stack, h)
  <2>1. Frames \ Taken(stack, h) # {}
    BY <1>1 DEF Fine
  <2>2. x = AnyOf(Frames \ Taken(stack, h))
    BY DEF FreshFrame, Taken
  <2> HIDE DEF x
  <2> QED
    BY <2>1, <2>2 DEF AnyOf
<1>3. Following(t) =
        {<<op.body ++ Ending(op.leave) ++ rest,
           Append(stack, Frame(y, h, k, op.catch, rest)),
           y, errors[t], options[t], call[t], k, mem[t].error>>
         : y \in Frames \ Taken(stack, h)}
  BY <1>1 DEF Following, Successors
<1>4. /\ frames'[t] = Append(stack, Frame(x, h, k, op.catch, rest))
      /\ handler'[t] = x
      /\ todo'[t] = op.body ++ Ending(op.leave) ++ rest
  BY DEF PgTry, Operation, Domains, Frame, Ending, ++
<1>5. /\ errors' = errors /\ options' = options /\ call' = call /\ mem' = mem
      /\ values' = values /\ life' = life
  BY DEF PgTry
<1> HIDE DEF x
<1>6. <<todo'[t], frames'[t], handler'[t], errors'[t], options'[t], call'[t],
        mem'[t].current, mem'[t].error>> \in Following(t)
  BY <1>2, <1>3, <1>4, <1>5
<1> QED
  BY <1>1, <1>5, <1>6, InCallStep

LEMMA PgEndTryStep ==
  ASSUME Domains, NEW t \in Threads, ThreadOK(t), PgEndTry(t)
  PROVE  ThreadOK(t)'
<1> DEFINE op == Head(todo[t])
<1>1. /\ InCall(t) /\ life[t] = "running" /\ op.do = "end try"
      /\ Memory(mem[t], call[t].ctx, call[t].func)
  BY InCallFacts DEF PgEndTry
<1>2. Following(t) =
        {<<Tail(todo[t]), Front(frames[t]), Last(frames[t]).saved, errors[t], options[t],
           call[t], mem[t].current, mem[t].error>>}
  BY <1>1 DEF Following, Successors
<1>3. /\ todo'[t] = Tail(todo[t]) /\ frames'[t] = Front(frames[t])
      /\ handler'[t] = Last(frames[t]).saved
  BY DEF PgEndTry, GoesOn, Domains
<1>4. /\ errors' = errors /\ options' = options /\ call' = call /\ mem' = mem
      /\ values' = values /\ life' = life
  BY DEF PgEndTry
<1> QED
  BY <1>1, <1>2, <1>3, <1>4, InCallStep

LEMMA ReturnFromTryStep ==
  ASSUME Domains, NEW t \in Threads, ThreadOK(t), ReturnFromTry(t)
  PROVE  ThreadOK(t)'
<1> DEFINE op == Head(todo[t])
<1>1. /\ InCall(t) /\ life[t] = "running" /\ op.do = "return"
      /\ Memory(mem[t], call[t].ctx, call[t].func)
  BY InCallFacts DEF ReturnFromTry
<1>2. Following(t) =
        {<<Tail(todo[t]), Front(frames[t]), handler[t], errors[t], options[t],
           call[t], mem[t].current, mem[t].error>>}
  BY <1>1 DEF Following, Successors
<1>3. todo'[t] = Tail(todo[t]) /\ frames'[t] = Front(frames[t])
  BY DEF ReturnFromTry, GoesOn, Domains
<1>4. /\ errors' = errors /\ options' = options /\ call' = call /\ mem' = mem
      /\ values' = values /\ life' = life /\ handler' = handler
  BY DEF ReturnFromTry
<1> QED
  BY <1>1, <1>2, <1>3, <1>4, InCallStep

\* An error gets to the innermost PG_CATCH.
LEMMA ThrowIsCaught ==
  ASSUME Domains, NEW t \in Threads, Memory(mem[t], call[t].ctx, call[t].func),
         Armed(frames[t], handler[t], errors[t]), Throw(t)
  PROVE  /\ todo'[t] = Last(frames[t]).catch /\ frames'[t] = Front(frames[t])
         /\ handler'[t] = Last(frames[t]).saved /\ errors'[t] = Error
         /\ mem'[t].current = mem[t].error /\ mem'[t].error = mem[t].error
         /\ Memory(mem'[t], call[t].ctx, call[t].func) /\ life' = life
<1> DEFINE stack == frames[t]
           at == {n \in 1..Len(stack) : stack[n].id = handler[t]}
           at1 == CHOOSE n \in at : TRUE
<1>1. /\ Len(stack) \in Nat \ {0} /\ handler[t] = stack[Len(stack)].id /\ handler[t] # Null
      /\ \A n \in 1..Len(stack) - 1 : stack[n].id # handler[t]
      /\ errors[t] = NoError
  BY DEF Armed, Last
<1>3. at = {Len(stack)}
  BY <1>1
<1>4. at1 = Len(stack)
  BY <1>3
<1>5. errors[t].depth < 5 /\ errors[t].depth + 1 = 1
  BY <1>1 DEF NoError
<1>6. errors'[t] = Error
  BY <1>5 DEF Throw, Domains, Error
<1>7. /\ handler' = [handler EXCEPT ![t] = stack[at1].saved]
      /\ frames' = [frames EXCEPT ![t] = SubSeq(stack, 1, at1 - 1)]
      /\ todo' = [todo EXCEPT ![t] = stack[at1].catch]
      /\ life' = life
  BY <1>1, <1>3, <1>5 DEF Throw
<1>8. /\ todo'[t] = Last(stack).catch /\ frames'[t] = Front(stack)
      /\ handler'[t] = Last(stack).saved
  <2> HIDE DEF at1
  <2> QED
    BY <1>4, <1>7 DEF Domains, Last, Front
<1>9. mem'[t] = [mem[t] EXCEPT !.current = mem[t].error]
  BY DEF Throw, Domains
<1>10. Uses(mem[t], call[t].ctx, call[t].func) /\ mem[t].error \in mem[t].live
  BY NullAssumption DEF Memory, Uses
<1>11. /\ Memory(mem'[t], call[t].ctx, call[t].func)
       /\ mem'[t].current = mem[t].error /\ mem'[t].error = mem[t].error
  BY <1>9, <1>10, SwitchMemory
<1> QED
  BY <1>6, <1>7, <1>8, <1>11

LEMMA WorkStep ==
  ASSUME Domains, NEW t \in Threads, ThreadOK(t), Work(t)
  PROVE  ThreadOK(t)'
<1> DEFINE op == Head(todo[t])
           c == call[t]
           r == mem[t].error
           c2 == [c EXCEPT !.failed = TRUE]
<1>1. /\ InCall(t) /\ life[t] = "running" /\ op.do \in {"parse", "compile"}
      /\ Fine(todo[t], frames[t], handler[t], errors[t], options[t], c, mem[t].current, r)
      /\ Placed(handler[t], errors[t], options[t], c, mem[t].current, r)
      /\ Memory(mem[t], c.ctx, c.func) /\ todo[t] # <<>>
  <2>1. CASE Does(t, "parse")
    BY <2>1, InCallFacts DEF Does
  <2>2. CASE Does(t, "compile")
    BY <2>2, InCallFacts DEF Does
  <2> QED
    BY <2>1, <2>2 DEF Work
<1>2. values'[t] = values[t]
  BY DEF Work
<1>3. Armed(frames[t], handler[t], errors[t])
  BY <1>1 DEF Fine
<1>4. c \in Calls /\ options[t] \in Settings
  BY <1>1 DEF Placed
<1>5. c2.ctx = c.ctx /\ c2.func = c.func
  BY <1>4 DEF Calls
<1> DEFINE passed == <<Tail(todo[t]), frames[t], handler[t], errors[t], options[t], c,
                       mem[t].current, r>>
           o2 == IF op.do = "parse" THEN WhenParseFails(options[t], c) ELSE options[t]
<1>6. Following(t) = {passed, Caught(frames[t], o2, c2, r)}
  <2>1. CASE op.do = "parse"
    BY <2>1 DEF Following, Successors
  <2>2. CASE op.do = "compile"
    BY <2>2 DEF Following, Successors
  <2> QED
    BY <1>1, <2>1, <2>2
<1>7. CASE GoesOn(t) /\ UNCHANGED <<life, mem, frames, handler, errors, options, call>>
  <2>1. todo'[t] = Tail(todo[t])
    BY <1>7 DEF GoesOn, Domains
  <2> HIDE DEF o2, c2
  <2> QED
    BY <1>1, <1>2, <1>6, <1>7, <2>1, InCallStep
<1>8. CASE /\ Throw(t)
           /\ call' = [call EXCEPT ![t].failed = TRUE]
           /\ options' = [options EXCEPT ![t].failed =
                             IF Does(t, "parse") /\ call[t].sets THEN TRUE ELSE @]
  <2>1. /\ todo'[t] = Last(frames[t]).catch /\ frames'[t] = Front(frames[t])
        /\ handler'[t] = Last(frames[t]).saved /\ errors'[t] = Error
        /\ mem'[t].current = r /\ mem'[t].error = r
        /\ Memory(mem'[t], c.ctx, c.func) /\ life' = life
    BY <1>1, <1>3, <1>8, ThrowIsCaught
  <2>2. call'[t] = c2
    BY <1>8 DEF Domains
  <2>3. options'[t] = o2
    <3>1. Does(t, "parse") <=> op.do = "parse"
      BY <1>1 DEF Does
    <3>2. options'[t] = [options[t] EXCEPT !.failed =
                           IF Does(t, "parse") /\ c.sets THEN TRUE ELSE options[t].failed]
      BY <1>8 DEF Domains
    <3>3. CASE op.do = "parse"
      BY <3>1, <3>2, <3>3 DEF WhenParseFails
    <3>4. CASE op.do # "parse"
      <4>1. options'[t] = [options[t] EXCEPT !.failed = options[t].failed]
        BY <3>1, <3>2, <3>4
      <4>2. options'[t] = options[t]
        BY <1>4, <4>1 DEF Settings
      <4> QED
        BY <3>4, <4>2
    <3> QED
      BY <3>3, <3>4
  <2> HIDE DEF o2, c2
  <2>4. <<todo'[t], frames'[t], handler'[t], errors'[t], options'[t], call'[t],
          mem'[t].current, mem'[t].error>> \in Following(t)
    BY <1>6, <2>1, <2>2, <2>3 DEF Caught
  <2> QED
    BY <1>1, <1>2, <1>5, <2>1, <2>2, <2>4, InCallStep
<1> QED
  BY <1>7, <1>8 DEF Work

LEMMA UnknownNodeStep ==
  ASSUME Domains, NEW t \in Threads, ThreadOK(t), UnknownNode(t)
  PROVE  ThreadOK(t)'
<1> DEFINE r == mem[t].error
<1>1. /\ InCall(t) /\ life[t] = "running" /\ Head(todo[t]).do = "throw"
      /\ Fine(todo[t], frames[t], handler[t], errors[t], options[t], call[t],
              mem[t].current, r)
      /\ Memory(mem[t], call[t].ctx, call[t].func)
  BY InCallFacts DEF UnknownNode
<1>2. Following(t) = {Caught(frames[t], options[t], call[t], r)}
  BY <1>1 DEF Following, Successors
<1>3. Armed(frames[t], handler[t], errors[t])
  BY <1>1 DEF Fine
<1>4. /\ todo'[t] = Last(frames[t]).catch /\ frames'[t] = Front(frames[t])
      /\ handler'[t] = Last(frames[t]).saved /\ errors'[t] = Error
      /\ mem'[t].current = r /\ mem'[t].error = r
      /\ Memory(mem'[t], call[t].ctx, call[t].func) /\ life' = life
  BY <1>1, <1>3, ThrowIsCaught DEF UnknownNode
<1>5. options' = options /\ call' = call /\ values' = values
  BY DEF UnknownNode
<1>6. <<todo'[t], frames'[t], handler'[t], errors'[t], options'[t], call'[t],
        mem'[t].current, mem'[t].error>> \in Following(t)
  BY <1>2, <1>4, <1>5 DEF Caught
<1> QED
  BY <1>1, <1>4, <1>5, <1>6, InCallStep

LEMMA SetOptionsStep ==
  ASSUME Domains, NEW t \in Threads, ThreadOK(t), SetOptions(t)
  PROVE  ThreadOK(t)'
<1> DEFINE op == Head(todo[t])
           c2 == [call[t] EXCEPT !.sets = TRUE]
           o2 == [now |-> op.to, failed |-> FALSE]
<1>1. /\ InCall(t) /\ life[t] = "running" /\ op.do = "set options"
      /\ Memory(mem[t], call[t].ctx, call[t].func) /\ call[t] \in Calls
  BY InCallFacts DEF SetOptions, Placed
<1>2. Following(t) =
        {<<Tail(todo[t]), frames[t], handler[t], errors[t], o2, c2,
           mem[t].current, mem[t].error>>}
  BY <1>1 DEF Following, Successors
<1>3. todo'[t] = Tail(todo[t]) /\ options'[t] = o2 /\ call'[t] = c2
  BY DEF SetOptions, GoesOn, Domains, Operation
<1>4. c2.ctx = call[t].ctx /\ c2.func = call[t].func
  BY <1>1 DEF Calls
<1>5. /\ frames' = frames /\ handler' = handler /\ errors' = errors /\ mem' = mem
      /\ values' = values /\ life' = life
  BY DEF SetOptions
<1> HIDE DEF c2, o2
<1> QED
  BY <1>1, <1>2, <1>3, <1>4, <1>5, InCallStep

LEMMA CopyErrorDataStep ==
  ASSUME Domains, NEW t \in Threads, ThreadOK(t), CopyErrorData(t)
  PROVE  ThreadOK(t)'
<1> DEFINE op == Head(todo[t])
           c2 == [call[t] EXCEPT !.error = (errors[t] = Error)]
<1>1. /\ InCall(t) /\ life[t] = "running" /\ op.do = "CopyErrorData"
      /\ Memory(mem[t], call[t].ctx, call[t].func) /\ call[t] \in Calls
      /\ errors[t] \in {NoError, Error}
  BY InCallFacts DEF CopyErrorData, Placed
<1>2. Following(t) =
        {<<Tail(todo[t]), frames[t], handler[t], errors[t], options[t], c2,
           mem[t].current, mem[t].error>>}
  BY <1>1 DEF Following, Successors
<1>3. (errors[t].depth > 0 /\ errors[t].data) = (errors[t] = Error)
  <2>1. CASE errors[t] = NoError
    BY <2>1 DEF NoError, Error
  <2>2. CASE errors[t] = Error
    BY <2>2 DEF Error
  <2> QED
    BY <1>1, <2>1, <2>2
<1>4. todo'[t] = Tail(todo[t]) /\ call'[t] = c2
  BY <1>3 DEF CopyErrorData, GoesOn, Domains
<1>5. c2.ctx = call[t].ctx /\ c2.func = call[t].func
  BY <1>1 DEF Calls
<1>6. /\ frames' = frames /\ handler' = handler /\ errors' = errors /\ mem' = mem
      /\ values' = values /\ life' = life /\ options' = options
  BY DEF CopyErrorData
<1> HIDE DEF c2
<1> QED
  BY <1>1, <1>2, <1>4, <1>5, <1>6, InCallStep

LEMMA FlushErrorStateStep ==
  ASSUME Domains, NEW t \in Threads, ThreadOK(t), FlushErrorState(t)
  PROVE  ThreadOK(t)'
<1>1. /\ InCall(t) /\ life[t] = "running" /\ Head(todo[t]).do = "FlushErrorState"
      /\ Memory(mem[t], call[t].ctx, call[t].func)
  BY InCallFacts DEF FlushErrorState
<1>2. Following(t) =
        {<<Tail(todo[t]), frames[t], handler[t], NoError, options[t], call[t],
           mem[t].current, mem[t].error>>}
  BY <1>1 DEF Following, Successors
<1>3. todo'[t] = Tail(todo[t]) /\ errors'[t] = NoError
  BY DEF FlushErrorState, GoesOn, Domains, NoError
<1>4. /\ frames' = frames /\ handler' = handler /\ call' = call /\ mem' = mem
      /\ values' = values /\ life' = life /\ options' = options
  BY DEF FlushErrorState
<1> QED
  BY <1>1, <1>2, <1>3, <1>4, InCallStep

LEMMA SwitchBackStep ==
  ASSUME Domains, NEW t \in Threads, ThreadOK(t), SwitchBack(t)
  PROVE  ThreadOK(t)'
<1> DEFINE op == Head(todo[t])
           r == mem[t].error
<1>1. /\ InCall(t) /\ life[t] = "running" /\ op.do = "switch back"
      /\ Uses(mem[t], call[t].ctx, call[t].func)
  BY InCallFacts DEF SwitchBack
<1>2. Following(t) =
        {<<Tail(todo[t]), frames[t], handler[t], errors[t], options[t], call[t], op.to, r>>}
  BY <1>1 DEF Following, Successors
<1>3. op.to \in mem[t].live
  <2>1. Safe(Tail(todo[t]), frames[t], handler[t], errors[t], options[t], call[t], op.to, r)
    BY <1>1, <1>2, SafeLeadsToSafe DEF InCall, Following, Safe
  <2>2. Fine(Tail(todo[t]), frames[t], handler[t], errors[t], options[t], call[t], op.to, r)
    BY <2>1, SafeIsFine
  <2>3. op.to \in {r, call[t].ctx, call[t].func} /\ op.to \in Contexts
    BY <2>2 DEF Fine, Placed
  <2> QED
    BY <1>1, <2>3, NullAssumption DEF Uses
<1>4. todo'[t] = Tail(todo[t]) /\ mem'[t] = [mem[t] EXCEPT !.current = op.to]
  BY DEF SwitchBack, GoesOn, Domains, Operation
<1>5. /\ Memory(mem'[t], call[t].ctx, call[t].func)
      /\ mem'[t].current = op.to /\ mem'[t].error = r
  <2> HIDE DEF op
  <2>1. /\ Memory([mem[t] EXCEPT !.current = op.to], call[t].ctx, call[t].func)
        /\ [mem[t] EXCEPT !.current = op.to].current = op.to
        /\ [mem[t] EXCEPT !.current = op.to].error = r
    BY <1>1, <1>3, SwitchMemory
  <2> QED
    BY <1>4, <2>1
<1>6. /\ frames' = frames /\ handler' = handler /\ errors' = errors /\ call' = call
      /\ values' = values /\ life' = life /\ options' = options
  BY DEF SwitchBack
<1> QED
  BY <1>1, <1>2, <1>4, <1>5, <1>6, InCallStep

LEMMA FunctionDoneStep ==
  ASSUME Domains, NEW t \in Threads, ThreadOK(t), FunctionDone(t)
  PROVE  ThreadOK(t)'
<1> DEFINE c == call[t]
           r == mem[t].error
<1>1. /\ InCall(t) /\ life[t] = "running" /\ Head(todo[t]).do = "function done"
      /\ Uses(mem[t], c.ctx, c.func)
      /\ Placed(handler[t], errors[t], options[t], c, mem[t].current, r)
  BY InCallFacts DEF FunctionDone
<1>2. Following(t) =
        {<<Tail(todo[t]), frames[t], handler[t], errors[t], options[t], c, c.ctx, r>>}
  BY <1>1 DEF Following, Successors
<1>3. c.ctx \in mem[t].live
  BY <1>1 DEF Uses, Placed
<1>4. todo'[t] = Tail(todo[t]) /\ mem'[t] = [mem[t] EXCEPT !.current = c.ctx]
  BY DEF FunctionDone, GoesOn, Domains
<1>5. /\ Memory(mem'[t], c.ctx, c.func)
      /\ mem'[t].current = c.ctx /\ mem'[t].error = r
  <2>1. /\ Memory([mem[t] EXCEPT !.current = c.ctx], c.ctx, c.func)
        /\ [mem[t] EXCEPT !.current = c.ctx].current = c.ctx
        /\ [mem[t] EXCEPT !.current = c.ctx].error = r
    BY <1>1, <1>3, SwitchMemory
  <2> QED
    BY <1>4, <2>1
<1>6. /\ frames' = frames /\ handler' = handler /\ errors' = errors /\ call' = call
      /\ values' = values /\ life' = life /\ options' = options
  BY DEF FunctionDone
<1> QED
  BY <1>1, <1>2, <1>4, <1>5, <1>6, InCallStep

LEMMA NewFunctionStep ==
  ASSUME Domains, NEW t \in Threads, ThreadOK(t), NewFunction(t)
  PROVE  ThreadOK(t)'
<1> DEFINE c == call[t]
           x == Created(mem[t])
           c2 == [c EXCEPT !.func = x]
<1>1. /\ InCall(t) /\ life[t] = "running" /\ Head(todo[t]).do = "new function"
      /\ Memory(mem[t], c.ctx, c.func)
      /\ Placed(handler[t], errors[t], options[t], c, mem[t].current, mem[t].error)
      /\ Fine(todo[t], frames[t], handler[t], errors[t], options[t], c, mem[t].current,
              mem[t].error)
  BY InCallFacts DEF NewFunction
<1>2. c.func = Null /\ mem[t].current = c.ctx /\ c.ctx # Null /\ c \in Calls
  BY <1>1 DEF Fine, Placed
<1>3. Following(t) =
        {<<Tail(todo[t]), frames[t], handler[t], errors[t], options[t],
           [c EXCEPT !.func = y], y, mem[t].error>> : y \in Contexts}
  BY <1>1 DEF Following, Successors
<1>4. /\ todo'[t] = Tail(todo[t]) /\ call'[t] = c2
      /\ mem'[t] = [Create(mem[t], mem[t].current) EXCEPT !.current = x]
  BY DEF NewFunction, GoesOn, Domains
<1>5. /\ x \in Contexts /\ Memory(mem'[t], c.ctx, x)
      /\ mem'[t].current = x /\ mem'[t].error = mem[t].error
  BY <1>1, <1>2, <1>4, FunctionMemory
<1>6. c2.ctx = c.ctx /\ c2.func = x
  BY <1>2 DEF Calls
<1>7. /\ frames' = frames /\ handler' = handler /\ errors' = errors
      /\ values' = values /\ life' = life /\ options' = options
  BY DEF NewFunction
<1>8. <<todo'[t], frames'[t], handler'[t], errors'[t], options'[t], call'[t],
        mem'[t].current, mem'[t].error>> \in Following(t)
  BY <1>3, <1>4, <1>5, <1>7
<1> HIDE DEF c2, x
<1> QED
  BY <1>1, <1>4, <1>5, <1>6, <1>7, <1>8, InCallStep

LEMMA FreeFunctionStep ==
  ASSUME Domains, NEW t \in Threads, ThreadOK(t), FreeFunction(t)
  PROVE  ThreadOK(t)'
<1> DEFINE c == call[t]
           c2 == [c EXCEPT !.func = Null]
<1>1. /\ InCall(t) /\ life[t] = "running" /\ Head(todo[t]).do = "free function"
      /\ Memory(mem[t], c.ctx, c.func)
      /\ Placed(handler[t], errors[t], options[t], c, mem[t].current, mem[t].error)
      /\ Fine(todo[t], frames[t], handler[t], errors[t], options[t], c, mem[t].current,
              mem[t].error)
  BY InCallFacts DEF FreeFunction
<1>2. c.func # Null /\ mem[t].current = c.ctx /\ c \in Calls
  BY <1>1 DEF Fine, Placed
<1>3. Following(t) =
        {<<Tail(todo[t]), frames[t], handler[t], errors[t], options[t], c2,
           mem[t].current, mem[t].error>>}
  BY <1>1 DEF Following, Successors
<1>4. /\ todo'[t] = Tail(todo[t]) /\ call'[t] = c2
      /\ mem'[t] = MemoryContextDelete(mem[t], c.func)
  BY DEF FreeFunction, GoesOn, Domains
<1>5. /\ Memory(mem'[t], c.ctx, Null)
      /\ mem'[t].current = mem[t].current /\ mem'[t].error = mem[t].error
  <2> HIDE DEF c
  <2>1. /\ Memory(MemoryContextDelete(mem[t], c.func), c.ctx, Null)
        /\ MemoryContextDelete(mem[t], c.func).current = c.ctx
        /\ MemoryContextDelete(mem[t], c.func).error = mem[t].error
    <3>1. \A func : Memory(mem[t], c.ctx, func) /\ func # Null =>
            /\ Memory(MemoryContextDelete(mem[t], func), c.ctx, Null)
            /\ MemoryContextDelete(mem[t], func).current = c.ctx
            /\ MemoryContextDelete(mem[t], func).error = mem[t].error
      BY <1>2, FreeFunctionMemory
    <3> QED
      BY <1>1, <1>2, <3>1
  <2> QED
    BY <1>2, <1>4, <2>1
<1>6. c2.ctx = c.ctx /\ c2.func = Null
  BY <1>2 DEF Calls
<1>7. /\ frames' = frames /\ handler' = handler /\ errors' = errors
      /\ values' = values /\ life' = life /\ options' = options
  BY DEF FreeFunction
<1> HIDE DEF c2
<1> QED
  BY <1>1, <1>3, <1>4, <1>5, <1>6, <1>7, InCallStep

LEMMA ExitIfErrorStep ==
  ASSUME Domains, NEW t \in Threads, ThreadOK(t), ExitIfError(t)
  PROVE  ThreadOK(t)'
<1> DEFINE next == IF call[t].error THEN Do("exit") ELSE Tail(todo[t])
<1>1. /\ InCall(t) /\ life[t] = "running" /\ Head(todo[t]).do = "exit if error"
      /\ Memory(mem[t], call[t].ctx, call[t].func) /\ call[t] \in Calls
      /\ Does(t, "exit if error")
  <2>1. CASE Does(t, "exit if error")
    BY <2>1, InCallFacts DEF Placed
  <2>2. ~Does(t, "return if error")
    <3> SUFFICES ASSUME Does(t, "return if error")
                 PROVE  FALSE
      OBVIOUS
    <3> QED
      BY InCallFacts DEF Fine
  <2> QED
    BY <2>1, <2>2 DEF ExitIfError
<1>2. Following(t) =
        {<<next, frames[t], handler[t], errors[t], options[t], call[t],
           mem[t].current, mem[t].error>>}
  BY <1>1 DEF Following, Successors
<1>3. todo'[t] = next
  <2>1. call[t].error \in BOOLEAN
    BY <1>1 DEF Calls
  <2>2. CASE call[t].error = TRUE
    BY <1>1, <2>2 DEF ExitIfError, Domains
  <2>3. CASE call[t].error = FALSE
    BY <1>1, <2>3 DEF ExitIfError, Domains
  <2> QED
    BY <2>1, <2>2, <2>3
<1>4. /\ frames' = frames /\ handler' = handler /\ errors' = errors /\ call' = call
      /\ mem' = mem /\ values' = values /\ life' = life /\ options' = options
  BY DEF ExitIfError
<1> HIDE DEF next
<1> QED
  BY <1>1, <1>2, <1>3, <1>4, InCallStep

LEMMA ExitStep ==
  ASSUME Domains, NEW t \in Threads, ThreadOK(t), Exit(t)
  PROVE  ThreadOK(t)'
<1> DEFINE c == call[t]
           c2 == [[c EXCEPT !.ctx = Null] EXCEPT !.func = Null]
<1>1. /\ InCall(t) /\ life[t] = "running" /\ Head(todo[t]).do = "exit"
      /\ Memory(mem[t], c.ctx, c.func)
      /\ Placed(handler[t], errors[t], options[t], c, mem[t].current, mem[t].error)
      /\ Fine(todo[t], frames[t], handler[t], errors[t], options[t], c, mem[t].current,
              mem[t].error)
  BY InCallFacts DEF Exit
<1>2. Finished(frames[t], handler[t], errors[t], options[t], c)
  BY <1>1 DEF Fine
<1>3. c \in Calls /\ c.ctx # Null /\ options[t] \in Settings
  BY <1>1 DEF Placed
<1>4. /\ todo'[t] = <<>> /\ call'[t] = c2
      /\ mem'[t] = [MemoryContextDelete(mem[t], c.ctx) EXCEPT !.current = mem[t].top]
  BY DEF Exit, Domains
<1>5. Memory(mem'[t], Null, Null) /\ mem'[t].current = mem'[t].top
  <2> DEFINE n == [MemoryContextDelete(mem[t], c.ctx) EXCEPT !.current = mem[t].top]
  <2>1. Memory(n, Null, Null) /\ n.current = n.top
    BY <1>1, <1>3, ExitMemory
  <2> QED
    BY <1>4, <2>1
<1>6. c2 \in Calls /\ c2.ctx = Null /\ c2.func = Null
      /\ c2.error = c.error /\ c2.failed = c.failed
  BY <1>3 DEF Calls, Pointers
<1>7. /\ frames' = frames /\ handler' = handler /\ errors' = errors
      /\ values' = values /\ life' = life /\ options' = options
  BY DEF Exit
<1>8. Registered(t)'
  BY <1>1, <1>7 DEF InCall, Registered
<1> HIDE DEF c2
<1>9. Quiet(t)'
  BY <1>2, <1>3, <1>4, <1>5, <1>6, <1>7 DEF Finished, Quiet
<1>10. HasMemory(t)'
  BY <1>5, <1>8 DEF HasMemory
<1>11. Idle(t)'
  BY <1>2, <1>4, <1>6, <1>9, <1>10 DEF Idle, Finished
<1> QED
  BY <1>1, <1>7, <1>11 DEF ThreadOK

LEMMA CallStep ==
  ASSUME Domains, NEW t \in Threads, ThreadOK(t), Call(t)
  PROVE  ThreadOK(t)'
<1>1. Idle(t) /\ life[t] = "running"
  BY WhatIsNext DEF Call
<1>2. PICK script \in Scripts : todo' = [todo EXCEPT ![t] = script]
  BY DEF Call
<1>3. \E rest : todo'[t] = Do("enter") ++ rest /\ Runs(rest)
  <2>1. todo'[t] = script
    BY <1>2 DEF Domains
  <2> QED
    BY <2>1, ScriptsRun
<1>4. NoCall \in Calls /\ NoCall.ctx = Null /\ NoCall.func = Null
  BY DEF NoCall, Calls, Pointers
<1>5. call'[t] = NoCall
  BY DEF Call, Domains
<1>6. /\ frames' = frames /\ handler' = handler /\ errors' = errors
      /\ mem' = mem /\ values' = values /\ life' = life /\ options' = options
  BY DEF Call
<1>7. Quiet(t)' /\ HasMemory(t)'
  BY <1>1, <1>4, <1>5, <1>6 DEF Idle, Quiet, HasMemory, Registered
<1>8. Entering(t)'
  BY <1>3, <1>5, <1>7 DEF Entering
<1> QED
  BY <1>1, <1>6, <1>8 DEF ThreadOK

LEMMA EnterStep ==
  ASSUME Domains, NEW t \in Threads, ThreadOK(t), Enter(t)
  PROVE  ThreadOK(t)'
<1>1. Entering(t) /\ life[t] = "running"
  BY WhatIsNext DEF Enter, Does
<1>2. PICK rest : todo[t] = Do("enter") ++ rest /\ Runs(rest)
  BY <1>1 DEF Entering
<1>3. /\ frames' = frames /\ handler' = handler /\ errors' = errors
      /\ values' = values /\ life' = life /\ options' = options
  BY DEF Enter
<1>4. CASE Memory(mem[t], Null, Null) /\ Registered(t)
  <2> DEFINE x == Created(mem[t])
             c == [NoCall EXCEPT !.ctx = x]
             n == [Create(mem[t], mem[t].top) EXCEPT !.current = x]
  <2>1. mem[t].initialized = TRUE
    BY <1>4 DEF Memory, Uses
  <2>2. /\ mem'[t] = n
        /\ call'[t] = [call[t] EXCEPT !.ctx = x] /\ todo'[t] = Tail(todo[t])
    BY <2>1 DEF Enter, GoesOn, Domains
  <2>3. call'[t] = c /\ todo'[t] = rest
    <3>1. Tail(todo[t]) = rest
      BY <1>2, OneThenRest DEF Do, Runs
    <3> QED
      BY <1>1, <2>2, <3>1 DEF Entering
  <2>4. x \in Contexts /\ Memory(n, x, Null) /\ n.current = x /\ n.error \in Contexts
    BY <1>4, EnterMemory
  <2> HIDE DEF x, n
  <2>5. /\ c \in Calls /\ c.ctx = x /\ c.func = Null /\ c.error = FALSE /\ c.failed = FALSE
    BY <2>4 DEF NoCall, Calls, Pointers
  <2> HIDE DEF c
  <2>6. options[t] \in Settings /\ Excused(options[t])
    BY <1>1 DEF Entering, Quiet
  <2>7. Entered(options[t], c, x, n.error)
    BY <2>4, <2>5, <2>6, NullAssumption DEF Entered, Placed
  <2>8. Safe(rest, <<>>, Null, NoError, options[t], c, x, n.error)
    BY <1>2, <2>7 DEF Runs
  <2>9. frames[t] = <<>> /\ handler[t] = Null /\ errors[t] = NoError
    BY <1>1 DEF Entering, Quiet
  <2>10. Safe(todo'[t], frames'[t], handler'[t], errors'[t], options'[t], call'[t],
              mem'[t].current, mem'[t].error)
    BY <1>3, <2>2, <2>3, <2>4, <2>8, <2>9
  <2>11. Memory(mem'[t], call'[t].ctx, call'[t].func)
    BY <2>2, <2>3, <2>4, <2>5
  <2>12. InCall(t)'
    BY <1>3, <1>4, <2>10, <2>11 DEF InCall, Registered
  <2> QED
    BY <1>1, <1>3, <2>12 DEF ThreadOK
<1>5. CASE mem[t] = NoMemory /\ values[t] = {}
  <2>1. ~mem[t].initialized
    BY <1>5, NoMemoryIsPool
  <2>2. /\ mem'[t] = MemoryContextInit(NoMemory) /\ call' = call
        /\ todo'[t] = Do("create key") \o Do("set specific") \o todo[t]
    BY <1>5, <2>1 DEF Enter, Domains
  <2> DEFINE made == Do("create key")
             set == Do("set specific")
             enter == Do("enter")
  <2>3. IsSeq(made) /\ IsSeq(set) /\ IsSeq(enter) /\ IsSeq(rest)
    BY <1>2, DoIsSeq DEF Runs
  <2>4. todo'[t] = made ++ set ++ (enter ++ rest)
    BY <1>2, <2>2 DEF ++
  <2> HIDE DEF made, set, enter
  <2>5. todo'[t] = made ++ (set ++ (enter ++ rest))
    BY <2>3, <2>4, CatAssociative, CatIsSeq
  <2>6. Memory(mem'[t], Null, Null) /\ mem'[t].current = mem'[t].top
    BY <2>2, InitMemory
  <2>7. Starting(t)'
    BY <1>1, <1>3, <1>5, <2>2, <2>6 DEF Starting, Entering, Quiet
  <2>8. MakingKey(t)'
    BY <1>2, <2>5, <2>7 DEF MakingKey, made, set, enter
  <2> QED
    BY <1>1, <1>3, <2>8 DEF ThreadOK
<1> QED
  BY <1>1, <1>4, <1>5 DEF Entering, HasMemory

LEMMA CreateKeyStep ==
  ASSUME Domains, KeysOK, NEW t \in Threads, ThreadOK(t), CreateKey(t)
  PROVE  ThreadOK(t)' /\ KeysOK' /\ threadKey' # 0
<1>1. MakingKey(t) /\ life[t] = "running"
  BY WhatIsNext DEF CreateKey, Does
<1>2. KeysOK' /\ threadKey' # 0
  <2>1. /\ keys \in Int /\ 0 <= keys /\ keys <= MaxKeys /\ MaxKeys \in Nat /\ MaxKeys # 0
        /\ keys = MaxKeys => threadKey = keys
    BY LimitsAssumption DEF KeysOK
  <2>2. CASE keys < MaxKeys
    <3>1. keys' = keys + 1 /\ threadKey' = keys + 1
      BY <2>2 DEF CreateKey
    <3> QED
      BY <2>1, <2>2, <3>1 DEF KeysOK
  <2>3. CASE ~(keys < MaxKeys)
    <3>1. keys' = keys /\ threadKey' = threadKey
      BY <2>3 DEF CreateKey
    <3>2. keys = MaxKeys /\ threadKey # 0
      BY <2>1, <2>3
    <3>3. KeysOK'
      BY <3>1 DEF KeysOK
    <3> QED
      BY <3>1, <3>2, <3>3
  <2> QED
    BY <2>2, <2>3
<1>3. PICK rest : /\ todo[t] = Do("create key") ++ (Do("set specific") ++ (Do("enter") ++ rest))
                  /\ Runs(rest)
  BY <1>1 DEF MakingKey
<1>4. todo'[t] = Do("set specific") ++ (Do("enter") ++ rest)
  <2> DEFINE next == Do("set specific") ++ (Do("enter") ++ rest)
  <2>1. IsSeq(next)
    BY <1>3, DoIsSeq DEF Runs
  <2>2. Tail(todo[t]) = next
    <3> HIDE DEF next
    <3>1. Tail(Do("create key") ++ next) = next
      BY <2>1, OneThenRest DEF Do
    <3> QED
      BY <1>3, <3>1 DEF next
  <2>3. todo'[t] = Tail(todo[t])
    BY DEF CreateKey, GoesOn, Domains
  <2> QED
    BY <2>2, <2>3
<1>5. /\ frames' = frames /\ handler' = handler /\ errors' = errors /\ mem' = mem
      /\ values' = values /\ life' = life /\ options' = options /\ call' = call
  BY DEF CreateKey
<1>6. Starting(t)'
  BY <1>1, <1>5 DEF MakingKey, Starting, Quiet
<1>7. UsingKey(t)'
  BY <1>2, <1>3, <1>4, <1>6 DEF UsingKey
<1> QED
  BY <1>1, <1>2, <1>5, <1>7 DEF ThreadOK

LEMMA SetSpecificStep ==
  ASSUME Domains, KeysOK, NEW t \in Threads, ThreadOK(t), SetSpecific(t)
  PROVE  ThreadOK(t)'
<1>1. UsingKey(t) /\ life[t] = "running"
  BY WhatIsNext DEF SetSpecific, Does
<1>2. PICK rest : todo[t] = Do("set specific") ++ (Do("enter") ++ rest) /\ Runs(rest)
  BY <1>1 DEF UsingKey
<1>3. todo'[t] = Do("enter") ++ rest
  <2> DEFINE next == Do("enter") ++ rest
  <2>1. IsSeq(next)
    BY <1>2, DoIsSeq DEF Runs
  <2>2. Tail(todo[t]) = next
    <3> HIDE DEF next
    <3>1. Tail(Do("set specific") ++ next) = next
      BY <2>1, OneThenRest DEF Do
    <3> QED
      BY <1>2, <3>1 DEF next
  <2>3. todo'[t] = Tail(todo[t])
    BY DEF SetSpecific, GoesOn, Domains
  <2> QED
    BY <2>2, <2>3
<1>4. /\ frames' = frames /\ handler' = handler /\ errors' = errors /\ mem' = mem
      /\ life' = life /\ options' = options /\ call' = call
  BY DEF SetSpecific
<1>5. values'[t] = {threadKey} /\ threadKey \in 1..MaxKeys
  <2>1. values'[t] = values[t] \cup {threadKey}
    BY DEF SetSpecific, Domains
  <2>2. values[t] = {} /\ threadKey # 0
    BY <1>1 DEF UsingKey, Starting
  <2>3. threadKey \in 1..MaxKeys
    BY <2>2, LimitsAssumption DEF KeysOK
  <2> QED
    BY <2>1, <2>2, <2>3
<1>6. Registered(t)'
  BY <1>5 DEF Registered
<1>7. Quiet(t)' /\ HasMemory(t)' /\ call'[t] = NoCall
  BY <1>1, <1>4, <1>6 DEF UsingKey, Starting, Quiet, HasMemory
<1>8. Entering(t)'
  BY <1>2, <1>3, <1>7 DEF Entering
<1> QED
  BY <1>1, <1>4, <1>8 DEF ThreadOK

LEMMA ThreadExitStep ==
  ASSUME Domains, NEW t \in Threads, ThreadOK(t), ThreadExit(t)
  PROVE  ThreadOK(t)'
<1>1. Idle(t) /\ life[t] = "running"
  BY WhatIsNext DEF ThreadExit
<1>2. /\ frames' = frames /\ handler' = handler /\ errors' = errors
      /\ options' = options /\ call' = call /\ todo' = todo
      /\ values'[t] = {}
      /\ life'[t] = IF Cardinality(values[t]) > 1 THEN "lost" ELSE "ended"
  BY DEF ThreadExit, Domains
<1>3. MemoryOK(mem'[t]) /\ mem'[t].malloced = {} /\ Cardinality(values[t]) \in {0, 1}
  <2>1. CASE mem[t] = NoMemory /\ values[t] = {}
    <3>1. mem'[t] = NoMemory
      BY <2>1 DEF ThreadExit
    <3>2. NoMemory.parent \in [Contexts -> Pointers] /\ Len(NoMemory.free) <= MaxFree
      BY NoMemoryIsPool DEF Pool, Memories
    <3>3. MemoryOK(NoMemory)
      BY <3>2, NoMemoryIsPool DEF MemoryOK, Pointers
    <3> QED
      BY <2>1, <3>1, <3>3, NoMemoryIsPool, FS_EmptySet
  <2>2. CASE Memory(mem[t], Null, Null) /\ Registered(t)
    <3>1. Cardinality(values[t]) = 1 /\ values[t] # {}
      BY <2>2, FS_Singleton DEF Registered
    <3>2. mem'[t] = FreeTop(mem[t])
      BY <3>1 DEF ThreadExit, Domains
    <3> QED
      BY <2>2, <3>1, <3>2, FreeTopMemory
  <2> QED
    BY <1>1, <2>1, <2>2 DEF Idle, HasMemory
<1>4. life'[t] = "ended"
  BY <1>2, <1>3
<1>5. Over(t)'
  BY <1>1, <1>2, <1>3 DEF Over, Idle, Quiet
<1> QED
  BY <1>4, <1>5 DEF ThreadOK

LEMMA PgQueryExitStep ==
  ASSUME Domains, NEW t \in Threads, ThreadOK(t), PgQueryExit(t)
  PROVE  ThreadOK(t)'
<1>1. Idle(t) /\ life[t] = "running"
  BY WhatIsNext DEF PgQueryExit
<1>2. /\ frames' = frames /\ handler' = handler /\ errors' = errors
      /\ options' = options /\ call' = call /\ todo' = todo /\ values' = values
      /\ life'[t] = "exited" /\ mem'[t] = FreeTop(mem[t])
  BY DEF PgQueryExit, Domains
<1>3. Memory(mem[t], Null, Null) /\ Registered(t)
  <2>1. ~(mem[t] = NoMemory)
    BY NoMemoryIsPool DEF PgQueryExit
  <2> QED
    BY <1>1, <2>1 DEF Idle, HasMemory
<1>4. MemoryOK(mem'[t]) /\ mem'[t].malloced = {}
  BY <1>2, <1>3, FreeTopMemory
<1>5. values'[t] \subseteq 1..MaxKeys
  BY <1>2, <1>3 DEF Registered
<1>6. Over(t)'
  BY <1>1, <1>2, <1>4, <1>5 DEF Over, Idle, Quiet
<1> QED
  BY <1>2, <1>6 DEF ThreadOK

\* A thread does nothing to another; only UsingKey depends on what they share.
LEMMA OthersStay ==
  ASSUME NEW u \in Threads, ThreadOK(u), threadKey # 0 => threadKey' # 0,
         life'[u] = life[u], values'[u] = values[u], mem'[u] = mem[u],
         frames'[u] = frames[u], handler'[u] = handler[u], errors'[u] = errors[u],
         options'[u] = options[u], call'[u] = call[u], todo'[u] = todo[u]
  PROVE  ThreadOK(u)'
<1>1. Quiet(u) => Quiet(u)'
  BY DEF Quiet
<1>2. HasMemory(u) => HasMemory(u)'
  BY DEF HasMemory, Registered
<1>3. Idle(u) => Idle(u)'
  BY <1>1, <1>2 DEF Idle
<1>4. Entering(u) => Entering(u)'
  BY <1>1, <1>2 DEF Entering
<1>5. Starting(u) => Starting(u)'
  BY <1>1 DEF Starting
<1>6. MakingKey(u) => MakingKey(u)'
  BY <1>5 DEF MakingKey
<1>7. UsingKey(u) => UsingKey(u)'
  BY <1>5 DEF UsingKey
<1>8. InCall(u) => InCall(u)'
  BY DEF InCall, Registered
<1>9. Over(u) => Over(u)'
  BY DEF Over
<1> QED
  BY <1>3, <1>4, <1>6, <1>7, <1>8, <1>9 DEF ThreadOK

\* What a step of a thread leaves alone.
LEMMA OnlyOne ==
  ASSUME Domains, NEW t \in Threads, Step(t)
  PROVE  /\ Domains'
         /\ \A u \in Threads \ {t} :
              /\ life'[u] = life[u] /\ values'[u] = values[u] /\ mem'[u] = mem[u]
              /\ frames'[u] = frames[u] /\ handler'[u] = handler[u]
              /\ errors'[u] = errors[u] /\ options'[u] = options[u]
              /\ call'[u] = call[u] /\ todo'[u] = todo[u]
         /\ UNCHANGED <<threadKey, keys>> \/ CreateKey(t)
<1> DEFINE Changes ==
             /\ Domains'
             /\ \A u \in Threads \ {t} :
                  /\ life'[u] = life[u] /\ values'[u] = values[u] /\ mem'[u] = mem[u]
                  /\ frames'[u] = frames[u] /\ handler'[u] = handler[u]
                  /\ errors'[u] = errors[u] /\ options'[u] = options[u]
                  /\ call'[u] = call[u] /\ todo'[u] = todo[u]
             /\ UNCHANGED <<threadKey, keys>> \/ CreateKey(t)
<1>1. ASSUME Call(t) PROVE Changes
  BY <1>1 DEF Call, Domains
<1>2. ASSUME Enter(t) PROVE Changes
  <2>1. CASE mem[t].initialized
    BY <1>2, <2>1 DEF Enter, GoesOn, Domains
  <2>2. CASE ~mem[t].initialized
    BY <1>2, <2>2 DEF Enter, Domains
  <2> QED
    BY <2>1, <2>2
<1>3. ASSUME CreateKey(t) PROVE Changes
  BY <1>3 DEF CreateKey, GoesOn, Domains
<1>4. ASSUME SetSpecific(t) PROVE Changes
  BY <1>4 DEF SetSpecific, GoesOn, Domains
<1>5. ASSUME PgTry(t) PROVE Changes
  BY <1>5 DEF PgTry, Domains
<1>6. ASSUME PgEndTry(t) PROVE Changes
  BY <1>6 DEF PgEndTry, GoesOn, Domains
<1>7. ASSUME ReturnFromTry(t) PROVE Changes
  BY <1>7 DEF ReturnFromTry, GoesOn, Domains
<1>8. ASSUME Throw(t), UNCHANGED <<threadKey, keys, values>>
      PROVE  /\ DOMAIN life' = Threads /\ DOMAIN mem' = Threads /\ DOMAIN frames' = Threads
             /\ DOMAIN handler' = Threads /\ DOMAIN errors' = Threads
             /\ DOMAIN todo' = Threads
             /\ \A u \in Threads \ {t} :
                  /\ life'[u] = life[u] /\ mem'[u] = mem[u]
                  /\ frames'[u] = frames[u] /\ handler'[u] = handler[u]
                  /\ errors'[u] = errors[u] /\ todo'[u] = todo[u]
  BY <1>8 DEF Throw, Domains
<1>9. ASSUME Work(t) PROVE Changes
  <2>1. UNCHANGED <<threadKey, keys, values>>
    BY <1>9 DEF Work
  <2>2. CASE GoesOn(t) /\ UNCHANGED <<life, mem, frames, handler, errors, options, call>>
    BY <2>1, <2>2 DEF GoesOn, Domains
  <2>3. CASE /\ Throw(t)
             /\ call' = [call EXCEPT ![t].failed = TRUE]
             /\ options' = [options EXCEPT ![t].failed =
                               IF Does(t, "parse") /\ call[t].sets THEN TRUE ELSE @]
    BY <1>8, <2>1, <2>3 DEF Domains
  <2> QED
    BY <1>9, <2>2, <2>3 DEF Work
<1>10. ASSUME UnknownNode(t) PROVE Changes
  BY <1>8, <1>10 DEF UnknownNode, Domains
<1>11. ASSUME SetOptions(t) PROVE Changes
  BY <1>11 DEF SetOptions, GoesOn, Domains
<1>12. ASSUME SwitchBack(t) PROVE Changes
  BY <1>12 DEF SwitchBack, GoesOn, Domains
<1>13. ASSUME CopyErrorData(t) PROVE Changes
  BY <1>13 DEF CopyErrorData, GoesOn, Domains
<1>14. ASSUME FlushErrorState(t) PROVE Changes
  BY <1>14 DEF FlushErrorState, GoesOn, Domains
<1>15. ASSUME NewFunction(t) PROVE Changes
  BY <1>15 DEF NewFunction, GoesOn, Domains
<1>16. ASSUME FunctionDone(t) PROVE Changes
  BY <1>16 DEF FunctionDone, GoesOn, Domains
<1>17. ASSUME FreeFunction(t) PROVE Changes
  BY <1>17 DEF FreeFunction, GoesOn, Domains
<1>18. ASSUME ExitIfError(t) PROVE Changes
  BY <1>18 DEF ExitIfError, Domains
<1>19. ASSUME Exit(t) PROVE Changes
  BY <1>19 DEF Exit, Domains
<1>20. ASSUME ThreadExit(t) PROVE Changes
  <2>1. DOMAIN mem' = Threads /\ \A u \in Threads \ {t} : mem'[u] = mem[u]
    BY <1>20 DEF ThreadExit, Domains
  <2> QED
    BY <1>20, <2>1 DEF ThreadExit, Domains
<1>21. ASSUME PgQueryExit(t) PROVE Changes
  BY <1>21 DEF PgQueryExit, Domains
<1> HIDE DEF Changes
<1>22. Changes
  BY <1>1, <1>2, <1>3, <1>4, <1>5, <1>6, <1>7, <1>9, <1>10, <1>11, <1>12, <1>13,
     <1>14, <1>15, <1>16, <1>17, <1>18, <1>19, <1>20, <1>21 DEF Step
<1> QED
  BY <1>22 DEF Changes

LEMMA InitEstablishesIInv == Init => IInv
<1> SUFFICES ASSUME Init
             PROVE  IInv
  OBVIOUS
<1>1. Domains
  BY DEF Init, Domains
<1>2. KeysOK
  BY LimitsAssumption DEF Init, KeysOK
<1>3. ASSUME NEW t \in Threads
      PROVE  ThreadOK(t)
  <2>1. /\ life[t] = "running" /\ values[t] = {} /\ mem[t] = NoMemory /\ frames[t] = <<>>
        /\ handler[t] = Null /\ errors[t] = NoError /\ call[t] = NoCall /\ todo[t] = <<>>
        /\ options[t] = Defaults
    BY DEF Init, NoError, Defaults
  <2>2. /\ NoCall \in Calls /\ NoCall.ctx = Null /\ NoCall.func = Null
        /\ NoCall.error = NoCall.failed
    BY DEF NoCall, Calls, Pointers
  <2>3. Defaults \in Settings /\ Excused(Defaults)
    BY DEF Defaults, Settings, Excused
  <2>4. Quiet(t) /\ HasMemory(t)
    BY <2>1, <2>2, <2>3, NoMemoryIsPool DEF Quiet, HasMemory
  <2>5. Idle(t)
    BY <2>1, <2>2, <2>4 DEF Idle
  <2> QED
    BY <2>1, <2>5 DEF ThreadOK
<1> QED
  BY <1>1, <1>2, <1>3 DEF IInv

LEMMA StepKeepsThread ==
  ASSUME Domains, KeysOK, NEW t \in Threads, ThreadOK(t), Step(t)
  PROVE  ThreadOK(t)'
<1>1. CASE Call(t) \/ Enter(t) \/ CreateKey(t) \/ SetSpecific(t)
  BY <1>1, CallStep, EnterStep, CreateKeyStep, SetSpecificStep
<1>2. CASE PgTry(t) \/ PgEndTry(t) \/ ReturnFromTry(t)
  BY <1>2, PgTryStep, PgEndTryStep, ReturnFromTryStep
<1>3. CASE Work(t) \/ UnknownNode(t) \/ SetOptions(t)
  BY <1>3, WorkStep, UnknownNodeStep, SetOptionsStep
<1>4. CASE SwitchBack(t) \/ CopyErrorData(t) \/ FlushErrorState(t)
  BY <1>4, SwitchBackStep, CopyErrorDataStep, FlushErrorStateStep
<1>5. CASE NewFunction(t) \/ FunctionDone(t) \/ FreeFunction(t)
  BY <1>5, NewFunctionStep, FunctionDoneStep, FreeFunctionStep
<1>6. CASE ExitIfError(t) \/ Exit(t) \/ ThreadExit(t) \/ PgQueryExit(t)
  BY <1>6, ExitIfErrorStep, ExitStep, ThreadExitStep, PgQueryExitStep
<1> QED
  BY <1>1, <1>2, <1>3, <1>4, <1>5, <1>6 DEF Step

LEMMA StepKeepsIInv == IInv /\ [Next]_vars => IInv'
<1> SUFFICES ASSUME IInv, [Next]_vars
             PROVE  IInv'
  OBVIOUS
<1>1. Domains /\ KeysOK /\ \A u \in Threads : ThreadOK(u)
  BY DEF IInv
<1>2. ASSUME NEW t \in Threads, Step(t)
      PROVE  IInv'
  <2>1. ThreadOK(t)'
    BY <1>1, <1>2, StepKeepsThread
  <2>2. /\ Domains'
        /\ \A u \in Threads \ {t} :
             /\ life'[u] = life[u] /\ values'[u] = values[u] /\ mem'[u] = mem[u]
             /\ frames'[u] = frames[u] /\ handler'[u] = handler[u]
             /\ errors'[u] = errors[u] /\ options'[u] = options[u]
             /\ call'[u] = call[u] /\ todo'[u] = todo[u]
        /\ UNCHANGED <<threadKey, keys>> \/ CreateKey(t)
    BY <1>1, <1>2, OnlyOne
  <2>3. KeysOK' /\ (threadKey # 0 => threadKey' # 0)
    <3>1. CASE UNCHANGED <<threadKey, keys>>
      BY <1>1, <3>1 DEF KeysOK
    <3>2. CASE CreateKey(t)
      BY <1>1, <3>2, CreateKeyStep
    <3> QED
      BY <2>2, <3>1, <3>2
  <2>4. ASSUME NEW u \in Threads
        PROVE  ThreadOK(u)'
    <3>1. CASE u = t
      BY <2>1, <3>1
    <3>2. CASE u # t
      BY <1>1, <2>2, <2>3, <3>2, OthersStay
    <3> QED
      BY <3>1, <3>2
  <2> QED
    BY <2>2, <2>3, <2>4 DEF IInv
<1>3. CASE UNCHANGED vars
  <2>1. Domains' /\ KeysOK' /\ (threadKey # 0 => threadKey' # 0)
    BY <1>1, <1>3 DEF vars, perThread, Domains, KeysOK
  <2>2. ASSUME NEW u \in Threads
        PROVE  ThreadOK(u)'
    BY <1>1, <1>3, <2>1, OthersStay DEF vars, perThread
  <2> QED
    BY <2>1, <2>2 DEF IInv
<1> QED
  BY <1>2, <1>3 DEF Next, AllGone

LEMMA Invariance == Spec => []IInv
BY InitEstablishesIInv, StepKeepsIInv, PTL DEF Spec

-----------------------------------------------------------------------------
(***************************************************************************)
(* What the invariant says                                                 *)
(***************************************************************************)

LEMMA WhereThreadsAre ==
  ASSUME IInv, NEW t \in Threads
  PROVE  /\ life[t] # "lost" /\ life[t] \in {"running", "exited", "ended"}
         /\ todo[t] = <<>> =>
              (life[t] = "running" /\ Idle(t)) \/ (life[t] # "running" /\ Over(t))
         /\ life[t] # "running" => Over(t)
         /\ life[t] = "running" =>
              \/ Quiet(t) /\ mem[t] = NoMemory /\ values[t] = {}
              \/ Quiet(t) /\ Memory(mem[t], Null, Null) /\ (values[t] = {} \/ Registered(t))
              \/ InCall(t)
<1>1. ThreadOK(t)
  BY DEF IInv
<1>2. life[t] = "running" /\ todo[t] = <<>> => Idle(t)
  BY <1>1, WhatIsNext
<1>3. /\ Idle(t) => Quiet(t) /\ HasMemory(t)
      /\ Entering(t) => Quiet(t) /\ HasMemory(t)
      /\ MakingKey(t) => Quiet(t) /\ Memory(mem[t], Null, Null) /\ values[t] = {}
      /\ UsingKey(t) => Quiet(t) /\ Memory(mem[t], Null, Null) /\ values[t] = {}
  BY DEF Idle, Entering, MakingKey, UsingKey, Starting
<1> QED
  BY <1>1, <1>2, <1>3 DEF ThreadOK, HasMemory

LEMMA UsedMemoryIsOK ==
  ASSUME NEW m, NEW ctx, NEW func, Memory(m, ctx, func)
  PROVE  MemoryOK(m)
<1>1. m.current \in Pointers
  BY DEF Memory, Uses, Pool, Memories, Pointers
<1> QED
  BY <1>1 DEF Memory, Uses, Pool, Memories, MemoryOK, Pointers

LEMMA NoMemoryIsOK == MemoryOK(NoMemory)
<1>1. NoMemory.parent \in [Contexts -> Pointers] /\ Len(NoMemory.free) <= MaxFree
  BY NoMemoryIsPool DEF Pool, Memories
<1> QED
  BY <1>1, NoMemoryIsPool DEF MemoryOK, Pointers

LEMMA TypesAreOK == IInv => TypeOK
<1> SUFFICES ASSUME IInv
             PROVE  TypeOK
  OBVIOUS
<1>1. threadKey \in 0..keys /\ keys \in 0..MaxKeys
  BY DEF IInv, KeysOK
<1>2. NoError.depth \in 0..5 /\ Error.depth \in 0..5
  BY DEF NoError, Error
<1>3. ASSUME NEW t \in Threads
      PROVE  /\ life[t] \in {"running", "exited", "ended", "lost"}
             /\ values[t] \subseteq 1..MaxKeys /\ MemoryOK(mem[t])
             /\ handler[t] \in Frames \cup {Null} /\ errors[t].depth \in 0..5
  <2>1. life[t] \in {"running", "exited", "ended", "lost"}
    BY WhereThreadsAre
  <2>2. Registered(t) => values[t] \subseteq 1..MaxKeys
    BY DEF Registered
  <2>3. CASE life[t] # "running"
    BY <1>2, <2>1, <2>3, WhereThreadsAre DEF Over
  <2>4. CASE life[t] = "running" /\ Quiet(t) /\ mem[t] = NoMemory /\ values[t] = {}
    BY <1>2, <2>1, <2>4, NoMemoryIsOK DEF Quiet
  <2>5. CASE /\ life[t] = "running" /\ Quiet(t) /\ Memory(mem[t], Null, Null)
             /\ values[t] = {} \/ Registered(t)
    BY <1>2, <2>1, <2>2, <2>5, UsedMemoryIsOK DEF Quiet
  <2>6. CASE life[t] = "running" /\ InCall(t)
    <3>1. MemoryOK(mem[t])
      BY <2>6, UsedMemoryIsOK DEF InCall
    <3>2. Fine(todo[t], frames[t], handler[t], errors[t], options[t], call[t],
               mem[t].current, mem[t].error)
      BY <2>6, SafeIsFine DEF InCall
    <3>3. handler[t] \in Frames \cup {Null} /\ errors[t] \in {NoError, Error}
      BY <3>2 DEF Fine, Placed
    <3> QED
      BY <1>2, <2>1, <2>2, <2>6, <3>1, <3>3 DEF InCall
  <2> QED
    BY <2>3, <2>4, <2>5, <2>6, WhereThreadsAre
<1> QED
  BY <1>1, <1>3 DEF TypeOK

\* Whatever calls the threads make and wherever an error takes one, its contexts
\* are a tree below the top context, none is in use twice or on the freelist as
\* well, and the one memory is taken from is in use.
THEOREM PointersStayLive == Spec => []PointersAreLive
<1>1. IInv => PointersAreLive
  <2> SUFFICES ASSUME IInv
               PROVE  PointersAreLive
    OBVIOUS
  <2>1. ASSUME NEW t \in Threads, NEW ctx, NEW func, Memory(mem[t], ctx, func),
               call[t].ctx = ctx
        PROVE  LET m == mem[t] IN
               /\ {m.top, m.error, m.current} \subseteq m.live
               /\ m.live \cup Range(m.free) \subseteq m.malloced
               /\ m.live \cap Range(m.free) = {}
               /\ IsInjective(m.free)
               /\ \A c \in m.live \ {m.top} : m.parent[c] \in m.live
               /\ call[t].ctx = Null \/ call[t].ctx \in m.live
    <3> DEFINE m == mem[t]
    <3>1. Uses(m, ctx, func) /\ m.current \in m.live
      BY <2>1 DEF Memory
    <3>2. Pool(m)
      BY <3>1 DEF Uses
    <3> HIDE DEF m
    <3>3. {m.top, m.error, m.current} \subseteq m.live
      BY <3>1, NullAssumption DEF Uses
    <3>4. ctx = Null \/ ctx \in m.live
      BY <3>1 DEF Uses
    <3>5. \A c \in m.live \ {m.top} : m.parent[c] \in m.live
      BY <3>1, <3>3, <3>4 DEF Uses
    <3>6. /\ m.live \cup Range(m.free) \subseteq m.malloced
          /\ m.live \cap Range(m.free) = {} /\ IsInjective(m.free)
      BY <3>2 DEF Pool
    <3> QED
      BY <2>1, <3>3, <3>4, <3>5, <3>6 DEF m
  <2>2. ASSUME NEW t \in Threads, life[t] = "running", mem[t].initialized
        PROVE  \E ctx, func : Memory(mem[t], ctx, func) /\ call[t].ctx = ctx
    <3>1. mem[t] # NoMemory
      BY <2>2, NoMemoryIsPool
    <3> QED
      BY <2>2, <3>1, WhereThreadsAre DEF Quiet, InCall
  <2> QED
    BY <2>1, <2>2, TypesAreOK DEF PointersAreLive
<1> QED
  BY <1>1, Invariance, PTL

\* However a call ends, its context, those of its functions, its handlers and its
\* errors are gone, and the thread is back in the top context.
THEOREM NothingIsLeft == Spec => []CallsLeaveNothing
<1>1. IInv => CallsLeaveNothing
  <2> SUFFICES ASSUME IInv, NEW t \in Threads, life[t] = "running", todo[t] = <<>>
               PROVE  /\ mem[t].live = {mem[t].top, mem[t].error} \ {Null}
                      /\ mem[t].current = mem[t].top
                      /\ handler[t] = Null /\ frames[t] = <<>>
                      /\ errors[t] = [depth |-> 0, data |-> FALSE]
    BY DEF CallsLeaveNothing, Calling
  <2>1. Idle(t)
    BY WhereThreadsAre
  <2>2. mem[t].live = {mem[t].top, mem[t].error} \ {Null}
    <3>1. CASE mem[t] = NoMemory
      BY <3>1, NoMemoryIsPool
    <3>2. CASE Memory(mem[t], Null, Null)
      BY <3>2, NullAssumption DEF Memory, Uses
    <3> QED
      BY <2>1, <3>1, <3>2 DEF Idle, HasMemory
  <2> QED
    BY <2>1, <2>2 DEF Idle, Quiet, NoError
<1> QED
  BY <1>1, Invariance, PTL

\* No error is thrown where nothing catches it: PG_exception_stack is never left
\* pointing to a PG_TRY whose function has returned when there is an error, and a
\* thread that ends frees its top context once.
THEOREM ErrorsAlwaysReachHandlers == Spec => []ErrorsReachHandlers
<1>1. IInv => ErrorsReachHandlers
  BY WhereThreadsAre DEF ErrorsReachHandlers
<1> QED
  BY <1>1, Invariance, PTL

\* A call whose parsing or compiling failed returns an error, and no other does.
THEOREM ErrorsAreAlwaysReturned == Spec => []ErrorsAreReturned
<1>1. IInv => ErrorsAreReturned
  BY WhereThreadsAre DEF ErrorsAreReturned, Calling, Idle, Over
<1> QED
  BY <1>1, Invariance, PTL

\* Whatever the order in which threads make and overwrite the key, one that has
\* ended or called pg_query_exit keeps no context.
THEOREM ThreadsAlwaysFreeEverything == Spec => []ThreadsFreeEverything
<1>1. IInv => ThreadsFreeEverything
  BY WhereThreadsAre DEF ThreadsFreeEverything, Over
<1> QED
  BY <1>1, Invariance, PTL

\* Options other than the default ones last only after a parse that failed.
THEOREM OptionsAreAlwaysSetBack == Spec => []OptionsAreSetBack
<1>1. IInv => OptionsAreSetBack
  BY WhereThreadsAre DEF OptionsAreSetBack, Calling, Idle, Quiet, Over, Excused
<1> QED
  BY <1>1, Invariance, PTL
=============================================================================
