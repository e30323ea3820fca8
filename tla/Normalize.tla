----------------------------- MODULE Normalize -----------------------------
(***************************************************************************)
(* pg_query_normalize on a SELECT or UPDATE: the tree is walked clause by    *)
(* clause and the places of the constants are recorded with the numbers of  *)
(* the params to replace them; the text is scanned for their lengths; then  *)
(* the text is copied with the params in.                                   *)
(*                                                                         *)
(* A query is the sequence of its clauses in the order of the text.  A       *)
(* clause is an item of a list, or a whole clause: its name and operands     *)
(* joined by an operator.  Operands are named by how they are written.       *)
(***************************************************************************)
EXTENDS Scanner, SequencesExt, FiniteSets

CONSTANTS
  Queries,  \* the queries to normalize
  Null      \* a null pointer

Clauses == {"with", "set", "target", "where", "group", "sort", "limit"}

\* How the operands are written: a constant, negative ones with and without
\* something after the sign (a comment in "-comment_5"), one that is not in the
\* text (FETCH FIRST ROW is FETCH FIRST 1 ROW), two params, a column, the calls
\* f(5, a) and f(a), the nested SELECT (SELECT 5), the string U&'x' UESCAPE '!',
\* and the cast 5::t(5), whose second 5 modifies the type.
Written ==
  [o \in {"5", "'x'", "-5", "-(5)", "-comment_5", "row", "$1", "$2", "a", "f(5_a)",
          "f(a)", "(select_5)", "u'x'_uescape", "5::t(5)"} |->
     CASE o = "5"      -> <<"ICONST">>
       [] o = "'x'"    -> <<"SCONST">>
       [] o = "-5"     -> <<"-", "ICONST">>
       [] o = "-(5)"   -> <<"-", "(", "ICONST", ")">>
       [] o = "-comment_5" -> <<"-", "SQL_COMMENT", "ICONST">>
       [] o = "row"    -> <<"ROW">>
       [] o \in {"$1", "$2"} -> <<"PARAM">>
       [] o = "a"      -> <<"IDENT">>
       [] o = "f(5_a)" -> <<"IDENT", "(", "ICONST", "COMMA", "IDENT", ")">>
       [] o = "f(a)"   -> <<"IDENT", "(", "IDENT", ")">>
       [] o = "(select_5)" -> <<"(", "SELECT", "ICONST", ")">>
       [] o = "u'x'_uescape" -> <<"USCONST", "UESCAPE", "SCONST">>
       [] o = "5::t(5)" -> <<"ICONST", "TYPECAST", "IDENT", "(", "ICONST", ")">>]
Operands == DOMAIN Written

\* Where an operand has a constant, and how many tokens that is.  The modifier of
\* a type is none: the walker leaves it as it is.
ConstantIn ==
  [o \in {"5", "'x'", "-5", "-(5)", "-comment_5", "f(5_a)", "(select_5)",
          "u'x'_uescape", "5::t(5)"} |->
     CASE o \in {"f(5_a)", "(select_5)"} -> [offset |-> 2, tokens |-> 1]
       [] o = "5::t(5)" -> [offset |-> 0, tokens |-> 1]
       [] OTHER -> [offset |-> 0, tokens |-> Len(Written[o])]]
HasConstant(o) == o \in DOMAIN ConstantIn

\* The A_Const is an Integer, negative or not.
IsInteger(o) == o \in {"5", "-5", "-(5)", "-comment_5"}
ParamNumber(o) == IF o = "$1" THEN 1 ELSE 2

\* The grammar has the targets before GROUP BY.
IsQuery(q) ==
  /\ q \in Seq([name : Clauses, operands : Seq(Operands)])
  /\ \A c, d \in 1..Len(q) : q[c].name = "target" /\ q[d].name = "group" => c < d

ASSUME QueriesAssumption == \A q \in Queries : IsQuery(q)
ASSUME NullAssumption == Null \notin Seq(Int)

VARIABLES
  query,   \* the query
  text,    \* its text
  pc,      \* "walk", "lengths", "generate", "done"
  todo,    \* clauses the walker has not come to yet
  walker,  \* where it is: the clause, 0 between two of them, the operand it
           \* comes to next, and which of the columns of SET has the clause
  js,      \* pgssConstLocations: clocations, highest_normalize_param_id,
           \* highest_extern_param_id, param_refs
  targets, \* fp_and_param_refs_list
  group,   \* fppr and prev_cloc_count for the GROUP BY item being walked
  flex,    \* the scanner that looks for the lengths
  i,       \* constant that is looked for, or copied
  lastLoc, \* last_loc
  norm     \* norm_query, quer_loc, last_off, last_tok_len

vars == <<query, text, pc, todo, walker, js, targets, group, flex, i, lastLoc, norm>>

-----------------------------------------------------------------------------
(***************************************************************************)
(* The text of a query and what the tree of it has                         *)
(***************************************************************************)

\* Where the n-th of some pieces of a text starts.
StartOf(pieces, n) == Len(FlattenSeq(SubSeq(pieces, 1, n - 1)))

\* The operands of a clause with operators between them, the clause with its
\* word, the query.
OperandPieces(c) ==
  [k \in 1..Len(c.operands) |->
     (IF k = 1 THEN <<>> ELSE <<"+">>) \o Written[c.operands[k]]]
ClausePieces(q) ==
  [c \in 1..Len(q) |-> <<q[c].name>> \o FlattenSeq(OperandPieces(q[c]))]

\* Tokens touch one another, so that places can be counted in tokens.
TextOf(q) ==
  LET kinds == FlattenSeq(ClausePieces(q))
  IN  [p \in 1..Len(kinds) |-> [kind |-> kinds[p], at |-> p - 1]]

\* Where the constant of operand k of clause c is.
PlaceOf(q, c, k) ==
  StartOf(ClausePieces(q), c) + 1 + StartOf(OperandPieces(q[c]), k)
    + (IF k = 1 THEN 0 ELSE 1) + ConstantIn[q[c].operands[k]].offset

\* The constants of the tree.
ConstantsOf(q) ==
  UNION {{[clause |-> c, operand |-> k, at |-> PlaceOf(q, c, k),
           tokens |-> ConstantIn[q[c].operands[k]].tokens] :
            k \in {k \in 1..Len(q[c].operands) : HasConstant(q[c].operands[k])}} :
           c \in 1..Len(q)}

\* pg_query_fingerprint_node ignores constants and params, and the order and
\* number of a call's arguments.
Fingerprint(operands) ==
  [k \in 1..Len(operands) |->
     CASE operands[k] \in {"5", "'x'", "-5", "-(5)", "-comment_5", "u'x'_uescape",
                           "$1", "$2"} -> "?"
       [] operands[k] = "f(5_a)" -> "f(a)"
       [] OTHER -> operands[k]]

\* GROUP BY 1 and ORDER BY 1 are not walked.
IsOrdinal(c) ==
  c.name \in {"group", "sort"} /\ Len(c.operands) = 1 /\ IsInteger(c.operands[1])

-----------------------------------------------------------------------------
Between == [clause |-> 0, operand |-> 1, column |-> 1]

Init ==
  /\ query \in Queries
  /\ text = TextOf(query)
  /\ pc = "walk"
  /\ todo = 1..Len(query)
  /\ walker = Between
  /\ js = [clocations |-> <<>>, highest |-> 1, extern |-> 0, refs |-> Null]
  /\ targets = <<>>
  /\ group = [matched |-> Null, count |-> 0]
  /\ flex = ScannerInit(text)
  /\ i = 1
  /\ lastLoc = -1
  /\ norm = [query |-> <<>>, loc |-> 0, off |-> 0, len |-> 0]

\* param_refs, which are recorded only while a target is walked.
Recorded(refs, id) == IF refs = Null THEN Null ELSE Append(refs, id)

\* A location of -1 is unknown, and not recorded.
RecordConstLocation(j, location) ==
  IF location < 0 THEN j
  ELSE [j EXCEPT !.clocations = Append(@, [location |-> location, length |-> -1,
                                           id |-> -j.highest]),
                 !.highest = @ + 1,
                 !.refs = Recorded(@, -j.highest)]

RecordParamRef(j, number) ==
  [j EXCEPT !.extern = IF number > @ THEN number ELSE @,
            !.refs = Recorded(@, number)]

Clause == query[walker.clause]
AtOperand == walker.clause # 0 /\ walker.operand <= Len(Clause.operands)
AtEnd == walker.clause # 0 /\ walker.operand > Len(Clause.operands)
Operand == Clause.operands[walker.operand]
Place == PlaceOf(query, walker.clause, walker.operand)

\* The constant, param or column the walker comes to next.
VisitOperand ==
  /\ AtOperand
  /\ \/ /\ HasConstant(Operand) /\ Operand # "(select_5)"
        /\ js' = RecordConstLocation(js, Place)
     \/ /\ Operand = "row"
        /\ js' = RecordConstLocation(js, -1)
     \/ /\ Operand \in {"$1", "$2"}
        /\ js' = RecordParamRef(js, ParamNumber(Operand))
     \/ /\ Operand \in {"a", "f(a)"}
        /\ UNCHANGED js
  /\ walker' = [walker EXCEPT !.operand = @ + 1]
  /\ UNCHANGED <<todo, targets, group>>

\* A nested SELECT has a target and a list of targets of its own: it records
\* the params of its target, and stops the recording when that ends.
VisitSelect ==
  /\ AtOperand
  /\ Operand = "(select_5)"
  /\ js' = [RecordConstLocation([js EXCEPT !.refs = <<>>], Place) EXCEPT !.refs = Null]
  /\ walker' = [walker EXCEPT !.operand = @ + 1]
  /\ UNCHANGED <<todo, targets, group>>

\* The order of the walk, which is not that of the text: WITH comes last.
ComesBefore(c, d) ==
  IF (query[c].name = "with") = (query[d].name = "with") THEN c < d
  ELSE query[d].name = "with"

ComeTo(c) ==
  /\ walker.clause = 0
  /\ c \in todo
  /\ \A d \in todo \ {c} : ComesBefore(c, d)
  /\ todo' = todo \ {c}

Enter(c) ==
  /\ ComeTo(c)
  /\ walker' = [walker EXCEPT !.clause = c]

SkipOrdinal(c) ==
  /\ IsOrdinal(query[c])
  /\ ComeTo(c)
  /\ UNCHANGED <<walker, js, targets, group>>

BeginClause(c) ==
  /\ query[c].name \notin {"target", "group"} /\ ~IsOrdinal(query[c])
  /\ Enter(c)
  /\ UNCHANGED <<js, targets, group>>

\* Mutant: the params are recorded only while a target is walked that is the
\* first of its SELECT.
BeginFirstTarget(c) ==
  /\ query[c].name = "target"
  /\ Enter(c)
  /\ js' = [js EXCEPT !.refs = IF targets = <<>> THEN <<>> ELSE Null]
  /\ UNCHANGED <<targets, group>>

BeginTarget(c) ==
  /\ query[c].name = "target"
  /\ Enter(c)
  /\ js' = [js EXCEPT !.refs = <<>>]
  /\ UNCHANGED <<targets, group>>

\* Mutant: a target stays in the list when an item has matched it.
BeginGroupKeepsTarget(c) ==
  LET same == {k \in 1..Len(targets) : targets[k].fp = Fingerprint(query[c].operands)}
      k    == CHOOSE k \in same : \A l \in same : k <= l
  IN
  /\ query[c].name = "group" /\ ~IsOrdinal(query[c])
  /\ Enter(c)
  /\ group' = [matched |-> IF same = {} THEN Null ELSE targets[k].refs,
               count |-> Len(js.clocations)]
  /\ UNCHANGED <<js, targets>>

\* The first target with this fingerprint, which later items cannot have.
BeginGroup(c) ==
  LET same == {k \in 1..Len(targets) : targets[k].fp = Fingerprint(query[c].operands)}
      k    == CHOOSE k \in same : \A l \in same : k <= l
  IN
  /\ query[c].name = "group" /\ ~IsOrdinal(query[c])
  /\ Enter(c)
  /\ group' = [matched |-> IF same = {} THEN Null ELSE targets[k].refs,
               count |-> Len(js.clocations)]
  /\ targets' = IF same = {} THEN targets ELSE RemoveAt(targets, k)
  /\ UNCHANGED js

\* SET (a, b) = ... is in the tree once for each of its two columns.
EndClause ==
  /\ AtEnd
  /\ Clause.name \notin {"target", "group"}
  /\ walker' = IF Clause.name = "set" /\ walker.column = 1
               THEN [walker EXCEPT !.operand = 1, !.column = 2]
               ELSE Between
  /\ UNCHANGED <<todo, js, targets, group>>

\* A nested SELECT has stopped the recording before the end of the target.
EndTarget ==
  /\ AtEnd
  /\ Clause.name = "target"
  /\ targets' = Append(targets, [fp |-> Fingerprint(Clause.operands),
                                 refs |-> IF js.refs = Null THEN <<>> ELSE js.refs])
  /\ js' = [js EXCEPT !.refs = Null]
  /\ walker' = Between
  /\ UNCHANGED <<todo, group>>

\* The constants of the item get the params of the target.
Matches ==
  group.matched # Null /\ Len(group.matched) = Len(js.clocations) - group.count

WithMatched ==
  [k \in 1..Len(js.clocations) |->
     IF k > group.count
     THEN [js.clocations[k] EXCEPT !.id = group.matched[k - group.count]]
     ELSE js.clocations[k]]

\* Mutant: one number is given back, whatever the item has.
EndGroupGivesOneBack ==
  /\ AtEnd
  /\ Clause.name = "group"
  /\ js' = IF Matches THEN [js EXCEPT !.clocations = WithMatched, !.highest = @ - 1]
           ELSE js
  /\ walker' = Between
  /\ UNCHANGED <<todo, targets, group>>

EndGroup ==
  /\ AtEnd
  /\ Clause.name = "group"
  /\ js' = IF Matches
           THEN [js EXCEPT !.clocations = WithMatched, !.highest = @ - Len(group.matched)]
           ELSE js
  /\ walker' = Between
  /\ UNCHANGED <<todo, targets, group>>

\* const_record_walker
Walk ==
  /\ pc = "walk"
  /\ \/ \E c \in todo : SkipOrdinal(c) \/ BeginClause(c) \/ BeginTarget(c) \/ BeginGroup(c)
     \/ VisitOperand \/ VisitSelect
     \/ EndClause \/ EndTarget \/ EndGroup
  /\ UNCHANGED <<query, text, pc, flex, i, lastLoc, norm>>

Walked == pc = "walk" /\ todo = {} /\ walker.clause = 0

\* Mutant: the constants stay in the order of the walk.
SortConstantsNot ==
  /\ Walked
  /\ pc' = "lengths"
  /\ UNCHANGED <<query, text, todo, walker, js, targets, group, flex, i, lastLoc, norm>>

DuplicateLocations ==
  {js.clocations[k].location : k \in
     {k \in 1..Len(js.clocations) :
        \E l \in 1..k - 1 : js.clocations[l].location = js.clocations[k].location}}

\* qsort is not stable: of two records of one location, those of the locations
\* later come in the other order.
Precedes(clocations, later, k, l) ==
  LET c == clocations[k].location
      d == clocations[l].location
  IN  IF c # d THEN c < d ELSE IF c \in later THEN k > l ELSE k < l

Rank(clocations, later, k) ==
  Cardinality({l \in 1..Len(clocations) : Precedes(clocations, later, l, k)}) + 1

Sorted(clocations, later) ==
  [n \in 1..Len(clocations) |->
     clocations[CHOOSE k \in 1..Len(clocations) : Rank(clocations, later, k) = n]]

\* fill_in_constant_lengths sorts the constants and starts a scanner.
SortConstants ==
  /\ Walked
  /\ pc' = "lengths"
  /\ \E later \in SUBSET DuplicateLocations :
       js' = [js EXCEPT !.clocations = Sorted(@, later)]
  /\ UNCHANGED <<query, text, todo, walker, targets, group, flex, i, lastLoc, norm>>

\* Where the NUL after the current token is.
NulAfter(f, at) ==
  LET nuls == {p \in at..EndOf(text) : f.buf[p] = Nul}
  IN  CHOOSE p \in nuls : \A q \in nuls : p <= q

\* One token of the scan for constant i: not there yet, or there, and then
\* perhaps a second one after a minus sign.  At the end the rest is given up.
\* The code also takes the blanks from the end of a U&'' constant, which no
\* token here has; a UESCAPE after it is not part of the length.
FillInLength ==
  LET loc    == js.clocations[i].location
      first  == CoreYylex(text, flex)
      second == IF text[loc + 1].kind = "-" THEN CoreYylex(text, first.flex) ELSE first
      found  == first.token.kind # "EOF" /\ first.token.at >= loc
  IN
  /\ pc = "lengths"
  /\ i <= Len(js.clocations)
  /\ \/ /\ loc <= lastLoc  \* a duplicate
        /\ i' = i + 1
        /\ UNCHANGED <<js, flex, lastLoc>>
     \/ /\ loc > lastLoc
        /\ ~found /\ first.token.kind # "EOF"
        /\ flex' = first.flex
        /\ UNCHANGED <<js, i, lastLoc>>
     \/ /\ loc > lastLoc
        /\ found \/ first.token.kind = "EOF"
        /\ IF "EOF" \in {first.token.kind, second.token.kind}
           THEN i' = Len(js.clocations) + 1 /\ UNCHANGED <<js, flex, lastLoc>>
           ELSE /\ flex' = second.flex
                /\ js' = [js EXCEPT
                            !.clocations[i].length = NulAfter(second.flex, loc) - loc]
                /\ lastLoc' = loc
                /\ i' = i + 1
  /\ UNCHANGED <<query, text, pc, todo, walker, targets, group, norm>>

LengthsKnown ==
  /\ pc = "lengths"
  /\ i > Len(js.clocations)
  /\ pc' = "generate"
  /\ i' = 1
  /\ UNCHANGED <<query, text, todo, walker, js, targets, group, flex, lastLoc, norm>>

\* The number of a param, given out by the walk or found in the query.
ParamId(id) == IF id < 0 THEN js.extern - id ELSE id

\* A piece of the text as it is copied: its places.  A param is its number,
\* negated.
Copied(from, len) == [p \in 1..len |-> from + p - 1]

\* generate_normalized_query: the text up to the constant, and the param.
CopyConstant ==
  LET c   == js.clocations[i]
      len == c.location - norm.off - norm.len
  IN
  /\ pc = "generate"
  /\ i <= Len(js.clocations)
  /\ norm' = IF c.length < 0 THEN norm
             ELSE [query |-> norm.query \o Copied(norm.loc, len) \o <<-ParamId(c.id)>>,
                   loc |-> c.location + c.length, off |-> c.location,
                   len |-> c.length]
  /\ i' = i + 1
  /\ UNCHANGED <<query, text, pc, todo, walker, js, targets, group, flex, lastLoc>>

CopyRest ==
  /\ pc = "generate"
  /\ i > Len(js.clocations)
  /\ pc' = "done"
  /\ norm' = [norm EXCEPT !.query = @ \o Copied(norm.loc, EndOf(text) - norm.loc)]
  /\ UNCHANGED <<query, text, todo, walker, js, targets, group, flex, i, lastLoc>>

Done == pc = "done" /\ UNCHANGED vars

Next ==
  \/ Walk
  \/ SortConstants
  \/ FillInLength
  \/ LengthsKnown
  \/ CopyConstant
  \/ CopyRest
  \/ Done

Spec == Init /\ [][Next]_vars

-----------------------------------------------------------------------------
(***************************************************************************)
(* Properties                                                              *)
(***************************************************************************)

TypeOK ==
  /\ IsQuery(query)
  /\ pc \in {"walk", "lengths", "generate", "done"}
  /\ js.highest \in 1..Len(js.clocations) + 1
  /\ js.extern \in 0..2
  /\ \A k \in 1..Len(js.clocations) : js.clocations[k].id \in -Len(js.clocations)..2 \ {0}
  /\ i \in 1..Len(js.clocations) + 1
  /\ norm.loc \in 0..EndOf(text)

\* The constants that were recorded; ordinals were not.
Recordable == {c \in ConstantsOf(query) : ~IsOrdinal(query[c.clause])}

\* The tokens that are replaced for a constant at p: one, or a sign and the next.
Measure(t, p) == IF t[p + 1].kind = "-" THEN 2 ELSE 1

\* The places of the normalized text: those where a constant starts, and those
\* of the text that are not replaced with one.
Kept ==
  {p \in 0..EndOf(text) - 1 :
     ~ \E c \in Recordable : c.at < p /\ p < c.at + Measure(text, c.at)}

\* The normalized query is the text with a param for the first token of every
\* constant, or for its sign and the token after that, and nothing else changed:
\* no modifier of a type, and no ordinal of GROUP BY or ORDER BY; also when the
\* constants are not walked in the order of the text.  This is not all of every
\* constant: of -(5), of a sign with a comment behind it and of U&'x' UESCAPE '!'
\* tokens stay in the text, though the code says that it fills in "the textual
\* lengths of those constants".
ConstantsAreReplaced ==
  pc = "done" =>
    LET kept == Kept
    IN  /\ Len(norm.query) = Cardinality(kept)
        /\ \A p \in kept :
             LET n == Cardinality({r \in kept : r <= p})
             IN  IF \E c \in Recordable : c.at = p THEN norm.query[n] < 0
                 ELSE norm.query[n] = p

\* The number a constant gets.
NumberOf(c) ==
  ParamId(js.clocations[CHOOSE k \in 1..Len(js.clocations) :
                          /\ js.clocations[k].location = c.at
                          /\ js.clocations[k].length >= 0].id)

InGroup(c) == query[c.clause].name = "group"

HasDuplicates == \E c \in 1..Len(query) : query[c].name = "set"

\* A constant outside GROUP BY gets a number that no param of the query and no
\* other such constant has, though a constant may be recorded twice and either
\* record may count; in a SELECT the numbers given out have no gaps: what an
\* item of GROUP BY gave back is used again, and by one constant only.
NumbersAreFresh ==
  /\ TypeOK
  /\ pc = "done" =>
       LET own == {c \in Recordable : ~InGroup(c)}
           fresh == {n \in {NumberOf(c) : c \in Recordable} : n > js.extern}
       IN  /\ \A c \in own : NumberOf(c) > js.extern
           /\ \A c, d \in own : NumberOf(c) = NumberOf(d) => c = d
           /\ HasDuplicates \/ \A n \in fresh : n - js.extern <= Cardinality(fresh)

\* Two constants of GROUP BY share a number only if two params of the query
\* stand where they do in the targets; a constant of GROUP BY shares one with a
\* constant elsewhere only in a target of the same shape.
SharedNumbersMatch ==
  pc = "done" =>
    \A c, d \in Recordable :
      c # d /\ InGroup(c) /\ NumberOf(c) = NumberOf(d) /\ NumberOf(c) > js.extern =>
        /\ query[d.clause].name = "target"
        /\ Fingerprint(query[c.clause].operands) = Fingerprint(query[d.clause].operands)

GroupsAndTargets ==
  {c \in 1..Len(query) : query[c].name \in {"group", "target"} /\ ~IsOrdinal(query[c])}

\* A GROUP BY item written like a target, without a param of its own and
\* without a nested SELECT, when no third item looks like them.
IsCopy(c, d) ==
  /\ query[c].name = "target" /\ query[d].name = "group"
  /\ query[c].operands = query[d].operands
  /\ Range(query[c].operands) \cap {"$1", "$2", "(select_5)"} = {}
  /\ \A e \in GroupsAndTargets \ {c, d} :
       Fingerprint(query[e].operands) # Fingerprint(query[c].operands)

Numbers(c) ==
  [k \in {d.operand : d \in {d \in Recordable : d.clause = c}} |->
     NumberOf(CHOOSE d \in Recordable : d.clause = c /\ d.operand = k)]

\* Such an item is still written like its target afterwards: the query can
\* still be run.
GroupItemsFollowTargets ==
  pc = "done" =>
    \A c, d \in GroupsAndTargets : IsCopy(c, d) => Numbers(c) = Numbers(d)
=============================================================================
