------------------------------- MODULE Split -------------------------------
(***************************************************************************)
(* pg_query_split_with_scanner, which finds the statements of a text by     *)
(* reading its tokens twice, and pg_query_split_with_parser, which takes    *)
(* them from the parse tree, on the same text.                              *)
(*                                                                         *)
(* The grammar of the statements is abstracted to what the split depends    *)
(* on: a statement has a keyword, its parentheses match, and so do the      *)
(* BEGIN ATOMIC and the END of the routine bodies in it.                    *)
(***************************************************************************)
EXTENDS TokenFilter

CONSTANTS
  SizeMod,  \* 2^64, the range of size_t
  Null      \* a null pointer

ASSUME SizeModAssumption == SizeMod \in Nat \ {0, 1}
\* A text is in memory: size_t counts its characters, and so its tokens.
ASSUME TextsFit == \A t \in Texts : Len(t) < SizeMod

VARIABLES
  pc,        \* "count", "fill", "parse", then "returned"
  loop,      \* keyword_before_terminator, open_parens, stmtstart
  nStmts,    \* result.n_stmts
  stmts,     \* result.stmts: Null, or what has been filled in
  raw,       \* the parser: list of RawStmt, the statement being parsed,
             \* location of the ';' before it
  error      \* result.error of the split: no error, or where

vars == <<text, flex, la, yylloc, delivered, lexing, pc, loop, nStmts, stmts,
          raw, error>>

NoError == -1
NoLocation == -1

\* Each pass starts with these values; stmtstart is only set once.
LoopStart == [keyword |-> FALSE, parens |-> 0, start |-> 0]

\* body counts the routine bodies that are open, and atomic remembers that
\* there was one.
NoRaw == [list |-> <<>>, keyword |-> FALSE, words |-> FALSE, parens |-> 0,
          body |-> 0, atomic |-> FALSE, semicolon |-> NoLocation,
          accepted |-> TRUE]

TypeOK ==
  /\ FilterTypeOK
  /\ pc \in {"count", "fill", "parse", "returned"}
  /\ loop \in [keyword : BOOLEAN, parens : 0..SizeMod - 1,
               start : 0..EndOf(text) + 1]
  /\ nStmts \in 0..Len(text)
  /\ stmts = Null \/ stmts \in Seq([location : Nat, len : Nat])
  /\ raw.list \in Seq([location : Nat, len : Nat])
  /\ error \in 0..EndOf(text) \cup {NoError}

Init ==
  /\ FilterInit
  /\ pc = "count"
  /\ loop = LoopStart
  /\ nStmts = 0
  /\ stmts = Null
  /\ raw = NoRaw
  /\ error = NoError

-----------------------------------------------------------------------------
IsTerminator(kind) == kind \in {";", "EOF"}

\* Both passes end a statement where there is one to end, outside parentheses.
EndsStatement(l, kind) ==
  l.keyword /\ l.parens = 0 /\ IsTerminator(kind)

\* open_parens is unsigned.
Counted(l, kind) ==
  CASE kind \in Keywords -> [l EXCEPT !.keyword = TRUE]
    [] kind = "("        -> [l EXCEPT !.parens = (@ + 1) % SizeMod]
    [] kind = ")"        -> [l EXCEPT !.parens = (@ - 1) % SizeMod]
    [] EndsStatement(l, kind) -> [l EXCEPT !.keyword = FALSE]
    [] OTHER             -> l

\* Mutant: empty statements are not skipped.
FilledFromEmpty(l, kind, at) ==
  IF EndsStatement(l, kind) THEN [Counted(l, kind) EXCEPT !.start = at + 1]
  ELSE Counted(l, kind)

\* Mutant: only empty statements move the start of the next one.
FilledAfterEmpty(l, kind, at) ==
  IF l.parens = 0 /\ kind = ";" /\ ~l.keyword
  THEN [Counted(l, kind) EXCEPT !.start = at + 1]
  ELSE Counted(l, kind)

\* The second pass also moves the start of the next statement.
Filled(l, kind, at) ==
  IF EndsStatement(l, kind) \/ (l.parens = 0 /\ kind = ";")
  THEN [Counted(l, kind) EXCEPT !.start = at + 1]
  ELSE Counted(l, kind)

\* The parser starts on the same text when the split has returned.
StartParser ==
  /\ pc' = "parse"
  /\ UNCHANGED <<delivered, yylloc, lexing>>
  /\ \E mode \in Modes : /\ flex' = Fresh(text, mode).flex
                         /\ la' = Fresh(text, mode).la

\* PG_CATCH: the error is returned with what n_stmts has counted.
ScanError(scanned) ==
  /\ scanned.token.kind = "BAD"
  /\ error' = scanned.token.at
  /\ StartParser
  /\ UNCHANGED <<loop, nStmts, stmts>>

\* Mutant: open_parens keeps its value from the first loop.
CountStatementKeepsParens(scanned) ==
  LET tok == scanned.token.kind IN
  /\ pc = "count"
  /\ tok # "BAD"
  /\ nStmts' = IF EndsStatement(loop, tok) THEN nStmts + 1 ELSE nStmts
  /\ IF tok = "EOF"
     THEN /\ pc' = "fill"
          /\ flex' = ScannerInit(text)
          /\ loop' = [Counted(loop, tok) EXCEPT !.keyword = FALSE]
          /\ stmts' = <<>>
     ELSE /\ flex' = scanned.flex
          /\ loop' = Counted(loop, tok)
          /\ UNCHANGED <<pc, stmts>>
  /\ UNCHANGED <<la, yylloc, delivered, lexing, error>>

\* core_yylex returns a token to the first loop.
CountStatement(scanned) ==
  LET tok == scanned.token.kind IN
  /\ pc = "count"
  /\ tok # "BAD"
  /\ nStmts' = IF EndsStatement(loop, tok) THEN nStmts + 1 ELSE nStmts
  /\ IF tok = "EOF"
     THEN /\ pc' = "fill"
          /\ flex' = ScannerInit(text)
          /\ loop' = [Counted(loop, tok) EXCEPT !.keyword = FALSE, !.parens = 0]
          /\ stmts' = <<>>
     ELSE /\ flex' = scanned.flex
          /\ loop' = Counted(loop, tok)
          /\ UNCHANGED <<pc, stmts>>
  /\ UNCHANGED <<la, yylloc, delivered, lexing, error>>

\* And to the second one.
FillStatement(scanned) ==
  LET tok == scanned.token.kind
      loc == scanned.token.at
  IN
  /\ pc = "fill"
  /\ tok # "BAD"
  /\ stmts' = IF EndsStatement(loop, tok)
              THEN Append(stmts, [location |-> loop.start,
                                  len |-> loc - loop.start])
              ELSE stmts
  /\ loop' = Filled(loop, tok, loc)
  /\ IF tok = "EOF" THEN StartParser
     ELSE /\ flex' = scanned.flex
          /\ UNCHANGED <<pc, la, yylloc, delivered, lexing>>
  /\ UNCHANGED <<nStmts, error>>

SplitWithScanner ==
  /\ pc \in {"count", "fill"}
  /\ LET scanned == CoreYylex(text, flex)
     IN  ScanError(scanned) \/ CountStatement(scanned) \/ FillStatement(scanned)
  /\ UNCHANGED <<text, raw>>

-----------------------------------------------------------------------------
\* Mutant: every ';' after the last statement moves its end.
WithEndAlways(list, at) ==
  IF list = <<>> THEN list
  ELSE [list EXCEPT ![Len(list)].len = at - Last(list).location]

\* updateRawStmtEnd for the last statement: only the first ';' after it counts.
WithEnd(list, at) ==
  IF list = <<>> \/ Last(list).len > 0 THEN list
  ELSE [list EXCEPT ![Len(list)].len = at - Last(list).location]

\* stmtmulti at its next ';' that is no part of a statement, or at the end: the
\* statement in between is complete, or empty.
Stmtmulti(r) ==
  LET ended == IF r.semicolon = NoLocation THEN r.list
               ELSE WithEnd(r.list, r.semicolon)
      start == IF r.semicolon = NoLocation THEN 0 ELSE r.semicolon + 1
  IN  IF r.words THEN Append(ended, [location |-> start, len |-> 0]) ELSE ended

\* routine_body_stmt_list keeps the statements between BEGIN ATOMIC and END,
\* each with its ';', in the one statement that the body belongs to.
Bodies(r, kind) ==
  CASE r.parens = 0 /\ kind = "ATOMIC"              -> r.body + 1
    [] r.parens = 0 /\ kind = "END_P" /\ r.body > 0 -> r.body - 1
    [] OTHER                                        -> r.body

Outermost(r) == r.parens = 0 /\ r.body = 0

\* The grammar receives a token.
Reduce(r, d) ==
  CASE d.kind = "(" -> [r EXCEPT !.parens = @ + 1, !.words = TRUE]
    [] d.kind = ")" -> [r EXCEPT !.parens = @ - 1, !.words = TRUE,
                                 !.accepted = @ /\ r.parens > 0]
    [] IsTerminator(d.kind) /\ Outermost(r) ->
         [r EXCEPT !.list = Stmtmulti(r), !.semicolon = d.at, !.words = FALSE,
                   !.keyword = FALSE, !.accepted = @ /\ (r.words => r.keyword)]
    [] d.kind = "EOF" /\ ~Outermost(r) -> [r EXCEPT !.accepted = FALSE]
    [] d.kind = ";" /\ ~Outermost(r)   -> r
    [] OTHER -> [r EXCEPT !.words = TRUE,
                          !.keyword = @ \/ d.kind \notin {"IDENT", "SCONST"},
                          !.body = Bodies(r, d.kind),
                          !.atomic = @ \/ d.kind = "ATOMIC"]

SplitWithParser ==
  /\ pc = "parse"
  /\ BaseYylex
  /\ raw' = IF delivered' # delivered /\ Last(delivered').kind \notin Modes
            THEN Reduce(raw, Last(delivered')) ELSE raw
  /\ pc' = IF lexing' \in {"done", "error", "invalid"} THEN "returned" ELSE pc
  /\ UNCHANGED <<loop, nStmts, stmts, error>>

Returned == pc = "returned" /\ UNCHANGED vars

Next ==
  \/ SplitWithScanner
  \/ SplitWithParser
  \/ Returned

Spec == Init /\ [][Next]_vars

-----------------------------------------------------------------------------
(***************************************************************************)
(* Properties                                                              *)
(***************************************************************************)

\* The second pass writes as many statements as the first one counted and
\* allocated room for, never more: pg_query_free_split_result frees n_stmts of
\* them.  After an error no array is there, however far the passes got, and no
\* counter has left its range.
PassesAgree ==
  /\ TypeOK
  /\ pc = "fill" => Len(stmts) <= nStmts
  /\ pc \in {"parse", "returned"} =>
       IF error = NoError THEN Len(stmts) = nStmts ELSE stmts = Null

\* The statements of a text are in order, do not overlap, do not reach past
\* its end, and none is empty, whatever the parentheses of the text.
StatementsAreDisjoint ==
  stmts # Null =>
    \A i \in 1..Len(stmts) :
      LET end == stmts[i].location + stmts[i].len
      IN  /\ stmts[i].len > 0
          /\ end <= EndOf(text)
          /\ i < Len(stmts) => end < stmts[i + 1].location

\* pg_query_split_with_parser: a statement without a length goes to the end.
ParserStmts ==
  [i \in 1..Len(raw.list) |->
     [location |-> raw.list[i].location,
      len |-> IF raw.list[i].len = 0 THEN EndOf(text) - raw.list[i].location
              ELSE raw.list[i].len]]

\* The text parses as statements.
Parses ==
  /\ pc = "returned" /\ lexing = "done"
  /\ raw.accepted
  /\ Head(delivered).kind \notin Modes

\* For a text that parses and has no BEGIN ATOMIC body, the scanner finds the
\* statements the parser finds: empty statements, comments and semicolons in
\* parentheses included.
SplitsAgree == Parses /\ ~raw.atomic => stmts = ParserStmts

\* With such bodies the scanner, which ends a statement at every ';' of a body,
\* only splits further: each statement of the parser starts with one of the
\* scanner's and ends with one, and every statement of the scanner is inside
\* one of the parser's.
SplitsNest ==
  Parses =>
    LET End(s) == s.location + s.len
    IN  /\ \A p \in Range(ParserStmts) :
             /\ \E s \in Range(stmts) : s.location = p.location
             /\ \E s \in Range(stmts) : End(s) = End(p)
        /\ \A s \in Range(stmts) :
             \E p \in Range(ParserStmts) :
               p.location <= s.location /\ End(s) <= End(p)
=============================================================================
