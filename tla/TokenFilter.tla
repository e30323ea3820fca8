---------------------------- MODULE TokenFilter ----------------------------
(***************************************************************************)
(* base_yylex, the filter between the scanner and the grammar.  It looks    *)
(* one token ahead after some words and joins Unicode escapes, and has to   *)
(* leave the scan buffer as if it had not: the grammar quotes from it when  *)
(* it rejects a token.                                                      *)
(*                                                                         *)
(* The grammar calls it until the end of the text; it may reject any token  *)
(* that was delivered, which is why the properties hold between any two     *)
(* calls.                                                                   *)
(***************************************************************************)
EXTENDS Scanner, SequencesExt

CONSTANTS
  Texts,  \* the texts to parse
  Modes   \* RawParseMode: "DEFAULT", or another one, named by its mode token

ASSUME TextsAssumption == \A t \in Texts : IsText(t)
\* What base_yylex makes of the words that it looks behind.
Replacement ==
  [word \in {"FORMAT", "NOT", "NULLS_P", "WITH", "WITHOUT", "UIDENT", "USCONST"} |->
     CASE word = "FORMAT"  -> "FORMAT_LA"
       [] word = "NOT"     -> "NOT_LA"
       [] word = "NULLS_P" -> "NULLS_LA"
       [] word = "WITH"    -> "WITH_LA"
       [] word = "WITHOUT" -> "WITHOUT_LA"
       [] word = "UIDENT"  -> "IDENT"
       [] word = "USCONST" -> "SCONST"]
Replacements == {Replacement[word] : word \in DOMAIN Replacement}

\* A mode token is none of the others.
ASSUME ModesAssumption ==
  Modes \cap (Kinds \cup Replacements \cup {"EOF"}) = {}

VARIABLES
  text,       \* the text
  flex,       \* the scanner
  la,         \* have_lookahead, lookahead_token, lookahead_end, lookahead_hold_char
  yylloc,     \* location of the token the scanner or the filter set last
  delivered,  \* history: what the grammar received
  lexing      \* "ready", "skipping" inside a call, "done", "error", or
              \* "invalid": an error that quotes nothing

filterVars == <<text, flex, la, yylloc, delivered, lexing>>

\* lookahead_end = NULL.
NoEnd == -1

\* The words base_yylex looks behind, and what it looks for.
Following ==
  [word \in {"FORMAT", "NOT", "NULLS_P", "WITH", "WITHOUT"} |->
     CASE word = "FORMAT"  -> {"JSON"}
       [] word = "NOT"     -> {"BETWEEN", "IN_P", "LIKE", "ILIKE", "SIMILAR"}
       [] word = "NULLS_P" -> {"FIRST_P", "LAST_P"}
       [] word = "WITH"    -> {"TIME", "ORDINALITY"}
       [] word = "WITHOUT" -> {"TIME"}]
Unicode == {"UIDENT", "USCONST"}
LooksAhead(kind) == kind \in DOMAIN Following \cup Unicode

\* What the grammar receives for a token that is followed by another one.
Replaced(kind, next) ==
  IF kind \in Unicode \/ next \in Following[kind] THEN Replacement[kind]
  ELSE kind

FilterTypeOK ==
  /\ IsText(text)
  /\ flex.buf \in [0..EndOf(text) -> 0..EndOf(text) \cup {Nul}]
  /\ flex.at \in 0..EndOf(text)
  /\ flex.hold \in 0..EndOf(text) \cup {Nul}
  /\ la.have \in BOOLEAN
  /\ la.end \in 0..EndOf(text) \cup {NoEnd}
  /\ yylloc \in 0..EndOf(text)
  /\ lexing \in {"ready", "skipping", "done", "error", "invalid"}
  /\ Len(delivered) <= Len(text) + 2

ModeToken(mode) == [kind |-> mode, at |-> 0]
NoToken == [kind |-> "none", at |-> 0]

\* raw_parser with a fresh scanner.
Fresh(t, mode) ==
  [flex |-> ScannerInit(t),
   la   |-> [have |-> mode # "DEFAULT",
             token |-> IF mode = "DEFAULT" THEN NoToken ELSE ModeToken(mode),
             end |-> NoEnd, hold |-> Nul]]

FilterInit ==
  /\ text \in Texts
  /\ \E mode \in Modes : /\ flex = Fresh(text, mode).flex
                         /\ la = Fresh(text, mode).la
  /\ yylloc = 0
  /\ delivered = <<>>
  /\ lexing = "ready"

-----------------------------------------------------------------------------
\* The token this call is about: the lookahead token, with the character put
\* back that hid it, or a new one.
Current ==
  IF ~la.have THEN CoreYylex(text, flex)
  ELSE [token |-> la.token,
        flex  |-> IF la.end = NoEnd THEN flex
                  ELSE [flex EXCEPT !.buf[la.end] = la.hold]]

\* end: where the last token ends that was used up.
Return(kind, at, end) ==
  /\ delivered' = Append(delivered, [kind |-> kind, at |-> at, end |-> end])
  /\ yylloc' = at
  /\ lexing' = IF kind = "EOF" THEN "done" ELSE "ready"

Fail(at) ==
  /\ yylloc' = at
  /\ lexing' = "error"
  /\ UNCHANGED delivered

\* str_udeescape raises on the escapes in the current token.
InvalidEscape(cur) ==
  /\ cur.token.kind \in Unicode
  /\ yylloc' = cur.token.at
  /\ lexing' = "invalid"
  /\ UNCHANGED delivered

\* A comment is skipped by calling base_yylex again.
SkipComment(cur) ==
  /\ cur.token.kind \in Comments
  /\ flex' = cur.flex
  /\ la' = [la EXCEPT !.have = FALSE]
  /\ yylloc' = cur.token.at
  /\ lexing' = "skipping"
  /\ UNCHANGED delivered

\* A token that needs no lookahead; the scanner raises on some.
Deliver(cur) ==
  /\ cur.token.kind \notin Comments
  /\ ~LooksAhead(cur.token.kind)
  /\ flex' = cur.flex
  /\ la' = [la EXCEPT !.have = FALSE]
  /\ IF cur.token.kind = "BAD" THEN Fail(cur.token.at)
     ELSE Return(cur.token.kind, cur.token.at, cur.flex.at)

\* The end of the current token, found with strlen for Unicode tokens.
TokenEnd(tok) == tok.at + 1

\* The scanner raises on the token ahead.
LookAheadFails(cur, ahead) ==
  /\ ahead.token.kind = "BAD"
  /\ flex' = ahead.flex
  /\ la' = [la EXCEPT !.have = FALSE]
  /\ Fail(ahead.token.at)

\* Mutant: the current token is not cut off again.
LookAheadUncut(cur, ahead) ==
  LET end == TokenEnd(cur.token) IN
  /\ ahead.token.kind # "BAD"
  /\ ~(cur.token.kind \in Unicode /\ ahead.token.kind = "UESCAPE")
  /\ flex' = ahead.flex
  /\ la' = [have |-> TRUE, token |-> ahead.token, end |-> end,
            hold |-> ahead.flex.buf[end]]
  /\ \/ Return(Replaced(cur.token.kind, ahead.token.kind), cur.token.at, end)
     \/ InvalidEscape(cur)

\* The token ahead is kept for the next call, and the current one is cut off
\* again, to be quoted in an error.
LookAhead(cur, ahead) ==
  LET end == TokenEnd(cur.token) IN
  /\ ahead.token.kind # "BAD"
  /\ ~(cur.token.kind \in Unicode /\ ahead.token.kind = "UESCAPE")
  /\ flex' = [ahead.flex EXCEPT !.buf[end] = Nul]
  /\ la' = [have |-> TRUE, token |-> ahead.token, end |-> end,
            hold |-> ahead.flex.buf[end]]
  /\ \/ Return(Replaced(cur.token.kind, ahead.token.kind), cur.token.at, end)
     \/ InvalidEscape(cur)

\* Mutant: have_lookahead is not cleared.
UnicodeEscapeKeepsLookahead(cur, ahead) ==
  LET end   == TokenEnd(cur.token)
      cut   == [ahead.flex EXCEPT !.buf[end] = Nul]
      third == CoreYylex(text, [cut EXCEPT !.buf[end] = ahead.flex.buf[end]])
  IN
  /\ cur.token.kind \in Unicode
  /\ ahead.token.kind = "UESCAPE"
  /\ third.token.kind = "SCONST"
  /\ flex' = third.flex
  /\ la' = [have |-> TRUE, token |-> third.token, end |-> end,
            hold |-> ahead.flex.buf[end]]
  /\ Return(Replaced(cur.token.kind, "UESCAPE"), cur.token.at, third.flex.at)

\* U&"..." UESCAPE '...': the cut is undone before the third token is read,
\* and all three are used up.
UnicodeEscape(cur, ahead) ==
  LET end   == TokenEnd(cur.token)
      cut   == [ahead.flex EXCEPT !.buf[end] = Nul]
      third == CoreYylex(text, [cut EXCEPT !.buf[end] = ahead.flex.buf[end]])
  IN
  /\ cur.token.kind \in Unicode
  /\ ahead.token.kind = "UESCAPE"
  /\ flex' = third.flex
  /\ la' = [have |-> FALSE, token |-> ahead.token, end |-> end,
            hold |-> ahead.flex.buf[end]]
  /\ \/ /\ third.token.kind = "SCONST"
        /\ Return(Replaced(cur.token.kind, "UESCAPE"), cur.token.at,
                  third.flex.at)
     \/ Fail(third.token.at)  \* no string, or no escape character in it
     \/ third.token.kind = "SCONST" /\ InvalidEscape(cur)

BaseYylex ==
  /\ lexing \in {"ready", "skipping"}
  /\ LET cur == Current IN
       \/ SkipComment(cur)
       \/ Deliver(cur)
       \/ /\ LooksAhead(cur.token.kind)
          /\ LET ahead == CoreYylex(text, cur.flex) IN
               \/ LookAheadFails(cur, ahead)
               \/ LookAhead(cur, ahead)
               \/ UnicodeEscape(cur, ahead)
  /\ UNCHANGED text

-----------------------------------------------------------------------------
(***************************************************************************)
(* Properties                                                              *)
(***************************************************************************)

\* Where a quotation from yylloc ends.
QuotedTo ==
  LET nuls == {p \in yylloc..EndOf(text) : flex.buf[p] = Nul}
  IN  CHOOSE p \in nuls : \A q \in nuls : p <= q

\* Whenever the grammar or the scanner rejects a token, scanner_yyerror quotes
\* exactly that token from the buffer, all its characters in place: the NUL
\* written by the scanner and the one written by base_yylex are both gone from
\* where the quotation starts, and one is where it ends.
ErrorsQuoteTheToken ==
  /\ lexing \in {"ready", "done"} /\ delivered # <<>>
        /\ Last(delivered).kind \notin Modes
       => /\ QuotedTo = Last(delivered).end
          /\ \A p \in yylloc..QuotedTo - 1 : flex.buf[p] = p
  /\ lexing = "error" /\ yylloc < EndOf(text)
       => /\ QuotedTo = yylloc + 1
          /\ flex.buf[yylloc] = yylloc

\* The first word of the text from p on, comments skipped, or its end.
WordFrom(p) ==
  LET ahead == {i \in 1..Len(text) :
                  text[i].at >= p /\ text[i].kind \notin Comments}
  IN  IF ahead = {} THEN [kind |-> "EOF", at |-> EndOf(text)]
      ELSE text[CHOOSE i \in ahead : \A j \in ahead : i <= j]

\* What the grammar is meant to receive for the text from p on: the next word,
\* replaced as the one after it says, or U&"..." UESCAPE '...' as one token.
Expected(p) ==
  LET word   == WordFrom(p)
      next   == WordFrom(word.at + 1)
      escape == WordFrom(next.at + 1)
  IN  [kind |-> IF LooksAhead(word.kind) THEN Replaced(word.kind, next.kind)
                ELSE word.kind,
       at   |-> word.at,
       end  |-> CASE word.kind = "EOF" -> word.at
                  [] word.kind \in Unicode /\ next.kind = "UESCAPE"
                     -> escape.at + 1
                  [] OTHER -> word.at + 1]

ReceivedTo(n) == IF n = 0 THEN 0 ELSE delivered[n].end

FiltersWords ==
  /\ \A n \in 1..Len(delivered) :
       \/ n = 1 /\ delivered[n].kind \in Modes
       \/ delivered[n] = Expected(ReceivedTo(n - 1))
  /\ lexing = "done" => Last(delivered).kind = "EOF"

\* No comment stands where base_yylex looks ahead: it would hide what follows,
\* as one between NOT and IN does, although parser.c:108-110 speaks of comments
\* between the words.
NoCommentAhead ==
  \A i \in 1..Len(text) - 1 :
    LooksAhead(text[i].kind) \/ text[i].kind = "UESCAPE"
      => text[i + 1].kind \notin Comments

\* What the grammar receives next is always what the text from the end of the
\* last token on says: every token once, in order, with its own location, joined
\* and replaced as the words after it say, up to the end; tokens read ahead are
\* neither lost nor delivered twice.  Comments elsewhere change nothing.
GrammarReceivesTheWords == NoCommentAhead => FiltersWords
=============================================================================
