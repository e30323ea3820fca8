------------------------------ MODULE Scanner ------------------------------
(***************************************************************************)
(* core_yylex of libpg_query, the flex scanner that pg_query_parse,         *)
(* pg_query_split and pg_query_normalize read a query text with.            *)
(*                                                                         *)
(* What it recognises is abstracted: a text is the sequence of its tokens,  *)
(* each one character long, at the positions where they are.  What it does  *)
(* to the buffer is not: the end of the token that was returned last is     *)
(* overwritten with NUL, until the next call puts the character back.       *)
(***************************************************************************)
EXTENDS Integers, Sequences

\* The character written at the end of a token.  The other characters are
\* told apart by their position in the text.
Nul == -1

Comments == {"C_COMMENT", "SQL_COMMENT"}

\* Tokens with a meaning for base_yylex or the split; "BAD" is one the
\* scanner rejects, such as a quoted string without an end.  "ATOMIC" stands
\* for the two words BEGIN ATOMIC and "END_P" for the END of such a body only,
\* not for those of CASE and of transactions.
Keywords ==
  {"FORMAT", "JSON", "NOT", "BETWEEN", "IN_P", "LIKE", "ILIKE", "SIMILAR",
   "NULLS_P", "FIRST_P", "LAST_P", "WITH", "WITHOUT", "TIME", "ORDINALITY",
   "UESCAPE", "SELECT", "ATOMIC", "END_P"}
Kinds ==
  Keywords \cup Comments \cup {"IDENT", "UIDENT", "SCONST", "USCONST", "(", ")",
                               ";", "BAD"}

Token == [kind : Kinds, at : Nat]

\* A text: tokens one after the other, perhaps with blanks between them.
IsText(t) ==
  /\ t \in Seq(Token)
  /\ \A i \in 1..Len(t) - 1 : t[i].at < t[i + 1].at

EndOf(t) == IF t = <<>> THEN 0 ELSE t[Len(t)].at + 1

\* scanbuf with its terminator.
Chars(t) == [p \in 0..EndOf(t) |-> IF p = EndOf(t) THEN Nul ELSE p]

\* The part of yyguts_t that matters: yy_ch_buf, yy_c_buf_p, yy_hold_char.
ScannerInit(t) == [buf |-> Chars(t), at |-> 0, hold |-> Chars(t)[0]]

\* The next token as flex sees it: a NUL that is not the scanner's own ends
\* the text.
TokenAt(t, b, p) ==
  LET ahead == {i \in 1..Len(t) : t[i].at >= p}
      next  == CHOOSE i \in ahead : \A j \in ahead : i <= j
      nuls  == {q \in p..EndOf(t) : b[q] = Nul}
      nul   == CHOOSE q \in nuls : \A r \in nuls : q <= r
  IN  IF ahead # {} /\ t[next].at < nul THEN t[next]
      ELSE [kind |-> "EOF", at |-> nul]

\* core_yylex: the token and the scanner afterwards.
CoreYylex(t, flex) ==
  LET b   == [flex.buf EXCEPT ![flex.at] = flex.hold]
      tok == TokenAt(t, b, flex.at)
      e   == IF tok.kind = "EOF" THEN tok.at ELSE tok.at + 1
  IN  [token |-> tok,
       flex  |-> [buf |-> [b EXCEPT ![e] = Nul], at |-> e, hold |-> b[e]]]
=============================================================================
