------------------------------ MODULE MCSplit ------------------------------
(***************************************************************************)
(* Texts for Split and TokenFilter: every combination of the words that     *)
(* base_yylex looks at, with and without blanks between them, and every     *)
(* combination of keywords, parentheses and semicolons.                     *)
(***************************************************************************)
EXTENDS Split, FiniteSets

CONSTANTS
  MaxWords,   \* length of the texts with lookahead
  MaxSplit,   \* length of the texts with several statements
  MaxBody     \* length of those with a BEGIN ATOMIC body

\* Kinds that need a blank between them: they would be one token otherwise.
Letters == Keywords \cup {"IDENT", "UIDENT", "USCONST"}
Touch(left, right) ==
  /\ ~(left \in Keywords \cup {"IDENT"} /\ right \in Letters)
  /\ ~(left \in {"SCONST", "USCONST"} /\ right \in {"SCONST", "BAD"})

\* Words with a blank before those in gaps; an unterminated token is the last.
TextOf(kinds, gaps) ==
  [i \in 1..Len(kinds) |->
     [kind |-> kinds[i], at |-> i - 1 + Cardinality({j \in gaps : j <= i})]]
Spaced(kinds, gaps) ==
  /\ \A i \in 1..Len(kinds) - 1 :
       /\ kinds[i] # "BAD"
       /\ ~Touch(kinds[i], kinds[i + 1]) => i + 1 \in gaps
  /\ 1 \notin gaps

TextsWith(alphabet, n) ==
  LET words == UNION {[1..k -> alphabet] : k \in 0..n}
  IN  {TextOf(w, g) : <<w, g>> \in
         {p \in words \X SUBSET (1..n) : /\ p[2] \subseteq 1..Len(p[1])
                                         /\ Spaced(p[1], p[2])}}

WordTexts == TextsWith({"NOT", "IN_P", "UIDENT", "UESCAPE", "SCONST",
                        "C_COMMENT", "BAD"}, MaxWords)

\* Blanks make no difference to a split.
SplitTexts ==
  LET words == UNION {[1..k -> {"SELECT", "IDENT", "(", ")", ";", "C_COMMENT"}]
                        : k \in 0..MaxSplit}
  IN  {TextOf(w, 2..Len(w)) : w \in words}

\* Routine bodies: keywords, parentheses and semicolons around and in them.
BodyTexts ==
  LET words == UNION {[1..k -> {"SELECT", "ATOMIC", "END_P", "(", ")", ";"}]
                        : k \in 0..MaxBody}
  IN  {TextOf(w, 2..Len(w)) :
         w \in {v \in words : \E i \in DOMAIN v : v[i] = "ATOMIC"}}

MCTexts == WordTexts \cup SplitTexts \cup BodyTexts
MCModes == {"DEFAULT", "MODE_PLPGSQL_EXPR"}
=============================================================================
