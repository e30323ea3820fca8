----------------------------- MODULE SplitProofs -----------------------------
(***************************************************************************)
(* What the split and the token filter guarantee for every text, of any     *)
(* length: Spec => []IInv.                                                  *)
(*                                                                         *)
(* The scanner is a function of how many tokens it has read (HasRead): the  *)
(* NUL it writes never shows.  The two loops of the split go through the    *)
(* same states (Trace), so the second writes what the first has counted.    *)
(* Between two calls of base_yylex, the buffer is the scanner's, but for    *)
(* one cut that is known and can be undone (Lexed, Uncut).                  *)
(*                                                                         *)
(* What the grammar has received follows from how many tokens it is past    *)
(* (UsedUp): a call takes the next ones (TakesFrom), and gives what the     *)
(* text says there (ReceivedInv).  The grammar has found the statements     *)
(* that the second loop had written when it had read as many (AgreeInv).    *)
(***************************************************************************)
EXTENDS Split, SequenceTheorems, WellFoundedInduction, TLAPS

\* A set of natural numbers has a least one: induction over positions.
LEMMA LeastNatural ==
  ASSUME NEW T \in SUBSET Nat, T # {}
  PROVE  \E x \in T : \A y \in T : x <= y
<1> DEFINE R == {ss \in Nat \X Nat : ss[1] < ss[2]}
<1>1. IsWellFoundedOn(R, Nat)
  BY NatLessThanWellFounded DEF OpToRel
<1> HIDE DEF R
<1>2. PICK x \in T : \A y \in T : ~ (<<y, x>> \in R)
  BY <1>1, WFMin, Zenon
<1>3. \A y, z \in Nat : y < z => <<y, z>> \in R
  BY DEF R
<1>4. \A y \in T : x <= y
  <2> TAKE y \in T
  <2>1. x \in Nat /\ y \in Nat /\ ~ (<<y, x>> \in R)
    BY <1>2
  <2>2. ~ (y < x)
    BY <2>1, <1>3, Zenon
  <2> QED
    BY <2>1, <2>2
<1> QED
  BY <1>4

\* The end of the first k tokens.
Position(k) == IF k = 0 THEN 0 ELSE text[k].at + 1
EndToken == [kind |-> "EOF", at |-> EndOf(text)]

Flex == [buf : [0..EndOf(text) -> 0..EndOf(text) \cup {Nul}],
         at : 0..EndOf(text), hold : 0..EndOf(text) \cup {Nul}]

\* The scanner has read the first k tokens.
HasRead(k, f) ==
  /\ k \in 0..Len(text)
  /\ f \in Flex
  /\ f.at = Position(k)
  /\ [f.buf EXCEPT ![f.at] = f.hold] = Chars(text)

\* The scanner after a token that ends at e.
ScannerAt(e) ==
  [buf |-> [Chars(text) EXCEPT ![e] = Nul], at |-> e, hold |-> Chars(text)[e]]

-----------------------------------------------------------------------------
\* The tokens of a text are in order, before its end.
LEMMA TextIsSorted ==
  ASSUME IsText(text)
  PROVE  /\ Len(text) \in Nat
         /\ \A i \in 1..Len(text) : text[i] \in Token /\ text[i].at \in Nat /\ text[i].kind \in Kinds
         /\ \A i, j \in 1..Len(text) : i < j => text[i].at < text[j].at
<1>1. Len(text) \in Nat
  BY LenProperties DEF IsText
<1>2. \A i \in 1..Len(text) : text[i] \in Token
  BY ElementOfSeq DEF IsText
<1>3. \A i \in 1..Len(text) : text[i].at \in Nat /\ text[i].kind \in Kinds
  BY <1>2 DEF Token
<1>4. ASSUME NEW i \in 1..Len(text), NEW j \in 1..Len(text), i < j, ~ (text[i].at < text[j].at)
      PROVE  FALSE
  <2> DEFINE T == {n \in 1..Len(text) : i < n /\ ~ (text[i].at < text[n].at)}
  <2>1. T \in SUBSET Nat /\ j \in T
    BY <1>1, <1>4
  <2>2. PICK n \in T : \A m \in T : n <= m
    <3> HIDE DEF T
    <3> QED
      BY <2>1, LeastNatural
  <2>3. n \in 2..Len(text) /\ n - 1 \in 1..Len(text) /\ i <= n - 1 /\ n - 1 \notin T
    BY <1>1, <2>2
  <2>4. text[n - 1].at < text[n].at
    <3>1. n - 1 \in 1..Len(text) - 1 /\ (n - 1) + 1 = n
      BY <1>1, <2>3
    <3> QED
      BY <3>1 DEF IsText
  <2>5. text[i].at <= text[n - 1].at
    BY <1>1, <1>3, <2>3
  <2> QED
    BY <1>3, <2>2, <2>3, <2>4, <2>5
<1> QED
  BY <1>1, <1>2, <1>3, <1>4

LEMMA Ends ==
  ASSUME IsText(text)
  PROVE  /\ EndOf(text) \in Nat
         /\ \A i \in 1..Len(text) : text[i].at < EndOf(text)
         /\ Position(Len(text)) = EndOf(text)
         /\ \A k \in 0..Len(text) : Position(k) \in 0..EndOf(text)
         /\ \A k \in 0..Len(text) : \A i \in 1..Len(text) :
              text[i].at >= Position(k) <=> i > k
<1>1. CASE text = <<>>
  <2>1. Len(text) = 0 /\ EndOf(text) = 0
    BY <1>1 DEF EndOf
  <2> QED
    BY <2>1 DEF Position
<1>2. CASE text # <<>>
  <2>1. Len(text) \in Nat \ {0}
    BY <1>2, LenProperties, EmptySeq DEF IsText
  <2>2. EndOf(text) = text[Len(text)].at + 1 /\ Len(text) \in 1..Len(text)
    BY <1>2, <2>1 DEF EndOf
  <2>3. \A i \in 1..Len(text) : text[i].at <= text[Len(text)].at
    <3> TAKE i \in 1..Len(text)
    <3>1. i = Len(text) \/ i < Len(text)
      BY <2>1
    <3> QED
      BY <3>1, <2>1, <2>2, TextIsSorted
  <2>4. Position(Len(text)) = EndOf(text)
    BY <2>1, <2>2 DEF Position
  <2>5. ASSUME NEW k \in 0..Len(text)
        PROVE  /\ Position(k) \in 0..EndOf(text)
               /\ \A i \in 1..Len(text) : text[i].at >= Position(k) <=> i > k
    <3>1. CASE k = 0
      BY <3>1, <2>1, <2>2, TextIsSorted DEF Position
    <3>2. CASE k # 0
      <4>1. k \in 1..Len(text) /\ Position(k) = text[k].at + 1
        BY <3>2, <2>1 DEF Position
      <4>2. ASSUME NEW i \in 1..Len(text)
            PROVE  text[i].at >= text[k].at + 1 <=> i > k
        <5>1. i < k \/ i = k \/ k < i
          BY <2>1, <4>1
        <5>2. text[i].at \in Nat /\ text[k].at \in Nat
          BY <4>1, TextIsSorted
        <5>3. /\ i < k => text[i].at < text[k].at
              /\ k < i => text[k].at < text[i].at
          BY <4>1, TextIsSorted
        <5> QED
          BY <2>1, <4>1, <5>1, <5>2, <5>3
      <4> QED
        BY <2>2, <2>3, <4>1, <4>2, TextIsSorted
    <3> QED
      BY <3>1, <3>2
  <2>6. \A i \in 1..Len(text) : text[i].at < EndOf(text)
    BY <2>2, <2>3, TextIsSorted
  <2> QED
    BY <2>2, <2>4, <2>5, <2>6, TextIsSorted
<1> QED
  BY <1>1, <1>2

LEMMA CharsOf ==
  ASSUME IsText(text)
  PROVE  /\ Chars(text) \in [0..EndOf(text) -> 0..EndOf(text) \cup {Nul}]
         /\ Chars(text)[EndOf(text)] = Nul
         /\ \A p \in 0..EndOf(text) - 1 : Chars(text)[p] = p /\ p # Nul
BY Ends DEF Chars, Nul

LEMMA ScannerAtRead ==
  ASSUME IsText(text), NEW k \in 0..Len(text)
  PROVE  HasRead(k, ScannerAt(Position(k)))
<1>1. Position(k) \in 0..EndOf(text)
  BY Ends
<1>2. Chars(text) \in [0..EndOf(text) -> 0..EndOf(text) \cup {Nul}]
  BY CharsOf
<1>3. Chars(text)[Position(k)] \in 0..EndOf(text) \cup {Nul}
  BY <1>1, <1>2
<1>4. ScannerAt(Position(k)) \in Flex
  BY <1>1, <1>2, <1>3 DEF ScannerAt, Flex
<1> QED
  BY <1>1, <1>2, <1>4 DEF HasRead, ScannerAt

LEMMA ScannerInitRead ==
  ASSUME IsText(text)
  PROVE  HasRead(0, ScannerInit(text))
<1>1. 0 \in 0..EndOf(text) /\ Len(text) \in Nat
  BY Ends, TextIsSorted
<1>2. Chars(text) \in [0..EndOf(text) -> 0..EndOf(text) \cup {Nul}]
  BY CharsOf
<1>3. ScannerInit(text) \in Flex
  BY <1>1, <1>2 DEF ScannerInit, Flex
<1> QED
  BY <1>1, <1>2, <1>3 DEF HasRead, ScannerInit, Position

\* The scanner finds the token that is next.
LEMMA NextToken ==
  ASSUME IsText(text), NEW k \in 0..Len(text)
  PROVE  TokenAt(text, Chars(text), Position(k)) =
           IF k < Len(text) THEN text[k + 1] ELSE EndToken
<1> DEFINE p == Position(k)
           ahead == {i \in 1..Len(text) : text[i].at >= p}
           next  == CHOOSE i \in ahead : \A j \in ahead : i <= j
           nuls  == {q \in p..EndOf(text) : Chars(text)[q] = Nul}
           nul   == CHOOSE q \in nuls : \A r \in nuls : q <= r
<1>0. Len(text) \in Nat /\ EndOf(text) \in Nat /\ p \in 0..EndOf(text)
  BY Ends, TextIsSorted
<1>1. nuls = {EndOf(text)}
  <2>1. \A q \in p..EndOf(text) : q = EndOf(text) \/ q \in 0..EndOf(text) - 1
    BY <1>0
  <2> QED
    BY <1>0, <2>1, CharsOf
<1>2. nul = EndOf(text)
  <2> HIDE DEF nuls
  <2>1. \E q \in nuls : \A r \in nuls : q <= r
    BY <1>0, <1>1
  <2> QED
    BY <1>1, <2>1
<1>3. ahead = {i \in 1..Len(text) : i > k}
  BY Ends
<1>4. CASE k < Len(text)
  <2>1. k + 1 \in ahead /\ \A j \in ahead : k + 1 <= j
    BY <1>0, <1>3, <1>4
  <2>2. next \in ahead /\ \A j \in ahead : next <= j
    <3> HIDE DEF ahead
    <3> QED
      BY <2>1
  <2>3. next = k + 1
    <3>1. next \in 1..Len(text)
      BY <2>2, <1>3
    <3>2. next <= k + 1 /\ k + 1 <= next
      BY <2>1, <2>2
    <3> HIDE DEF next
    <3> QED
      BY <3>1, <3>2
  <2>4. ahead # {} /\ text[next].at < nul
    <3>1. k + 1 \in 1..Len(text)
      BY <1>0, <1>4
    <3> HIDE DEF next, nul, ahead
    <3> QED
      BY <3>1, <2>1, <2>3, <1>2, Ends
  <2>5. TokenAt(text, Chars(text), p) = text[next]
    BY <2>4 DEF TokenAt
  <2> QED
    BY <2>5, <2>3, <1>4
<1>5. CASE k = Len(text)
  <2>1. ahead = {}
    BY <1>0, <1>3, <1>5
  <2>2. TokenAt(text, Chars(text), p) = [kind |-> "EOF", at |-> nul]
    BY <2>1 DEF TokenAt
  <2> HIDE DEF nul, ahead
  <2> QED
    BY <2>2, <1>2, <1>5, <1>0 DEF EndToken
<1> QED
  BY <1>0, <1>4, <1>5

\* core_yylex takes one token, or stays at the end.
LEMMA CoreYylexReads ==
  ASSUME IsText(text), NEW k, NEW f, HasRead(k, f)
  PROVE  /\ k < Len(text) =>
              /\ k + 1 \in 1..Len(text)
              /\ CoreYylex(text, f).token = text[k + 1]
              /\ CoreYylex(text, f).flex = ScannerAt(Position(k + 1))
         /\ k = Len(text) =>
              /\ CoreYylex(text, f).token = EndToken
              /\ CoreYylex(text, f).flex = ScannerAt(Position(k))
<1>0. k \in 0..Len(text) /\ Len(text) \in Nat
  BY TextIsSorted DEF HasRead
<1> DEFINE b == [f.buf EXCEPT ![f.at] = f.hold]
           tok == TokenAt(text, b, f.at)
           e == IF tok.kind = "EOF" THEN tok.at ELSE tok.at + 1
<1>1. CoreYylex(text, f) =
        [token |-> tok, flex |-> [buf |-> [b EXCEPT ![e] = Nul], at |-> e, hold |-> b[e]]]
  BY DEF CoreYylex
<1>2. b = Chars(text) /\ f.at = Position(k)
  BY DEF HasRead
<1>3. tok = IF k < Len(text) THEN text[k + 1] ELSE EndToken
  <2> HIDE DEF b
  <2> QED
    BY <1>0, <1>2, NextToken
<1>4. CASE k < Len(text)
  <2>1. k + 1 \in 1..Len(text) /\ tok = text[k + 1]
    BY <1>0, <1>3, <1>4
  <2>2. text[k + 1].kind \in Kinds
    BY <2>1, TextIsSorted
  <2>3. "EOF" \notin Kinds
    BY DEF Kinds, Keywords, Comments
  <2>4. e = Position(k + 1)
    <3> HIDE DEF tok
    <3> QED
      BY <1>0, <2>1, <2>2, <2>3 DEF Position
  <2> HIDE DEF e, tok, b
  <2> QED
    BY <1>0, <1>1, <1>2, <1>4, <2>1, <2>4 DEF ScannerAt
<1>5. CASE k = Len(text)
  <2>1. tok = EndToken
    BY <1>0, <1>3, <1>5
  <2>2. e = Position(k)
    <3> HIDE DEF tok
    <3> QED
      BY <1>5, <2>1, Ends DEF EndToken
  <2> HIDE DEF e, tok, b
  <2> QED
    BY <1>0, <1>1, <1>2, <1>5, <2>1, <2>2 DEF ScannerAt
<1> QED
  BY <1>4, <1>5

-----------------------------------------------------------------------------
(***************************************************************************)
(* The two loops of the split                                              *)
(***************************************************************************)
LoopState == [keyword : BOOLEAN, parens : 0..SizeMod - 1, start : 0..EndOf(text) + 1]

Ended(l, kind) == IF EndsStatement(l, kind) THEN 1 ELSE 0

\* L has the states that a loop goes through for the first k tokens, C the
\* statements it has ended.
Trace(L, C, k) ==
  /\ L \in [0..k -> LoopState] /\ C \in [0..k -> Nat]
  /\ L[0] = LoopStart /\ C[0] = 0
  /\ \A i \in 1..k :
       /\ text[i].kind # "BAD"
       /\ L[i] = Counted(L[i - 1], text[i].kind)
       /\ C[i] = C[i - 1] + Ended(L[i - 1], text[i].kind)
  /\ \A i \in 0..k : C[i] <= C[k]
  /\ C[k] + (IF L[k].keyword THEN 1 ELSE 0) <= k

\* The first loop has counted the statements in the first k tokens.
Counting(L, C, k) ==
  /\ HasRead(k, flex)
  /\ Trace(L, C, k)
  /\ loop = L[k] /\ loop.start = 0
  /\ nStmts = C[k]

\* The second loop is in the state the first one was in after k tokens, and
\* has written what the first one had counted.
Filling(L, C, k) ==
  /\ HasRead(k, flex)
  /\ Trace(L, C, Len(text))
  /\ loop \in LoopState
  /\ loop.keyword = L[k].keyword /\ loop.parens = L[k].parens
  /\ nStmts = C[Len(text)] + Ended(L[Len(text)], "EOF")
  /\ Len(stmts) = C[k]

\* The statements found lie before the start of the next one.
Before(at) ==
  /\ stmts \in Seq([location : Nat, len : Nat])
  /\ \A i \in 1..Len(stmts) :
       /\ stmts[i].len > 0
       /\ stmts[i].location + stmts[i].len <= EndOf(text)
       /\ i < Len(stmts) => stmts[i].location + stmts[i].len < stmts[i + 1].location
       /\ i = Len(stmts) => stmts[i].location + stmts[i].len < at

\* raw_parser has not been called.
Unparsed ==
  /\ delivered = <<>> /\ lexing = "ready" /\ yylloc = 0
  /\ \E mode \in Modes : la = Fresh(text, mode).la
  /\ raw = NoRaw

CountInv ==
  pc = "count" =>
    /\ Unparsed /\ stmts = Null /\ error = NoError
    /\ \E k \in 0..Len(text) : \E L, C : Counting(L, C, k)

FillInv ==
  pc = "fill" =>
    /\ Unparsed /\ error = NoError
    /\ \E k \in 0..Len(text) : \E L, C : Filling(L, C, k)
    /\ Before(loop.start)
    /\ loop.start <= flex.at
    /\ loop.keyword => loop.start < flex.at

LEMMA KeywordsEndNothing ==
  /\ "(" \notin Keywords /\ ")" \notin Keywords
  /\ \A kind \in Keywords : ~IsTerminator(kind)
  /\ ~IsTerminator("(") /\ ~IsTerminator(")")
BY DEF Keywords, IsTerminator

\* What a loop does with a token, field by field.
LEMMA CountedCases ==
  ASSUME NEW l, NEW kind
  PROVE  /\ kind \in Keywords => Counted(l, kind) = [l EXCEPT !.keyword = TRUE]
         /\ kind = "(" => Counted(l, kind) = [l EXCEPT !.parens = (@ + 1) % SizeMod]
         /\ kind = ")" => Counted(l, kind) = [l EXCEPT !.parens = (@ - 1) % SizeMod]
         /\ kind \notin Keywords \cup {"(", ")"} =>
              Counted(l, kind) = IF EndsStatement(l, kind) THEN [l EXCEPT !.keyword = FALSE] ELSE l
<1> DEFINE A == [l EXCEPT !.keyword = TRUE]
           B == [l EXCEPT !.parens = (@ + 1) % SizeMod]
           D == [l EXCEPT !.parens = (@ - 1) % SizeMod]
           E == [l EXCEPT !.keyword = FALSE]
<1>1. Counted(l, kind) =
        CASE kind \in Keywords -> A [] kind = "(" -> B [] kind = ")" -> D
          [] EndsStatement(l, kind) -> E [] OTHER -> l
  BY DEF Counted
<1>2. EndsStatement(l, kind) => IsTerminator(kind)
  BY DEF EndsStatement
<1> HIDE DEF A, B, D, E
<1>3. CASE kind \in Keywords
  BY <1>1, <1>2, <1>3, KeywordsEndNothing DEF A
<1>4. CASE kind = "("
  BY <1>1, <1>2, <1>4, KeywordsEndNothing DEF B
<1>5. CASE kind = ")"
  BY <1>1, <1>2, <1>5, KeywordsEndNothing DEF D
<1>6. CASE kind \notin Keywords \cup {"(", ")"}
  BY <1>1, <1>6 DEF A, E
<1> QED
  BY <1>3, <1>4, <1>5, <1>6

LEMMA CountedIs ==
  ASSUME NEW l \in LoopState, NEW kind
  PROVE  /\ Counted(l, kind) \in LoopState
         /\ Counted(l, kind).start = l.start
         /\ Counted(l, kind).keyword <=> kind \in Keywords \/ (l.keyword /\ ~EndsStatement(l, kind))
         /\ Counted(l, kind).parens = IF kind = "(" THEN (l.parens + 1) % SizeMod
                                      ELSE IF kind = ")" THEN (l.parens - 1) % SizeMod
                                      ELSE l.parens
<1> DEFINE c == Counted(l, kind)
<1>0. /\ (l.parens + 1) % SizeMod \in 0..SizeMod - 1
      /\ (l.parens - 1) % SizeMod \in 0..SizeMod - 1
  BY SizeModAssumption DEF LoopState
<1>1. EndsStatement(l, kind) => l.keyword /\ IsTerminator(kind)
  BY DEF EndsStatement
<1>2. CASE kind \in Keywords
  <2>1. c = [l EXCEPT !.keyword = TRUE]
    BY <1>2, CountedCases
  <2>2. c \in LoopState /\ c.keyword /\ c.parens = l.parens /\ c.start = l.start
    BY <2>1 DEF LoopState
  <2> QED
    BY <1>2, <2>2, KeywordsEndNothing
<1>3. CASE kind = "("
  <2>1. c = [l EXCEPT !.parens = (l.parens + 1) % SizeMod]
    BY <1>3, CountedCases
  <2>2. c \in LoopState /\ c.keyword = l.keyword /\ c.parens = (l.parens + 1) % SizeMod /\ c.start = l.start
    BY <2>1, <1>0 DEF LoopState
  <2> QED
    BY <1>1, <1>3, <2>2, KeywordsEndNothing
<1>4. CASE kind = ")"
  <2>1. c = [l EXCEPT !.parens = (l.parens - 1) % SizeMod]
    BY <1>4, CountedCases
  <2>2. c \in LoopState /\ c.keyword = l.keyword /\ c.parens = (l.parens - 1) % SizeMod /\ c.start = l.start
    BY <2>1, <1>0 DEF LoopState
  <2> QED
    BY <1>1, <1>4, <2>2, KeywordsEndNothing
<1>5. CASE kind \notin Keywords \cup {"(", ")"} /\ EndsStatement(l, kind)
  <2>1. c = [l EXCEPT !.keyword = FALSE]
    BY <1>5, CountedCases
  <2>2. c \in LoopState /\ ~c.keyword /\ c.parens = l.parens /\ c.start = l.start
    BY <2>1 DEF LoopState
  <2> QED
    BY <1>5, <2>2
<1>6. CASE kind \notin Keywords \cup {"(", ")"} /\ ~EndsStatement(l, kind)
  <2>1. c = l
    BY <1>6, CountedCases
  <2> QED
    BY <1>6, <2>1
<1> QED
  BY <1>2, <1>3, <1>4, <1>5, <1>6

\* That depends on keyword_before_terminator and open_parens only.
LEMMA SameCount ==
  ASSUME NEW l \in LoopState, NEW m \in LoopState, NEW kind,
         l.keyword = m.keyword, l.parens = m.parens
  PROVE  /\ Counted(l, kind).keyword = Counted(m, kind).keyword
         /\ Counted(l, kind).parens = Counted(m, kind).parens
         /\ EndsStatement(l, kind) <=> EndsStatement(m, kind)
<1>1. EndsStatement(l, kind) <=> EndsStatement(m, kind)
  BY DEF EndsStatement
<1>2. Counted(l, kind).keyword <=> Counted(m, kind).keyword
  BY <1>1, CountedIs
<1>3. Counted(l, kind).keyword \in BOOLEAN /\ Counted(m, kind).keyword \in BOOLEAN
  <2>1. Counted(l, kind) \in LoopState /\ Counted(m, kind) \in LoopState
    BY CountedIs
  <2> QED
    BY <2>1 DEF LoopState
<1> QED
  BY <1>1, <1>2, <1>3, CountedIs

\* One more token.
LEMMA TraceGrows ==
  ASSUME NEW L, NEW C, NEW k \in Nat, Trace(L, C, k),
         NEW kind, kind = text[k + 1].kind, kind # "BAD"
  PROVE  \E LL, CC : /\ Trace(LL, CC, k + 1)
                     /\ LL[k + 1] = Counted(L[k], kind)
                     /\ CC[k + 1] = C[k] + Ended(L[k], kind)
<1> DEFINE LL == [i \in 0..k + 1 |-> IF i = k + 1 THEN Counted(L[k], kind) ELSE L[i]]
           CC == [i \in 0..k + 1 |-> IF i = k + 1 THEN C[k] + Ended(L[k], kind) ELSE C[i]]
<1>0. /\ L \in [0..k -> LoopState] /\ C \in [0..k -> Nat]
      /\ L[0] = LoopStart /\ C[0] = 0
      /\ \A i \in 1..k : /\ text[i].kind # "BAD"
                         /\ L[i] = Counted(L[i - 1], text[i].kind)
                         /\ C[i] = C[i - 1] + Ended(L[i - 1], text[i].kind)
      /\ \A i \in 0..k : C[i] <= C[k]
      /\ C[k] + (IF L[k].keyword THEN 1 ELSE 0) <= k
  BY DEF Trace
<1>1. \A i \in 0..k : LL[i] = L[i] /\ CC[i] = C[i] /\ L[i] \in LoopState /\ C[i] \in Nat
  BY <1>0
<1>2. LL[k + 1] = Counted(L[k], kind) /\ CC[k + 1] = C[k] + Ended(L[k], kind)
  OBVIOUS
<1>3. Ended(L[k], kind) \in {0, 1} /\ Counted(L[k], kind) \in LoopState
  <2>1. L[k] \in LoopState
    BY <1>0
  <2> QED
    BY <2>1, CountedIs DEF Ended
<1> HIDE DEF LL, CC
<1>4. \A i \in 0..k + 1 : i \in 0..k \/ i = k + 1
  OBVIOUS
<1>5. LL \in [0..k + 1 -> LoopState] /\ CC \in [0..k + 1 -> Nat]
  <2>1. CC[k + 1] \in Nat
    BY <1>1, <1>2, <1>3
  <2>2. DOMAIN LL = 0..k + 1 /\ DOMAIN CC = 0..k + 1
        /\ LL = [i \in 0..k + 1 |-> LL[i]] /\ CC = [i \in 0..k + 1 |-> CC[i]]
    BY DEF LL, CC
  <2>3. \A i \in 0..k + 1 : LL[i] \in LoopState /\ CC[i] \in Nat
    BY <1>1, <1>2, <1>3, <1>4, <2>1
  <2> QED
    BY <2>2, <2>3
<1>6. LL[0] = LoopStart /\ CC[0] = 0
  BY <1>0, <1>1
<1>7. \A i \in 1..k + 1 :
        /\ text[i].kind # "BAD"
        /\ LL[i] = Counted(LL[i - 1], text[i].kind)
        /\ CC[i] = CC[i - 1] + Ended(LL[i - 1], text[i].kind)
  <2> TAKE i \in 1..k + 1
  <2>1. CASE i = k + 1
    <3>1. i - 1 = k
      BY <2>1
    <3>2. LL[i - 1] = L[k] /\ CC[i - 1] = C[k]
      BY <3>1, <1>1
    <3> QED
      BY <2>1, <3>2, <1>2
  <2>2. CASE i # k + 1
    <3>1. i \in 1..k /\ i - 1 \in 0..k /\ i \in 0..k
      BY <2>2
    <3>2. LL[i] = L[i] /\ CC[i] = C[i] /\ LL[i - 1] = L[i - 1] /\ CC[i - 1] = C[i - 1]
      BY <3>1, <1>1
    <3> QED
      BY <3>1, <3>2, <1>0
  <2> QED
    BY <2>1, <2>2
<1>8. \A i \in 0..k + 1 : CC[i] <= CC[k + 1]
  <2> TAKE i \in 0..k + 1
  <2>1. CASE i \in 0..k
    BY <2>1, <1>0, <1>1, <1>2, <1>3
  <2>2. CASE i = k + 1
    BY <2>2, <1>1, <1>2, <1>3
  <2> QED
    BY <1>4, <2>1, <2>2
<1>9. CC[k + 1] + (IF LL[k + 1].keyword THEN 1 ELSE 0) <= k + 1
  <2>1. L[k] \in LoopState /\ C[k] \in Nat
    BY <1>1
  <2>2. Counted(L[k], kind).keyword => kind \in Keywords \/ (L[k].keyword /\ ~EndsStatement(L[k], kind))
    BY <2>1, CountedIs
  <2>3. EndsStatement(L[k], kind) => L[k].keyword /\ kind \notin Keywords
    BY KeywordsEndNothing DEF EndsStatement, IsTerminator
  <2>4. CASE EndsStatement(L[k], kind)
    BY <2>1, <2>2, <2>3, <2>4, <1>0, <1>2 DEF Ended
  <2>5. CASE ~EndsStatement(L[k], kind)
    <3>1. CC[k + 1] = C[k]
      BY <2>1, <2>5, <1>2 DEF Ended
    <3> QED
      BY <2>1, <3>1, <1>0
  <2> QED
    BY <2>4, <2>5
<1>10. Trace(LL, CC, k + 1)
  BY <1>5, <1>6, <1>7, <1>8, <1>9 DEF Trace
<1> QED
  BY <1>2, <1>10

\* A loop, token by token.
LEMMA TraceFields ==
  ASSUME NEW L, NEW C, NEW k \in Nat, Trace(L, C, k)
  PROVE  /\ \A i \in 0..k : L[i] \in LoopState /\ C[i] \in Nat /\ C[i] <= C[k]
         /\ \A i \in 0..k - 1 : text[i + 1].kind # "BAD"
         /\ \A i \in 0..k - 1 : L[i + 1] = Counted(L[i], text[i + 1].kind)
         /\ \A i \in 0..k - 1 : C[i + 1] = C[i] + Ended(L[i], text[i + 1].kind)
         /\ L[0] = LoopStart /\ C[0] = 0
         /\ C[k] + (IF L[k].keyword THEN 1 ELSE 0) <= k
<1>1. \A i \in 0..k - 1 : i + 1 \in 1..k /\ (i + 1) - 1 = i
  OBVIOUS
<1>2. L \in [0..k -> LoopState] /\ C \in [0..k -> Nat]
  BY DEF Trace
<1>3. \A i \in 1..k : /\ text[i].kind # "BAD"
                      /\ L[i] = Counted(L[i - 1], text[i].kind)
                      /\ C[i] = C[i - 1] + Ended(L[i - 1], text[i].kind)
  BY DEF Trace
<1>4. \A i \in 0..k - 1 :
        /\ text[i + 1].kind # "BAD"
        /\ L[i + 1] = Counted(L[i], text[i + 1].kind)
        /\ C[i + 1] = C[i] + Ended(L[i], text[i + 1].kind)
  <2> TAKE i \in 0..k - 1
  <2> QED
    BY <1>1, <1>3
<1> QED
  BY <1>2, <1>4 DEF Trace

LEMMA LoopStartType ==
  ASSUME IsText(text)
  PROVE  LoopStart \in LoopState
BY Ends, SizeModAssumption DEF LoopStart, LoopState

LEMMA TraceStarts ==
  ASSUME IsText(text)
  PROVE  Trace([i \in 0..0 |-> LoopStart], [i \in 0..0 |-> 0], 0)
<1>1. 0..0 = {0}
  OBVIOUS
<1> QED
  BY <1>1, LoopStartType DEF Trace, LoopStart

\* The first loop takes a token of the text.
LEMMA CountToken ==
  ASSUME IsText(text), NEW k \in 0..Len(text), NEW L, NEW C, Counting(L, C, k),
         k < Len(text), text[k + 1].kind # "BAD",
         UNCHANGED text,
         flex' = ScannerAt(Position(k + 1)),
         loop' = Counted(loop, text[k + 1].kind),
         nStmts' = IF EndsStatement(loop, text[k + 1].kind) THEN nStmts + 1 ELSE nStmts
  PROVE  \E LL, CC : Counting(LL, CC, k + 1)'
<1> DEFINE kind == text[k + 1].kind
<1>0. k \in Nat /\ Len(text) \in Nat /\ k + 1 \in 0..Len(text)
  BY TextIsSorted
<1>1. Trace(L, C, k) /\ loop = L[k] /\ loop.start = 0 /\ nStmts = C[k]
  BY DEF Counting
<1>2. PICK LL, CC : /\ Trace(LL, CC, k + 1)
                    /\ LL[k + 1] = Counted(L[k], kind)
                    /\ CC[k + 1] = C[k] + Ended(L[k], kind)
  BY <1>0, <1>1, TraceGrows
<1>3. HasRead(k + 1, flex')
  BY <1>0, ScannerAtRead
<1>5. L[k] \in LoopState /\ C[k] \in Nat
  BY <1>0, <1>1, TraceFields
<1>6. loop'.start = 0 /\ loop' = LL[k + 1]
  BY <1>1, <1>2, <1>5, CountedIs
<1>7. nStmts' = CC[k + 1]
  BY <1>1, <1>2, <1>5 DEF Ended
<1>8. HasRead(k + 1, flex)'
  BY <1>3 DEF HasRead, Flex, Position
<1>9. Trace(LL, CC, k + 1)'
  BY <1>2 DEF Trace, LoopState
<1> QED
  BY <1>6, <1>7, <1>8, <1>9 DEF Counting

\* The second loop takes a token at loc, as the first one did, and writes the
\* statement that ends there.
LEMMA FilledIs ==
  ASSUME IsText(text), NEW l \in LoopState, NEW kind, NEW loc \in 0..EndOf(text)
  PROVE  /\ Filled(l, kind, loc) \in LoopState
         /\ Filled(l, kind, loc).keyword = Counted(l, kind).keyword
         /\ Filled(l, kind, loc).parens = Counted(l, kind).parens
         /\ Filled(l, kind, loc).start \in {l.start, loc + 1}
         /\ EndsStatement(l, kind) => Filled(l, kind, loc).start = loc + 1
         /\ Filled(l, kind, loc).keyword => Filled(l, kind, loc).start = l.start
<1> DEFINE c == Counted(l, kind)
<1>1. /\ c \in LoopState /\ c.start = l.start
      /\ c.keyword <=> kind \in Keywords \/ (l.keyword /\ ~EndsStatement(l, kind))
  BY CountedIs
<1>2. CASE EndsStatement(l, kind) \/ (l.parens = 0 /\ kind = ";")
  <2>1. Filled(l, kind, loc) = [c EXCEPT !.start = loc + 1]
    BY <1>2 DEF Filled
  <2>2. ~c.keyword
    <3>1. kind \notin Keywords
      BY <1>2, KeywordsEndNothing DEF EndsStatement, IsTerminator
    <3>2. l.keyword => EndsStatement(l, kind)
      BY <1>2 DEF EndsStatement, IsTerminator
    <3> QED
      BY <1>1, <3>1, <3>2
  <2> HIDE DEF c
  <2>3. /\ [c EXCEPT !.start = loc + 1] \in LoopState
        /\ [c EXCEPT !.start = loc + 1].keyword = c.keyword
        /\ [c EXCEPT !.start = loc + 1].parens = c.parens
        /\ [c EXCEPT !.start = loc + 1].start = loc + 1
    <3>1. loc + 1 \in 0..EndOf(text) + 1
      BY Ends
    <3> QED
      BY <1>1, <3>1 DEF LoopState
  <2> QED
    BY <2>1, <2>2, <2>3 DEF c
<1>3. CASE ~(EndsStatement(l, kind) \/ (l.parens = 0 /\ kind = ";"))
  <2>1. Filled(l, kind, loc) = c
    BY <1>3 DEF Filled
  <2> QED
    BY <1>1, <1>3, <2>1
<1> QED
  BY <1>2, <1>3

LEMMA StatementWritten ==
  ASSUME IsText(text), NEW kind, NEW loc \in 0..EndOf(text),
         loop \in LoopState, Before(loop.start), loop.start <= loc,
         loop.keyword => loop.start < loc,
         UNCHANGED text,
         loop' = Filled(loop, kind, loc),
         stmts' = IF EndsStatement(loop, kind)
                  THEN Append(stmts, [location |-> loop.start, len |-> loc - loop.start])
                  ELSE stmts
  PROVE  /\ Before(loop.start)'
         /\ loop'.start <= loc + 1
         /\ loop'.keyword => loop'.start < loc + 1
         /\ Len(stmts') = Len(stmts) + Ended(loop, kind)
<1>0. /\ EndOf(text) \in Nat /\ loop.start \in Nat /\ loc \in Nat
      /\ stmts \in Seq([location : Nat, len : Nat]) /\ Len(stmts) \in Nat
  BY Ends, LenProperties DEF LoopState, Before
<1>1. /\ loop'.start \in {loop.start, loc + 1}
      /\ EndsStatement(loop, kind) => loop'.start = loc + 1
      /\ loop'.keyword => loop'.start = loop.start
  BY FilledIs
<1>2. \A i \in 1..Len(stmts) :
        /\ stmts[i] \in [location : Nat, len : Nat]
        /\ stmts[i].location \in Nat /\ stmts[i].len \in Nat
        /\ stmts[i].len > 0
        /\ stmts[i].location + stmts[i].len <= EndOf(text)
        /\ i < Len(stmts) => stmts[i].location + stmts[i].len < stmts[i + 1].location
        /\ i = Len(stmts) => stmts[i].location + stmts[i].len < loop.start
  <2>1. \A i \in 1..Len(stmts) : stmts[i] \in [location : Nat, len : Nat]
    BY <1>0, ElementOfSeq
  <2> QED
    BY <2>1 DEF Before
<1>3. CASE EndsStatement(loop, kind)
  <2> DEFINE new == [location |-> loop.start, len |-> loc - loop.start]
  <2>1. loop.keyword /\ loop.start < loc /\ loop'.start = loc + 1
    BY <1>1, <1>3 DEF EndsStatement
  <2>2. new \in [location : Nat, len : Nat] /\ new.len > 0
        /\ new.location + new.len = loc /\ new.location = loop.start
    BY <1>0, <2>1
  <2>3. stmts' = Append(stmts, new)
    BY <1>3
  <2> HIDE DEF new
  <2>4. /\ stmts' \in Seq([location : Nat, len : Nat])
        /\ Len(stmts') = Len(stmts) + 1
        /\ \A i \in 1..Len(stmts) : stmts'[i] = stmts[i]
        /\ stmts'[Len(stmts) + 1] = new
    <3> DEFINE S == [location : Nat, len : Nat]
    <3>1. stmts \in Seq(S) /\ new \in S
      BY <1>0, <2>2
    <3> HIDE DEF S
    <3>2. /\ Append(stmts, new) \in Seq(S)
          /\ Len(Append(stmts, new)) = Len(stmts) + 1
          /\ \A i \in 1..Len(stmts) : Append(stmts, new)[i] = stmts[i]
          /\ Append(stmts, new)[Len(stmts) + 1] = new
      BY <3>1, AppendProperties
    <3> QED
      BY <2>3, <3>2 DEF S
  <2>5. ASSUME NEW i \in 1..Len(stmts')
        PROVE  /\ stmts'[i].len > 0
               /\ stmts'[i].location + stmts'[i].len <= EndOf(text)
               /\ i < Len(stmts') => stmts'[i].location + stmts'[i].len < stmts'[i + 1].location
               /\ i = Len(stmts') => stmts'[i].location + stmts'[i].len < loc + 1
    <3>1. CASE i = Len(stmts) + 1
      BY <1>0, <2>2, <2>4, <3>1
    <3>2. CASE i = Len(stmts)
      <4>1. i \in 1..Len(stmts)
        BY <1>0, <2>4, <3>2
      <4>2. stmts'[i] = stmts[i] /\ stmts'[i + 1] = new
        BY <2>4, <3>2, <4>1
      <4> QED
        BY SMTT(30), <1>0, <1>2, <2>2, <2>4, <3>2, <4>1, <4>2
    <3>3. CASE i < Len(stmts)
      <4>1. i \in 1..Len(stmts) /\ i + 1 \in 1..Len(stmts)
        BY SMTT(30), <1>0, <2>4, <3>3
      <4>2. stmts'[i] = stmts[i] /\ stmts'[i + 1] = stmts[i + 1]
        BY <2>4, <4>1
      <4>3. /\ stmts[i].len > 0
            /\ stmts[i].location + stmts[i].len <= EndOf(text)
            /\ stmts[i].location + stmts[i].len < stmts[i + 1].location
        BY <1>2, <3>3, <4>1
      <4>4. i # Len(stmts')
        BY <1>0, <2>4, <3>3
      <4> QED
        BY <4>2, <4>3, <4>4
    <3> QED
      BY <1>0, <2>4, <3>1, <3>2, <3>3
  <2>6. Ended(loop, kind) = 1
    BY <1>3 DEF Ended
  <2>7. ~ loop'.keyword
    BY <1>0, <1>1, <2>1
  <2>8. Before(loop.start)'
    BY <2>1, <2>4, <2>5 DEF Before
  <2> QED
    BY <1>0, <2>1, <2>4, <2>6, <2>7, <2>8
<1>4. CASE ~EndsStatement(loop, kind)
  <2>1. stmts' = stmts /\ Ended(loop, kind) = 0
    BY <1>4 DEF Ended
  <2>2. loop.start <= loop'.start /\ loop'.start \in Nat /\ loop'.start <= loc + 1
    BY <1>0, <1>1
  <2>3. \A i \in 1..Len(stmts) : i = Len(stmts) => stmts[i].location + stmts[i].len < loop'.start
    BY <1>0, <1>2, <2>2
  <2>4. Before(loop.start)'
    BY <1>0, <1>2, <2>1, <2>3 DEF Before
  <2> QED
    BY <1>0, <1>1, <2>1, <2>2, <2>4
<1> QED
  BY <1>3, <1>4

\* The second loop takes a token of the text, which is none the scanner rejects.
LEMMA FillToken ==
  ASSUME IsText(text), NEW k \in 0..Len(text), NEW L, NEW C, Filling(L, C, k),
         Before(loop.start), loop.start <= flex.at, loop.keyword => loop.start < flex.at,
         k < Len(text),
         UNCHANGED <<text, nStmts>>,
         flex' = ScannerAt(Position(k + 1)),
         loop' = Filled(loop, text[k + 1].kind, text[k + 1].at),
         stmts' = IF EndsStatement(loop, text[k + 1].kind)
                  THEN Append(stmts, [location |-> loop.start, len |-> text[k + 1].at - loop.start])
                  ELSE stmts
  PROVE  /\ Filling(L, C, k + 1)'
         /\ Before(loop.start)'
         /\ loop'.start <= flex'.at
         /\ loop'.keyword => loop'.start < flex'.at
<1> DEFINE kind == text[k + 1].kind
           loc == text[k + 1].at
<1>0. k \in Nat /\ Len(text) \in Nat /\ k + 1 \in 1..Len(text) /\ k \in 0..Len(text) - 1
      /\ k + 1 \in 0..Len(text)
  BY TextIsSorted
<1>1. /\ HasRead(k, flex) /\ Trace(L, C, Len(text)) /\ loop \in LoopState
      /\ loop.keyword = L[k].keyword /\ loop.parens = L[k].parens
      /\ nStmts = C[Len(text)] + Ended(L[Len(text)], "EOF")
      /\ Len(stmts) = C[k]
  BY DEF Filling
<1>2. loc \in 0..EndOf(text) /\ flex.at <= loc /\ flex.at \in Nat /\ loop.start \in Nat
      /\ Position(k + 1) = loc + 1
  <2>1. flex.at = Position(k) /\ Position(k) \in 0..EndOf(text)
    BY <1>1, Ends DEF HasRead
  <2>2. loc \in Nat /\ loc < EndOf(text) /\ loc >= Position(k)
    BY <1>0, TextIsSorted, Ends
  <2> QED
    BY <1>0, <1>1, <2>1, <2>2, Ends DEF Position, LoopState
<1>3. /\ L[k] \in LoopState
      /\ L[k + 1] = Counted(L[k], kind)
      /\ C[k + 1] = C[k] + Ended(L[k], kind)
  BY <1>0, <1>1, TraceFields
<1>4. /\ Counted(loop, kind).keyword = L[k + 1].keyword
      /\ Counted(loop, kind).parens = L[k + 1].parens
      /\ EndsStatement(loop, kind) <=> EndsStatement(L[k], kind)
  BY <1>1, <1>3, SameCount
<1>5. /\ loop' \in LoopState
      /\ loop'.keyword = L[k + 1].keyword /\ loop'.parens = L[k + 1].parens
  BY <1>1, <1>2, <1>4, FilledIs
<1>6. Ended(loop, kind) = Ended(L[k], kind)
  BY <1>4 DEF Ended
<1>7. /\ Before(loop.start)'
      /\ loop'.start <= loc + 1
      /\ loop'.keyword => loop'.start < loc + 1
      /\ Len(stmts') = Len(stmts) + Ended(loop, kind)
  <2>1. loop.start <= loc /\ (loop.keyword => loop.start < loc)
    BY <1>2
  <2> HIDE DEF kind, loc
  <2> QED
    BY <1>1, <1>2, <2>1, StatementWritten DEF kind, loc
<1>8. flex'.at = loc + 1
  BY <1>2 DEF ScannerAt
<1>9. HasRead(k + 1, flex)'
  <2>1. HasRead(k + 1, flex')
    BY <1>0, ScannerAtRead
  <2> QED
    BY <2>1 DEF HasRead, Flex, Position
<1>10. Trace(L, C, Len(text))'
  BY <1>1 DEF Trace, LoopState
<1>11. loop' \in LoopState'
  BY <1>5 DEF LoopState
<1>12. Len(stmts') = C[k + 1]
  BY <1>1, <1>3, <1>6, <1>7
<1>13. nStmts' = C[Len(text')] + Ended(L[Len(text')], "EOF")
  BY <1>1
<1>14. Filling(L, C, k + 1)'
  <2> HIDE DEF kind, loc
  <2> QED
    BY <1>5, <1>9, <1>10, <1>11, <1>12, <1>13 DEF Filling
<1> QED
  BY <1>7, <1>8, <1>14

-----------------------------------------------------------------------------
(***************************************************************************)
(* The parser                                                              *)
(***************************************************************************)
RawStmt == [location : Nat, len : Nat]
Raw == [list : Seq(RawStmt), keyword : BOOLEAN, words : BOOLEAN, parens : Int,
        body : Int, atomic : BOOLEAN, semicolon : Int, accepted : BOOLEAN]

\* The last statement starts before the ';' that gives its length.
RawInv(r) ==
  /\ r \in Raw
  /\ r.semicolon >= NoLocation
  /\ r.list # <<>> => r.list[Len(r.list)].location <= r.semicolon

LEMMA WithEndType ==
  ASSUME NEW list \in Seq(RawStmt), NEW at \in Int,
         list # <<>> => list[Len(list)].location <= at
  PROVE  /\ WithEnd(list, at) \in Seq(RawStmt)
         /\ list # <<>> => WithEnd(list, at)[Len(list)].location = list[Len(list)].location
         /\ Len(WithEnd(list, at)) = Len(list)
<1>1. CASE list = <<>>
  BY <1>1 DEF WithEnd
<1>2. CASE list # <<>>
  <2> DEFINE n == Len(list)
             e == [list[n] EXCEPT !.len = at - list[n].location]
  <2>1. n \in Nat /\ n \in 1..n
    BY <1>2, LenProperties, EmptySeq
  <2>2. list[n] \in RawStmt
    BY <2>1, ElementOfSeq
  <2>3. list[n].location \in Nat /\ at - list[n].location \in Nat
    BY <1>2, <2>2 DEF RawStmt
  <2>4. e \in RawStmt /\ e.location = list[n].location
    BY <2>2, <2>3 DEF RawStmt
  <2> HIDE DEF e
  <2>5. [list EXCEPT ![n] = e] \in Seq(RawStmt) /\ Len([list EXCEPT ![n] = e]) = n
        /\ [list EXCEPT ![n] = e][n] = e
    <3>1. [list EXCEPT ![n] = e] \in Seq(RawStmt)
      BY <2>1, <2>4, ExceptSeq
    <3> QED
      BY <2>1, <3>1, ExceptSeq, <2>4
  <2>6. WithEnd(list, at) \in {list, [list EXCEPT ![n] = e]}
    <3>1. Last(list) = list[n]
      BY DEF Last
    <3> QED
      BY <3>1 DEF WithEnd, e
  <2> QED
    BY <2>4, <2>5, <2>6
<1> QED
  BY <1>1, <1>2

\* What the grammar has found when a token ends a statement, or nothing.
LEMMA StmtmultiType ==
  ASSUME NEW r, RawInv(r), NEW at \in Nat, r.semicolon < at
  PROVE  /\ Stmtmulti(r) \in Seq(RawStmt)
         /\ Stmtmulti(r) # <<>> => Stmtmulti(r)[Len(Stmtmulti(r))].location <= at
<1> DEFINE ended == IF r.semicolon = NoLocation THEN r.list ELSE WithEnd(r.list, r.semicolon)
           start == IF r.semicolon = NoLocation THEN 0 ELSE r.semicolon + 1
           new == [location |-> start, len |-> 0]
<1>1. /\ r.list \in Seq(RawStmt) /\ r.semicolon \in Int /\ r.semicolon >= -1
      /\ r.list # <<>> => r.list[Len(r.list)].location <= r.semicolon
      /\ NoLocation = -1
  BY DEF RawInv, Raw, NoLocation
<1>2. /\ ended \in Seq(RawStmt) /\ Len(ended) = Len(r.list)
      /\ r.list # <<>> => ended[Len(ended)].location = r.list[Len(r.list)].location
  BY <1>1, WithEndType
<1>3. new \in RawStmt /\ new.location <= at
  BY <1>1 DEF RawStmt
<1>4. Stmtmulti(r) = IF r.words THEN Append(ended, new) ELSE ended
  BY DEF Stmtmulti
<1> HIDE DEF ended, new
<1>5. CASE r.words
  <2>1. /\ Append(ended, new) \in Seq(RawStmt)
        /\ Len(Append(ended, new)) = Len(ended) + 1
        /\ Append(ended, new)[Len(ended) + 1] = new
    BY <1>2, <1>3, AppendProperties
  <2> QED
    BY <1>3, <1>4, <1>5, <2>1
<1>6. CASE ~r.words
  <2>1. ended # <<>> => r.list # <<>>
    BY <1>1, <1>2, EmptySeq
  <2>2. r.list # <<>> => r.list[Len(r.list)].location \in Nat
    <3>1. r.list # <<>> => Len(r.list) \in 1..Len(r.list)
      BY <1>1, LenProperties, EmptySeq
    <3>2. r.list # <<>> => r.list[Len(r.list)] \in RawStmt
      BY <1>1, <3>1, ElementOfSeq
    <3> QED
      BY <3>2 DEF RawStmt
  <2> QED
    BY <1>1, <1>2, <1>4, <1>6, <2>1, <2>2
<1> QED
  BY <1>5, <1>6

\* The list with the statement before a token at at.
Terminated(r, list, at, a) ==
  [r EXCEPT !.list = list, !.semicolon = at, !.words = FALSE, !.keyword = FALSE, !.accepted = a]

LEMMA ReduceCases ==
  ASSUME NEW r, NEW d
  PROVE  \/ /\ d.kind = "("
            /\ Reduce(r, d) = [r EXCEPT !.parens = @ + 1, !.words = TRUE]
         \/ /\ d.kind = ")"
            /\ Reduce(r, d) = [r EXCEPT !.parens = @ - 1, !.words = TRUE,
                                        !.accepted = @ /\ r.parens > 0]
         \/ Reduce(r, d) = Terminated(r, Stmtmulti(r), d.at, r.accepted /\ (r.words => r.keyword))
         \/ Reduce(r, d) = [r EXCEPT !.accepted = FALSE]
         \/ Reduce(r, d) = r
         \/ Reduce(r, d) = [r EXCEPT !.words = TRUE,
                                     !.keyword = @ \/ d.kind \notin {"IDENT", "SCONST"},
                                     !.body = Bodies(r, d.kind),
                                     !.atomic = @ \/ d.kind = "ATOMIC"]
<1> DEFINE A == [r EXCEPT !.parens = @ + 1, !.words = TRUE]
           B == [r EXCEPT !.parens = @ - 1, !.words = TRUE, !.accepted = @ /\ r.parens > 0]
           D == [r EXCEPT !.list = Stmtmulti(r), !.semicolon = d.at, !.words = FALSE,
                          !.keyword = FALSE, !.accepted = @ /\ (r.words => r.keyword)]
           E == [r EXCEPT !.accepted = FALSE]
           F == [r EXCEPT !.words = TRUE, !.keyword = @ \/ d.kind \notin {"IDENT", "SCONST"},
                          !.body = Bodies(r, d.kind), !.atomic = @ \/ d.kind = "ATOMIC"]
<1>1. Reduce(r, d) =
        CASE d.kind = "(" -> A [] d.kind = ")" -> B
          [] IsTerminator(d.kind) /\ Outermost(r) -> D
          [] d.kind = "EOF" /\ ~Outermost(r) -> E
          [] d.kind = ";" /\ ~Outermost(r) -> r
          [] OTHER -> F
  BY DEF Reduce
<1> HIDE DEF A, B, D, E, F
<1>2. \/ d.kind = "(" /\ Reduce(r, d) = A
      \/ d.kind = ")" /\ Reduce(r, d) = B
      \/ Reduce(r, d) = D \/ Reduce(r, d) = E \/ Reduce(r, d) = r \/ Reduce(r, d) = F
  BY <1>1 DEF IsTerminator
<1> QED
  BY <1>2 DEF A, B, D, E, F, Terminated

LEMMA RawSet ==
  ASSUME NEW r \in Raw, NEW list \in Seq(RawStmt), NEW at \in Int,
         NEW a \in BOOLEAN
  PROVE  /\ Terminated(r, list, at, a) \in Raw
         /\ Terminated(r, list, at, a).list = list
         /\ Terminated(r, list, at, a).semicolon = at
<1> DEFINE q1 == [r EXCEPT !.list = list, !.semicolon = at]
           q2 == [q1 EXCEPT !.words = FALSE, !.keyword = FALSE]
           q3 == [q2 EXCEPT !.accepted = a]
<1>1. q1 \in Raw /\ q1.list = list /\ q1.semicolon = at
  BY DEF Raw
<1>2. q2 \in Raw /\ q2.list = list /\ q2.semicolon = at
  <2> HIDE DEF q1
  <2> QED
    BY <1>1 DEF Raw
<1>3. q3 \in Raw /\ q3.list = list /\ q3.semicolon = at
  <2> HIDE DEF q2
  <2> QED
    BY <1>2 DEF Raw
<1>4. Terminated(r, list, at, a) = q3
  BY DEF Terminated
<1> HIDE DEF q3
<1> QED
  BY <1>3, <1>4

LEMMA ReduceType ==
  ASSUME NEW r, RawInv(r), NEW d, d.at \in Nat, r.semicolon < d.at
  PROVE  RawInv(Reduce(r, d)) /\ Reduce(r, d).semicolon <= d.at
<1>0. r \in Raw /\ r.semicolon \in Int /\ r.parens \in Int /\ r.words \in BOOLEAN
      /\ r.keyword \in BOOLEAN /\ r.accepted \in BOOLEAN
      /\ r.body \in Int /\ r.atomic \in BOOLEAN
  BY DEF RawInv, Raw
<1> DEFINE Same(q) == q \in Raw /\ q.list = r.list /\ q.semicolon = r.semicolon
<1>1. \A q : Same(q) => RawInv(q) /\ q.semicolon <= d.at
  BY <1>0 DEF RawInv
<1>2. /\ \A n \in Int : \A w \in BOOLEAN : Same([r EXCEPT !.parens = n, !.words = w])
      /\ \A n \in Int : \A w, a \in BOOLEAN :
           Same([r EXCEPT !.parens = n, !.words = w, !.accepted = a])
      /\ \A a \in BOOLEAN : Same([r EXCEPT !.accepted = a])
      /\ \A w, k, a \in BOOLEAN : \A b \in Int :
           Same([r EXCEPT !.words = w, !.keyword = k, !.body = b, !.atomic = a])
      /\ Same(r)
  <2>1. \A n \in Int : \A w \in BOOLEAN : Same([r EXCEPT !.parens = n, !.words = w])
    BY <1>0 DEF Raw
  <2>2. \A n \in Int : \A w, a \in BOOLEAN :
          Same([r EXCEPT !.parens = n, !.words = w, !.accepted = a])
    BY <1>0 DEF Raw
  <2>3. \A a \in BOOLEAN : Same([r EXCEPT !.accepted = a])
    BY <1>0 DEF Raw
  <2>4. \A w, k, a \in BOOLEAN : \A b \in Int :
          Same([r EXCEPT !.words = w, !.keyword = k, !.body = b, !.atomic = a])
    BY <1>0 DEF Raw
  <2>5. Same(r)
    BY <1>0
  <2> QED
    BY <2>1, <2>2, <2>3, <2>4, <2>5
<1>3. /\ Stmtmulti(r) \in Seq(RawStmt)
      /\ Stmtmulti(r) # <<>> => Stmtmulti(r)[Len(Stmtmulti(r))].location <= d.at
  BY StmtmultiType
<1>4. ASSUME NEW a \in BOOLEAN
      PROVE  /\ RawInv(Terminated(r, Stmtmulti(r), d.at, a))
             /\ Terminated(r, Stmtmulti(r), d.at, a).semicolon <= d.at
  <2>1. d.at \in Int
    OBVIOUS
  <2>2. /\ Terminated(r, Stmtmulti(r), d.at, a) \in Raw
        /\ Terminated(r, Stmtmulti(r), d.at, a).list = Stmtmulti(r)
        /\ Terminated(r, Stmtmulti(r), d.at, a).semicolon = d.at
    BY <1>0, <1>3, <2>1, RawSet
  <2> QED
    BY <1>3, <2>2 DEF RawInv, NoLocation
<1>5. /\ TRUE \in BOOLEAN /\ FALSE \in BOOLEAN
      /\ (r.accepted /\ r.parens > 0) \in BOOLEAN
      /\ (r.accepted /\ (r.words => r.keyword)) \in BOOLEAN
      /\ (r.keyword \/ d.kind \notin {"IDENT", "SCONST"}) \in BOOLEAN
      /\ (r.atomic \/ d.kind = "ATOMIC") \in BOOLEAN
      /\ r.parens + 1 \in Int /\ r.parens - 1 \in Int /\ Bodies(r, d.kind) \in Int
  BY <1>0 DEF Bodies
<1> HIDE DEF Same
<1>6. CASE Reduce(r, d) = [r EXCEPT !.parens = @ + 1, !.words = TRUE]
  BY <1>1, <1>2, <1>5, <1>6, Zenon
<1>7. CASE Reduce(r, d) = [r EXCEPT !.parens = @ - 1, !.words = TRUE,
                                    !.accepted = @ /\ r.parens > 0]
  BY <1>1, <1>2, <1>5, <1>7, Zenon
<1>8. CASE Reduce(r, d) = Terminated(r, Stmtmulti(r), d.at, r.accepted /\ (r.words => r.keyword))
  BY <1>4, <1>5, <1>8, Zenon
<1>9. CASE Reduce(r, d) = [r EXCEPT !.accepted = FALSE]
  BY <1>1, <1>2, <1>5, <1>9, Zenon
<1>10. CASE Reduce(r, d) = r
  BY <1>1, <1>2, <1>10
<1>11. CASE Reduce(r, d) = [r EXCEPT !.words = TRUE,
                                     !.keyword = @ \/ d.kind \notin {"IDENT", "SCONST"},
                                     !.body = Bodies(r, d.kind),
                                     !.atomic = @ \/ d.kind = "ATOMIC"]
  BY <1>1, <1>2, <1>5, <1>11, Zenon
<1> QED
  BY <1>6, <1>7, <1>8, <1>9, <1>10, <1>11, ReduceCases

-----------------------------------------------------------------------------
(***************************************************************************)
(* base_yylex                                                              *)
(***************************************************************************)
\* A token that ends where the scanner f is, after k tokens.
TokenIs(k, tok, f) ==
  \/ tok.kind \in Modes /\ tok.at = 0 /\ k = 0 /\ delivered = <<>>
  \/ k # 0 /\ tok = text[k] /\ Len(delivered) <= k /\ f = ScannerAt(Position(k))
  \/ tok = EndToken /\ k = Len(text) /\ Len(delivered) <= k + 1 /\ f = ScannerAt(Position(k))

\* It has not been delivered, and is behind every ';' that was.
Pending(k, cur) ==
  /\ HasRead(k, cur.flex)
  /\ TokenIs(k, cur.token, cur.flex)
  /\ raw.semicolon < cur.token.at

\* The scanner without the cut that base_yylex makes when it looks ahead.
Uncut == IF la.end = NoEnd THEN flex ELSE [flex EXCEPT !.buf[la.end] = la.hold]

La(T, H) == [have : BOOLEAN, token : T, end : 0..EndOf(text) \cup {NoEnd}, hold : H]

Types ==
  /\ flex \in Flex
  /\ \E T, H : la \in La(T, H)
  /\ yylloc \in 0..EndOf(text)
  /\ \E S : delivered \in Seq(S)

\* Between two calls, k tokens have been read.
Lexed(k) ==
  /\ Types
  /\ IF la.have THEN Pending(k, [token |-> la.token, flex |-> Uncut])
     ELSE HasRead(k, flex) /\ Len(delivered) <= k + 1 /\ raw.semicolon < Position(k)

Calling == {"ready", "skipping"}

ParserInv ==
  /\ IsText(text) /\ Types /\ RawInv(raw)
  /\ lexing \in Calling \cup {"done", "error", "invalid"}
  /\ Len(delivered) <= Len(text) + 2
  /\ lexing \in Calling => \E k \in 0..Len(text) : Lexed(k)
  /\ ErrorsQuoteTheToken

\* SplitWithParser gives the grammar what base_yylex delivers.
GrammarStep ==
  raw' = IF delivered' # delivered /\ Last(delivered').kind \notin Modes
         THEN Reduce(raw, Last(delivered')) ELSE raw

LEMMA ModesAreNoTokens ==
  ASSUME NEW m \in Modes
  PROVE  m \notin Kinds /\ m # "EOF" /\ m \notin Comments /\ m # "BAD" /\ ~LooksAhead(m)
<1>1. m \notin Kinds /\ m # "EOF"
  BY ModesAssumption
<1>2. Comments \subseteq Kinds /\ "BAD" \in Kinds
  BY DEF Kinds, Comments
<1>3. Unicode \subseteq Kinds /\ DOMAIN Following \subseteq Kinds
  BY DEF Unicode, Following, Kinds, Keywords
<1> QED
  BY <1>1, <1>2, <1>3 DEF LooksAhead

LEMMA EndIsNoToken ==
  "EOF" \notin Kinds /\ "EOF" \notin Comments /\ "EOF" # "BAD" /\ ~LooksAhead("EOF")
BY DEF Kinds, Keywords, Comments, LooksAhead, Unicode, Following

\* Where a quotation from y ends.
LEMMA FirstNul ==
  ASSUME NEW buf, NEW y \in Nat, NEW e \in Nat, NEW n \in Nat, y <= e, e <= n,
         buf[e] = Nul, \A p \in y..e - 1 : buf[p] = p
  PROVE  LET nuls == {p \in y..n : buf[p] = Nul}
         IN  (CHOOSE p \in nuls : \A q \in nuls : p <= q) = e
<1> DEFINE nuls == {p \in y..n : buf[p] = Nul}
           c == CHOOSE p \in nuls : \A q \in nuls : p <= q
<1>1. e \in nuls /\ \A q \in nuls : e <= q
  BY DEF Nul
<1>2. c \in nuls /\ \A q \in nuls : c <= q
  <2> HIDE DEF nuls
  <2> QED
    BY <1>1
<1>3. c \in Nat
  <2> HIDE DEF c
  <2> QED
    BY <1>2
<1>4. c <= e /\ e <= c
  BY <1>1, <1>2
<1> HIDE DEF c
<1>5. c = e
  BY <1>3, <1>4
<1> QED
  BY <1>5 DEF c

\* The buffer quotes what was delivered, or rejected.
LEMMA DeliveredIsQuoted ==
  ASSUME text' = text, EndOf(text) \in Nat, lexing' \in {"ready", "done"}, yylloc' \in Nat,
         NEW e \in Nat, Last(delivered').end = e, yylloc' <= e, e <= EndOf(text),
         flex'.buf[e] = Nul, \A p \in yylloc'..e - 1 : flex'.buf[p] = p
  PROVE  ErrorsQuoteTheToken'
<1>1. QuotedTo' = e
  BY FirstNul DEF QuotedTo
<1> QED
  BY <1>1 DEF ErrorsQuoteTheToken

LEMMA RejectedIsQuoted ==
  ASSUME text' = text, EndOf(text) \in Nat, lexing' = "error", NEW y \in Nat, yylloc' = y,
         y < EndOf(text) => flex'.buf[y + 1] = Nul /\ flex'.buf[y] = y
  PROVE  ErrorsQuoteTheToken'
<1>1. CASE y < EndOf(text)
  <2> DEFINE e == y + 1
             buf == flex'.buf
  <2>1. e \in Nat /\ y <= e /\ e <= EndOf(text) /\ y # e
    BY <1>1
  <2>2. buf[e] = Nul /\ buf[y] = y
    BY <1>1
  <2>3. \A p \in y..e - 1 : p = y
    OBVIOUS
  <2>4. \A p \in y..e - 1 : buf[p] = p
    BY <2>2, <2>3
  <2>5. QuotedTo' = LET nuls == {p \in y..EndOf(text) : buf[p] = Nul}
                    IN  CHOOSE p \in nuls : \A q \in nuls : p <= q
    BY DEF QuotedTo
  <2> HIDE DEF e, buf
  <2>6. QuotedTo' = e
    BY SMTT(30), <2>1, <2>2, <2>4, <2>5, FirstNul
  <2>7. QuotedTo' = y + 1 /\ flex'.buf[y] = y
    BY <2>2, <2>6 DEF e, buf
  <2> QED
    BY <2>7 DEF ErrorsQuoteTheToken
<1>2. CASE ~(y < EndOf(text))
  BY <1>2 DEF ErrorsQuoteTheToken
<1> QED
  BY <1>1, <1>2

LEMMA NothingIsQuoted ==
  ASSUME lexing' \in {"skipping", "invalid"}
  PROVE  ErrorsQuoteTheToken'
BY DEF ErrorsQuoteTheToken

\* The token of a call is the one read ahead, or the next one.
LEMMA CurrentIs ==
  ASSUME IsText(text), RawInv(raw), NEW k \in 0..Len(text), Lexed(k)
  PROVE  \E j \in 0..Len(text) : Pending(j, Current)
<1>0. Len(text) \in Nat /\ raw.semicolon \in Int
  BY TextIsSorted DEF RawInv, Raw
<1>1. CASE la.have
  <2>1. Current = [token |-> la.token, flex |-> Uncut]
    BY <1>1 DEF Current, Uncut
  <2> QED
    BY <1>1, <2>1 DEF Lexed
<1>2. CASE ~la.have
  <2>1. Current = CoreYylex(text, flex)
    BY <1>2 DEF Current
  <2>2. HasRead(k, flex) /\ Len(delivered) <= k + 1 /\ raw.semicolon < Position(k)
    BY <1>2 DEF Lexed
  <2>3. CASE k < Len(text)
    <3>1. /\ k + 1 \in 1..Len(text)
          /\ Current.token = text[k + 1]
          /\ Current.flex = ScannerAt(Position(k + 1))
      BY <2>1, <2>2, <2>3, CoreYylexReads
    <3>2. Position(k) <= text[k + 1].at /\ Position(k) \in Nat /\ text[k + 1].at \in Nat
      <4>1. text[k + 1].at \in Nat
        BY <3>1, TextIsSorted
      <4>2. Position(k) \in 0..EndOf(text) /\ EndOf(text) \in Nat
        BY Ends
      <4>3. k + 1 > k
        BY <1>0
      <4>4. text[k + 1].at >= Position(k)
        BY <3>1, <4>3, Ends
      <4> QED
        BY <4>1, <4>2, <4>4
    <3>3. raw.semicolon < Current.token.at
      BY <1>0, <2>2, <3>1, <3>2
    <3>4. HasRead(k + 1, Current.flex)
      BY <1>0, <3>1, ScannerAtRead
    <3>5. k + 1 # 0 /\ k + 1 \in 0..Len(text)
      BY <1>0, <2>3
    <3>6. TokenIs(k + 1, Current.token, Current.flex)
      BY <2>2, <3>1, <3>5 DEF TokenIs
    <3> QED
      BY <3>3, <3>4, <3>5, <3>6 DEF Pending
  <2>4. CASE k = Len(text)
    <3>1. Current.token = EndToken /\ Current.flex = ScannerAt(Position(k))
      BY <2>1, <2>2, <2>4, CoreYylexReads
    <3>2. Current.token.at = Position(k)
      BY <2>4, <3>1, Ends DEF EndToken
    <3>3. TokenIs(k, Current.token, Current.flex)
      BY <2>2, <2>4, <3>1 DEF TokenIs
    <3>4. HasRead(k, Current.flex)
      BY <3>1, ScannerAtRead
    <3> QED
      BY <2>2, <3>2, <3>3, <3>4 DEF Pending
  <2> QED
    BY <1>0, <2>3, <2>4
<1>3. la.have \in BOOLEAN
  BY DEF Lexed, Types, La
<1> QED
  BY <1>1, <1>2

\* One more token for the grammar.
LEMMA ReturnGrows ==
  ASSUME Types, NEW kind, NEW at, NEW end, Return(kind, at, end)
  PROVE  /\ \E S : delivered' \in Seq(S)
         /\ Len(delivered') = Len(delivered) + 1
         /\ Last(delivered') = [kind |-> kind, at |-> at, end |-> end]
         /\ delivered' # delivered
         /\ yylloc' = at /\ lexing' \in {"ready", "done"}
         /\ kind = "EOF" => lexing' = "done"
<1> DEFINE d == [kind |-> kind, at |-> at, end |-> end]
<1>1. PICK S : delivered \in Seq(S)
  BY DEF Types
<1>2. delivered \in Seq(S \cup {d}) /\ d \in S \cup {d}
  BY <1>1, SeqMonotonic
<1>3. delivered' = Append(delivered, d)
  BY DEF Return
<1> HIDE DEF d
<1>4. /\ Append(delivered, d) \in Seq(S \cup {d})
      /\ Len(Append(delivered, d)) = Len(delivered) + 1
      /\ Append(delivered, d)[Len(delivered) + 1] = d
  BY <1>2, AppendProperties
<1>5. Len(delivered) \in Nat
  BY <1>2, LenProperties
<1> QED
  BY <1>3, <1>4, <1>5 DEF Last, Return, d

LEMMA ScannerAtBuf ==
  ASSUME IsText(text), NEW j \in 0..Len(text)
  PROVE  /\ Position(j) \in 0..EndOf(text)
         /\ ScannerAt(Position(j)).at = Position(j)
         /\ ScannerAt(Position(j)).buf[Position(j)] = Nul
         /\ \A p \in 0..Position(j) - 1 : ScannerAt(Position(j)).buf[p] = p
         /\ ScannerAt(Position(j)) \in Flex
<1> DEFINE e == Position(j)
<1>1. e \in 0..EndOf(text) /\ EndOf(text) \in Nat
  BY Ends
<1>2. ScannerAt(e) \in Flex
  BY ScannerAtRead DEF HasRead
<1> HIDE DEF e
<1>3. /\ Chars(text) \in [0..EndOf(text) -> 0..EndOf(text) \cup {Nul}]
      /\ \A p \in 0..e - 1 : Chars(text)[p] = p
  BY <1>1, CharsOf
<1>4. /\ ScannerAt(e).at = e
      /\ ScannerAt(e).buf = [Chars(text) EXCEPT ![e] = Nul]
  BY DEF ScannerAt
<1>5. \A p \in 0..e - 1 : p # e /\ p \in 0..EndOf(text)
  BY <1>1
<1>6. /\ [Chars(text) EXCEPT ![e] = Nul][e] = Nul
      /\ \A p \in 0..e - 1 : [Chars(text) EXCEPT ![e] = Nul][p] = p
  BY <1>1, <1>3, <1>5
<1>7. /\ e \in 0..EndOf(text) /\ ScannerAt(e).at = e /\ ScannerAt(e).buf[e] = Nul
      /\ \A p \in 0..e - 1 : ScannerAt(e).buf[p] = p
      /\ ScannerAt(e) \in Flex
  BY <1>1, <1>2, <1>4, <1>6
<1> QED
  BY <1>7 DEF e

\* The token of a call: a mode, one of the text, or its end.
LEMMA PendingIs ==
  ASSUME IsText(text), NEW j \in 0..Len(text), NEW cur, Pending(j, cur)
  PROVE  \/ /\ cur.token.kind \in Modes /\ cur.token.at = 0 /\ j = 0 /\ delivered = <<>>
         \/ /\ j \in 1..Len(text) /\ cur.token = text[j] /\ cur.token.kind \in Kinds
            /\ cur.token.at \in 0..EndOf(text) - 1 /\ cur.token.at + 1 = Position(j)
            /\ Len(delivered) <= j /\ cur.flex = ScannerAt(Position(j))
         \/ /\ cur.token = EndToken /\ cur.token.kind = "EOF" /\ cur.token.at = EndOf(text)
            /\ Position(j) = EndOf(text)
            /\ j = Len(text) /\ Len(delivered) <= j + 1 /\ cur.flex = ScannerAt(Position(j))
<1>0. Len(text) \in Nat
  BY TextIsSorted
<1>1. CASE cur.token.kind \in Modes /\ cur.token.at = 0 /\ j = 0 /\ delivered = <<>>
  BY <1>1
<1>2. CASE j # 0 /\ cur.token = text[j] /\ Len(delivered) <= j /\ cur.flex = ScannerAt(Position(j))
  <2>1. j \in 1..Len(text)
    BY <1>0, <1>2
  <2>2. text[j].at \in Nat /\ text[j].at < EndOf(text) /\ text[j].kind \in Kinds /\ EndOf(text) \in Nat
    BY <2>1, TextIsSorted, Ends
  <2>3. text[j].at + 1 = Position(j)
    BY <1>2 DEF Position
  <2>4. text[j].at \in 0..EndOf(text) - 1
    BY <2>2
  <2> QED
    BY <1>2, <2>1, <2>2, <2>3, <2>4
<1>3. CASE /\ cur.token = EndToken /\ j = Len(text) /\ Len(delivered) <= j + 1
           /\ cur.flex = ScannerAt(Position(j))
  BY <1>3, Ends DEF EndToken
<1> QED
  BY <1>1, <1>2, <1>3 DEF Pending, TokenIs

\* After a call that keeps no token ahead.
LEMMA LexedNext ==
  ASSUME text' = text, Types', ~la'.have, NEW j \in 0..Len(text), HasRead(j, flex'),
         Len(delivered') <= j + 1, raw'.semicolon < Position(j)
  PROVE  \E k \in 0..Len(text') : Lexed(k)'
<1>1. HasRead(j, flex)'
  BY DEF HasRead, Flex, Position
<1>2. Position(j)' = Position(j)
  BY DEF Position
<1>3. Lexed(j)'
  BY <1>1, <1>2 DEF Lexed
<1> QED
  BY <1>3

\* And after one that does.
LEMMA LexedAhead ==
  ASSUME IsText(text), text' = text, Types', la'.have, NEW j \in 0..Len(text),
         Uncut' = ScannerAt(Position(j)),
         \/ j # 0 /\ la'.token = text[j] /\ Len(delivered') <= j
         \/ la'.token = EndToken /\ j = Len(text) /\ Len(delivered') <= j + 1,
         raw'.semicolon < la'.token.at
  PROVE  \E k \in 0..Len(text') : Lexed(k)'
<1>1. HasRead(j, Uncut')
  BY ScannerAtRead
<1>2. HasRead(j, Uncut)'
  <2> HIDE DEF Uncut
  <2> QED
    BY <1>1 DEF HasRead, Flex, Position
<1>3. ScannerAt(Position(j))' = ScannerAt(Position(j)) /\ EndToken' = EndToken
  BY DEF ScannerAt, Position, EndToken
<1>4. TokenIs(j, la.token, Uncut)'
  BY <1>3 DEF TokenIs
<1>5. Lexed(j)'
  BY <1>2, <1>4 DEF Lexed, Pending
<1> QED
  BY <1>5

LEMMA LaType ==
  ASSUME Types
  PROVE  /\ \E T, H : [la EXCEPT !.have = FALSE] \in La(T, H)
         /\ ~[la EXCEPT !.have = FALSE].have
<1>1. PICK T, H : la \in La(T, H)
  BY DEF Types
<1>2. [la EXCEPT !.have = FALSE] \in La(T, H) /\ ~[la EXCEPT !.have = FALSE].have
  BY <1>1 DEF La
<1> QED
  BY <1>2

LEMMA TypesNext ==
  ASSUME text' = text, flex' \in Flex, \E T, H : la' \in La(T, H),
         yylloc' \in 0..EndOf(text), \E S : delivered' \in Seq(S)
  PROVE  Types'
<1>1. flex' \in Flex'
  BY DEF Flex
<1>2. (\E T, H : la \in La(T, H))'
  BY DEF La
<1> QED
  BY <1>1, <1>2 DEF Types

LEMMA SkipCommentInv ==
  ASSUME ParserInv, NEW j \in 0..Len(text), NEW cur, Pending(j, cur),
         SkipComment(cur), text' = text, GrammarStep
  PROVE  ParserInv'
<1>1. IsText(text) /\ Types /\ RawInv(raw) /\ Len(text) \in Nat
  BY TextIsSorted DEF ParserInv
<1>2. cur.token.kind \notin Modes /\ cur.token.kind # "EOF"
  BY ModesAreNoTokens, EndIsNoToken DEF SkipComment
<1>3. /\ j \in 1..Len(text) /\ cur.token.at \in 0..EndOf(text) - 1
      /\ cur.token.at + 1 = Position(j) /\ Len(delivered) <= j
  BY <1>1, <1>2, PendingIs
<1>4. raw' = raw /\ delivered' = delivered /\ lexing' = "skipping"
  BY DEF SkipComment, GrammarStep
<1>5. HasRead(j, flex')
  BY DEF Pending, SkipComment
<1>6. Types'
  <2>1. flex' \in Flex
    BY <1>5 DEF HasRead
  <2>2. yylloc' \in 0..EndOf(text)
    BY <1>1, <1>3, Ends DEF SkipComment
  <2>3. \E T, H : la' \in La(T, H)
    BY <1>1, LaType DEF SkipComment
  <2>4. \E S : delivered' \in Seq(S)
    BY <1>1, <1>4 DEF Types
  <2> QED
    BY <2>1, <2>2, <2>3, <2>4, TypesNext
<1>7. raw.semicolon < Position(j)
  BY <1>1, <1>3 DEF Pending, RawInv, Raw
<1>8. Len(delivered') \in Nat
  BY <1>1, <1>4, LenProperties DEF Types
<1>9. \E k \in 0..Len(text') : Lexed(k)'
  <2>1. ~la'.have
    BY <1>1, LaType DEF SkipComment
  <2> QED
    BY <1>1, <1>3, <1>4, <1>5, <1>6, <1>7, <1>8, <2>1, LexedNext
<1>10. ErrorsQuoteTheToken'
  BY <1>4, NothingIsQuoted
<1> QED
  BY <1>1, <1>3, <1>4, <1>6, <1>8, <1>9, <1>10 DEF ParserInv, Calling, RawInv, Raw

\* The grammar has received a token behind every ';' before.
LEMMA GrammarReceives ==
  ASSUME RawInv(raw), GrammarStep, NEW kind, NEW at \in Nat, NEW end,
         Last(delivered') = [kind |-> kind, at |-> at, end |-> end],
         raw.semicolon < at
  PROVE  RawInv(raw)' /\ raw'.semicolon <= at
<1>1. raw' = raw \/ raw' = Reduce(raw, Last(delivered'))
  BY DEF GrammarStep
<1>2. RawInv(raw') /\ raw'.semicolon <= at
  <2>1. CASE raw' = raw
    BY <2>1 DEF RawInv, Raw
  <2>2. CASE raw' = Reduce(raw, Last(delivered'))
    <3> DEFINE d == [kind |-> kind, at |-> at, end |-> end]
    <3>1. d.at = at
      OBVIOUS
    <3> HIDE DEF d
    <3>2. RawInv(Reduce(raw, d)) /\ Reduce(raw, d).semicolon <= d.at
      BY <3>1, ReduceType
    <3> QED
      BY <2>2, <3>1, <3>2 DEF d
  <2> QED
    BY <1>1, <2>1, <2>2
<1> QED
  BY <1>2 DEF RawInv, Raw

\* The parser has stopped.
LEMMA StoppedInv ==
  ASSUME ParserInv, text' = text, Types', delivered' = delivered, GrammarStep,
         lexing' \in {"error", "invalid"}, ErrorsQuoteTheToken'
  PROVE  ParserInv'
<1>1. raw' = raw
  BY DEF GrammarStep
<1>2. RawInv(raw)'
  BY <1>1 DEF ParserInv, RawInv, Raw
<1> QED
  BY <1>2 DEF ParserInv, Calling

LEMMA DeliverInv ==
  ASSUME ParserInv, NEW j \in 0..Len(text), NEW cur, Pending(j, cur),
         Deliver(cur), text' = text, GrammarStep
  PROVE  ParserInv'
<1>1. /\ IsText(text) /\ Types /\ RawInv(raw) /\ Len(text) \in Nat /\ EndOf(text) \in Nat
      /\ raw.semicolon \in Int
  BY TextIsSorted, Ends DEF ParserInv, RawInv, Raw
<1>2. \/ /\ cur.token.kind \in Modes /\ cur.token.at = 0 /\ j = 0 /\ delivered = <<>>
      \/ /\ j \in 1..Len(text) /\ cur.token = text[j] /\ cur.token.kind \in Kinds
         /\ cur.token.at \in 0..EndOf(text) - 1 /\ cur.token.at + 1 = Position(j)
         /\ Len(delivered) <= j /\ cur.flex = ScannerAt(Position(j))
      \/ /\ cur.token = EndToken /\ cur.token.kind = "EOF" /\ cur.token.at = EndOf(text)
         /\ Position(j) = EndOf(text)
         /\ j = Len(text) /\ Len(delivered) <= j + 1 /\ cur.flex = ScannerAt(Position(j))
  BY <1>1, PendingIs
<1>3. HasRead(j, cur.flex) /\ raw.semicolon < cur.token.at /\ cur.flex.at = Position(j)
  BY DEF Pending, HasRead
<1>4. cur.token.at \in 0..EndOf(text)
  BY <1>1, <1>2
<1>5. flex' = cur.flex /\ flex' \in Flex /\ ~la'.have /\ \E T, H : la' \in La(T, H)
  BY <1>1, <1>3, LaType DEF Deliver, HasRead
<1>6. Len(delivered) \in Nat
  BY <1>1, LenProperties DEF Types
<1>7. CASE cur.token.kind = "BAD"
  <2>1. /\ yylloc' = cur.token.at /\ lexing' = "error" /\ delivered' = delivered
    BY <1>7 DEF Deliver, Fail
  <2>2. j \in 1..Len(text) /\ cur.token.at + 1 = Position(j) /\ cur.flex = ScannerAt(Position(j))
        /\ cur.token.at \in 0..EndOf(text) - 1
    BY <1>2, <1>7, ModesAreNoTokens, EndIsNoToken
  <2>3. cur.token.at \in Nat /\ cur.token.at \in 0..Position(j) - 1
    BY <1>1, <2>2
  <2>4. flex'.buf[cur.token.at + 1] = Nul /\ flex'.buf[cur.token.at] = cur.token.at
    BY <1>1, <1>5, <2>2, <2>3, ScannerAtBuf
  <2>5. ErrorsQuoteTheToken'
    BY <1>1, <2>1, <2>3, <2>4, RejectedIsQuoted
  <2>6. Types'
    BY <1>1, <1>4, <1>5, <2>1, TypesNext DEF Types
  <2> QED
    BY <2>1, <2>5, <2>6, StoppedInv
<1>8. CASE cur.token.kind # "BAD"
  <2>1. Return(cur.token.kind, cur.token.at, cur.flex.at)
    BY <1>8 DEF Deliver
  <2>2. /\ \E S : delivered' \in Seq(S)
        /\ Len(delivered') = Len(delivered) + 1
        /\ Last(delivered') = [kind |-> cur.token.kind, at |-> cur.token.at, end |-> cur.flex.at]
        /\ yylloc' = cur.token.at /\ lexing' \in {"ready", "done"}
        /\ cur.token.kind = "EOF" => lexing' = "done"
    BY <1>1, <2>1, ReturnGrows
  <2>3. Types'
    BY <1>4, <1>5, <2>2, TypesNext
  <2>4. RawInv(raw)' /\ raw'.semicolon <= cur.token.at
    <3>1. cur.token.at \in Nat
      BY <1>4
    <3> QED
      BY <1>1, <1>3, <2>2, <3>1, GrammarReceives
  <2>5. raw'.semicolon \in Int
    BY <2>4 DEF RawInv, Raw
  <2>6. CASE cur.token.kind \in Modes
    <3>1. /\ cur.token.at = 0 /\ j = 0 /\ delivered = <<>>
      BY <1>2, <2>6, ModesAreNoTokens
    <3>2. Len(delivered') = 1 /\ Position(j) = 0
      BY <2>2, <3>1 DEF Position
    <3>3. raw' = raw
      BY <2>2, <2>6 DEF GrammarStep
    <3>4. \E k \in 0..Len(text') : Lexed(k)'
      <4>1. raw'.semicolon < Position(j) /\ Len(delivered') <= j + 1
        BY <1>3, <3>1, <3>2, <3>3
      <4> QED
        BY <1>3, <1>5, <2>3, <4>1, LexedNext
    <3>5. ErrorsQuoteTheToken'
      BY <2>2, <2>6 DEF ErrorsQuoteTheToken
    <3>6. Len(delivered') <= Len(text) + 2
      BY <1>1, <3>2
    <3> QED
      BY <1>1, <2>2, <2>3, <2>4, <3>4, <3>5, <3>6 DEF ParserInv, Calling
  <2>7. CASE cur.token.kind \in Kinds
    <3>1. /\ j \in 1..Len(text)
          /\ cur.token.at \in 0..EndOf(text) - 1 /\ cur.token.at + 1 = Position(j)
          /\ Len(delivered) <= j /\ cur.flex = ScannerAt(Position(j))
      BY <1>2, <2>7, ModesAreNoTokens, EndIsNoToken
    <3>2. \E k \in 0..Len(text') : Lexed(k)'
      <4>1. raw'.semicolon < Position(j) /\ Len(delivered') <= j + 1
        BY <1>1, <1>6, <2>2, <2>4, <2>5, <3>1
      <4> QED
        BY <1>3, <1>5, <2>3, <4>1, LexedNext
    <3>3. ErrorsQuoteTheToken'
      <4> DEFINE e == Position(j)
      <4>1. /\ e \in Nat /\ e <= EndOf(text) /\ flex'.buf[e] = Nul
            /\ \A p \in 0..e - 1 : flex'.buf[p] = p
        BY <1>1, <1>5, <3>1, ScannerAtBuf
      <4>2. Last(delivered').end = e
        BY <1>3, <2>2
      <4>3. yylloc' \in Nat /\ yylloc' <= e /\ yylloc' = cur.token.at /\ cur.token.at \in Nat
        BY <1>1, <2>2, <3>1
      <4> HIDE DEF e
      <4>4. \A p \in yylloc'..e - 1 : flex'.buf[p] = p
        <5>1. \A p \in yylloc'..e - 1 : p \in 0..e - 1
          BY <4>1, <4>3
        <5> QED
          BY <4>1, <5>1
      <4> QED
        BY <1>1, <2>2, <4>1, <4>2, <4>3, <4>4, DeliveredIsQuoted
    <3>4. Len(delivered') <= Len(text) + 2
      BY <1>1, <1>6, <2>2, <3>1
    <3> QED
      BY <1>1, <2>2, <2>3, <2>4, <3>2, <3>3, <3>4 DEF ParserInv, Calling
  <2>8. CASE cur.token.kind = "EOF"
    <3>1. /\ cur.token.at = EndOf(text) /\ Position(j) = EndOf(text)
          /\ j = Len(text) /\ Len(delivered) <= j + 1 /\ cur.flex = ScannerAt(Position(j))
      BY <1>2, <2>8, ModesAreNoTokens, EndIsNoToken
    <3>2. lexing' = "done"
      BY <2>2, <2>8
    <3>3. Len(delivered') <= Len(text) + 2
      BY <1>1, <1>6, <2>2, <3>1
    <3>4. ErrorsQuoteTheToken'
      <4>1. flex'.buf[EndOf(text)] = Nul
        BY <1>1, <1>5, <3>1, ScannerAtBuf
      <4>2. Last(delivered').end = EndOf(text) /\ yylloc' = EndOf(text)
        BY <1>3, <2>2, <3>1
      <4>3. \A n \in Nat : \A p \in n..n - 1 : FALSE
        OBVIOUS
      <4>4. \A p \in yylloc'..EndOf(text) - 1 : flex'.buf[p] = p
        BY <1>1, <4>2, <4>3
      <4> QED
        BY <1>1, <3>2, <4>1, <4>2, <4>4, DeliveredIsQuoted
    <3> QED
      BY <1>1, <2>3, <2>4, <3>2, <3>3, <3>4 DEF ParserInv, Calling
  <2> QED
    BY <1>2, <2>6, <2>7, <2>8
<1> QED
  BY <1>7, <1>8

\* Cutting a token off and undoing it.
LEMMA CutUncut ==
  ASSUME NEW f \in Flex, NEW e \in 0..EndOf(text)
  PROVE  LET cut == [f EXCEPT !.buf[e] = Nul]
         IN  /\ cut \in Flex
             /\ [cut EXCEPT !.buf[e] = f.buf[e]] = f
             /\ cut.buf[e] = Nul
             /\ \A p \in 0..EndOf(text) : p # e => cut.buf[p] = f.buf[p]
<1> DEFINE cut == [f EXCEPT !.buf[e] = Nul]
           b == [f.buf EXCEPT ![e] = Nul]
<1>1. f.buf \in [0..EndOf(text) -> 0..EndOf(text) \cup {Nul}]
  BY DEF Flex
<1>2. /\ b \in [0..EndOf(text) -> 0..EndOf(text) \cup {Nul}]
      /\ b[e] = Nul /\ \A p \in 0..EndOf(text) : p # e => b[p] = f.buf[p]
  BY <1>1
<1>3. [b EXCEPT ![e] = f.buf[e]] = f.buf
  BY <1>1
<1>4. cut = [f EXCEPT !.buf = b]
  OBVIOUS
<1> HIDE DEF b
<1>5. cut \in Flex /\ cut.buf = b
  BY <1>2, <1>4 DEF Flex
<1>6. [cut EXCEPT !.buf[e] = f.buf[e]] = [cut EXCEPT !.buf = f.buf]
  BY <1>3, <1>5
<1>7. [cut EXCEPT !.buf = f.buf] = f
  BY <1>4 DEF Flex
<1> QED
  BY <1>2, <1>5, <1>6, <1>7

\* What base_yylex looks ahead from, and what it finds.
LEMMA AheadIs ==
  ASSUME ParserInv, NEW j \in 0..Len(text), NEW cur, Pending(j, cur),
         LooksAhead(cur.token.kind)
  PROVE  /\ j \in 1..Len(text) /\ cur.token = text[j]
         /\ cur.token.at \in 0..EndOf(text) - 1 /\ cur.token.at + 1 = Position(j)
         /\ cur.token.kind # "EOF" /\ Len(delivered) \in 0..j
         /\ raw.semicolon < cur.token.at
         /\ LET ahead == CoreYylex(text, cur.flex)
            IN  \/ /\ j + 1 \in 1..Len(text) /\ ahead.token = text[j + 1]
                   /\ ahead.token.at \in 0..EndOf(text) - 1
                   /\ ahead.token.at + 1 = Position(j + 1)
                   /\ Position(j) <= ahead.token.at
                   /\ ahead.flex = ScannerAt(Position(j + 1))
                \/ /\ j = Len(text) /\ ahead.token = EndToken
                   /\ Position(j) = EndOf(text)
                   /\ ahead.flex = ScannerAt(Position(j))
<1>1. /\ IsText(text) /\ Types /\ Len(text) \in Nat /\ EndOf(text) \in Nat
      /\ Len(delivered) \in Nat
  BY TextIsSorted, Ends, LenProperties DEF ParserInv, Types
<1>2. cur.token.kind \notin Modes /\ cur.token.kind # "EOF"
  BY ModesAreNoTokens, EndIsNoToken
<1>3. /\ j \in 1..Len(text) /\ cur.token = text[j]
      /\ cur.token.at \in 0..EndOf(text) - 1 /\ cur.token.at + 1 = Position(j)
      /\ Len(delivered) <= j
  BY <1>1, <1>2, PendingIs
<1>4. HasRead(j, cur.flex) /\ raw.semicolon < cur.token.at
  BY DEF Pending
<1>5. CASE j < Len(text)
  <2>1. /\ j + 1 \in 1..Len(text)
        /\ CoreYylex(text, cur.flex).token = text[j + 1]
        /\ CoreYylex(text, cur.flex).flex = ScannerAt(Position(j + 1))
    BY <1>1, <1>4, <1>5, CoreYylexReads
  <2>2. /\ text[j + 1].at \in Nat /\ text[j + 1].at < EndOf(text)
        /\ text[j + 1].at >= Position(j)
        /\ text[j + 1].at + 1 = Position(j + 1)
    <3>1. text[j + 1].at \in Nat /\ text[j + 1].at < EndOf(text)
      BY <1>1, <2>1, TextIsSorted, Ends
    <3>2. text[j + 1].at >= Position(j)
      BY <1>1, <2>1, Ends
    <3>3. j + 1 # 0
      BY <1>1
    <3> QED
      BY <3>1, <3>2, <3>3 DEF Position
  <2>3. text[j + 1].at \in 0..EndOf(text) - 1
    BY <1>1, <2>2
  <2>4. Position(j) \in Nat
    BY <1>1, Ends
  <2> QED
    BY <1>1, <1>2, <1>3, <1>4, <2>1, <2>2, <2>3, <2>4
<1>6. CASE j = Len(text)
  <2>1. /\ CoreYylex(text, cur.flex).token = EndToken
        /\ CoreYylex(text, cur.flex).flex = ScannerAt(Position(j))
    BY <1>1, <1>4, <1>6, CoreYylexReads
  <2> QED
    BY <1>1, <1>2, <1>3, <1>4, <1>6, <2>1, Ends
<1> QED
  BY <1>1, <1>5, <1>6

LEMMA LookAheadFailsInv ==
  ASSUME ParserInv, NEW j \in 0..Len(text), NEW cur, Pending(j, cur),
         LooksAhead(cur.token.kind), LookAheadFails(cur, CoreYylex(text, cur.flex)),
         text' = text, GrammarStep
  PROVE  ParserInv'
<1> DEFINE ahead == CoreYylex(text, cur.flex)
<1>1. IsText(text) /\ Types /\ EndOf(text) \in Nat /\ Len(text) \in Nat
  BY TextIsSorted, Ends DEF ParserInv
<1>2. /\ j + 1 \in 1..Len(text) /\ ahead.token.at \in 0..EndOf(text) - 1
      /\ ahead.token.at + 1 = Position(j + 1) /\ ahead.flex = ScannerAt(Position(j + 1))
  <2>1. ahead.token # EndToken
    BY EndIsNoToken DEF LookAheadFails, EndToken
  <2> HIDE DEF ahead
  <2> QED
    BY <2>1, AheadIs DEF ahead
<1>3. /\ flex' = ahead.flex /\ la' = [la EXCEPT !.have = FALSE]
      /\ yylloc' = ahead.token.at /\ lexing' = "error" /\ delivered' = delivered
  BY DEF LookAheadFails, Fail
<1> HIDE DEF ahead
<1>4. yylloc' \in Nat /\ yylloc' \in 0..Position(j + 1) - 1 /\ yylloc' \in 0..EndOf(text)
      /\ j + 1 \in 0..Len(text)
  BY <1>1, <1>2, <1>3
<1>5. flex'.buf[yylloc' + 1] = Nul /\ flex'.buf[yylloc'] = yylloc' /\ flex' \in Flex
  BY <1>1, <1>2, <1>3, <1>4, ScannerAtBuf
<1>6. ErrorsQuoteTheToken'
  BY <1>1, <1>3, <1>4, <1>5, RejectedIsQuoted
<1>7. \E T, H : la' \in La(T, H)
  BY <1>1, <1>3, LaType
<1>8. Types'
  BY <1>1, <1>3, <1>4, <1>5, <1>7, TypesNext DEF Types
<1> QED
  BY <1>3, <1>6, <1>8, StoppedInv

LEMMA LookAheadInv ==
  ASSUME ParserInv, NEW j \in 0..Len(text), NEW cur, Pending(j, cur),
         LooksAhead(cur.token.kind), LookAhead(cur, CoreYylex(text, cur.flex)),
         text' = text, GrammarStep
  PROVE  ParserInv'
<1> DEFINE ahead == CoreYylex(text, cur.flex)
           at == cur.token.at
           e == Position(j)
<1>1. /\ IsText(text) /\ Types /\ RawInv(raw) /\ EndOf(text) \in Nat /\ Len(text) \in Nat
      /\ e \in 0..EndOf(text)
  BY TextIsSorted, Ends DEF ParserInv
<1>2. /\ at \in 0..EndOf(text) - 1 /\ at + 1 = e /\ Len(delivered) \in 0..j
      /\ raw.semicolon < at /\ raw.semicolon \in Int
  BY <1>1, AheadIs DEF RawInv, Raw
<1>3. PICK m \in 0..Len(text) :
        /\ ahead.flex = ScannerAt(Position(m)) /\ e <= Position(m) /\ Position(m) \in Nat
        /\ \/ m # 0 /\ ahead.token = text[m] /\ Len(delivered) + 1 <= m
           \/ ahead.token = EndToken /\ m = Len(text) /\ Len(delivered) + 1 <= m + 1
        /\ at < ahead.token.at
  <2>1. CASE /\ j + 1 \in 1..Len(text) /\ ahead.token = text[j + 1]
             /\ ahead.token.at \in 0..EndOf(text) - 1
             /\ ahead.token.at + 1 = Position(j + 1) /\ Position(j) <= ahead.token.at
             /\ ahead.flex = ScannerAt(Position(j + 1))
    <3>1. j + 1 # 0 /\ j + 1 \in 0..Len(text) /\ Len(delivered) + 1 <= j + 1
      BY <1>1, <1>2, <2>1
    <3>2. /\ e <= Position(j + 1) /\ at < ahead.token.at /\ Position(j + 1) \in Nat
      BY SMTT(30), <1>1, <1>2, <2>1
    <3> QED
      BY <2>1, <3>1, <3>2
  <2>2. CASE /\ j = Len(text) /\ ahead.token = EndToken /\ Position(j) = EndOf(text)
             /\ ahead.flex = ScannerAt(Position(j))
    <3>1. ahead.token.at = EndOf(text)
      BY <2>2 DEF EndToken
    <3>2. at < ahead.token.at /\ Len(delivered) + 1 <= j + 1 /\ e <= Position(j) /\ Position(j) \in Nat
      BY <1>1, <1>2, <3>1
    <3> QED
      BY <2>2, <3>2
  <2> QED
    BY <2>1, <2>2, AheadIs
<1> DEFINE f == ScannerAt(Position(m))
           cut == [f EXCEPT !.buf[e] = Nul]
<1>4. /\ f \in Flex /\ \A p \in 0..Position(m) - 1 : f.buf[p] = p
  BY <1>1, ScannerAtBuf
<1>5. /\ cut \in Flex /\ [cut EXCEPT !.buf[e] = f.buf[e]] = f
      /\ cut.buf[e] = Nul
      /\ \A p \in 0..EndOf(text) : p # e => cut.buf[p] = f.buf[p]
  <2> HIDE DEF f, e
  <2> QED
    BY <1>1, <1>4, CutUncut
<1>6. /\ flex' = cut
      /\ la' = [have |-> TRUE, token |-> ahead.token, end |-> e, hold |-> f.buf[e]]
  <2>1. TokenEnd(cur.token) = e
    BY <1>2 DEF TokenEnd
  <2> QED
    BY <1>3, <2>1 DEF LookAhead
<1>7. \/ Return(Replaced(cur.token.kind, ahead.token.kind), at, e)
      \/ InvalidEscape(cur)
  BY <1>2 DEF LookAhead, TokenEnd
<1> HIDE DEF ahead, cut, f
<1>8. /\ la'.have /\ la'.token = ahead.token /\ la'.end = e /\ la'.hold = f.buf[e]
      /\ \E T, H : la' \in La(T, H)
  <2>1. /\ la'.token = ahead.token /\ la'.end = e /\ la'.hold = f.buf[e]
    BY <1>6
  <2>2. la'.have
    BY <1>6
  <2>3. la' \in La({ahead.token}, {f.buf[e]})
    BY <1>1, <1>6 DEF La
  <2> QED
    BY <2>1, <2>2, <2>3
<1>9. Uncut' = f
  <2>1. e # NoEnd
    BY <1>1 DEF NoEnd
  <2>2. Uncut' = [flex' EXCEPT !.buf[la'.end] = la'.hold]
    BY <1>8, <2>1 DEF Uncut
  <2> QED
    BY <1>5, <1>6, <1>8, <2>2
<1>10. at \in Nat /\ at \in 0..EndOf(text)
  BY <1>1, <1>2
<1>11. CASE Return(Replaced(cur.token.kind, ahead.token.kind), at, e)
  <2>1. PICK kind : Return(kind, at, e)
    BY <1>11
  <2>2. /\ \E S : delivered' \in Seq(S)
        /\ Len(delivered') = Len(delivered) + 1
        /\ Last(delivered') = [kind |-> kind, at |-> at, end |-> e]
        /\ yylloc' = at /\ lexing' \in {"ready", "done"}
    BY <1>1, <2>1, ReturnGrows
  <2>3. Types'
    BY <1>5, <1>6, <1>8, <1>10, <2>2, TypesNext
  <2>4. RawInv(raw)' /\ raw'.semicolon <= at /\ raw'.semicolon \in Int
    <3>1. RawInv(raw)' /\ raw'.semicolon <= at
      BY <1>1, <1>2, <1>10, <2>2, GrammarReceives
    <3> QED
      BY <3>1 DEF RawInv, Raw
  <2>5. ahead.token.at \in Int
    <3>1. m # 0 => m \in 1..Len(text)
      BY <1>1
    <3> QED
      BY <1>1, <1>3, <3>1, TextIsSorted DEF EndToken
  <2>6. \E k \in 0..Len(text') : Lexed(k)'
    <3>1. raw'.semicolon < la'.token.at
      BY <1>3, <1>8, <1>10, <2>4, <2>5
    <3>2. \/ m # 0 /\ la'.token = text[m] /\ Len(delivered') <= m
          \/ la'.token = EndToken /\ m = Len(text) /\ Len(delivered') <= m + 1
      BY <1>3, <1>8, <2>2
    <3>3. Uncut' = ScannerAt(Position(m))
      BY <1>9 DEF f
    <3> QED
      BY <1>1, <1>8, <2>3, <3>1, <3>2, <3>3, LexedAhead
  <2>7. ErrorsQuoteTheToken'
    <3>1. flex'.buf[e] = Nul
      BY <1>5, <1>6
    <3>2. \A p \in at..e - 1 : p = at
      BY <1>2
    <3>3. flex'.buf[at] = at
      <4>1. at # e /\ at \in 0..Position(m) - 1
        BY <1>1, <1>2, <1>3
      <4> QED
        BY <1>4, <1>5, <1>6, <1>10, <4>1
    <3>4. \A p \in yylloc'..e - 1 : flex'.buf[p] = p
      BY <2>2, <3>2, <3>3
    <3>5. e \in Nat /\ at <= e /\ e <= EndOf(text) /\ Last(delivered').end = e
      BY <1>1, <1>2, <2>2
    <3> QED
      BY <1>1, <1>10, <2>2, <3>1, <3>4, <3>5, DeliveredIsQuoted
  <2>8. Len(delivered') <= Len(text) + 2
    BY <1>1, <1>2, <2>2
  <2> QED
    BY <1>1, <2>2, <2>3, <2>4, <2>6, <2>7, <2>8 DEF ParserInv, Calling
<1>12. CASE InvalidEscape(cur)
  <2>1. yylloc' = at /\ lexing' = "invalid" /\ delivered' = delivered
    BY <1>12 DEF InvalidEscape
  <2>2. Types'
    BY <1>1, <1>5, <1>6, <1>8, <1>10, <2>1, TypesNext DEF Types
  <2> QED
    BY <2>1, <2>2, NothingIsQuoted, StoppedInv
<1> QED
  BY <1>7, <1>11, <1>12

LEMMA UnicodeEscapeInv ==
  ASSUME ParserInv, NEW j \in 0..Len(text), NEW cur, Pending(j, cur),
         LooksAhead(cur.token.kind), UnicodeEscape(cur, CoreYylex(text, cur.flex)),
         text' = text, GrammarStep
  PROVE  ParserInv'
<1> DEFINE ahead == CoreYylex(text, cur.flex)
           at == cur.token.at
           e == Position(j)
           f == ScannerAt(Position(j + 1))
           cut == [f EXCEPT !.buf[e] = Nul]
           third == CoreYylex(text, f)
<1>1. /\ IsText(text) /\ Types /\ RawInv(raw) /\ EndOf(text) \in Nat /\ Len(text) \in Nat
      /\ e \in 0..EndOf(text)
  BY TextIsSorted, Ends DEF ParserInv
<1>2. /\ at \in 0..EndOf(text) - 1 /\ at + 1 = e /\ Len(delivered) \in 0..j
      /\ raw.semicolon < at /\ raw.semicolon \in Int
  BY <1>1, AheadIs DEF RawInv, Raw
<1>3. /\ j + 1 \in 1..Len(text) /\ ahead.flex = f /\ e + 1 <= Position(j + 1)
  <2>1. ahead.token # EndToken
    BY DEF UnicodeEscape, EndToken
  <2>2. /\ j + 1 \in 1..Len(text) /\ ahead.flex = f
        /\ ahead.token.at \in 0..EndOf(text) - 1
        /\ ahead.token.at + 1 = Position(j + 1) /\ Position(j) <= ahead.token.at
    <3> HIDE DEF ahead
    <3> QED
      BY <2>1, AheadIs DEF ahead
  <2> QED
    BY <1>1, <2>2
<1>4. j + 1 \in 0..Len(text) /\ HasRead(j + 1, f) /\ f \in Flex
  BY <1>1, <1>3, ScannerAtRead, ScannerAtBuf
<1>5. [cut EXCEPT !.buf[e] = f.buf[e]] = f
  <2> HIDE DEF f, e
  <2> QED
    BY <1>1, <1>4, CutUncut
<1>6. TokenEnd(cur.token) = e
  BY <1>2 DEF TokenEnd
<1>7. /\ flex' = third.flex
      /\ \E t, h : la' = [have |-> FALSE, token |-> t, end |-> e, hold |-> h]
      /\ \/ /\ third.token.kind = "SCONST"
            /\ \E kind : Return(kind, at, third.flex.at)
         \/ Fail(third.token.at)
         \/ InvalidEscape(cur)
  <2>1. CoreYylex(text, [[ahead.flex EXCEPT !.buf[e] = Nul] EXCEPT !.buf[e] = ahead.flex.buf[e]]) = third
    BY <1>3, <1>5
  <2> HIDE DEF ahead, third, e, f
  <2> QED
    BY <1>6, <2>1 DEF UnicodeEscape, ahead
<1>8. \/ /\ j + 2 \in 1..Len(text) /\ third.token = text[j + 2]
         /\ third.flex = ScannerAt(Position(j + 2))
      \/ /\ j + 1 = Len(text) /\ third.token = EndToken
         /\ third.flex = ScannerAt(Position(j + 1))
  <2>1. CASE j + 1 < Len(text)
    <3>1. (j + 1) + 1 = j + 2
      BY <1>1
    <3> HIDE DEF f
    <3> QED
      BY <1>1, <1>4, <2>1, <3>1, CoreYylexReads
  <2>2. CASE j + 1 = Len(text)
    <3> HIDE DEF f
    <3> QED
      BY <1>1, <1>4, <2>2, CoreYylexReads
  <2> QED
    BY <1>1, <1>3, <2>1, <2>2
<1> HIDE DEF third, ahead, f, cut
<1>9. PICK n \in 0..Len(text) :
        /\ third.flex = ScannerAt(Position(n)) /\ third.flex.at = Position(n)
        /\ j + 1 <= n /\ third.token.at \in 0..EndOf(text) /\ third.flex \in Flex
        /\ e <= Position(n) /\ Position(n) \in 0..EndOf(text)
        /\ third.token.at < EndOf(text) => /\ third.flex.buf[third.token.at + 1] = Nul
                                           /\ third.flex.buf[third.token.at] = third.token.at
  <2>1. CASE /\ j + 2 \in 1..Len(text) /\ third.token = text[j + 2]
             /\ third.flex = ScannerAt(Position(j + 2))
    <3>1. j + 2 \in 0..Len(text) /\ j + 2 # 0 /\ j + 1 <= j + 2 /\ j + 2 > j + 1
      BY <1>1, <2>1
    <3>2. /\ text[j + 2].at \in Nat /\ text[j + 2].at < EndOf(text)
          /\ text[j + 2].at >= Position(j + 1) /\ Position(j + 1) \in Nat
      BY <1>1, <1>4, <2>1, <3>1, TextIsSorted, Ends
    <3>3. Position(j + 2) = text[j + 2].at + 1
      BY <3>1 DEF Position
    <3>4. /\ third.flex.at = Position(j + 2) /\ third.flex \in Flex
          /\ third.flex.buf[Position(j + 2)] = Nul
          /\ \A p \in 0..Position(j + 2) - 1 : third.flex.buf[p] = p
          /\ Position(j + 2) \in 0..EndOf(text)
      BY <1>1, <2>1, <3>1, ScannerAtBuf
    <3>5. text[j + 2].at \in 0..EndOf(text) /\ text[j + 2].at \in 0..Position(j + 2) - 1
          /\ e <= Position(j + 2)
      BY <1>1, <1>3, <3>2, <3>3
    <3> QED
      BY <2>1, <3>1, <3>3, <3>4, <3>5
  <2>2. CASE /\ j + 1 = Len(text) /\ third.token = EndToken
             /\ third.flex = ScannerAt(Position(j + 1))
    <3>1. third.token.at = EndOf(text)
      BY <2>2 DEF EndToken
    <3>2. /\ third.flex.at = Position(j + 1) /\ third.flex \in Flex
          /\ Position(j + 1) \in 0..EndOf(text)
      BY <1>1, <1>4, <2>2, ScannerAtBuf
    <3> QED
      BY <1>1, <1>3, <1>4, <2>2, <3>1, <3>2
  <2> QED
    BY <1>8, <2>1, <2>2
<1>10. ~la'.have /\ \E T, H : la' \in La(T, H)
  <2>1. PICK t, h : la' = [have |-> FALSE, token |-> t, end |-> e, hold |-> h]
    BY <1>7
  <2>2. la' \in La({t}, {h})
    BY <1>1, <2>1 DEF La
  <2> QED
    BY <2>1, <2>2
<1>11. at \in Nat /\ at \in 0..EndOf(text) /\ flex' = third.flex /\ flex' \in Flex
  BY <1>1, <1>2, <1>7, <1>9
<1>12. CASE third.token.kind = "SCONST" /\ \E kind : Return(kind, at, third.flex.at)
  <2>1. PICK kind : Return(kind, at, third.flex.at)
    BY <1>12
  <2>2. /\ \E S : delivered' \in Seq(S)
        /\ Len(delivered') = Len(delivered) + 1
        /\ Last(delivered') = [kind |-> kind, at |-> at, end |-> third.flex.at]
        /\ yylloc' = at /\ lexing' \in {"ready", "done"}
    BY <1>1, <2>1, ReturnGrows
  <2>3. Types'
    BY <1>10, <1>11, <2>2, TypesNext
  <2>4. RawInv(raw)' /\ raw'.semicolon <= at /\ raw'.semicolon \in Int
    <3>1. RawInv(raw)' /\ raw'.semicolon <= at
      BY <1>1, <1>2, <1>11, <2>2, GrammarReceives
    <3> QED
      BY <3>1 DEF RawInv, Raw
  <2>5. \E k \in 0..Len(text') : Lexed(k)'
    <3>1. raw'.semicolon < Position(n) /\ Len(delivered') <= n + 1
      <4>1. raw'.semicolon \in Int /\ raw'.semicolon <= at /\ at + 1 = e /\ at \in Nat
        BY <1>2, <1>11, <2>4
      <4>2. e <= Position(n) /\ Position(n) \in Nat
        BY <1>1, <1>9
      <4>3. Len(delivered') = Len(delivered) + 1 /\ Len(delivered) \in 0..j /\ j + 1 <= n
            /\ n \in Nat /\ j \in Nat
        BY <1>1, <1>2, <1>9, <2>2
      <4> HIDE DEF at, e
      <4> QED
        BY <4>1, <4>2, <4>3
    <3>2. HasRead(n, flex')
      BY <1>1, <1>9, <1>11, ScannerAtRead
    <3> QED
      BY <1>10, <2>3, <3>1, <3>2, LexedNext
  <2>6. ErrorsQuoteTheToken'
    <3> DEFINE q == Position(n)
    <3>1. /\ flex'.buf[q] = Nul /\ \A p \in 0..q - 1 : flex'.buf[p] = p
      BY <1>1, <1>9, <1>11, ScannerAtBuf
    <3>2. q \in Nat /\ at <= q /\ q <= EndOf(text) /\ Last(delivered').end = q
      BY <1>1, <1>2, <1>9, <2>2
    <3> HIDE DEF q
    <3>3. \A p \in at..q - 1 : p \in 0..q - 1
      BY <1>11, <3>2
    <3>4. \A p \in yylloc'..q - 1 : flex'.buf[p] = p
      BY <2>2, <3>1, <3>3
    <3> QED
      BY <1>1, <1>11, <2>2, <3>1, <3>2, <3>4, DeliveredIsQuoted
  <2>7. Len(delivered') <= Len(text) + 2
    BY <1>1, <1>2, <2>2
  <2> QED
    BY <1>1, <2>2, <2>3, <2>4, <2>5, <2>6, <2>7 DEF ParserInv, Calling
<1>13. CASE Fail(third.token.at)
  <2>1. yylloc' = third.token.at /\ lexing' = "error" /\ delivered' = delivered
    BY <1>13 DEF Fail
  <2>2. Types'
    BY <1>1, <1>9, <1>10, <1>11, <2>1, TypesNext DEF Types
  <2>3. ErrorsQuoteTheToken'
    <3>1. third.token.at \in Nat
      BY <1>9
    <3> QED
      BY <1>1, <1>9, <1>11, <2>1, <3>1, RejectedIsQuoted
  <2> QED
    BY <2>1, <2>2, <2>3, StoppedInv
<1>14. CASE InvalidEscape(cur)
  <2>1. yylloc' = at /\ lexing' = "invalid" /\ delivered' = delivered
    BY <1>14 DEF InvalidEscape
  <2>2. Types'
    BY <1>1, <1>10, <1>11, <2>1, TypesNext DEF Types
  <2> QED
    BY <2>1, <2>2, NothingIsQuoted, StoppedInv
<1> QED
  BY <1>7, <1>12, <1>13, <1>14

\* A call of base_yylex.
LEMMA BaseYylexInv ==
  ASSUME ParserInv, BaseYylex, GrammarStep
  PROVE  ParserInv'
<1>1. IsText(text) /\ RawInv(raw) /\ lexing \in Calling /\ text' = text
  BY DEF ParserInv, BaseYylex, Calling
<1>2. PICK k \in 0..Len(text) : Lexed(k)
  BY <1>1 DEF ParserInv
<1>3. PICK j \in 0..Len(text) : Pending(j, Current)
  BY <1>1, <1>2, CurrentIs
<1> DEFINE cur == Current
           ahead == CoreYylex(text, cur.flex)
<1>4. \/ SkipComment(cur)
      \/ Deliver(cur)
      \/ LooksAhead(cur.token.kind) /\ (\/ LookAheadFails(cur, ahead)
                                        \/ LookAhead(cur, ahead)
                                        \/ UnicodeEscape(cur, ahead))
  BY DEF BaseYylex
<1> HIDE DEF cur
<1>5. Pending(j, cur)
  BY <1>3 DEF cur
<1> QED
  BY <1>1, <1>4, <1>5, SkipCommentInv, DeliverInv, LookAheadFailsInv, LookAheadInv, UnicodeEscapeInv

-----------------------------------------------------------------------------
(***************************************************************************)
(* The split and the parser                                                *)
(***************************************************************************)
ResultInv ==
  pc \in {"parse", "returned"} =>
    /\ ParserInv
    /\ IF error = NoError THEN Len(stmts) = nStmts /\ Before(loop.start)
       ELSE stmts = Null

StateInv ==
  /\ IsText(text)
  /\ pc \in {"count", "fill", "parse", "returned"}
  /\ loop \in LoopState
  /\ nStmts \in 0..Len(text)
  /\ stmts = Null \/ stmts \in Seq(RawStmt)
  /\ error \in 0..EndOf(text) \cup {NoError}

IInv == StateInv /\ CountInv /\ FillInv /\ ResultInv

LEMMA InitInv == Init => IInv
<1> SUFFICES ASSUME Init PROVE IInv
  OBVIOUS
<1>1. IsText(text)
  BY TextsAssumption DEF Init, FilterInit
<1>2. EndOf(text) \in Nat /\ Len(text) \in Nat
  BY <1>1, Ends, TextIsSorted
<1>3. StateInv
  BY <1>1, <1>2, LoopStartType DEF Init, StateInv
<1>4. CountInv
  <2>1. flex = ScannerInit(text) /\ \E mode \in Modes : la = Fresh(text, mode).la
    BY DEF Init, FilterInit, Fresh
  <2>2. Unparsed
    BY <2>1 DEF Init, FilterInit, Unparsed
  <2>3. PICK L, C : Trace(L, C, 0) /\ L[0] = LoopStart /\ C[0] = 0
    BY <1>1, TraceStarts DEF Trace
  <2>4. Counting(L, C, 0)
    BY <1>1, <2>1, <2>3, ScannerInitRead DEF Counting, Init, LoopStart
  <2>5. 0 \in 0..Len(text)
    BY <1>2
  <2> QED
    BY <2>2, <2>4, <2>5 DEF CountInv, Init
<1>5. FillInv /\ ResultInv
  BY DEF Init, FillInv, ResultInv
<1> QED
  BY <1>3, <1>4, <1>5 DEF IInv

\* raw_parser starts with a fresh scanner.
LEMMA ParserStarts ==
  ASSUME IsText(text), Unparsed, StartParser, UNCHANGED <<text, raw>>
  PROVE  ParserInv'
<1>1. EndOf(text) \in Nat /\ Len(text) \in Nat
  BY Ends, TextIsSorted
<1>2. PICK mode \in Modes : flex' = Fresh(text, mode).flex /\ la' = Fresh(text, mode).la
  BY DEF StartParser
<1>3. /\ flex' = ScannerInit(text)
      /\ la'.end = NoEnd /\ la'.token = IF mode = "DEFAULT" THEN NoToken ELSE ModeToken(mode)
      /\ la'.have <=> mode # "DEFAULT"
  BY <1>2 DEF Fresh
<1>4. \E T, H : la' \in La(T, H)
  <2>1. la' \in La({NoToken, ModeToken(mode)}, {Nul})
    <3>1. (mode # "DEFAULT") \in BOOLEAN
      OBVIOUS
    <3> QED
      BY <1>2, <3>1 DEF Fresh, La
  <2> QED
    BY <2>1
<1>5. /\ delivered = <<>> /\ delivered' = <<>> /\ lexing' = "ready" /\ yylloc' = 0
      /\ raw = NoRaw /\ raw' = NoRaw
  BY DEF Unparsed, StartParser
<1>6. HasRead(0, flex') /\ flex' \in Flex
  BY <1>3, ScannerInitRead DEF HasRead
<1>7. Types'
  <2>1. \E S : delivered' \in Seq(S)
    BY <1>5, EmptySeq
  <2> QED
    BY <1>1, <1>4, <1>5, <1>6, <2>1, TypesNext
<1>8. RawInv(raw)'
  <2>1. NoRaw \in Raw /\ NoRaw.list = <<>> /\ NoRaw.semicolon = NoLocation
    <3>1. <<>> \in Seq(RawStmt)
      BY EmptySeq
    <3> QED
      BY <3>1 DEF NoRaw, Raw, NoLocation
  <2> QED
    BY <1>5, <2>1 DEF RawInv, NoLocation
<1>9. raw'.semicolon = -1 /\ Len(delivered') = 0
  BY <1>5, EmptySeq DEF NoRaw, NoLocation
<1>10. 0 \in 0..Len(text) /\ Position(0) = 0
  BY <1>1 DEF Position
<1>11. HasRead(0, flex)'
  BY <1>6 DEF HasRead, Flex, Position
<1>12. CASE mode = "DEFAULT"
  <2>1. \E k \in 0..Len(text') : Lexed(k)'
    BY <1>3, <1>6, <1>7, <1>9, <1>10, <1>12, LexedNext
  <2> QED
    BY <1>1, <1>5, <1>7, <1>8, <1>9, <2>1 DEF ParserInv, Calling, ErrorsQuoteTheToken
<1>13. CASE mode # "DEFAULT"
  <2>1. la'.have /\ la'.token.kind \in Modes /\ la'.token.at = 0
    BY <1>3, <1>13 DEF ModeToken
  <2>2. Uncut' = flex'
    BY <1>3 DEF Uncut
  <2>3. Pending(0, [token |-> la.token, flex |-> Uncut])'
    <3>1. TokenIs(0, la.token, Uncut)'
      BY <1>5, <2>1 DEF TokenIs
    <3>2. HasRead(0, Uncut)'
      <4> HIDE DEF Uncut
      <4> QED
        BY <1>11, <2>2
    <3> QED
      BY <1>9, <2>1, <3>1, <3>2 DEF Pending
  <2>4. Lexed(0)'
    BY <1>7, <2>1, <2>3 DEF Lexed
  <2>5. 0 \in 0..Len(text')
    BY <1>1
  <2> QED
    BY <1>1, <1>5, <1>7, <1>8, <1>9, <2>4, <2>5 DEF ParserInv, Calling, ErrorsQuoteTheToken
<1> QED
  BY <1>12, <1>13

\* What core_yylex returns to the loops.
LEMMA ScannedIs ==
  ASSUME IsText(text), NEW k \in 0..Len(text), HasRead(k, flex)
  PROVE  LET scanned == CoreYylex(text, flex)
         IN  \/ /\ k < Len(text) /\ k + 1 \in 0..Len(text) /\ scanned.token = text[k + 1]
                /\ text[k + 1].kind # "EOF" /\ scanned.flex = ScannerAt(Position(k + 1))
                /\ text[k + 1].at \in 0..EndOf(text)
             \/ /\ k = Len(text) /\ scanned.token = EndToken
                /\ scanned.token.kind = "EOF" /\ scanned.token.at = EndOf(text)
<1>0. Len(text) \in Nat /\ EndOf(text) \in Nat
  BY TextIsSorted, Ends
<1>1. CASE k < Len(text)
  <2>1. /\ k + 1 \in 1..Len(text) /\ CoreYylex(text, flex).token = text[k + 1]
        /\ CoreYylex(text, flex).flex = ScannerAt(Position(k + 1))
    BY <1>1, CoreYylexReads
  <2>2. text[k + 1].kind \in Kinds /\ text[k + 1].at \in Nat /\ text[k + 1].at < EndOf(text)
    BY <2>1, TextIsSorted, Ends
  <2>3. text[k + 1].kind # "EOF"
    BY <2>2, EndIsNoToken
  <2>4. text[k + 1].at \in 0..EndOf(text) /\ k + 1 \in 0..Len(text)
    BY <1>0, <2>1, <2>2
  <2> QED
    BY <1>1, <2>1, <2>3, <2>4
<1>2. CASE k = Len(text)
  BY <1>2, CoreYylexReads DEF EndToken
<1> QED
  BY <1>0, <1>1, <1>2

LEMMA UnparsedKept ==
  ASSUME Unparsed, UNCHANGED <<text, la, yylloc, delivered, lexing, raw>>
  PROVE  Unparsed'
BY DEF Unparsed, Fresh, ScannerInit, Chars

\* The first loop at the end of the text: the second one has its trace.
LEMMA CountEnds ==
  ASSUME IsText(text), NEW L, NEW C, Counting(L, C, Len(text)), loop \in LoopState,
         UNCHANGED text, flex' = ScannerInit(text),
         loop' = [Counted(loop, "EOF") EXCEPT !.keyword = FALSE, !.parens = 0],
         stmts' = <<>>,
         nStmts' = IF EndsStatement(loop, "EOF") THEN nStmts + 1 ELSE nStmts
  PROVE  /\ Filling(L, C, 0)'
         /\ Before(loop.start)'
         /\ loop'.start = 0 /\ ~loop'.keyword /\ flex'.at = 0
<1> DEFINE n == Len(text)
<1>0. n \in Nat
  BY TextIsSorted
<1>1. Trace(L, C, n) /\ loop = L[n] /\ loop.start = 0 /\ nStmts = C[n]
  BY DEF Counting
<1>2. L[0] = LoopStart /\ C[0] = 0 /\ C[n] \in Nat
  BY <1>0, <1>1, TraceFields
<1>3. Counted(loop, "EOF") \in LoopState /\ Counted(loop, "EOF").start = 0
  BY <1>1, CountedIs
<1>4. loop' \in LoopState /\ loop'.keyword = FALSE /\ loop'.parens = 0 /\ loop'.start = 0
  <2> DEFINE c == Counted(loop, "EOF")
  <2>1. 0 \in 0..SizeMod - 1
    BY SizeModAssumption
  <2> HIDE DEF c
  <2>2. [c EXCEPT !.keyword = FALSE, !.parens = 0] \in LoopState
        /\ [c EXCEPT !.keyword = FALSE, !.parens = 0].start = 0
        /\ [c EXCEPT !.keyword = FALSE, !.parens = 0].parens = 0
        /\ ~[c EXCEPT !.keyword = FALSE, !.parens = 0].keyword
    BY <1>3, <2>1 DEF c, LoopState
  <2>3. [c EXCEPT !.keyword = FALSE, !.parens = 0].keyword = FALSE
    BY <2>2 DEF LoopState
  <2> QED
    BY <2>2, <2>3 DEF c
<1>5. HasRead(0, flex)'
  <2>1. HasRead(0, flex')
    BY ScannerInitRead
  <2> QED
    BY <2>1 DEF HasRead, Flex, Position
<1>6. Trace(L, C, Len(text))'
  BY <1>1 DEF Trace, LoopState
<1>7. nStmts' = C[Len(text')] + Ended(L[Len(text')], "EOF")
  BY <1>1, <1>2 DEF Ended
<1>8. Len(stmts') = 0
  BY EmptySeq
<1>9. loop' \in LoopState'
  BY <1>4 DEF LoopState
<1>10. Filling(L, C, 0)'
  <2>1. loop'.keyword = L[0].keyword /\ loop'.parens = L[0].parens
    BY <1>2, <1>4 DEF LoopStart
  <2> QED
    BY <1>2, <1>5, <1>6, <1>7, <1>8, <1>9, <2>1 DEF Filling
<1>11. Before(loop.start)'
  <2>1. stmts' \in Seq([location : Nat, len : Nat])
    BY EmptySeq
  <2>2. \A i \in 1..0 : FALSE
    OBVIOUS
  <2> QED
    BY <1>8, <2>1, <2>2 DEF Before
<1>12. flex'.at = 0
  BY DEF ScannerInit
<1> QED
  BY <1>4, <1>10, <1>11, <1>12

\* There are no more statements than tokens.
LEMMA CountIsBounded ==
  ASSUME IsText(text), NEW k \in 0..Len(text), NEW L, NEW C, Trace(L, C, k), NEW kind
  PROVE  /\ L[k] \in LoopState /\ C[k] \in 0..k
         /\ C[k] + Ended(L[k], kind) \in 0..k
<1>1. Len(text) \in Nat /\ k \in Nat
  BY TextIsSorted
<1>2. L[k] \in LoopState /\ C[k] \in Nat /\ C[k] + (IF L[k].keyword THEN 1 ELSE 0) <= k
  BY <1>1, TraceFields
<1>3. Ended(L[k], kind) \in {0, 1} /\ (Ended(L[k], kind) = 1 => L[k].keyword)
  BY DEF Ended, EndsStatement
<1> QED
  BY <1>1, <1>2, <1>3

LEMMA CountStepInv ==
  ASSUME IInv, pc = "count", SplitWithScanner
  PROVE  IInv'
<1> DEFINE scanned == CoreYylex(text, flex)
           tok == scanned.token.kind
<1>0. PICK k \in 0..Len(text) : \E L, C : Counting(L, C, k)
  BY DEF IInv, CountInv
<1>1. /\ IsText(text) /\ loop \in LoopState /\ stmts = Null /\ error = NoError
      /\ Unparsed /\ text' = text /\ raw' = raw
      /\ Len(text) \in Nat /\ EndOf(text) \in Nat
      /\ nStmts \in 0..Len(text)
  BY TextIsSorted, Ends DEF IInv, StateInv, CountInv, SplitWithScanner
<1>2. PICK L, C : Counting(L, C, k)
  BY <1>0
<1>3. HasRead(k, flex) /\ Trace(L, C, k) /\ loop = L[k] /\ nStmts = C[k]
  BY <1>2 DEF Counting
<1>4. /\ C[k] \in 0..k /\ C[k] + Ended(L[k], tok) \in 0..k
  BY <1>1, <1>3, CountIsBounded
<1>5. \/ /\ k < Len(text) /\ k + 1 \in 0..Len(text) /\ scanned.token = text[k + 1]
         /\ text[k + 1].kind # "EOF" /\ scanned.flex = ScannerAt(Position(k + 1))
         /\ text[k + 1].at \in 0..EndOf(text)
      \/ /\ k = Len(text) /\ scanned.token = EndToken
         /\ scanned.token.kind = "EOF" /\ scanned.token.at = EndOf(text)
  BY <1>1, <1>3, ScannedIs
<1>6. ScanError(scanned) \/ CountStatement(scanned)
  BY DEF SplitWithScanner, FillStatement
<1> HIDE DEF scanned
<1>7. scanned.token.at \in 0..EndOf(text)
  BY <1>1, <1>5
<1>8. CASE ScanError(scanned)
  <2>1. /\ pc' = "parse" /\ error' = scanned.token.at /\ UNCHANGED <<loop, nStmts, stmts>>
        /\ StartParser
    BY <1>8 DEF ScanError, StartParser
  <2>2. ParserInv'
    BY <1>1, <2>1, ParserStarts
  <2>3. StateInv'
    BY <1>1, <1>7, <2>1 DEF StateInv, LoopState
  <2>4. error' # NoError
    BY <1>1, <1>7, <2>1 DEF NoError
  <2> QED
    BY <1>1, <2>1, <2>2, <2>3, <2>4 DEF IInv, CountInv, FillInv, ResultInv
<1>9. CASE CountStatement(scanned) /\ tok = "EOF"
  <2>1. k = Len(text)
    BY <1>5, <1>9
  <2>2. /\ pc' = "fill" /\ flex' = ScannerInit(text) /\ stmts' = <<>>
        /\ loop' = [Counted(loop, "EOF") EXCEPT !.keyword = FALSE, !.parens = 0]
        /\ nStmts' = IF EndsStatement(loop, "EOF") THEN nStmts + 1 ELSE nStmts
        /\ UNCHANGED <<la, yylloc, delivered, lexing, error>>
    BY <1>9 DEF CountStatement
  <2>3. /\ Filling(L, C, 0)' /\ Before(loop.start)'
        /\ loop'.start = 0 /\ ~loop'.keyword /\ flex'.at = 0
    BY <1>1, <1>2, <2>1, <2>2, CountEnds
  <2>4. Unparsed'
    BY <1>1, <2>2, UnparsedKept
  <2>5. nStmts' \in 0..Len(text)
    BY <1>1, <1>3, <1>4, <1>9, <2>1, <2>2 DEF Ended
  <2>6. StateInv'
    <3>1. loop' \in LoopState'
      BY <2>3 DEF Filling
    <3>2. stmts' \in Seq(RawStmt)
      BY <2>2, EmptySeq
    <3> QED
      BY <1>1, <2>2, <2>5, <3>1, <3>2 DEF StateInv
  <2>7. 0 \in 0..Len(text')
    BY <1>1
  <2>8. FillInv'
    BY <1>1, <2>2, <2>3, <2>4, <2>7 DEF FillInv
  <2> QED
    BY <2>2, <2>6, <2>8 DEF IInv, CountInv, ResultInv
<1>10. CASE CountStatement(scanned) /\ tok # "EOF"
  <2>1. /\ k < Len(text) /\ k + 1 \in 0..Len(text) /\ tok = text[k + 1].kind
        /\ scanned.flex = ScannerAt(Position(k + 1))
    BY <1>5, <1>10
  <2>2. /\ pc' = "count" /\ flex' = ScannerAt(Position(k + 1)) /\ stmts' = stmts
        /\ loop' = Counted(loop, text[k + 1].kind)
        /\ nStmts' = IF EndsStatement(loop, text[k + 1].kind) THEN nStmts + 1 ELSE nStmts
        /\ text[k + 1].kind # "BAD"
        /\ UNCHANGED <<la, yylloc, delivered, lexing, error>>
    BY <1>10, <2>1 DEF CountStatement
  <2>3. PICK LL, CC : Counting(LL, CC, k + 1)'
    BY <1>1, <1>2, <2>1, <2>2, CountToken
  <2>4. Unparsed'
    BY <1>1, <2>2, UnparsedKept
  <2>5. nStmts' \in 0..Len(text)
    BY <1>1, <1>3, <1>4, <2>1, <2>2 DEF Ended
  <2>6. StateInv'
    <3>1. loop' \in LoopState
      BY <1>1, <2>2, CountedIs
    <3> QED
      BY <1>1, <2>2, <2>5, <3>1 DEF StateInv, LoopState
  <2>7. CountInv'
    <3>1. k + 1 \in 0..Len(text')
      BY <1>1, <2>1
    <3> QED
      BY <1>1, <2>2, <2>3, <2>4, <3>1 DEF CountInv
  <2> QED
    BY <2>2, <2>6, <2>7 DEF IInv, FillInv, ResultInv
<1> QED
  BY <1>6, <1>8, <1>9, <1>10

\* The scanner rejects nothing in the second loop: it has read the same tokens
\* in the first one.
LEMMA FillStepInv ==
  ASSUME IInv, pc = "fill", SplitWithScanner
  PROVE  IInv'
<1> DEFINE scanned == CoreYylex(text, flex)
           tok == scanned.token.kind
           n == Len(text)
<1>0. PICK k \in 0..n : \E L, C : Filling(L, C, k)
  BY DEF IInv, FillInv
<1>1. /\ IsText(text) /\ loop \in LoopState /\ error = NoError
      /\ Unparsed /\ text' = text /\ raw' = raw
      /\ n \in Nat /\ EndOf(text) \in Nat
      /\ nStmts \in 0..n
      /\ Before(loop.start) /\ loop.start <= flex.at
      /\ loop.keyword => loop.start < flex.at
  BY TextIsSorted, Ends DEF IInv, StateInv, FillInv, SplitWithScanner
<1>2. PICK L, C : Filling(L, C, k)
  BY <1>0
<1>3. /\ HasRead(k, flex) /\ Trace(L, C, n)
      /\ loop.keyword = L[k].keyword /\ loop.parens = L[k].parens
      /\ nStmts = C[n] + Ended(L[n], "EOF") /\ Len(stmts) = C[k]
  BY <1>2 DEF Filling
<1>4. /\ \A i \in 0..n : L[i] \in LoopState /\ C[i] \in Nat
      /\ \A i \in 0..n - 1 : text[i + 1].kind # "BAD"
  BY <1>1, <1>3, TraceFields
<1>5. \/ /\ k < n /\ k + 1 \in 0..n /\ scanned.token = text[k + 1]
         /\ text[k + 1].kind # "EOF" /\ scanned.flex = ScannerAt(Position(k + 1))
         /\ text[k + 1].at \in 0..EndOf(text)
      \/ /\ k = n /\ scanned.token = EndToken
         /\ scanned.token.kind = "EOF" /\ scanned.token.at = EndOf(text)
  BY <1>1, <1>3, ScannedIs
<1>6. ScanError(scanned) \/ FillStatement(scanned)
  BY DEF SplitWithScanner, CountStatement
<1> HIDE DEF scanned
<1>7. tok # "BAD"
  <2>1. k < n => k \in 0..n - 1
    BY <1>1
  <2> QED
    BY <1>4, <1>5, <2>1
<1>8. FillStatement(scanned)
  BY <1>6, <1>7 DEF ScanError
<1>9. CASE tok = "EOF"
  <2>1. k = n /\ scanned.token.at = EndOf(text)
    BY <1>5, <1>9
  <2> DEFINE loc == EndOf(text)
  <2>2. /\ loop' = Filled(loop, "EOF", loc) /\ StartParser /\ pc' = "parse"
        /\ stmts' = IF EndsStatement(loop, "EOF")
                    THEN Append(stmts, [location |-> loop.start, len |-> loc - loop.start])
                    ELSE stmts
        /\ UNCHANGED <<nStmts, error>>
    BY <1>8, <1>9, <2>1 DEF FillStatement, StartParser
  <2>3. flex.at = loc /\ loc \in 0..EndOf(text)
    BY <1>1, <1>3, <2>1, Ends DEF HasRead
  <2> HIDE DEF loc
  <2>4. Before(loop.start)' /\ Len(stmts') = Len(stmts) + Ended(loop, "EOF")
    BY <1>1, <2>2, <2>3, StatementWritten
  <2>5. Ended(loop, "EOF") = Ended(L[n], "EOF")
    BY <1>3, <2>1 DEF Ended, EndsStatement
  <2>6. Len(stmts') = nStmts'
    BY <1>3, <2>1, <2>2, <2>4, <2>5
  <2>7. ParserInv'
    BY <1>1, <2>2, ParserStarts
  <2>8. loop' \in LoopState
    BY <1>1, <2>2, <2>3, FilledIs
  <2>9. stmts' \in Seq(RawStmt)
    BY <2>4 DEF Before, RawStmt
  <2>10. StateInv'
    BY <1>1, <2>2, <2>8, <2>9 DEF StateInv, LoopState
  <2> QED
    BY <1>1, <2>2, <2>4, <2>6, <2>7, <2>10 DEF IInv, CountInv, FillInv, ResultInv
<1>10. CASE tok # "EOF"
  <2>1. /\ k < n /\ k + 1 \in 0..n /\ scanned.token = text[k + 1]
        /\ scanned.flex = ScannerAt(Position(k + 1))
        /\ text[k + 1].at \in 0..EndOf(text)
    BY <1>5, <1>10
  <2>2. /\ pc' = "fill" /\ flex' = ScannerAt(Position(k + 1))
        /\ loop' = Filled(loop, text[k + 1].kind, text[k + 1].at)
        /\ stmts' = IF EndsStatement(loop, text[k + 1].kind)
                    THEN Append(stmts, [location |-> loop.start, len |-> text[k + 1].at - loop.start])
                    ELSE stmts
        /\ UNCHANGED <<la, yylloc, delivered, lexing, nStmts, error>>
    BY <1>8, <1>10, <2>1 DEF FillStatement
  <2>3. /\ Filling(L, C, k + 1)' /\ Before(loop.start)'
        /\ loop'.start <= flex'.at
        /\ loop'.keyword => loop'.start < flex'.at
    BY <1>1, <1>2, <2>1, <2>2, FillToken
  <2>4. Unparsed'
    BY <1>1, <2>2, UnparsedKept
  <2>5. loop' \in LoopState'
    BY <2>3 DEF Filling
  <2>6. stmts' \in Seq(RawStmt)
    BY <2>3 DEF Before, RawStmt
  <2>7. StateInv'
    BY <1>1, <2>2, <2>5, <2>6 DEF StateInv
  <2>8. FillInv'
    <3>1. k + 1 \in 0..Len(text')
      BY <1>1, <2>1
    <3> QED
      BY <1>1, <2>2, <2>3, <2>4, <3>1 DEF FillInv
  <2> QED
    BY <2>2, <2>7, <2>8 DEF IInv, CountInv, ResultInv
<1> QED
  BY <1>9, <1>10

LEMMA ParseStepInv ==
  ASSUME IInv, SplitWithParser
  PROVE  IInv'
<1>1. /\ pc = "parse" /\ ParserInv
      /\ IF error = NoError THEN Len(stmts) = nStmts /\ Before(loop.start) ELSE stmts = Null
  BY DEF IInv, ResultInv, SplitWithParser
<1>2. ParserInv'
  <2>1. BaseYylex /\ GrammarStep
    BY DEF SplitWithParser, GrammarStep
  <2> QED
    BY <1>1, <2>1, BaseYylexInv
<1>3. /\ pc' \in {"parse", "returned"} /\ UNCHANGED <<text, loop, nStmts, stmts, error>>
  BY <1>1 DEF SplitWithParser, BaseYylex
<1>4. StateInv'
  BY <1>3 DEF IInv, StateInv, LoopState
<1>5. error = NoError => Before(loop.start)'
  BY <1>1, <1>3 DEF Before
<1> QED
  BY <1>1, <1>2, <1>3, <1>4, <1>5 DEF IInv, CountInv, FillInv, ResultInv

LEMMA StutterInv ==
  ASSUME IInv, UNCHANGED vars
  PROVE  IInv'
<1>1. UNCHANGED <<text, flex, la, yylloc, delivered, lexing>>
      /\ UNCHANGED <<pc, loop, nStmts, stmts, raw, error>>
  BY DEF vars
<1>2. StateInv'
  BY <1>1 DEF IInv, StateInv, LoopState
<1>3. /\ \A k : HasRead(k, flex) => HasRead(k, flex)'
      /\ \A k : \A L, C : Trace(L, C, k) => Trace(L, C, k)'
  BY <1>1 DEF HasRead, Flex, Position, Trace, LoopState
<1>4. Unparsed => Unparsed'
  BY <1>1, UnparsedKept
<1>5. Before(loop.start) => Before(loop.start)'
  BY <1>1 DEF Before
<1>6. \A k : \A L, C : Counting(L, C, k) => Counting(L, C, k)'
  BY <1>1, <1>3 DEF Counting
<1>7. \A k : \A L, C : Filling(L, C, k) => Filling(L, C, k)'
  BY <1>1, <1>3 DEF Filling, Trace, LoopState
<1>8. CountInv'
  <2>1. CASE pc = "count"
    <3>0. PICK k \in 0..Len(text) : \E L, C : Counting(L, C, k)
      BY <2>1 DEF IInv, CountInv
    <3>1. PICK L, C : Counting(L, C, k)
      BY <3>0
    <3>2. Counting(L, C, k)'
      BY <1>6, <3>1
    <3> QED
      BY <1>1, <1>4, <2>1, <3>2 DEF IInv, CountInv
  <2> QED
    BY <1>1, <2>1 DEF CountInv
<1>9. FillInv'
  <2>1. CASE pc = "fill"
    <3>0. PICK k \in 0..Len(text) : \E L, C : Filling(L, C, k)
      BY <2>1 DEF IInv, FillInv
    <3>1. PICK L, C : Filling(L, C, k)
      BY <3>0
    <3>2. Filling(L, C, k)'
      BY <1>7, <3>1
    <3> QED
      BY <1>1, <1>4, <1>5, <2>1, <3>2 DEF IInv, FillInv
  <2> QED
    BY <1>1, <2>1 DEF FillInv
<1>10. ParserInv => ParserInv'
  <2>1. \A k : TokenIs(k, la.token, Uncut) => TokenIs(k, la.token, Uncut)'
    BY <1>1 DEF TokenIs, ScannerAt, Position, Uncut, EndToken
  <2>2. \A k : Lexed(k) => Lexed(k)'
    BY SMTT(30), <1>1 DEF Lexed, Types, Pending, HasRead, Flex, La, TokenIs, ScannerAt, Position, Uncut, EndToken
  <2>3. Types => Types'
    BY <1>1 DEF Types, Flex, La
  <2>4. ErrorsQuoteTheToken => ErrorsQuoteTheToken'
    BY <1>1 DEF ErrorsQuoteTheToken, QuotedTo
  <2>5. RawInv(raw) => RawInv(raw)'
    BY <1>1 DEF RawInv
  <2> QED
    BY <1>1, <2>2, <2>3, <2>4, <2>5 DEF ParserInv
<1>11. ResultInv'
  BY <1>1, <1>5, <1>10 DEF IInv, ResultInv
<1> QED
  BY <1>2, <1>8, <1>9, <1>11 DEF IInv

LEMMA Invariant == Spec => []IInv
<1>1. IInv /\ [Next]_vars => IInv'
  <2> SUFFICES ASSUME IInv, [Next]_vars PROVE IInv'
    OBVIOUS
  <2>1. CASE SplitWithScanner
    <3>1. pc = "count" \/ pc = "fill"
      BY <2>1 DEF SplitWithScanner
    <3> QED
      BY <2>1, <3>1, CountStepInv, FillStepInv
  <2>2. CASE SplitWithParser
    BY <2>2, ParseStepInv
  <2>3. CASE UNCHANGED vars
    BY <2>3, StutterInv
  <2> QED
    BY <2>1, <2>2, <2>3 DEF Next, Returned
<1> QED
  BY InitInv, <1>1, PTL DEF Spec

-----------------------------------------------------------------------------
LEMMA FilterTypes ==
  ASSUME IsText(text), Types, Len(delivered) <= Len(text) + 2,
         lexing \in {"ready", "skipping", "done", "error", "invalid"}
  PROVE  FilterTypeOK
<1>1. flex \in Flex /\ yylloc \in 0..EndOf(text)
  BY DEF Types
<1>2. PICK T, H : la \in La(T, H)
  BY DEF Types
<1> QED
  BY <1>1, <1>2 DEF FilterTypeOK, Flex, La

LEMMA UnparsedTypes ==
  ASSUME IsText(text), Unparsed, NEW k, HasRead(k, flex)
  PROVE  FilterTypeOK /\ raw.list \in Seq(RawStmt)
<1>1. EndOf(text) \in Nat /\ Len(text) \in Nat
  BY Ends, TextIsSorted
<1>2. PICK mode \in Modes : la = Fresh(text, mode).la
  BY DEF Unparsed
<1>3. la.have \in BOOLEAN /\ la.end = NoEnd
  BY <1>2 DEF Fresh
<1>4. flex \in Flex
  BY DEF HasRead
<1>5. delivered = <<>> /\ lexing = "ready" /\ yylloc = 0 /\ raw.list = <<>>
  BY DEF Unparsed, NoRaw
<1>6. Len(delivered) = 0 /\ <<>> \in Seq(RawStmt)
  BY <1>5, EmptySeq
<1> QED
  BY <1>1, <1>3, <1>4, <1>5, <1>6 DEF FilterTypeOK, Flex

LEMMA InvariantImpliesTypes == IInv => TypeOK
<1> SUFFICES ASSUME IInv PROVE TypeOK
  OBVIOUS
<1>1. StateInv /\ CountInv /\ FillInv /\ ResultInv
  BY DEF IInv
<1>2. FilterTypeOK /\ raw.list \in Seq(RawStmt)
  <2>1. CASE pc = "count"
    <3>0. PICK k \in 0..Len(text) : \E L, C : Counting(L, C, k)
      BY <1>1, <2>1 DEF CountInv
    <3>1. PICK L, C : Counting(L, C, k)
      BY <3>0
    <3>2. HasRead(k, flex)
      BY <3>1 DEF Counting
    <3> QED
      BY <1>1, <2>1, <3>2, UnparsedTypes DEF CountInv, StateInv
  <2>2. CASE pc = "fill"
    <3>0. PICK k \in 0..Len(text) : \E L, C : Filling(L, C, k)
      BY <1>1, <2>2 DEF FillInv
    <3>1. PICK L, C : Filling(L, C, k)
      BY <3>0
    <3>2. HasRead(k, flex)
      BY <3>1 DEF Filling
    <3> QED
      BY <1>1, <2>2, <3>2, UnparsedTypes DEF FillInv, StateInv
  <2>3. CASE pc \in {"parse", "returned"}
    <3>1. ParserInv
      BY <1>1, <2>3 DEF ResultInv
    <3> QED
      BY <3>1, FilterTypes DEF ParserInv, Calling, RawInv, Raw
  <2> QED
    BY <1>1, <2>1, <2>2, <2>3 DEF StateInv
<1> QED
  BY <1>1, <1>2 DEF TypeOK, StateInv, LoopState, RawStmt

LEMMA InvariantImpliesAgreement == IInv => PassesAgree
<1> SUFFICES ASSUME IInv PROVE PassesAgree
  OBVIOUS
<1>1. TypeOK
  BY InvariantImpliesTypes
<1>2. ASSUME pc = "fill"
      PROVE  Len(stmts) <= nStmts
  <2>0. PICK k \in 0..Len(text) : \E L, C : Filling(L, C, k)
    BY <1>2 DEF IInv, FillInv
  <2>1. PICK L, C : Filling(L, C, k)
    BY <2>0
  <2>2. /\ Trace(L, C, Len(text)) /\ Len(stmts) = C[k]
        /\ nStmts = C[Len(text)] + Ended(L[Len(text)], "EOF")
    BY <2>1 DEF Filling
  <2>3. IsText(text) /\ Len(text) \in Nat
    BY TextIsSorted DEF IInv, StateInv
  <2>4. C[k] \in Nat /\ C[Len(text)] \in Nat /\ C[k] <= C[Len(text)]
    BY <2>2, <2>3, TraceFields
  <2>5. Ended(L[Len(text)], "EOF") \in {0, 1}
    BY DEF Ended
  <2> QED
    BY <2>2, <2>4, <2>5
<1> QED
  BY <1>1, <1>2 DEF PassesAgree, IInv, ResultInv

LEMMA BeforeIsDisjoint ==
  ASSUME IsText(text), NEW at, Before(at)
  PROVE  StatementsAreDisjoint
BY DEF Before, StatementsAreDisjoint

LEMMA InvariantImpliesDisjoint == IInv => StatementsAreDisjoint
<1> SUFFICES ASSUME IInv PROVE StatementsAreDisjoint
  OBVIOUS
<1>1. IsText(text) /\ pc \in {"count", "fill", "parse", "returned"}
  BY DEF IInv, StateInv
<1>2. CASE stmts = Null
  BY <1>2 DEF StatementsAreDisjoint
<1>3. CASE Before(loop.start)
  BY <1>1, <1>3, BeforeIsDisjoint
<1> QED
  BY <1>1, <1>2, <1>3 DEF IInv, CountInv, FillInv, ResultInv

LEMMA InvariantImpliesQuotes == IInv => ErrorsQuoteTheToken
<1> SUFFICES ASSUME IInv PROVE ErrorsQuoteTheToken
  OBVIOUS
<1>1. CASE pc \in {"count", "fill"}
  <2>1. delivered = <<>> /\ lexing = "ready"
    BY <1>1 DEF IInv, CountInv, FillInv, Unparsed
  <2> QED
    BY <2>1 DEF ErrorsQuoteTheToken
<1>2. CASE pc \in {"parse", "returned"}
  BY <1>2 DEF IInv, ResultInv, ParserInv
<1> QED
  BY <1>1, <1>2 DEF IInv, StateInv

-----------------------------------------------------------------------------
(***************************************************************************)
(* What base_yylex takes from the text, and gives to the grammar           *)
(***************************************************************************)
\* The grammar is past the first k tokens: they were delivered or skipped.
UsedUp(k) ==
  /\ k \in 0..Len(text)
  /\ \/ ~la.have /\ HasRead(k, flex)
     \/ la.have /\ k = 0 /\ HasRead(0, Uncut) /\ la.token.kind \in Modes /\ la.token.at = 0
        /\ delivered = <<>>
     \/ la.have /\ k < Len(text) /\ HasRead(k + 1, Uncut) /\ la.token = text[k + 1]
     \/ la.have /\ k = Len(text) /\ HasRead(k, Uncut) /\ la.token = EndToken

\* The token of a call that comes after the first k.
Taken(k, cur) ==
  \/ /\ k = 0 /\ HasRead(0, cur.flex) /\ cur.token.kind \in Modes /\ cur.token.at = 0
     /\ delivered = <<>>
  \/ k < Len(text) /\ HasRead(k + 1, cur.flex) /\ cur.token = text[k + 1]
  \/ k = Len(text) /\ HasRead(k, cur.flex) /\ cur.token = EndToken

KindOf(i) == IF i <= Len(text) THEN text[i].kind ELSE "EOF"

\* The grammar receives one token for those after the first k, up to j.
Receives(kind, k, j) ==
  /\ delivered' = Append(delivered, [kind |-> kind, at |-> text[k + 1].at, end |-> Position(j)])
  /\ lexing' = "ready"
  /\ UsedUp(j)'

\* What a call does that starts behind the first k tokens.
ModeStep(k) ==
  /\ k = 0 /\ delivered = <<>>
  /\ \E mode \in Modes : delivered' = Append(delivered, [kind |-> mode, at |-> 0, end |-> 0])
  /\ lexing' = "ready"
  /\ UsedUp(0)'

SkipStep(k) ==
  /\ k < Len(text) /\ text[k + 1].kind \in Comments
  /\ delivered' = delivered
  /\ lexing' = "skipping"
  /\ UsedUp(k + 1)'

WordStep(k) ==
  /\ k < Len(text) /\ text[k + 1].kind \notin Comments \cup {"BAD"}
  /\ ~LooksAhead(text[k + 1].kind)
  /\ Receives(text[k + 1].kind, k, k + 1)

LookAheadStep(k) ==
  /\ k < Len(text) /\ LooksAhead(text[k + 1].kind)
  /\ ~(text[k + 1].kind \in Unicode /\ KindOf(k + 2) = "UESCAPE")
  /\ Receives(Replaced(text[k + 1].kind, KindOf(k + 2)), k, k + 1)

EscapeStep(k) ==
  /\ k + 3 <= Len(text) /\ text[k + 1].kind \in Unicode
  /\ text[k + 2].kind = "UESCAPE" /\ text[k + 3].kind = "SCONST"
  /\ Receives(Replaced(text[k + 1].kind, "UESCAPE"), k, k + 3)

EndStep(k) ==
  /\ k = Len(text)
  /\ delivered' = Append(delivered, [kind |-> "EOF", at |-> EndOf(text), end |-> EndOf(text)])
  /\ lexing' = "done"

StopStep == delivered' = delivered /\ lexing' \in {"error", "invalid"}

TakesFrom(k) ==
  \/ ModeStep(k) \/ SkipStep(k) \/ WordStep(k) \/ LookAheadStep(k) \/ EscapeStep(k)
  \/ EndStep(k) \/ StopStep

LEMMA CurrentIsTaken ==
  ASSUME IsText(text), NEW k, UsedUp(k)
  PROVE  Taken(k, Current)
<1>0. Len(text) \in Nat /\ k \in 0..Len(text)
  BY TextIsSorted DEF UsedUp
<1>1. CASE la.have
  <2>1. Current = [token |-> la.token, flex |-> Uncut]
    BY <1>1 DEF Current, Uncut
  <2>2. Current.token = la.token /\ Current.flex = Uncut
    <3> HIDE DEF Uncut
    <3> QED
      BY <2>1
  <2> QED
    BY <1>1, <2>2 DEF UsedUp, Taken
<1>2. CASE ~la.have
  <2>1. Current = CoreYylex(text, flex)
    BY <1>2 DEF Current
  <2>2. HasRead(k, flex)
    BY <1>2 DEF UsedUp
  <2>3. CASE k < Len(text)
    <3>1. k + 1 \in 0..Len(text)
      BY <1>0, <2>3
    <3>2. HasRead(k + 1, ScannerAt(Position(k + 1)))
      BY <3>1, ScannerAtRead
    <3> QED
      BY <2>1, <2>2, <2>3, <3>2, CoreYylexReads DEF Taken
  <2>4. CASE k = Len(text)
    <3>1. HasRead(k, ScannerAt(Position(k)))
      BY <1>0, ScannerAtRead
    <3> QED
      BY <2>1, <2>2, <2>4, <3>1, CoreYylexReads DEF Taken
  <2> QED
    BY <1>0, <2>3, <2>4
<1> QED
  BY <1>1, <1>2

\* After a call that keeps no token ahead.
LEMMA UsedUpNext ==
  ASSUME text' = text, ~la'.have, NEW k \in 0..Len(text), HasRead(k, flex')
  PROVE  UsedUp(k)'
<1>1. HasRead(k, flex)'
  BY DEF HasRead, Flex, Position
<1> QED
  BY <1>1 DEF UsedUp

\* And after one that does.
LEMMA UsedUpAhead ==
  ASSUME IsText(text), text' = text, la'.have, NEW k \in 0..Len(text),
         \/ /\ k < Len(text) /\ la'.token = text[k + 1]
            /\ Uncut' = ScannerAt(Position(k + 1))
         \/ k = Len(text) /\ la'.token = EndToken /\ Uncut' = ScannerAt(Position(k))
  PROVE  UsedUp(k)'
<1>0. Len(text) \in Nat
  BY TextIsSorted
<1>1. \A j \in 0..Len(text) : Uncut' = ScannerAt(Position(j)) => HasRead(j, Uncut)'
  <2> TAKE j \in 0..Len(text)
  <2>1. HasRead(j, ScannerAt(Position(j)))
    BY ScannerAtRead
  <2> HIDE DEF Uncut
  <2> QED
    BY <2>1 DEF HasRead, Flex, Position
<1>2. k < Len(text) => k + 1 \in 0..Len(text)
  BY <1>0
<1>3. EndToken' = EndToken
  BY DEF EndToken
<1> HIDE DEF Uncut
<1> QED
  BY <1>0, <1>1, <1>2, <1>3 DEF UsedUp

LEMMA HaveCleared ==
  ASSUME Types
  PROVE  ~[la EXCEPT !.have = FALSE].have
BY LaType

\* What base_yylex makes of a word is another one, unless it is a keyword.
LEMMA ReplacedIs ==
  ASSUME NEW kind, LooksAhead(kind), NEW next
  PROVE  /\ kind \in Unicode => Replaced(kind, next) \in {"IDENT", "SCONST"}
         /\ kind \notin Unicode =>
              /\ kind \in Keywords
              /\ \/ Replaced(kind, next) = kind
                 \/ Replaced(kind, next)
                      \in {"FORMAT_LA", "NOT_LA", "NULLS_LA", "WITH_LA", "WITHOUT_LA"}
         /\ Replaced(kind, next) # "EOF" /\ Replaced(kind, next) \notin Modes
<1>1. kind \in {"FORMAT", "NOT", "NULLS_P", "WITH", "WITHOUT", "UIDENT", "USCONST"}
  BY DEF LooksAhead, Following, Unicode
<1>2. /\ Replacement["FORMAT"] = "FORMAT_LA" /\ Replacement["NOT"] = "NOT_LA"
      /\ Replacement["NULLS_P"] = "NULLS_LA" /\ Replacement["WITH"] = "WITH_LA"
      /\ Replacement["WITHOUT"] = "WITHOUT_LA"
      /\ Replacement["UIDENT"] = "IDENT" /\ Replacement["USCONST"] = "SCONST"
  BY DEF Replacement
<1>3. /\ kind \in {"UIDENT", "USCONST"} => Replaced(kind, next) = Replacement[kind]
      /\ Replaced(kind, next) \in {kind, Replacement[kind]}
  BY DEF Replaced, Unicode
<1>4. \A word \in DOMAIN Replacement : Replacement[word] \notin Modes
  BY ModesAssumption DEF Replacements
<1>5. kind \in DOMAIN Replacement
  BY <1>1 DEF Replacement
<1>6. kind \in Kinds
  BY <1>1 DEF Kinds, Keywords
<1>7. Replaced(kind, next) \notin Modes
  BY <1>3, <1>4, <1>5, <1>6, ModesAssumption
<1>8. kind \notin Unicode => kind \in Keywords
  BY <1>1 DEF Unicode, Keywords
<1> QED
  BY <1>1, <1>2, <1>3, <1>7, <1>8 DEF Unicode

LEMMA SkipTakes ==
  ASSUME IsText(text), Types, NEW k \in 0..Len(text), NEW cur, Taken(k, cur),
         SkipComment(cur), text' = text
  PROVE  SkipStep(k)
<1>0. Len(text) \in Nat
  BY TextIsSorted
<1>1. cur.token.kind \in Comments /\ flex' = cur.flex /\ ~la'.have
      /\ lexing' = "skipping" /\ delivered' = delivered
  BY HaveCleared DEF SkipComment
<1>2. k < Len(text) /\ HasRead(k + 1, cur.flex) /\ cur.token = text[k + 1]
  BY <1>1, ModesAreNoTokens, EndIsNoToken DEF Taken, EndToken
<1>3. UsedUp(k + 1)'
  <2>1. k + 1 \in 0..Len(text)
    BY <1>0, <1>2
  <2> QED
    BY <1>1, <1>2, <2>1, UsedUpNext
<1> QED
  BY <1>1, <1>2, <1>3 DEF SkipStep

LEMMA DeliverTakes ==
  ASSUME IsText(text), Types, NEW k \in 0..Len(text), NEW cur, Taken(k, cur),
         Deliver(cur), text' = text
  PROVE  TakesFrom(k)
<1>0. Len(text) \in Nat
  BY TextIsSorted
<1>1. cur.token.kind \notin Comments /\ flex' = cur.flex /\ ~la'.have
      /\ ~LooksAhead(cur.token.kind)
  BY HaveCleared DEF Deliver
<1>2. CASE cur.token.kind = "BAD"
  BY <1>2 DEF Deliver, Fail, StopStep, TakesFrom
<1>3. CASE cur.token.kind # "BAD"
  <2>1. Return(cur.token.kind, cur.token.at, cur.flex.at)
    BY <1>3 DEF Deliver
  <2>2. CASE k = 0 /\ HasRead(0, cur.flex) /\ cur.token.kind \in Modes /\ cur.token.at = 0
             /\ delivered = <<>>
    <3>1. cur.flex.at = 0 /\ cur.token.kind # "EOF"
      BY <2>2, ModesAreNoTokens DEF HasRead, Position
    <3>2. UsedUp(0)'
      BY <1>0, <1>1, <2>2, UsedUpNext
    <3> QED
      BY <2>1, <2>2, <3>1, <3>2 DEF Return, ModeStep, TakesFrom
  <2>3. CASE k < Len(text) /\ HasRead(k + 1, cur.flex) /\ cur.token = text[k + 1]
    <3>1. k + 1 \in 0..Len(text) /\ k + 1 \in 1..Len(text)
      BY <1>0, <2>3
    <3>2. cur.flex.at = Position(k + 1) /\ cur.token.kind # "EOF"
      BY <2>3, <3>1, TextIsSorted, EndIsNoToken DEF HasRead
    <3>3. UsedUp(k + 1)'
      BY <1>1, <2>3, <3>1, UsedUpNext
    <3> QED
      BY <1>1, <1>3, <2>1, <2>3, <3>2, <3>3 DEF Return, Receives, WordStep, TakesFrom
  <2>4. CASE k = Len(text) /\ HasRead(k, cur.flex) /\ cur.token = EndToken
    <3>1. cur.flex.at = EndOf(text)
      BY <2>4, Ends DEF HasRead
    <3> QED
      BY <2>1, <2>4, <3>1 DEF Return, EndToken, EndStep, TakesFrom
  <2> QED
    BY <2>2, <2>3, <2>4 DEF Taken
<1> QED
  BY <1>2, <1>3

\* The token ahead of one that is followed.
LEMMA AheadOf ==
  ASSUME IsText(text), NEW k \in 0..Len(text), NEW cur, Taken(k, cur),
         LooksAhead(cur.token.kind)
  PROVE  /\ k < Len(text) /\ k + 1 \in 1..Len(text) /\ cur.token = text[k + 1]
         /\ TokenEnd(cur.token) = Position(k + 1)
         /\ Position(k + 1) \in 0..EndOf(text)
         /\ LET ahead == CoreYylex(text, cur.flex)
            IN  /\ ahead.token.kind = KindOf(k + 2)
                /\ ahead.flex \in Flex
                /\ \/ /\ k + 1 < Len(text) /\ ahead.token = text[k + 2]
                      /\ ahead.flex = ScannerAt(Position(k + 2))
                   \/ /\ k + 1 = Len(text) /\ ahead.token = EndToken
                      /\ ahead.flex = ScannerAt(Position(k + 1))
<1>0. Len(text) \in Nat
  BY TextIsSorted
<1>1. k < Len(text) /\ HasRead(k + 1, cur.flex) /\ cur.token = text[k + 1]
  BY ModesAreNoTokens, EndIsNoToken DEF Taken, EndToken
<1>2. k + 1 \in 1..Len(text) /\ k + 1 \in 0..Len(text) /\ k + 1 # 0 /\ (k + 1) + 1 = k + 2
  BY <1>0, <1>1
<1>3. TokenEnd(cur.token) = Position(k + 1)
  BY <1>1, <1>2 DEF TokenEnd, Position
<1>4. Position(k + 1) \in 0..EndOf(text)
  BY <1>2, Ends
<1> DEFINE ahead == CoreYylex(text, cur.flex)
<1>5. CASE k + 1 < Len(text)
  <2>1. k + 2 \in 0..Len(text) /\ k + 2 <= Len(text)
    BY <1>0, <1>2, <1>5
  <2>2. ahead.token = text[k + 2] /\ ahead.flex = ScannerAt(Position(k + 2))
    BY <1>1, <1>2, <1>5, CoreYylexReads
  <2>3. ahead.flex \in Flex
    BY <2>1, <2>2, ScannerAtBuf
  <2> QED
    BY <1>1, <1>2, <1>3, <1>4, <1>5, <2>1, <2>2, <2>3 DEF KindOf
<1>6. CASE k + 1 = Len(text)
  <2>1. ahead.token = EndToken /\ ahead.flex = ScannerAt(Position(k + 1))
    BY <1>1, <1>2, <1>6, CoreYylexReads
  <2>2. ahead.flex \in Flex
    BY <1>2, <2>1, ScannerAtBuf
  <2>3. ~(k + 2 <= Len(text))
    BY <1>0, <1>6
  <2>4. ahead.token.kind = KindOf(k + 2)
    BY <2>1, <2>3 DEF KindOf, EndToken
  <2> QED
    BY <1>1, <1>2, <1>3, <1>4, <1>6, <2>1, <2>2, <2>4
<1> QED
  BY <1>0, <1>2, <1>5, <1>6

LEMMA LookAheadTakes ==
  ASSUME IsText(text), NEW k \in 0..Len(text), NEW cur, Taken(k, cur),
         LooksAhead(cur.token.kind), LookAhead(cur, CoreYylex(text, cur.flex)),
         text' = text
  PROVE  TakesFrom(k)
<1> DEFINE ahead == CoreYylex(text, cur.flex)
           e == Position(k + 1)
           cut == [ahead.flex EXCEPT !.buf[e] = Nul]
<1>0. Len(text) \in Nat
  BY TextIsSorted
<1>1. /\ k < Len(text) /\ k + 1 \in 1..Len(text) /\ cur.token = text[k + 1]
      /\ TokenEnd(cur.token) = e /\ e \in 0..EndOf(text)
      /\ ahead.token.kind = KindOf(k + 2) /\ ahead.flex \in Flex
      /\ \/ /\ k + 1 < Len(text) /\ ahead.token = text[k + 2]
            /\ ahead.flex = ScannerAt(Position(k + 2))
         \/ /\ k + 1 = Len(text) /\ ahead.token = EndToken
            /\ ahead.flex = ScannerAt(e)
  BY AheadOf
<1>2. /\ ~(cur.token.kind \in Unicode /\ ahead.token.kind = "UESCAPE")
      /\ flex' = cut
      /\ la' = [have |-> TRUE, token |-> ahead.token, end |-> e, hold |-> ahead.flex.buf[e]]
      /\ \/ Return(Replaced(cur.token.kind, ahead.token.kind), cur.token.at, e)
         \/ InvalidEscape(cur)
  BY <1>1 DEF LookAhead
<1>3. [cut EXCEPT !.buf[e] = ahead.flex.buf[e]] = ahead.flex
  <2> HIDE DEF ahead, e
  <2> QED
    BY <1>1, CutUncut
<1> HIDE DEF ahead, cut
<1>4. la'.have /\ la'.token = ahead.token /\ la'.end = e /\ la'.hold = ahead.flex.buf[e]
  BY <1>2
<1>5. Uncut' = ahead.flex
  <2>1. e # NoEnd
    BY <1>1, Ends DEF NoEnd
  <2>2. Uncut' = [flex' EXCEPT !.buf[la'.end] = la'.hold]
    BY <1>4, <2>1 DEF Uncut
  <2> QED
    BY <1>2, <1>3, <1>4, <2>2
<1>6. UsedUp(k + 1)'
  <2>1. k + 1 \in 0..Len(text) /\ (k + 1) + 1 = k + 2
    BY <1>0, <1>1
  <2> HIDE DEF Uncut
  <2> QED
    BY <1>1, <1>4, <1>5, <2>1, UsedUpAhead
<1>7. CASE Return(Replaced(cur.token.kind, ahead.token.kind), cur.token.at, e)
  <2>1. Replaced(cur.token.kind, ahead.token.kind) # "EOF"
    BY ReplacedIs
  <2>2. Receives(Replaced(text[k + 1].kind, KindOf(k + 2)), k, k + 1)
    BY <1>1, <1>6, <1>7, <2>1 DEF Return, Receives
  <2> QED
    BY <1>1, <1>2, <2>2 DEF LookAheadStep, TakesFrom
<1>8. CASE InvalidEscape(cur)
  BY <1>8 DEF InvalidEscape, StopStep, TakesFrom
<1> QED
  BY <1>2, <1>7, <1>8

LEMMA EscapeTakes ==
  ASSUME IsText(text), NEW k \in 0..Len(text), NEW cur, Taken(k, cur),
         LooksAhead(cur.token.kind), UnicodeEscape(cur, CoreYylex(text, cur.flex)),
         text' = text
  PROVE  TakesFrom(k)
<1> DEFINE ahead == CoreYylex(text, cur.flex)
           e == Position(k + 1)
           f == ScannerAt(Position(k + 2))
           cut == [ahead.flex EXCEPT !.buf[e] = Nul]
           third == CoreYylex(text, f)
<1>0. Len(text) \in Nat
  BY TextIsSorted
<1>1. /\ k < Len(text) /\ k + 1 \in 1..Len(text) /\ cur.token = text[k + 1]
      /\ TokenEnd(cur.token) = e /\ e \in 0..EndOf(text)
      /\ ahead.token.kind = KindOf(k + 2) /\ ahead.flex \in Flex
  BY AheadOf
<1>2. ahead.token.kind = "UESCAPE" /\ cur.token.kind \in Unicode
  BY DEF UnicodeEscape
<1>3. k + 1 < Len(text) /\ ahead.token = text[k + 2] /\ ahead.flex = f
  <2>1. ahead.token # EndToken
    BY <1>2 DEF EndToken
  <2> HIDE DEF ahead
  <2> QED
    BY <2>1, AheadOf DEF ahead
<1>4. k + 2 \in 0..Len(text) /\ (k + 2) + 1 = k + 3 /\ k + 2 <= Len(text)
  BY <1>0, <1>1, <1>3
<1>5. [cut EXCEPT !.buf[e] = ahead.flex.buf[e]] = f
  <2> HIDE DEF ahead, e, f
  <2> QED
    BY <1>1, <1>3, CutUncut
<1>6. /\ flex' = third.flex
      /\ \E t, h : la' = [have |-> FALSE, token |-> t, end |-> e, hold |-> h]
      /\ \/ /\ third.token.kind = "SCONST"
            /\ Return(Replaced(cur.token.kind, "UESCAPE"), cur.token.at, third.flex.at)
         \/ Fail(third.token.at)
         \/ InvalidEscape(cur)
  <2>1. CoreYylex(text, [cut EXCEPT !.buf[e] = ahead.flex.buf[e]]) = third
    BY <1>5
  <2> HIDE DEF ahead, third, e, f
  <2> QED
    BY <1>1, <2>1 DEF UnicodeEscape, ahead
<1>7. HasRead(k + 2, f)
  BY <1>4, ScannerAtRead
<1>8. CASE /\ third.token.kind = "SCONST"
           /\ Return(Replaced(cur.token.kind, "UESCAPE"), cur.token.at, third.flex.at)
  <2>1. k + 2 < Len(text)
    <3>1. CASE k + 2 = Len(text)
      <4>1. third.token = EndToken
        BY <1>7, <3>1, CoreYylexReads
      <4> QED
        BY <1>8, <4>1 DEF EndToken
    <3> QED
      BY <1>0, <1>4, <3>1
  <2>2. third.token = text[k + 3] /\ third.flex = ScannerAt(Position(k + 3))
    BY <1>4, <1>7, <2>1, CoreYylexReads
  <2>3. k + 3 \in 0..Len(text) /\ k + 3 <= Len(text)
    BY <1>0, <1>1, <2>1
  <2>4. HasRead(k + 3, flex') /\ third.flex.at = Position(k + 3)
    BY <1>6, <2>2, <2>3, ScannerAtRead DEF ScannerAt
  <2> HIDE DEF third, ahead, f, e, cut
  <2>5. UsedUp(k + 3)'
    <3>1. ~la'.have
      BY <1>6
    <3> QED
      BY <2>3, <2>4, <3>1, UsedUpNext
  <2>6. Replaced(cur.token.kind, "UESCAPE") # "EOF"
    BY ReplacedIs
  <2>7. Receives(Replaced(text[k + 1].kind, "UESCAPE"), k, k + 3)
    BY <1>1, <1>8, <2>4, <2>5, <2>6 DEF Return, Receives
  <2> QED
    BY <1>1, <1>2, <1>3, <1>8, <2>2, <2>3, <2>7 DEF EscapeStep, TakesFrom
<1>9. CASE Fail(third.token.at)
  BY <1>9 DEF Fail, StopStep, TakesFrom
<1>10. CASE InvalidEscape(cur)
  BY <1>10 DEF InvalidEscape, StopStep, TakesFrom
<1> HIDE DEF third, ahead, f, e, cut
<1> QED
  BY <1>6, <1>8, <1>9, <1>10

\* A call takes the next tokens of the text, and no others.
LEMMA BaseYylexTakes ==
  ASSUME IsText(text), Types, NEW k, UsedUp(k), BaseYylex
  PROVE  TakesFrom(k)
<1> DEFINE cur == Current
           ahead == CoreYylex(text, cur.flex)
<1>1. text' = text /\ k \in 0..Len(text) /\ Taken(k, cur)
  BY CurrentIsTaken DEF BaseYylex, UsedUp
<1>2. \/ SkipComment(cur)
      \/ Deliver(cur)
      \/ LooksAhead(cur.token.kind) /\ (\/ LookAheadFails(cur, ahead)
                                        \/ LookAhead(cur, ahead)
                                        \/ UnicodeEscape(cur, ahead))
  BY DEF BaseYylex
<1> HIDE DEF cur
<1>3. CASE SkipComment(cur)
  BY <1>1, <1>3, SkipTakes DEF TakesFrom
<1>4. CASE LookAheadFails(cur, ahead)
  BY <1>4 DEF LookAheadFails, Fail, StopStep, TakesFrom
<1> QED
  BY <1>1, <1>2, <1>3, <1>4, DeliverTakes, LookAheadTakes, EscapeTakes

-----------------------------------------------------------------------------
(***************************************************************************)
(* What the grammar receives                                               *)
(***************************************************************************)
AsExpected ==
  \A n \in 1..Len(delivered) :
    \/ n = 1 /\ delivered[n].kind \in Modes
    \/ delivered[n] = Expected(ReceivedTo(n - 1))

\* Of the first k tokens, only comments are not in what the grammar received.
ReceivedUpTo(k) ==
  /\ ReceivedTo(Len(delivered)) \in 0..Position(k)
  /\ \A i \in 1..k : text[i].at >= ReceivedTo(Len(delivered)) => text[i].kind \in Comments

LEMMA Positions ==
  ASSUME IsText(text), NEW k \in 0..Len(text)
  PROVE  /\ Position(k) \in Nat
         /\ \A i \in 1..k : ~(text[i].at >= Position(k))
         /\ k < Len(text) => /\ k + 1 \in 1..Len(text) /\ k + 1 \in 0..Len(text)
                             /\ text[k + 1].at \in Nat
                             /\ text[k + 1].at >= Position(k)
                             /\ Position(k + 1) = text[k + 1].at + 1
                             /\ text[k + 1].kind # "EOF"
<1>1. Len(text) \in Nat /\ EndOf(text) \in Nat
  BY TextIsSorted, Ends
<1>2. Position(k) \in 0..EndOf(text)
  BY Ends
<1>3. \A i \in 1..k : ~(text[i].at >= Position(k))
  <2> TAKE i \in 1..k
  <2>1. i \in 1..Len(text) /\ ~(i > k)
    BY <1>1
  <2> QED
    BY <2>1, Ends
<1>4. ASSUME k < Len(text)
      PROVE  /\ k + 1 \in 1..Len(text) /\ k + 1 \in 0..Len(text)
             /\ text[k + 1].at \in Nat
             /\ text[k + 1].at >= Position(k)
             /\ Position(k + 1) = text[k + 1].at + 1
             /\ text[k + 1].kind # "EOF"
  <2>1. k + 1 \in 1..Len(text) /\ k + 1 > k /\ k + 1 # 0 /\ k + 1 \in 0..Len(text)
    BY <1>1, <1>4
  <2>2. text[k + 1].at \in Nat /\ text[k + 1].kind # "EOF"
    BY <2>1, TextIsSorted, EndIsNoToken
  <2> QED
    BY <2>1, <2>2, Ends DEF Position
<1> QED
  BY <1>2, <1>3, <1>4

\* The next word, where no comment comes before it.
LEMMA WordFromIs ==
  ASSUME IsText(text), NEW k \in 0..Len(text), NEW p \in 0..Position(k),
         \A i \in 1..k : text[i].at >= p => text[i].kind \in Comments,
         KindOf(k + 1) \notin Comments
  PROVE  WordFrom(p) = IF k < Len(text) THEN text[k + 1] ELSE EndToken
<1> DEFINE ahead == {i \in 1..Len(text) : text[i].at >= p /\ text[i].kind \notin Comments}
           first == CHOOSE i \in ahead : \A j \in ahead : i <= j
<1>0. Len(text) \in Nat /\ Position(k) \in Nat
  BY TextIsSorted, Positions
<1>1. \A i \in ahead : i \in 1..Len(text) /\ i > k
  BY <1>0
<1>2. WordFrom(p) = IF ahead = {} THEN EndToken ELSE text[first]
  BY DEF WordFrom, EndToken
<1>3. CASE k < Len(text)
  <2>1. k + 1 \in ahead
    <3>1. /\ k + 1 \in 1..Len(text) /\ text[k + 1].at \in Nat /\ text[k + 1].at >= Position(k)
          /\ k + 1 <= Len(text)
      BY <1>0, <1>3, Positions
    <3> QED
      BY <1>0, <3>1 DEF KindOf
  <2>2. \A j \in ahead : k + 1 <= j
    BY <1>0, <1>1
  <2> HIDE DEF ahead
  <2>3. first \in ahead /\ \A j \in ahead : first <= j
    BY <2>1, <2>2
  <2>4. first = k + 1
    <3>1. first <= k + 1 /\ k + 1 <= first /\ first \in Nat
      BY <1>0, <1>1, <2>1, <2>2, <2>3
    <3> QED
      BY <3>1
  <2> QED
    BY <1>2, <1>3, <2>1, <2>4
<1>4. CASE ~(k < Len(text))
  <2>1. ahead = {}
    BY <1>0, <1>1, <1>4
  <2> QED
    BY <1>2, <1>4, <2>1
<1> QED
  BY <1>3, <1>4

\* And behind a token.
LEMMA NextWordIs ==
  ASSUME IsText(text), NEW k \in 0..Len(text), KindOf(k + 1) \notin Comments
  PROVE  WordFrom(Position(k)) = IF k < Len(text) THEN text[k + 1] ELSE EndToken
<1>1. Position(k) \in 0..Position(k)
  BY Positions
<1> QED
  BY <1>1, Positions, WordFromIs

\* What the grammar receives for the word after the first k tokens.
LEMMA ExpectedIs ==
  ASSUME IsText(text), NoCommentAhead, NEW k \in 0..Len(text), NEW p \in 0..Position(k),
         \A i \in 1..k : text[i].at >= p => text[i].kind \in Comments
  PROVE  /\ k = Len(text) =>
              Expected(p) = [kind |-> "EOF", at |-> EndOf(text), end |-> EndOf(text)]
         /\ k < Len(text) /\ text[k + 1].kind \notin Comments =>
              /\ ~LooksAhead(text[k + 1].kind) =>
                   Expected(p) = [kind |-> text[k + 1].kind, at |-> text[k + 1].at,
                                  end |-> Position(k + 1)]
              /\ LooksAhead(text[k + 1].kind)
                   /\ ~(text[k + 1].kind \in Unicode /\ KindOf(k + 2) = "UESCAPE") =>
                   Expected(p) = [kind |-> Replaced(text[k + 1].kind, KindOf(k + 2)),
                                  at |-> text[k + 1].at, end |-> Position(k + 1)]
              /\ text[k + 1].kind \in Unicode /\ KindOf(k + 2) = "UESCAPE"
                   /\ k + 3 <= Len(text) =>
                   Expected(p) = [kind |-> Replaced(text[k + 1].kind, "UESCAPE"),
                                  at |-> text[k + 1].at, end |-> Position(k + 3)]
<1> DEFINE word == WordFrom(p)
           next == WordFrom(word.at + 1)
           escape == WordFrom(next.at + 1)
<1>0. Len(text) \in Nat
  BY TextIsSorted
<1>1. Expected(p) =
        [kind |-> IF LooksAhead(word.kind) THEN Replaced(word.kind, next.kind) ELSE word.kind,
         at   |-> word.at,
         end  |-> CASE word.kind = "EOF" -> word.at
                    [] word.kind \in Unicode /\ next.kind = "UESCAPE" -> escape.at + 1
                    [] OTHER -> word.at + 1]
  BY DEF Expected
<1>2. CASE k = Len(text)
  <2>1. KindOf(k + 1) = "EOF"
    BY <1>0, <1>2 DEF KindOf
  <2>2. word = EndToken
    BY <1>0, <1>2, <2>1, WordFromIs, EndIsNoToken
  <2> HIDE DEF word, next, escape
  <2>3. word.kind = "EOF" /\ word.at = EndOf(text)
    BY <2>2 DEF EndToken
  <2>4. Expected(p) = [kind |-> "EOF", at |-> EndOf(text), end |-> EndOf(text)]
    BY <1>1, <2>3, EndIsNoToken DEF Unicode
  <2>5. ~(k < Len(text))
    BY <1>0, <1>2
  <2> QED
    BY <2>4, <2>5
<1>3. CASE k < Len(text) /\ text[k + 1].kind \notin Comments
  <2>1. /\ k + 1 \in 1..Len(text) /\ k + 1 \in 0..Len(text)
        /\ text[k + 1].at \in Nat /\ Position(k + 1) = text[k + 1].at + 1
        /\ text[k + 1].kind # "EOF" /\ (k + 1) + 1 = k + 2 /\ k # Len(text)
    BY <1>0, <1>3, Positions
  <2>2. word = text[k + 1]
    BY <1>0, <1>3, <2>1, WordFromIs DEF KindOf
  <2>3. CASE ~LooksAhead(text[k + 1].kind)
    <3>1. text[k + 1].kind \notin Unicode
      BY <2>3 DEF LooksAhead
    <3> HIDE DEF word, next, escape
    <3> QED
      BY <1>1, <2>1, <2>2, <2>3, <3>1
  <2>4. CASE LooksAhead(text[k + 1].kind)
    <3>1. KindOf(k + 2) \notin Comments
      <4>1. CASE k + 1 < Len(text)
        <5>1. k + 1 \in 1..Len(text) - 1 /\ k + 2 <= Len(text)
          BY <1>0, <2>1, <4>1
        <5>2. text[(k + 1) + 1].kind \notin Comments
          BY <2>4, <5>1 DEF NoCommentAhead
        <5> QED
          BY <2>1, <5>1, <5>2 DEF KindOf
      <4>2. CASE ~(k + 1 < Len(text))
        <5>1. ~(k + 2 <= Len(text))
          BY <1>0, <4>2
        <5> QED
          BY <5>1, EndIsNoToken DEF KindOf
      <4> QED
        BY <4>1, <4>2
    <3>2. next = IF k + 1 < Len(text) THEN text[k + 2] ELSE EndToken
      <4>1. word.at + 1 = Position(k + 1)
        BY <2>1, <2>2
      <4> HIDE DEF word
      <4> QED
        BY <2>1, <3>1, <4>1, NextWordIs
    <3> HIDE DEF next, word, escape
    <3>3. next.kind = KindOf(k + 2)
      BY <1>0, <2>1, <3>2 DEF KindOf, EndToken
    <3>4. CASE ~(text[k + 1].kind \in Unicode /\ KindOf(k + 2) = "UESCAPE")
      BY <1>1, <2>1, <2>2, <2>4, <3>3, <3>4
    <3>5. CASE /\ text[k + 1].kind \in Unicode /\ KindOf(k + 2) = "UESCAPE"
               /\ k + 3 <= Len(text)
      <4>1. k + 2 < Len(text) /\ k + 2 \in 0..Len(text) /\ (k + 2) + 1 = k + 3
            /\ k + 1 < Len(text) /\ k + 2 <= Len(text) /\ k + 2 \in 1..Len(text) - 1
        BY <1>0, <2>1, <3>5
      <4>2. next = text[k + 2] /\ text[k + 2].kind = "UESCAPE"
        BY <3>2, <3>5, <4>1 DEF KindOf
      <4>3. text[(k + 2) + 1].kind \notin Comments
        BY <4>1, <4>2 DEF NoCommentAhead
      <4>4. next.at + 1 = Position(k + 2)
        BY <2>1, <4>1, <4>2, Positions
      <4>5. escape = text[k + 3]
        <5>1. KindOf((k + 2) + 1) \notin Comments
          BY <3>5, <4>1, <4>3 DEF KindOf
        <5>2. escape = WordFrom(Position(k + 2))
          BY <4>4 DEF escape
        <5> QED
          BY <4>1, <5>1, <5>2, NextWordIs
      <4>6. escape.at + 1 = Position(k + 3)
        BY <4>1, <4>5, Positions
      <4> QED
        BY <1>1, <2>1, <2>2, <2>4, <3>3, <3>5, <4>6
    <3> QED
      BY <3>4, <3>5, <2>1, <2>4
  <2>5. text[k + 1].kind \in Unicode => LooksAhead(text[k + 1].kind)
    BY DEF LooksAhead
  <2> QED
    BY <2>1, <2>3, <2>4, <2>5
<1> QED
  BY <1>2, <1>3

\* One more token for the grammar.
LEMMA DeliveredMore ==
  ASSUME \E S : delivered \in Seq(S), NEW d, delivered' = Append(delivered, d), text' = text,
         AsExpected,
         \/ delivered = <<>> /\ d.kind \in Modes
         \/ d = Expected(ReceivedTo(Len(delivered)))
  PROVE  /\ AsExpected'
         /\ ReceivedTo(Len(delivered))' = d.end
         /\ Last(delivered') = d
<1>1. PICK S : delivered \in Seq(S)
  OBVIOUS
<1>2. delivered \in Seq(S \cup {d}) /\ d \in S \cup {d} /\ Len(delivered) \in Nat
  BY <1>1, SeqMonotonic, LenProperties
<1>3. /\ Len(delivered') = Len(delivered) + 1
      /\ \A n \in 1..Len(delivered) : delivered'[n] = delivered[n]
      /\ delivered'[Len(delivered) + 1] = d
  BY <1>2, AppendProperties
<1>4. ReceivedTo(Len(delivered))' = d.end
  BY <1>2, <1>3 DEF ReceivedTo
<1>5. \A n \in 0..Len(delivered) : ReceivedTo(n)' = ReceivedTo(n)
  <2> TAKE n \in 0..Len(delivered)
  <2>1. n # 0 => n \in 1..Len(delivered)
    BY <1>2
  <2> QED
    BY <1>3, <2>1 DEF ReceivedTo
<1>6. ASSUME NEW n \in 1..Len(delivered')
      PROVE  \/ n = 1 /\ delivered'[n].kind \in Modes
             \/ delivered'[n] = Expected(ReceivedTo(n - 1))'
  <2>0. n - 1 \in 0..Len(delivered)
    BY <1>2, <1>3
  <2>1. Expected(ReceivedTo(n - 1))' = Expected(ReceivedTo(n - 1))
    <3>1. ReceivedTo(n - 1)' = ReceivedTo(n - 1)
      BY <1>5, <2>0
    <3>2. \A q : WordFrom(q)' = WordFrom(q)
      BY DEF WordFrom
    <3> HIDE DEF ReceivedTo, WordFrom
    <3> QED
      BY <3>1, <3>2 DEF Expected
  <2>2. CASE n = Len(delivered) + 1
    <3>1. delivered = <<>> => n = 1
      BY <1>2, <2>2, EmptySeq
    <3>2. n - 1 = Len(delivered) /\ delivered'[n] = d
      BY <1>2, <1>3, <2>2
    <3> QED
      BY <2>1, <3>1, <3>2
  <2>3. CASE n # Len(delivered) + 1
    <3>1. n \in 1..Len(delivered)
      BY <1>2, <1>3, <2>3
    <3> QED
      BY <1>3, <2>1, <3>1 DEF AsExpected
  <2> QED
    BY <2>2, <2>3
<1>7. AsExpected'
  BY <1>6 DEF AsExpected
<1>8. Last(delivered') = d
  BY <1>3 DEF Last
<1> QED
  BY <1>4, <1>7, <1>8

ReceivedInv ==
  pc \in {"parse", "returned"} /\ NoCommentAhead =>
    /\ AsExpected
    /\ lexing \in Calling => \E k \in 0..Len(text) : UsedUp(k) /\ ReceivedUpTo(k)
    /\ lexing = "done" => Last(delivered).kind = "EOF"

\* Whatever a call takes, what it gives is what the text says.
LEMMA TakesAsExpected ==
  ASSUME IsText(text), \E S : delivered \in Seq(S), NoCommentAhead, NEW k \in 0..Len(text),
         TakesFrom(k), text' = text, AsExpected, ReceivedUpTo(k)
  PROVE  /\ AsExpected'
         /\ lexing' \in Calling => \E j \in 0..Len(text') : UsedUp(j)' /\ ReceivedUpTo(j)'
         /\ lexing' = "done" => Last(delivered').kind = "EOF"
<1> DEFINE p == ReceivedTo(Len(delivered))
<1>0. Len(text) \in Nat /\ EndOf(text) \in Nat
  BY TextIsSorted, Ends
<1>1. p \in 0..Position(k) /\ \A i \in 1..k : text[i].at >= p => text[i].kind \in Comments
  BY DEF ReceivedUpTo
<1>2. ASSUME NEW d, delivered' = Append(delivered, d),
             (delivered = <<>> /\ d.kind \in Modes) \/ d = Expected(p),
             NEW j \in 0..Len(text), k <= j, d.end = Position(j), UsedUp(j)'
      PROVE  AsExpected' /\ UsedUp(j)' /\ ReceivedUpTo(j)'
  <2>1. AsExpected' /\ ReceivedTo(Len(delivered))' = d.end
    BY <1>2, DeliveredMore
  <2>2. Position(j) \in 0..Position(j) /\ \A i \in 1..j : ~(text[i].at >= Position(j))
    BY Positions
  <2>3. Position(j)' = Position(j)
    BY DEF Position
  <2>4. ReceivedUpTo(j)'
    BY <1>2, <2>1, <2>2, <2>3 DEF ReceivedUpTo
  <2> QED
    BY <1>2, <2>1, <2>4
<1> HIDE DEF p
<1>3. CASE ModeStep(k)
  <2>1. PICK mode \in Modes : delivered' = Append(delivered, [kind |-> mode, at |-> 0, end |-> 0])
    BY <1>3 DEF ModeStep
  <2> DEFINE d == [kind |-> mode, at |-> 0, end |-> 0]
  <2>2. /\ d.kind \in Modes /\ d.end = Position(0) /\ 0 \in 0..Len(text) /\ k = 0 /\ k <= 0
        /\ delivered = <<>> /\ delivered' = Append(delivered, d) /\ UsedUp(0)'
        /\ lexing' = "ready"
    BY <1>0, <1>3, <2>1 DEF Position, ModeStep
  <2> HIDE DEF d
  <2>3. AsExpected' /\ UsedUp(0)' /\ ReceivedUpTo(0)'
    BY <1>2, <2>2
  <2> QED
    BY <2>2, <2>3
<1>4. CASE SkipStep(k)
  <2>1. /\ k + 1 \in 0..Len(text) /\ Position(k) <= Position(k + 1)
        /\ Position(k) \in Nat /\ Position(k + 1) \in Nat
    BY <1>0, <1>4, Positions DEF SkipStep
  <2>2. /\ delivered' = delivered /\ UsedUp(k + 1)' /\ text[k + 1].kind \in Comments
        /\ lexing' = "skipping"
    BY <1>4 DEF SkipStep
  <2>3. /\ p \in 0..Position(k + 1)
        /\ \A i \in 1..k + 1 : text[i].at >= p => text[i].kind \in Comments
    <3>1. \A i \in 1..k + 1 : i \in 1..k \/ i = k + 1
      BY <1>0
    <3> QED
      BY <1>1, <2>1, <2>2, <3>1
  <2>4. AsExpected'
    <3>1. \A q : WordFrom(q)' = WordFrom(q)
      BY DEF WordFrom
    <3>2. \A n : ReceivedTo(n)' = ReceivedTo(n)
      BY <2>2 DEF ReceivedTo
    <3>3. \A n \in 1..Len(delivered) : Expected(ReceivedTo(n - 1))' = Expected(ReceivedTo(n - 1))
      BY <3>1, <3>2 DEF Expected
    <3> QED
      BY <2>2, <3>3 DEF AsExpected
  <2>5. ReceivedUpTo(k + 1)'
    <3>1. ReceivedTo(Len(delivered))' = p
      BY <2>2 DEF ReceivedTo, p
    <3>2. Position(k + 1)' = Position(k + 1)
      BY DEF Position
    <3> QED
      BY <2>3, <3>1, <3>2 DEF ReceivedUpTo
  <2> QED
    BY <2>1, <2>2, <2>4, <2>5
<1>5. ASSUME NEW kind, NEW j, Receives(kind, k, j), j \in 0..Len(text), k <= j,
             Expected(p) = [kind |-> kind, at |-> text[k + 1].at, end |-> Position(j)]
      PROVE  AsExpected' /\ UsedUp(j)' /\ ReceivedUpTo(j)' /\ lexing' = "ready"
  <2> DEFINE d == [kind |-> kind, at |-> text[k + 1].at, end |-> Position(j)]
  <2>1. d = Expected(p) /\ d.end = Position(j) /\ delivered' = Append(delivered, d) /\ UsedUp(j)'
        /\ lexing' = "ready"
    BY <1>5 DEF Receives
  <2> HIDE DEF d
  <2> QED
    BY <1>2, <1>5, <2>1
<1>6. CASE WordStep(k)
  <2>1. Receives(text[k + 1].kind, k, k + 1) /\ k + 1 \in 0..Len(text) /\ k <= k + 1
    BY <1>0, <1>6 DEF WordStep
  <2>2. Expected(p) = [kind |-> text[k + 1].kind, at |-> text[k + 1].at, end |-> Position(k + 1)]
    BY <1>1, <1>6, ExpectedIs DEF WordStep
  <2> QED
    BY <1>5, <2>1, <2>2
<1>7. CASE LookAheadStep(k)
  <2> DEFINE kind == Replaced(text[k + 1].kind, KindOf(k + 2))
  <2>1. Receives(kind, k, k + 1) /\ k + 1 \in 0..Len(text) /\ k <= k + 1
    BY <1>0, <1>7 DEF LookAheadStep
  <2>2. text[k + 1].kind \notin Comments
    BY <1>7 DEF LookAheadStep, LooksAhead, Following, Unicode, Comments
  <2>3. Expected(p) = [kind |-> kind, at |-> text[k + 1].at, end |-> Position(k + 1)]
    BY <1>1, <1>7, <2>2, ExpectedIs DEF LookAheadStep
  <2> HIDE DEF kind
  <2> QED
    BY <1>5, <2>1, <2>3
<1>8. CASE EscapeStep(k)
  <2> DEFINE kind == Replaced(text[k + 1].kind, "UESCAPE")
  <2>1. Receives(kind, k, k + 3) /\ k + 3 \in 0..Len(text) /\ k <= k + 3 /\ k < Len(text)
    BY <1>0, <1>8 DEF EscapeStep
  <2>2. text[k + 1].kind \notin Comments /\ KindOf(k + 2) = "UESCAPE"
    BY <1>0, <1>8 DEF EscapeStep, Unicode, Comments, KindOf
  <2>3. Expected(p) = [kind |-> kind, at |-> text[k + 1].at, end |-> Position(k + 3)]
    BY <1>1, <1>8, <2>1, <2>2, ExpectedIs DEF EscapeStep
  <2> HIDE DEF kind
  <2> QED
    BY <1>5, <2>1, <2>3
<1>9. CASE EndStep(k)
  <2> DEFINE d == [kind |-> "EOF", at |-> EndOf(text), end |-> EndOf(text)]
  <2>1. d = Expected(p) /\ d.kind = "EOF" /\ delivered' = Append(delivered, d)
    BY <1>1, <1>9, ExpectedIs DEF EndStep
  <2>2. lexing' = "done"
    BY <1>9 DEF EndStep
  <2> HIDE DEF d
  <2>3. AsExpected' /\ Last(delivered') = d
    BY <2>1, DeliveredMore DEF p
  <2> QED
    BY <2>1, <2>2, <2>3 DEF Calling
<1>10. CASE StopStep
  <2>1. AsExpected'
    <3>1. \A q : WordFrom(q)' = WordFrom(q)
      BY DEF WordFrom
    <3>2. \A n : ReceivedTo(n)' = ReceivedTo(n)
      BY <1>10 DEF ReceivedTo, StopStep
    <3>3. \A n \in 1..Len(delivered) : Expected(ReceivedTo(n - 1))' = Expected(ReceivedTo(n - 1))
      BY <3>1, <3>2 DEF Expected
    <3> QED
      BY <1>10, <3>3 DEF AsExpected, StopStep
  <2> QED
    BY <1>10, <2>1 DEF StopStep, Calling
<1> QED
  BY <1>3, <1>4, <1>6, <1>7, <1>8, <1>9, <1>10 DEF TakesFrom, Calling, WordStep, LookAheadStep, EscapeStep

LEMMA ParserStartsFresh ==
  ASSUME IsText(text), Unparsed, StartParser, UNCHANGED text
  PROVE  /\ delivered' = <<>> /\ lexing' = "ready" /\ 0 \in 0..Len(text')
         /\ UsedUp(0)'
<1>0. Len(text) \in Nat
  BY TextIsSorted
<1>1. PICK mode \in Modes : flex' = Fresh(text, mode).flex /\ la' = Fresh(text, mode).la
  BY DEF StartParser
<1>2. /\ flex' = ScannerInit(text)
      /\ la'.end = NoEnd /\ la'.token = IF mode = "DEFAULT" THEN NoToken ELSE ModeToken(mode)
      /\ la'.have <=> mode # "DEFAULT"
  BY <1>1 DEF Fresh
<1>3. delivered = <<>> /\ delivered' = <<>> /\ lexing' = "ready"
  BY DEF Unparsed, StartParser
<1>4. HasRead(0, flex') /\ HasRead(0, flex)'
  BY <1>2, ScannerInitRead DEF HasRead, Flex, Position
<1>5. 0 \in 0..Len(text) /\ 0 \in 0..Len(text')
  BY <1>0
<1>6. CASE mode = "DEFAULT"
  BY <1>2, <1>3, <1>4, <1>5, <1>6, UsedUpNext
<1>7. CASE mode # "DEFAULT"
  <2>1. la'.have /\ la'.token.kind \in Modes /\ la'.token.at = 0
    BY <1>2, <1>7 DEF ModeToken
  <2>2. Uncut' = flex'
    BY <1>2 DEF Uncut
  <2>3. HasRead(0, Uncut)'
    <3> HIDE DEF Uncut
    <3> QED
      BY <1>4, <2>2
  <2> HIDE DEF Uncut
  <2> QED
    BY <1>3, <1>5, <2>1, <2>3 DEF UsedUp
<1> QED
  BY <1>6, <1>7

\* The split gives way to the parser, or goes on.
LEMMA SplitSteps ==
  ASSUME IInv, SplitWithScanner
  PROVE  /\ text' = text /\ raw' = raw /\ IsText(text) /\ Unparsed /\ error = NoError
         /\ \/ pc' \in {"count", "fill"}
            \/ StartParser
<1>1. pc \in {"count", "fill"} /\ text' = text /\ raw' = raw
  BY DEF SplitWithScanner
<1>2. IsText(text) /\ Unparsed /\ error = NoError
  BY <1>1 DEF IInv, StateInv, CountInv, FillInv
<1> DEFINE scanned == CoreYylex(text, flex)
<1>3. ScanError(scanned) \/ CountStatement(scanned) \/ FillStatement(scanned)
  BY DEF SplitWithScanner
<1> HIDE DEF scanned
<1>4. pc' \in {"count", "fill"} \/ StartParser
  BY <1>1, <1>3 DEF ScanError, CountStatement, FillStatement
<1> QED
  BY <1>1, <1>2, <1>4

LEMMA UsedUpKept ==
  ASSUME NEW k, UsedUp(k), UNCHANGED <<text, flex, la, delivered>>
  PROVE  UsedUp(k)'
<1>1. Uncut' = Uncut /\ EndToken' = EndToken
  BY DEF Uncut, EndToken
<1>2. \A j : HasRead(j, flex)' <=> HasRead(j, flex)
  BY DEF HasRead, Flex, Position
<1>3. \A j : HasRead(j, Uncut)' <=> HasRead(j, Uncut)
  <2> HIDE DEF Uncut
  <2> QED
    BY <1>1 DEF HasRead, Flex, Position
<1> HIDE DEF Uncut, HasRead, EndToken
<1> QED
  BY <1>1, <1>2, <1>3 DEF UsedUp

LEMMA ReceivedInvInit == Init => ReceivedInv
BY DEF Init, ReceivedInv

LEMMA ReceivedInvStep ==
  ASSUME IInv, ReceivedInv, [Next]_vars
  PROVE  ReceivedInv'
<1> USE DEF Calling
<1>0. IsText(text) /\ Len(text) \in Nat
  BY TextIsSorted DEF IInv, StateInv
<1>1. CASE SplitWithScanner
  <2>1. text' = text /\ Unparsed
    BY <1>1, SplitSteps
  <2>2. CASE pc' \in {"count", "fill"}
    BY <2>2 DEF ReceivedInv
  <2>3. CASE StartParser
    <3>1. /\ delivered' = <<>> /\ lexing' = "ready" /\ 0 \in 0..Len(text') /\ UsedUp(0)'
      BY <1>0, <2>1, <2>3, ParserStartsFresh
    <3>2. Len(delivered') = 0 /\ Len(delivered)' = 0
      BY <3>1, EmptySeq
    <3>3. ReceivedTo(Len(delivered))' = 0
      BY <3>2 DEF ReceivedTo
    <3>4. Position(0)' = 0
      BY DEF Position
    <3>5. ReceivedUpTo(0)'
      BY <3>3, <3>4 DEF ReceivedUpTo
    <3>6. AsExpected'
      BY <3>2 DEF AsExpected
    <3> QED
      BY <3>1, <3>5, <3>6 DEF ReceivedInv
  <2> QED
    BY <1>1, <2>2, <2>3, SplitSteps
<1>2. CASE SplitWithParser
  <2>1. BaseYylex /\ pc = "parse" /\ lexing \in Calling /\ text' = text
    BY <1>2 DEF SplitWithParser, BaseYylex
  <2>2. Types
    BY <2>1 DEF IInv, ResultInv, ParserInv
  <2>3. SUFFICES ASSUME NoCommentAhead'
                 PROVE  /\ AsExpected'
                        /\ lexing' \in Calling => \E k \in 0..Len(text') : UsedUp(k)' /\ ReceivedUpTo(k)'
                        /\ lexing' = "done" => Last(delivered').kind = "EOF"
    BY DEF ReceivedInv
  <2>4. NoCommentAhead
    BY <2>1, <2>3 DEF NoCommentAhead
  <2>5. AsExpected /\ \E k \in 0..Len(text) : UsedUp(k) /\ ReceivedUpTo(k)
    BY <2>1, <2>4 DEF ReceivedInv
  <2>6. PICK k \in 0..Len(text) : UsedUp(k) /\ ReceivedUpTo(k)
    BY <2>5
  <2>7. TakesFrom(k)
    BY <1>0, <2>1, <2>2, <2>6, BaseYylexTakes
  <2>8. \E S : delivered \in Seq(S)
    BY <2>2 DEF Types
  <2> QED
    BY <1>0, <2>1, <2>4, <2>5, <2>6, <2>7, <2>8, TakesAsExpected
<1>3. CASE UNCHANGED vars
  <2>1. UNCHANGED <<pc, text, flex, la, delivered, lexing>>
    BY <1>3 DEF vars
  <2>2. \A k : UsedUp(k) => UsedUp(k)'
    BY <2>1, UsedUpKept
  <2>3. \A k : ReceivedUpTo(k) => ReceivedUpTo(k)'
    BY <2>1 DEF ReceivedUpTo, ReceivedTo, Position
  <2>4. NoCommentAhead' => NoCommentAhead
    BY <2>1 DEF NoCommentAhead
  <2>5. AsExpected => AsExpected'
    <3>1. \A q : WordFrom(q)' = WordFrom(q)
      BY <2>1 DEF WordFrom
    <3>2. \A n : ReceivedTo(n)' = ReceivedTo(n)
      BY <2>1 DEF ReceivedTo
    <3>3. \A n : Expected(ReceivedTo(n - 1))' = Expected(ReceivedTo(n - 1))
      BY <3>1, <3>2 DEF Expected
    <3> QED
      BY <2>1, <3>3 DEF AsExpected
  <2> HIDE DEF Calling
  <2> QED
    BY <2>1, <2>2, <2>3, <2>4, <2>5 DEF ReceivedInv
<1> QED
  BY <1>1, <1>2, <1>3 DEF Next, Returned

LEMMA ReceivedInvariant == Spec => []ReceivedInv
<1>1. IInv /\ ReceivedInv /\ [Next]_vars => ReceivedInv'
  BY ReceivedInvStep
<1> QED
  BY Invariant, ReceivedInvInit, <1>1, PTL DEF Spec

LEMMA InvariantImpliesReceived == IInv /\ ReceivedInv => GrammarReceivesTheWords
<1> SUFFICES ASSUME IInv, ReceivedInv, NoCommentAhead PROVE FiltersWords
  BY DEF GrammarReceivesTheWords
<1>1. CASE pc \in {"count", "fill"}
  <2>1. delivered = <<>> /\ lexing = "ready"
    BY <1>1 DEF IInv, CountInv, FillInv, Unparsed
  <2> QED
    BY <2>1, EmptySeq DEF FiltersWords
<1>2. CASE pc \in {"parse", "returned"}
  BY <1>2 DEF ReceivedInv, AsExpected, FiltersWords
<1> QED
  BY <1>1, <1>2 DEF IInv, StateInv

-----------------------------------------------------------------------------
(***************************************************************************)
(* The statements of both splits                                           *)
(***************************************************************************)
\* The second loop, field by field.
LEMMA FilledFields ==
  ASSUME IsText(text), NEW l \in LoopState, NEW kind, NEW loc \in 0..EndOf(text)
  PROVE  /\ Filled(l, kind, loc) \in LoopState
         /\ Filled(l, kind, loc).keyword
              <=> kind \in Keywords \/ (l.keyword /\ ~EndsStatement(l, kind))
         /\ Filled(l, kind, loc).parens = IF kind = "(" THEN (l.parens + 1) % SizeMod
                                          ELSE IF kind = ")" THEN (l.parens - 1) % SizeMod
                                          ELSE l.parens
         /\ l.parens # 0 \/ ~IsTerminator(kind) => Filled(l, kind, loc).start = l.start
         /\ l.parens = 0 /\ IsTerminator(kind) /\ kind # "EOF"
              => Filled(l, kind, loc).start = loc + 1
<1> DEFINE c == Counted(l, kind)
           ends == EndsStatement(l, kind) \/ (l.parens = 0 /\ kind = ";")
<1>1. /\ c \in LoopState /\ c.start = l.start
      /\ c.keyword <=> kind \in Keywords \/ (l.keyword /\ ~EndsStatement(l, kind))
      /\ c.parens = IF kind = "(" THEN (l.parens + 1) % SizeMod
                    ELSE IF kind = ")" THEN (l.parens - 1) % SizeMod ELSE l.parens
  BY CountedIs
<1>2. /\ Filled(l, kind, loc) \in LoopState
      /\ Filled(l, kind, loc).keyword = c.keyword
      /\ Filled(l, kind, loc).parens = c.parens
  BY FilledIs
<1>3. Filled(l, kind, loc).start = IF ends THEN loc + 1 ELSE c.start
  <2>1. CASE ends
    <3>1. Filled(l, kind, loc) = [c EXCEPT !.start = loc + 1]
      BY <2>1 DEF Filled
    <3> HIDE DEF c
    <3>2. [c EXCEPT !.start = loc + 1].start = loc + 1
      BY <1>1 DEF LoopState
    <3> QED
      BY <2>1, <3>1, <3>2
  <2>2. CASE ~ends
    <3>1. Filled(l, kind, loc) = c
      BY <2>2 DEF Filled
    <3> QED
      BY <2>2, <3>1
  <2> QED
    BY <2>1, <2>2
<1>4. l.parens # 0 \/ ~IsTerminator(kind) => ~ends
  BY DEF EndsStatement, IsTerminator
<1>5. l.parens = 0 /\ IsTerminator(kind) /\ kind # "EOF" => ends
  BY DEF IsTerminator
<1> HIDE DEF c, ends
<1> QED
  BY <1>1, <1>2, <1>3, <1>4, <1>5

\* The list of the grammar with the length of its last statement, which is only
\* set at the next ';', and where the next statement starts.
Closed(r) == IF r.semicolon = NoLocation THEN r.list ELSE WithEnd(r.list, r.semicolon)
StartOf(r) == IF r.semicolon = NoLocation THEN 0 ELSE r.semicolon + 1

\* The grammar has accepted the text so far and seen no BEGIN ATOMIC.
Plain(r) == r.accepted /\ ~r.atomic

\* The grammar has found the statements that the loop has, in state l, written
\* up to here, c of them, unless it has rejected the text or seen a body.
Agrees(r, l, c, k) ==
  Plain(r) =>
    /\ r.body = 0
    /\ r.parens = l.parens /\ r.parens <= k
    /\ r.keyword => l.keyword
    /\ l.keyword => r.words
    /\ StartOf(r) = l.start
    /\ Closed(r) = SubSeq(stmts, 1, c)

\* The grammar, field by field.
Terminates(r, kind) == IsTerminator(kind) /\ Outermost(r)

\* What was not plain stays so.
LEMMA ReduceKeeps ==
  ASSUME NEW r \in Raw, NEW d, NEW q, q = Reduce(r, d), Plain(q)
  PROVE  Plain(r)
<1>1. r.accepted \in BOOLEAN /\ r.atomic \in BOOLEAN
  BY DEF Raw
<1>2. CASE d.kind = "(" /\ q = [r EXCEPT !.parens = @ + 1, !.words = TRUE]
  BY <1>1, <1>2 DEF Raw, Plain
<1>3. CASE d.kind = ")" /\ q = [r EXCEPT !.parens = @ - 1, !.words = TRUE,
                                        !.accepted = @ /\ r.parens > 0]
  BY <1>1, <1>3 DEF Raw, Plain
<1>4. CASE q = Terminated(r, Stmtmulti(r), d.at, r.accepted /\ (r.words => r.keyword))
  <2>1. q.accepted = (r.accepted /\ (r.words => r.keyword)) /\ q.atomic = r.atomic
    BY <1>4 DEF Raw, Terminated
  <2> QED
    BY <1>1, <2>1 DEF Plain
<1>5. CASE q = [r EXCEPT !.accepted = FALSE]
  BY <1>1, <1>5 DEF Raw, Plain
<1>6. CASE q = r
  BY <1>6
<1>7. CASE q = [r EXCEPT !.words = TRUE, !.keyword = @ \/ d.kind \notin {"IDENT", "SCONST"},
                         !.body = Bodies(r, d.kind), !.atomic = @ \/ d.kind = "ATOMIC"]
  <2>1. q.accepted = r.accepted /\ q.atomic = (r.atomic \/ d.kind = "ATOMIC")
    BY <1>7 DEF Raw
  <2> QED
    BY <1>1, <2>1 DEF Plain
<1> QED
  BY <1>2, <1>3, <1>4, <1>5, <1>6, <1>7, ReduceCases

LEMMA ReduceFields ==
  ASSUME NEW r \in Raw, NEW d, ~Terminates(r, d.kind), d.kind # "EOF"
  PROVE  LET q == Reduce(r, d)
         IN  /\ q.list = r.list /\ q.semicolon = r.semicolon
             /\ q.parens = CASE d.kind = "(" -> r.parens + 1
                             [] d.kind = ")" -> r.parens - 1
                             [] OTHER        -> r.parens
             /\ q.accepted <=> r.accepted /\ (d.kind = ")" => r.parens > 0)
             /\ q.words <=> r.words \/ d.kind # ";"
             /\ q.keyword <=> \/ r.keyword
                              \/ d.kind \notin {"(", ")", ";", "IDENT", "SCONST"}
             /\ r.body = 0 /\ ~q.atomic => q.body = 0
<1> DEFINE A == [r EXCEPT !.parens = @ + 1, !.words = TRUE]
           B == [r EXCEPT !.parens = @ - 1, !.words = TRUE, !.accepted = @ /\ r.parens > 0]
           F == [r EXCEPT !.words = TRUE, !.keyword = @ \/ d.kind \notin {"IDENT", "SCONST"},
                          !.body = Bodies(r, d.kind), !.atomic = @ \/ d.kind = "ATOMIC"]
<1>1. /\ d.kind = "(" => Reduce(r, d) = A
      /\ d.kind = ")" => Reduce(r, d) = B
      /\ d.kind = ";" => Reduce(r, d) = r
      /\ d.kind \notin {"(", ")", ";"} => Reduce(r, d) = F
  <2> DEFINE D == [r EXCEPT !.list = Stmtmulti(r), !.semicolon = d.at, !.words = FALSE,
                            !.keyword = FALSE, !.accepted = @ /\ (r.words => r.keyword)]
             E == [r EXCEPT !.accepted = FALSE]
  <2>1. Reduce(r, d) =
          CASE d.kind = "(" -> A [] d.kind = ")" -> B
            [] IsTerminator(d.kind) /\ Outermost(r) -> D
            [] d.kind = "EOF" /\ ~Outermost(r) -> E
          [] d.kind = ";" /\ ~Outermost(r) -> r
          [] OTHER -> F
    BY DEF Reduce
  <2> HIDE DEF A, B, D, E, F
  <2> QED
    BY <2>1 DEF Terminates, IsTerminator
<1>2. CASE d.kind = "("
  BY <1>1, <1>2 DEF Raw
<1>3. CASE d.kind = ")"
  BY <1>1, <1>3 DEF Raw
<1>4. CASE d.kind = ";"
  BY <1>1, <1>4 DEF Raw
<1>5. CASE d.kind \notin {"(", ")", ";"}
  <2>1. PICK b, w, a :
          /\ b = Bodies(r, d.kind)
          /\ w = (r.keyword \/ d.kind \notin {"IDENT", "SCONST"})
          /\ a = (r.atomic \/ d.kind = "ATOMIC")
    OBVIOUS
  <2>2. Reduce(r, d) = [r EXCEPT !.words = TRUE, !.keyword = w, !.body = b, !.atomic = a]
    BY <1>1, <1>5, <2>1, Zenon
  <2>3. r.body = 0 /\ ~a => b = 0
    <3>1. r.body = 0 /\ d.kind # "ATOMIC" => Bodies(r, d.kind) = 0
      BY DEF Bodies
    <3>2. ~a => d.kind # "ATOMIC"
      BY <2>1, Zenon
    <3> QED
      BY <2>1, <3>1, <3>2, Zenon
  <2>4. PICK q : q = Reduce(r, d)
    OBVIOUS
  <2>5. /\ q.list = r.list /\ q.semicolon = r.semicolon /\ q.parens = r.parens
        /\ q.accepted = r.accepted /\ q.words = TRUE /\ q.keyword = w
        /\ q.body = b /\ q.atomic = a
    BY <2>2, <2>4 DEF Raw
  <2>6. q.keyword <=> r.keyword \/ d.kind \notin {"(", ")", ";", "IDENT", "SCONST"}
    BY <1>5, <2>1, <2>5, Zenon
  <2> QED
    BY <1>5, <2>3, <2>4, <2>5, <2>6
<1> QED
  BY <1>2, <1>3, <1>4, <1>5

LEMMA ReduceTerminates ==
  ASSUME NEW r \in Raw, NEW d, Terminates(r, d.kind),
         NEW list, list = Stmtmulti(r), NEW at, at = d.at
  PROVE  LET q == Reduce(r, d)
         IN  /\ q.list = list /\ q.semicolon = at
             /\ q.accepted <=> r.accepted /\ (r.words => r.keyword)
             /\ q.parens = 0 /\ q.body = 0 /\ ~q.words /\ ~q.keyword
<1>1. PICK a \in BOOLEAN : a <=> r.accepted /\ (r.words => r.keyword)
  OBVIOUS
<1>2. a = (r.accepted /\ (r.words => r.keyword))
  BY <1>1
<1> DEFINE A == [r EXCEPT !.parens = @ + 1, !.words = TRUE]
           B == [r EXCEPT !.parens = @ - 1, !.words = TRUE, !.accepted = @ /\ r.parens > 0]
           D == Terminated(r, list, at, a)
           E == [r EXCEPT !.accepted = FALSE]
           F == [r EXCEPT !.words = TRUE, !.keyword = @ \/ d.kind \notin {"IDENT", "SCONST"},
                          !.body = Bodies(r, d.kind), !.atomic = @ \/ d.kind = "ATOMIC"]
<1>3. Reduce(r, d) = D
  <2>1. D = [r EXCEPT !.list = Stmtmulti(r), !.semicolon = d.at, !.words = FALSE,
                      !.keyword = FALSE, !.accepted = @ /\ (r.words => r.keyword)]
    BY <1>2, Zenon DEF Terminated
  <2>2. Reduce(r, d) =
          CASE d.kind = "(" -> A [] d.kind = ")" -> B
            [] IsTerminator(d.kind) /\ Outermost(r) -> D
            [] d.kind = "EOF" /\ ~Outermost(r) -> E
            [] d.kind = ";" /\ ~Outermost(r) -> r
            [] OTHER -> F
    BY <2>1 DEF Reduce
  <2> HIDE DEF A, B, D, E, F
  <2>3. IsTerminator(d.kind) /\ Outermost(r) /\ d.kind # "(" /\ d.kind # ")"
    BY DEF Terminates, IsTerminator
  <2> QED
    BY <2>2, <2>3
<1>4. /\ D.list = list /\ D.semicolon = at /\ D.accepted = a
      /\ D.words = FALSE /\ D.keyword = FALSE /\ D.parens = r.parens /\ D.body = r.body
  BY DEF Terminated, Raw
<1> HIDE DEF D
<1> QED
  BY <1>1, <1>3, <1>4 DEF Terminates, Outermost

\* A word for the grammar, which is no keyword unless the loop has seen one.
LEMMA WordsAgree ==
  ASSUME NEW r \in Raw, NEW q, NEW l, NEW m, NEW c, NEW k \in Nat, NEW j \in Nat, k <= j,
         Agrees(r, l, c, k),
         Plain(q) => Plain(r), Plain(q) /\ r.body = 0 => q.body = 0,
         q.parens = r.parens, q.semicolon = r.semicolon, q.list = r.list,
         m.parens = l.parens, m.start = l.start,
         q.keyword => (r.keyword /\ (l.keyword => m.keyword)) \/ m.keyword,
         m.keyword => q.words
  PROVE  Agrees(q, m, c, j)
<1>1. Closed(q) = Closed(r) /\ StartOf(q) = StartOf(r)
  BY DEF Closed, StartOf
<1>2. r.parens \in Int
  BY DEF Raw
<1> QED
  BY <1>1, <1>2 DEF Agrees

\* The first c statements.
LEMMA FirstStmts ==
  ASSUME NEW s \in Seq(RawStmt), NEW c \in 0..Len(s)
  PROVE  /\ SubSeq(s, 1, c) \in Seq(RawStmt)
         /\ Len(SubSeq(s, 1, c)) = c
         /\ \A i \in 1..c : SubSeq(s, 1, c)[i] = s[i] /\ s[i] \in RawStmt
<1>1. Len(s) \in Nat /\ \A i \in 1..Len(s) : s[i] \in RawStmt
  BY LenProperties, ElementOfSeq
<1>2. \A i \in 1..c : s[i] \in RawStmt
  BY <1>1
<1>3. /\ SubSeq(s, 1, c) \in Seq(RawStmt)
      /\ Len(SubSeq(s, 1, c)) = IF 1 <= c THEN c - 1 + 1 ELSE 0
      /\ \A i \in 1..c - 1 + 1 : SubSeq(s, 1, c)[i] = s[1 + i - 1]
  BY <1>2, SubSeqProperties
<1>4. c - 1 + 1 = c /\ \A i \in 1..c : 1 + i - 1 = i
  BY <1>1
<1>5. Len(SubSeq(s, 1, c)) = c
  BY <1>1, <1>3, <1>4
<1> QED
  BY <1>2, <1>3, <1>4, <1>5

\* The grammar has no last statement to give a length to.
LEMMA NothingEnds ==
  ASSUME NEW s \in Seq(RawStmt), NEW at, s # <<>> => s[Len(s)].len > 0
  PROVE  WithEnd(s, at) = s
BY DEF WithEnd, Last

\* The statement that the next ';' ends.
LEMMA NextEnds ==
  ASSUME NEW s \in Seq(RawStmt), NEW c \in Nat, c + 1 \in 1..Len(s),
         NEW start \in Nat, NEW at \in Nat,
         s[c + 1] = [location |-> start, len |-> at - start]
  PROVE  WithEnd(Append(SubSeq(s, 1, c), [location |-> start, len |-> 0]), at)
           = SubSeq(s, 1, c + 1)
<1> DEFINE new == [location |-> start, len |-> 0]
           last == [location |-> start, len |-> at - start]
           t == Append(SubSeq(s, 1, c), new)
           u == SubSeq(s, 1, c + 1)
<1>1. Len(s) \in Nat /\ c \in 0..Len(s) /\ c + 1 \in 0..Len(s)
  BY LenProperties
<1>2. /\ SubSeq(s, 1, c) \in Seq(RawStmt) /\ Len(SubSeq(s, 1, c)) = c
      /\ \A i \in 1..c : SubSeq(s, 1, c)[i] = s[i]
  BY <1>1, FirstStmts
<1>3. /\ u \in Seq(RawStmt) /\ Len(u) = c + 1
      /\ \A i \in 1..c + 1 : u[i] = s[i] /\ s[i] \in RawStmt
  BY <1>1, FirstStmts
<1>4. new \in RawStmt /\ last \in RawStmt
  <2>1. c + 1 \in 1..c + 1
    OBVIOUS
  <2> QED
    BY <1>3, <2>1 DEF RawStmt
<1>5. /\ t \in Seq(RawStmt) /\ t # <<>> /\ Len(t) = c + 1
      /\ \A i \in 1..c : t[i] = s[i]
      /\ t[c + 1] = new
  <2> HIDE DEF new
  <2> QED
    BY <1>2, <1>4, AppendProperties
<1>6. WithEnd(t, at) = [t EXCEPT ![c + 1] = last]
  <2> HIDE DEF t
  <2>1. Last(t) = new /\ Last(t).len = 0 /\ Last(t).location = start
    BY <1>5 DEF Last
  <2>2. WithEnd(t, at) = [t EXCEPT ![c + 1] = [t[c + 1] EXCEPT !.len = at - start]]
    BY <1>5, <2>1 DEF WithEnd
  <2>3. [t[c + 1] EXCEPT !.len = at - start] = last
    BY <1>5
  <2> QED
    BY <2>2, <2>3
<1> HIDE DEF t, u, new, last
<1>7. /\ [t EXCEPT ![c + 1] = last] \in Seq(RawStmt)
      /\ Len([t EXCEPT ![c + 1] = last]) = c + 1
      /\ \A i \in 1..c + 1 : [t EXCEPT ![c + 1] = last][i] = IF i = c + 1 THEN last ELSE t[i]
  <2>1. c + 1 \in 1..Len(t)
    BY <1>5
  <2> QED
    BY <1>4, <1>5, <2>1, ExceptSeq
<1>8. \A i \in 1..c + 1 : [t EXCEPT ![c + 1] = last][i] = u[i]
  <2> TAKE i \in 1..c + 1
  <2>1. i = c + 1 \/ i \in 1..c
    OBVIOUS
  <2> QED
    BY <1>3, <1>5, <1>7, <2>1 DEF last
<1>9. [t EXCEPT ![c + 1] = last] = u
  BY <1>3, <1>7, <1>8, SeqEqual
<1> QED
  BY <1>6, <1>9 DEF t, u, new

-----------------------------------------------------------------------------
\* The second loop has written the statement that ends at at.
Wrote(s, c, start, at) ==
  c \in 1..Len(s) /\ s[c] = [location |-> start, len |-> at - start]

\* M has the states that the second loop goes through for the first k tokens,
\* C the statements it has written to s.
Trail(s, M, C, k) ==
  /\ M \in [0..k -> LoopState] /\ C \in [0..k -> Nat]
  /\ M[0] = LoopStart /\ C[0] = 0
  /\ \A i \in 1..k :
       /\ M[i] = Filled(M[i - 1], text[i].kind, text[i].at)
       /\ C[i] = C[i - 1] + Ended(M[i - 1], text[i].kind)
       /\ EndsStatement(M[i - 1], text[i].kind) => Wrote(s, C[i], M[i - 1].start, text[i].at)
  /\ \A i \in 0..k : C[i] <= Len(s)

LEMMA TrailFields ==
  ASSUME IsText(text), NEW s, NEW M, NEW C, NEW n \in 0..Len(text), Trail(s, M, C, n)
  PROVE  /\ \A i \in 0..n : M[i] \in LoopState /\ C[i] \in Nat /\ C[i] <= Len(s)
         /\ \A i \in 0..n - 1 :
              /\ i + 1 \in 1..Len(text) /\ text[i + 1].at \in 0..EndOf(text)
              /\ M[i + 1] = Filled(M[i], text[i + 1].kind, text[i + 1].at)
              /\ C[i + 1] = C[i] + Ended(M[i], text[i + 1].kind)
              /\ EndsStatement(M[i], text[i + 1].kind) =>
                   Wrote(s, C[i + 1], M[i].start, text[i + 1].at)
<1>0. Len(text) \in Nat /\ EndOf(text) \in Nat
  BY TextIsSorted, Ends
<1>1. \A i \in 0..n - 1 : i + 1 \in 1..n /\ (i + 1) - 1 = i /\ i + 1 \in 1..Len(text)
  BY <1>0
<1>2. M \in [0..n -> LoopState] /\ C \in [0..n -> Nat]
  BY DEF Trail
<1>3. \A i \in 1..n :
       /\ M[i] = Filled(M[i - 1], text[i].kind, text[i].at)
       /\ C[i] = C[i - 1] + Ended(M[i - 1], text[i].kind)
       /\ EndsStatement(M[i - 1], text[i].kind) => Wrote(s, C[i], M[i - 1].start, text[i].at)
  BY DEF Trail
<1>4. \A i \in 0..n - 1 :
        /\ M[i + 1] = Filled(M[i], text[i + 1].kind, text[i + 1].at)
        /\ C[i + 1] = C[i] + Ended(M[i], text[i + 1].kind)
        /\ EndsStatement(M[i], text[i + 1].kind) => Wrote(s, C[i + 1], M[i].start, text[i + 1].at)
  <2> TAKE i \in 0..n - 1
  <2> QED
    BY <1>1, <1>3
<1>5. \A i \in 0..n - 1 : text[i + 1].at \in 0..EndOf(text)
  BY <1>0, <1>1, TextIsSorted, Ends
<1> QED
  BY <1>1, <1>2, <1>4, <1>5 DEF Trail

LEMMA TrailStarts ==
  ASSUME IsText(text)
  PROVE  Trail(<<>>, [i \in 0..0 |-> LoopStart], [i \in 0..0 |-> 0], 0)
<1>1. 0..0 = {0} /\ Len(<<>>) = 0
  BY EmptySeq
<1> QED
  BY <1>1, LoopStartType DEF Trail

\* The statements after a token, in the state l of the second loop.
WrittenAt(s, l, kind, at) ==
  IF EndsStatement(l, kind) THEN Append(s, [location |-> l.start, len |-> at - l.start]) ELSE s

LEMMA WrittenAtFields ==
  ASSUME NEW s \in Seq(RawStmt), NEW l, NEW kind, NEW at
  PROVE  LET t == WrittenAt(s, l, kind, at)
         IN  /\ Len(s) \in Nat /\ Len(t) = Len(s) + Ended(l, kind) /\ Len(s) <= Len(t)
             /\ \A i \in 1..Len(s) : t[i] = s[i]
             /\ EndsStatement(l, kind) => Wrote(t, Len(t), l.start, at)
             /\ \A c, start, end : Wrote(s, c, start, end) => Wrote(t, c, start, end)
<1> DEFINE t == WrittenAt(s, l, kind, at)
           new == [location |-> l.start, len |-> at - l.start]
<1>1. Len(s) \in Nat
  BY LenProperties
<1>2. /\ Len(t) = Len(s) + Ended(l, kind)
      /\ \A i \in 1..Len(s) : t[i] = s[i]
      /\ EndsStatement(l, kind) => t[Len(t)] = new
  <2>1. CASE EndsStatement(l, kind)
    <3>1. t = Append(s, new) /\ Ended(l, kind) = 1
      BY <2>1 DEF WrittenAt, Ended
    <3>2. s \in Seq(RawStmt \cup {new}) /\ new \in RawStmt \cup {new}
      BY SeqMonotonic
    <3> HIDE DEF new, t
    <3>3. /\ Len(t) = Len(s) + 1 /\ \A i \in 1..Len(s) : t[i] = s[i]
          /\ t[Len(s) + 1] = new
      BY <3>1, <3>2, AppendProperties
    <3> QED
      BY <3>1, <3>3
  <2>2. CASE ~EndsStatement(l, kind)
    <3>1. t = s /\ Ended(l, kind) = 0
      BY <2>2 DEF WrittenAt, Ended
    <3> HIDE DEF t
    <3> QED
      BY <1>1, <2>2, <3>1
  <2> QED
    BY <2>1, <2>2
<1> HIDE DEF t
<1>3. Len(s) <= Len(t) /\ Len(t) \in Nat
  BY <1>1, <1>2 DEF Ended
<1>4. EndsStatement(l, kind) => Wrote(t, Len(t), l.start, at)
  BY <1>1, <1>2, <1>3 DEF Wrote, Ended
<1>5. \A c, start, end : Wrote(s, c, start, end) => Wrote(t, c, start, end)
  BY <1>1, <1>2, <1>3 DEF Wrote
<1> QED
  BY <1>1, <1>2, <1>3, <1>4, <1>5 DEF t

\* One more token.
LEMMA TrailGrows ==
  ASSUME NEW s \in Seq(RawStmt), NEW M, NEW C, NEW k \in Nat, Trail(s, M, C, k), Len(s) = C[k],
         NEW kind, kind = text[k + 1].kind, NEW at, at = text[k + 1].at,
         Filled(M[k], kind, at) \in LoopState
  PROVE  LET t == WrittenAt(s, M[k], kind, at)
         IN  \E MM, CC : /\ Trail(t, MM, CC, k + 1)
                         /\ MM[k + 1] = Filled(M[k], kind, at)
                         /\ Len(t) = CC[k + 1]
<1> DEFINE m == Filled(M[k], kind, at)
           c == C[k] + Ended(M[k], kind)
           MM == [i \in 0..k + 1 |-> IF i = k + 1 THEN m ELSE M[i]]
           CC == [i \in 0..k + 1 |-> IF i = k + 1 THEN c ELSE C[i]]
           t == WrittenAt(s, M[k], kind, at)
<1>0. /\ M \in [0..k -> LoopState] /\ C \in [0..k -> Nat]
      /\ M[0] = LoopStart /\ C[0] = 0
      /\ \A i \in 1..k :
           /\ M[i] = Filled(M[i - 1], text[i].kind, text[i].at)
           /\ C[i] = C[i - 1] + Ended(M[i - 1], text[i].kind)
           /\ EndsStatement(M[i - 1], text[i].kind) => Wrote(s, C[i], M[i - 1].start, text[i].at)
      /\ \A i \in 0..k : C[i] <= Len(s)
  BY DEF Trail
<1>1. \A i \in 0..k : MM[i] = M[i] /\ CC[i] = C[i] /\ M[i] \in LoopState /\ C[i] \in Nat
  BY <1>0
<1>2. MM[k + 1] = m /\ CC[k + 1] = c
  OBVIOUS
<1>3. /\ Len(t) = c /\ c \in Nat /\ Len(s) \in Nat /\ Len(s) <= Len(t)
      /\ EndsStatement(M[k], kind) => Wrote(t, c, M[k].start, at)
      /\ \A j, z, y : Wrote(s, j, z, y) => Wrote(t, j, z, y)
  <2>0. k \in 0..k
    OBVIOUS
  <2>1. C[k] \in Nat
    BY <1>0, <2>0
  <2>2. Ended(M[k], kind) \in Nat
    BY DEF Ended
  <2>3. PICK l : l = M[k]
    OBVIOUS
  <2>4. /\ Len(s) \in Nat /\ Len(t) = Len(s) + Ended(l, kind) /\ Len(s) <= Len(t)
        /\ EndsStatement(l, kind) => Wrote(t, Len(t), l.start, at)
        /\ \A j, z, y : Wrote(s, j, z, y) => Wrote(t, j, z, y)
    <3>1. PICK u : u = WrittenAt(s, l, kind, at)
      OBVIOUS
    <3>2. /\ Len(s) \in Nat /\ Len(u) = Len(s) + Ended(l, kind) /\ Len(s) <= Len(u)
          /\ EndsStatement(l, kind) => Wrote(u, Len(u), l.start, at)
          /\ \A j, z, y : Wrote(s, j, z, y) => Wrote(u, j, z, y)
      BY <3>1, WrittenAtFields
    <3>3. u = t
      BY <2>3, <3>1
    <3> HIDE DEF t
    <3> QED
      BY <3>2, <3>3
  <2> HIDE DEF t
  <2> QED
    BY <2>1, <2>2, <2>3, <2>4
<1> HIDE DEF MM, CC, m, c, t
<1>4. \A i \in 0..k + 1 : i \in 0..k \/ i = k + 1
  OBVIOUS
<1>5. MM \in [0..k + 1 -> LoopState] /\ CC \in [0..k + 1 -> Nat]
  <2>1. /\ MM = [i \in 0..k + 1 |-> MM[i]] /\ CC = [i \in 0..k + 1 |-> CC[i]]
    BY DEF MM, CC
  <2>2. m \in LoopState
    BY DEF m
  <2>3. \A i \in 0..k + 1 : MM[i] \in LoopState /\ CC[i] \in Nat
    BY <1>1, <1>2, <1>3, <1>4, <2>2
  <2> QED
    BY <2>1, <2>3
<1>6. MM[0] = LoopStart /\ CC[0] = 0
  BY <1>0, <1>1
<1>7. \A i \in 1..k + 1 :
       /\ MM[i] = Filled(MM[i - 1], text[i].kind, text[i].at)
       /\ CC[i] = CC[i - 1] + Ended(MM[i - 1], text[i].kind)
       /\ EndsStatement(MM[i - 1], text[i].kind) => Wrote(t, CC[i], MM[i - 1].start, text[i].at)
  <2> TAKE i \in 1..k + 1
  <2>1. CASE i = k + 1
    <3>1. i - 1 = k
      BY <2>1
    <3>2. MM[i - 1] = M[k] /\ CC[i - 1] = C[k] /\ MM[i] = m /\ CC[i] = c
      BY <2>1, <3>1, <1>1, <1>2
    <3>3. text[i].kind = kind /\ text[i].at = at
      BY <2>1
    <3>4. MM[i] = Filled(MM[i - 1], text[i].kind, text[i].at)
      BY <3>2, <3>3 DEF m
    <3>5. CC[i] = CC[i - 1] + Ended(MM[i - 1], text[i].kind)
      BY <3>2, <3>3 DEF c
    <3>6. EndsStatement(MM[i - 1], text[i].kind) => Wrote(t, CC[i], MM[i - 1].start, text[i].at)
      BY <3>2, <3>3, <1>3
    <3> QED
      BY <3>4, <3>5, <3>6
  <2>2. CASE i # k + 1
    <3>1. i \in 1..k /\ i - 1 \in 0..k /\ i \in 0..k
      BY <2>2
    <3>2. MM[i] = M[i] /\ CC[i] = C[i] /\ MM[i - 1] = M[i - 1] /\ CC[i - 1] = C[i - 1]
      BY <3>1, <1>1
    <3> QED
      BY <3>1, <3>2, <1>0, <1>3
  <2> QED
    BY <2>1, <2>2
<1>8. \A i \in 0..k + 1 : CC[i] <= Len(t)
  <2> TAKE i \in 0..k + 1
  <2>1. CASE i \in 0..k
    <3>1. CC[i] = C[i] /\ C[i] \in Nat /\ C[i] <= Len(s)
      BY <2>1, <1>0, <1>1
    <3> QED
      BY <3>1, <1>3
  <2>2. CASE i = k + 1
    BY <2>2, <1>2, <1>3
  <2> QED
    BY <1>4, <2>1, <2>2
<1>9. Trail(t, MM, CC, k + 1)
  BY <1>5, <1>6, <1>7, <1>8 DEF Trail
<1> QED
  BY <1>2, <1>3, <1>9 DEF m, t

\* Both see a ';' outside parentheses.
LEMMA TerminatorAgrees ==
  ASSUME NEW r \in Raw, NEW l \in LoopState, NEW m \in LoopState,
         NEW c \in Nat, NEW e \in Nat, NEW k, NEW j \in Nat, Agrees(r, l, c, k),
         stmts \in Seq(RawStmt), \A i \in 1..Len(stmts) : stmts[i].len > 0, c <= Len(stmts),
         NEW d, NEW at \in Nat, at = d.at, NEW kind, kind = d.kind, IsTerminator(kind), r.parens = 0,
         m.keyword <=> l.keyword /\ ~EndsStatement(l, kind),
         m.parens = l.parens, l.parens = 0 => m.start = at + 1,
         e = c + Ended(l, kind),
         EndsStatement(l, kind) => Wrote(stmts, e, l.start, at),
         NEW q, q = Reduce(r, d)
  PROVE  Agrees(q, m, e, j)
<1>0. PICK list : list = Stmtmulti(r)
  OBVIOUS
<1> SUFFICES ASSUME Plain(q)
             PROVE  /\ q.body = 0
                    /\ q.parens = m.parens /\ q.parens <= j
                    /\ q.keyword => m.keyword
                    /\ m.keyword => q.words
                    /\ StartOf(q) = m.start
                    /\ Closed(q) = SubSeq(stmts, 1, e)
  BY DEF Agrees
<1>1. Plain(r) /\ r.body = 0
  <2>1. Plain(r)
    BY ReduceKeeps
  <2> QED
    BY <2>1 DEF Agrees
<1>2. /\ q.list = list /\ q.semicolon = at
      /\ q.accepted <=> r.accepted /\ (r.words => r.keyword)
      /\ q.parens = 0 /\ q.body = 0 /\ ~q.words /\ ~q.keyword
  <2>1. Terminates(r, d.kind)
    BY <1>1 DEF Terminates, Outermost
  <2> QED
    BY <1>0, <2>1, ReduceTerminates
<1>3. /\ r.accepted /\ (r.words => r.keyword) /\ r.parens = l.parens
      /\ r.keyword => l.keyword
      /\ l.keyword => r.words
      /\ StartOf(r) = l.start
      /\ Closed(r) = SubSeq(stmts, 1, c)
  BY <1>1, <1>2 DEF Agrees, Plain
<1>4. EndsStatement(l, kind) <=> l.keyword
  BY <1>3 DEF EndsStatement
<1>5. ~m.keyword /\ m.parens = 0 /\ m.start = at + 1
  BY <1>3, <1>4
<1>6. StartOf(q) = at + 1 /\ Closed(q) = WithEnd(list, at)
  <2>1. at # NoLocation
    BY DEF NoLocation
  <2> QED
    BY <1>2, <2>1 DEF StartOf, Closed
<1>7. list = IF r.words THEN Append(Closed(r), [location |-> StartOf(r), len |-> 0])
             ELSE Closed(r)
  BY <1>0 DEF Stmtmulti, Closed, StartOf
<1>8. CASE l.keyword
  <2>0. PICK start \in Nat : start = l.start
    BY DEF LoopState
  <2>1. e = c + 1 /\ e \in 1..Len(stmts) /\ stmts[c + 1] = [location |-> start, len |-> at - start]
    BY <1>4, <1>8, <2>0 DEF Ended, Wrote
  <2>2. list = Append(SubSeq(stmts, 1, c), [location |-> start, len |-> 0])
    BY <1>3, <1>7, <1>8, <2>0
  <2>3. WithEnd(list, at) = SubSeq(stmts, 1, c + 1)
    <3>1. c + 1 \in 1..Len(stmts)
      BY <2>1
    <3>2. stmts[c + 1] = [location |-> start, len |-> at - start]
      BY <2>1
    <3>3. WithEnd(Append(SubSeq(stmts, 1, c), [location |-> start, len |-> 0]), at)
            = SubSeq(stmts, 1, c + 1)
      BY <3>1, <3>2, NextEnds
    <3> QED
      BY <2>2, <3>3
  <2> QED
    BY <1>2, <1>5, <1>6, <2>1, <2>3
<1>9. CASE ~l.keyword
  <2>1. e = c /\ ~r.words
    BY <1>3, <1>4, <1>9 DEF Ended
  <2>2. c \in 0..Len(stmts) /\ Len(stmts) \in Nat
    BY LenProperties
  <2>3. /\ list = SubSeq(stmts, 1, c) /\ list \in Seq(RawStmt)
        /\ Len(list) = c /\ \A i \in 1..c : list[i] = stmts[i]
    BY <1>3, <1>7, <2>1, <2>2, FirstStmts
  <2>4. list # <<>> => list[Len(list)].len > 0
    <3>1. list # <<>> => c # 0
      BY <2>3, EmptySeq
    <3>2. c # 0 => c \in 1..c /\ c \in 1..Len(stmts)
      BY <2>2
    <3> QED
      BY <2>3, <3>1, <3>2
  <2>5. WithEnd(list, at) = list
    BY <2>3, <2>4, NothingEnds
  <2> QED
    BY <1>2, <1>5, <1>6, <2>1, <2>3, <2>5
<1> QED
  BY <1>8, <1>9

\* Or both see the end.
LEMMA EndAgrees ==
  ASSUME IsText(text), NEW r \in Raw, NEW l \in LoopState,
         NEW c \in Nat, NEW k, Agrees(r, l, c, k),
         stmts \in Seq(RawStmt), \A i \in 1..Len(stmts) : stmts[i].len > 0,
         NEW d, EndOf(text) = d.at, d.kind = "EOF",
         Len(stmts) = c + Ended(l, "EOF"),
         EndsStatement(l, "EOF") => Wrote(stmts, Len(stmts), l.start, EndOf(text)),
         NEW q, q = Reduce(r, d), Plain(q)
  PROVE  stmts = [i \in 1..Len(q.list) |->
                   [location |-> q.list[i].location,
                    len |-> IF q.list[i].len = 0 THEN EndOf(text) - q.list[i].location
                            ELSE q.list[i].len]]
<1> DEFINE at == EndOf(text)
           list == Stmtmulti(r)
           mapped == [i \in 1..Len(list) |->
                       [location |-> list[i].location,
                        len |-> IF list[i].len = 0 THEN at - list[i].location ELSE list[i].len]]
<1>1. Outermost(r)
  <2>1. CASE ~Outermost(r)
    <3> DEFINE A == [r EXCEPT !.parens = @ + 1, !.words = TRUE]
               B == [r EXCEPT !.parens = @ - 1, !.words = TRUE, !.accepted = @ /\ r.parens > 0]
               D == [r EXCEPT !.list = Stmtmulti(r), !.semicolon = d.at, !.words = FALSE,
                              !.keyword = FALSE, !.accepted = @ /\ (r.words => r.keyword)]
               E == [r EXCEPT !.accepted = FALSE]
               F == [r EXCEPT !.words = TRUE, !.keyword = @ \/ d.kind \notin {"IDENT", "SCONST"},
                              !.body = Bodies(r, d.kind), !.atomic = @ \/ d.kind = "ATOMIC"]
    <3>1. Reduce(r, d) =
            CASE d.kind = "(" -> A [] d.kind = ")" -> B
              [] IsTerminator(d.kind) /\ Outermost(r) -> D
              [] d.kind = "EOF" /\ ~Outermost(r) -> E
              [] d.kind = ";" /\ ~Outermost(r) -> r
              [] OTHER -> F
      BY DEF Reduce
    <3> HIDE DEF A, B, D, E, F
    <3>2. Reduce(r, d) = E
      BY <2>1, <3>1
    <3>3. ~E.accepted
      BY DEF E, Raw
    <3> QED
      BY <3>2, <3>3 DEF Plain
  <2> QED
    BY <2>1
<1>2. Terminates(r, d.kind)
  BY <1>1 DEF Terminates, IsTerminator
<1>3. q.list = list /\ Plain(r) /\ (r.words => r.keyword)
  <2> HIDE DEF list
  <2>1. q.list = list /\ (q.accepted => (r.words => r.keyword))
    BY <1>2, ReduceTerminates DEF list
  <2>2. Plain(r)
    BY ReduceKeeps
  <2> QED
    BY <2>1, <2>2 DEF Plain
<1>4. /\ r.parens = l.parens
      /\ r.keyword => l.keyword
      /\ l.keyword => r.words
      /\ StartOf(r) = l.start
      /\ Closed(r) = SubSeq(stmts, 1, c)
  BY <1>3 DEF Agrees
<1>5. EndsStatement(l, "EOF") <=> l.keyword
  BY <1>1, <1>4 DEF EndsStatement, IsTerminator, Outermost
<1>6. list = IF r.words THEN Append(Closed(r), [location |-> StartOf(r), len |-> 0])
             ELSE Closed(r)
  BY DEF Stmtmulti, Closed, StartOf
<1>7. Len(stmts) \in Nat /\ c \in 0..Len(stmts) /\ at \in Nat
  BY Ends, LenProperties DEF Ended
<1>8. /\ SubSeq(stmts, 1, c) \in Seq(RawStmt) /\ Len(SubSeq(stmts, 1, c)) = c
      /\ \A i \in 1..c : SubSeq(stmts, 1, c)[i] = stmts[i]
  BY <1>7, FirstStmts
<1> HIDE DEF at, list
<1>9. \A i \in 1..Len(stmts) : stmts[i] \in RawStmt /\ stmts[i].len # 0
  BY ElementOfSeq
<1>10. /\ Len(list) = Len(stmts)
       /\ \A i \in 1..c : list[i] = stmts[i]
       /\ \A i \in 1..Len(stmts) : i \notin 1..c =>
            /\ list[i] = [location |-> l.start, len |-> 0]
            /\ stmts[i] = [location |-> l.start, len |-> at - l.start]
  <2>1. CASE l.keyword
    <3> DEFINE new == [location |-> l.start, len |-> 0]
    <3>1. Len(stmts) = c + 1 /\ stmts[c + 1] = [location |-> l.start, len |-> at - l.start]
      BY <1>5, <1>7, <2>1 DEF Ended, Wrote, at
    <3>2. list = Append(SubSeq(stmts, 1, c), new)
      BY <1>4, <1>6, <2>1
    <3>3. new \in RawStmt
      BY DEF RawStmt, LoopState
    <3> HIDE DEF new
    <3>4. /\ Len(list) = c + 1 /\ list[c + 1] = new
          /\ \A i \in 1..c : list[i] = SubSeq(stmts, 1, c)[i]
      BY <1>8, <3>2, <3>3, AppendProperties
    <3>5. \A i \in 1..Len(stmts) : i \notin 1..c => i = c + 1
      BY <3>1
    <3> QED
      BY <1>8, <3>1, <3>4, <3>5 DEF new
  <2>2. CASE ~l.keyword
    <3>1. Len(stmts) = c /\ list = SubSeq(stmts, 1, c)
      BY <1>3, <1>4, <1>5, <1>6, <1>7, <2>2 DEF Ended
    <3> QED
      BY <1>8, <3>1
  <2> QED
    BY <2>1, <2>2
<1>11. \A i \in 1..Len(stmts) : stmts[i] = mapped[i]
  <2> TAKE i \in 1..Len(stmts)
  <2>1. mapped[i] = [location |-> list[i].location,
                     len |-> IF list[i].len = 0 THEN at - list[i].location ELSE list[i].len]
    BY <1>10
  <2>2. CASE i \in 1..c
    <3>1. list[i] = stmts[i] /\ stmts[i] \in RawStmt /\ stmts[i].len # 0
      BY <1>9, <1>10, <2>2
    <3> HIDE DEF mapped
    <3>2. mapped[i] = [location |-> stmts[i].location, len |-> stmts[i].len]
      BY <2>1, <3>1
    <3> QED
      BY <3>1, <3>2 DEF RawStmt
  <2>3. CASE i \notin 1..c
    <3>1. /\ list[i] = [location |-> l.start, len |-> 0]
          /\ stmts[i] = [location |-> l.start, len |-> at - l.start]
      BY <1>10, <2>3
    <3> HIDE DEF mapped
    <3> QED
      BY <2>1, <3>1
  <2> QED
    BY <2>2, <2>3
<1>12. stmts = mapped
  <2>1. stmts = [i \in 1..Len(stmts) |-> stmts[i]]
    BY LenProperties
  <2> QED
    BY <1>10, <1>11, <2>1
<1> QED
  BY <1>3, <1>12 DEF at

\* What the second loop makes of a token, by its kind.
LEMMA LoopSkips ==
  ASSUME IsText(text), NEW l \in LoopState, NEW kind, NEW at \in 0..EndOf(text),
         kind \notin {"(", ")"}, ~IsTerminator(kind), NEW m, m = Filled(l, kind, at)
  PROVE  /\ m.keyword <=> kind \in Keywords \/ l.keyword
         /\ m.parens = l.parens /\ m.start = l.start
         /\ Ended(l, kind) = 0
<1>1. ~EndsStatement(l, kind)
  BY DEF EndsStatement
<1> QED
  BY <1>1, FilledFields DEF Ended

LEMMA LoopCounts ==
  ASSUME IsText(text), NEW l \in LoopState, NEW kind, NEW at \in 0..EndOf(text),
         kind \in {"(", ")"}, NEW m, m = Filled(l, kind, at)
  PROVE  /\ m.keyword <=> l.keyword
         /\ m.start = l.start
         /\ m.parens = IF kind = "(" THEN (l.parens + 1) % SizeMod ELSE (l.parens - 1) % SizeMod
         /\ Ended(l, kind) = 0
<1>1. ~EndsStatement(l, kind) /\ kind \notin Keywords
  BY KeywordsEndNothing DEF EndsStatement
<1>2. ~IsTerminator(kind)
  BY DEF IsTerminator
<1> QED
  BY <1>1, <1>2, FilledFields DEF Ended

LEMMA LoopTerminates ==
  ASSUME IsText(text), NEW l \in LoopState, NEW kind, NEW at \in 0..EndOf(text),
         IsTerminator(kind), kind # "EOF", NEW m, m = Filled(l, kind, at)
  PROVE  /\ m.keyword <=> l.keyword /\ ~EndsStatement(l, kind)
         /\ m.parens = l.parens
         /\ m.start = IF l.parens = 0 THEN at + 1 ELSE l.start
<1>1. kind \notin Keywords /\ kind \notin {"(", ")"}
  BY KeywordsEndNothing DEF IsTerminator
<1> QED
  BY <1>1, FilledFields

\* And the grammar.
LEMMA GrammarAdds ==
  ASSUME NEW r \in Raw, NEW d, NEW kind, kind = d.kind,
         kind \notin {"(", ")"}, ~IsTerminator(kind), NEW q, q = Reduce(r, d)
  PROVE  /\ q.list = r.list /\ q.semicolon = r.semicolon /\ q.parens = r.parens
         /\ q.accepted => r.accepted
         /\ Plain(q) => Plain(r)
         /\ Plain(q) /\ r.body = 0 => q.body = 0
         /\ q.words
         /\ q.keyword => r.keyword \/ kind \notin {"IDENT", "SCONST"}
<1>1. ~Terminates(r, d.kind) /\ d.kind # "EOF" /\ d.kind \notin {"(", ")", ";"}
  BY DEF Terminates, IsTerminator
<1>2. Plain(q) => Plain(r)
  BY ReduceKeeps
<1>3. Plain(q) /\ r.body = 0 => q.body = 0
  BY <1>1, ReduceFields DEF Plain
<1> QED
  BY <1>1, <1>2, <1>3, ReduceFields

LEMMA GrammarCounts ==
  ASSUME NEW r \in Raw, NEW d, NEW kind, kind = d.kind,
         kind \in {"(", ")"}, NEW q, q = Reduce(r, d)
  PROVE  /\ q.list = r.list /\ q.semicolon = r.semicolon
         /\ q.parens = IF kind = "(" THEN r.parens + 1 ELSE r.parens - 1
         /\ q.accepted => r.accepted /\ (kind = ")" => r.parens > 0)
         /\ Plain(q) => Plain(r)
         /\ Plain(q) /\ r.body = 0 => q.body = 0
         /\ q.words
         /\ q.keyword => r.keyword
<1>1. ~Terminates(r, d.kind) /\ d.kind # "EOF" /\ d.kind # ";"
  BY DEF Terminates, IsTerminator
<1>2. Plain(q) => Plain(r)
  BY ReduceKeeps
<1>3. Plain(q) /\ r.body = 0 => q.body = 0
  BY <1>1, ReduceFields DEF Plain
<1> QED
  BY <1>1, <1>2, <1>3, ReduceFields

LEMMA GrammarIgnores ==
  ASSUME NEW r \in Raw, NEW d, NEW kind, kind = d.kind,
         IsTerminator(kind), kind # "EOF", ~Outermost(r)
  PROVE  Reduce(r, d) = r
<1> DEFINE A == [r EXCEPT !.parens = @ + 1, !.words = TRUE]
           B == [r EXCEPT !.parens = @ - 1, !.words = TRUE, !.accepted = @ /\ r.parens > 0]
           D == [r EXCEPT !.list = Stmtmulti(r), !.semicolon = d.at, !.words = FALSE,
                          !.keyword = FALSE, !.accepted = @ /\ (r.words => r.keyword)]
           E == [r EXCEPT !.accepted = FALSE]
           F == [r EXCEPT !.words = TRUE, !.keyword = @ \/ d.kind \notin {"IDENT", "SCONST"},
                          !.body = Bodies(r, d.kind), !.atomic = @ \/ d.kind = "ATOMIC"]
<1>1. Reduce(r, d) =
        CASE d.kind = "(" -> A [] d.kind = ")" -> B
          [] IsTerminator(d.kind) /\ Outermost(r) -> D
          [] d.kind = "EOF" /\ ~Outermost(r) -> E
          [] d.kind = ";" /\ ~Outermost(r) -> r
          [] OTHER -> F
  BY DEF Reduce
<1> HIDE DEF A, B, D, E, F
<1> QED
  BY <1>1 DEF IsTerminator

-----------------------------------------------------------------------------
\* A word that both take.
LEMMA AddedAgrees ==
  ASSUME NEW r \in Raw, NEW l, NEW m, NEW c, NEW k \in Nat, NEW j \in Nat, k <= j,
         Agrees(r, l, c, k),
         NEW d, NEW kind, kind = d.kind, kind \notin {"(", ")"}, ~IsTerminator(kind),
         NEW q, q = Reduce(r, d),
         m.parens = l.parens, m.start = l.start,
         l.keyword => m.keyword, kind \notin {"IDENT", "SCONST"} => m.keyword
  PROVE  Agrees(q, m, c, j)
<1>1. /\ q.list = r.list /\ q.semicolon = r.semicolon /\ q.parens = r.parens
      /\ Plain(q) => Plain(r)
      /\ Plain(q) /\ r.body = 0 => q.body = 0
      /\ q.words
      /\ q.keyword => r.keyword \/ kind \notin {"IDENT", "SCONST"}
  BY GrammarAdds
<1> QED
  BY <1>1, WordsAgree

\* A parenthesis: there are fewer open ones than tokens, so open_parens has not
\* wrapped around.
LEMMA CountedAgrees ==
  ASSUME NEW r \in Raw, NEW l \in LoopState, NEW m, NEW c, NEW k \in Nat, k + 1 < SizeMod,
         Agrees(r, l, c, k),
         NEW d, NEW kind, kind = d.kind, kind \in {"(", ")"}, NEW q, q = Reduce(r, d),
         m.keyword <=> l.keyword, m.start = l.start,
         m.parens = IF kind = "(" THEN (l.parens + 1) % SizeMod ELSE (l.parens - 1) % SizeMod
  PROVE  Agrees(q, m, c, k + 1)
<1>1. /\ q.list = r.list /\ q.semicolon = r.semicolon
      /\ q.parens = IF kind = "(" THEN r.parens + 1 ELSE r.parens - 1
      /\ q.accepted => r.accepted /\ (kind = ")" => r.parens > 0)
      /\ Plain(q) => Plain(r)
      /\ Plain(q) /\ r.body = 0 => q.body = 0
      /\ q.words
      /\ q.keyword => r.keyword
  BY GrammarCounts
<1> SUFFICES ASSUME Plain(q)
             PROVE  /\ q.body = 0
                    /\ q.parens = m.parens /\ q.parens <= k + 1
                    /\ q.keyword => m.keyword
                    /\ m.keyword => q.words
                    /\ StartOf(q) = m.start
                    /\ Closed(q) = SubSeq(stmts, 1, c)
  BY DEF Agrees
<1>2. /\ (kind = ")" => r.parens > 0)
      /\ r.body = 0 /\ q.body = 0
      /\ r.parens = l.parens /\ r.parens <= k
      /\ r.keyword => l.keyword
      /\ StartOf(r) = l.start
      /\ Closed(r) = SubSeq(stmts, 1, c)
  BY <1>1 DEF Agrees, Plain
<1>3. PICK p \in 0..SizeMod - 1 : p = l.parens
  BY DEF LoopState
<1>4. q.parens = m.parens /\ q.parens <= k + 1
  <2>1. SizeMod \in Nat /\ p <= k
    BY <1>2, <1>3, SizeModAssumption
  <2>2. CASE kind = "("
    <3>1. (p + 1) % SizeMod = p + 1
      BY <2>1
    <3> QED
      BY <1>1, <1>2, <1>3, <2>1, <2>2, <3>1
  <2>3. CASE kind = ")"
    <3>1. p > 0
      BY <1>2, <1>3, <2>3
    <3>2. (p - 1) % SizeMod = p - 1
      BY <2>1, <3>1
    <3> QED
      BY <1>1, <1>2, <1>3, <2>1, <2>3, <3>1, <3>2
  <2> QED
    BY <2>2, <2>3
<1>5. StartOf(q) = StartOf(r) /\ Closed(q) = Closed(r)
  BY <1>1 DEF StartOf, Closed
<1> QED
  BY <1>1, <1>2, <1>4, <1>5

\* A token that the second loop passes over.
LEMMA TrailSkips ==
  ASSUME IsText(text), NEW s, NEW M, NEW C, NEW n \in 0..Len(text), Trail(s, M, C, n),
         NEW k \in 0..n - 1, text[k + 1].kind \notin {"(", ")"}, ~IsTerminator(text[k + 1].kind)
  PROVE  /\ M[k + 1].keyword <=> text[k + 1].kind \in Keywords \/ M[k].keyword
         /\ M[k + 1].parens = M[k].parens /\ M[k + 1].start = M[k].start
         /\ C[k + 1] = C[k]
<1>0. PICK kind, at : kind = text[k + 1].kind /\ at = text[k + 1].at
  OBVIOUS
<1>1. /\ k \in 0..n /\ M[k] \in LoopState /\ C[k] \in Nat /\ at \in 0..EndOf(text)
      /\ M[k + 1] = Filled(M[k], kind, at) /\ C[k + 1] = C[k] + Ended(M[k], kind)
  <2>1. k \in 0..n
    BY TextIsSorted
  <2> QED
    BY <1>0, <2>1, TrailFields
<1>2. PICK l \in LoopState : l = M[k]
  BY <1>1
<1>3. PICK m : m = Filled(l, kind, at)
  OBVIOUS
<1>4. /\ m.keyword <=> kind \in Keywords \/ l.keyword
      /\ m.parens = l.parens /\ m.start = l.start
      /\ Ended(l, kind) = 0
  BY <1>0, <1>1, <1>3, LoopSkips
<1> QED
  BY <1>0, <1>1, <1>2, <1>3, <1>4

\* A comment: the grammar does not see it.
LEMMA CommentAgrees ==
  ASSUME IsText(text), NEW M, NEW C, Trail(stmts, M, C, Len(text)),
         NEW k \in 0..Len(text) - 1, text[k + 1].kind \in Comments,
         NEW r \in Raw, Agrees(r, M[k], C[k], k)
  PROVE  Agrees(r, M[k + 1], C[k + 1], k + 1)
<1>1. /\ text[k + 1].kind \notin {"(", ")"} /\ ~IsTerminator(text[k + 1].kind)
      /\ text[k + 1].kind \notin Keywords
  BY DEF Comments, IsTerminator, Keywords
<1>2. /\ M[k + 1].keyword <=> M[k].keyword
      /\ M[k + 1].parens = M[k].parens /\ M[k + 1].start = M[k].start
      /\ C[k + 1] = C[k]
  <2>1. Len(text) \in 0..Len(text)
    BY TextIsSorted
  <2>2. text[k + 1].kind \notin {"(", ")"}
    BY <1>1
  <2>3. ~IsTerminator(text[k + 1].kind)
    BY <1>1
  <2>4. /\ M[k + 1].keyword <=> text[k + 1].kind \in Keywords \/ M[k].keyword
        /\ M[k + 1].parens = M[k].parens /\ M[k + 1].start = M[k].start
        /\ C[k + 1] = C[k]
    BY <2>1, <2>2, <2>3, TrailSkips
  <2> QED
    BY <1>1, <2>4
<1>3. r.parens \in Int /\ k \in Int
  BY DEF Raw
<1> QED
  BY <1>2, <1>3 DEF Agrees

\* The mode tokens mean nothing to it either, and other words are added to the
\* statement: k tokens become j, which the loop passes over.
LEMMA MoreAgrees ==
  ASSUME NEW M, NEW C, NEW k \in Nat, NEW j \in Nat, k <= j,
         NEW r \in Raw, Agrees(r, M[k], C[k], k),
         M[j].parens = M[k].parens, M[j].start = M[k].start, C[j] = C[k],
         M[k].keyword => M[j].keyword,
         NEW d, NEW kind, kind = d.kind, kind \notin {"(", ")"}, ~IsTerminator(kind),
         kind \notin {"IDENT", "SCONST"} => M[j].keyword,
         NEW q, q = Reduce(r, d)
  PROVE  Agrees(q, M[j], C[j], j)
<1>1. PICK l, m, c : l = M[k] /\ m = M[j] /\ c = C[k]
  OBVIOUS
<1>2. Agrees(q, m, c, j)
  BY <1>1, AddedAgrees
<1> QED
  BY <1>1, <1>2

\* A token that needs no lookahead.
LEMMA WordAgrees ==
  ASSUME IsText(text), Len(text) < SizeMod, NEW M, NEW C, Trail(stmts, M, C, Len(text)),
         stmts \in Seq(RawStmt), \A i \in 1..Len(stmts) : stmts[i].len > 0,
         NEW k \in 0..Len(text) - 1, NEW r \in Raw, Agrees(r, M[k], C[k], k),
         NEW kind, kind = text[k + 1].kind, kind \notin Comments \cup {"BAD"}, ~LooksAhead(kind),
         NEW d, NEW at, d.kind = kind, d.at = at, at = text[k + 1].at,
         NEW q, q = Reduce(r, d)
  PROVE  Agrees(q, M[k + 1], C[k + 1], k + 1)
<1>0. Len(text) \in Nat /\ Len(text) \in 0..Len(text) /\ k \in Nat /\ k + 1 \in Nat
      /\ k \in 0..Len(text) /\ k + 1 \in 0..Len(text) /\ k + 1 \in 1..Len(text)
  BY TextIsSorted
<1>1. /\ M[k] \in LoopState /\ C[k] \in Nat /\ at \in 0..EndOf(text)
      /\ M[k + 1] \in LoopState /\ C[k + 1] \in Nat
      /\ C[k] <= Len(stmts)
      /\ M[k + 1] = Filled(M[k], kind, at) /\ C[k + 1] = C[k] + Ended(M[k], kind)
      /\ EndsStatement(M[k], kind) => Wrote(stmts, C[k + 1], M[k].start, at)
  BY <1>0, TrailFields
<1>2. PICK l \in LoopState, m \in LoopState, c \in Nat, e \in Nat :
        l = M[k] /\ m = M[k + 1] /\ c = C[k] /\ e = C[k + 1]
  BY <1>1
<1>3. /\ Agrees(r, l, c, k) /\ m = Filled(l, kind, at) /\ e = c + Ended(l, kind)
      /\ EndsStatement(l, kind) => Wrote(stmts, e, l.start, at)
      /\ c <= Len(stmts)
  BY <1>1, <1>2
<1>4. CASE kind \in {"(", ")"}
  <2>1. /\ m.keyword <=> l.keyword
        /\ m.start = l.start
        /\ m.parens = IF kind = "(" THEN (l.parens + 1) % SizeMod ELSE (l.parens - 1) % SizeMod
        /\ Ended(l, kind) = 0
    BY <1>1, <1>3, <1>4, LoopCounts
  <2>2. e = c
    BY <1>3, <2>1
  <2>3. k + 1 < SizeMod
    BY <1>0, SizeModAssumption
  <2>4. Agrees(q, m, c, k + 1)
    BY <1>0, <1>3, <1>4, <2>1, <2>3, CountedAgrees
  <2> QED
    BY <1>2, <2>2, <2>4
<1>5. CASE IsTerminator(kind)
  <2>1. kind # "EOF"
    BY <1>0, TextIsSorted, EndIsNoToken
  <2>2. /\ m.keyword <=> l.keyword /\ ~EndsStatement(l, kind)
        /\ m.parens = l.parens
        /\ m.start = IF l.parens = 0 THEN at + 1 ELSE l.start
    BY <1>1, <1>3, <1>5, <2>1, LoopTerminates
  <2>3. CASE Outermost(r)
    <3>1. PICK p \in Nat : p = at
      BY <1>1
    <3>2. l.parens = 0 => m.start = p + 1
      BY <2>2, <3>1
    <3>3. EndsStatement(l, kind) => Wrote(stmts, e, l.start, p)
      BY <1>3, <3>1
    <3>4. Agrees(q, m, e, k + 1)
      BY <1>0, <1>3, <1>5, <2>2, <2>3, <3>1, <3>2, <3>3, TerminatorAgrees DEF Outermost
    <3> QED
      BY <1>2, <3>4
  <2>4. CASE ~Outermost(r)
    <3>1. q = r
      BY <1>5, <2>1, <2>4, GrammarIgnores
    <3>2. SUFFICES ASSUME Plain(r) PROVE Agrees(r, m, e, k + 1)
      BY <1>2, <3>1 DEF Agrees
    <3>3. r.parens = l.parens /\ ~EndsStatement(l, kind)
      BY <1>3, <2>4, <3>2 DEF Agrees, EndsStatement, Outermost
    <3>4. m.start = l.start /\ (m.keyword <=> l.keyword) /\ e = c
      <4>1. r.parens # 0
        BY <1>3, <2>4, <3>2 DEF Agrees, Outermost
      <4> QED
        BY <1>3, <2>2, <3>3, <4>1 DEF Ended
    <3>5. r.parens \in Int
      BY DEF Raw
    <3> QED
      BY <1>0, <1>3, <2>2, <3>4, <3>5 DEF Agrees
  <2> QED
    BY <2>3, <2>4
<1>6. CASE kind \notin {"(", ")"} /\ ~IsTerminator(kind)
  <2>1. /\ m.keyword <=> kind \in Keywords \/ l.keyword
        /\ m.parens = l.parens /\ m.start = l.start
        /\ Ended(l, kind) = 0
    BY <1>1, <1>3, <1>6, LoopSkips
  <2>2. e = c
    BY <1>3, <2>1
  <2>3. kind \notin {"IDENT", "SCONST"} => kind \in Keywords
    <3>1. kind \in Kinds
      BY <1>0, TextIsSorted
    <3>2. kind \notin Unicode /\ kind # ";"
      BY <1>6 DEF LooksAhead, IsTerminator
    <3> QED
      BY <1>6, <3>1, <3>2 DEF Kinds, Unicode
  <2>4. k <= k + 1
    BY <1>0
  <2>5. Agrees(q, m, c, k + 1)
    BY <1>0, <1>3, <1>6, <2>1, <2>3, <2>4, AddedAgrees
  <2> QED
    BY <1>2, <2>2, <2>5
<1> QED
  BY <1>4, <1>5, <1>6

\* What the second loop has written when the parser starts.
Written(M, C) ==
  /\ Trail(stmts, M, C, Len(text))
  /\ Len(stmts) = C[Len(text)] + Ended(M[Len(text)], "EOF")
  /\ EndsStatement(M[Len(text)], "EOF")
       => Wrote(stmts, Len(stmts), M[Len(text)].start, EndOf(text))

\* The grammar receives what base_yylex delivers.
LEMMA GrammarTakes ==
  ASSUME \E S : delivered \in Seq(S), NEW d, delivered' = Append(delivered, d), GrammarStep,
         NEW kind, kind = d.kind
  PROVE  raw' = IF kind \in Modes THEN raw ELSE Reduce(raw, d)
<1>1. PICK S : delivered \in Seq(S)
  OBVIOUS
<1>2. delivered \in Seq(S \cup {d}) /\ d \in S \cup {d}
  BY <1>1, SeqMonotonic
<1>3. /\ Len(delivered') = Len(delivered) + 1 /\ delivered'[Len(delivered) + 1] = d
      /\ Len(delivered) \in Nat
  BY <1>2, AppendProperties, LenProperties
<1>4. delivered' # delivered /\ Last(delivered') = d
  BY <1>3 DEF Last
<1> QED
  BY <1>4 DEF GrammarStep

LEMMA TakesAgreeing ==
  ASSUME IsText(text), Len(text) < SizeMod, NEW M, NEW C, Written(M, C),
         stmts \in Seq(RawStmt), \A i \in 1..Len(stmts) : stmts[i].len > 0,
         raw \in Raw, \E S : delivered \in Seq(S),
         NEW k \in 0..Len(text), Agrees(raw, M[k], C[k], k),
         TakesFrom(k), GrammarStep, text' = text
  PROVE  /\ lexing' \in Calling =>
              \E j \in 0..Len(text) : UsedUp(j)' /\ Agrees(raw', M[j], C[j], j)
         /\ lexing' = "done" /\ Plain(raw') => stmts = ParserStmts'
<1> DEFINE n == Len(text)
<1>0. n \in Nat /\ n \in 0..n /\ k \in Nat /\ Trail(stmts, M, C, n)
      /\ M[n] \in LoopState /\ C[n] \in Nat
  <2>1. n \in Nat /\ n \in 0..n /\ k \in Nat /\ Trail(stmts, M, C, n)
    BY TextIsSorted DEF Written
  <2> QED
    BY <2>1, TrailFields
<1>1. CASE ModeStep(k)
  <2>1. PICK mode \in Modes : delivered' = Append(delivered, [kind |-> mode, at |-> 0, end |-> 0])
    BY <1>1 DEF ModeStep
  <2>2. raw' = raw
    <3>1. PICK d : d = [kind |-> mode, at |-> 0, end |-> 0]
      OBVIOUS
    <3>2. d.kind = mode
      BY <3>1
    <3> QED
      BY <2>1, <3>1, <3>2, GrammarTakes
  <2> QED
    BY <1>0, <1>1, <2>2 DEF ModeStep
<1>2. CASE SkipStep(k)
  <2>1. k \in 0..n - 1 /\ k + 1 \in 0..n /\ text[k + 1].kind \in Comments
    BY <1>0, <1>2 DEF SkipStep
  <2>2. raw' = raw
    BY <1>2 DEF SkipStep, GrammarStep
  <2>3. Agrees(raw, M[k + 1], C[k + 1], k + 1)
    BY <1>0, <2>1, CommentAgrees
  <2> QED
    BY <1>2, <2>1, <2>2, <2>3 DEF SkipStep
<1>3. ASSUME NEW kind, NEW j \in 0..n, Receives(kind, k, j), kind \notin Modes, k < n,
             \A d : d.kind = kind /\ d.at = text[k + 1].at
                      => Agrees(Reduce(raw, d), M[j], C[j], j)
      PROVE  /\ lexing' = "ready"
             /\ \E i \in 0..n : UsedUp(i)' /\ Agrees(raw', M[i], C[i], i)
  <2>1. PICK d : d = [kind |-> kind, at |-> text[k + 1].at, end |-> Position(j)]
    OBVIOUS
  <2>2. d.kind = kind /\ d.at = text[k + 1].at
    BY <2>1
  <2>3. delivered' = Append(delivered, d) /\ lexing' = "ready" /\ UsedUp(j)'
    BY <1>3, <2>1 DEF Receives
  <2>4. raw' = Reduce(raw, d)
    BY <1>3, <2>2, <2>3, GrammarTakes
  <2> QED
    BY <1>3, <2>2, <2>3, <2>4
<1>4. CASE WordStep(k)
  <2>1. PICK kind : kind = text[k + 1].kind
    OBVIOUS
  <2>2. /\ k \in 0..n - 1 /\ k + 1 \in 0..n /\ k + 1 \in 1..n
        /\ kind \notin Comments \cup {"BAD"} /\ ~LooksAhead(kind)
        /\ Receives(kind, k, k + 1)
    BY <1>0, <1>4, <2>1 DEF WordStep
  <2>3. kind \notin Modes
    BY <2>1, <2>2, TextIsSorted, ModesAssumption
  <2>4. ASSUME NEW d, d.kind = kind, d.at = text[k + 1].at
        PROVE  Agrees(Reduce(raw, d), M[k + 1], C[k + 1], k + 1)
    <3>1. PICK q, at : q = Reduce(raw, d) /\ at = text[k + 1].at
      OBVIOUS
    <3>2. Agrees(q, M[k + 1], C[k + 1], k + 1)
      BY <1>0, <2>1, <2>2, <2>4, <3>1, WordAgrees
    <3> QED
      BY <3>1, <3>2
  <2> QED
    BY <1>3, <1>4, <2>2, <2>3, <2>4 DEF WordStep
<1>5. CASE LookAheadStep(k)
  <2>1. PICK word, kind : word = text[k + 1].kind /\ kind = Replaced(word, KindOf(k + 2))
    OBVIOUS
  <2>2. k \in 0..n - 1 /\ k + 1 \in 0..n /\ k <= k + 1 /\ k + 1 \in Nat
        /\ LooksAhead(word) /\ Receives(kind, k, k + 1)
    BY <1>0, <1>5, <2>1 DEF LookAheadStep
  <2>3. /\ word \in Unicode => kind \in {"IDENT", "SCONST"}
        /\ word \notin Unicode =>
              /\ word \in Keywords
              /\ \/ kind = word
                 \/ kind \in {"FORMAT_LA", "NOT_LA", "NULLS_LA", "WITH_LA", "WITHOUT_LA"}
        /\ kind \notin Modes
    BY <2>1, <2>2, ReplacedIs
  <2>4. word \notin {"(", ")"} /\ ~IsTerminator(word) /\ kind \notin {"(", ")"} /\ ~IsTerminator(kind)
    <3>1. word \in Unicode => word \notin {"(", ")"} /\ ~IsTerminator(word)
      BY DEF Unicode, IsTerminator
    <3>2. kind \in {"IDENT", "SCONST", "FORMAT_LA", "NOT_LA", "NULLS_LA", "WITH_LA", "WITHOUT_LA"}
            => kind \notin {"(", ")"} /\ ~IsTerminator(kind)
      BY DEF IsTerminator
    <3> QED
      BY <2>3, <3>1, <3>2, KeywordsEndNothing
  <2>5. /\ M[k + 1].keyword <=> word \in Keywords \/ M[k].keyword
        /\ M[k + 1].parens = M[k].parens /\ M[k + 1].start = M[k].start
        /\ C[k + 1] = C[k]
    BY <1>0, <2>1, <2>2, <2>4, TrailSkips
  <2>6. ASSUME NEW d, d.kind = kind
        PROVE  Agrees(Reduce(raw, d), M[k + 1], C[k + 1], k + 1)
    <3>1. PICK q : q = Reduce(raw, d)
      OBVIOUS
    <3>2. kind \notin {"IDENT", "SCONST"} => M[k + 1].keyword
      BY <2>3, <2>5
    <3>3. M[k].keyword => M[k + 1].keyword
      BY <2>5
    <3>4. kind = d.kind /\ k \in Nat /\ k + 1 \in Nat /\ k <= k + 1
      BY <2>2, <2>6
    <3>5. Agrees(q, M[k + 1], C[k + 1], k + 1)
      BY <1>0, <2>4, <2>5, <3>1, <3>2, <3>3, <3>4, MoreAgrees
    <3> QED
      BY <3>1, <3>5
  <2> QED
    BY <1>3, <1>5, <2>2, <2>3, <2>6 DEF LookAheadStep
<1>6. CASE EscapeStep(k)
  <2>1. PICK word, kind : word = text[k + 1].kind /\ kind = Replaced(word, "UESCAPE")
    OBVIOUS
  <2>2. /\ k \in 0..n - 1 /\ k + 1 \in 0..n - 1 /\ k + 2 \in 0..n - 1 /\ k + 3 \in 0..n
        /\ k <= k + 3 /\ k + 3 \in Nat /\ (k + 1) + 1 = k + 2 /\ (k + 2) + 1 = k + 3 /\ k < n
        /\ word \in Unicode /\ text[k + 2].kind = "UESCAPE" /\ text[k + 3].kind = "SCONST"
        /\ Receives(kind, k, k + 3)
    <3>1. /\ k + 3 <= n
          /\ word \in Unicode /\ text[k + 2].kind = "UESCAPE" /\ text[k + 3].kind = "SCONST"
          /\ Receives(kind, k, k + 3)
      BY <1>6, <2>1, Zenon DEF EscapeStep
    <3>2. /\ k \in 0..n - 1 /\ k + 1 \in 0..n - 1 /\ k + 2 \in 0..n - 1 /\ k + 3 \in 0..n
          /\ k <= k + 3 /\ k + 3 \in Nat /\ (k + 1) + 1 = k + 2 /\ (k + 2) + 1 = k + 3 /\ k < n
      BY <1>0, <3>1
    <3> QED
      BY <3>1, <3>2
  <2>3. kind \in {"IDENT", "SCONST"} /\ kind \notin Modes
    BY <2>1, <2>2, ReplacedIs DEF LooksAhead
  <2>4. /\ word \notin {"(", ")"} /\ ~IsTerminator(word)
        /\ "UESCAPE" \notin {"(", ")"} /\ ~IsTerminator("UESCAPE") /\ "UESCAPE" \in Keywords
        /\ "SCONST" \notin {"(", ")"} /\ ~IsTerminator("SCONST")
        /\ ~IsTerminator("IDENT")
    BY <2>2 DEF Unicode, IsTerminator, Keywords
  <2>5. /\ M[k + 1].parens = M[k].parens /\ M[k + 1].start = M[k].start
        /\ C[k + 1] = C[k]
    BY <1>0, <2>1, <2>2, <2>4, TrailSkips
  <2>6. /\ M[k + 2].keyword
        /\ M[k + 2].parens = M[k + 1].parens /\ M[k + 2].start = M[k + 1].start
        /\ C[k + 2] = C[k + 1]
    <3>1. PICK i \in 0..n - 1 : i = k + 1 /\ i + 1 = k + 2
      BY <2>2
    <3>2. text[i + 1].kind = "UESCAPE"
      BY <2>2, <3>1
    <3>3. text[i + 1].kind \notin {"(", ")"} /\ ~IsTerminator(text[i + 1].kind)
      BY <2>4, <3>2
    <3>4. /\ M[i + 1].keyword <=> text[i + 1].kind \in Keywords \/ M[i].keyword
          /\ M[i + 1].parens = M[i].parens /\ M[i + 1].start = M[i].start
          /\ C[i + 1] = C[i]
      BY <1>0, <3>3, TrailSkips
    <3> QED
      BY <2>4, <3>1, <3>2, <3>4
  <2>7. /\ M[k + 3].keyword
        /\ M[k + 3].parens = M[k + 2].parens /\ M[k + 3].start = M[k + 2].start
        /\ C[k + 3] = C[k + 2]
    <3>1. PICK i \in 0..n - 1 : i = k + 2 /\ i + 1 = k + 3
      BY <2>2
    <3>2. text[i + 1].kind = "SCONST"
      BY <2>2, <3>1
    <3>3. text[i + 1].kind \notin {"(", ")"} /\ ~IsTerminator(text[i + 1].kind)
      BY <2>4, <3>2
    <3>4. /\ M[i + 1].keyword <=> text[i + 1].kind \in Keywords \/ M[i].keyword
          /\ M[i + 1].parens = M[i].parens /\ M[i + 1].start = M[i].start
          /\ C[i + 1] = C[i]
      BY <1>0, <3>3, TrailSkips
    <3> QED
      BY <2>6, <3>1, <3>4
  <2>8. ASSUME NEW d, d.kind = kind
        PROVE  Agrees(Reduce(raw, d), M[k + 3], C[k + 3], k + 3)
    <3>1. PICK q : q = Reduce(raw, d)
      OBVIOUS
    <3>2. kind \notin {"(", ")"} /\ ~IsTerminator(kind)
      BY <2>3, <2>4
    <3>3. /\ M[k + 3].parens = M[k].parens /\ M[k + 3].start = M[k].start
          /\ C[k + 3] = C[k] /\ M[k + 3].keyword
      BY <2>5, <2>6, <2>7
    <3>4. kind = d.kind /\ k \in Nat /\ k + 3 \in Nat /\ k <= k + 3
      BY <2>2, <2>8
    <3>5. Agrees(q, M[k + 3], C[k + 3], k + 3)
      BY <1>0, <3>1, <3>2, <3>3, <3>4, MoreAgrees
    <3> QED
      BY <3>1, <3>5
  <2> QED
    BY <1>3, <1>6, <2>2, <2>3, <2>8
<1>7. CASE EndStep(k)
  <2>1. PICK d : d = [kind |-> "EOF", at |-> EndOf(text), end |-> EndOf(text)]
    OBVIOUS
  <2>2. d.kind = "EOF" /\ d.at = EndOf(text) /\ delivered' = Append(delivered, d) /\ lexing' = "done"
        /\ k = n
    BY <1>7, <2>1 DEF EndStep
  <2>3. raw' = Reduce(raw, d)
    <3>1. "EOF" \notin Modes
      BY ModesAssumption
    <3> QED
      BY <2>2, <3>1, GrammarTakes
  <2>4. PICK l \in LoopState, c \in Nat : l = M[n] /\ c = C[n]
    BY <1>0
  <2> PICK q : q = raw'
    OBVIOUS
  <2>5. ASSUME Plain(q) PROVE stmts = ParserStmts'
    <3>1. /\ Agrees(raw, l, c, k)
          /\ Len(stmts) = c + Ended(l, "EOF")
          /\ EndsStatement(l, "EOF") => Wrote(stmts, Len(stmts), l.start, EndOf(text))
      BY <2>2, <2>4 DEF Written
    <3>2. stmts = [i \in 1..Len(q.list) |->
                    [location |-> q.list[i].location,
                     len |-> IF q.list[i].len = 0 THEN EndOf(text) - q.list[i].location
                             ELSE q.list[i].len]]
      <4>1. q = Reduce(raw, d)
        BY <2>3
      <4>2. EndOf(text) = d.at /\ d.kind = "EOF"
        BY <2>2
      <4>3. Agrees(raw, l, c, k)
        BY <3>1
      <4>4. Len(stmts) = c + Ended(l, "EOF")
        BY <3>1
      <4>5. EndsStatement(l, "EOF") => Wrote(stmts, Len(stmts), l.start, EndOf(text))
        BY <3>1
      <4> QED
        BY <2>5, <4>1, <4>2, <4>3, <4>4, <4>5, EndAgrees
    <3> QED
      BY <2>4, <3>2 DEF ParserStmts
  <2> QED
    BY <2>2, <2>4, <2>5 DEF Calling
<1>8. CASE StopStep
  BY <1>8 DEF StopStep, Calling
<1> QED
  BY <1>1, <1>2, <1>4, <1>5, <1>6, <1>7, <1>8 DEF TakesFrom

\* The second loop keeps to what it has written.
LEMMA TrailKept ==
  ASSUME NEW s \in Seq(RawStmt), NEW M, NEW C, NEW k \in Nat, Trail(s, M, C, k),
         NEW l, NEW kind, NEW at
  PROVE  Trail(WrittenAt(s, l, kind, at), M, C, k)
<1> DEFINE t == WrittenAt(s, l, kind, at)
<1>1. /\ Len(s) \in Nat /\ Len(s) <= Len(t) /\ Len(t) = Len(s) + Ended(l, kind)
      /\ \A c, start, end : Wrote(s, c, start, end) => Wrote(t, c, start, end)
  BY WrittenAtFields
<1> HIDE DEF t
<1>2. Len(t) \in Nat
  BY <1>1 DEF Ended
<1>3. /\ M \in [0..k -> LoopState] /\ C \in [0..k -> Nat]
      /\ M[0] = LoopStart /\ C[0] = 0
      /\ \A i \in 1..k :
           /\ M[i] = Filled(M[i - 1], text[i].kind, text[i].at)
           /\ C[i] = C[i - 1] + Ended(M[i - 1], text[i].kind)
           /\ EndsStatement(M[i - 1], text[i].kind) => Wrote(s, C[i], M[i - 1].start, text[i].at)
      /\ \A i \in 0..k : C[i] <= Len(s)
  BY DEF Trail
<1>4. \A i \in 0..k : C[i] <= Len(t)
  <2> TAKE i \in 0..k
  <2>1. C[i] \in Nat /\ C[i] <= Len(s)
    BY <1>3
  <2> QED
    BY <1>1, <1>2, <2>1
<1>5. \A i \in 1..k :
        /\ M[i] = Filled(M[i - 1], text[i].kind, text[i].at)
        /\ C[i] = C[i - 1] + Ended(M[i - 1], text[i].kind)
        /\ EndsStatement(M[i - 1], text[i].kind) => Wrote(t, C[i], M[i - 1].start, text[i].at)
  BY <1>1, <1>3
<1>6. Trail(t, M, C, k)
  BY <1>3, <1>4, <1>5 DEF Trail
<1> QED
  BY <1>6 DEF t

\* The second loop, up to the end of the text.
Writing(M, C, k) ==
  /\ HasRead(k, flex)
  /\ Trail(stmts, M, C, k)
  /\ loop = M[k]
  /\ Len(stmts) = C[k]

\* The grammar has agreed with it so far.
Matching(M, C) ==
  /\ Written(M, C)
  /\ lexing \in Calling => \E k \in 0..Len(text) : UsedUp(k) /\ Agrees(raw, M[k], C[k], k)
  /\ lexing = "done" /\ Plain(raw) => stmts = ParserStmts

\* A token that the split has rejected: the parser does not get past it either.
Rejected(b) ==
  /\ text[b].kind = "BAD"
  /\ lexing # "done"
  /\ lexing \in Calling => \E k \in 0..b - 1 : UsedUp(k)

AgreeInv ==
  /\ text \in Texts
  /\ pc = "fill" => \E k \in 0..Len(text) : \E M, C : Writing(M, C, k)
  /\ pc \in {"parse", "returned"} =>
       IF error = NoError THEN \E M, C : Matching(M, C)
       ELSE \E b \in 1..Len(text) : Rejected(b)

LEMMA WritingStarts ==
  ASSUME IsText(text), text' = text, flex' = ScannerInit(text), stmts' = <<>>, loop' = LoopStart
  PROVE  \E k \in 0..Len(text') : \E M, C : Writing(M, C, k)'
<1> DEFINE M == [i \in 0..0 |-> LoopStart]
           C == [i \in 0..0 |-> 0]
<1>1. Trail(<<>>, M, C, 0) /\ M[0] = LoopStart /\ C[0] = 0
  BY TrailStarts
<1> HIDE DEF M, C
<1>2. Trail(stmts, M, C, 0)'
  BY <1>1 DEF Trail, LoopState
<1>3. HasRead(0, flex)'
  <2>1. HasRead(0, flex')
    BY ScannerInitRead
  <2> QED
    BY <2>1 DEF HasRead, Flex, Position
<1>4. Len(stmts') = 0
  BY EmptySeq
<1>5. Writing(M, C, 0)'
  BY <1>1, <1>2, <1>3, <1>4 DEF Writing
<1>6. 0 \in 0..Len(text')
  BY TextIsSorted
<1> QED
  BY <1>5, <1>6

LEMMA WritingGoesOn ==
  ASSUME IsText(text), stmts \in Seq(RawStmt), NEW M, NEW C, NEW k \in 0..Len(text), k < Len(text),
         Writing(M, C, k), text' = text,
         NEW kind, kind = text[k + 1].kind, NEW at, at = text[k + 1].at,
         flex' = ScannerAt(Position(k + 1)),
         loop' = Filled(loop, kind, at),
         stmts' = WrittenAt(stmts, loop, kind, at)
  PROVE  \E j \in 0..Len(text') : \E MM, CC : Writing(MM, CC, j)'
<1>1. k \in Nat /\ k + 1 \in 0..Len(text) /\ k + 1 \in 1..Len(text) /\ k \in 0..k
  BY TextIsSorted
<1>2. at \in 0..EndOf(text)
  BY <1>1, TextIsSorted, Ends
<1>3. Trail(stmts, M, C, k) /\ loop = M[k] /\ Len(stmts) = C[k]
  BY DEF Writing
<1>4. M[k] \in LoopState
  BY <1>1, <1>3, TrailFields
<1>5. Filled(M[k], kind, at) \in LoopState
  BY <1>2, <1>4, FilledFields
<1>6. PICK t : t = WrittenAt(stmts, M[k], kind, at) /\ t = stmts'
  BY <1>3
<1>7. PICK MM, CC : /\ Trail(t, MM, CC, k + 1)
                    /\ MM[k + 1] = Filled(M[k], kind, at)
                    /\ Len(t) = CC[k + 1]
  BY <1>1, <1>3, <1>5, <1>6, TrailGrows
<1>8. Trail(stmts, MM, CC, k + 1)'
  BY <1>6, <1>7 DEF Trail, LoopState
<1>9. HasRead(k + 1, flex)'
  <2>1. HasRead(k + 1, ScannerAt(Position(k + 1)))
    BY <1>1, ScannerAtRead
  <2>2. HasRead(k + 1, flex')
    BY <2>1
  <2> QED
    BY <2>2 DEF HasRead, Flex, Position
<1>10. Writing(MM, CC, k + 1)'
  BY <1>3, <1>6, <1>7, <1>8, <1>9 DEF Writing
<1> QED
  BY <1>1, <1>10

\* The end of the second loop, where the parser starts.
LEMMA MatchingStarts ==
  ASSUME IsText(text), stmts \in Seq(RawStmt), NEW M, NEW C, Writing(M, C, Len(text)), text' = text,
         Unparsed, StartParser, raw' = raw,
         stmts' = WrittenAt(stmts, loop, "EOF", EndOf(text))
  PROVE  Matching(M, C)'
<1> DEFINE n == Len(text)
<1>1. n \in Nat /\ n \in 0..n /\ 0 \in 0..n
  BY TextIsSorted
<1>2. Trail(stmts, M, C, n) /\ loop = M[n] /\ Len(stmts) = C[n] /\ C[n] \in Nat
  BY <1>1, TrailFields DEF Writing
<1>3. PICK t, l, kind, at : /\ t = WrittenAt(stmts, l, kind, at) /\ t = stmts'
                           /\ l = M[n] /\ kind = "EOF" /\ at = EndOf(text)
  BY <1>2
<1>4. /\ Len(t) = Len(stmts) + Ended(l, kind)
      /\ EndsStatement(l, kind) => Wrote(t, Len(t), l.start, at)
  <2>1. t = WrittenAt(stmts, l, kind, at)
    BY <1>3
  <2> QED
    BY <2>1, WrittenAtFields
<1>5. Trail(t, M, C, n)
  BY <1>1, <1>2, <1>3, TrailKept
<1>6. /\ Len(t) = C[n] + Ended(M[n], "EOF")
      /\ EndsStatement(M[n], "EOF") => Wrote(t, Len(t), M[n].start, EndOf(text))
  BY <1>2, <1>3, <1>4
<1>7. Written(M, C)'
  <2>1. Trail(stmts, M, C, Len(text))'
    BY <1>3, <1>5 DEF Trail, LoopState
  <2> QED
    BY <1>3, <1>6, <2>1 DEF Written
<1>8. delivered' = <<>> /\ lexing' = "ready" /\ UsedUp(0)' /\ 0 \in 0..Len(text')
  BY ParserStartsFresh
<1>9. Agrees(raw, M[0], C[0], 0)'
  <2>1. M[0] = LoopStart /\ C[0] = 0
    BY <1>2 DEF Trail
  <2>2. raw' = NoRaw
    BY DEF Unparsed
  <2>3. SubSeq(stmts', 1, 0) = <<>>
    BY EmptySeq
  <2> QED
    BY <2>1, <2>2, <2>3 DEF Agrees, Plain, NoRaw, LoopStart, StartOf, Closed
<1> QED
  BY <1>7, <1>8, <1>9 DEF Matching

\* The token that the split rejects is the next one of the parser's at best.
LEMMA RejectedStarts ==
  ASSUME IsText(text), NEW b \in 1..Len(text), text[b].kind = "BAD", text' = text,
         Unparsed, StartParser
  PROVE  Rejected(b)'
<1>1. delivered' = <<>> /\ lexing' = "ready" /\ UsedUp(0)'
  BY ParserStartsFresh
<1>2. 0 \in 0..b - 1
  BY TextIsSorted
<1> QED
  BY <1>1, <1>2 DEF Rejected

LEMMA RejectedKept ==
  ASSUME IsText(text), NEW b \in 1..Len(text), text[b].kind = "BAD", text' = text,
         NEW k \in 0..b - 1, TakesFrom(k)
  PROVE  Rejected(b)'
<1> DEFINE n == Len(text)
<1>0. n \in Nat /\ k \in Nat /\ b \in Nat /\ k < b /\ b <= n /\ text'[b].kind = "BAD"
  BY TextIsSorted
<1> HIDE DEF n
<1>1. CASE ModeStep(k)
  BY <1>0, <1>1 DEF ModeStep, Rejected
<1>2. ASSUME NEW j \in Nat, j < b, UsedUp(j)', lexing' \in Calling
      PROVE  Rejected(b)'
  <2>1. j \in 0..b - 1
    BY <1>0, <1>2
  <2>2. lexing' # "done"
    BY <1>2 DEF Calling
  <2> QED
    BY <1>0, <1>2, <2>1, <2>2 DEF Rejected
<1>3. CASE SkipStep(k)
  <2>1. k + 1 # b
    BY <1>3 DEF SkipStep, Comments
  <2>2. UsedUp(k + 1)' /\ lexing' \in Calling
    BY <1>3 DEF SkipStep, Calling
  <2>3. k + 1 \in Nat /\ k + 1 < b
    BY <1>0, <2>1
  <2> QED
    BY <1>2, <2>2, <2>3
<1>4. CASE WordStep(k)
  <2>1. k + 1 # b
    BY <1>4 DEF WordStep
  <2>2. UsedUp(k + 1)' /\ lexing' \in Calling
    BY <1>4 DEF WordStep, Receives, Calling
  <2>3. k + 1 \in Nat /\ k + 1 < b
    BY <1>0, <2>1
  <2> QED
    BY <1>2, <2>2, <2>3
<1>5. CASE LookAheadStep(k)
  <2>1. k + 1 # b
    <3>1. ~LooksAhead("BAD")
      BY DEF LooksAhead, Following, Unicode
    <3> QED
      BY <1>5, <3>1 DEF LookAheadStep
  <2>2. UsedUp(k + 1)' /\ lexing' \in Calling
    BY <1>5 DEF LookAheadStep, Receives, Calling
  <2>3. k + 1 \in Nat /\ k + 1 < b
    BY <1>0, <2>1
  <2> QED
    BY <1>2, <2>2, <2>3
<1>6. CASE EscapeStep(k)
  <2>1. text[k + 1].kind # "BAD" /\ text[k + 2].kind # "BAD" /\ text[k + 3].kind # "BAD"
    BY <1>6, Zenon DEF EscapeStep, Unicode
  <2>2. k + 1 # b /\ k + 2 # b /\ k + 3 # b
    BY <2>1
  <2>3. UsedUp(k + 3)' /\ lexing' \in Calling
    BY <1>6, Zenon DEF EscapeStep, Receives, Calling
  <2>4. k + 3 \in Nat /\ k + 3 < b
    BY <1>0, <2>2
  <2> QED
    BY <1>2, <2>2, <2>3, <2>4
<1>7. CASE EndStep(k)
  BY <1>0, <1>7 DEF EndStep, n
<1>8. CASE StopStep
  BY <1>0, <1>8 DEF StopStep, Rejected, Calling
<1> QED
  BY <1>1, <1>3, <1>4, <1>5, <1>6, <1>7, <1>8 DEF TakesFrom

-----------------------------------------------------------------------------
LEMMA AgreeInvInit == Init => AgreeInv
BY DEF Init, FilterInit, AgreeInv

LEMMA SplitStepAgrees ==
  ASSUME IInv, AgreeInv, SplitWithScanner
  PROVE  AgreeInv'
<1> DEFINE scanned == CoreYylex(text, flex)
<1>0. /\ text' = text /\ raw' = raw /\ IsText(text) /\ Unparsed /\ error = NoError
      /\ pc \in {"count", "fill"} /\ text' \in Texts
      /\ loop \in LoopState /\ Len(text) \in Nat
  BY SplitSteps, TextIsSorted DEF SplitWithScanner, IInv, StateInv, AgreeInv
<1>1. ScanError(scanned) \/ CountStatement(scanned) \/ FillStatement(scanned)
  BY DEF SplitWithScanner
<1>2. PICK k \in 0..Len(text) : HasRead(k, flex)
  BY <1>0 DEF IInv, CountInv, FillInv, Counting, Filling
<1>3. \/ /\ k < Len(text) /\ k + 1 \in 1..Len(text) /\ scanned.token = text[k + 1]
         /\ scanned.token.at \in 0..EndOf(text) /\ EndOf(text) \in Nat
      \/ scanned.token.kind = "EOF"
  <2>1. k < Len(text) => k + 1 \in 1..Len(text)
    BY <1>0
  <2> QED
    BY <1>0, <1>2, <2>1, ScannedIs, Ends
<1> HIDE DEF scanned
<1>4. CASE ScanError(scanned)
  <2>1. /\ scanned.token.kind = "BAD" /\ error' = scanned.token.at /\ StartParser /\ pc' = "parse"
    BY <1>4 DEF ScanError, StartParser
  <2>2. PICK b : b = k + 1
    OBVIOUS
  <2>3. b \in 1..Len(text) /\ text[b].kind = "BAD" /\ error' # NoError
    BY <1>3, <2>1, <2>2 DEF NoError
  <2>4. Rejected(b)' /\ b \in 1..Len(text')
    BY <1>0, <2>1, <2>3, RejectedStarts
  <2> QED
    BY <1>0, <2>1, <2>3, <2>4 DEF AgreeInv
<1>5. CASE CountStatement(scanned)
  <2>1. CASE scanned.token.kind # "EOF"
    <3>1. pc' = "count"
      BY <1>5, <2>1 DEF CountStatement
    <3> QED
      BY <1>0, <3>1 DEF AgreeInv
  <2>2. CASE scanned.token.kind = "EOF"
    <3>1. /\ pc' = "fill" /\ flex' = ScannerInit(text) /\ stmts' = <<>>
          /\ loop' = [Counted(loop, "EOF") EXCEPT !.keyword = FALSE, !.parens = 0]
          /\ pc = "count"
      BY <1>5, <2>2 DEF CountStatement
    <3>2. loop.start = 0
      BY <3>1 DEF IInv, CountInv, Counting
    <3>3. PICK c \in LoopState : c = Counted(loop, "EOF") /\ c.start = 0
      BY <1>0, <3>2, CountedIs
    <3>4. loop' = LoopStart
      <4>1. [c EXCEPT !.keyword = FALSE, !.parens = 0] = LoopStart
        <5>1. PICK e : e = [c EXCEPT !.keyword = FALSE, !.parens = 0]
          OBVIOUS
        <5>2. e = [keyword |-> e.keyword, parens |-> e.parens, start |-> e.start]
          BY <5>1 DEF LoopState
        <5>3. e.keyword = FALSE /\ e.parens = 0 /\ e.start = 0
          BY <3>3, <5>1 DEF LoopState
        <5>4. e = [keyword |-> FALSE, parens |-> 0, start |-> 0]
          BY <5>2, <5>3, Zenon
        <5> QED
          BY <5>1, <5>4 DEF LoopStart
      <4> QED
        BY <3>1, <3>3, <4>1
    <3>5. \E j \in 0..Len(text') : \E M, C : Writing(M, C, j)'
      BY <1>0, <3>1, <3>4, WritingStarts
    <3> QED
      BY <1>0, <3>1, <3>5 DEF AgreeInv
  <2> QED
    BY <2>1, <2>2
<1>6. CASE FillStatement(scanned)
  <2>1. pc = "fill"
    BY <1>6 DEF FillStatement
  <2>2. PICK j \in 0..Len(text) : \E M, C : Writing(M, C, j)
    BY <2>1 DEF AgreeInv
  <2>3. PICK M, C : Writing(M, C, j)
    BY <2>2
  <2>4. stmts \in Seq(RawStmt)
    BY <2>1 DEF IInv, FillInv, Before, RawStmt
  <2>5. HasRead(j, flex)
    BY <2>3 DEF Writing
  <2>6. PICK kind, at : kind = scanned.token.kind /\ at = scanned.token.at
    OBVIOUS
  <2>7. /\ stmts' = WrittenAt(stmts, loop, kind, at) /\ loop' = Filled(loop, kind, at)
        /\ error' = error
        /\ kind = "EOF" => StartParser /\ pc' = "parse"
        /\ kind # "EOF" => pc' = "fill" /\ flex' = scanned.flex
    BY <1>6, <2>1, <2>6 DEF FillStatement, WrittenAt, StartParser
  <2>8. \/ /\ j < Len(text) /\ kind = text[j + 1].kind /\ at = text[j + 1].at
           /\ kind # "EOF" /\ scanned.flex = ScannerAt(Position(j + 1))
        \/ j = Len(text) /\ kind = "EOF" /\ at = EndOf(text)
    BY <1>0, <2>5, <2>6, ScannedIs DEF scanned
  <2>9. CASE kind # "EOF"
    <3>1. \E i \in 0..Len(text') : \E MM, CC : Writing(MM, CC, i)'
      BY <1>0, <2>3, <2>4, <2>7, <2>8, <2>9, WritingGoesOn
    <3> QED
      BY <1>0, <2>7, <2>9, <3>1 DEF AgreeInv
  <2>10. CASE kind = "EOF"
    <3>1. Matching(M, C)'
      BY <1>0, <2>3, <2>4, <2>7, <2>8, <2>10, MatchingStarts
    <3> QED
      BY <1>0, <2>7, <2>10, <3>1 DEF AgreeInv
  <2> QED
    BY <2>9, <2>10
<1> QED
  BY <1>1, <1>4, <1>5, <1>6

LEMMA ParserStepAgrees ==
  ASSUME IInv, AgreeInv, SplitWithParser
  PROVE  AgreeInv'
<1>1. /\ pc = "parse" /\ BaseYylex /\ GrammarStep /\ lexing \in Calling
      /\ text' = text /\ stmts' = stmts /\ error' = error /\ pc' \in {"parse", "returned"}
  BY DEF SplitWithParser, GrammarStep, BaseYylex, Calling
<1>2. /\ IsText(text) /\ Types /\ raw \in Raw /\ text \in Texts
      /\ \E S : delivered \in Seq(S)
  BY <1>1 DEF IInv, ResultInv, ParserInv, RawInv, AgreeInv, Types
<1>3. CASE error = NoError
  <2>1. PICK M, C : Matching(M, C)
    BY <1>1, <1>3 DEF AgreeInv
  <2>2. PICK k \in 0..Len(text) : UsedUp(k) /\ Agrees(raw, M[k], C[k], k)
    BY <1>1, <2>1 DEF Matching
  <2>3. TakesFrom(k)
    BY <1>1, <1>2, <2>2, BaseYylexTakes
  <2>4. /\ stmts \in Seq(RawStmt) /\ \A i \in 1..Len(stmts) : stmts[i].len > 0
        /\ Len(text) < SizeMod /\ Written(M, C)
    BY <1>1, <1>2, <1>3, <2>1, TextsFit DEF IInv, ResultInv, Before, RawStmt, Matching
  <2>5. /\ lexing' \in Calling =>
             \E j \in 0..Len(text) : UsedUp(j)' /\ Agrees(raw', M[j], C[j], j)
        /\ lexing' = "done" /\ Plain(raw') => stmts = ParserStmts'
    BY <1>1, <1>2, <2>2, <2>3, <2>4, TakesAgreeing
  <2>6. \A j : Agrees(raw', M[j], C[j], j) => Agrees(raw, M[j], C[j], j)'
    BY <1>1 DEF Agrees, Plain, StartOf, Closed
  <2>7. Written(M, C)'
    BY <1>1, <2>4 DEF Written, Trail, LoopState
  <2>8. Matching(M, C)'
    BY <1>1, <2>5, <2>6, <2>7 DEF Matching
  <2> QED
    BY <1>1, <1>2, <1>3, <2>8 DEF AgreeInv
<1>4. CASE error # NoError
  <2>1. PICK b \in 1..Len(text) : Rejected(b)
    BY <1>1, <1>4 DEF AgreeInv
  <2>2. PICK k \in 0..b - 1 : UsedUp(k)
    BY <1>1, <2>1 DEF Rejected
  <2>3. TakesFrom(k)
    BY <1>1, <1>2, <2>2, BaseYylexTakes
  <2>4. Rejected(b)'
    BY <1>1, <1>2, <2>1, <2>3, RejectedKept DEF Rejected
  <2> QED
    BY <1>1, <1>2, <1>4, <2>4 DEF AgreeInv
<1> QED
  BY <1>3, <1>4

LEMMA StutterAgrees ==
  ASSUME AgreeInv, UNCHANGED vars
  PROVE  AgreeInv'
<1>1. UNCHANGED <<text, flex, la, delivered, lexing, pc, loop, stmts, raw, error>>
  BY DEF vars
<1>2. \A k : UsedUp(k) => UsedUp(k)'
  BY <1>1, UsedUpKept
<1>3. \A k, M, C : Writing(M, C, k) => Writing(M, C, k)'
  BY <1>1 DEF Writing, HasRead, Flex, Position, Trail, LoopState
<1>4. \A M, C : Written(M, C) => Written(M, C)'
  <2> TAKE M, C
  <2>1. Trail(stmts, M, C, Len(text)) => Trail(stmts, M, C, Len(text))'
    BY <1>1 DEF Trail, LoopState
  <2> QED
    BY <1>1, <2>1 DEF Written
<1>5. \A M, C, k : Agrees(raw, M[k], C[k], k) => Agrees(raw, M[k], C[k], k)'
  BY <1>1 DEF Agrees, Plain
<1>6. ParserStmts' = ParserStmts
  BY <1>1 DEF ParserStmts
<1>7. \A M, C : Matching(M, C) => Matching(M, C)'
  <2> TAKE M, C
  <2> HIDE DEF Calling
  <2> QED
    BY <1>1, <1>2, <1>4, <1>5, <1>6 DEF Matching
<1>8. \A b : Rejected(b) => Rejected(b)'
  BY <1>1, <1>2 DEF Rejected
<1> QED
  BY <1>1, <1>3, <1>7, <1>8 DEF AgreeInv

LEMMA AgreeInvariant == Spec => []AgreeInv
<1>1. IInv /\ AgreeInv /\ [Next]_vars => AgreeInv'
  BY SplitStepAgrees, ParserStepAgrees, StutterAgrees DEF Next, Returned
<1> QED
  BY Invariant, AgreeInvInit, <1>1, PTL DEF Spec

LEMMA InvariantImpliesSplitsAgree == AgreeInv => SplitsAgree
BY DEF AgreeInv, SplitsAgree, Parses, Plain, Matching, Rejected

-----------------------------------------------------------------------------
\* pg_query_split_with_scanner writes as many statements as its first loop has
\* counted and allocated, for every text: both loops go through the same
\* states, because they read the same tokens and start from the same values.
\* The type invariant of both splits is part of it.
THEOREM PassesStayInStep == Spec => []PassesAgree
BY Invariant, InvariantImpliesAgreement, PTL

\* The statements that pg_query_split_with_scanner returns are in order, apart,
\* inside the text and never empty, for texts of every length and whatever the
\* wrap-around of open_parens does.
THEOREM StatementsStayDisjoint == Spec => []StatementsAreDisjoint
BY Invariant, InvariantImpliesDisjoint, PTL

\* Whatever base_yylex has looked ahead, put back or joined, the scan buffer
\* quotes exactly the token that the grammar or the scanner rejects.
THEOREM RejectedTokensAreQuoted == Spec => []ErrorsQuoteTheToken
BY Invariant, InvariantImpliesQuotes, PTL

\* The grammar receives the words of the text from the end of the last token
\* on, whatever it has looked at before, for texts of every length.
THEOREM WordsReachTheGrammar == Spec => []GrammarReceivesTheWords
BY Invariant, ReceivedInvariant, InvariantImpliesReceived, PTL

\* The scanner finds the statements that the parser finds, in every text that
\* is accepted and has no BEGIN ATOMIC body: empty statements, comments,
\* semicolons in parentheses, joined tokens and mode tokens included.
THEOREM BothSplitsAgree == Spec => []SplitsAgree
BY AgreeInvariant, InvariantImpliesSplitsAgree, PTL
=============================================================================
