--------------------------- MODULE MCSyntaxValid ---------------------------
(***************************************************************************)
(* Instances of SyntaxValid for TLC: objects of at most three entries.     *)
(***************************************************************************)
EXTENDS SyntaxValid

CONSTANTS k1, k2, k3, good, bad1, bad2

MCKeys == {k1, k2, k3}
MCSqls == {good, bad1, bad2}
MCBroken == {bad1, bad2}

\* The entries of a JSON object have distinct keys.
MCDocuments ==
  {d \in UNION {[1..n -> Entry] : n \in 0..2}
         \cup {<<a, b, c>> : a, b, c \in [key : MCKeys, kind : {"object", "other"},
                                         sql : {good, bad1}]} :
     \A i, j \in 1..Len(d) : d[i].key = d[j].key => i = j}

\* What the pipeline runs the program on: files of one kind of entry.
MCSectionFiles == {d \in MCDocuments : \A i \in 1..Len(d) : d[i].kind = "object"}
============================================================================
