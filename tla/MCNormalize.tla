---------------------------- MODULE MCNormalize ----------------------------
(***************************************************************************)
(* Queries for Normalize: SELECTs of one or two targets, up to two GROUP BY  *)
(* items, and other clauses before and after them; UPDATEs.                 *)
(***************************************************************************)
EXTENDS Normalize

Items == {<<"5">>, <<"-5", "a">>, <<"$1", "a">>, <<"$1", "5">>,
          <<"(select_5)", "5">>, <<"f(5_a)">>, <<"f(a)">>, <<"5::t(5)", "-5">>}

Named(name, items) ==
  [k \in 1..Len(items) |-> [name |-> name, operands |-> items[k]]]

\* What comes before the targets and after GROUP BY.
Around ==
  {<<Named("with", <<<<"(select_5)">>>>), Named("sort", <<<<"5">>>>)>>,
   <<Named("with", <<<<"$2">>>>), Named("sort", <<<<"'x'">>>>)>>,
   <<<<>>, Named("limit", <<<<"-(5)">>>>)>>,
   <<<<>>, Named("sort", <<<<"a">>>>) \o Named("limit", <<<<"row">>>>)>>,
   <<Named("with", <<<<"u'x'_uescape", "5">>>>), Named("sort", <<<<"5::t(5)">>>>)>>,
   <<<<>>, Named("limit", <<<<"-comment_5">>>>)>>}

Lists(n) == UNION {[1..k -> Items] : k \in 0..n}

Select(before, targets_, groups, after) ==
  before \o Named("target", targets_) \o Named("where", <<<<"a", "5">>>>)
    \o Named("group", groups) \o after

\* WITH ..., UPDATE ... SET (a, b) = ... WHERE ...
Update(value, where) ==
  Named("with", <<<<"(select_5)">>>>) \o Named("set", <<value>>) \o Named("where", <<where>>)

MCQueries ==
  {Select(<<>>, t, g, <<>>) : t \in Lists(2) \ {<<>>}, g \in Lists(2)}
    \cup {Select(a[1], t, g, a[2]) :
            a \in Around, t \in Lists(1) \ {<<>>}, g \in Lists(1)}
    \cup {Update(v, w) : v, w \in Items}
=============================================================================
