----------------------------- MODULE MCJsonList -----------------------------
(***************************************************************************)
(* An instance of JsonList for TLC: a heap of a few items.                  *)
(***************************************************************************)
EXTENDS JsonList

CONSTANTS i1, i2, i3, i4, i5, i6, i7

MCItems == {i1, i2, i3, i4, i5, i6, i7}

\* malloc does not prefer an address.
MCSymmetry == Permutations(MCItems)
=============================================================================
