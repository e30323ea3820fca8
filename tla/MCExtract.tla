---------------------------- MODULE MCExtract ----------------------------
(***************************************************************************)
(* Instances of Extract for TLC.  Key k1b is k1 with blanks around it.     *)
(***************************************************************************)
EXTENDS Extract, TLC

CONSTANTS k1, k1b, k2, k3, m1, m2, m3

MCKeys == {k1, k1b, k2, k3}
MCMsgIds == {m1, m2, m3}
MCStrip == (k1 :> m1) @@ (k1b :> m1) @@ (k2 :> m2) @@ (k3 :> m3)

\* The message file grows at its front, or holds one id under two keys.
MCInputs == {<<k1, k2, k3>>, <<k2, k3>>, <<k1, k2, k1b>>}
==========================================================================
