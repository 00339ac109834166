------------------------------- MODULE MCRing -------------------------------
(***************************************************************************)
(* Small instances of RingBuff: rings of one or two segments and           *)
(* recordings of up to four.                                               *)
(***************************************************************************)
EXTENDS RingBuff

SmallTotals == {1, 2, 4}
=============================================================================
