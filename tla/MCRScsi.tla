------------------------------ MODULE MCRScsi ------------------------------
(***************************************************************************)
(* Programs of up to six calls.  A buffer of three and a connection of four*)
(* tokens split lines and bytes everywhere; the server's sense data may be *)
(* one unit longer than the client keeps.                                  *)
(***************************************************************************)
EXTENDS RScsi

Arg1(op, n) == [op |-> op, n |-> n, cdb |-> 0, out |-> 0, in |-> 0]
Cmd(cdb, out, in) == [op |-> "S", n |-> 0, cdb |-> cdb, out |-> out, in |-> in]

Simple(op) == Arg1(op, 0)
O == Simple("O")
C == Simple("C")

SmallScripts == {
    <<O, Arg1("M", 2), Cmd(1, 2, 0), Cmd(1, 0, 2), C>>,       \* write and read
    <<O, Arg1("M", 2), Arg1("M", 3), Cmd(1, 2, 0), C>>,       \* a larger buffer
    <<Cmd(1, 1, 0), O, Cmd(2, 1, 0), Cmd(1, 0, 0)>>,          \* refused ones
    <<O, Arg1("M", 1), Simple("F"), Simple("V"), C>>,
    <<Simple("V"), O, Simple("T"), Simple("B"), C>>,
    <<Simple("D"), Simple("N"), O, Simple("I"), Simple("A"), Simple("R")>>}
=============================================================================
