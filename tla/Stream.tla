------------------------------- MODULE Stream -------------------------------
(***************************************************************************)
(* What the FIFO of cdrecord promises to the burning process: the bytes it *)
(* hands out are the bytes of the input, in order, each of them once.      *)
(* Anything may end the transfer early; nothing may reorder, repeat, skip  *)
(* or change a byte.                                                       *)
(***************************************************************************)
EXTENDS Naturals, Sequences

VARIABLES image,    \* the input, chosen once
          burned    \* what has been handed to the drive

Init == burned = <<>>

Transfer == \E n \in Len(burned) + 1 .. Len(image) :
                /\ burned' = SubSeq(image, 1, n)
                /\ UNCHANGED image

Spec == Init /\ [][Transfer]_<<image, burned>>
=============================================================================
