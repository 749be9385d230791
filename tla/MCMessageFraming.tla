-------------------------- MODULE MCMessageFraming --------------------------
(* MessageFraming with ints of two bytes of five values: a highest byte of *)
(* 3 or 4 makes an int negative.                                           *)
EXTENDS MessageFraming

(* One whose body is asked for in one piece, and one whose body takes two  *)
(* reads; the second is NUL-free like the first.                           *)
Short == <<1, 1, 1, 1, 2, 2>>
Long  == <<2, 1, 4, 1, 2, 3, 4, 3, 1>>

(* A NUL in the body; Register, with NULs in its header and no body; one   *)
(* whose command is negative, without a NUL.                               *)
NulInBody == <<3, 1, 1, 1, 0, 2>>
Register  == <<1, 0, 4, 0>>
Negative  == <<1, 4, 1, 1, 2, 2>>

AllMessages   == {Short, Long, NulInBody, Register, Negative}
PlainMessages == {Short, Long}
=============================================================================
