-------------------------- MODULE MCMessageExchange --------------------------
(* MessageExchange on a few values: no text, a letter, a text of two words *)
(* with a NUL between them; numbers of no, one, three and ten groups.      *)
EXTENDS MessageExchange

SomeTexts   == {<<>>, <<97>>, <<98, 32, 0, 99>>}
SomeNumbers == {0, 16384}
SomeSlides  == {-1, 0, 1}

(* Two slides of one md5; in one of them is a letter and a space.          *)
TwoSlides ==
    [slide \in {<<<<97>>, 0>>, <<<<97>>, 16384>>} |->
        IF slide[2] = 0 THEN <<>> ELSE <<98, 32>>]

(* One file with a plain md5, and one whose md5 names no folder.           *)
TwoFiles == [id \in {<<97>>, <<98, 32>>} |-> IF id = <<97>> THEN id ELSE <<>>]
=============================================================================
