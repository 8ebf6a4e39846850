----------------------------- MODULE MCFraming -----------------------------
EXTENDS Framing

Plain(n) == [i \in 1..n |-> IF i = n THEN ">" ELSE "x"]

(* Lengths around the size of a buffer, with and without the end mark, and *)
(* contents that look like parts of a frame.                               *)
SmallMessages ==
    {Plain(n) : n \in {3, 6, 7, 12, 13}}
    \cup {<<"LF", "#", "#", "LF", ">">>, <<"]", "]", "x", ">", "]", ">">>}

SmallHello == Plain(3)
=============================================================================
