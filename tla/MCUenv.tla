------------------------------- MODULE MCUenv --------------------------------
(* Uenv with sizes from below the minimum to the maximum, every text of up  *)
(* to five characters, and lines longer than the buffer.                    *)
EXTENDS Uenv

T(n, size, part) == [n |-> n, size |-> size, part |-> part]
MCTitle == {T(0, 0, 0), T(2, 5, 0), T(2, 8, 2), T(1, 8, 0), T(2, 8, 1), T(2, 16, 1)}
           \cup {T(2, size, 0) : size \in {2, 4, 6, 8, 16, 24}}
MCBody == UNION {[1 .. n -> {"a", "ESC", "NL"}] : n \in 0 .. 5}
=============================================================================
