-------------------------------- MODULE Places --------------------------------
(***************************************************************************)
(* Rows of places: what the containers of plg write into their buffers,    *)
(* and where.                                                              *)
(***************************************************************************)
EXTENDS Integers, Sequences

Lesser(m, n) == IF m < n THEN m ELSE n
Greater(m, n) == IF m < n THEN n ELSE m
Times(n, x) == [i \in 1..n |-> x]

\* What c holds with s in the places after the first at.
Put(c, at, s) == [i \in DOMAIN c |-> IF i - at \in DOMAIN s THEN s[i - at] ELSE c[i]]

=============================================================================
