----------------------------- MODULE MCProfile ------------------------------
(***************************************************************************)
(* Profile with a few measurements.  The addresses of the entries do not   *)
(* matter, nor does what is in one that has ended but its name: Shape      *)
(* writes the lists down.                                                  *)
(***************************************************************************)
EXTENDS Profile

UnderWay == LET c == Chain(lastI) IN [i \in DOMAIN c |-> [entry[c[i]] EXCEPT !.next = c[i] = first]]
Ended == LET c == Chain(first) IN [i \in DOMAIN c |-> entry[c[i]].func]

Shape == <<maxL, curL, root, UnderWay, IF lastE = NULL THEN Dangling ELSE Ended, lastE = NULL,
           Cardinality(heap), st, now, spent, lost>>
=============================================================================
