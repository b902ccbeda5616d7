------------------------------- MODULE Search -------------------------------
(***************************************************************************)
(* tl_bsearch of tl_sort.c: the binary search that the B-tree uses in its  *)
(* nodes, with b_lowerbound, over the first n elements of an array.        *)
(***************************************************************************)
EXTENDS Integers

\* l and h enclose the answer: what is at l or below is less than the key, what
\* is at h or above is not.
bsearch(keyAt, n, k) ==
  LET half[l \in -1 .. n, h \in -1 .. n] ==
        LET m == (l + h) \div 2
        IN  IF l + 1 = h THEN h ELSE IF keyAt[m] >= k THEN half[l, m] ELSE half[m, h]
  IN  half[-1, n]
=============================================================================
