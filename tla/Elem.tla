-------------------------------- MODULE Elem --------------------------------
(* Records and their order (src/enclave/nonoblivious.c 20-29, 200-209).    *)
(* An elem_t is abstracted to its two sort fields; the payload plays no    *)
(* part in any decision of the code.                                       *)
EXTENDS Integers, Sequences

Sign(x) == IF x > 0 THEN 1 ELSE IF x < 0 THEN -1 ELSE 0

\* mergesort_comparator / elem_sample_comparator: both fields are always
\* compared and the key difference weighs twice, so the sign is that of
\* the lexicographic order on (key, orp_id).
Cmp(a, b) == 2 * Sign(a.key - b.key) + Sign(a.orp_id - b.orp_id)

\* Arrays are functions on 0 .. n-1, as in the C code.
Idx(n) == 0 .. n - 1

\* the exchange of two records of an array (memcpy through a temporary,
\* or o_memswap with a true condition)
Swap(a, i, j) == [a EXCEPT ![i] = a[j], ![j] = a[i]]

SeqToArr(s) == [i \in Idx(Len(s)) |-> s[i + 1]]

ArrToSeq(a, n) == [i \in 1 .. n |-> a[i - 1]]
=============================================================================
