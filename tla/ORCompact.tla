------------------------------ MODULE ORCompact ------------------------------
(***************************************************************************)
(* The oblivious compaction of src/enclave/orshuffle.c (compact,           *)
(* swap_range, swap_local_range) as pure operators.  Arrays are functions *)
(* on 0 .. n-1, as in the C code.                                          *)
(***************************************************************************)
EXTENDS Elem

Sub(a, lo, n) == [i \in Idx(n) |-> a[lo + i]]

Cat(a, b, n) == [i \in Idx(2 * n) |-> IF i < n THEN a[i] ELSE b[i - n]]

B2N(b) == IF b THEN 1 ELSE 0

\* swap_local_range (lines 50-66): o_memswap of arr[i] and arr[i + n/2]
\* for every i < n/2, under a condition computed from OFFSET and the number
\* of marked elements in the left half.
SwapLocalRange(a, n, offset, lmc) ==
    LET h == n \div 2
        s == ((offset % h) + lmc >= h) # (offset >= h)
        Cond(j) == s # (j >= (offset + lmc) % h)
    IN [i \in Idx(n) |->
          IF i < h THEN (IF Cond(i) THEN a[i + h] ELSE a[i])
                   ELSE (IF Cond(i - h) THEN a[i - h] ELSE a[i])]

\* compact (lines 80-129), with swap_range (68-78), which only forwards to
\* swap_local_range.  MARKED and PREFIX are the marker and prefix-sum arrays
\* of the same slice.
RECURSIVE Compact(_, _, _, _, _)

\* Mutant: left_marked_count taken as a plain difference of prefix sums,
\* missing marked[0].
CompactDropFirstMark(a, marked, prefix, n, offset) ==
    IF n < 2 THEN a
    ELSE IF n = 2
         THEN IF (~marked[0] /\ marked[1]) # (offset # 0) THEN Swap(a, 0, 1) ELSE a
    ELSE LET h   == n \div 2
             lmc == prefix[h - 1] - prefix[0]
             l   == Compact(Sub(a, 0, h), Sub(marked, 0, h), Sub(prefix, 0, h),
                            h, offset % h)
             r   == Compact(Sub(a, h, h), Sub(marked, h, h), Sub(prefix, h, h),
                            h, (offset + lmc) % h)
         IN SwapLocalRange(Cat(l, r, h), n, offset, lmc)

Compact(a, marked, prefix, n, offset) ==
    IF n < 2 THEN a
    ELSE IF n = 2
         THEN IF (~marked[0] /\ marked[1]) # (offset # 0) THEN Swap(a, 0, 1) ELSE a
    ELSE LET h   == n \div 2
             lmc == prefix[h - 1] - prefix[0] + B2N(marked[0])
             l   == Compact(Sub(a, 0, h), Sub(marked, 0, h), Sub(prefix, 0, h),
                            h, offset % h)
             r   == Compact(Sub(a, h, h), Sub(marked, h, h), Sub(prefix, h, h),
                            h, (offset + lmc) % h)
         IN SwapLocalRange(Cat(l, r, h), n, offset, lmc)

=============================================================================
