----------------------------- MODULE MCMergeSort -----------------------------
(* mergesort checked on every array of up to MaxLen records: the harness  *)
(* draws an input, then runs mergesort once.  With MallocMayFail the      *)
(* merge_indices allocation of at most one shard of one pass fails.       *)
EXTENDS MergeSort, FiniteSets

CONSTANTS MaxLen, Elems, MallocMayFail

VARIABLES n, input, out, ret, done

vars == <<n, input, out, ret, done>>

MCElems == [key : 1 .. 2, orp_id : 0 .. 1]

\* The (run length, shard) pairs of the merge passes of an n-record sort.
ShardsOf(len) ==
    {<<r, k>> \in {BUF ^ e : e \in 1 .. MaxLen} \X (0 .. MaxLen) :
        r < len /\ k < CeilDiv(len, r * BUF)}

Failures == IF MallocMayFail THEN {{}} \cup {{s} : s \in ShardsOf(n)} ELSE {{}}

Init ==
    /\ n \in 0 .. MaxLen
    /\ input \in [Idx(n) -> Elems]
    /\ out = input
    /\ ret = 0
    /\ done = FALSE

\* nonoblivious_sort calls mergesort(buf, arr, ...): the output buffer
\* holds stale records before the sort.
RunMergeSort ==
    /\ ~done
    /\ \E fail \in Failures :
         LET r == MergeSortRun(input, out, n, fail)
         IN /\ out' = r.out
            /\ ret' = r.ret
    /\ done' = TRUE
    /\ UNCHANGED <<n, input>>

Returned == done /\ UNCHANGED vars

Spec == Init /\ [][RunMergeSort \/ Returned]_vars

Occurrences(e, a) == Cardinality({i \in DOMAIN a : a[i] = e})

(* When mergesort returns 0, its output buffer holds the input records in *)
(* non-decreasing (key, orp_id) order, each as often as in the input: the *)
(* run arithmetic of the passes (run_start, num_runs, the cursor bounds)  *)
(* covers every record exactly once, for lengths that are not multiples   *)
(* of the run length too, and a failed merge pass is reported, never      *)
(* returned as success (nonoblivious_sort then sends OUT as sorted).      *)
MergeSortSorts ==
    (done /\ ret = 0) =>
      /\ \A i \in 0 .. n - 2 : Cmp(out[i], out[i + 1]) <= 0
      /\ \A e \in Elems : Occurrences(e, out) = Occurrences(e, input)
=============================================================================
