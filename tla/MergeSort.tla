------------------------------ MODULE MergeSort ------------------------------
(***************************************************************************)
(* The local external merge sort of src/enclave/nonoblivious.c             *)
(* (mergesort_first_pass, mergesort_pass, mergesort; lines 31-198) as      *)
(* operators over arrays.  BUF is BUF_SIZE (1024 in the code): both the    *)
(* length of the runs of the first pass and the fan-in of every merge.     *)
(***************************************************************************)
EXTENDS Elem

CONSTANT BUF

Min2(a, b) == IF a < b THEN a ELSE b

CeilDiv(a, b) == (a + b - 1) \div b

\* qsort (libc) with mergesort_comparator: any comparison sort.  Records
\* that compare equal are identical here, so its output is determined.
RECURSIVE InsertSorted(_, _)
InsertSorted(e, s) ==
    IF s = <<>> THEN <<e>>
    ELSE IF Cmp(e, Head(s)) <= 0 THEN <<e>> \o s
    ELSE <<Head(s)>> \o InsertSorted(e, Tail(s))

RECURSIVE SortSeq(_)
SortSeq(s) == IF s = <<>> THEN <<>> ELSE InsertSorted(Head(s), SortSeq(Tail(s)))

\* mergesort_first_pass (37-46): sort a[run_idx * BUF ..] of MIN(length -
\* run_start, BUF) records in place.
FirstPassShard(a, n, runIdx) ==
    LET start == runIdx * BUF
        len   == Min2(n - start, BUF)
        s     == SortSeq([i \in 1 .. len |-> a[start + i - 1]])
    IN [i \in DOMAIN a |-> IF start <= i /\ i < start + len THEN s[i - start + 1]
                                                           ELSE a[i]]

\* Mutant: a cursor may reach RUN, reading the head of the next run.
MergeShardOverrun(in, out, n, run, runIdx) ==
    LET start == runIdx * run * BUF
        numRuns == Min2(CeilDiv(n - start, run), BUF)
        Live(idx, j) == idx[j] <= run /\ start + j * run + idx[j] < n
        Head0(idx, j) == in[start + j * run + idx[j]]
        RECURSIVE Loop(_, _, _)
        Loop(o, idx, outIdx) ==
            LET live == {j \in Idx(numRuns) : Live(idx, j)}
            IN IF live = {} THEN o
               ELSE LET low == CHOOSE j \in live :
                                 /\ \A k \in live : Cmp(Head0(idx, k), Head0(idx, j)) >= 0
                                 /\ \A k \in live : k < j => Cmp(Head0(idx, k), Head0(idx, j)) > 0
                    IN Loop([o EXCEPT ![start + outIdx] = Head0(idx, low)],
                            [idx EXCEPT ![low] = @ + 1], outIdx + 1)
    IN Loop(out, [j \in Idx(numRuns) |-> 0], 0)

(* mergesort_pass (60-127) for one shard: merge up to BUF runs of RUN      *)
(* records starting at run_start into out.  Each output step scans the     *)
(* runs in order for the smallest head (strict <, so the first run wins a *)
(* tie) among runs whose cursor is below RUN and inside the array.        *)
MergeShard(in, out, n, run, runIdx) ==
    LET start == runIdx * run * BUF
        numRuns == Min2(CeilDiv(n - start, run), BUF)
        Live(idx, j) == idx[j] < run /\ start + j * run + idx[j] < n
        Head0(idx, j) == in[start + j * run + idx[j]]
        RECURSIVE Loop(_, _, _)
        Loop(o, idx, outIdx) ==
            LET live == {j \in Idx(numRuns) : Live(idx, j)}
            IN IF live = {} THEN o
               ELSE LET low == CHOOSE j \in live :
                                 /\ \A k \in live : Cmp(Head0(idx, k), Head0(idx, j)) >= 0
                                 /\ \A k \in live : k < j => Cmp(Head0(idx, k), Head0(idx, j)) > 0
                    IN Loop([o EXCEPT ![start + outIdx] = Head0(idx, low)],
                            [idx EXCEPT ![low] = @ + 1], outIdx + 1)
    IN Loop(out, [j \in Idx(numRuns) |-> 0], 0)

(* The error report of mergesort_pass (lines 122-125):                     *)
(* __atomic_compare_exchange_n(&args->ret, &ret, 0, ...) stores 0 into    *)
(* args->ret if it equals the shard's error, and otherwise leaves it.      *)
ShardError(argsRet, err) == IF argsRet = err THEN 0 ELSE argsRet

\* errno after a failed malloc
ENOMEM == 12

\* The first-pass iter-task: every shard 0 .. CEIL_DIV(n, BUF) - 1.
RECURSIVE FirstPassShards(_, _, _)
FirstPassShards(a, n, count) ==
    IF count = 0 THEN a ELSE FirstPassShard(FirstPassShards(a, n, count - 1), n, count - 1)

FirstPass(a, n) == FirstPassShards(a, n, CeilDiv(n, BUF))

(* One merge pass: shards 0 .. CEIL_DIV(n, run * BUF) - 1, disjoint       *)
(* ranges.  A shard in FAIL is one whose malloc of merge_indices fails     *)
(* (lines 70-75): it writes nothing and reports errno through the CAS of   *)
(* lines 122-125.  Result: [out, ret], ret being args.ret after the pass.  *)
RECURSIVE MergeShards(_, _, _, _, _, _)
MergeShards(in, out, n, run, count, fail) ==
    IF count = 0 THEN [out |-> out, ret |-> 0]
    ELSE LET r == MergeShards(in, out, n, run, count - 1, fail)
         IN IF <<run, count - 1>> \in fail
            THEN [out |-> r.out, ret |-> ShardError(r.ret, ENOMEM)]
            ELSE [out |-> MergeShard(in, r.out, n, run, count - 1), ret |-> r.ret]

MergePass(in, out, n, run, fail) ==
    MergeShards(in, out, n, run, CeilDiv(n, run * BUF), fail)

(* mergesort (130-198): sort runs, merge with run lengths BUF, BUF^2, ...  *)
(* while shorter than n, swapping the roles of the two buffers after each  *)
(* pass, and finally copy into OUT if the last pass wrote the other one.   *)
(* A pass whose args.ret is nonzero ends the sort with that error (lines  *)
(* 177-182).  The result is [ret, out], out being the content of OUT.     *)
MergeSortRun(a, out, n, fail) ==
    LET RECURSIVE Passes(_, _, _, _)
        \* inOut: whether INPUT is the OUT buffer
        Passes(input, output, run, inOut) ==
            IF run < n
            THEN LET p == MergePass(input, output, n, run, fail)
                 IN IF p.ret /= 0
                    THEN [ret |-> p.ret, out |-> IF inOut THEN input ELSE p.out]
                    ELSE Passes(p.out, input, run * BUF, ~inOut)
            ELSE [ret |-> 0, out |-> input]
    IN Passes(FirstPass(a, n), out, BUF, FALSE)

\* mergesort when every allocation succeeds: the content of OUT.
MergeSortArr(a, out, n) == MergeSortRun(a, out, n, {}).out

=============================================================================
