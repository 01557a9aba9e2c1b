------------------------------ MODULE ORShuffle ------------------------------
(***************************************************************************)
(* orshuffle_sort of src/enclave/orshuffle.c (lines 238-328) and the      *)
(* shuffle it calls (lines 131-198) as a sequential state machine: the     *)
(* recursion of shuffle is an explicit stack of calls, its coins and every *)
(* clock, malloc and entropy outcome are nondeterministic.  Compaction     *)
(* comes from ORCompact; the nonoblivious_sort it ends with is the         *)
(* NonobliviousSort module, here only its outcome.                         *)
(***************************************************************************)
EXTENDS ORCompact, Sequences, FiniteSets, Bags

CONSTANT L      \* length of the array given to shuffle (a power of two)
CONSTANT NumThreads  \* num_threads of orshuffle_sort

(* One coin of the marking loop (lines 165-173).  X stands for             *)
(* ((uint64_t) coins[j] * total_left) >> 32, which ranges over             *)
(* 0 .. total_left - 1.  num_to_mark - marked_so_far is a size_t: once     *)
(* marked_so_far exceeds num_to_mark it wraps to at least 2^64 - n, which  *)
(* no X reaches, so the comparison is then false.                          *)
CoinMarks(x, numToMark, markedSoFar) ==
    IF markedSoFar <= numToMark THEN x >= numToMark - markedSoFar ELSE FALSE

-----------------------------------------------------------------------------
VARIABLES
    arr,        \* the array being shuffled; elements are their input positions
    marked,     \* the marked[] scratch array (orshuffle_sort, line 248)
    prefix,     \* marked_prefix_sums[] (line 254)
    calls,      \* pending recursive calls of shuffle: [base, len], next first
    pc,
    call,       \* the call whose marking loop is running
    mi,         \* loop index i + j of the marking loop
    soFar,      \* marked_so_far
    totalLeft,  \* total_left
    ptr,        \* ptr[b]: what the pointer to scratch array b of orshuffle_sort holds
    ret,        \* orshuffle_sort's ret
    freedTwice, \* some free() was given a pointer already freed
    orpId       \* orpId[j]: orp_id of the record at position j of arr

shVars == <<arr, marked, prefix, calls, pc, call, mi, soFar, totalLeft,
            ptr, ret, freedTwice, orpId>>

\* the two scratch arrays of orshuffle_sort: marked and marked_prefix_sums
Scratch == {"marked", "prefix"}

(* A pointer is "null", points to a "live" allocation, or is "dangling"   *)
(* (freed, not yet reset).  free(p) releases a live buffer, ignores NULL,  *)
(* and on a dangling pointer frees the same memory twice.                 *)
Free(p, b) == [p EXCEPT ![b] = IF @ = "live" THEN "dangling" ELSE @]

ShInit ==
    /\ arr = [i \in Idx(L) |-> i]
    /\ marked = [i \in Idx(L) |-> FALSE]
    /\ prefix = [i \in Idx(L) |-> 0]
    /\ calls = <<[base |-> 0, len |-> L]>>
    /\ pc = "start"
    /\ ptr = [b \in Scratch |-> "null"]
    /\ ret = "ok"
    /\ freedTwice = FALSE
    /\ orpId = [j \in Idx(L) |-> 0]
    /\ call = [base |-> 0, len |-> L]
    /\ mi = 0
    /\ soFar = 0
    /\ totalLeft = 0

\* Lines 135-148: lengths below 2 return; length 2 swaps on one random bit.
ShuffleBase ==
    /\ pc = "call"
    /\ calls /= <<>>
    /\ LET c == Head(calls) IN
       /\ c.len <= 2
       /\ \E bit \in BOOLEAN :
            arr' = IF c.len = 2 /\ bit THEN Swap(arr, c.base, c.base + 1) ELSE arr
    /\ calls' = Tail(calls)
    /\ UNCHANGED <<marked, prefix, pc, call, mi, soFar, totalLeft, ptr, ret, freedTwice, orpId>>

\* Lines 150-155: a longer call starts marking half of its slice.
ShuffleEnter ==
    /\ pc = "call"
    /\ calls /= <<>>
    /\ Head(calls).len > 2
    /\ call' = Head(calls)
    /\ calls' = Tail(calls)
    /\ pc' = "mark"
    /\ mi' = 0
    /\ soFar' = 0
    /\ totalLeft' = Head(calls).len
    /\ UNCHANGED <<arr, marked, prefix, ptr, ret, freedTwice, orpId>>

\* Lines 156-174: one element of the marking loop.
MarkCoin ==
    /\ pc = "mark"
    /\ mi < call.len
    /\ \E x \in 0 .. totalLeft - 1 :
         LET cur == CoinMarks(x, call.len \div 2, soFar) IN
         /\ marked' = [marked EXCEPT ![call.base + mi] = cur]
         /\ prefix' = [prefix EXCEPT ![call.base + mi] = soFar + B2N(cur)]
         /\ soFar' = soFar + B2N(cur)
    /\ totalLeft' = totalLeft - 1
    /\ mi' = mi + 1
    /\ UNCHANGED <<arr, calls, pc, call, ptr, ret, freedTwice, orpId>>

\* Mutant: the second recursive call starts past the slice.
CompactAndRecurseWrongHalf ==
    /\ pc = "mark"
    /\ mi = call.len
    /\ LET b == call.base
           n == call.len
           c == Compact(Sub(arr, b, n), Sub(marked, b, n), Sub(prefix, b, n), n, 0)
       IN /\ arr' = [i \in Idx(L) |-> IF b <= i /\ i < b + n THEN c[i - b] ELSE arr[i]]
          /\ calls' = <<[base |-> b, len |-> n \div 2],
                        [base |-> b + n, len |-> n \div 2]>> \o calls
    /\ pc' = "call"
    /\ UNCHANGED <<marked, prefix, call, mi, soFar, totalLeft, ptr, ret, freedTwice, orpId>>

\* Lines 176-192: compact the slice with offset 0, then shuffle its halves.
CompactAndRecurse ==
    /\ pc = "mark"
    /\ mi = call.len
    /\ LET b == call.base
           n == call.len
           c == Compact(Sub(arr, b, n), Sub(marked, b, n), Sub(prefix, b, n), n, 0)
       IN /\ arr' = [i \in Idx(L) |-> IF b <= i /\ i < b + n THEN c[i - b] ELSE arr[i]]
          /\ calls' = <<[base |-> b, len |-> n \div 2],
                        [base |-> b + n \div 2, len |-> n \div 2]>> \o calls
    /\ pc' = "call"
    /\ UNCHANGED <<marked, prefix, call, mi, soFar, totalLeft, ptr, ret, freedTwice, orpId>>

(* Lines 142-145 and 159-163: rand_bit of a length-2 call, or the        *)
(* rand_read of the marking loop's coins (one read, MARK_COINS = 2048      *)
(* exceeding any slice here), fails; every pending call returns the error. *)
EntropyFails ==
    /\ \/ pc = "call" /\ calls /= <<>> /\ Head(calls).len = 2
       \/ pc = "mark" /\ mi = 0
    /\ pc' = "failed"
    /\ calls' = <<>>
    /\ UNCHANGED <<arr, marked, prefix, call, mi, soFar, totalLeft, ptr, ret, freedTwice, orpId>>

-----------------------------------------------------------------------------
(* Lines 240-258: clock_gettime, then the mallocs of marked and           *)
(* marked_prefix_sums.  A failure of the clock or of the first malloc      *)
(* returns at once; a failure of the second frees marked and returns.      *)
SortAlloc ==
    /\ pc = "start"
    /\ \/ /\ pc' = "returned"
          /\ ret' = "err"
          /\ UNCHANGED ptr
       \/ /\ pc' = "returned"
          /\ ret' = "err"
          /\ ptr' = [ptr EXCEPT !["marked"] = "dangling"]
       \/ /\ pc' = "call"
          /\ ptr' = [b \in Scratch |-> "live"]
          /\ UNCHANGED ret
    /\ UNCHANGED <<arr, marked, prefix, calls, call, mi, soFar, totalLeft, freedTwice, orpId>>

\* Mutant: the scratch arrays are freed but the pointers not reset to NULL.
ShuffleDoneKeepPtr ==
    /\ pc = "call"
    /\ calls = <<>>
    /\ ptr' = Free(Free(ptr, "marked"), "prefix")
    /\ pc' = "assign"
    /\ UNCHANGED <<arr, marked, prefix, calls, call, mi, soFar, totalLeft, ret, freedTwice, orpId>>

\* Lines 261-271: shuffle returned 0; both scratch arrays are freed and set to NULL.
ShuffleDone ==
    /\ pc = "call"
    /\ calls = <<>>
    /\ ptr' = [b \in Scratch |-> "null"]
    /\ pc' = "assign"
    /\ UNCHANGED <<arr, marked, prefix, calls, call, mi, soFar, totalLeft, ret, freedTwice, orpId>>

\* Lines 262-265: shuffle returned an error; goto exit skips both frees.
ShuffleFailed ==
    /\ pc = "failed"
    /\ pc' = "returned"
    /\ ret' = "err"
    /\ UNCHANGED <<arr, marked, prefix, calls, call, mi, soFar, totalLeft, ptr, freedTwice, orpId>>

\* Line 275: assign_random_id_args.length, which the driver sets to 0.
AssignLength == 0

(* Lines 215-216: thread i assigns IDs to positions                       *)
(* i * length / num_threads .. (i + 1) * length / num_threads - 1.        *)
AssignRange(i) == (i * AssignLength) \div NumThreads .. ((i + 1) * AssignLength) \div NumThreads - 1

(* Lines 209-236 and 273-303: assign_random_id runs as an iter task of    *)
(* num_threads indices and the driver waits for all of them.  Thread i    *)
(* calls rand_read for each position of its range until one fails         *)
(* (stop[i]; L when none fails), and a failure is CAS'd into args.ret.    *)
(* The ranges are disjoint and the CAS only keeps the first error, so     *)
(* the threads' interleaving does not change the result.  A successful    *)
(* rand_read writes a fresh 64-bit value, here j + 1 (collisions among    *)
(* random 64-bit values are left out).  Then args.ret, or a failing       *)
(* clock_gettime, jumps to exit_free_marked_prefix_sums.                  *)
AssignIds ==
    /\ pc = "assign"
    /\ \E stop \in [0 .. NumThreads - 1 -> Idx(L) \cup {L}], clockOk \in BOOLEAN :
         LET written == UNION {{j \in AssignRange(i) : j < stop[i]} : i \in DOMAIN stop}
             failed  == \E i \in DOMAIN stop : stop[i] \in AssignRange(i)
         IN /\ \A i \in DOMAIN stop : stop[i] \in AssignRange(i) \cup {L}
            /\ orpId' = [j \in Idx(L) |-> IF j \in written THEN j + 1 ELSE orpId[j]]
            /\ pc' = IF failed \/ ~clockOk THEN "release" ELSE "nbsort"
            /\ ret' = IF failed \/ ~clockOk THEN "err" ELSE ret
    /\ UNCHANGED <<arr, marked, prefix, calls, call, mi, soFar, totalLeft, ptr, freedTwice>>

(* Lines 305-315: nonoblivious_sort into buf and, when it returns 0, the   *)
(* memcpy of buf back to arr.  The sort is the NonobliviousSort module;    *)
(* here only its result matters, which is either.                          *)
NbSort ==
    /\ pc = "nbsort"
    /\ pc' = "release"
    /\ ret' \in {"ok", "err"}
    /\ UNCHANGED <<arr, marked, prefix, calls, call, mi, soFar, totalLeft, ptr, freedTwice, orpId>>

\* Lines 320-324: exit_free_marked_prefix_sums and exit_free_marked.
Release ==
    /\ pc = "release"
    /\ freedTwice' = (freedTwice \/ \E b \in Scratch : ptr[b] = "dangling")
    /\ ptr' = Free(Free(ptr, "prefix"), "marked")
    /\ pc' = "returned"
    /\ UNCHANGED <<arr, marked, prefix, calls, call, mi, soFar, totalLeft, ret, orpId>>

\* Lines 325-327: orshuffle_sort has returned ret to the enclave's ecall.
SortReturned ==
    /\ pc = "returned"
    /\ UNCHANGED shVars

ShNext == \/ ShuffleBase \/ ShuffleEnter \/ MarkCoin \/ CompactAndRecurse
          \/ EntropyFails
          \/ SortAlloc \/ ShuffleDone \/ ShuffleFailed \/ AssignIds \/ NbSort
          \/ Release \/ SortReturned

ShSpec == ShInit /\ [][ShNext]_shVars

-----------------------------------------------------------------------------
ShTypeOK ==
    /\ arr \in [Idx(L) -> Idx(L)]
    /\ marked \in [Idx(L) -> BOOLEAN]
    /\ prefix \in [Idx(L) -> 0 .. L]
    /\ pc \in {"start", "call", "mark", "failed", "assign", "nbsort", "release", "returned"}
    /\ ptr \in [Scratch -> {"null", "live", "dangling"}]
    /\ ret \in {"ok", "err"}
    /\ freedTwice \in BOOLEAN
    /\ orpId \in [Idx(L) -> 0 .. L]
    /\ mi \in 0 .. L
    /\ \A k \in DOMAIN calls : calls[k].base + calls[k].len <= L

(* Every compaction step of shuffle (compact with offset 0, line 177)     *)
(* moves the marked elements of the slice, in their original order, to    *)
(* its front, whatever the number of marks.  The recursion of compact     *)
(* passes the offsets (offset + left_marked_count) % (n/2) down to its    *)
(* halves, and swap_local_range's condition has to agree with them at     *)
(* every level for this to hold.                                          *)
CompactPlacesMarked ==
    [][pc = "mark" /\ pc' = "call" =>
         LET b   == call.base
             idx == SelectSeq([k \in 1 .. call.len |-> k - 1], LAMBDA i : marked[b + i])
         IN \A j \in 1 .. Len(idx) : arr'[b + j - 1] = arr[b + idx[j]]]_shVars

(* orshuffle_sort frees each scratch array at most once on every path:    *)
(* the success path frees marked and marked_prefix_sums after shuffle and *)
(* must reset them to NULL, because a later failure (clock_gettime or     *)
(* nonoblivious_sort) falls through the exit labels that free them again. *)
ScratchFreedOnce == ~freedTwice

(* When orshuffle_sort returns, with or without an error, neither scratch *)
(* array is still allocated (spec section 7: the orchestrator unwinds and *)
(* frees scratch).                                                         *)
ScratchReleasedOnReturn ==
    pc = "returned" => \A b \in Scratch : ptr[b] /= "live"

-----------------------------------------------------------------------------
(* The distribution of shuffle's output over all coin outcomes, computed   *)
(* by the same operators: a bag mapping each reachable output array to the *)
(* number of equally likely coin sequences that produce it.  The coin of   *)
(* element i of an n-element marking loop takes n - i values.              *)
CoinSeqs(n) == {xs \in [Idx(n) -> Idx(n)] : \A i \in Idx(n) : xs[i] < n - i}

RECURSIVE MarkFrom(_, _, _, _)
MarkFrom(xs, n, i, st) ==
    IF i = n THEN st
    ELSE LET cur == CoinMarks(xs[i], n \div 2, st.soFar)
             new == st.soFar + B2N(cur)
         IN MarkFrom(xs, n, i + 1,
                     [marked |-> [st.marked EXCEPT ![i] = cur],
                      prefix |-> [st.prefix EXCEPT ![i] = new],
                      soFar  |-> new])

\* Outcomes of two independent half-shuffles, concatenated.
JoinBags(lo, hi, h) ==
    [p \in {Cat(x, y, h) : x \in DOMAIN lo, y \in DOMAIN hi} |->
        lo[Sub(p, 0, h)] * hi[Sub(p, h, h)]]

AddBags(b1, b2) == b1 (+) b2

RECURSIVE Outcomes(_, _)
Outcomes(a, n) ==
    IF n < 2 THEN SetToBag({a})
    ELSE IF n = 2 THEN SetToBag({a}) (+) SetToBag({Swap(a, 0, 1)})
    ELSE LET h     == n \div 2
             none  == [marked |-> [i \in Idx(n) |-> FALSE],
                       prefix |-> [i \in Idx(n) |-> 0], soFar |-> 0]
             One(xs) ==
                LET m == MarkFrom(xs, n, 0, none)
                    c == Compact(a, m.marked, m.prefix, n, 0)
                IN JoinBags(Outcomes(Sub(c, 0, h), h), Outcomes(Sub(c, h, h), h), h)
             RECURSIVE SumOver(_)
             SumOver(S) == IF S = {} THEN EmptyBag
                           ELSE LET xs == CHOOSE s \in S : TRUE
                                IN AddBags(One(xs), SumOver(S \ {xs}))
         IN SumOver(CoinSeqs(n))

(* With uniform coins every permutation of the input is an equally likely  *)
(* output of shuffle (spec section 3 "Shuffle" and section 8, property 3). *)
ShuffleUniform ==
    LET O == Outcomes([i \in Idx(L) |-> i], L)
    IN /\ DOMAIN O = {p \in [Idx(L) -> Idx(L)] : {p[i] : i \in Idx(L)} = Idx(L)}
       /\ \A p, q \in DOMAIN O : O[p] = O[q]


(* When orshuffle_sort returns 0, the records carry pairwise distinct      *)
(* orp_ids (spec sections 5 and 8, S1 and S3: assign_random_id gives each  *)
(* record a fresh ID after shuffle, so that equal keys are ordered by ID). *)
(* The sort after it only permutes the records, which keeps the IDs        *)
(* distinct or not.                                                         *)
OrpIdsDistinct ==
    (pc = "returned" /\ ret = "ok") =>
      \A j, k \in Idx(L) : j /= k => orpId[j] /= orpId[k]

=============================================================================
