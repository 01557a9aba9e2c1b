# TLA+ models of the distributed SGX sort

This directory holds TLA+ models of the sorting code in `src/`. Each model is
checked with TLC. Every definition that models code names its lines in the
`map` of `PROJECT.json`.

## The system

The program sorts an array that is spread over `W` MPI ranks. Each rank runs
inside an SGX enclave.

* **Host harness** (`src/host/parallel.c`). `main` gives rank `r` a ceiling
  share of the `N` records:
  * `local_start = ceil(rN/W)`;
  * `local_length = ceil((r+1)N/W) - ceil(rN/W)`.

  It fills the share with `rand()` keys and zeroed `orp_id`s, then calls the
  enclave's sort. When the sort returns, every rank joins its threads and
  enters `MPI_Barrier`. Then, in turn `r` of a loop with one barrier per turn,
  rank `r` decrypts its records and checks that they are in order. Finally
  each rank sends its last key to the next rank, which compares it with its
  own first key (spec S4).

  The `ocall_mpi_*` functions are the enclave's transport. They wrap
  `MPI_Send`, `MPI_Recv`, `MPI_Isend`, `MPI_Irecv`, `MPI_Wait` and
  `MPI_Waitany`. Each request is a heap object holding a bounce buffer:
  `ocall_mpi_isend_bytes` and `ocall_mpi_irecv_bytes` `malloc` both, and the
  `ocall_mpi_wait(any)` that completes the request frees both. No MPI error
  handler is installed, so `MPI_COMM_WORLD` keeps `MPI_ERRORS_ARE_FATAL`: an MPI
  error aborts the process, and the adapter's MPI error branches cannot be
  reached. The failures that do reach the enclave are the `malloc`s.
* **ORShuffle** (`src/enclave/orshuffle.c`). `orshuffle_sort` allocates the
  `marked` and `marked_prefix_sums` arrays, then calls `shuffle`, then
  `nonoblivious_sort`.
  * `shuffle` is recursive. A slice of length 2 is swapped on one random bit.
    A longer slice marks half of its elements by selection sampling, with 32-bit
    coins scaled by `total_left`.
  * `compact` then moves the marked half to the front. It works obliviously:
    it recurses on both halves with rotated offsets, and `swap_local_range`
    conditionally swaps element `i` with element `i + length/2`.
  * Finally `shuffle` recurses on the two halves.
* **Non-oblivious sort** (`src/enclave/nonoblivious.c`). It has three phases.
  1. `distributed_quickselect` finds `W-1` splitters. They are the records of
     global ranks `N(i+1)/W`. Each round works as follows:
     * every rank sends a ready flag to every peer;
     * the lowest ready rank becomes master and broadcasts a pivot;
     * every rank partitions its slice and sends its left size;
     * the master broadcasts the rank and index of the record chosen next;
     * each rank then recurses on the targets left and right of the pivot.

     All of these messages use one MPI tag.
  2. `distributed_sample_partition` sends each rank the records between its two
     splitters. It uses chunks of at most `SAMPLE_PARTITION_BUF_SIZE` records.
     Each rank keeps one receive from `MPI_TLS_ANY_SOURCE` posted and one send
     per peer, and completes them with `mpi_tls_waitany`.
  3. `mergesort` sorts the received records locally. Its first pass `qsort`s
     runs of `BUF` records. Each later pass merges pairs of runs in shards. The
     passes alternate between the two arrays. A failing shard reports its error
     through `__atomic_compare_exchange_n` on the pass's `ret`.
* **Thread pool** (`src/enclave/threading.c`). It has a spinlocked list of
  work, a pop loop, and a barrier built from a counter and a condition
  variable.

## Modules

| Module | Models | State and actions |
|---|---|---|
| `Elem` | `elem_t` and `mergesort_comparator` | A record is `[key, orp_id]`. `Cmp` is the comparator. Also has `Swap` and the index helpers. |
| `ORCompact` | `compact` and `swap_local_range` | Pure operators. `Compact` is `RECURSIVE`, as the C recursion is. |
| `ORShuffle` | `orshuffle_sort` and `shuffle` | The recursion becomes a stack of calls. Variables `arr`, `marked`, `prefix` and `calls` hold the data. `mi`, `soFar` and `totalLeft` hold the marking loop. `ptr` says whether each scratch pointer is NULL, live or dangling (freed, not reset). `ret` is the driver's result, `freedTwice` records a second `free` of one buffer, and `orpId[j]` is the `orp_id` of the record at position `j`. `NumThreads` is `num_threads`. Shuffle's actions are `ShuffleBase`, `ShuffleEnter`, `MarkCoin` (one coin each), `CompactAndRecurse` and `EntropyFails` (either `rand` call fails). The driver's actions are `SortAlloc` (the clock and both mallocs), `ShuffleDone` (the early frees), `ShuffleFailed`, `AssignIds` (every thread of `assign_random_id`, its `rand_read` failures, the CAS into `args.ret` and the clock that follows), `NbSort` (only the outcome of `nonoblivious_sort`), `Release` (the exit labels) and `SortReturned`. The operator `Outcomes` computes shuffle's whole output distribution. |
| `DistributedQuickselect` | `distributed_quickselect(_helper)` | Per rank: a program counter, slice bounds, the target stack and the round's state. `qchan[s][d]` is a FIFO stream per ordered pair, matching MPI's non-overtaking order on one tag. Each labelled step of the helper is a disjunct of `QsStep(w)`. |
| `MergeSort` | `mergesort`, `mergesort_first_pass` and `mergesort_pass` | Pure operators. `MergeSortRun(a, out, n, fail)` returns `ret` and the output. `fail` says which `<<run, shard>>` fails to allocate. `ShardError` is the swapped CAS. |
| `TaskPool` | `threading.c` | The list is `head`, `tail` and `next`. Other variables are `workDone`, the barrier's `waiting` count and `cvWait` (the threads blocked in `condvar_wait`), plus per-thread `pc`, `cur` and `round`, and `done` (each item's semaphore). Critical sections are single steps. The unlocked spin of `thread_work_pop` (`PopSpin`) is a separate step from its locked recheck (`PopLocked`). `PopSpin` reads `work_head` and `work_done` (lines 31-32) in one step; the two reads could only disagree if a push or a release came between them, which the modelled caller never does while threads pop. `Arrive` and `Wake` are the barrier. `RunWork` runs an item and ups its semaphore. `Push`, `Release` and `Return` (which unreleases) form the caller, which is not under `src/` and follows the spec's release latch: the main thread pushes a round's items, releases, and joins `thread_start_work`, over `Rounds` rounds. |
| `NonobliviousSort` | `nonoblivious_sort` and `distributed_sample_partition` | Extends both modules above. Adds `out`, `numRecv`, `scan` (`sample_scan_idxs`), `req` (the size of each posted request, 0 for NULL) and `pchan[s][d]`, the chunks in flight. The actions are `SpSingle`, `SpStart`, `SpRecv`, `SpSendDone`, `SpFinish` and `NsMergeSort`. |
| `HostMain` | `main` of `parallel.c` from the ecall on | Extends `NonobliviousSort`. Per rank: `hpc`, the number of `MPI_Barrier`s entered (`barriers`), `firstKey`, `prevKey`, `reported` (either "Not sorted" message was printed) and `hchan`, the boundary key in flight from the previous rank. `EcallReturned` is the ecall's result, the join and the first barrier; on an error, main jumps to `exit_free_arr`. `CheckTurn` is one turn of the check loop: the rank leaves its barrier once all ranks have entered it, checks its records if it is its turn, and enters the next barrier. `BoundarySend` and `BoundaryRecv` are the boundary check and the exit path. The pass runs of `MCNonobliviousSort` use `HostSpec`, so the check reads the sort's real output. |
| `TaskQueue` | spec §4.2 | The abstract pool. `submitted` holds the pushed items, `queue` the FIFO of items waiting, `holder` the item each thread holds, and `ran` how often each item has run. The actions are `TqPush`, `TqTake` and `TqRun`. `TaskPool` refines it: the queue is the list read from `work_head` along `next`. |
| `Exchange` | spec §4.3 and §4.5 | The abstract exchange. `chan[<<s, d>>]` holds the chunks in flight from `s` to `d`, `sent` is each sender's cursor and `recvd` each receiver's count. `ExSend` sends the next chunk; `ExDeliver` delivers the oldest chunk of any sender. |
| `MpiExchange` | `distributed_sample_partition`'s request loops over `ocall_mpi_isend_bytes`, `ocall_mpi_irecv_bytes` and `ocall_mpi_waitany` | Per rank: `pc`, the posting index `pi`, `scan`, `numRecv` and `reqLen` (`requests_len`). `slot[r][i]` says whether `requests[i]` is NULL, a live request, or a freed one. `heap` counts the ocall blocks. `mreq` is each slot's MPI request, and `net` holds the unmatched messages. The actions are `Post` (one slot of the posting loop), `WaitAny` (one whole iteration of the `while (requests_len)` loop, including the ocall's frees), `Finish` (the final `assert`), and MPI's `MpiMatch` and `MpiBuffer`. A refinement mapping shows the module implements `Exchange`. |

The message model is as follows:
* `mpi_tls_send_bytes` appends to a stream, and `mpi_tls_recv_bytes` takes its
  head. These are the layer below `src/` and are modelled from the spec.
* A receive from `MPI_TLS_ANY_SOURCE` takes the head of any non-empty stream.
* A chunk longer than the posted receive is MPI truncation, which is an error
  (`sp_error`).
* In `NonobliviousSort`, a send request may complete as soon as it is posted.
  In `MpiExchange`, a send request completes when a receive matches it. MPI may
  also complete it earlier by buffering it (`MpiBuffer`), but nothing forces it
  to. So every mix of buffered and rendezvous sends is explored.

`MC*` modules fix the constants: element sets with duplicate keys, and the
length enumerations.

## Runs

| Run | Bounds | Shows |
|---|---|---|
| `shuffle_permutes` | `L = 8`, all coins, every clock, malloc, entropy and sort outcome (291k states) | `ShTypeOK`: calls stay in bounds. `CompactPlacesMarked` (action property): every compaction step moves the marked elements of its slice, in order, to the slice's front, whatever the number of marks. `ScratchFreedOnce`: no path of `orshuffle_sort` frees a scratch array twice. |
| `shuffle_uniform` (violation) | `L = 4` | `ShuffleUniform` fails: the output bag is not uniform. |
| `orshuffle_sort_leak` (violation) | `L = 4` | `ScratchReleasedOnReturn` fails. See findings. |
| `orshuffle_orp_ids` (violation) | `L = 4`, 2 threads | `OrpIdsDistinct` fails: `orshuffle_sort` returns 0 with every `orp_id` 0. See findings. |
| `quickselect_small_input` (violation) | `W = 4`, `N = 2` | `NoEmptySlice` fails. |
| `mergesort_malloc_fails` (violation) | `BUF = 2`, up to 5 records, keys 1..2 with two ids; one shard's `malloc` fails | `MergeSortSorts` fails: `ret = 0` with wrong output. |
| `nonoblivious_sort` | `W = 3`, `N = 6`, `BUF_CHUNK = 1`, keys 1..3 | Quickselect first: `StreamsStayInStep`: the single tag never mixes messages of different rounds. `NoEmptySlice`: the "All ranks reported empty slice" error is never reached. `SelectionCorrect`: every sample equals the sorted input at its target. Then the exchange: `ExchangeConserves`: each rank's received, in-flight and unsent records add up to its share. `SortedAcrossWorkers`: the concatenated finals are the sorted input. `HostTypeOK`. `HostNoFalseAlarm`: the host's check, run on the sort's output, reports nothing: equal keys within a rank and across a boundary are not taken as out of order. (2.7M states, about 2 minutes.) |
| `nonoblivious_sort_single` | `W = 1`, `N = 5`, `BUF = 2` | `SortedAcrossWorkers` on the single-rank path. Mergesort takes 3 passes with a shorter last run, and its output is checked to be sorted. `HostNoFalseAlarm` for the within-rank check alone. |
| `task_pool` | 3 threads, 2 rounds of 2 items | `RoundCompleteOnReturn`: a thread returning from `thread_start_work` sees all of its round's items done. `AllFinish` (liveness): every thread finishes every round. `FifoRefined`: `TaskPool` implements `TaskQueue` (so also no item runs twice), with `submitted` the items the main thread has pushed, `queue` the list from `work_head`, `holder` as `cur` and `ran` as `done`. So a push appends to the list and a pop takes its front, in both rounds. |
| `nonoblivious_sort_uneven` (violation) | `W = 2`, `N = 3` | `ReceiveFitsBuffer` fails. See findings. |
| `mpi_exchange` | `W = 3`; records 0→1: 2, 0→2: 1, 1→0: 1, 1→2: 2, 2→1: 2; rank 0 keeps 2 (173k states) | `AdapterMemorySafe`: no ocall reads a request that waitany freed. `NoLeakWhenDone`: a finished rank holds no request, no bounce buffer and no running MPI request. `ExchangeRefined`: the mapping `chan <- net`, `sent <- scan`, and `recvd <- numRecv` minus the rank's own records plus a completed receive not yet taken, satisfies `Exchange!ExSpec`. `AllRanksDone` (liveness): every rank passes the final `assert`, even if MPI buffers no send. |
| `mpi_exchange_isend_fails` (violation) | same, ocall `malloc` may fail | `ReleasedOnError` fails. See findings. |

Every property of a passing run has a mutant in `PROJECT.json`: a plausible
code bug that TLC finds.

**Bounds.** `BUF_CHUNK = 1` with `N = 6` makes every peer send several chunks,
so chunks from different senders interleave at the ANY_SOURCE receive. Three
ranks give two splitters and a middle rank that both sends and receives. Keys
drawn from 1..3 force duplicate keys through the partition. `BUF = 2` with 5
records gives three merge passes and a last run shorter than the others.

For the task pool, 3 threads and 2 items let two threads race for one item while a third is still at the barrier. The second round reuses the barrier and the list after the first round has emptied it, which is where a missing reset would show.

For `MpiExchange`, the three ranks cover these cases:
* Ranks 1 and 2 each receive chunks from two senders at their ANY_SOURCE
  receive.
* Every rank sends some peer two chunks, so a send slot is reposted after its
  first chunk completes.
* Ranks 1 and 2 send each other two chunks. With rendezvous sends, each waits
  on the other's receive.
* Rank 2 sends rank 0 nothing, so it has a NULL slot next to live ones.

**Fairness.** `PoolSpec` assumes weak fairness of each thread's step. Every wait in `threading.c` is a spin or a condvar wait that ends once some enabled step has run, and the enclave's threads are scheduled by the host. `QsSpec` assumes weak fairness of each rank's step: each rank is
a separate process that keeps running while it can. Its one run is the violation `quickselect_small_input`; quickselect's properties on the larger instance are checked inside `HostSpec`. `NsSpec` and `HostSpec` have no fairness
and are checked only for safety and deadlock freedom. Deadlock freedom of
`HostSpec` means that every rank's `main` gets through all `W + 1` barriers
and the boundary exchange. `MxSpec` assumes weak
fairness of each rank's step, and of `MpiMatch` for each pair of ranks. The
latter is MPI's progress rule: a posted receive and a matching message are
eventually matched. It assumes no fairness for `MpiBuffer`, because MPI never
has to buffer a send. `MpiExchangeIsendFails.cfg` sets `CHECK_DEADLOCK FALSE`:
there a failed rank really does leave its peers blocked in waitany.

## Findings

1. **Marking and uniformity.** `orshuffle.c:168` tests
   `X >= num_to_mark - marked_so_far`, and the subtraction wraps as a `size_t`.
   The number marked therefore depends on the coins, although the comment at
   line 153 says "exactly". As a consequence, `shuffle` is not uniform.
2. **Small inputs.** When `N < W`, targets repeat (`nonoblivious.c:489`) and
   quickselect fails.
3. **Lost mergesort error.** The CAS at `nonoblivious.c:122` has its arguments
   swapped, so a shard's ENOMEM is lost and mergesort returns 0.
4. **Buffer overrun.** `nonoblivious.c:475` gives each rank a floor share of
   the records. The host allocates, and the spec defines, ceiling shares, so
   `buf` is overrun.
5. **Requests left running on error.** Suppose a post fails in the exchange:
   an isend at `nonoblivious.c:548`, or an irecv at 529 or 583, when the
   ocall's `malloc` fails. Then `distributed_sample_partition` jumps to `exit`.
   The requests it has already posted stay allocated and in flight: MPI still
   owns their bounce buffers, and the peers keep waiting for them. The spec
   says otherwise. §5 says in-flight requests are cancelled, and scenario S6
   says all scratch is released. TLC's trace is 3 steps: rank 0 posts its receive
   (`requests[0]`, its own slot), then the `malloc` of its send to rank 1
   fails, and the receive stays posted.
6. **Scratch leaked when shuffle fails.** When `shuffle` returns an error
   (`rand_bit` or `rand_read` failing at any depth), `orshuffle_sort` jumps
   from `orshuffle.c:264` to `exit`. That skips the frees of `marked` and
   `marked_prefix_sums`, which its other error paths do perform. Spec §7 says
   the orchestrator frees scratch on error. TLC's trace is 4 steps: the
   allocations succeed, the first marking loop starts, and its `rand_read`
   fails.
7. **No ORP IDs are assigned.** `orshuffle_sort` passes `assign_random_id`
   `.length = 0` and the length as `.start_idx` (`orshuffle.c:275`). Every
   thread's range `i*0/T .. (i+1)*0/T` is empty, so no record gets an ID and
   no error is reported. Every `orp_id` stays 0, as the host set it
   (`parallel.c:628`), and `orshuffle_sort` returns 0. Spec §5 says each record
   gets a fresh `orp_id` after `shuffle`. Scenarios S1 and S3 say the
   `orp_id`s are distinct. With equal keys the comparator then sees equal
   records. The run's state space is complete with `.length = length` in place
   of 0, and `OrpIdsDistinct` then holds.

## Not modelled

* **Which sort `main` calls, and a host check that must report.** `main`
  (`parallel.c:651-676`) calls `ecall_bitonic_sort`, `ecall_bucket_sort` or
  `ecall_opaque_sort`, whose bodies are not under `src/`. `HostMain` puts
  `nonoblivious_sort`, the sort that is under `src/`, in their place. That
  sort's output is always in order in the passing runs, so the host's check is
  only shown never to report a sorted output (`HostNoFalseAlarm`). Whether it
  reports every out-of-order output, with a lax boundary test or a stale
  `prev_key` of 0, would need an ecall that may return any array. That needs a
  run of its own, and the run budget is full.
* **Truncated chunks and a failed final count in the exchange.** With
  `BUF_CHUNK = 1` no chunk can be longer than its posted receive. The
  receive slot is retired only when `num_received` reaches the share, so the
  `assert` at `nonoblivious.c:620` cannot fail either. A wrong count shows as
  a deadlock instead, which every passing run checks.

* **Spurious wakeups.** `thread_wait_for_all` (`threading.c:77`) waits once,
  without a predicate loop. The barrier is correct only if `condvar_wait`
  (in `synch.h`, outside `src/`) never returns without a broadcast, and the
  model assumes it doesn't.

* **The values `rand_read` writes as ORP IDs.** `AssignIds` writes a fresh
  value (`j + 1`) and leaves out collisions of random 64-bit values. Because
  of finding 7 no value is written at all, so the other models keep `orp_id`
  in `Elem` but use 0, as the code does.
* **`threading.c` beyond its own operations.** Its caller is modelled from the
  spec. Tasks that push sub-tasks and wait on their semaphores (the
  `thread_work` signature suggests recursive callers) are not modelled. The
  mergesort and shuffle callers use an iter-task API
  (`thread_work_until_empty`, `thread_wait`) that is not under `src/`. They are
  modelled as sequential, which is what the spec's happens-before guarantee
  between iter-tasks gives.
* **The rest of the MPI adapter.** `ocall_mpi_wait`, `try_wait`, `try_recv` and
  `cancel` are never called from `src/`: the enclave's `mpi_tls` layer that
  would call them is not in the repository. The hazard at `parallel.c:292`
  (`wait` reads `(*request)->type` of a NULL request) is therefore out of
  reach. `MPI_Get_count` overwriting `ret` in `ocall_mpi_recv_bytes`, and the
  MPI_Waitany error path freeing `requests[*index]` before `*index` is set, are
  unreachable while MPI errors are fatal.
* **The host harness before the sort.** Argument parsing, MPI and enclave
  start-up, thread creation, `rand()` keys and encryption run once before the
  sort. `HostMain` starts at the ecall. `MPI_Send` of the boundary key is
  modelled as buffered: the sends form a chain from rank 0 to rank `W-1`, and
  every rank posts its receive after its own send. So a send that waits for
  its receive also completes.
* **A failing ecall on one rank.** Main then skips `pthread_join` and every
  barrier, so the other ranks would wait in `MPI_Barrier` forever
  (`parallel.c:678`). `EcallReturned` has this branch, but no instance in
  which every rank finishes its sort reaches a sort error.
* **Rendezvous in quickselect.** `mpi_tls_send_bytes` (`MPI_Send`) is modelled
  as buffered. These messages are one flag or one record long, and MPI
  implementations send them eagerly.
* **`orshuffle_init` and `orshuffle_free`.** They only allocate and free the
  thread-local swap buffer, which no modelled step reads.
* **The call `nonoblivious_sort(arr, buf, length, length, num_threads)`**
  (`orshuffle.c:308`) passes five arguments to a function that
  `nonoblivious.c:626` defines with four. Its header is not under `src/`, so
  which of the two the build uses is unknown. `ORShuffle` keeps only the call's
  result, and `NonobliviousSort` models the four-parameter definition.
* **Encryption, timing and printing.**

## Plan for later sittings

0. The run budget is full. A run that makes one rank's ecall fail would show
   the other ranks stuck in `MPI_Barrier` (`parallel.c:678`). It could replace
   a run whose question another run can absorb.

1. `TaskPool` with tasks that push sub-tasks and wait on them, to look for
   every thread waiting on a semaphore.
2. Liveness for quickselect: every rank eventually returns, under `QsSpec`'s
   weak fairness. It needs a run of `QsSpec` of its own.
