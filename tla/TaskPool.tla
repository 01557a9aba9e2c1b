------------------------------- MODULE TaskPool -------------------------------
(***************************************************************************)
(* The enclave task pool of src/enclave/threading.c: a FIFO linked list of *)
(* work items under a spinlock, consumed by total_num_threads threads in   *)
(* thread_start_work, which is bracketed by two uses of the counter and    *)
(* condition-variable barrier thread_wait_for_all.                         *)
(*                                                                         *)
(* Every critical section of the code (push, the locked part of pop, the   *)
(* barrier's count update) is one step, so the spinlocks need no variable  *)
(* of their own; the unlocked spin of thread_work_pop on work_head is a    *)
(* step of its own, because another thread may run between it and the     *)
(* locked recheck.                                                         *)
(*                                                                         *)
(* The caller of the pool is not under src/: following the spec's release *)
(* latch (push, release_all, all threads run the work loop, unrelease_all) *)
(* the main thread pushes TasksPerRound items, calls thread_release_all    *)
(* and joins thread_start_work, Rounds times; the other threads call       *)
(* thread_start_work once per round.                                       *)
(***************************************************************************)
EXTENDS Naturals, FiniteSets, Sequences

CONSTANTS
    Threads,        \* the enclave threads
    Main,           \* the thread that pushes the work
    Rounds,         \* number of rounds of work
    TasksPerRound   \* work items the main thread pushes per round

Work == (1 .. Rounds) \X (1 .. TasksPerRound)
Null == <<0, 0>>

VARIABLES
    head,       \* work_head
    tail,       \* work_tail
    next,       \* the next field of every work item
    workDone,   \* work_done
    waiting,    \* num_threads_waiting of thread_wait_for_all
    cvWait,     \* threads blocked in condvar_wait(&all_threads_finished)
    pc,
    cur,        \* the work item a thread popped
    round,      \* the round a thread is in
    pushed,     \* work items the main thread pushed this round
    done        \* the count of every item's done semaphore

vars == <<head, tail, next, workDone, waiting, cvWait, pc, cur, round, pushed, done>>

\* total_num_threads
T == Cardinality(Threads)

PoolInit ==
    /\ head = Null
    /\ tail = Null
    /\ next = [w \in Work |-> Null]
    /\ workDone = FALSE
    /\ waiting = 0
    /\ cvWait = {}
    /\ pc = [t \in Threads |-> IF t = Main THEN "push" ELSE "b1"]
    /\ cur = [t \in Threads |-> Null]
    /\ round = [t \in Threads |-> 1]
    /\ pushed = 0
    /\ done = [w \in Work |-> 0]

-----------------------------------------------------------------------------
(* thread_work_push (threading.c lines 13-26), called by the main thread   *)
(* for item TasksPerRound-th of its round.                                 *)
Push ==
    /\ pc[Main] = "push"
    /\ pushed < TasksPerRound
    /\ LET w == <<round[Main], pushed + 1>> IN
       /\ next' = IF tail = Null THEN [next EXCEPT ![w] = Null]
                  ELSE [next EXCEPT ![w] = Null, ![tail] = w]
       /\ head' = IF tail = Null THEN w ELSE head
       /\ tail' = w
    /\ pushed' = pushed + 1
    /\ UNCHANGED <<workDone, waiting, cvWait, pc, cur, round, done>>

\* thread_release_all (lines 82-84), once the round's work is pushed.
Release ==
    /\ pc[Main] = "push"
    /\ pushed = TasksPerRound
    /\ workDone' = TRUE
    /\ pc' = [pc EXCEPT ![Main] = "b1"]
    /\ UNCHANGED <<head, tail, next, waiting, cvWait, cur, round, pushed, done>>

(* Mutant: the barrier releases one arrival early.                         *)
ArriveEarly(t) ==
    /\ pc[t] \in {"b1", "b2"}
    /\ LET after == IF pc[t] = "b1" THEN "pop" ELSE "ret"
           wait  == IF pc[t] = "b1" THEN "b1_wait" ELSE "b2_wait"
       IN IF waiting + 1 >= T - 1
          THEN /\ waiting' = 0
               /\ cvWait' = {}
               /\ pc' = [pc EXCEPT ![t] = after]
          ELSE /\ waiting' = waiting + 1
               /\ cvWait' = cvWait \cup {t}
               /\ pc' = [pc EXCEPT ![t] = wait]
    /\ UNCHANGED <<head, tail, next, workDone, cur, round, pushed, done>>

(* Mutant: the last arrival broadcasts but does not reset the count.       *)
ArriveNoReset(t) ==
    /\ pc[t] \in {"b1", "b2"}
    /\ LET after == IF pc[t] = "b1" THEN "pop" ELSE "ret"
           wait  == IF pc[t] = "b1" THEN "b1_wait" ELSE "b2_wait"
       IN IF waiting + 1 >= T
          THEN /\ waiting' = waiting + 1
               /\ cvWait' = {}
               /\ pc' = [pc EXCEPT ![t] = after]
          ELSE /\ waiting' = waiting + 1
               /\ cvWait' = cvWait \cup {t}
               /\ pc' = [pc EXCEPT ![t] = wait]
    /\ UNCHANGED <<head, tail, next, workDone, cur, round, pushed, done>>

(* Mutant: the last arrival resets the count but does not broadcast.       *)
ArriveNoBroadcast(t) ==
    /\ pc[t] \in {"b1", "b2"}
    /\ LET after == IF pc[t] = "b1" THEN "pop" ELSE "ret"
           wait  == IF pc[t] = "b1" THEN "b1_wait" ELSE "b2_wait"
       IN IF waiting + 1 >= T
          THEN /\ waiting' = 0
               /\ cvWait' = cvWait
               /\ pc' = [pc EXCEPT ![t] = after]
          ELSE /\ waiting' = waiting + 1
               /\ cvWait' = cvWait \cup {t}
               /\ pc' = [pc EXCEPT ![t] = wait]
    /\ UNCHANGED <<head, tail, next, workDone, cur, round, pushed, done>>

(* thread_wait_for_all (lines 66-80) up to its condvar_wait: under the     *)
(* lock, count the arrival; the last one broadcasts and resets the count  *)
(* and goes on, the others wait (condvar_wait releases the lock).  The     *)
(* first call is at line 52, before the work loop; the second at line 63. *)
Arrive(t) ==
    /\ pc[t] \in {"b1", "b2"}
    /\ LET after == IF pc[t] = "b1" THEN "pop" ELSE "ret"
           wait  == IF pc[t] = "b1" THEN "b1_wait" ELSE "b2_wait"
       IN IF waiting + 1 >= T
          THEN /\ waiting' = 0
               /\ cvWait' = {}
               /\ pc' = [pc EXCEPT ![t] = after]
          ELSE /\ waiting' = waiting + 1
               /\ cvWait' = cvWait \cup {t}
               /\ pc' = [pc EXCEPT ![t] = wait]
    /\ UNCHANGED <<head, tail, next, workDone, cur, round, pushed, done>>

(* condvar_wait returns (line 77) once the thread has been woken by the    *)
(* broadcast and has taken the lock back; it then unlocks (line 79).  The  *)
(* code has no predicate loop, so the model, like the code, relies on      *)
(* condvar_wait never returning without a broadcast.                       *)
Wake(t) ==
    /\ pc[t] \in {"b1_wait", "b2_wait"}
    /\ t \notin cvWait
    /\ cvWait' = cvWait \ {t}
    /\ pc' = [pc EXCEPT ![t] = IF pc[t] = "b1_wait" THEN "pop" ELSE "ret"]
    /\ UNCHANGED <<head, tail, next, workDone, waiting, cur, round, pushed, done>>

(* thread_work_pop, lines 31-35: spin, without the lock, until work_head   *)
(* is set or work_done is; in the second case pop returns NULL and the     *)
(* work loop of thread_start_work ends (line 55).                         *)
PopSpin(t) ==
    /\ pc[t] = "pop"
    /\ \/ head /= Null /\ pc' = [pc EXCEPT ![t] = "pop_lock"]
       \/ head = Null /\ workDone /\ pc' = [pc EXCEPT ![t] = "b2"]
    /\ UNCHANGED <<head, tail, next, workDone, waiting, cvWait, cur, round, pushed, done>>

(* Mutant: pop leaves work_tail pointing at the item it took last.         *)
PopLockedNoTailReset(t) ==
    /\ pc[t] = "pop_lock"
    /\ IF head /= Null
       THEN /\ cur' = [cur EXCEPT ![t] = head]
            /\ tail' = tail
            /\ head' = next[head]
            /\ pc' = [pc EXCEPT ![t] = "run"]
       ELSE /\ pc' = [pc EXCEPT ![t] = "pop"]
            /\ UNCHANGED <<cur, head, tail>>
    /\ UNCHANGED <<next, workDone, waiting, cvWait, round, pushed, done>>

(* Lines 36-44: under the lock, recheck work_head; take the head item, and *)
(* clear work_tail if it was the last; if another thread took it first,   *)
(* go back to spinning.                                                    *)
PopLocked(t) ==
    /\ pc[t] = "pop_lock"
    /\ IF head /= Null
       THEN /\ cur' = [cur EXCEPT ![t] = head]
            /\ tail' = IF next[head] = Null THEN Null ELSE tail
            /\ head' = next[head]
            /\ pc' = [pc EXCEPT ![t] = "run"]
       ELSE /\ pc' = [pc EXCEPT ![t] = "pop"]
            /\ UNCHANGED <<cur, head, tail>>
    /\ UNCHANGED <<next, workDone, waiting, cvWait, round, pushed, done>>

\* Lines 56-59: run the item's function, sema_up its done, pop again.
RunWork(t) ==
    /\ pc[t] = "run"
    /\ done' = [done EXCEPT ![cur[t]] = @ + 1]
    /\ cur' = [cur EXCEPT ![t] = Null]
    /\ pc' = [pc EXCEPT ![t] = "pop"]
    /\ UNCHANGED <<head, tail, next, workDone, waiting, cvWait, round, pushed>>

(* thread_start_work has returned.  Another round: the main thread calls   *)
(* thread_unrelease_all (lines 86-88) and pushes again; the others call    *)
(* thread_start_work again.                                                *)
Return(t) ==
    /\ pc[t] = "ret"
    /\ IF round[t] < Rounds
       THEN /\ round' = [round EXCEPT ![t] = @ + 1]
            /\ pc' = [pc EXCEPT ![t] = IF t = Main THEN "push" ELSE "b1"]
            /\ workDone' = IF t = Main THEN FALSE ELSE workDone
            /\ pushed' = IF t = Main THEN 0 ELSE pushed
       ELSE /\ pc' = [pc EXCEPT ![t] = "finished"]
            /\ UNCHANGED <<round, workDone, pushed>>
    /\ UNCHANGED <<head, tail, next, waiting, cvWait, cur, done>>

Finished ==
    /\ \A t \in Threads : pc[t] = "finished"
    /\ UNCHANGED vars

ThreadStep(t) ==
    \/ t = Main /\ (Push \/ Release)
    \/ Arrive(t) \/ Wake(t) \/ PopSpin(t) \/ PopLocked(t) \/ RunWork(t)
    \/ Return(t)

PoolNext == (\E t \in Threads : ThreadStep(t)) \/ Finished

(* Each thread is an enclave thread the host keeps scheduling, and every  *)
(* wait of the code is a spin or a condvar wait that an enabled step ends: *)
(* weak fairness per thread.                                               *)
PoolSpec == PoolInit /\ [][PoolNext]_vars /\ \A t \in Threads : WF_vars(ThreadStep(t))

-----------------------------------------------------------------------------
PoolTypeOK ==
    /\ head \in Work \cup {Null}
    /\ tail \in Work \cup {Null}
    /\ next \in [Work -> Work \cup {Null}]
    /\ waiting \in 0 .. T - 1
    /\ cvWait \subseteq Threads
    /\ pc \in [Threads -> {"push", "b1", "b1_wait", "pop", "pop_lock", "run",
                           "b2", "b2_wait", "ret", "finished"}]
    /\ done \in [Work -> Nat]

(* When a thread returns from thread_start_work, the second barrier has    *)
(* let it through only after every thread left the work loop, so every     *)
(* item of its round has run: the main thread may use the round's results. *)
RoundCompleteOnReturn ==
    \A t \in Threads :
        pc[t] = "ret" => \A k \in 1 .. TasksPerRound : done[<<round[t], k>>] = 1

(* The barriers and the release latch never leave a thread waiting for    *)
(* ever: every thread finishes every round.                                *)
AllFinish == <>(\A t \in Threads : pc[t] = "finished")

\* The items on the linked list from w on, following next: at most k of
\* them, so that a list a bug has made circular is still a finite sequence.
RECURSIVE ListFrom(_, _)
ListFrom(w, k) ==
    IF w = Null \/ k = 0 THEN <<>> ELSE <<w>> \o ListFrom(next[w], k - 1)

\* The items the main thread has pushed: all of the earlier rounds' and the
\* first `pushed` of its own.
Submitted ==
    {w \in Work : w[1] < round[Main] \/ (w[1] = round[Main] /\ w[2] <= pushed)}

TQ == INSTANCE TaskQueue WITH
        Items <- Work,
        None <- Null,
        submitted <- Submitted,
        queue <- ListFrom(head, Cardinality(Work)),
        holder <- cur,
        ran <- done

(* work_head, work_tail and the next links, updated by thread_work_push   *)
(* and by the locked part of thread_work_pop while other threads spin on   *)
(* work_head, implement the FIFO of the spec: a push appends to the list   *)
(* read from work_head, a pop takes its front, and the item is run by the  *)
(* thread that popped it, across rounds in which the list empties and      *)
(* fills again.                                                            *)
FifoRefined == TQ!TqSpec

=============================================================================
