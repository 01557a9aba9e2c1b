------------------------------ MODULE TaskQueue ------------------------------
(***************************************************************************)
(* What the task pool promises (spec section 4.2): a single FIFO of work.  *)
(* A pushed item joins the back; a thread takes the item at the front and  *)
(* holds it until it has run it; every item is run once.                   *)
(***************************************************************************)
EXTENDS Naturals, Sequences

CONSTANTS
    Threads,    \* the threads that take work
    Items,      \* the work items
    None        \* what a thread holds when it holds no item

VARIABLES
    submitted,  \* the items pushed so far
    queue,      \* the items pushed and not yet taken, oldest first
    holder,     \* holder[t]: the item thread t has taken and not yet run
    ran         \* ran[w]: how often item w has been run

tqVars == <<submitted, queue, holder, ran>>

TqInit ==
    /\ submitted = {}
    /\ queue = <<>>
    /\ holder = [t \in Threads |-> None]
    /\ ran = [w \in Items |-> 0]

\* An item that was never pushed before joins the back of the queue.
TqPush(w) ==
    /\ w \notin submitted
    /\ submitted' = submitted \cup {w}
    /\ queue' = Append(queue, w)
    /\ UNCHANGED <<holder, ran>>

\* An idle thread takes the front item.
TqTake(t) ==
    /\ holder[t] = None
    /\ queue /= <<>>
    /\ holder' = [holder EXCEPT ![t] = Head(queue)]
    /\ queue' = Tail(queue)
    /\ UNCHANGED <<submitted, ran>>

\* A thread runs the item it holds.
TqRun(t) ==
    /\ holder[t] /= None
    /\ ran' = [ran EXCEPT ![holder[t]] = @ + 1]
    /\ holder' = [holder EXCEPT ![t] = None]
    /\ UNCHANGED <<submitted, queue>>

TqNext ==
    \/ \E w \in Items : TqPush(w)
    \/ \E t \in Threads : TqTake(t) \/ TqRun(t)

TqSpec == TqInit /\ [][TqNext]_tqVars

=============================================================================
