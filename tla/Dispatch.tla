------------------------------ MODULE Dispatch ------------------------------
(***************************************************************************)
(* The delayed-call queue of src/main/fc/dispatch.c: a linked list of      *)
(* entries ordered by the time they fall due, drained by TASK_DISPATCH.    *)
(* The clock is micros(), an unsigned word that wraps; deadlines are       *)
(* compared with cmp32(), the sign of the difference.  Here the word has   *)
(* `Word' values.  The tasks are cooperative, so dispatchAdd() is called   *)
(* either from another task or from a handler the drain loop is running.   *)
(***************************************************************************)
EXTENDS Integers, Sequences, SequencesExt

CONSTANTS
    Entry,      \* the statically allocated dispatchEntry_t objects
    NoEntry,    \* a NULL entry pointer
    Word,       \* number of values of the wrapping microsecond counter
    MaxDelay,   \* longest delay a caller asks for
    MaxLate     \* longest time a due entry waits for TASK_DISPATCH to run

ASSUME DispatchAssumption ==
    /\ NoEntry \notin Entry
    /\ Word \in Nat /\ MaxDelay \in Nat /\ MaxLate \in Nat
    /\ 2 * (MaxDelay + MaxLate + 1) < Word

VARIABLES
    now,            \* micros()
    queue,          \* the list from `head', first entry first
    inQue,          \* the entries whose inQue flag is set
    delayedUntil,   \* deadline of each entry, meaningful while it is queued
    procTime,       \* currentTimeUs of the running dispatchProcess(), or Idle
    running         \* the handler being run by dispatchProcess(), or NoEntry

vars == <<now, queue, inQue, delayedUntil, procTime, running>>

Idle == -1

Time == 0 .. Word - 1

\* Mutant: deadlines compared as unsigned values.
cmp32_unsigned(a, b) == a - b

\* cmp32(a, b): the difference as a signed word.
cmp32(a, b) ==
    LET d == (a - b) % Word IN IF 2 * d < Word THEN d ELSE d - Word

-----------------------------------------------------------------------------
\* Mutant: the walk along the list stops at once.
LinksAt_head(i, t) == i = 1

\* The walk of dispatchAdd(): an entry due at t is linked at position i, past
\* every entry that is due strictly before it and no further.
LinksAt(i, t) ==
    /\ \A j \in 1 .. i - 1 : cmp32(delayedUntil[queue[j]], t) < 0
    /\ i <= Len(queue) => cmp32(delayedUntil[queue[i]], t) >= 0

\* Mutant: the inQue test is missing.
Enqueue_twice(e, delay) ==
    LET t == (now + delay) % Word IN
    /\ Len(queue) < 4
    /\ \E i \in 1 .. Len(queue) + 1 : LinksAt(i, t) /\ queue' = InsertAt(queue, i, e)
    /\ inQue' = inQue \cup {e}
    /\ delayedUntil' = [delayedUntil EXCEPT ![e] = t]

Enqueue(e, delay) ==
    LET t == (now + delay) % Word IN
    IF e \in inQue
    THEN UNCHANGED <<queue, inQue, delayedUntil>>
    ELSE /\ \E i \in 1 .. Len(queue) + 1 :
               LinksAt(i, t) /\ queue' = InsertAt(queue, i, e)
         /\ inQue' = inQue \cup {e}
         /\ delayedUntil' = [delayedUntil EXCEPT ![e] = t]

dispatchAdd(e, delay) ==
    /\ procTime = Idle \/ running # NoEntry
    /\ Enqueue(e, delay)
    /\ UNCHANGED <<now, procTime, running>>

-----------------------------------------------------------------------------
\* TASK_DISPATCH starts a pass with the time the scheduler sampled.
processStart ==
    /\ procTime = Idle
    /\ procTime' = now
    /\ UNCHANGED <<now, queue, inQue, delayedUntil, running>>

\* Mutant: the flag is cleared by nobody.
processNext_keepsFlag ==
    /\ procTime # Idle /\ running = NoEntry
    /\ queue # <<>> /\ cmp32(procTime, delayedUntil[Head(queue)]) >= 0
    /\ running' = Head(queue)
    /\ queue' = Tail(queue)
    /\ UNCHANGED <<now, inQue, delayedUntil, procTime>>

\* One turn of the loop: unlink the head if it is due, then call its handler.
processNext ==
    /\ procTime # Idle /\ running = NoEntry
    /\ queue # <<>> /\ cmp32(procTime, delayedUntil[Head(queue)]) >= 0
    /\ running' = Head(queue)
    /\ queue' = Tail(queue)
    /\ inQue' = inQue \ {Head(queue)}
    /\ UNCHANGED <<now, delayedUntil, procTime>>

handlerDone ==
    /\ running # NoEntry
    /\ running' = NoEntry
    /\ UNCHANGED <<now, queue, inQue, delayedUntil, procTime>>

\* The loop ends at the first entry that is not due, or at the end of the list.
processEnd ==
    /\ procTime # Idle /\ running = NoEntry
    /\ \/ queue = <<>>
       \/ queue # <<>> /\ cmp32(procTime, delayedUntil[Head(queue)]) < 0
    /\ procTime' = Idle
    /\ UNCHANGED <<now, queue, inQue, delayedUntil, running>>

\* Time passes; a due entry is never left longer than MaxLate, because
\* TASK_DISPATCH runs at 1 kHz and its priority is high (fc/tasks.c).
Tick ==
    /\ \A e \in inQue : cmp32(now, delayedUntil[e]) < MaxLate
    /\ procTime # Idle => cmp32(now, procTime) < MaxLate
    /\ now' = (now + 1) % Word
    /\ UNCHANGED <<queue, inQue, delayedUntil, procTime, running>>

Init ==
    /\ now \in Time
    /\ queue = <<>>
    /\ inQue = {}
    /\ delayedUntil = [e \in Entry |-> 0]
    /\ procTime = Idle
    /\ running = NoEntry

Next ==
    \/ \E e \in Entry, d \in 1 .. MaxDelay : dispatchAdd(e, d)
    \/ processStart
    \/ processNext
    \/ handlerDone
    \/ processEnd
    \/ Tick

Spec == Init /\ [][Next]_vars

FairSpec ==
    /\ Spec
    /\ WF_vars(processStart) /\ WF_vars(processNext)
    /\ WF_vars(handlerDone) /\ WF_vars(processEnd) /\ WF_vars(Tick)

-----------------------------------------------------------------------------
TypeOK ==
    /\ now \in Time
    /\ queue \in Seq(Entry)
    /\ inQue \subseteq Entry
    /\ delayedUntil \in [Entry -> Time]
    /\ procTime \in Time \cup {Idle}
    /\ running \in Entry \cup {NoEntry}

\* The inQue flags are exactly the entries linked in the list, and no entry is
\* linked twice: a second link of an object with one `next' field would cut
\* the list or close it into a ring.
LinkedOnce ==
    /\ inQue = ToSet(queue)
    /\ \A i, j \in 1 .. Len(queue) : queue[i] = queue[j] => i = j

\* The list stays ordered by deadline across the wrap of the counter, so the
\* drain loop, which stops at the first entry that is not due, misses none.
OrderedByDeadline ==
    \A i, j \in 1 .. Len(queue) :
        i < j => cmp32(delayedUntil[queue[i]], delayedUntil[queue[j]]) <= 0

\* No handler is called before its delay has passed (dispatchProcess() tests
\* the sampled time, which is never ahead of the clock).
NeverEarly ==
    [][\A e \in Entry : running' = e /\ running # e => cmp32(now, delayedUntil[e]) >= 0]_vars

\* Every queued call is eventually made.
EventuallyRun == \A e \in Entry : e \in inQue ~> running = e
=============================================================================
