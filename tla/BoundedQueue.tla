------------------------------ MODULE BoundedQueue ------------------------------
(***************************************************************************)
(* conduit::queue::BoundedQueue<T>: the bounded ring buffer, guarded by one *)
(* mutex and two condition variables, that carries decoded messages from    *)
(* the transport I/O threads to the worker threads.                         *)
(*                                                                          *)
(* A critical section of the code is one step.  What happens outside the    *)
(* mutex is a step of its own: the notify call that follows the unlock, the *)
(* wake-up of a waiting thread, and the re-evaluation of its predicate once *)
(* it holds the mutex again.                                                *)
(***************************************************************************)
EXTENDS Integers, FiniteSets

CONSTANTS Producers,    \* threads that push
          Consumers,    \* threads that pop
          Managers,     \* threads that close, clear or reset the statistics
          Items,        \* values of T that are pushed
          NoItem,       \* T{}, what an unused slot holds
          Capacity,     \* the constructor's argument; 0 is accepted
          DropPolicies, \* the policies a queue is constructed with
          BatchSizes,   \* arguments of pop_batch
          MaxCount      \* bound: no push starts at carried + enqueued + dropped >= MaxCount

Policies == {"DropOldest", "DropNewest", "Block"}

ASSUME CapacityAssumption == Capacity \in Nat
ASSUME PolicyAssumption == DropPolicies \subseteq Policies
ASSUME ItemsAssumption == NoItem \notin Items
ASSUME BatchAssumption == BatchSizes \subseteq Nat
ASSUME BoundAssumption == MaxCount \in Nat

Threads == Producers \cup Consumers \cup Managers
ASSUME ThreadsAssumption == IsFiniteSet(Threads)

VARIABLES
    buffer, head, tail, size,   \* the ring
    closed,
    drop_policy,  \* set by the constructor
    stats,        \* QueueStats
    not_empty,    \* threads waiting on not_empty_
    not_full,     \* threads waiting on not_full_
    pc,           \* where each thread is in the call it makes
    arg,          \* the item a blocked producer holds
    carried,      \* history: elements queued when the statistics were last reset
    cleared       \* history: elements discarded by clear() since then

ring == <<buffer, head, tail, size>>
waits == <<not_empty, not_full>>
history == <<carried, cleared>>
vars == <<ring, closed, drop_policy, stats, waits, pc, arg, history>>

capacity == IF Capacity > 0 THEN Capacity ELSE 1
Slots == 0..(capacity - 1)
Succ(i) == (i + 1) % capacity

Init ==
    /\ buffer = [i \in Slots |-> NoItem]
    /\ head = 0 /\ tail = 0 /\ size = 0
    /\ closed = FALSE
    /\ drop_policy \in DropPolicies
    /\ stats = [enqueued |-> 0, dequeued |-> 0, dropped |-> 0,
                peak_size |-> 0, current_size |-> 0]
    /\ not_empty = {} /\ not_full = {}
    /\ pc = [t \in Threads |-> "idle"]
    /\ arg = [t \in Threads |-> NoItem]
    /\ carried = 0 /\ cleared = 0

-----------------------------------------------------------------------------
(* The predicates the two condition variables wait for. *)
CanPush == size < capacity \/ closed
CanPop == size > 0 \/ closed

Goto(t, l) == pc' = [pc EXCEPT ![t] = l]
Return(t, l) == Goto(t, l) /\ arg' = [arg EXCEPT ![t] = NoItem]

(* A producer enters a call, or resumes with item x the one it was woken from. *)
BeginPush(t) == pc[t] = "idle" /\ carried + stats.enqueued + stats.dropped < MaxCount

InPush(t, op, x) ==
    \/ BeginPush(t)
    \/ pc[t] = op /\ arg[t] = x /\ t \notin not_full

InPop(t, op) ==
    \/ pc[t] = "idle"
    \/ pc[t] = op /\ t \notin not_empty

(* What the return statements and the stores share. *)
ReturnFalse(t) ==
    /\ Return(t, "idle")
    /\ UNCHANGED <<ring, closed, stats, waits, history>>

Reject(t) ==
    /\ stats' = [stats EXCEPT !.dropped = @ + 1]
    /\ Return(t, "idle")
    /\ UNCHANGED <<ring, closed, waits, history>>

update_peak_size(s, n) ==
    [s EXCEPT !.current_size = n, !.peak_size = IF n > @ THEN n ELSE @]

Enqueue(t, x) ==
    /\ buffer' = [buffer EXCEPT ![tail] = x]
    /\ tail' = Succ(tail)
    /\ size' = size + 1
    /\ stats' = update_peak_size([stats EXCEPT !.enqueued = @ + 1], size + 1)
    /\ Return(t, "notify_not_empty")
    /\ UNCHANGED <<head, closed, waits, history>>

(* Mutant of EvictAndEnqueue: the newest element is given up, not the oldest. *)
EvictNewest(t, x) ==
    /\ buffer' = [buffer EXCEPT ![(tail + capacity - 1) % capacity] = x]
    /\ stats' = update_peak_size([stats EXCEPT !.enqueued = @ + 1,
                                               !.dropped = @ + 1], size)
    /\ Return(t, "notify_not_empty")
    /\ UNCHANGED <<head, tail, size, closed, waits, history>>

(* DropOldest on a full ring: the head slot is cleared and given up first. *)
EvictAndEnqueue(t, x) ==
    /\ buffer' = [buffer EXCEPT ![head] = NoItem, ![tail] = x]
    /\ head' = Succ(head)
    /\ tail' = Succ(tail)
    /\ stats' = update_peak_size([stats EXCEPT !.enqueued = @ + 1,
                                               !.dropped = @ + 1], size)
    /\ Return(t, "notify_not_empty")
    /\ UNCHANGED <<size, closed, waits, history>>

(* The part of a push behind its wait; "rejecting" are the policies under   *)
(* which that call refuses the item when the ring is full.                  *)
Admit(t, x, rejecting) ==
    \/ /\ closed
       /\ ReturnFalse(t)
    \/ /\ ~closed
       /\ size < capacity \/ drop_policy \notin {"DropOldest"} \cup rejecting
       /\ Enqueue(t, x)
    \/ /\ ~closed
       /\ size >= capacity /\ drop_policy = "DropOldest"
       /\ EvictAndEnqueue(t, x)
    \/ /\ ~closed
       /\ size >= capacity /\ drop_policy \in rejecting
       /\ Reject(t)

WaitNotFull(t, op, x) ==
    /\ not_full' = not_full \cup {t}
    /\ Goto(t, op)
    /\ arg' = [arg EXCEPT ![t] = x]
    /\ UNCHANGED <<ring, closed, stats, not_empty, history>>

-----------------------------------------------------------------------------
(* Producer operations. *)

try_push(t, x) ==
    /\ BeginPush(t)
    /\ Admit(t, x, {"DropNewest", "Block"})

push(t, x) ==
    /\ InPush(t, "push", x)
    /\ \/ drop_policy = "Block" /\ ~CanPush /\ WaitNotFull(t, "push", x)
       \/ (drop_policy = "Block" => CanPush) /\ Admit(t, x, {"DropNewest"})

push_for(t, x) ==
    /\ InPush(t, "push_for", x)
    /\ \/ drop_policy = "Block" /\ ~CanPush /\ WaitNotFull(t, "push_for", x)
       \/ (drop_policy = "Block" => CanPush) /\ Admit(t, x, {"DropNewest", "Block"})

(* wait_for gave up: it reports the predicate as it finds it under the mutex. *)
push_for_expired(t) ==
    /\ pc[t] = "push_for_expired"
    /\ \/ ~CanPush /\ ReturnFalse(t)
       \/ CanPush /\ Admit(t, arg[t], {"DropNewest", "Block"})

-----------------------------------------------------------------------------
(* Consumer operations. *)

(* Mutant of Dequeue: nobody is notified. *)
DequeueSilent(t) ==
    /\ buffer' = [buffer EXCEPT ![head] = NoItem]
    /\ head' = Succ(head)
    /\ size' = size - 1
    /\ stats' = [stats EXCEPT !.dequeued = @ + 1, !.current_size = size - 1]
    /\ Goto(t, "idle")
    /\ UNCHANGED <<tail, closed, waits, arg, history>>

Dequeue(t) ==
    /\ buffer' = [buffer EXCEPT ![head] = NoItem]
    /\ head' = Succ(head)
    /\ size' = size - 1
    /\ stats' = [stats EXCEPT !.dequeued = @ + 1, !.current_size = size - 1]
    /\ Goto(t, "notify_not_full")
    /\ UNCHANGED <<tail, closed, waits, arg, history>>

ReturnNull(t) ==
    /\ Goto(t, "idle")
    /\ UNCHANGED <<ring, closed, stats, waits, arg, history>>

WaitNotEmpty(t, op) ==
    /\ not_empty' = not_empty \cup {t}
    /\ Goto(t, op)
    /\ UNCHANGED <<ring, closed, stats, not_full, arg, history>>

try_pop(t) ==
    /\ pc[t] = "idle"
    /\ \/ size = 0 /\ ReturnNull(t)
       \/ size > 0 /\ Dequeue(t)

pop(t) ==
    /\ InPop(t, "pop")
    /\ \/ ~CanPop /\ WaitNotEmpty(t, "pop")
       \/ CanPop /\ size = 0 /\ ReturnNull(t)
       \/ CanPop /\ size > 0 /\ Dequeue(t)

pop_for(t) ==
    /\ InPop(t, "pop_for")
    /\ \/ ~CanPop /\ WaitNotEmpty(t, "pop_for")
       \/ CanPop /\ size = 0 /\ ReturnNull(t)
       \/ CanPop /\ size > 0 /\ Dequeue(t)

pop_for_expired(t) ==
    /\ pc[t] = "pop_for_expired"
    /\ \/ size = 0 /\ ReturnNull(t)
       \/ size > 0 /\ Dequeue(t)

(* The i-th slot of the live part of the ring, counting from 0. *)
At(i) == (head + i) % capacity

(* The slots given up when the n oldest elements leave. *)
ReleasedSlots(n) == {At(i) : i \in 0..(n - 1)}

Release(n) ==
    /\ buffer' = [s \in Slots |-> IF s \in ReleasedSlots(n) THEN NoItem ELSE buffer[s]]
    /\ head' = At(n)
    /\ size' = size - n
    /\ UNCHANGED tail

(* Mutant of pop_batch: one waiter is notified for the whole batch. *)
pop_batch_notify_one(t, max_count) ==
    LET count == IF max_count < size THEN max_count ELSE size
    IN /\ pc[t] = "idle"
       /\ Release(count)
       /\ stats' = [stats EXCEPT !.dequeued = @ + count, !.current_size = size - count]
       /\ Goto(t, IF count > 0 THEN "notify_not_full" ELSE "idle")
       /\ UNCHANGED <<closed, waits, arg, history>>

pop_batch(t, max_count) ==
    LET count == IF max_count < size THEN max_count ELSE size
    IN /\ pc[t] = "idle"
       /\ Release(count)
       /\ stats' = [stats EXCEPT !.dequeued = @ + count, !.current_size = size - count]
       /\ Goto(t, IF count > 0 THEN "notify_all_not_full" ELSE "idle")
       /\ UNCHANGED <<closed, waits, arg, history>>

-----------------------------------------------------------------------------
(* Queue management. *)

close(t) ==
    /\ pc[t] = "idle"
    /\ closed' = TRUE
    /\ Goto(t, "close_notify_not_empty")
    /\ UNCHANGED <<ring, stats, waits, arg, history>>

clear(t) ==
    /\ pc[t] = "idle"
    /\ Release(size)
    /\ stats' = [stats EXCEPT !.current_size = 0]
    /\ cleared' = cleared + size
    /\ Goto(t, "notify_all_not_full")
    /\ UNCHANGED <<closed, waits, arg, carried>>

reset_stats(t) ==
    /\ pc[t] = "idle"
    /\ stats' = [enqueued |-> 0, dequeued |-> 0, dropped |-> 0,
                 peak_size |-> 0, current_size |-> 0]
    /\ carried' = size /\ cleared' = 0
    /\ UNCHANGED <<ring, closed, waits, pc, arg>>

-----------------------------------------------------------------------------
(* The notify calls, made after the mutex is released. *)

NotifyOne(cv, cv1) ==
    IF cv = {} THEN cv1 = cv ELSE \E w \in cv : cv1 = cv \ {w}

notify_not_empty(t) ==
    /\ pc[t] = "notify_not_empty"
    /\ NotifyOne(not_empty, not_empty')
    /\ Goto(t, "idle")
    /\ UNCHANGED <<ring, closed, stats, not_full, arg, history>>

notify_not_full(t) ==
    /\ pc[t] = "notify_not_full"
    /\ NotifyOne(not_full, not_full')
    /\ Goto(t, "idle")
    /\ UNCHANGED <<ring, closed, stats, not_empty, arg, history>>

notify_all_not_full(t) ==
    /\ pc[t] = "notify_all_not_full"
    /\ not_full' = {}
    /\ Goto(t, "idle")
    /\ UNCHANGED <<ring, closed, stats, not_empty, arg, history>>

(* close() notifies the consumers first, then the producers. *)
close_notify_not_empty(t) ==
    /\ pc[t] = "close_notify_not_empty"
    /\ not_empty' = {}
    /\ Goto(t, "notify_all_not_full")
    /\ UNCHANGED <<ring, closed, stats, not_full, arg, history>>

-----------------------------------------------------------------------------
(* std::condition_variable: wake-ups nobody asked for, and expiry of wait_for. *)

SpuriousWakeup(t) ==
    /\ t \in not_empty \cup not_full
    /\ not_empty' = not_empty \ {t}
    /\ not_full' = not_full \ {t}
    /\ UNCHANGED <<ring, closed, stats, pc, arg, history>>

Expire(t) ==
    /\ t \in not_empty \cup not_full
    /\ \/ pc[t] = "push_for" /\ Goto(t, "push_for_expired")
       \/ pc[t] = "pop_for" /\ Goto(t, "pop_for_expired")
    /\ not_empty' = not_empty \ {t}
    /\ not_full' = not_full \ {t}
    /\ UNCHANGED <<ring, closed, stats, arg, history>>

-----------------------------------------------------------------------------
ProducerStep(t) ==
    \/ \E x \in Items : try_push(t, x) \/ push(t, x) \/ push_for(t, x)
    \/ push_for_expired(t)

ConsumerStep(t) ==
    \/ try_pop(t) \/ pop(t) \/ pop_for(t) \/ pop_for_expired(t)
    \/ \E n \in BatchSizes : pop_batch(t, n)

ManagerStep(t) == close(t) \/ clear(t) \/ reset_stats(t)

NotifyStep(t) ==
    \/ notify_not_empty(t) \/ notify_not_full(t)
    \/ notify_all_not_full(t) \/ close_notify_not_empty(t)

Step ==
    \/ \E t \in Producers : ProducerStep(t)
    \/ \E t \in Consumers : ConsumerStep(t)
    \/ \E t \in Managers : ManagerStep(t)
    \/ \E t \in Threads : NotifyStep(t) \/ SpuriousWakeup(t) \/ Expire(t)

(* Nothing changes the policy after construction. *)
Next == Step /\ UNCHANGED drop_policy

Spec == Init /\ [][Next]_vars

(* A thread inside a call is scheduled again and again.  A timed wait keeps  *)
(* one deadline across its wake-ups, so it ends however often it is woken    *)
(* in vain: strong fairness.  Nothing obliges a thread to make a call, and   *)
(* no spurious wake-up is ever due.                                          *)
Proceed(t) ==
    /\ pc[t] # "idle"
    /\ \/ t \in Producers /\ ProducerStep(t)
       \/ t \in Consumers /\ ConsumerStep(t)
       \/ NotifyStep(t)
    /\ UNCHANGED drop_policy

FairSpec ==
    /\ Spec
    /\ \A t \in Threads :
        WF_vars(Proceed(t)) /\ SF_vars(Expire(t) /\ UNCHANGED drop_policy)
-----------------------------------------------------------------------------
(* Properties. *)

Labels ==
    {"idle", "push", "push_for", "push_for_expired", "pop", "pop_for",
     "pop_for_expired", "notify_not_empty", "notify_not_full",
     "notify_all_not_full", "close_notify_not_empty"}

(* The type of every variable.  Only a thread inside a blocking push waits   *)
(* on not_full_, only one inside a blocking pop waits on not_empty_, and the *)
(* item a producer holds is a real one for as long as its call may store it. *)
TypeOK ==
    /\ buffer \in [Slots -> Items \cup {NoItem}]
    /\ head \in Slots /\ tail \in Slots /\ size \in 0..capacity
    /\ closed \in BOOLEAN /\ drop_policy \in Policies
    /\ stats \in [enqueued : Nat, dequeued : Nat, dropped : Nat,
                  peak_size : Nat, current_size : Nat]
    /\ pc \in [Threads -> Labels]
    /\ arg \in [Threads -> Items \cup {NoItem}]
    /\ not_empty \subseteq {t \in Threads : pc[t] \in {"pop", "pop_for"}}
    /\ not_full \subseteq {t \in Threads : pc[t] \in {"push", "push_for"}}
    /\ \A t \in Threads :
         pc[t] \in {"push", "push_for", "push_for_expired"} => arg[t] \in Items
    /\ carried \in Nat /\ cleared \in Nat

(* head_, tail_ and size_ describe one window of the ring: the size_ slots   *)
(* from head_ on hold elements, tail_ is the slot after them, and every slot *)
(* outside the window has been reset to T{} so that nothing outlives its pop. *)
RingInv ==
    /\ tail = At(size)
    /\ \A i \in 0..(size - 1) : buffer[At(i)] \in Items
    /\ \A i \in size..(capacity - 1) : buffer[At(i)] = NoItem

(* Every element ever stored is still queued, was handed to a consumer, was  *)
(* evicted by DropOldest or discarded by clear(): the counters of QueueStats *)
(* never lose or double-count one, whatever calls overlap.  reset_stats()    *)
(* starts a new balance from the elements then queued.                       *)
Conservation ==
    stats.enqueued + carried =
        stats.dequeued + cleared + size
            + (IF drop_policy = "DropOldest" THEN stats.dropped ELSE 0)

(* Threads that have left the wait set of a condition variable, or never got *)
(* there, and will look at the queue before they can wait again; and threads *)
(* about to notify one waiter.                                               *)
ProducerTokens ==
    {t \in Threads : \/ pc[t] \in {"notify_not_full", "push_for_expired"}
                     \/ pc[t] \in {"push", "push_for"} /\ t \notin not_full}
ConsumerTokens ==
    {t \in Threads : \/ pc[t] \in {"notify_not_empty", "pop_for_expired"}
                     \/ pc[t] \in {"pop", "pop_for"} /\ t \notin not_empty}

(* No producer sleeps through a free slot.  While one waits on not_full_, a  *)
(* notify_all is on its way, or every free slot has a thread of its own that *)
(* is about to fill it or to wake a waiter; after close() only the           *)
(* notify_all will do.  The notify calls are made outside the mutex, so this *)
(* has to hold however late they come.                                       *)
NoLostProducerWakeup ==
    not_full # {} =>
        \/ \E t \in Threads : pc[t] \in {"notify_all_not_full", "close_notify_not_empty"}
        \/ ~closed /\ capacity - size <= Cardinality(ProducerTokens)

(* No consumer sleeps through an element: the same for not_empty_, with one  *)
(* notify_one per push.                                                      *)
NoLostConsumerWakeup ==
    not_empty # {} =>
        \/ \E t \in Threads : pc[t] = "close_notify_not_empty"
        \/ ~closed /\ size <= Cardinality(ConsumerTokens)

(* Both: no wake-up is lost, for however long the notify calls are delayed.  *)
NoLostWakeup == NoLostProducerWakeup /\ NoLostConsumerWakeup

(* Once close() has run, no call stores an element any more, not even a      *)
(* producer that was blocked when it ran: the queue only drains.             *)
CloseIsFinal ==
    [][closed => closed' /\ size' <= size /\ stats'.enqueued <= stats.enqueued]_vars

(* A blocked producer does not stay blocked beside a slot that stays free,   *)
(* nor a blocked consumer beside an element nobody takes; and close()        *)
(* releases everybody: every call in progress when the queue is closed, or   *)
(* begun later, returns.                                                     *)
NobodyStranded ==
    /\ \A t \in Producers : (t \in not_full /\ size < capacity)
                               ~> (t \notin not_full \/ size = capacity)
    /\ \A t \in Consumers : (t \in not_empty /\ size > 0)
                               ~> (t \notin not_empty \/ size = 0)
    /\ \A t \in Threads : (closed /\ pc[t] # "idle") ~> pc[t] = "idle"

-----------------------------------------------------------------------------
(* What the queue promises: a lossy FIFO. *)
contents == [i \in 1..size |-> buffer[At(i - 1)]]

Fifo == INSTANCE FifoQueue WITH q <- contents

(* Every behaviour of the ring, with its wrap-around, evictions, batches and *)
(* blocked callers, is a behaviour of the FIFO queue of FifoQueue.           *)
RefinesFifo == Fifo!Spec
=============================================================================
