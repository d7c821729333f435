-------------------------- MODULE BoundedQueueProofs --------------------------
(***************************************************************************)
(* Proofs about BoundedQueue for every capacity, policy and set of threads. *)
(* What is stored is followed through what a step does to the ring and the  *)
(* counters (Effect): seven kinds of steps, whatever call of whatever       *)
(* thread makes them.  That no wake-up is lost is a matter of counting the  *)
(* threads that are on their way to the queue; that the ring is a FIFO      *)
(* queue follows from the effects.                                          *)
(***************************************************************************)
EXTENDS BoundedQueue, SequenceTheorems, FiniteSetTheorems, TLAPS

(* The ring has at least one slot, also for a capacity argument of 0. *)
LEMMA CapacityPositive == capacity \in Nat \ {0}
BY CapacityAssumption DEF capacity

(* Remainders of a sum that passes the end of the ring at most once. *)
LEMMA WrapAround ==
    ASSUME NEW n \in Nat \ {0}, NEW h \in 0..(n - 1), NEW i \in 0..n
    PROVE  (h + i) % n = IF h + i < n THEN h + i ELSE h + i - n
<1>1. CASE h + i < n
  <2>1. h + i \in 0..(n - 1)
    BY <1>1
  <2> QED
    BY <1>1, <2>1
<1>2. CASE h + i >= n
  <2>1. h + i \in n..(2 * n - 1)
    BY <1>2
  <2>2. \A a \in n..(2 * n - 1) : a % n = a - n
    OBVIOUS
  <2> QED
    BY <1>2, <2>1, <2>2
<1> QED
  BY <1>1, <1>2

(* At(i) is the i-th slot behind head_, with one wrap-around. *)
LEMMA AtValue ==
    ASSUME head \in Slots
    PROVE  \A i \in 0..capacity :
             /\ At(i) = IF head + i < capacity THEN head + i ELSE head + i - capacity
             /\ At(i) \in Slots
<1> TAKE i \in 0..capacity
<1>1. At(i) = IF head + i < capacity THEN head + i ELSE head + i - capacity
  BY CapacityPositive, WrapAround, Zenon DEF At, Slots
<1> QED
  BY <1>1, CapacityPositive DEF Slots

(* The slot after one, modulo the capacity. *)
LEMMA SuccValue ==
    ASSUME NEW i \in Slots
    PROVE  /\ Succ(i) = IF i + 1 < capacity THEN i + 1 ELSE 0
           /\ Succ(i) \in Slots
<1>1. /\ capacity \in Nat \ {0} /\ i \in 0..(capacity - 1) /\ 1 \in 0..capacity
  BY CapacityPositive DEF Slots
<1>2. (i + 1) % capacity = IF i + 1 < capacity THEN i + 1 ELSE i + 1 - capacity
  BY ONLY <1>1, WrapAround, Zenon
<1> QED
  BY <1>1, <1>2 DEF Succ, Slots

(* update_peak_size yields well-typed statistics. *)
LEMMA PeakType ==
    ASSUME NEW s \in [enqueued : Nat, dequeued : Nat, dropped : Nat,
                      peak_size : Nat, current_size : Nat],
           NEW n \in Nat
    PROVE  update_peak_size(s, n) \in [enqueued : Nat, dequeued : Nat, dropped : Nat,
                                       peak_size : Nat, current_size : Nat]
BY Zenon DEF update_peak_size

(* Two counters change at once. *)
LEMMA StatsTwo ==
    ASSUME NEW s \in [enqueued : Nat, dequeued : Nat, dropped : Nat,
                      peak_size : Nat, current_size : Nat],
           NEW i \in Nat, NEW j \in Nat
    PROVE  /\ [s EXCEPT !.enqueued = i, !.dropped = j]
                 \in [enqueued : Nat, dequeued : Nat, dropped : Nat,
                      peak_size : Nat, current_size : Nat]
           /\ [s EXCEPT !.dequeued = i, !.current_size = j]
                 \in [enqueued : Nat, dequeued : Nat, dropped : Nat,
                      peak_size : Nat, current_size : Nat]
BY Zenon

-----------------------------------------------------------------------------
(* What a step does to the ring and to the counters. *)

StatsType == [enqueued : Nat, dequeued : Nat, dropped : Nat,
              peak_size : Nat, current_size : Nat]

Effect ==
    \/ \E t \in Threads, x \in Items : ~closed /\ size < capacity /\ Enqueue(t, x)
    \/ \E t \in Threads, x \in Items :
         ~closed /\ size = capacity /\ drop_policy = "DropOldest" /\ EvictAndEnqueue(t, x)
    \/ \E t \in Threads : drop_policy # "DropOldest" /\ Reject(t)
    \/ \E t \in Threads : size > 0 /\ Dequeue(t)
    \/ \E t \in Threads, n \in BatchSizes : pop_batch(t, n)
    \/ \E t \in Threads : clear(t) \/ reset_stats(t) \/ close(t)
    \/ UNCHANGED <<ring, closed, stats, history>>

(* Admit is called with an item, behind a wait that left room if it waits.  *)
LEMMA AdmitEffect ==
    ASSUME TypeOK, NEW t \in Threads, NEW x \in Items, NEW R,
           R \subseteq {"DropNewest", "Block"}, "DropNewest" \in R,
           "Block" \in R \/ (drop_policy = "Block" => CanPush),
           Admit(t, x, R)
    PROVE  Effect
<1>1. CASE closed /\ ReturnFalse(t)
  BY <1>1 DEF ReturnFalse, Effect
<1>2. CASE ~closed /\ (size < capacity \/ drop_policy \notin {"DropOldest"} \cup R) /\ Enqueue(t, x)
  <2>1. size < capacity
    BY <1>2 DEF TypeOK, Policies, CanPush
  <2> QED
    BY <1>2, <2>1 DEF Effect
<1>3. CASE ~closed /\ size >= capacity /\ drop_policy = "DropOldest" /\ EvictAndEnqueue(t, x)
  <2>1. size = capacity
    BY <1>3, CapacityPositive DEF TypeOK
  <2> QED
    BY <1>3, <2>1 DEF Effect
<1>4. CASE ~closed /\ size >= capacity /\ drop_policy \in R /\ Reject(t)
  <2>1. drop_policy # "DropOldest"
    BY <1>4
  <2> QED
    BY <1>4, <2>1 DEF Effect
<1> QED
  BY <1>1, <1>2, <1>3, <1>4 DEF Admit

(* Every step of a pushing operation has one of the effects. *)
LEMMA ProducerEffect ==
    ASSUME TypeOK, NEW t \in Producers, ProducerStep(t)
    PROVE  Effect
<1>0. t \in Threads
  BY DEF Threads
<1>1. ASSUME NEW x \in Items, try_push(t, x) PROVE Effect
  BY <1>0, <1>1, AdmitEffect DEF try_push
<1>2. ASSUME NEW x \in Items, push(t, x) PROVE Effect
  <2>1. CASE WaitNotFull(t, "push", x)
    BY <2>1 DEF WaitNotFull, Effect
  <2>2. CASE (drop_policy = "Block" => CanPush) /\ Admit(t, x, {"DropNewest"})
    BY <1>0, <2>2, AdmitEffect
  <2> QED
    BY <1>2, <2>1, <2>2 DEF push
<1>3. ASSUME NEW x \in Items, push_for(t, x) PROVE Effect
  <2>1. CASE WaitNotFull(t, "push_for", x)
    BY <2>1 DEF WaitNotFull, Effect
  <2>2. CASE Admit(t, x, {"DropNewest", "Block"})
    BY <1>0, <2>2, AdmitEffect
  <2> QED
    BY <1>3, <2>1, <2>2 DEF push_for
<1>4. CASE push_for_expired(t)
  <2>1. CASE ReturnFalse(t)
    BY <2>1 DEF ReturnFalse, Effect
  <2>2. CASE Admit(t, arg[t], {"DropNewest", "Block"})
    <3>1. arg[t] \in Items
      BY <1>0, <1>4 DEF push_for_expired, TypeOK
    <3> QED
      BY <1>0, <2>2, <3>1, AdmitEffect
  <2> QED
    BY <1>4, <2>1, <2>2 DEF push_for_expired
<1> QED
  BY <1>1, <1>2, <1>3, <1>4 DEF ProducerStep

(* Every step of a popping operation has one of the effects. *)
LEMMA ConsumerEffect ==
    ASSUME TypeOK, NEW t \in Consumers, ConsumerStep(t)
    PROVE  Effect
<1>0. t \in Threads
  BY DEF Threads
<1>1. CASE ReturnNull(t)
  BY <1>1 DEF ReturnNull, Effect
<1>2. CASE WaitNotEmpty(t, "pop") \/ WaitNotEmpty(t, "pop_for")
  BY <1>2 DEF WaitNotEmpty, Effect
<1>3. CASE size > 0 /\ Dequeue(t)
  BY <1>0, <1>3 DEF Effect
<1>4. CASE \E n \in BatchSizes : pop_batch(t, n)
  BY <1>0, <1>4 DEF Effect
<1> QED
  BY <1>1, <1>2, <1>3, <1>4 DEF ConsumerStep, try_pop, pop, pop_for, pop_for_expired

(* No step changes the policy. *)
LEMMA PolicyKept ==
    ASSUME [Next]_vars
    PROVE  drop_policy' = drop_policy
BY DEF Next, vars

(* Every step of the specification has one of the effects. *)
LEMMA StepEffect ==
    ASSUME TypeOK, [Next]_vars
    PROVE  Effect
<1>1. CASE \E t \in Managers : ManagerStep(t)
  BY <1>1 DEF ManagerStep, Effect, Threads
<1>2. ASSUME NEW t \in Threads, NotifyStep(t) \/ SpuriousWakeup(t) \/ Expire(t)
      PROVE  Effect
  BY <1>2 DEF NotifyStep, notify_not_empty, notify_not_full, notify_all_not_full,
              close_notify_not_empty, SpuriousWakeup, Expire, Effect
<1>3. CASE UNCHANGED vars
  BY <1>3 DEF vars, Effect
<1> QED
  BY <1>1, <1>2, <1>3, ProducerEffect, ConsumerEffect DEF Next, Step

-----------------------------------------------------------------------------
(* Type correctness, in two parts: the data by effect, the calls by action. *)

DataType ==
    /\ buffer \in [Slots -> Items \cup {NoItem}]
    /\ head \in Slots /\ tail \in Slots /\ size \in 0..capacity
    /\ closed \in BOOLEAN
    /\ stats \in StatsType
    /\ carried \in Nat /\ cleared \in Nat

CallType ==
    /\ pc \in [Threads -> Labels]
    /\ arg \in [Threads -> Items \cup {NoItem}]
    /\ not_empty \subseteq {t \in Threads : pc[t] \in {"pop", "pop_for"}}
    /\ not_full \subseteq {t \in Threads : pc[t] \in {"push", "push_for"}}
    /\ \A t \in Threads :
         pc[t] \in {"push", "push_for", "push_for_expired"} => arg[t] \in Items

(* The type invariant is that of the data and that of the calls. *)
LEMMA TypeOKParts == TypeOK <=> DataType /\ CallType /\ drop_policy \in Policies
BY DEF TypeOK, DataType, CallType, StatsType

(* Popping keeps the types of the data. *)
LEMMA ReleaseType ==
    ASSUME DataType, NEW n \in 0..size, Release(n)
    PROVE  /\ buffer' \in [Slots -> Items \cup {NoItem}]
           /\ head' \in Slots /\ tail' \in Slots /\ size' \in 0..capacity
<1>1. At(n) \in Slots
  BY AtValue, CapacityPositive DEF DataType
<1> QED
  BY <1>1, CapacityPositive DEF DataType, Release

(* Every effect keeps the types of the data. *)
LEMMA DataTypeStep ==
    ASSUME DataType, Effect
    PROVE  DataType'
<1>0. /\ Succ(head) \in Slots /\ Succ(tail) \in Slots
      /\ capacity \in Nat \ {0} /\ size \in Nat
  BY SuccValue, CapacityPositive DEF DataType
<1>1. ASSUME NEW t \in Threads, NEW x \in Items, size < capacity, Enqueue(t, x)
      PROVE  DataType'
  <2>1. stats' \in StatsType
    <3>1. [stats EXCEPT !.enqueued = @ + 1] \in StatsType
      BY DEF DataType, StatsType
    <3> QED
      BY <1>0, <1>1, <3>1, PeakType DEF Enqueue, StatsType
  <2> QED
    BY <1>0, <1>1, <2>1 DEF Enqueue, DataType, history
<1>2. ASSUME NEW t \in Threads, NEW x \in Items, EvictAndEnqueue(t, x)
      PROVE  DataType'
  <2>1. stats' \in StatsType
    <3>1. [stats EXCEPT !.enqueued = @ + 1, !.dropped = @ + 1] \in StatsType
      <4>1. stats \in StatsType /\ stats.enqueued + 1 \in Nat /\ stats.dropped + 1 \in Nat
        BY DEF DataType, StatsType
      <4> QED
        BY <4>1, StatsTwo, Zenon DEF StatsType
    <3> QED
      BY <1>0, <1>2, <3>1, PeakType, Zenon DEF EvictAndEnqueue, StatsType
  <2> QED
    BY <1>0, <1>2, <2>1 DEF EvictAndEnqueue, DataType, history
<1>3. ASSUME NEW t \in Threads, Reject(t)
      PROVE  DataType'
  BY <1>3 DEF Reject, DataType, StatsType, ring, history
<1>4. ASSUME NEW t \in Threads, size > 0, Dequeue(t)
      PROVE  DataType'
  <2>1. /\ stats \in StatsType /\ stats.dequeued + 1 \in Nat /\ size - 1 \in Nat
        /\ size - 1 \in 0..capacity
    BY <1>0, <1>4 DEF DataType, StatsType
  <2>2. stats' \in StatsType
    BY <1>4, <2>1, StatsTwo, Zenon DEF Dequeue, StatsType
  <2> QED
    BY <1>0, <1>4, <2>1, <2>2 DEF Dequeue, DataType, history
<1>5. ASSUME NEW t \in Threads, NEW n \in BatchSizes, pop_batch(t, n)
      PROVE  DataType'
  <2> DEFINE count == IF n < size THEN n ELSE size
  <2>1. count \in 0..size /\ Release(count)
    BY <1>0, <1>5, BatchAssumption DEF pop_batch
  <2>2. stats' \in StatsType
    <3>1. /\ stats \in StatsType /\ stats.dequeued + count \in Nat /\ size - count \in Nat
          /\ stats' = [stats EXCEPT !.dequeued = @ + count, !.current_size = size - count]
      BY <1>0, <1>5, <2>1 DEF pop_batch, DataType, StatsType
    <3> HIDE DEF count
    <3> QED
      BY <3>1, StatsTwo, Zenon DEF StatsType
  <2> QED
    BY <1>5, <2>1, <2>2, ReleaseType DEF pop_batch, DataType, history
<1>6. ASSUME NEW t \in Threads, clear(t)
      PROVE  DataType'
  <2>1. size \in 0..size /\ Release(size)
    BY <1>0, <1>6 DEF clear
  <2>2. stats' \in StatsType /\ cleared' \in Nat
    BY <1>0, <1>6 DEF clear, DataType, StatsType
  <2> QED
    BY <1>6, <2>1, <2>2, ReleaseType DEF clear, DataType
<1>7. ASSUME NEW t \in Threads, reset_stats(t)
      PROVE  DataType'
  BY <1>0, <1>7 DEF reset_stats, DataType, StatsType, ring
<1>8. ASSUME NEW t \in Threads, close(t)
      PROVE  DataType'
  BY <1>8 DEF close, DataType, ring, history
<1>9. CASE UNCHANGED <<ring, closed, stats, history>>
  BY <1>9 DEF DataType, ring, history
<1> QED
  BY <1>1, <1>2, <1>3, <1>4, <1>5, <1>6, <1>7, <1>8, <1>9 DEF Effect

(* A call that ends, or goes on to notify, from outside the wait sets. *)
LEMMA ReturnCallType ==
    ASSUME CallType, NEW t \in Threads, t \notin not_full, t \notin not_empty,
           NEW l \in {"idle", "notify_not_empty"}, Return(t, l), UNCHANGED waits
    PROVE  CallType'
BY DEF CallType, Return, Goto, Labels, waits

(* A call that returns keeps the types of the calls. *)
LEMMA LeaveCallType ==
    ASSUME CallType, NEW t \in Threads, t \notin not_full, t \notin not_empty,
           NEW l \in {"idle", "notify_not_full", "notify_all_not_full", "close_notify_not_empty"},
           Goto(t, l), UNCHANGED <<waits, arg>>
    PROVE  CallType'
BY DEF CallType, Goto, Labels, waits

(* A call that stores or rejects an element keeps them. *)
LEMMA AdmitCallType ==
    ASSUME CallType, NEW t \in Threads, t \notin not_full, t \notin not_empty,
           NEW x, NEW R, Admit(t, x, R)
    PROVE  CallType'
<1>1. UNCHANGED waits /\ (Return(t, "idle") \/ Return(t, "notify_not_empty"))
  BY DEF Admit, ReturnFalse, Reject, Enqueue, EvictAndEnqueue
<1> QED
  BY <1>1, ReturnCallType

(* A producer that waits keeps them. *)
LEMMA WaitNotFullCallType ==
    ASSUME CallType, NEW t \in Threads, t \notin not_empty, NEW op \in {"push", "push_for"},
           NEW x \in Items, WaitNotFull(t, op, x)
    PROVE  CallType'
BY DEF CallType, WaitNotFull, Goto, Labels

(* A consumer that waits keeps them. *)
LEMMA WaitNotEmptyCallType ==
    ASSUME CallType, NEW t \in Threads, t \notin not_full, NEW op \in {"pop", "pop_for"},
           WaitNotEmpty(t, op)
    PROVE  CallType'
BY DEF CallType, WaitNotEmpty, Goto, Labels

(* Every step of a producer keeps them. *)
LEMMA ProducerCallType ==
    ASSUME CallType, NEW t \in Producers, ProducerStep(t)
    PROVE  CallType'
<1>0. t \in Threads
  BY DEF Threads
<1>1. ASSUME NEW x \in Items, try_push(t, x) PROVE CallType'
  <2>1. t \notin not_full /\ t \notin not_empty
    BY <1>1 DEF try_push, BeginPush, CallType
  <2> QED
    BY <1>0, <1>1, <2>1, AdmitCallType DEF try_push
<1>2. ASSUME NEW x \in Items, push(t, x) PROVE CallType'
  <2>1. t \notin not_full /\ t \notin not_empty
    BY <1>2 DEF push, InPush, BeginPush, CallType
  <2> QED
    BY <1>0, <1>2, <2>1, AdmitCallType, WaitNotFullCallType DEF push
<1>3. ASSUME NEW x \in Items, push_for(t, x) PROVE CallType'
  <2>1. t \notin not_full /\ t \notin not_empty
    BY <1>3 DEF push_for, InPush, BeginPush, CallType
  <2> QED
    BY <1>0, <1>3, <2>1, AdmitCallType, WaitNotFullCallType DEF push_for
<1>4. CASE push_for_expired(t)
  <2>1. t \notin not_full /\ t \notin not_empty
    BY <1>4 DEF push_for_expired, CallType
  <2>2. CASE ReturnFalse(t)
    BY <1>0, <2>1, <2>2, ReturnCallType DEF ReturnFalse
  <2> QED
    BY <1>0, <1>4, <2>1, <2>2, AdmitCallType DEF push_for_expired
<1> QED
  BY <1>1, <1>2, <1>3, <1>4 DEF ProducerStep

(* Every step of a consumer keeps them. *)
LEMMA ConsumerCallType ==
    ASSUME CallType, NEW t \in Consumers, ConsumerStep(t)
    PROVE  CallType'
<1>0. t \in Threads
  BY DEF Threads
<1>1. t \notin not_full /\ t \notin not_empty
  BY Zenon DEF ConsumerStep, try_pop, pop, pop_for, pop_for_expired, pop_batch, InPop, CallType
<1>2. CASE ReturnNull(t)
  BY <1>0, <1>1, <1>2, LeaveCallType DEF ReturnNull
<1>3. CASE WaitNotEmpty(t, "pop") \/ WaitNotEmpty(t, "pop_for")
  BY <1>0, <1>1, <1>3, WaitNotEmptyCallType
<1>4. CASE Dequeue(t)
  BY <1>0, <1>1, <1>4, LeaveCallType DEF Dequeue
<1>5. ASSUME NEW n \in BatchSizes, pop_batch(t, n) PROVE CallType'
  <2>1. /\ UNCHANGED <<waits, arg>>
        /\ Goto(t, "notify_all_not_full") \/ Goto(t, "idle")
    BY <1>5 DEF pop_batch
  <2> QED
    BY <1>0, <1>1, <2>1, LeaveCallType
<1> QED
  BY <1>2, <1>3, <1>4, <1>5, Zenon DEF ConsumerStep, try_pop, pop, pop_for, pop_for_expired

(* Every step keeps them. *)
LEMMA CallTypeStep ==
    ASSUME CallType, [Next]_vars
    PROVE  CallType'
<1>1. ASSUME NEW t \in Managers, ManagerStep(t) PROVE CallType'
  <2>0. t \in Threads
    BY DEF Threads
  <2>1. t \notin not_full /\ t \notin not_empty
    BY <1>1 DEF ManagerStep, close, clear, reset_stats, CallType
  <2>2. CASE close(t) \/ clear(t)
    BY <2>0, <2>1, <2>2, LeaveCallType DEF close, clear
  <2>3. CASE reset_stats(t)
    BY <2>3 DEF reset_stats, CallType, waits
  <2> QED
    BY <1>1, <2>2, <2>3 DEF ManagerStep
<1>2. ASSUME NEW t \in Threads, NotifyStep(t) PROVE CallType'
  <2>1. t \notin not_full /\ t \notin not_empty
    BY <1>2 DEF NotifyStep, notify_not_empty, notify_not_full, notify_all_not_full,
                close_notify_not_empty, CallType
  <2>2. /\ not_full' \subseteq not_full /\ not_empty' \subseteq not_empty
        /\ Goto(t, "idle") \/ Goto(t, "notify_all_not_full")
        /\ UNCHANGED arg
    BY <1>2 DEF NotifyStep, notify_not_empty, notify_not_full, notify_all_not_full,
                close_notify_not_empty, NotifyOne
  <2> QED
    BY <2>1, <2>2 DEF CallType, Goto, Labels
<1>3. ASSUME NEW t \in Threads, SpuriousWakeup(t) PROVE CallType'
  BY <1>3 DEF SpuriousWakeup, CallType
<1>4. ASSUME NEW t \in Threads, Expire(t) PROVE CallType'
  BY <1>4 DEF Expire, CallType, Goto, Labels
<1>5. CASE UNCHANGED vars
  BY <1>5 DEF vars, CallType, waits
<1> QED
  BY <1>1, <1>2, <1>3, <1>4, <1>5, ProducerCallType, ConsumerCallType DEF Next, Step

(* The variables keep their types, whatever the threads do: in particular   *)
(* only threads inside a blocking call are ever in a wait set.              *)
THEOREM TypeCorrect == Spec => []TypeOK
<1>1. Init => TypeOK
  <2> SUFFICES ASSUME Init PROVE TypeOK
    OBVIOUS
  <2>1. /\ head \in Slots /\ tail \in Slots /\ size \in 0..capacity
        /\ buffer \in [Slots -> Items \cup {NoItem}]
    BY CapacityPositive DEF Init, Slots
  <2>2. stats \in StatsType
    BY DEF Init, StatsType
  <2>3. CallType
    BY DEF Init, CallType, Labels
  <2> QED
    BY <2>1, <2>2, <2>3, PolicyAssumption, Zenon DEF Init, TypeOK, CallType, StatsType
<1>2. TypeOK /\ [Next]_vars => TypeOK'
  <2> SUFFICES ASSUME TypeOK, [Next]_vars PROVE TypeOK'
    OBVIOUS
  <2>1. DataType /\ CallType
    BY TypeOKParts
  <2>2. DataType'
    BY <2>1, StepEffect, DataTypeStep
  <2>3. CallType'
    BY <2>1, CallTypeStep
  <2>4. drop_policy' \in Policies
    BY PolicyKept DEF TypeOK
  <2> QED
    BY <2>2, <2>3, <2>4 DEF TypeOK, DataType, CallType, StatsType
<1> QED
  BY <1>1, <1>2, PTL DEF Spec

-----------------------------------------------------------------------------
(* The ring. *)

(* Giving up the n oldest elements moves the window, and clears what leaves it. *)
LEMMA ReleaseRing ==
    ASSUME TypeOK, RingInv, NEW n \in 0..size, Release(n)
    PROVE  RingInv'
<1>0. /\ capacity \in Nat \ {0} /\ head \in 0..(capacity - 1) /\ size \in 0..capacity
      /\ head' = At(n) /\ size' = size - n /\ head' \in Slots
      /\ \A i \in 0..capacity :
           At(i) = IF head + i < capacity THEN head + i ELSE head + i - capacity
  BY CapacityPositive, AtValue DEF TypeOK, Slots, Release
<1>1. \A i \in 0..capacity :
         At(i)' = IF head' + i < capacity THEN head' + i ELSE head' + i - capacity
  <2> TAKE i \in 0..capacity
  <2>1. head' \in 0..(capacity - 1)
    BY <1>0 DEF Slots
  <2> QED
    BY <1>0, <2>1, WrapAround, Zenon DEF At
<1>2. \A i \in 0..(capacity - n) : At(i)' = At(i + n)
  BY <1>0, <1>1
<1>3. \A i \in (capacity - n)..capacity : At(i)' = At(i + n - capacity)
  BY <1>0, <1>1
<1>4. \A i, j \in 0..(capacity - 1) : At(i) = At(j) => i = j
  BY <1>0
<1>5. \A i \in 0..(capacity - 1) : At(i) \in Slots
  BY <1>0 DEF Slots
<1>6. \A i \in 0..(capacity - 1) :
         buffer'[At(i)] = IF i < n THEN NoItem ELSE buffer[At(i)]
  <2> TAKE i \in 0..(capacity - 1)
  <2>1. At(i) \in ReleasedSlots(n) <=> i < n
    BY <1>0, <1>4 DEF ReleasedSlots
  <2> QED
    BY <2>1, <1>5 DEF Release
<1>7. tail' = At(size)'
  BY <1>0, <1>2 DEF RingInv, Release
<1>8. ASSUME NEW i \in 0..(size - n - 1) PROVE buffer'[At(i)'] \in Items
  BY <1>0, <1>2, <1>6 DEF RingInv
<1>9. ASSUME NEW i \in (size - n)..(capacity - 1) PROVE buffer'[At(i)'] = NoItem
  <2>1. CASE i + n < capacity
    BY <1>0, <1>2, <1>6, <2>1 DEF RingInv
  <2>2. CASE i + n >= capacity
    BY <1>0, <1>3, <1>6, <2>2
  <2> QED
    BY <1>0, <2>1, <2>2
<1> QED
  BY <1>0, <1>7, <1>8, <1>9 DEF RingInv

(* Storing an element moves the end of the window by one. *)
LEMMA EnqueueRing ==
    ASSUME TypeOK, RingInv, NEW t, NEW x \in Items, size < capacity, Enqueue(t, x)
    PROVE  RingInv'
<1>0. /\ capacity \in Nat \ {0} /\ head \in 0..(capacity - 1) /\ size \in 0..(capacity - 1)
      /\ buffer \in [Slots -> Items \cup {NoItem}]
      /\ size' = size + 1 /\ \A i : At(i)' = At(i)
      /\ \A i \in 0..capacity :
           /\ At(i) = IF head + i < capacity THEN head + i ELSE head + i - capacity
           /\ At(i) \in Slots
  <2>1. /\ capacity \in Nat \ {0} /\ head \in 0..(capacity - 1) /\ size \in 0..(capacity - 1)
        /\ buffer \in [Slots -> Items \cup {NoItem}]
    BY CapacityPositive DEF TypeOK, Slots
  <2>2. size' = size + 1 /\ \A i : At(i)' = At(i)
    BY DEF Enqueue, At
  <2>3. head \in Slots
    BY <2>1 DEF Slots
  <2> QED
    BY <2>1, <2>2, <2>3, AtValue
<1>1. \A i, j \in 0..(capacity - 1) : At(i) = At(j) => i = j
  BY <1>0
<1>2. \A i \in 0..(capacity - 1) : buffer'[At(i)] = IF i = size THEN x ELSE buffer[At(i)]
  BY <1>0, <1>1 DEF Enqueue, RingInv
<1>3. tail' = At(size + 1)
  BY <1>0, SuccValue DEF Enqueue, RingInv
<1> QED
  BY <1>0, <1>2, <1>3 DEF RingInv

(* An eviction moves both ends of the window by one. *)
LEMMA EvictRing ==
    ASSUME TypeOK, RingInv, NEW t, NEW x \in Items, size = capacity, EvictAndEnqueue(t, x)
    PROVE  RingInv'
<1>0. /\ capacity \in Nat \ {0} /\ head \in 0..(capacity - 1)
      /\ buffer \in [Slots -> Items \cup {NoItem}]
      /\ size' = size /\ head' = Succ(head) /\ head \in Slots /\ head' \in Slots
      /\ \A i \in 0..capacity :
           At(i) = IF head + i < capacity THEN head + i ELSE head + i - capacity
  BY CapacityPositive, AtValue, SuccValue, Zenon DEF TypeOK, Slots, EvictAndEnqueue
<1>1. tail = head /\ tail' = head'
  BY <1>0 DEF RingInv, EvictAndEnqueue
<1>2. \A i \in 0..capacity :
         At(i)' = IF head' + i < capacity THEN head' + i ELSE head' + i - capacity
  <2> TAKE i \in 0..capacity
  <2>1. head' \in 0..(capacity - 1)
    BY <1>0 DEF Slots
  <2> QED
    BY <1>0, <2>1, WrapAround, Zenon DEF At
<1>3. head' = IF head + 1 < capacity THEN head + 1 ELSE 0
  BY <1>0, SuccValue
<1>4. \A i \in 0..(capacity - 2) : At(i)' = At(i + 1) /\ At(i + 1) # head
  BY <1>0, <1>2, <1>3
<1>5. At(capacity - 1)' = head
  BY <1>0, <1>2, <1>3
<1>6. \A s \in Slots : buffer'[s] = IF s = head THEN x ELSE buffer[s]
  BY <1>0, <1>1 DEF EvictAndEnqueue
<1>7. \A i \in 0..(capacity - 1) : At(i) \in Slots /\ buffer[At(i)] \in Items
  BY <1>0 DEF RingInv, Slots
<1>8. \A i \in 0..(capacity - 1) : buffer'[At(i)'] \in Items
  <2> TAKE i \in 0..(capacity - 1)
  <2>1. CASE i = capacity - 1
    BY <1>0, <1>5, <1>6, <2>1
  <2>2. CASE i \in 0..(capacity - 2)
    BY <1>0, <1>4, <1>6, <1>7, <2>2
  <2> QED
    BY <1>0, <2>1, <2>2
<1>9. tail' = At(size)'
  <2>1. At(capacity)' = head'
    BY <1>0, <1>2 DEF Slots
  <2> QED
    BY <1>0, <1>1, <2>1 DEF At
<1> QED
  BY <1>0, <1>8, <1>9 DEF RingInv

(* A pop gives up one element. *)
LEMMA DequeueReleases ==
    ASSUME TypeOK, NEW t, size > 0, Dequeue(t)
    PROVE  1 \in 0..size /\ Release(1)
<1>1. ReleasedSlots(1) = {head} /\ At(1) = Succ(head)
  <2>1. 0..(1 - 1) = {0} /\ At(0) = head
    BY AtValue, CapacityPositive DEF TypeOK, Slots
  <2> QED
    BY <2>1 DEF ReleasedSlots, At, Succ
<1>2. buffer' = [s \in Slots |-> IF s \in ReleasedSlots(1) THEN NoItem ELSE buffer[s]]
  BY <1>1, Zenon DEF Dequeue, TypeOK
<1>3. 1 \in 0..size
  BY CapacityPositive DEF TypeOK
<1> QED
  BY <1>1, <1>2, <1>3, Zenon DEF Dequeue, Release

(* A batch releases no more than there is. *)
LEMMA BatchReleases ==
    ASSUME TypeOK, NEW t, NEW m \in BatchSizes, pop_batch(t, m)
    PROVE  \E n \in 0..size : Release(n)
BY BatchAssumption, CapacityPositive DEF TypeOK, pop_batch

(* Every effect leaves one window of live elements. *)
LEMMA RingStep ==
    ASSUME TypeOK, RingInv, Effect
    PROVE  RingInv'
<1>1. CASE UNCHANGED ring
  BY <1>1 DEF ring, RingInv, At
<1>2. ASSUME NEW t, clear(t) PROVE RingInv'
  <2>1. size \in 0..size
    BY CapacityPositive DEF TypeOK
  <2> QED
    BY <1>2, <2>1, ReleaseRing DEF clear
<1>3. ASSUME NEW t, reset_stats(t) \/ close(t) \/ Reject(t) PROVE RingInv'
  BY <1>1, <1>3 DEF reset_stats, close, Reject
<1> QED
  BY <1>1, <1>2, <1>3, EnqueueRing, EvictRing, ReleaseRing, DequeueReleases, BatchReleases
     DEF Effect

(* head_, tail_ and size_ describe one window of elements, for any capacity, *)
(* policy and number of threads, through wrap-around, eviction and batches.  *)
THEOREM RingConsistent == Spec => []RingInv
<1>1. Init => RingInv
  <2> SUFFICES ASSUME Init PROVE RingInv
    OBVIOUS
  <2>1. \A i \in 0..capacity : At(i) \in 0..(capacity - 1) \/ i = capacity
    BY AtValue, CapacityPositive DEF Init, Slots
  <2>2. At(0) = 0
    BY AtValue, CapacityPositive DEF Init, Slots
  <2> QED
    BY <2>1, <2>2, CapacityPositive DEF Init, RingInv, Slots
<1>2. TypeOK /\ RingInv /\ [Next]_vars => RingInv'
  BY StepEffect, RingStep
<1> QED
  BY <1>1, <1>2, TypeCorrect, PTL DEF Spec

-----------------------------------------------------------------------------
(* The counters. *)

(* Every effect keeps the sum of the counters. *)
LEMMA ConservationStep ==
    ASSUME TypeOK, Conservation, Effect, drop_policy' = drop_policy
    PROVE  Conservation'
<1>0. /\ size \in Nat /\ carried \in Nat /\ cleared \in Nat
      /\ stats \in StatsType
      /\ stats.enqueued \in Nat /\ stats.dequeued \in Nat /\ stats.dropped \in Nat
  BY CapacityPositive DEF TypeOK, StatsType
<1>1. ASSUME NEW t, NEW x, Enqueue(t, x) PROVE Conservation'
  <2>1. /\ stats'.enqueued = stats.enqueued + 1 /\ stats'.dequeued = stats.dequeued
        /\ stats'.dropped = stats.dropped
    BY <1>0, <1>1 DEF Enqueue, update_peak_size, StatsType
  <2>2. size' = size + 1 /\ carried' = carried /\ cleared' = cleared
    BY <1>1 DEF Enqueue, history
  <2> QED
    BY <1>0, <2>1, <2>2 DEF Conservation
<1>2. ASSUME NEW t, NEW x, drop_policy = "DropOldest", EvictAndEnqueue(t, x) PROVE Conservation'
  <2>1. /\ stats'.enqueued = stats.enqueued + 1 /\ stats'.dequeued = stats.dequeued
        /\ stats'.dropped = stats.dropped + 1
    BY <1>0, <1>2 DEF EvictAndEnqueue, update_peak_size, StatsType
  <2>2. size' = size /\ carried' = carried /\ cleared' = cleared
    BY <1>2 DEF EvictAndEnqueue, history
  <2> QED
    BY <1>0, <1>2, <2>1, <2>2 DEF Conservation
<1>3. ASSUME NEW t, drop_policy # "DropOldest", Reject(t) PROVE Conservation'
  <2>1. /\ stats'.enqueued = stats.enqueued /\ stats'.dequeued = stats.dequeued
    BY <1>0, <1>3 DEF Reject, StatsType
  <2> QED
    BY <1>0, <1>3, <2>1 DEF Reject, ring, history, Conservation
<1>4. ASSUME NEW t, size > 0, Dequeue(t) PROVE Conservation'
  <2>1. /\ stats'.enqueued = stats.enqueued /\ stats'.dequeued = stats.dequeued + 1
        /\ stats'.dropped = stats.dropped
    BY <1>0, <1>4 DEF Dequeue, StatsType
  <2> QED
    BY <1>0, <1>4, <2>1 DEF Dequeue, history, Conservation
<1>5. ASSUME NEW t, NEW n \in BatchSizes, pop_batch(t, n) PROVE Conservation'
  <2> DEFINE count == IF n < size THEN n ELSE size
  <2>1. /\ stats' = [stats EXCEPT !.dequeued = @ + count, !.current_size = size - count]
        /\ count \in Nat /\ size' = size - count
        /\ UNCHANGED history
    BY <1>0, <1>5, BatchAssumption DEF pop_batch, Release
  <2> HIDE DEF count
  <2>2. /\ stats'.enqueued = stats.enqueued /\ stats'.dequeued = stats.dequeued + count
        /\ stats'.dropped = stats.dropped
    BY <1>0, <2>1 DEF StatsType
  <2> QED
    BY <1>0, <2>1, <2>2 DEF history, Conservation
<1>6. ASSUME NEW t, clear(t) PROVE Conservation'
  <2>1. /\ stats'.enqueued = stats.enqueued /\ stats'.dequeued = stats.dequeued
        /\ stats'.dropped = stats.dropped
    BY <1>0, <1>6 DEF clear, StatsType
  <2> QED
    BY <1>0, <1>6, <2>1 DEF clear, Release, Conservation
<1>7. ASSUME NEW t, reset_stats(t) PROVE Conservation'
  BY <1>0, <1>7 DEF reset_stats, ring, Conservation
<1>8. CASE UNCHANGED <<ring, stats, history>>
  BY <1>8 DEF ring, history, Conservation
<1>9. ASSUME NEW t, close(t) PROVE Conservation'
  BY <1>8, <1>9 DEF close
<1> QED
  BY <1>1, <1>2, <1>3, <1>4, <1>5, <1>6, <1>7, <1>8, <1>9 DEF Effect

(* No element is lost or counted twice by enqueued, dequeued and dropped.    *)
THEOREM ElementsConserved == Spec => []Conservation
<1>1. Init => Conservation
  BY DEF Init, Conservation
<1>2. TypeOK /\ Conservation /\ [Next]_vars => Conservation'
  BY StepEffect, PolicyKept, ConservationStep
<1> QED
  BY <1>1, <1>2, TypeCorrect, PTL DEF Spec

(* After close() the queue only drains, also for producers that were blocked *)
(* in push() or push_for() when it was closed.                               *)
THEOREM ClosedOnlyDrains == Spec => CloseIsFinal
<1> DEFINE Drains == closed => closed' /\ size' <= size /\ stats'.enqueued <= stats.enqueued
<1>1. TypeOK /\ [Next]_vars => [Drains]_vars
  <2> SUFFICES ASSUME TypeOK, [Next]_vars, closed PROVE Drains
    OBVIOUS
  <2>0. /\ size \in Nat /\ stats \in StatsType /\ stats.enqueued \in Nat
    BY CapacityPositive DEF TypeOK, StatsType
  <2>1. Effect
    BY StepEffect
  <2>2. ASSUME NEW t, Reject(t) \/ (size > 0 /\ Dequeue(t)) PROVE Drains
    <3>1. closed' /\ (size' = size \/ size' = size - 1)
      BY <2>2, Zenon DEF Reject, Dequeue, ring
    <3>2. stats'.enqueued = stats.enqueued
      BY <2>0, <2>2, Zenon DEF Reject, Dequeue, StatsType
    <3> QED
      BY <2>0, <3>1, <3>2
  <2>3. ASSUME NEW t, NEW n \in BatchSizes, pop_batch(t, n) PROVE Drains
    <3>1. stats'.enqueued = stats.enqueued
      BY <2>0, <2>3 DEF pop_batch, StatsType
    <3> QED
      BY <2>0, <2>3, <3>1, BatchAssumption DEF pop_batch, Release
  <2>4. ASSUME NEW t, clear(t) PROVE Drains
    BY <2>0, <2>4 DEF clear, Release, StatsType
  <2>5. ASSUME NEW t, reset_stats(t) \/ close(t) PROVE Drains
    <3>1. closed' /\ size' = size
      BY <2>5, Zenon DEF reset_stats, close, ring
    <3>2. CASE reset_stats(t)
      <4>1. stats'.enqueued = 0
        BY <3>2 DEF reset_stats
      <4> QED
        BY <2>0, <3>1, <4>1
    <3>3. CASE close(t)
      <4>1. stats' = stats
        BY <3>3 DEF close
      <4> QED
        BY <2>0, <3>1, <4>1
    <3> QED
      BY <2>5, <3>2, <3>3
  <2>6. CASE UNCHANGED <<ring, closed, stats, history>>
    <3>1. closed' /\ size' = size /\ stats' = stats
      BY <2>6 DEF ring
    <3> QED
      BY <2>0, <3>1
  <2> QED
    BY <2>1, <2>2, <2>3, <2>4, <2>5, <2>6, Zenon DEF Effect
<1> QED
  BY <1>1, TypeCorrect, PTL DEF Spec, CloseIsFinal

-----------------------------------------------------------------------------
(* No wake-up is lost.  What counts is how many threads are about to look at *)
(* the queue or to notify, as against the free slots or the elements.        *)

(* One set of threads after a step, and one before it. *)
LEMMA CountTokens ==
    ASSUME NEW S \in SUBSET Threads, NEW T \in SUBSET Threads, NEW t
    PROVE  /\ Cardinality(S) \in Nat /\ Cardinality(T) \in Nat
           /\ S \ {t} \subseteq T => Cardinality(S) <= Cardinality(T) + 1
           /\ S \subseteq T => Cardinality(S) <= Cardinality(T)
           /\ S \subseteq T /\ t \in T /\ t \notin S => Cardinality(S) + 1 <= Cardinality(T)
<1>1. IsFiniteSet(S) /\ IsFiniteSet(T)
  BY ThreadsAssumption, FS_Subset
<1>2. Cardinality(S) \in Nat /\ Cardinality(T) \in Nat
  BY <1>1, FS_CardinalityType
<1>3. ASSUME S \ {t} \subseteq T PROVE Cardinality(S) <= Cardinality(T) + 1
  <2>1. /\ IsFiniteSet(T \cup {t})
        /\ Cardinality(T \cup {t}) = IF t \in T THEN Cardinality(T) ELSE Cardinality(T) + 1
    BY <1>1, FS_AddElement
  <2>2. S \subseteq T \cup {t}
    BY <1>3
  <2>3. Cardinality(S) <= Cardinality(T \cup {t}) /\ Cardinality(T \cup {t}) \in Nat
    BY <2>1, <2>2, FS_Subset, FS_CardinalityType
  <2> QED
    BY <1>2, <2>1, <2>3
<1>4. ASSUME S \subseteq T PROVE Cardinality(S) <= Cardinality(T)
  BY <1>1, <1>4, FS_Subset
<1>5. ASSUME S \subseteq T, t \in T, t \notin S PROVE Cardinality(S) + 1 <= Cardinality(T)
  <2>1. Cardinality(S \cup {t}) = Cardinality(S) + 1
    BY <1>1, <1>5, FS_AddElement, Zenon
  <2>2. S \cup {t} \subseteq T
    BY <1>5
  <2> QED
    BY <1>1, <2>1, <2>2, FS_Subset
<1> QED
  BY <1>2, <1>3, <1>4, <1>5

(* A waiter takes the place of the thread that has notified it. *)
LEMMA PassToken ==
    ASSUME NEW S \in SUBSET Threads, NEW T \in SUBSET Threads, NEW t \in S, NEW w \in T,
           w \notin S, S \ {t} \subseteq T
    PROVE  Cardinality(S) <= Cardinality(T)
<1>1. IsFiniteSet(S) /\ IsFiniteSet(T)
  BY ThreadsAssumption, FS_Subset
<1>2. Cardinality(S \ {t}) = Cardinality(S) - 1 /\ IsFiniteSet(S \ {t})
  BY <1>1, FS_RemoveElement
<1>3. w \notin S \ {t} /\ Cardinality(S) \in Nat
  BY <1>1, FS_CardinalityType
<1>4. Cardinality((S \ {t}) \cup {w}) = Cardinality(S \ {t}) + 1
  BY <1>2, <1>3, FS_AddElement
<1>5. (S \ {t}) \cup {w} \subseteq T
  OBVIOUS
<1>6. Cardinality((S \ {t}) \cup {w}) <= Cardinality(T)
  BY <1>1, <1>5, FS_Subset
<1> QED
  BY <1>2, <1>3, <1>4, <1>6

(* Who is about to notify every waiter, and who looks again at the queue. *)
AllProducersNotified ==
    \E t \in Threads : pc[t] \in {"notify_all_not_full", "close_notify_not_empty"}
AllConsumersNotified == \E t \in Threads : pc[t] = "close_notify_not_empty"
ProducerLooks == {"notify_not_full", "push_for_expired", "push", "push_for"}
ConsumerLooks == {"notify_not_empty", "pop_for_expired", "pop", "pop_for"}

(* The steps that keep every waiting producer provided for: those that leave *)
(* no slot free, that free none and lose no token, that fill a slot for the  *)
(* token they take, or bring a token for the slot they free.                 *)
LEMMA ProducersProvided ==
    ASSUME TypeOK, NoLostProducerWakeup, not_full' # {} => not_full # {},
           closed' = closed, size' \in Int, AllProducersNotified => AllProducersNotified', NEW t,
           \/ closed
           \/ size' >= capacity
           \/ size' >= size /\ ProducerTokens \subseteq ProducerTokens'
           \/ size' = size + 1 /\ ProducerTokens \ {t} \subseteq ProducerTokens'
           \/ /\ size' = size - 1 /\ ProducerTokens \subseteq ProducerTokens'
              /\ t \in ProducerTokens' /\ t \notin ProducerTokens
    PROVE  NoLostProducerWakeup'
<1> DEFINE n == Cardinality(ProducerTokens)
           m == Cardinality(ProducerTokens')
<1>1. /\ ProducerTokens \in SUBSET Threads /\ ProducerTokens' \in SUBSET Threads
      /\ capacity \in Nat /\ size \in Nat
  BY CapacityPositive DEF ProducerTokens, TypeOK
<1>2. /\ n \in Nat /\ m \in Nat
      /\ ProducerTokens \ {t} \subseteq ProducerTokens' => n <= m + 1
      /\ ProducerTokens \subseteq ProducerTokens' => n <= m
      /\ ProducerTokens \subseteq ProducerTokens' /\ t \in ProducerTokens' /\ t \notin ProducerTokens
           => n + 1 <= m
  BY <1>1, CountTokens, Zenon
<1>3. ~closed => (capacity - size <= n => capacity - size' <= m)
  <2> SUFFICES ASSUME ~closed PROVE capacity - size <= n => capacity - size' <= m
    OBVIOUS
  <2>1. \/ size' >= capacity
        \/ size' >= size /\ n <= m
        \/ size' = size + 1 /\ n <= m + 1
        \/ size' = size - 1 /\ n + 1 <= m
    BY <1>2, Zenon
  <2>2. capacity \in Nat /\ size \in Nat /\ size' \in Int /\ n \in Nat /\ m \in Nat
    BY <1>1, <1>2, Zenon
  <2>3. \A c, a, i, j \in Nat, b \in Int :
           /\ b >= c \/ (b >= a /\ i <= j) \/ (b = a + 1 /\ i <= j + 1) \/ (b = a - 1 /\ i + 1 <= j)
           /\ c - a <= i
           => c - b <= j
    OBVIOUS
  <2> HIDE DEF n, m
  <2> QED
    BY ONLY <2>1, <2>2, <2>3, Zenon
<1>4. AllProducersNotified \/ (~closed /\ capacity - size <= n) => NoLostProducerWakeup'
  BY <1>3, Zenon DEF NoLostProducerWakeup, AllProducersNotified, capacity
<1> QED
  BY <1>4, Zenon DEF NoLostProducerWakeup, AllProducersNotified

(* The same for the consumers. *)
LEMMA ConsumersProvided ==
    ASSUME TypeOK, NoLostConsumerWakeup, not_empty' # {} => not_empty # {},
           closed' = closed, size' \in Int, AllConsumersNotified => AllConsumersNotified', NEW t,
           \/ closed
           \/ size' <= 0
           \/ size' <= size /\ ConsumerTokens \subseteq ConsumerTokens'
           \/ size' = size - 1 /\ ConsumerTokens \ {t} \subseteq ConsumerTokens'
           \/ /\ size' = size + 1 /\ ConsumerTokens \subseteq ConsumerTokens'
              /\ t \in ConsumerTokens' /\ t \notin ConsumerTokens
    PROVE  NoLostConsumerWakeup'
<1> DEFINE n == Cardinality(ConsumerTokens)
           m == Cardinality(ConsumerTokens')
<1>1. /\ ConsumerTokens \in SUBSET Threads /\ ConsumerTokens' \in SUBSET Threads
      /\ size \in Nat
  BY CapacityPositive DEF ConsumerTokens, TypeOK
<1>2. /\ n \in Nat /\ m \in Nat
      /\ ConsumerTokens \ {t} \subseteq ConsumerTokens' => n <= m + 1
      /\ ConsumerTokens \subseteq ConsumerTokens' => n <= m
      /\ ConsumerTokens \subseteq ConsumerTokens' /\ t \in ConsumerTokens' /\ t \notin ConsumerTokens
           => n + 1 <= m
  BY <1>1, CountTokens, Zenon
<1>3. ~closed => (size <= n => size' <= m)
  <2> SUFFICES ASSUME ~closed PROVE size <= n => size' <= m
    OBVIOUS
  <2>1. \/ size' <= 0
        \/ size' <= size /\ n <= m
        \/ size' = size - 1 /\ n <= m + 1
        \/ size' = size + 1 /\ n + 1 <= m
    BY <1>2, Zenon
  <2>2. size \in Nat /\ size' \in Int /\ n \in Nat /\ m \in Nat
    BY <1>1, <1>2, Zenon
  <2> HIDE DEF n, m
  <2> QED
    BY ONLY <2>1, <2>2
<1>4. AllConsumersNotified \/ (~closed /\ size <= n) => NoLostConsumerWakeup'
  BY <1>3, Zenon DEF NoLostConsumerWakeup, AllConsumersNotified
<1> QED
  BY <1>4, Zenon DEF NoLostConsumerWakeup, AllConsumersNotified

(* A thread outside the wait sets goes on to l. *)
LEMMA TokensMove ==
    ASSUME TypeOK, NEW t \in Threads, t \notin not_full, t \notin not_empty,
           NEW l \in Labels, Goto(t, l), UNCHANGED waits
    PROVE  /\ ProducerTokens \ {t} \subseteq ProducerTokens'
           /\ t \in ProducerTokens <=> pc[t] \in ProducerLooks
           /\ t \in ProducerTokens' <=> l \in ProducerLooks
           /\ ConsumerTokens \ {t} \subseteq ConsumerTokens'
           /\ t \in ConsumerTokens <=> pc[t] \in ConsumerLooks
           /\ t \in ConsumerTokens' <=> l \in ConsumerLooks
           /\ pc[t] \notin {"notify_all_not_full", "close_notify_not_empty"}
                => (AllProducersNotified => AllProducersNotified')
           /\ pc[t] # "close_notify_not_empty"
                => (AllConsumersNotified => AllConsumersNotified')
<1>1. /\ pc \in [Threads -> Labels] /\ pc' = [pc EXCEPT ![t] = l]
      /\ not_full' = not_full /\ not_empty' = not_empty
  BY DEF TypeOK, Goto, waits
<1>2. pc'[t] = l /\ \A u \in Threads : u # t => pc'[u] = pc[u]
  BY <1>1
<1> QED
  BY <1>1, <1>2, Zenon DEF ProducerTokens, ConsumerTokens, ProducerLooks, ConsumerLooks,
     AllProducersNotified, AllConsumersNotified

(* A step that leaves the ring, the waiters and close() alone. *)
LEMMA ReturnWakes ==
    ASSUME TypeOK, NoLostWakeup, NEW t \in Threads, t \notin not_full, t \notin not_empty,
           pc[t] \in {"idle", "push", "push_for", "push_for_expired"},
           closed \/ size >= capacity, Goto(t, "idle"), UNCHANGED <<ring, closed, waits>>
    PROVE  NoLostWakeup'
<1>1. /\ ProducerTokens \ {t} \subseteq ProducerTokens'
      /\ ConsumerTokens \subseteq ConsumerTokens'
      /\ AllProducersNotified => AllProducersNotified'
      /\ AllConsumersNotified => AllConsumersNotified'
  <2>1. "idle" \in Labels /\ UNCHANGED waits
    BY DEF Labels
  <2> QED
    BY <2>1, TokensMove, Zenon DEF ConsumerLooks
<1>2. size' = size /\ closed' = closed /\ not_full' = not_full /\ not_empty' = not_empty /\ size \in Nat
  BY CapacityPositive DEF ring, waits, TypeOK
<1>3. size' \in Int /\ size' <= size /\ (size >= capacity => size' >= capacity)
  BY <1>2
<1>4. NoLostProducerWakeup'
  BY <1>1, <1>2, <1>3, ProducersProvided, Zenon DEF NoLostWakeup
<1>5. NoLostConsumerWakeup'
  BY <1>1, <1>2, <1>3, ConsumersProvided, Zenon DEF NoLostWakeup
<1> QED
  BY <1>4, <1>5 DEF NoLostWakeup

(* A push stores its item or does not: it fills the slot it was woken for,   *)
(* brings the token of a notify_one, and is refused only by a full or closed *)
(* queue.                                                                    *)
LEMMA AdmitWakes ==
    ASSUME TypeOK, NoLostWakeup, NEW t \in Threads, t \notin not_full, t \notin not_empty,
           pc[t] \in {"idle", "push", "push_for", "push_for_expired"}, NEW x, NEW R,
           "Block" \in R \/ (drop_policy = "Block" => CanPush), "DropNewest" \in R,
           Admit(t, x, R)
    PROVE  NoLostWakeup'
<1>1. CASE closed /\ ReturnFalse(t)
  BY <1>1, ReturnWakes, Zenon DEF ReturnFalse, Return
<1>2. CASE ~closed /\ size >= capacity /\ Reject(t)
  BY <1>2, ReturnWakes, Zenon DEF Reject, Return
<1>3. ASSUME ~closed, Goto(t, "notify_not_empty"), UNCHANGED <<closed, waits>>,
             \/ size < capacity /\ size' = size + 1
             \/ size >= capacity /\ size' = size
      PROVE  NoLostWakeup'
  <2>1. /\ ProducerTokens \ {t} \subseteq ProducerTokens'
        /\ ConsumerTokens \subseteq ConsumerTokens'
        /\ t \in ConsumerTokens' /\ t \notin ConsumerTokens
        /\ AllProducersNotified => AllProducersNotified'
        /\ AllConsumersNotified => AllConsumersNotified'
    <3>1. "notify_not_empty" \in Labels /\ UNCHANGED waits
      BY <1>3 DEF Labels
    <3> QED
      BY <1>3, <3>1, TokensMove, Zenon DEF ConsumerLooks
  <2>2. closed' = closed /\ not_full' = not_full /\ not_empty' = not_empty
    BY <1>3 DEF waits
  <2>3. size' \in Int /\ (size' = size + 1 \/ (size' >= capacity /\ size' <= size))
    BY <1>3, CapacityPositive DEF TypeOK
  <2>4. NoLostProducerWakeup'
    BY <2>1, <2>2, <2>3, ProducersProvided, Zenon DEF NoLostWakeup
  <2>5. NoLostConsumerWakeup'
    BY <2>1, <2>2, <2>3, ConsumersProvided, Zenon DEF NoLostWakeup
  <2> QED
    BY <2>4, <2>5 DEF NoLostWakeup
<1>4. CASE ~closed /\ (size < capacity \/ drop_policy \notin {"DropOldest"} \cup R) /\ Enqueue(t, x)
  <2>1. size < capacity
    BY <1>4 DEF TypeOK, Policies, CanPush
  <2> QED
    BY <1>3, <1>4, <2>1, Zenon DEF Enqueue, Return
<1>5. CASE ~closed /\ size >= capacity /\ drop_policy = "DropOldest" /\ EvictAndEnqueue(t, x)
  BY <1>3, <1>5, Zenon DEF EvictAndEnqueue, Return
<1> QED
  BY <1>1, <1>2, <1>4, <1>5 DEF Admit

(* A producer that begins to wait finds no slot free, a consumer no element. *)
LEMMA WaitWakes ==
    ASSUME TypeOK, NoLostWakeup, NEW t \in Threads, NEW op,
           \/ /\ ~CanPush /\ t \notin not_empty /\ t \notin not_full
              /\ pc[t] \in {"idle", "push", "push_for"} /\ op \in {"push", "push_for"}
              /\ not_full' = not_full \cup {t} /\ not_empty' = not_empty
           \/ /\ ~CanPop /\ t \notin not_empty /\ t \notin not_full
              /\ pc[t] \in {"idle", "pop", "pop_for"} /\ op \in {"pop", "pop_for"}
              /\ not_empty' = not_empty \cup {t} /\ not_full' = not_full,
           Goto(t, op), UNCHANGED <<ring, closed>>
    PROVE  NoLostWakeup'
<1>1. /\ pc \in [Threads -> Labels] /\ pc' = [pc EXCEPT ![t] = op]
      /\ size' = size /\ closed' = closed /\ size' \in Int /\ size \in Nat /\ capacity \in Nat
  BY CapacityPositive DEF Goto, ring, TypeOK
<1>2. pc'[t] = op /\ \A u \in Threads : u # t => pc'[u] = pc[u]
  BY <1>1
<1>3. /\ AllProducersNotified => AllProducersNotified'
      /\ AllConsumersNotified => AllConsumersNotified'
  BY <1>2 DEF AllProducersNotified, AllConsumersNotified
<1>4. CASE op \in {"push", "push_for"}
  <2>1. /\ ~closed /\ size >= capacity /\ not_empty' = not_empty
        /\ t \notin not_empty /\ pc[t] \in {"idle", "push", "push_for"}
    BY <1>1, <1>4 DEF CanPush
  <2>2. ConsumerTokens \subseteq ConsumerTokens'
    BY <1>2, <1>4, <2>1 DEF ConsumerTokens
  <2>3. NoLostConsumerWakeup'
    <3>1. size' <= size
      BY <1>1
    <3> QED
      BY <1>1, <1>3, <2>1, <2>2, <3>1, ConsumersProvided, Zenon DEF NoLostWakeup
  <2>4. NoLostProducerWakeup'
    <3>1. Cardinality(ProducerTokens') \in Nat
      <4>1. ProducerTokens' \in SUBSET Threads
        BY DEF ProducerTokens
      <4> QED
        BY <4>1, CountTokens
    <3>2. capacity - size' <= Cardinality(ProducerTokens')
      BY <1>1, <2>1, <3>1
    <3>3. ~closed'
      BY <1>1, <2>1
    <3> QED
      BY <3>2, <3>3, Zenon DEF NoLostProducerWakeup, capacity
  <2> QED
    BY <2>3, <2>4 DEF NoLostWakeup
<1>5. CASE op \in {"pop", "pop_for"}
  <2>1. /\ ~closed /\ size = 0 /\ not_full' = not_full
        /\ t \notin not_full /\ pc[t] \in {"idle", "pop", "pop_for"}
    BY <1>1, <1>5 DEF CanPop
  <2>2. ProducerTokens \subseteq ProducerTokens'
    BY <1>2, <1>5, <2>1 DEF ProducerTokens
  <2>3. NoLostProducerWakeup'
    <3>1. size' >= size
      BY <1>1
    <3> QED
      BY <1>1, <1>3, <2>1, <2>2, <3>1, ProducersProvided, Zenon DEF NoLostWakeup
  <2>4. NoLostConsumerWakeup'
    <3>1. Cardinality(ConsumerTokens') \in Nat
      <4>1. ConsumerTokens' \in SUBSET Threads
        BY DEF ConsumerTokens
      <4> QED
        BY <4>1, CountTokens
    <3>2. size' <= Cardinality(ConsumerTokens')
      BY <1>1, <2>1, <3>1
    <3>3. ~closed'
      BY <1>1, <2>1
    <3> QED
      BY <3>2, <3>3, Zenon DEF NoLostConsumerWakeup
  <2> QED
    BY <2>3, <2>4 DEF NoLostWakeup
<1> QED
  BY <1>4, <1>5

(* A pop takes an element or finds none: it takes the one it was woken for   *)
(* and brings the token of a notify_one.                                     *)
LEMMA PopWakes ==
    ASSUME TypeOK, NoLostWakeup, NEW t \in Threads, t \notin not_full, t \notin not_empty,
           pc[t] \in {"idle", "pop", "pop_for", "pop_for_expired"},
           (size = 0 /\ ReturnNull(t)) \/ (size > 0 /\ Dequeue(t))
    PROVE  NoLostWakeup'
<1>0. size \in Nat
  BY CapacityPositive DEF TypeOK
<1>1. CASE size = 0 /\ ReturnNull(t)
  <2>1. /\ ProducerTokens \subseteq ProducerTokens'
        /\ AllProducersNotified => AllProducersNotified'
        /\ AllConsumersNotified => AllConsumersNotified'
    <3>1. "idle" \in Labels /\ Goto(t, "idle") /\ UNCHANGED waits
      BY <1>1 DEF Labels, ReturnNull
    <3> QED
      BY <3>1, TokensMove, Zenon DEF ProducerLooks
  <2>2. closed' = closed /\ not_full' = not_full /\ not_empty' = not_empty /\ size' = size
    BY <1>1 DEF ReturnNull, waits, ring
  <2>3. size' \in Int /\ size' <= 0 /\ size' >= size
    BY <1>0, <1>1, <2>2
  <2>4. NoLostProducerWakeup'
    BY <2>1, <2>2, <2>3, ProducersProvided, Zenon DEF NoLostWakeup
  <2>5. NoLostConsumerWakeup'
    BY <2>1, <2>2, <2>3, ConsumersProvided, Zenon DEF NoLostWakeup
  <2> QED
    BY <2>4, <2>5 DEF NoLostWakeup
<1>2. CASE size > 0 /\ Dequeue(t)
  <2>1. /\ ProducerTokens \subseteq ProducerTokens'
        /\ t \in ProducerTokens' /\ t \notin ProducerTokens
        /\ ConsumerTokens \ {t} \subseteq ConsumerTokens'
        /\ AllProducersNotified => AllProducersNotified'
        /\ AllConsumersNotified => AllConsumersNotified'
    <3>1. "notify_not_full" \in Labels /\ Goto(t, "notify_not_full") /\ UNCHANGED waits
      BY <1>2 DEF Labels, Dequeue
    <3> QED
      BY <3>1, TokensMove, Zenon DEF ProducerLooks
  <2>2. closed' = closed /\ not_full' = not_full /\ not_empty' = not_empty /\ size' = size - 1
    BY <1>2 DEF Dequeue, waits
  <2>3. size' \in Int
    BY <1>0, <2>2
  <2>4. NoLostProducerWakeup'
    BY <2>1, <2>2, <2>3, ProducersProvided, Zenon DEF NoLostWakeup
  <2>5. NoLostConsumerWakeup'
    BY <2>1, <2>2, <2>3, ConsumersProvided, ZenonT(30) DEF NoLostWakeup
  <2> QED
    BY <2>4, <2>5 DEF NoLostWakeup
<1> QED
  BY <1>1, <1>2, Zenon

(* pop_batch() and clear() notify every waiting producer if they free slots. *)
LEMMA ReleaseWakes ==
    ASSUME TypeOK, NoLostWakeup, NEW t \in Threads, pc[t] = "idle",
           NEW l \in {"idle", "notify_all_not_full"}, Goto(t, l), UNCHANGED <<closed, waits>>,
           size' \in 0..size, l = "idle" => size' = size
    PROVE  NoLostWakeup'
<1>1. t \notin not_full /\ t \notin not_empty /\ l \in Labels /\ UNCHANGED waits
  BY DEF TypeOK, Labels
<1>2. /\ ProducerTokens \subseteq ProducerTokens' /\ ConsumerTokens \subseteq ConsumerTokens'
      /\ AllProducersNotified => AllProducersNotified'
      /\ AllConsumersNotified => AllConsumersNotified'
  BY <1>1, TokensMove, Zenon DEF ProducerLooks, ConsumerLooks
<1>3. closed' = closed /\ not_full' = not_full /\ not_empty' = not_empty
  BY DEF waits
<1>4. size' \in Int /\ size' <= size /\ (l = "idle" => size' >= size)
  BY CapacityPositive DEF TypeOK
<1>5. NoLostConsumerWakeup'
  BY <1>2, <1>3, <1>4, ConsumersProvided, Zenon DEF NoLostWakeup
<1>6. CASE l = "idle"
  <2>1. NoLostProducerWakeup'
    BY <1>2, <1>3, <1>4, <1>6, ProducersProvided, Zenon DEF NoLostWakeup
  <2> QED
    BY <1>5, <2>1 DEF NoLostWakeup
<1>7. CASE l = "notify_all_not_full"
  <2>1. pc'[t] = "notify_all_not_full"
    BY <1>7 DEF Goto, TypeOK
  <2> QED
    BY <1>5, <2>1, Zenon DEF NoLostWakeup, NoLostProducerWakeup
<1> QED
  BY <1>6, <1>7, SMTT(30)

(* close() is followed by a notify_all for everybody. *)
LEMMA CloseWakes ==
    ASSUME TypeOK, NEW t \in Threads, close(t)
    PROVE  NoLostWakeup'
<1>1. pc'[t] = "close_notify_not_empty"
  BY DEF TypeOK, close, Goto
<1> QED
  BY <1>1, Zenon DEF NoLostWakeup, NoLostProducerWakeup, NoLostConsumerWakeup

(* A notify_one hands its token to the thread it wakes; a notify_all leaves  *)
(* nobody waiting.                                                           *)
LEMMA NotifyWakes ==
    ASSUME TypeOK, NoLostWakeup, NEW t \in Threads, NotifyStep(t)
    PROVE  NoLostWakeup'
<1>0. /\ size \in Nat /\ pc \in [Threads -> Labels]
      /\ \A u \in not_full : u \in Threads /\ pc[u] \in {"push", "push_for"}
      /\ \A u \in not_empty : u \in Threads /\ pc[u] \in {"pop", "pop_for"}
  BY CapacityPositive, SMTT(30) DEF TypeOK
<1>1. size' = size /\ closed' = closed
  BY DEF NotifyStep, notify_not_empty, notify_not_full, notify_all_not_full, close_notify_not_empty,
     ring
<1>2. size' \in Int /\ size' <= size /\ size' >= size
  BY <1>0, <1>1
<1>3. CASE notify_not_empty(t)
  <2>1. /\ pc[t] = "notify_not_empty" /\ pc' = [pc EXCEPT ![t] = "idle"] /\ not_full' = not_full
        /\ not_empty' \subseteq not_empty
        /\ not_empty # {} => \E w \in not_empty : not_empty' = not_empty \ {w}
    BY <1>3, Zenon DEF notify_not_empty, NotifyOne, Goto
  <2>2. pc'[t] = "idle" /\ \A u \in Threads : u # t => pc'[u] = pc[u]
    BY <1>0, <2>1, Zenon
  <2>3. /\ AllProducersNotified => AllProducersNotified'
        /\ AllConsumersNotified => AllConsumersNotified'
        /\ ProducerTokens \subseteq ProducerTokens'
    BY <2>1, <2>2 DEF AllProducersNotified, AllConsumersNotified, ProducerTokens
  <2>4. NoLostProducerWakeup'
    BY <1>1, <1>2, <2>1, <2>3, ProducersProvided, Zenon DEF NoLostWakeup
  <2>5. CASE not_empty = {}
    BY <2>1, <2>4, <2>5, Zenon DEF NoLostWakeup, NoLostConsumerWakeup
  <2>6. CASE not_empty # {}
    <3>1. PICK w \in not_empty : not_empty' = not_empty \ {w}
      BY <2>1, <2>6, SMTT(30)
    <3>2. /\ ConsumerTokens \in SUBSET Threads /\ ConsumerTokens' \in SUBSET Threads
          /\ t \in ConsumerTokens /\ w \in ConsumerTokens' /\ w \notin ConsumerTokens
          /\ ConsumerTokens \ {t} \subseteq ConsumerTokens'
      BY <1>0, <2>1, <2>2, <3>1, SMTT(30) DEF ConsumerTokens
    <3>3. /\ Cardinality(ConsumerTokens) <= Cardinality(ConsumerTokens')
          /\ Cardinality(ConsumerTokens) \in Nat /\ Cardinality(ConsumerTokens') \in Nat
      BY <3>2, PassToken, CountTokens, ZenonT(30)
    <3>4. size <= Cardinality(ConsumerTokens) => size' <= Cardinality(ConsumerTokens')
      BY <1>0, <1>1, <3>3
    <3>5. AllConsumersNotified \/ (~closed /\ size <= Cardinality(ConsumerTokens))
      BY <2>6, Zenon DEF NoLostWakeup, NoLostConsumerWakeup, AllConsumersNotified
    <3>6. AllConsumersNotified' \/ (~closed' /\ size' <= Cardinality(ConsumerTokens'))
      BY <1>1, <2>3, <3>4, <3>5, SMTT(30)
    <3> QED
      BY <2>4, <3>6, Zenon DEF NoLostWakeup, NoLostConsumerWakeup, AllConsumersNotified
  <2> QED
    BY <2>5, <2>6
<1>4. CASE notify_not_full(t)
  <2>1. /\ pc[t] = "notify_not_full" /\ pc' = [pc EXCEPT ![t] = "idle"] /\ not_empty' = not_empty
        /\ not_full' \subseteq not_full
        /\ not_full # {} => \E w \in not_full : not_full' = not_full \ {w}
    BY <1>4, Zenon DEF notify_not_full, NotifyOne, Goto
  <2>2. pc'[t] = "idle" /\ \A u \in Threads : u # t => pc'[u] = pc[u]
    BY <1>0, <2>1
  <2>3. /\ AllProducersNotified => AllProducersNotified'
        /\ AllConsumersNotified => AllConsumersNotified'
        /\ ConsumerTokens \subseteq ConsumerTokens'
    BY <2>1, <2>2 DEF AllProducersNotified, AllConsumersNotified, ConsumerTokens
  <2>4. NoLostConsumerWakeup'
    BY <1>1, <1>2, <2>1, <2>3, ConsumersProvided, Zenon DEF NoLostWakeup
  <2>5. CASE not_full = {}
    BY <2>1, <2>4, <2>5, Zenon DEF NoLostWakeup, NoLostProducerWakeup
  <2>6. CASE not_full # {}
    <3>1. PICK w \in not_full : not_full' = not_full \ {w}
      BY <2>1, <2>6, SMTT(30)
    <3>2. /\ ProducerTokens \in SUBSET Threads /\ ProducerTokens' \in SUBSET Threads
          /\ t \in ProducerTokens /\ w \in ProducerTokens' /\ w \notin ProducerTokens
          /\ ProducerTokens \ {t} \subseteq ProducerTokens'
      BY <1>0, <2>1, <2>2, <3>1, ZenonT(30) DEF ProducerTokens
    <3>3. /\ Cardinality(ProducerTokens) <= Cardinality(ProducerTokens')
          /\ Cardinality(ProducerTokens) \in Nat /\ Cardinality(ProducerTokens') \in Nat
      BY <3>2, PassToken, CountTokens, Zenon
    <3>4. capacity - size <= Cardinality(ProducerTokens) => capacity - size' <= Cardinality(ProducerTokens')
      BY <1>0, <1>1, <3>3, CapacityPositive, SMTT(30)
    <3>5. AllProducersNotified \/ (~closed /\ capacity - size <= Cardinality(ProducerTokens))
      BY <2>6, Zenon DEF NoLostWakeup, NoLostProducerWakeup, AllProducersNotified
    <3>6. AllProducersNotified' \/ (~closed' /\ capacity - size' <= Cardinality(ProducerTokens'))
      BY <1>1, <2>3, <3>4, <3>5, SMTT(30)
    <3> QED
      BY <2>4, <3>6, Zenon DEF NoLostWakeup, NoLostProducerWakeup, AllProducersNotified, capacity
  <2> QED
    BY <2>5, <2>6
<1>5. CASE notify_all_not_full(t)
  <2>1. /\ pc[t] = "notify_all_not_full" /\ pc' = [pc EXCEPT ![t] = "idle"]
        /\ not_empty' = not_empty /\ not_full' = {}
    BY <1>5, Zenon DEF notify_all_not_full, Goto
  <2>2. pc'[t] = "idle" /\ \A u \in Threads : u # t => pc'[u] = pc[u]
    BY <1>0, <2>1
  <2>3. /\ AllConsumersNotified => AllConsumersNotified'
        /\ ConsumerTokens \subseteq ConsumerTokens'
    BY <2>1, <2>2 DEF AllConsumersNotified, ConsumerTokens
  <2>4. NoLostConsumerWakeup'
    BY <1>1, <1>2, <2>1, <2>3, ConsumersProvided, Zenon DEF NoLostWakeup
  <2> QED
    BY <2>1, <2>4, Zenon DEF NoLostWakeup, NoLostProducerWakeup
<1>6. CASE close_notify_not_empty(t)
  <2>1. pc'[t] = "notify_all_not_full" /\ not_empty' = {}
    BY <1>0, <1>6 DEF close_notify_not_empty, Goto
  <2> QED
    BY <2>1, Zenon DEF NoLostWakeup, NoLostProducerWakeup, NoLostConsumerWakeup
<1> QED
  BY <1>3, <1>4, <1>5, <1>6, SMTT(30) DEF NotifyStep

(* A thread that stops waiting looks at the queue before it waits again. *)
LEMMA LeaveWakes ==
    ASSUME TypeOK, NoLostWakeup, NEW t \in Threads, SpuriousWakeup(t) \/ Expire(t)
    PROVE  NoLostWakeup'
<1>1. /\ size' = size /\ closed' = closed /\ size \in Nat /\ pc \in [Threads -> Labels]
      /\ not_full' = not_full \ {t} /\ not_empty' = not_empty \ {t} /\ t \in not_empty \cup not_full
      /\ \/ pc' = pc
         \/ pc[t] = "push_for" /\ pc' = [pc EXCEPT ![t] = "push_for_expired"]
         \/ pc[t] = "pop_for" /\ pc' = [pc EXCEPT ![t] = "pop_for_expired"]
  BY CapacityPositive DEF TypeOK, SpuriousWakeup, Expire, ring, Goto
<1>2. /\ \A u \in Threads : u # t => pc'[u] = pc[u]
      /\ pc[t] \in {"push", "push_for", "pop", "pop_for"}
      /\ \/ pc'[t] = pc[t]
         \/ pc[t] = "push_for" /\ pc'[t] = "push_for_expired"
         \/ pc[t] = "pop_for" /\ pc'[t] = "pop_for_expired"
  BY <1>1, Zenon DEF TypeOK
<1>3. /\ AllProducersNotified => AllProducersNotified'
      /\ AllConsumersNotified => AllConsumersNotified'
  BY <1>2 DEF AllProducersNotified, AllConsumersNotified
<1>4. ProducerTokens \subseteq ProducerTokens' /\ ConsumerTokens \subseteq ConsumerTokens'
  BY <1>1, <1>2 DEF ProducerTokens, ConsumerTokens
<1>5. /\ size' \in Int /\ size' <= size /\ size' >= size
      /\ not_full' # {} => not_full # {}
      /\ not_empty' # {} => not_empty # {}
  BY <1>1
<1>6. NoLostProducerWakeup'
  BY <1>1, <1>3, <1>4, <1>5, ProducersProvided, Zenon DEF NoLostWakeup
<1>7. NoLostConsumerWakeup'
  BY <1>1, <1>3, <1>4, <1>5, ConsumersProvided, Zenon DEF NoLostWakeup
<1> QED
  BY <1>6, <1>7 DEF NoLostWakeup

(* Every step of a producer leaves somebody awake for what is there. *)
LEMMA ProducerWakes ==
    ASSUME TypeOK, NoLostWakeup, NEW t \in Producers, ProducerStep(t)
    PROVE  NoLostWakeup'
<1>0. t \in Threads /\ "DropNewest" \in {"DropNewest", "Block"} /\ "Block" \in {"DropNewest", "Block"}
      /\ "DropNewest" \in {"DropNewest"}
  BY DEF Threads
<1>1. ASSUME NEW x \in Items, try_push(t, x) PROVE NoLostWakeup'
  <2>1. t \notin not_full /\ t \notin not_empty /\ pc[t] = "idle"
    BY <1>1 DEF try_push, BeginPush, TypeOK
  <2> QED
    BY <1>0, <1>1, <2>1, AdmitWakes, Zenon DEF try_push
<1>2. ASSUME NEW x \in Items, push(t, x) \/ push_for(t, x) PROVE NoLostWakeup'
  <2>1. t \notin not_full /\ t \notin not_empty /\ pc[t] \in {"idle", "push", "push_for"}
    BY <1>2 DEF push, push_for, InPush, BeginPush, TypeOK
  <2>2. ASSUME NEW op \in {"push", "push_for"}, ~CanPush, WaitNotFull(t, op, x) PROVE NoLostWakeup'
    <3>1. /\ Goto(t, op) /\ UNCHANGED <<ring, closed>>
          /\ not_full' = not_full \cup {t} /\ not_empty' = not_empty
      BY <2>2 DEF WaitNotFull
    <3> QED
      BY <1>0, <2>1, <2>2, <3>1, WaitWakes, Zenon
  <2>3. CASE (drop_policy = "Block" => CanPush) /\ Admit(t, x, {"DropNewest"})
    BY <1>0, <2>1, <2>3, AdmitWakes, Zenon
  <2>4. CASE Admit(t, x, {"DropNewest", "Block"})
    BY <1>0, <2>1, <2>4, AdmitWakes, Zenon
  <2> QED
    BY <1>2, <2>2, <2>3, <2>4, Zenon DEF push, push_for
<1>3. CASE push_for_expired(t)
  <2>1. t \notin not_full /\ t \notin not_empty /\ pc[t] = "push_for_expired"
    BY <1>3 DEF push_for_expired, TypeOK
  <2>2. CASE ~CanPush /\ ReturnFalse(t)
    <3>1. size >= capacity
      BY <2>2, CapacityPositive DEF CanPush, TypeOK
    <3> QED
      BY <1>0, <2>1, <2>2, <3>1, ReturnWakes, Zenon DEF ReturnFalse, Return
  <2>3. CASE Admit(t, arg[t], {"DropNewest", "Block"})
    BY <1>0, <2>1, <2>3, AdmitWakes, Zenon
  <2> QED
    BY <1>3, <2>2, <2>3, Zenon DEF push_for_expired
<1> QED
  BY <1>1, <1>2, <1>3, Zenon DEF ProducerStep

(* Every step of a consumer leaves somebody awake for what is there. *)
LEMMA ConsumerWakes ==
    ASSUME TypeOK, NoLostWakeup, NEW t \in Consumers, ConsumerStep(t)
    PROVE  NoLostWakeup'
<1>0. t \in Threads
  BY DEF Threads
<1>1. ASSUME try_pop(t) \/ pop_for_expired(t) PROVE NoLostWakeup'
  <2>1. t \notin not_full /\ t \notin not_empty /\ pc[t] \in {"idle", "pop_for_expired"}
    BY <1>1 DEF try_pop, pop_for_expired, TypeOK
  <2> QED
    BY <1>0, <1>1, <2>1, PopWakes, Zenon DEF try_pop, pop_for_expired
<1>2. ASSUME pop(t) \/ pop_for(t) PROVE NoLostWakeup'
  <2>1. t \notin not_full /\ t \notin not_empty /\ pc[t] \in {"idle", "pop", "pop_for"}
    BY <1>2 DEF pop, pop_for, InPop, TypeOK
  <2>2. ASSUME NEW op \in {"pop", "pop_for"}, ~CanPop, WaitNotEmpty(t, op) PROVE NoLostWakeup'
    <3>1. /\ Goto(t, op) /\ UNCHANGED <<ring, closed>>
          /\ not_empty' = not_empty \cup {t} /\ not_full' = not_full
      BY <2>2 DEF WaitNotEmpty
    <3> QED
      BY <1>0, <2>1, <2>2, <3>1, WaitWakes, Zenon
  <2>3. CASE (size = 0 /\ ReturnNull(t)) \/ (size > 0 /\ Dequeue(t))
    BY <1>0, <2>1, <2>3, PopWakes, Zenon
  <2> QED
    BY <1>2, <2>2, <2>3, Zenon DEF pop, pop_for
<1>3. ASSUME NEW n \in BatchSizes, pop_batch(t, n) PROVE NoLostWakeup'
  <2> DEFINE count == IF n < size THEN n ELSE size
             l == IF count > 0 THEN "notify_all_not_full" ELSE "idle"
  <2>1. /\ pc[t] = "idle" /\ Goto(t, l) /\ UNCHANGED <<closed, waits>> /\ size' = size - count
    BY <1>3, Zenon DEF pop_batch, Release
  <2>2. n \in Nat /\ size \in Nat
    BY BatchAssumption, CapacityPositive DEF TypeOK
  <2>3. size' \in 0..size /\ (l = "idle" => size' = size) /\ l \in {"idle", "notify_all_not_full"}
    BY <2>1, <2>2
  <2> QED
    BY <1>0, <2>1, <2>3, ReleaseWakes, Zenon
<1> QED
  BY <1>1, <1>2, <1>3, Zenon DEF ConsumerStep

(* No step loses a wake-up. *)
LEMMA WakesStep ==
    ASSUME TypeOK, NoLostWakeup, [Next]_vars
    PROVE  NoLostWakeup'
<1>1. ASSUME NEW t \in Managers, ManagerStep(t) PROVE NoLostWakeup'
  <2>0. t \in Threads
    BY DEF Threads
  <2>1. CASE close(t)
    BY <2>0, <2>1, CloseWakes
  <2>2. CASE clear(t)
    <3>1. /\ pc[t] = "idle" /\ Goto(t, "notify_all_not_full") /\ UNCHANGED <<closed, waits>>
          /\ size' = size - size
      BY <2>2, Zenon DEF clear, Release
    <3>2. size' \in 0..size
      BY <3>1, CapacityPositive DEF TypeOK
    <3> QED
      BY <2>0, <3>1, <3>2, ReleaseWakes
  <2>3. CASE reset_stats(t)
    <3>1. /\ size' = size /\ closed' = closed /\ not_full' = not_full /\ not_empty' = not_empty
          /\ pc' = pc
      BY <2>3 DEF reset_stats, ring, waits
    <3> QED
      BY <3>1, Zenon DEF NoLostWakeup, NoLostProducerWakeup, NoLostConsumerWakeup, ProducerTokens,
         ConsumerTokens, capacity
  <2> QED
    BY <1>1, <2>1, <2>2, <2>3 DEF ManagerStep
<1>2. CASE UNCHANGED vars
  <2>1. /\ size' = size /\ closed' = closed /\ not_full' = not_full /\ not_empty' = not_empty
        /\ pc' = pc
    BY <1>2 DEF vars, ring, waits
  <2> QED
    BY <2>1, Zenon DEF NoLostWakeup, NoLostProducerWakeup, NoLostConsumerWakeup, ProducerTokens,
       ConsumerTokens, capacity
<1> QED
  BY <1>1, <1>2, ProducerWakes, ConsumerWakes, NotifyWakes, LeaveWakes, Zenon DEF Next, Step

(* No blocked thread sleeps beside a free slot or an element that nobody     *)
(* else is on the way to, however late the notify calls come that the code   *)
(* makes after it has released the mutex.                                    *)
THEOREM NoWakeupLost == Spec => []NoLostWakeup
<1>1. Init => NoLostWakeup
  BY Zenon DEF Init, NoLostWakeup, NoLostProducerWakeup, NoLostConsumerWakeup
<1>2. TypeOK /\ NoLostWakeup /\ [Next]_vars => NoLostWakeup'
  BY WakesStep, Zenon
<1> QED
  BY <1>1, <1>2, TypeCorrect, PTL DEF Spec

-----------------------------------------------------------------------------
(* The ring implements the FIFO queue of FifoQueue.  By the effects above, a *)
(* step either leaves the window of the ring alone or appends to it, gives   *)
(* up its n oldest elements, or does both at once.                           *)

(* A function over 1..n is a sequence of length n. *)
LEMMA FunctionIsSequence ==
    ASSUME NEW S, NEW n \in Nat, NEW f \in [1..n -> S]
    PROVE  f \in Seq(S) /\ Len(f) = n
<1>1. f \in Seq(S)
  BY SeqDef
<1>2. Len(f) \in Nat /\ DOMAIN f = 1..Len(f) /\ DOMAIN f = 1..n
  BY <1>1, LenProperties
<1> QED
  BY <1>1, <1>2

(* The contents are a sequence of items, as long as the window. *)
LEMMA ContentsAre ==
    ASSUME TypeOK, RingInv
    PROVE  /\ size \in Nat
           /\ contents \in Seq(Items) /\ Len(contents) = size
           /\ \A i \in 1..size : contents[i] = buffer[At(i - 1)] /\ contents[i] \in Items
<1>1. size \in Nat
  BY CapacityPositive DEF TypeOK
<1>2. \A i \in 1..size : contents[i] = buffer[At(i - 1)]
  BY DEF contents
<1>3. \A i \in 1..size : buffer[At(i - 1)] \in Items
  BY <1>1 DEF RingInv
<1>4. contents \in [1..size -> Items]
  BY <1>3 DEF contents
<1> QED
  BY <1>1, <1>2, <1>3, <1>4, FunctionIsSequence, SMTT(30)

(* What the window must look like after a step for the contents to be s. *)
LEMMA ContentsBecome ==
    ASSUME NEW s \in Seq(Items), size' = Len(s),
           \A i \in 1..Len(s) : buffer'[At(i - 1)'] = s[i]
    PROVE  contents' = s
<1>1. contents' = [i \in 1..Len(s) |-> buffer'[At(i - 1)']]
  BY DEF contents
<1>2. Len(s) \in Nat /\ s \in [1..Len(s) -> Items]
  BY LenProperties
<1>3. contents' = [i \in 1..Len(s) |-> s[i]]
  BY <1>1
<1> QED
  BY <1>2, <1>3

-----------------------------------------------------------------------------
(* The three changes of the window. *)

(* Storing an element appends it to the abstract queue. *)
LEMMA EnqueueAppends ==
    ASSUME TypeOK, RingInv, NEW t, NEW x \in Items, size < capacity, Enqueue(t, x)
    PROVE  contents' = Append(contents, x)
<1> DEFINE s == Append(contents, x)
<1>0. /\ capacity \in Nat \ {0} /\ head \in Slots /\ size \in 0..(capacity - 1)
      /\ buffer \in [Slots -> Items \cup {NoItem}] /\ size' = size + 1
  BY CapacityPositive DEF TypeOK, Enqueue
<1>1. \A i \in 0..capacity :
         /\ At(i) = IF head + i < capacity THEN head + i ELSE head + i - capacity
         /\ At(i) \in Slots
  BY <1>0, AtValue
<1>2. \A i : At(i)' = At(i)
  BY DEF Enqueue, At
<1>3. /\ s \in Seq(Items) /\ Len(s) = size + 1 /\ s[size + 1] = x
      /\ \A i \in 1..size : s[i] = buffer[At(i - 1)]
  <2>1. /\ contents \in Seq(Items) /\ Len(contents) = size
        /\ \A i \in 1..size : contents[i] = buffer[At(i - 1)]
    BY ContentsAre
  <2>2. /\ s \in Seq(Items) /\ Len(s) = Len(contents) + 1 /\ s[Len(contents) + 1] = x
        /\ \A i \in 1..Len(contents) : s[i] = contents[i]
    BY <2>1, AppendProperties
  <2> HIDE DEF s
  <2> QED
    BY <2>1, <2>2
<1>4. tail = At(size) /\ buffer' = [buffer EXCEPT ![tail] = x]
  BY DEF RingInv, Enqueue
<1>5. \A i \in 0..(size - 1) : At(i) # At(size)
  <2>1. head \in 0..(capacity - 1)
    BY <1>0 DEF Slots
  <2>2. \A i, j \in 0..(capacity - 1) : At(i) = At(j) => i = j
    BY <1>0, <1>1, <2>1
  <2> QED
    BY <1>0, <2>2
<1>6. ASSUME NEW i \in 1..(size + 1) PROVE buffer'[At(i - 1)'] = s[i]
  <2>1. i - 1 \in 0..size /\ At(i - 1)' = At(i - 1) /\ At(i - 1) \in Slots
    BY <1>0, <1>1, <1>2
  <2> HIDE DEF s
  <2>2. CASE i = size + 1
    <3>1. At(i - 1)' = tail /\ tail \in Slots
      <4>1. i - 1 = size
        BY <1>0, <2>2
      <4> QED
        BY <1>4, <2>1, <4>1
    <3> QED
      BY <1>0, <1>3, <1>4, <2>2, <3>1, Zenon
  <2>3. CASE i \in 1..size
    BY <1>0, <1>3, <1>4, <1>5, <2>1, <2>3, SMTT(30)
  <2> QED
    BY <1>0, <2>2, <2>3
<1> HIDE DEF s
<1> QED
  <2>1. s \in Seq(Items) /\ size' = Len(s)
    BY <1>0, <1>3, <1>6
  <2>2. \A i \in 1..Len(s) : buffer'[At(i - 1)'] = s[i]
    BY <1>0, <1>3, <1>6
  <2>3. contents' = s
    BY <2>1, <2>2, ContentsBecome
  <2> QED
    BY <2>3 DEF s

(* An eviction drops the first element and appends the new one. *)
LEMMA EvictShifts ==
    ASSUME TypeOK, RingInv, NEW t, NEW x \in Items, size = capacity, EvictAndEnqueue(t, x)
    PROVE  contents' = Append(Tail(contents), x)
<1> DEFINE s == Append(Tail(contents), x)
<1>0. /\ capacity \in Nat \ {0} /\ head \in Slots /\ head' = Succ(head) /\ head' \in Slots
      /\ buffer \in [Slots -> Items \cup {NoItem}] /\ size' = size
  BY CapacityPositive, SuccValue DEF TypeOK, EvictAndEnqueue
<1>1. \A i \in 0..capacity :
         /\ At(i) = IF head + i < capacity THEN head + i ELSE head + i - capacity
         /\ At(i) \in Slots
  BY <1>0, AtValue
<1>2. \A i \in 0..capacity :
         At(i)' = IF head' + i < capacity THEN head' + i ELSE head' + i - capacity
  <2> TAKE i \in 0..capacity
  <2>1. head' \in 0..(capacity - 1)
    BY <1>0 DEF Slots
  <2> QED
    BY <1>0, <2>1, WrapAround, Zenon DEF At
<1>3. head' = IF head + 1 < capacity THEN head + 1 ELSE 0
  BY <1>0, SuccValue
<1>4. contents # <<>>
  BY <1>0, ContentsAre, EmptySeq, SMTT(30)
<1>5. /\ Tail(contents) \in Seq(Items) /\ Len(Tail(contents)) = capacity - 1
      /\ \A i \in 1..(capacity - 1) : Tail(contents)[i] = contents[i + 1]
  BY <1>0, <1>4, ContentsAre, HeadTailProperties, ZenonT(30)
<1>6. /\ s \in Seq(Items) /\ Len(s) = capacity /\ s[capacity] = x
      /\ \A i \in 1..(capacity - 1) : s[i] = buffer[At(i)]
  <2>1. /\ s \in Seq(Items) /\ Len(s) = capacity - 1 + 1 /\ s[capacity - 1 + 1] = x
        /\ \A i \in 1..(capacity - 1) : s[i] = Tail(contents)[i]
    BY <1>5, AppendProperties
  <2>2. \A i \in 1..(capacity - 1) : contents[i + 1] = buffer[At(i)]
    <3> TAKE i \in 1..(capacity - 1)
    <3>1. i + 1 \in 1..size /\ i + 1 - 1 = i
      BY <1>0
    <3>2. contents[i + 1] = buffer[At(i + 1 - 1)]
      BY <3>1, ContentsAre
    <3> QED
      BY <3>1, <3>2, Zenon
  <2> QED
    BY <1>0, <1>5, <2>1, <2>2, SMTT(30)
<1>7. tail = head
  BY <1>0, <1>1 DEF RingInv, Slots
<1>8. \A k \in Slots : buffer'[k] = IF k = head THEN x ELSE buffer[k]
  BY <1>0, <1>7 DEF EvictAndEnqueue
<1>9. ASSUME NEW i \in 1..capacity PROVE buffer'[At(i - 1)'] = s[i]
  <2>1. CASE i = capacity
    <3>1. At(i - 1)' = head
      BY <1>0, <1>2, <1>3, <2>1, SMTT(30) DEF Slots
    <3> QED
      BY <1>0, <1>6, <1>8, <2>1, <3>1, SMTT(30)
  <2>2. CASE i \in 1..(capacity - 1)
    <3>1. head \in 0..(capacity - 1)
      BY <1>0 DEF Slots
    <3>2. \A j \in 0..(capacity - 2) : At(j)' = At(j + 1) /\ At(j + 1) # head
      BY <1>0, <1>1, <1>2, <1>3, <3>1, SMTT(30)
    <3>3. i - 1 \in 0..(capacity - 2) /\ i - 1 + 1 = i /\ i \in 0..capacity
      BY <1>0, <2>2
    <3>4. At(i - 1)' = At(i) /\ At(i) # head /\ At(i) \in Slots
      BY <1>1, <3>2, <3>3
    <3> QED
      BY <1>6, <1>8, <2>2, <3>4
  <2>3. i = capacity \/ i \in 1..(capacity - 1)
    BY <1>0
  <2> QED
    BY <2>1, <2>2, <2>3, ZenonT(30)
<1> HIDE DEF s
<1> QED
  <2>1. s \in Seq(Items) /\ size' = Len(s)
    BY <1>0, <1>6, <1>9, SMTT(30)
  <2>2. \A i \in 1..Len(s) : buffer'[At(i - 1)'] = s[i]
    BY <1>0, <1>6, <1>9
  <2>3. contents' = s
    BY <2>1, <2>2, ContentsBecome
  <2> QED
    BY <2>3, Zenon DEF s

(* Popping n elements drops the first n. *)
LEMMA ReleaseDrops ==
    ASSUME TypeOK, RingInv, NEW n \in 0..size, Release(n)
    PROVE  contents' = SubSeq(contents, n + 1, Len(contents))
<1> DEFINE s == SubSeq(contents, n + 1, Len(contents))
<1>0. /\ capacity \in Nat \ {0} /\ head \in Slots /\ head' = At(n) /\ head' \in Slots
      /\ size \in 0..capacity /\ size' = size - n
      /\ buffer \in [Slots -> Items \cup {NoItem}]
  BY CapacityPositive, AtValue DEF TypeOK, Release
<1>1. \A i \in 0..capacity :
         /\ At(i) = IF head + i < capacity THEN head + i ELSE head + i - capacity
         /\ At(i) \in Slots
  BY <1>0, AtValue
<1>2. \A i \in 0..capacity :
         At(i)' = IF head' + i < capacity THEN head' + i ELSE head' + i - capacity
  <2> TAKE i \in 0..capacity
  <2>1. head' \in 0..(capacity - 1)
    BY <1>0 DEF Slots
  <2> QED
    BY <1>0, <2>1, WrapAround, Zenon DEF At
<1>3. Len(contents) = size /\ \A i \in (n + 1)..size : contents[i] \in Items
  BY <1>0, ContentsAre, SMTT(30)
<1>4. /\ s \in Seq(Items) /\ Len(s) = size - n
      /\ \A i \in 1..(size - n) : s[i] = contents[n + i]
  <2>1. /\ SubSeq(contents, n + 1, size) \in Seq(Items)
        /\ Len(SubSeq(contents, n + 1, size)) = IF n + 1 <= size THEN size - (n + 1) + 1 ELSE 0
        /\ \A i \in 1..(size - (n + 1) + 1) : SubSeq(contents, n + 1, size)[i] = contents[n + 1 + i - 1]
    <3>1. n + 1 \in Int /\ size \in Int
      BY <1>0
    <3> QED
      BY ONLY <1>3, <3>1, SubSeqProperties
  <2>2. /\ (IF n + 1 <= size THEN size - (n + 1) + 1 ELSE 0) = size - n
        /\ size - (n + 1) + 1 = size - n
        /\ \A i \in 1..(size - n) : n + 1 + i - 1 = n + i
    BY <1>0
  <2> QED
    BY <1>3, <2>1, <2>2, SMTT(30)
<1>5. ASSUME NEW i \in 1..(size - n) PROVE buffer'[At(i - 1)'] = s[i]
  <2>0. head \in 0..(capacity - 1) /\ head' \in 0..(capacity - 1)
    BY <1>0 DEF Slots
  <2>1. At(i - 1)' = At(n + i - 1) /\ At(n + i - 1) \in Slots
    <3>1. \A j \in 0..(capacity - n) : At(j)' = At(j + n)
      BY <1>0, <1>1, <1>2, <2>0
    <3>2. i - 1 \in 0..(capacity - n) /\ i - 1 + n = n + i - 1 /\ n + i - 1 \in 0..capacity
      BY <1>0
    <3> QED
      BY <1>1, <3>1, <3>2
  <2>2. At(n + i - 1) \notin ReleasedSlots(n)
    <3>1. \A j, k \in 0..(capacity - 1) : At(j) = At(k) => j = k
      BY <1>0, <1>1, <2>0
    <3>2. n + i - 1 \in n..(capacity - 1) /\ \A k \in 0..(n - 1) : k \in 0..(capacity - 1) /\ k # n + i - 1
      BY <1>0
    <3> QED
      BY <1>0, <3>1, <3>2 DEF ReleasedSlots
  <2>3. contents[n + i] = buffer[At(n + i - 1)]
    BY <1>0, ContentsAre
  <2> QED
    BY <1>4, <2>1, <2>2, <2>3 DEF Release
<1> HIDE DEF s
<1> QED
  <2>1. s \in Seq(Items) /\ size' = Len(s)
    BY <1>0, <1>4, <1>5
  <2>2. \A i \in 1..Len(s) : buffer'[At(i - 1)'] = s[i]
    BY <1>0, <1>4, <1>5
  <2>3. contents' = s
    BY <2>1, <2>2, ContentsBecome, SMTT(30)
  <2> QED
    BY <2>3 DEF s

-----------------------------------------------------------------------------
(* A step that leaves the ring alone leaves the contents alone. *)
LEMMA RingKeepsContents ==
    ASSUME UNCHANGED ring
    PROVE  contents' = contents
BY DEF ring, contents, At

(* Giving up elements is a step of the FIFO queue, or none. *)
LEMMA ReleaseLeaves ==
    ASSUME TypeOK, RingInv, NEW n \in 0..size, Release(n), UNCHANGED closed
    PROVE  Fifo!Next \/ UNCHANGED <<contents, closed>>
<1>1. Len(contents) = size /\ size \in Nat /\ contents \in Seq(Items)
  BY ContentsAre
<1>2. contents' = SubSeq(contents, n + 1, Len(contents))
  BY ReleaseDrops
<1>3. CASE n = 0
  BY <1>1, <1>2, <1>3, SubSeqFull
<1>4. CASE n \in 1..Len(contents)
  BY <1>2, <1>4, Zenon DEF Fifo!Next, Fifo!Leave
<1> QED
  BY <1>1, <1>3, <1>4

(* Every effect is a step of the abstract queue or leaves it alone. *)
LEMMA EffectIsFifo ==
    ASSUME TypeOK, RingInv, Effect
    PROVE  Fifo!Next \/ UNCHANGED <<contents, closed>>
<1>0. Len(contents) = size /\ size \in Nat
  BY ContentsAre
<1>1. ASSUME NEW t, NEW x \in Items, ~closed, size < capacity, Enqueue(t, x)
      PROVE  Fifo!Next
  <2>1. contents' = Append(contents, x)
    BY <1>1, EnqueueAppends, Zenon
  <2>2. UNCHANGED closed
    BY <1>1, Zenon DEF Enqueue
  <2> QED
    BY <1>0, <1>1, <2>1, <2>2 DEF Fifo!Next, Fifo!Accept
<1>2. ASSUME NEW t, NEW x \in Items, ~closed, size = capacity, drop_policy = "DropOldest",
             EvictAndEnqueue(t, x)
      PROVE  Fifo!Next
  <2>1. contents' = Append(Tail(contents), x)
    BY <1>2, EvictShifts, Zenon
  <2>2. UNCHANGED closed
    BY <1>2, Zenon DEF EvictAndEnqueue
  <2> QED
    BY <1>0, <1>2, <2>1, <2>2 DEF Fifo!Next, Fifo!AcceptAndEvict
<1>3. ASSUME NEW t, Reject(t) \/ reset_stats(t)
      PROVE  UNCHANGED <<contents, closed>>
  BY <1>3, RingKeepsContents DEF Reject, reset_stats
<1>4. ASSUME NEW t, size > 0, Dequeue(t)
      PROVE  Fifo!Next \/ UNCHANGED <<contents, closed>>
  BY <1>4, DequeueReleases, ReleaseLeaves DEF Dequeue
<1>5. ASSUME NEW t, NEW n \in BatchSizes, pop_batch(t, n)
      PROVE  Fifo!Next \/ UNCHANGED <<contents, closed>>
  BY <1>5, BatchReleases, ReleaseLeaves, Zenon DEF pop_batch
<1>6. ASSUME NEW t, clear(t)
      PROVE  Fifo!Next \/ UNCHANGED <<contents, closed>>
  <2>1. size \in 0..size
    BY <1>0
  <2> QED
    BY <1>6, <2>1, ReleaseLeaves DEF clear
<1>7. ASSUME NEW t, close(t)
      PROVE  Fifo!Next
  <2>1. contents' = contents /\ closed'
    BY <1>7, RingKeepsContents DEF close
  <2> QED
    BY <1>7, <2>1 DEF Fifo!Next, Fifo!Close, close
<1>8. CASE UNCHANGED <<ring, closed, stats, history>>
  BY <1>8, RingKeepsContents
<1> QED
  BY <1>1, <1>2, <1>3, <1>4, <1>5, <1>6, <1>7, <1>8, SMTT(30) DEF Effect

(* The queue is FIFO for every capacity, policy and number of threads: each  *)
(* step of the ring accepts, evicts and accepts, gives up the oldest         *)
(* elements or closes, as FifoQueue says, or changes nothing a user of the   *)
(* queue can see.                                                            *)
THEOREM ImplementsFifo == Spec => RefinesFifo
<1>1. Init => Fifo!Init
  <2> SUFFICES ASSUME Init PROVE Fifo!Init
    OBVIOUS
  <2>1. size = 0 /\ 1..0 = {}
    BY DEF Init
  <2>2. contents = <<>>
    BY <2>1 DEF contents
  <2> QED
    BY <2>2 DEF Init, Fifo!Init
<1>2. TypeOK /\ RingInv /\ [Next]_vars
        => [Fifo!Next /\ UNCHANGED drop_policy]_<<contents, closed, drop_policy>>
  BY StepEffect, PolicyKept, EffectIsFifo
<1> QED
  BY <1>1, <1>2, TypeCorrect, RingConsistent, PTL DEF Spec, RefinesFifo, Fifo!Spec
=============================================================================
