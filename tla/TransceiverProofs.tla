--------------------------- MODULE TransceiverProofs ---------------------------
(***************************************************************************)
(* Proofs about Transceiver for every number of transports and workers,     *)
(* every capacity and every configuration.  The inductive invariant says    *)
(* how far start() or stop() has come (Progress): which I/O threads and     *)
(* which workers there may still be, and that the queue is closed exactly   *)
(* when no I/O thread is left to push to it.                                *)
(***************************************************************************)
EXTENDS Transceiver, FiniteSetTheorems, SequenceTheorems, WellFoundedInduction, TLAPS

(* The constructor of the queue raises a capacity of 0. *)
LEMMA CapacityPositive == capacity \in Nat \ {0}
BY QueueAssumption DEF capacity

-----------------------------------------------------------------------------
(* The type invariant, in parts. *)

AppLabels == {"idle", "start", "stop", "stopping", "wait", "join"}
IoLabels == {"off", "idle", "decoded", "push", "pause"}
WorkerLabels == {"off", "new", "pop", "send", "handle", "fill", "resume", "done"}
StatsType == [{"received", "dispatched", "dropped", "decode_errors", "handler_errors",
               "handler_timeouts", "reports"} -> Nat]

ControlType ==
    /\ running \in BOOLEAN /\ closed \in BOOLEAN /\ expired \in BOOLEAN
    /\ app \in AppLabels
    /\ turn \in 1..(NT + 1)
    /\ io \in [Transports -> IoLabels]
    /\ worker \in [Workers -> WorkerLabels]

FlowType ==
    /\ config \in Configs
    /\ queue \in Seq(Messages) /\ Len(queue) <= capacity
    /\ batch \in [Transports -> Seq(Messages)]
    /\ held \in [Workers -> Messages \cup {NoMessage}]

CountType ==
    /\ seen \in [Transports -> 0..MaxMessages]
    /\ stats \in StatsType
    /\ starts \in Nat /\ evicted \in Nat /\ unhandled \in Nat
    /\ latest \in [Transports -> 0..MaxMessages]

Types == ControlType /\ FlowType /\ CountType

-----------------------------------------------------------------------------
(* How far start() or stop() has come. *)

Stopped == app = "idle" /\ ~running

(* The thread of transport t has been started and not been joined. *)
Gone(t) ==
    \/ app = "start" /\ t >= turn
    \/ app \in {"stop", "stopping"} /\ t < turn
    \/ app \in {"wait", "join"} \/ Stopped

Active == {k \in Workers : worker[k] \in {"pop", "send", "handle", "fill", "resume"}}

Progress ==
    /\ app = "stopping" => turn \in Transports
    /\ app = "start" => running
    /\ running => app \in {"idle", "start"}
    /\ closed <=> (app \in {"wait", "join"} \/ Stopped)
    /\ \A t \in Transports : Gone(t) => io[t] = "off"
    /\ \A t \in Transports : io[t] \notin {"decoded", "push"} => batch[t] = <<>>
    /\ \A k \in Workers : worker[k] = "off" <=> Stopped
    /\ \A k \in Workers : worker[k] = "done" => closed /\ queue = <<>>
    /\ Stopped => queue = <<>>

ActiveCounted == active_workers = Cardinality(Active)

IInv == Types /\ Progress /\ ActiveCounted /\ ShutdownDropsNothing

-----------------------------------------------------------------------------
(* Where the messages of a transport are: first those taken from the queue,  *)
(* then those in the queue, then those of the batch, the last of which was   *)
(* received last.                                                            *)
Pushed(t) == seen[t] - Len(batch[t])

Ordered ==
    /\ \A t \in Transports : latest[t] <= Pushed(t)
    /\ \A t \in Transports : \A i \in 1..Len(batch[t]) : batch[t][i] = <<t, Pushed(t) + i>>
    /\ \A t \in Transports, i \in 1..Len(queue) :
         queue[i][1] = t => latest[t] < queue[i][2] /\ queue[i][2] <= Pushed(t)
    /\ \A i, j \in 1..Len(queue) :
         i < j /\ queue[i][1] = queue[j][1] => queue[i][2] < queue[j][2]

-----------------------------------------------------------------------------
(* Types. *)

(* The steps of the application keep the types of the control state. *)
LEMMA AppTypes ==
    ASSUME Types, Progress, AppCall \/ AppStep, UNCHANGED config
    PROVE  ControlType'
<1>0. NT \in Nat /\ Transports = 1..NT /\ 1 \in 1..(NT + 1)
  BY TransportsAssumption DEF Transports
<1> USE <1>0 DEF Types, ControlType, appOnly, pipeline, AppLabels, IoLabels, WorkerLabels
<1>1. CASE start
  BY <1>1, Zenon DEF start
<1>2. CASE start_transport
  BY <1>2 DEF start_transport
<1>3. CASE start_transport_failed
  BY <1>3, Zenon DEF start_transport_failed
<1>4. CASE start_returns
  BY <1>4 DEF start_returns
<1>5. CASE stop
  BY <1>5, Zenon DEF stop
<1>6. CASE stop_not_running
  BY <1>6 DEF stop_not_running
<1>7. CASE stop_transport
  BY <1>7 DEF stop_transport
<1>8. CASE stop_transport_joined
  BY <1>8 DEF stop_transport_joined, Progress
<1>9. CASE close_queue
  BY <1>9 DEF close_queue, Q!Close
<1>10. CASE shutdown_wait
  BY <1>10 DEF shutdown_wait
<1>11. CASE join_workers
  BY <1>11 DEF join_workers
<1> QED
  BY <1>1, <1>2, <1>3, <1>4, <1>5, <1>6, <1>7, <1>8, <1>9, <1>10, <1>11
  DEF AppCall, AppStep

(* The steps of the I/O threads keep them. *)
LEMMA IoTypes ==
    ASSUME Types, NEW t \in Transports, handle_data_received(t) \/ IoStep(t), UNCHANGED config
    PROVE  ControlType'
<1> USE DEF Types, ControlType, ioOnly, IoLabels
<1>1. CASE handle_data_received(t)
  BY <1>1, Zenon DEF handle_data_received
<1>2. CASE release_locks(t)
  BY <1>2 DEF release_locks
<1>3. CASE push_message(t)
  BY <1>3 DEF push_message
<1>4. CASE check_back_pressure(t)
  BY <1>4 DEF check_back_pressure
<1>5. CASE pause(t)
  BY <1>5 DEF pause
<1> QED
  BY <1>1, <1>2, <1>3, <1>4, <1>5 DEF IoStep

(* The steps of the workers keep them. *)
LEMMA WorkerTypes ==
    ASSUME Types, NEW k \in Workers, WorkerStep(k), UNCHANGED config
    PROVE  ControlType'
<1> USE DEF Types, ControlType, workerOnly, WorkerLabels, At
<1>1. CASE worker_begins(k)
  BY <1>1 DEF worker_begins
<1>2. CASE pop_and_dispatch(k)
  BY <1>2 DEF pop_and_dispatch
<1>3. CASE handler_sends(k)
  BY <1>3 DEF handler_sends
<1>4. CASE dispatch_returns(k)
  BY <1>4 DEF dispatch_returns
<1>5. CASE check_fill(k)
  BY <1>5 DEF check_fill
<1>6. CASE resume_all(k)
  BY <1>6 DEF resume_all
<1>7. CASE worker_exits(k)
  BY <1>7 DEF worker_exits
<1> QED
  BY <1>1, <1>2, <1>3, <1>4, <1>5, <1>6, <1>7 DEF WorkerStep

(* What the queue operations make of a queue of messages. *)
LEMMA QueueTypes ==
    ASSUME Types
    PROVE  /\ \A m \in Messages : Q!Accept(m) \/ Q!AcceptAndEvict(m)
                => queue' \in Seq(Messages) /\ Len(queue') <= capacity
           /\ queue # <<>> /\ Q!Leave(1)
                => queue' \in Seq(Messages) /\ Len(queue') <= capacity /\ Head(queue) \in Messages
<1>0. /\ capacity \in Nat \ {0} /\ queue \in Seq(Messages) /\ Len(queue) <= capacity
      /\ Len(queue) \in Nat
  BY CapacityPositive, LenProperties DEF Types, FlowType
<1>1. ASSUME NEW m \in Messages, Q!Accept(m)
      PROVE  queue' \in Seq(Messages) /\ Len(queue') <= capacity
  BY <1>0, <1>1, AppendProperties DEF Q!Accept
<1>2. ASSUME NEW m \in Messages, Q!AcceptAndEvict(m)
      PROVE  queue' \in Seq(Messages) /\ Len(queue') <= capacity
  <2>1. queue # <<>>
    BY <1>0, <1>2, EmptySeq DEF Q!AcceptAndEvict
  <2>2. Tail(queue) \in Seq(Messages) /\ Len(Tail(queue)) = Len(queue) - 1
    BY <1>0, <2>1, HeadTailProperties
  <2> QED
    BY <1>0, <1>2, <2>2, AppendProperties DEF Q!AcceptAndEvict
<1>3. ASSUME queue # <<>>, Q!Leave(1)
      PROVE  queue' \in Seq(Messages) /\ Len(queue') <= capacity /\ Head(queue) \in Messages
  <2>1. Head(queue) \in Messages
    BY <1>0, <1>3, HeadTailProperties
  <2>2. \A i \in 2..Len(queue) : queue[i] \in Messages
    BY <1>0, ElementOfSeq
  <2>3. /\ SubSeq(queue, 2, Len(queue)) \in Seq(Messages)
        /\ Len(SubSeq(queue, 2, Len(queue))) = IF 2 <= Len(queue) THEN Len(queue) - 2 + 1 ELSE 0
    <3>1. 2 \in Int /\ Len(queue) \in Int
      BY <1>0
    <3> QED
      BY <2>2, <3>1, SubSeqProperties
  <2> QED
    BY <1>0, <1>3, <2>1, <2>3 DEF Q!Leave
<1> QED
  BY <1>1, <1>2, <1>3

(* Counters stay numbers, and only DropMessage changes "dropped". *)
LEMMA StatsField ==
    ASSUME NEW s \in StatsType
    PROVE  /\ s.received \in Nat /\ s.dispatched \in Nat /\ s.dropped \in Nat
           /\ s.decode_errors \in Nat /\ s.handler_errors \in Nat
           /\ s.handler_timeouts \in Nat /\ s.reports \in Nat
BY DEF StatsType

(* Counting what was received keeps the type of the statistics. *)
LEMMA StatsReceived ==
    ASSUME NEW s \in StatsType, NEW a \in Nat, NEW b \in Nat, NEW c \in Nat
    PROVE  LET u == [s EXCEPT !.received = a, !.decode_errors = b, !.reports = c]
           IN  u \in StatsType /\ u.dropped = s.dropped
BY Zenon DEF StatsType

(* Counting a dropped message keeps it. *)
LEMMA StatsDropped ==
    ASSUME NEW s \in StatsType, NEW a \in Nat, NEW b \in Nat
    PROVE  [s EXCEPT !.dropped = a, !.reports = b] \in StatsType
BY Zenon DEF StatsType

(* Counting what a handler returned keeps it. *)
LEMMA StatsReturned ==
    ASSUME NEW s \in StatsType, NEW a \in Nat, NEW b \in Nat, NEW c \in Nat, NEW d \in Nat
    PROVE  LET u == [s EXCEPT !.dispatched = a, !.handler_errors = b,
                              !.handler_timeouts = c, !.reports = d]
           IN  u \in StatsType /\ u.dropped = s.dropped
BY Zenon DEF StatsType

(* The messages a call decodes are a sequence of messages. *)
LEMMA BatchType ==
    ASSUME Types, NEW t \in Transports, NEW n \in Nat, seen[t] + n <= MaxMessages
    PROVE  /\ MessagesFrom(t, n) \in Seq(Messages) /\ Len(MessagesFrom(t, n)) = n
           /\ \A i \in 1..n : MessagesFrom(t, n)[i] = <<t, seen[t] + i>>
<1>1. seen[t] \in Nat /\ MaxMessages \in Nat
  BY BoundAssumption DEF Types, CountType
<1>2. \A i \in 1..n : <<t, seen[t] + i>> \in Messages
  BY <1>1 DEF Messages
<1>3. MessagesFrom(t, n) \in [1..n -> Messages]
  BY <1>2 DEF MessagesFrom
<1>4. MessagesFrom(t, n) \in Seq(Messages)
  BY <1>3, SeqDef
<1>5. DOMAIN MessagesFrom(t, n) = 1..n /\ DOMAIN MessagesFrom(t, n) = 1..Len(MessagesFrom(t, n))
      /\ Len(MessagesFrom(t, n)) \in Nat
  BY <1>3, <1>4, LenProperties
<1> QED
  BY <1>4, <1>5 DEF MessagesFrom

(* The steps of the application keep the types of the messages under way. *)
LEMMA AppFlow ==
    ASSUME Types, AppCall \/ AppStep, UNCHANGED config
    PROVE  FlowType' /\ CountType'
<1>0. capacity \in Nat \ {0} /\ <<>> \in Seq(Messages) /\ Len(<<>>) = 0
  BY CapacityPositive, EmptySeq
<1> USE DEF Types, FlowType, CountType, appOnly, pipeline
<1>1. CASE start
  BY <1>0, <1>1 DEF start
<1>2. CASE start_transport \/ start_returns \/ stop_transport_joined
  BY <1>2 DEF start_transport, start_returns, stop_transport_joined
<1>3. CASE start_transport_failed \/ stop \/ stop_not_running
  BY <1>3 DEF start_transport_failed, stop, stop_not_running
<1>4. CASE stop_transport \/ close_queue \/ shutdown_wait \/ join_workers
  BY <1>4 DEF stop_transport, close_queue, Q!Close, shutdown_wait, join_workers
<1> QED
  BY <1>1, <1>2, <1>3, <1>4 DEF AppCall, AppStep

(* The steps of the I/O threads keep them. *)
LEMMA IoFlow ==
    ASSUME Types, NEW t \in Transports, handle_data_received(t) \/ IoStep(t), UNCHANGED config
    PROVE  FlowType' /\ CountType'
<1> USE DEF Types, FlowType, CountType, ioOnly
<1>1. CASE handle_data_received(t)
  <2>1. PICK n \in 0..MaxBatch, errors \in 0..1 :
          /\ seen[t] + n <= MaxMessages
          /\ batch' = [batch EXCEPT ![t] = MessagesFrom(t, n)]
          /\ seen' = [seen EXCEPT ![t] = @ + n]
          /\ stats' = [stats EXCEPT !.received = @ + n, !.decode_errors = @ + errors,
                                    !.reports = @ + errors]
    BY <1>1, Zenon DEF handle_data_received
  <2>2. n \in Nat /\ errors \in Nat /\ MessagesFrom(t, n) \in Seq(Messages) /\ MaxMessages \in Nat
    BY <2>1, BatchType, BoundAssumption, SMTT(30)
  <2>3. stats' \in StatsType
    <3>1. /\ stats.received + n \in Nat /\ stats.decode_errors + errors \in Nat
          /\ stats.reports + errors \in Nat
      BY <2>2, StatsField, SMTT(30)
    <3> QED
      BY <2>1, <3>1, StatsReceived, Zenon
  <2>4. seen' \in [Transports -> 0..MaxMessages]
    BY <2>1, <2>2
  <2>5. batch' \in [Transports -> Seq(Messages)]
    BY <2>1, <2>2
  <2> QED
    BY <1>1, <2>3, <2>4, <2>5, Zenon DEF handle_data_received
<1>2. CASE release_locks(t) \/ check_back_pressure(t) \/ pause(t)
  BY <1>2 DEF release_locks, check_back_pressure, pause
<1>3. CASE push_message(t)
  <2>1. batch[t] \in Seq(Messages) /\ batch[t] # <<>>
    BY <1>3 DEF push_message
  <2>2. Head(batch[t]) \in Messages /\ Tail(batch[t]) \in Seq(Messages)
    BY <2>1, HeadTailProperties
  <2>3. batch' \in [Transports -> Seq(Messages)]
    BY <1>3, <2>2 DEF push_message
  <2>4. queue' \in Seq(Messages) /\ Len(queue') <= capacity /\ evicted' \in Nat
    BY <1>3, <2>2, QueueTypes, SMTT(30) DEF push_message, DropMessage
  <2>5. stats' \in StatsType
    <3>1. stats.dropped + 1 \in Nat /\ stats.reports + 1 \in Nat
      BY StatsField
    <3>2. [stats EXCEPT !.dropped = @ + 1, !.reports = @ + 1] \in StatsType
      BY <3>1, StatsDropped, Zenon
    <3>3. \/ stats' = stats
          \/ stats' = [stats EXCEPT !.dropped = @ + 1, !.reports = @ + 1]
      BY <1>3 DEF push_message, DropMessage
    <3> QED
      BY <3>2, <3>3
  <2> QED
    BY <1>3, <2>3, <2>4, <2>5 DEF push_message
<1> QED
  BY <1>1, <1>2, <1>3, SMTT(30) DEF IoStep

(* The steps of the workers keep them. *)
LEMMA WorkerFlow ==
    ASSUME Types, NEW k \in Workers, WorkerStep(k), UNCHANGED config
    PROVE  FlowType' /\ CountType'
<1> USE DEF Types, FlowType, CountType, workerOnly
<1>1. CASE worker_begins(k) \/ handler_sends(k) \/ check_fill(k) \/ resume_all(k) \/ worker_exits(k)
  BY <1>1, SMTT(30) DEF worker_begins, handler_sends, check_fill, resume_all, worker_exits
<1>2. CASE pop_and_dispatch(k)
  <2>1. queue' \in Seq(Messages) /\ Len(queue') <= capacity /\ Head(queue) \in Messages
    BY <1>2, QueueTypes DEF pop_and_dispatch
  <2>2. Head(queue)[1] \in Transports /\ Head(queue)[2] \in 0..MaxMessages
    BY <2>1, BoundAssumption DEF Messages
  <2> QED
    BY <1>2, <2>1, <2>2 DEF pop_and_dispatch
<1>3. CASE dispatch_returns(k)
  <2>1. PICK result \in Outcomes, slow \in Slow :
          /\ stats' = [stats EXCEPT
                !.dispatched = @ + (IF result = "Handled" THEN 1 ELSE 0),
                !.handler_errors = @ + (IF result = "Error" THEN 1 ELSE 0),
                !.handler_timeouts = @ + (IF slow THEN 1 ELSE 0),
                !.reports = @ + (IF result = "Error" THEN 1 ELSE 0) + (IF slow THEN 1 ELSE 0)]
          /\ unhandled' = unhandled + (IF result = "NotFound" THEN 1 ELSE 0)
    BY <1>3, Zenon DEF dispatch_returns
  <2>2. stats' \in StatsType
    <3> DEFINE error == IF result = "Error" THEN 1 ELSE 0
               late == IF slow THEN 1 ELSE 0
               handled == IF result = "Handled" THEN 1 ELSE 0
    <3>1. error \in Nat /\ late \in Nat /\ handled \in Nat
      OBVIOUS
    <3>2. stats' = [stats EXCEPT !.dispatched = @ + handled, !.handler_errors = @ + error,
                                 !.handler_timeouts = @ + late, !.reports = @ + error + late]
      BY <2>1
    <3> HIDE DEF error, late, handled
    <3>3. /\ stats.dispatched + handled \in Nat /\ stats.handler_errors + error \in Nat
          /\ stats.handler_timeouts + late \in Nat /\ stats.reports + error + late \in Nat
      <4>1. /\ stats.dispatched \in Nat /\ stats.handler_errors \in Nat
            /\ stats.handler_timeouts \in Nat /\ stats.reports \in Nat
        BY StatsField
      <4> QED
        BY ONLY <3>1, <4>1
    <3>4. [stats EXCEPT !.dispatched = @ + handled, !.handler_errors = @ + error,
                        !.handler_timeouts = @ + late, !.reports = @ + error + late] \in StatsType
      BY <3>3, StatsReturned, Zenon
    <3> QED
      BY <3>2, <3>4
  <2>3. unhandled' \in Nat
    BY <2>1, SMTT(30)
  <2> QED
    BY <1>3, <2>2, <2>3 DEF dispatch_returns
<1> QED
  BY <1>1, <1>2, <1>3 DEF WorkerStep

-----------------------------------------------------------------------------
(* Progress. *)

(* The steps of the application keep Progress. *)
LEMMA AppProgress ==
    ASSUME Types, Progress, AppCall \/ AppStep, UNCHANGED config
    PROVE  Progress'
<1>0. NT \in Nat /\ Transports = 1..NT /\ Workers # {}
  BY TransportsAssumption, WorkersAssumption DEF Transports
<1> USE <1>0 DEF Types, ControlType, Progress, Stopped, Gone, appOnly, pipeline,
                AppLabels, IoLabels, WorkerLabels
<1>1. CASE start
  BY <1>1 DEF start
<1>2. CASE start_transport
  BY <1>2 DEF start_transport
<1>3. CASE start_transport_failed
  BY <1>3 DEF start_transport_failed
<1>4. CASE start_returns
  BY <1>4 DEF start_returns
<1>5. CASE stop
  BY <1>5 DEF stop
<1>6. CASE stop_not_running
  BY <1>6 DEF stop_not_running
<1>7. CASE stop_transport
  BY <1>7 DEF stop_transport
<1>8. CASE stop_transport_joined
  BY <1>8 DEF stop_transport_joined
<1>9. CASE close_queue
  BY <1>9 DEF close_queue, Q!Close
<1>10. CASE shutdown_wait
  BY <1>10 DEF shutdown_wait
<1>11. CASE join_workers
  BY <1>11, SMTT(30) DEF join_workers
<1> QED
  BY <1>1, <1>2, <1>3, <1>4, <1>5, <1>6, <1>7, <1>8, <1>9, <1>10, <1>11, Zenon
  DEF AppCall, AppStep

(* The steps of the I/O threads keep it. *)
LEMMA IoProgress ==
    ASSUME Types, Progress, NEW t \in Transports, handle_data_received(t) \/ IoStep(t),
           UNCHANGED config
    PROVE  Progress'
<1> USE DEF Types, ControlType, FlowType, Progress, Stopped, Gone, ioOnly, IoLabels
<1>1. CASE handle_data_received(t)
  <2>1. PICK n : batch' = [batch EXCEPT ![t] = n]
    BY <1>1, Zenon DEF handle_data_received
  <2> QED
    BY <1>1, <2>1, Zenon DEF handle_data_received
<1>2. CASE release_locks(t)
  BY <1>2 DEF release_locks
<1>3. CASE push_message(t)
  <2>1. ~closed
    BY <1>3 DEF push_message
  <2> QED
    BY <1>3, <2>1 DEF push_message
<1>4. CASE check_back_pressure(t)
  BY <1>4 DEF check_back_pressure
<1>5. CASE pause(t)
  BY <1>5, Zenon DEF pause
<1> QED
  BY <1>1, <1>2, <1>3, <1>4, <1>5 DEF IoStep

(* The steps of the workers keep it. *)
LEMMA WorkerProgress ==
    ASSUME Types, Progress, NEW k \in Workers, WorkerStep(k), UNCHANGED config
    PROVE  Progress'
<1> USE DEF Types, ControlType, Progress, Stopped, Gone, workerOnly, WorkerLabels, At
<1>1. CASE worker_begins(k)
  BY <1>1, Zenon DEF worker_begins
<1>2. CASE pop_and_dispatch(k)
  BY <1>2 DEF pop_and_dispatch
<1>3. CASE handler_sends(k)
  BY <1>3 DEF handler_sends
<1>4. CASE dispatch_returns(k)
  BY <1>4 DEF dispatch_returns
<1>5. CASE check_fill(k)
  BY <1>5, Zenon DEF check_fill
<1>6. CASE resume_all(k)
  BY <1>6 DEF resume_all
<1>7. CASE worker_exits(k)
  BY <1>7 DEF worker_exits
<1> QED
  BY <1>1, <1>2, <1>3, <1>4, <1>5, <1>6, <1>7, SMTT(30) DEF WorkerStep

-----------------------------------------------------------------------------
(* active_workers_ counts the threads inside worker_loop(). *)

(* There are no more active workers than workers. *)
LEMMA ActiveFinite == IsFiniteSet(Active) /\ Cardinality(Active) \in 0..Cardinality(Workers)
<1>1. Active \subseteq Workers /\ IsFiniteSet(Workers)
  BY WorkersAssumption DEF Active
<1>2. /\ IsFiniteSet(Active) /\ Cardinality(Active) <= Cardinality(Workers)
      /\ Cardinality(Workers) \in Nat
  BY <1>1, FS_Subset, FS_CardinalityType
<1> QED
  BY <1>2, FS_CardinalityType

(* The steps of the application keep the count of active workers. *)
LEMMA AppCounts ==
    ASSUME Types, Progress, ActiveCounted, AppCall \/ AppStep
    PROVE  ActiveCounted'
<1>1. CASE start \/ join_workers
  <2>1. Active' = Active /\ active_workers' = active_workers
    BY <1>1 DEF start, join_workers, Active, Progress, Stopped, Types, ControlType
  <2> QED
    BY <2>1, SMTT(30) DEF ActiveCounted
<1>2. CASE UNCHANGED <<worker, active_workers>>
  BY <1>2 DEF ActiveCounted, Active
<1> QED
  BY <1>1, <1>2
  DEF AppCall, AppStep, start_transport, start_transport_failed, start_returns, stop,
      stop_not_running, stop_transport, stop_transport_joined, close_queue, shutdown_wait

(* The steps of the workers keep it. *)
LEMMA WorkerCounts ==
    ASSUME Types, ActiveCounted, NEW k \in Workers, WorkerStep(k)
    PROVE  ActiveCounted'
<1>0. IsFiniteSet(Active) /\ Cardinality(Active) \in Nat
  BY ActiveFinite, FS_CardinalityType
<1>1. CASE worker_begins(k)
  <2>1. /\ Active' = Active \cup {k} /\ k \notin Active
        /\ active_workers' = active_workers + 1
    BY <1>1 DEF worker_begins, At, Active, Types, ControlType
  <2>2. Cardinality(Active \cup {k}) = Cardinality(Active) + 1
    BY <1>0, <2>1, FS_AddElement
  <2> QED
    BY <2>1, <2>2 DEF ActiveCounted
<1>2. CASE worker_exits(k)
  <2>1. /\ Active' = Active \ {k} /\ k \in Active
        /\ active_workers' = active_workers - 1
    BY <1>2 DEF worker_exits, At, Active, Types, ControlType
  <2>2. Cardinality(Active \ {k}) = Cardinality(Active) - 1
    BY <1>0, <2>1, FS_RemoveElement
  <2> QED
    BY <2>1, <2>2 DEF ActiveCounted
<1>3. CASE /\ worker[k] \in {"pop", "send", "handle", "fill", "resume"}
           /\ \E l \in {"pop", "send", "handle", "fill", "resume"} : worker' = [worker EXCEPT ![k] = l]
           /\ UNCHANGED active_workers
  <2>1. Active' = Active
    BY <1>3 DEF Active, Types, ControlType
  <2> QED
    BY <1>3, <2>1 DEF ActiveCounted
<1> QED
  BY <1>1, <1>2, <1>3, Zenon
  DEF WorkerStep, At, pop_and_dispatch, handler_sends, dispatch_returns, check_fill, resume_all

(* The steps of the I/O threads keep it. *)
LEMMA IoCounts ==
    ASSUME ActiveCounted, NEW t \in Transports, handle_data_received(t) \/ IoStep(t)
    PROVE  ActiveCounted'
<1>1. UNCHANGED <<worker, active_workers>>
  BY Zenon DEF IoStep, handle_data_received, release_locks, push_message, check_back_pressure, pause,
         ioOnly
<1> QED
  BY <1>1 DEF ActiveCounted, Active

-----------------------------------------------------------------------------
(* The only step that drops a message is a push, and a push that is refused  *)
(* under Block or DropOldest would be one to a closed queue.                 *)
LEMMA DropsOnlyFull ==
    ASSUME IInv, Next
    PROVE  ShutdownDropsNothing'
<1> SUFFICES ASSUME config'.drop_policy # "DropNewest" PROVE stats'.dropped = 0
  BY DEF ShutdownDropsNothing
<1>0. config.drop_policy # "DropNewest" /\ stats.dropped = 0 /\ stats \in StatsType
  BY DEF Next, IInv, ShutdownDropsNothing, Types, CountType
<1>1. CASE UNCHANGED stats
  BY <1>0, <1>1
<1>2. ASSUME NEW t \in Transports, handle_data_received(t) PROVE stats'.dropped = 0
  <2>1. PICK n \in 0..MaxBatch, errors \in 0..1 :
          stats' = [stats EXCEPT !.received = @ + n, !.decode_errors = @ + errors,
                                 !.reports = @ + errors]
    BY <1>2, Zenon DEF handle_data_received
  <2> QED
    BY <1>0, <2>1 DEF StatsType
<1>3. ASSUME NEW t \in Transports, push_message(t) PROVE stats'.dropped = 0
  <2>1. ~closed
    BY <1>3 DEF push_message, IInv, Progress, Gone
  <2> QED
    BY <1>0, <1>3, <2>1 DEF push_message, DropMessage, Rejects
<1>4. ASSUME NEW k \in Workers, dispatch_returns(k) PROVE stats'.dropped = 0
  <2>1. \E a, b, c, d :
          stats' = [stats EXCEPT !.dispatched = a, !.handler_errors = b,
                                 !.handler_timeouts = c, !.reports = d]
    <3>1. PICK result \in Outcomes, slow \in Slow :
            stats' = [stats EXCEPT
                !.dispatched = @ + (IF result = "Handled" THEN 1 ELSE 0),
                !.handler_errors = @ + (IF result = "Error" THEN 1 ELSE 0),
                !.handler_timeouts = @ + (IF slow THEN 1 ELSE 0),
                !.reports = @ + (IF result = "Error" THEN 1 ELSE 0) + (IF slow THEN 1 ELSE 0)]
      BY <1>4, Zenon DEF dispatch_returns
    <3> QED
      BY <3>1, Zenon
  <2> QED
    BY <1>0, <2>1 DEF StatsType
<1> QED
  BY <1>1, <1>2, <1>3, <1>4, ZenonT(30)
  DEF Next, Step, AppCall, AppStep, IoStep, WorkerStep, appOnly, ioOnly, workerOnly, start,
      start_transport, start_transport_failed, start_returns, stop, stop_not_running,
      stop_transport, stop_transport_joined, close_queue, shutdown_wait, join_workers,
      release_locks, check_back_pressure, pause, worker_begins, pop_and_dispatch,
      handler_sends, check_fill, resume_all, worker_exits

(* Every step keeps the invariant. *)
LEMMA Inductive ==
    ASSUME IInv, [Next]_vars
    PROVE  IInv'
<1>1. CASE Next
  <2>1. Types' /\ Progress' /\ ActiveCounted'
    <3>1. CASE AppCall \/ AppStep
      BY <1>1, <3>1, AppTypes, AppFlow, AppProgress, AppCounts DEF IInv, Types, Next
    <3>2. CASE \E t \in Transports : handle_data_received(t) \/ IoStep(t)
      BY <1>1, <3>2, IoTypes, IoFlow, IoProgress, IoCounts DEF IInv, Types, Next
    <3>3. CASE \E k \in Workers : WorkerStep(k)
      BY <1>1, <3>3, WorkerTypes, WorkerFlow, WorkerProgress, WorkerCounts, SMTT(30) DEF IInv, Types, Next
    <3> QED
      BY <1>1, <3>1, <3>2, <3>3 DEF Next, Step
  <2> QED
    BY <1>1, <2>1, DropsOnlyFull DEF IInv
<1>2. CASE UNCHANGED vars
  BY <1>2 DEF vars, pipeline, IInv, Types, ControlType, FlowType, CountType, Progress, Stopped,
              Gone, ActiveCounted, Active, ShutdownDropsNothing
<1> QED
  BY <1>1, <1>2

(* The transceiver starts in the invariant. *)
LEMMA Initial == Init => IInv
<1> SUFFICES ASSUME Init PROVE IInv
  OBVIOUS
<1>0. NT \in Nat /\ 1 \in 1..(NT + 1) /\ MaxMessages \in Nat /\ 0 \in 0..MaxMessages
  BY TransportsAssumption, BoundAssumption
<1>1. ControlType
  BY <1>0, Zenon DEF Init, ControlType, AppLabels, IoLabels, WorkerLabels
<1>2. FlowType
  BY CapacityPositive, EmptySeq DEF Init, FlowType
<1>3. CountType
  BY <1>0 DEF Init, CountType, StatsType
<1>4. Progress
  BY DEF Init, Progress, Stopped, Gone
<1>5. Active = {}
  BY DEF Init, Active
<1>6. ActiveCounted
  BY <1>5, FS_EmptySet DEF Init, ActiveCounted
<1>7. ShutdownDropsNothing
  BY DEF Init, ShutdownDropsNothing
<1> QED
  BY <1>1, <1>2, <1>3, <1>4, <1>6, <1>7 DEF IInv, Types

(* The invariant holds in every behaviour. *)
LEMMA Invariant == Spec => []IInv
BY Initial, Inductive, PTL DEF Spec

(* The type invariant of the transceiver.  That active_workers_ never leaves *)
(* 0..thread_count takes the count of the threads in worker_loop().          *)
THEOREM TypeCorrect == Spec => []TypeOK
<1>1. IInv => TypeOK
  BY ActiveFinite
  DEF IInv, Types, ControlType, FlowType, CountType, ActiveCounted, TypeOK, AppLabels, IoLabels,
      WorkerLabels, StatsType
<1> QED
  BY <1>1, Invariant, PTL

(* stop() leaves nothing behind, for any number of transports and workers:   *)
(* no thread of theirs runs, and the queue is closed and empty.              *)
THEOREM StopLeavesNothing == Spec => []StoppedIsQuiet
<1>1. IInv => StoppedIsQuiet
  <2> SUFFICES ASSUME IInv, app = "idle", ~running PROVE StoppedIsQuiet
    BY DEF StoppedIsQuiet
  <2>1. Active = {}
    BY DEF IInv, Progress, Stopped, Active
  <2>2. active_workers = 0
    BY <2>1, FS_EmptySet DEF IInv, ActiveCounted
  <2> QED
    BY <2>2 DEF IInv, Progress, Stopped, Gone, StoppedIsQuiet
<1> QED
  BY <1>1, Invariant, PTL

(* Under Block and DropOldest no message is ever refused: the queue is only  *)
(* closed once every I/O thread has been joined, also when start() fails.    *)
THEOREM ShutdownLosesNothing == Spec => []ShutdownDropsNothing
<1>1. IInv => ShutdownDropsNothing
  BY DEF IInv
<1> QED
  BY <1>1, Invariant, PTL

-----------------------------------------------------------------------------
(* The order of a peer's messages. *)

(* The elements of a sequence of messages are messages. *)
LEMMA Elements ==
    ASSUME Types
    PROVE  /\ Len(queue) \in Nat
           /\ \A i \in 1..Len(queue) : queue[i][1] \in Transports /\ queue[i][2] \in Nat
           /\ \A t \in Transports :
                seen[t] \in Nat /\ latest[t] \in Nat /\ Len(batch[t]) \in Nat /\ Pushed(t) \in Int
<1>1. Len(queue) \in Nat /\ \A i \in 1..Len(queue) : queue[i] \in Messages
  BY LenProperties, ElementOfSeq DEF Types, FlowType
<1>2. \A m \in Messages : m[1] \in Transports /\ m[2] \in Nat
  BY BoundAssumption DEF Messages
<1>3. \A t \in Transports : seen[t] \in Nat /\ latest[t] \in Nat /\ Len(batch[t]) \in Nat
  BY BoundAssumption, LenProperties, SMTT(30) DEF Types, FlowType, CountType
<1> QED
  BY <1>1, <1>2, <1>3 DEF Pushed

(* A new batch continues where the transport's messages stand. *)
LEMMA ReceivedInOrder ==
    ASSUME IInv, Ordered, NEW t \in Transports, handle_data_received(t)
    PROVE  Ordered'
<1>1. PICK n \in 0..MaxBatch :
        /\ seen[t] + n <= MaxMessages
        /\ batch' = [batch EXCEPT ![t] = MessagesFrom(t, n)]
        /\ seen' = [seen EXCEPT ![t] = @ + n]
  BY Zenon DEF handle_data_received
<1>2. UNCHANGED <<queue, latest>> /\ batch[t] = <<>> /\ Len(<<>>) = 0
  BY EmptySeq, Zenon DEF handle_data_received, ioOnly, IInv, Progress
<1>3. /\ n \in Nat /\ Types
      /\ MessagesFrom(t, n) \in Seq(Messages) /\ Len(MessagesFrom(t, n)) = n
      /\ \A i \in 1..n : MessagesFrom(t, n)[i] = <<t, seen[t] + i>>
  BY <1>1, BatchType, BoundAssumption DEF IInv
<1>4. \A u \in Transports : Pushed(u)' = Pushed(u)
  <2> TAKE u \in Transports
  <2>1. CASE u = t
    <3>1. Pushed(t) = seen[t]
      BY <1>2, <1>3, Elements DEF Pushed
    <3>2. batch'[t] = MessagesFrom(t, n) /\ seen'[t] = seen[t] + n
      BY <1>1, <1>3 DEF Types, FlowType, CountType
    <3> QED
      BY <1>3, <2>1, <3>1, <3>2, Elements, SMTT(30) DEF Pushed
  <2>2. CASE u # t
    BY <1>1, <1>3, <2>2 DEF Pushed, Types, FlowType, CountType
  <2> QED
    BY <2>1, <2>2
<1>5. ASSUME NEW u \in Transports, NEW i \in 1..Len(batch'[u])
      PROVE  batch'[u][i] = <<u, Pushed(u)' + i>>
  <2>1. CASE u = t
    <3>1. Pushed(t) = seen[t]
      BY <1>2, <1>3, Elements DEF Pushed
    <3>2. batch'[t] = MessagesFrom(t, n)
      BY <1>1, <1>3 DEF Types, FlowType
    <3> QED
      BY <1>3, <1>4, <1>5, <2>1, <3>1, <3>2, SMTT(30)
  <2>2. CASE u # t
    <3>1. batch'[u] = batch[u]
      BY <1>1, <1>3, <2>2 DEF Types, FlowType
    <3> QED
      BY <1>4, <1>5, <3>1 DEF Ordered
  <2> QED
    BY <2>1, <2>2
<1> QED
  BY <1>2, <1>4, <1>5 DEF Ordered

(* The head of the batch follows everything of its transport in the queue.   *)
LEMMA PushedInOrder ==
    ASSUME IInv, Ordered, NEW t \in Transports, push_message(t)
    PROVE  Ordered'
<1> DEFINE m == <<t, Pushed(t) + 1>>
<1>0. /\ Types /\ batch[t] \in Seq(Messages) /\ batch[t] # <<>>
      /\ batch' = [batch EXCEPT ![t] = Tail(batch[t])] /\ UNCHANGED <<seen, latest>>
      /\ queue \in Seq(Messages) /\ Len(queue) \in Nat
  BY LenProperties DEF push_message, ioOnly, IInv, Types, FlowType
<1>1. /\ Len(batch[t]) \in Nat \ {0} /\ Head(batch[t]) = batch[t][1]
      /\ Tail(batch[t]) \in Seq(Messages) /\ Len(Tail(batch[t])) = Len(batch[t]) - 1
      /\ \A i \in 1..(Len(batch[t]) - 1) : Tail(batch[t])[i] = batch[t][i + 1]
  BY <1>0, HeadTailProperties, EmptySeq, LenProperties
<1>2. Head(batch[t]) = m
  BY <1>1 DEF Ordered
<1>3. /\ Pushed(t)' = Pushed(t) + 1
      /\ \A u \in Transports \ {t} : Pushed(u)' = Pushed(u) /\ batch'[u] = batch[u]
      /\ batch'[t] = Tail(batch[t])
  <2>1. batch'[t] = Tail(batch[t]) /\ \A u \in Transports \ {t} : batch'[u] = batch[u]
    BY <1>0 DEF Types, FlowType
  <2>2. \A u \in Transports \ {t} : Pushed(u)' = Pushed(u)
    BY <1>0, <2>1 DEF Pushed
  <2>3. Len(batch'[t]) = Len(batch[t]) - 1 /\ seen'[t] = seen[t] /\ seen[t] \in Nat
    BY <1>0, <1>1, <2>1, Elements, Zenon
  <2>4. Pushed(t)' = Pushed(t) + 1
    BY <1>1, <2>3 DEF Pushed
  <2> QED
    BY <2>1, <2>2, <2>4
<1>4. ASSUME NEW u \in Transports, NEW i \in 1..Len(batch'[u])
      PROVE  batch'[u][i] = <<u, Pushed(u)' + i>>
  <2>1. CASE u = t
    <3>1. i \in 1..(Len(batch[t]) - 1) /\ i + 1 \in 1..Len(batch[t])
      <4>1. i \in 1..(Len(batch[t]) - 1)
        BY <1>1, <1>3, <2>1, Zenon
      <4> QED
        BY <1>1, <4>1
    <3>2. batch[t][i + 1] = <<t, Pushed(t) + (i + 1)>>
      BY <3>1 DEF Ordered
    <3>3. Pushed(t) + (i + 1) = Pushed(t)' + i
      BY <1>0, <1>3, <3>1, Elements, SMTT(30)
    <3> QED
      BY <1>1, <1>3, <2>1, <3>1, <3>2, <3>3, Zenon
  <2>2. CASE u # t
    BY <1>3, <1>4, <2>2 DEF Ordered
  <2> QED
    BY <2>1, <2>2
<1>5. \A u \in Transports : latest'[u] <= Pushed(u)' /\ Pushed(u) <= Pushed(u)'
  <2> TAKE u \in Transports
  <2>1. /\ latest'[u] = latest[u] /\ latest[u] <= Pushed(u)
        /\ latest[u] \in Nat /\ Pushed(u) \in Int
    BY <1>0, Elements DEF Ordered
  <2>2. Pushed(u)' = Pushed(u) \/ Pushed(u)' = Pushed(u) + 1
    BY <1>3, SMTT(30)
  <2> HIDE DEF Pushed
  <2> QED
    BY <2>1, <2>2
<1>6. m[1] = t /\ m[2] = Pushed(t) + 1 /\ latest[t] < m[2]
  BY <1>0, Elements, SMTT(30) DEF Ordered
<1> HIDE DEF m
<1>7. ASSUME NEW s \in Seq(Messages), NEW d \in {0, 1}, Len(s) = Len(queue) - d,
             \A i \in 1..Len(s) : s[i] = queue[i + d],
             queue' = Append(s, m)
      PROVE  Ordered'
  <2>1. /\ Len(queue') = Len(s) + 1 /\ queue'[Len(s) + 1] = m
        /\ \A i \in 1..Len(s) : queue'[i] = queue[i + d]
    BY <1>7, AppendProperties
  <2>2. Len(s) \in Nat /\ \A i \in 1..Len(s) : i + d \in 1..Len(queue)
    BY <1>0, <1>7, LenProperties, SMTT(30)
  <2>3. ASSUME NEW u \in Transports, NEW i \in 1..Len(queue'), queue'[i][1] = u
        PROVE  latest'[u] < queue'[i][2] /\ queue'[i][2] <= Pushed(u)'
    <3>0. Pushed(u) \in Int /\ Pushed(t) \in Int /\ Pushed(u) <= Pushed(u)' /\ latest'[u] = latest[u]
      BY <1>0, <1>5, Elements
    <3>1. CASE i = Len(s) + 1
      <4>1. u = t /\ queue'[i][2] = Pushed(t) + 1 /\ Pushed(u)' = Pushed(t) + 1
        BY <1>3, <1>6, <2>1, <2>3, <3>1, SMTT(30)
      <4> QED
        BY <1>6, <3>0, <4>1
    <3>2. CASE i \in 1..Len(s)
      <4>1. i + d \in 1..Len(queue) /\ queue'[i] = queue[i + d] /\ queue[i + d][1] = u
        BY <2>1, <2>2, <2>3, <3>2, SMTT(30)
      <4>2. latest[u] < queue[i + d][2] /\ queue[i + d][2] <= Pushed(u) /\ queue[i + d][2] \in Nat
        BY <1>0, <4>1, Elements, ZenonT(30) DEF Ordered
      <4>3. Pushed(u)' \in Int
        BY <1>3, <3>0
      <4> QED
        BY <3>0, <4>1, <4>2, <4>3, SMTT(30)
    <3> QED
      BY <2>1, <2>2, <3>1, <3>2, SMTT(30)
  <2>4. ASSUME NEW i \in 1..Len(queue'), NEW j \in 1..Len(queue'), i < j,
               queue'[i][1] = queue'[j][1]
        PROVE  queue'[i][2] < queue'[j][2]
    <3>1. i \in 1..Len(s) /\ i + d \in 1..Len(queue) /\ queue'[i] = queue[i + d]
      BY <2>1, <2>2, <2>4, SMTT(30)
    <3>2. CASE j = Len(s) + 1
      <4>1. queue[i + d][1] = t /\ queue[i + d][2] <= Pushed(t)
        BY <1>6, <2>1, <2>4, <3>1, <3>2, ZenonT(30) DEF Ordered
      <4>2. queue[i + d][2] \in Nat /\ Pushed(t) \in Int
        BY <1>0, <3>1, Elements, SMTT(30)
      <4> QED
        BY <1>6, <2>1, <3>1, <3>2, <4>1, <4>2, SMTT(30)
    <3>3. CASE j \in 1..Len(s)
      <4>1. j + d \in 1..Len(queue) /\ queue'[j] = queue[j + d] /\ i + d < j + d
        BY <2>1, <2>2, <2>4, <3>3, SMTT(30)
      <4> QED
        BY <2>4, <3>1, <4>1, SMTT(30) DEF Ordered
    <3> QED
      BY <2>1, <2>2, <3>2, <3>3
  <2> QED
    BY <1>4, <1>5, <2>3, <2>4, Zenon DEF Ordered
<1>8. CASE Q!Accept(Head(batch[t]))
  <2>1. queue' = Append(queue, m) /\ \A i \in 1..Len(queue) : i + 0 = i
    BY <1>2, <1>8 DEF Q!Accept
  <2> QED
    BY <1>0, <1>7, <2>1
<1>9. CASE Q!AcceptAndEvict(Head(batch[t]))
  <2>1. queue # <<>>
    BY <1>0, <1>9, CapacityPositive, EmptySeq DEF Q!AcceptAndEvict
  <2>2. /\ Tail(queue) \in Seq(Messages) /\ Len(Tail(queue)) = Len(queue) - 1
        /\ \A i \in 1..(Len(queue) - 1) : Tail(queue)[i] = queue[i + 1]
    BY <1>0, <2>1, HeadTailProperties
  <2>3. queue' = Append(Tail(queue), m)
    BY <1>2, <1>9, SMTT(30) DEF Q!AcceptAndEvict
  <2> QED
    BY <1>7, <2>2, <2>3, Zenon
<1>10. CASE DropMessage
  <2>1. queue' = queue
    BY <1>10, SMTT(30) DEF DropMessage
  <2>2. ASSUME NEW u \in Transports, NEW i \in 1..Len(queue), queue[i][1] = u
        PROVE  latest'[u] < queue[i][2] /\ queue[i][2] <= Pushed(u)'
    <3>1. latest[u] < queue[i][2] /\ queue[i][2] <= Pushed(u) /\ queue[i][2] \in Nat
      BY <1>0, <2>2, Elements, Zenon DEF Ordered
    <3>2. Pushed(u) \in Int /\ Pushed(u)' \in Int /\ Pushed(u) <= Pushed(u)'
      BY <1>0, <1>3, <1>5, Elements, SMTT(30)
    <3> QED
      BY <1>0, <3>1, <3>2, SMTT(30)
  <2> QED
    BY <1>4, <1>5, <2>1, <2>2 DEF Ordered
<1> QED
  BY <1>8, <1>9, <1>10 DEF push_message

(* The head of the queue is the oldest of its transport's messages there.    *)
LEMMA PoppedInOrder ==
    ASSUME IInv, Ordered, NEW k \in Workers, pop_and_dispatch(k)
    PROVE  Ordered' /\ \A t \in Transports : latest'[t] >= latest[t]
<1> DEFINE h == queue[1]
<1>0. /\ Types /\ queue \in Seq(Messages) /\ queue # <<>> /\ Len(queue) \in Nat \ {0}
      /\ UNCHANGED <<batch, seen>>
  BY LenProperties, EmptySeq DEF pop_and_dispatch, workerOnly, IInv, Types, FlowType
<1>1. /\ Head(queue) = h /\ h[1] \in Transports /\ h[2] \in Nat /\ 1 \in 1..Len(queue)
      /\ latest' = [latest EXCEPT ![h[1]] = h[2]]
  <2>1. 1 \in 1..Len(queue) /\ Head(queue) = h
    BY <1>0, HeadTailProperties
  <2>2. h[1] \in Transports /\ h[2] \in Nat
    BY <1>0, <2>1, Elements, Zenon
  <2> QED
    BY <2>1, <2>2, Zenon DEF pop_and_dispatch
<1>2. latest[h[1]] < h[2] /\ h[2] <= Pushed(h[1])
  BY <1>1 DEF Ordered
<1>3. \A u \in Transports : latest'[u] = IF u = h[1] THEN h[2] ELSE latest[u]
  BY <1>0, <1>1 DEF Types, CountType
<1>4. \A u \in Transports : Pushed(u)' = Pushed(u)
  BY <1>0 DEF Pushed
<1>5. /\ Len(queue') = Len(queue) - 1
      /\ \A i \in 1..(Len(queue) - 1) : queue'[i] = queue[i + 1] /\ i + 1 \in 2..Len(queue)
  <2>1. \A i \in 2..Len(queue) : queue[i] \in Messages
    BY <1>0, ElementOfSeq
  <2>2. /\ Len(SubSeq(queue, 2, Len(queue))) = IF 2 <= Len(queue) THEN Len(queue) - 2 + 1 ELSE 0
        /\ \A i \in 1..(Len(queue) - 2 + 1) : SubSeq(queue, 2, Len(queue))[i] = queue[2 + i - 1]
    <3>1. 2 \in Int /\ Len(queue) \in Int
      BY <1>0
    <3> QED
      BY <2>1, <3>1, SubSeqProperties
  <2>3. queue' = SubSeq(queue, 2, Len(queue))
    BY DEF pop_and_dispatch, Q!Leave
  <2>4. \A i \in 1..(Len(queue) - 1) : 2 + i - 1 = i + 1 /\ i + 1 \in 2..Len(queue)
    BY <1>0
  <2>5. /\ Len(queue) - 2 + 1 = Len(queue) - 1
        /\ (IF 2 <= Len(queue) THEN Len(queue) - 2 + 1 ELSE 0) = Len(queue) - 1
    <3>1. \A n \in Nat \ {0} : n - 2 + 1 = n - 1 /\ (IF 2 <= n THEN n - 2 + 1 ELSE 0) = n - 1
      OBVIOUS
    <3>2. Len(queue) \in Nat \ {0}
      BY <1>0
    <3> QED
      BY ONLY <3>1, <3>2, Zenon
  <2> QED
    BY <2>2, <2>3, <2>4, <2>5
<1> HIDE DEF h
<1>6. ASSUME NEW u \in Transports PROVE latest'[u] >= latest[u] /\ latest'[u] <= Pushed(u)'
  <2>1. latest[u] \in Nat /\ latest[u] <= Pushed(u) /\ Pushed(u) \in Int
    BY <1>0, Elements DEF Ordered
  <2>2. CASE u = h[1]
    BY <1>1, <1>2, <1>3, <1>4, <2>1, <2>2, SMTT(30)
  <2>3. CASE u # h[1]
    BY <1>3, <1>4, <2>1, <2>3, SMTT(30)
  <2> QED
    BY <2>2, <2>3, SMTT(30)
<1>7. ASSUME NEW u \in Transports, NEW i \in 1..Len(queue'), queue'[i][1] = u
      PROVE  latest'[u] < queue'[i][2] /\ queue'[i][2] <= Pushed(u)'
  <2>1. i + 1 \in 1..Len(queue) /\ 1 < i + 1 /\ queue'[i] = queue[i + 1] /\ queue[i + 1][1] = u
    BY <1>0, <1>5, <1>7, SMTT(30)
  <2>2. latest[u] < queue[i + 1][2] /\ queue[i + 1][2] <= Pushed(u)
    BY <2>1 DEF Ordered
  <2>3. u = h[1] => h[2] < queue[i + 1][2]
    BY <1>1, <2>1, ZenonT(30) DEF Ordered, h
  <2> QED
    BY <1>3, <1>4, <2>1, <2>2, <2>3, Zenon
<1>8. ASSUME NEW i \in 1..Len(queue'), NEW j \in 1..Len(queue'), i < j,
             queue'[i][1] = queue'[j][1]
      PROVE  queue'[i][2] < queue'[j][2]
  <2>1. /\ i + 1 \in 1..Len(queue) /\ j + 1 \in 1..Len(queue) /\ i + 1 < j + 1
        /\ queue'[i] = queue[i + 1] /\ queue'[j] = queue[j + 1]
    BY <1>0, <1>5, <1>8, SMTT(30)
  <2> QED
    BY <1>8, <2>1, Zenon DEF Ordered
<1>9. \A u \in Transports : \A i \in 1..Len(batch'[u]) : batch'[u][i] = <<u, Pushed(u)' + i>>
  BY <1>0, <1>4 DEF Ordered
<1> QED
  BY <1>6, <1>7, <1>8, <1>9, Zenon DEF Ordered

(* Every step keeps the messages of a transport in order. *)
LEMMA OrderStep ==
    ASSUME IInv, Ordered, [Next]_vars
    PROVE  Ordered' /\ \A t \in Transports : latest'[t] >= latest[t]
<1>0. \A t \in Transports : latest[t] \in Nat
  BY Elements, SMTT(30) DEF IInv
<1>1. CASE UNCHANGED <<queue, batch, seen, latest>>
  BY <1>0, <1>1, SMTT(30) DEF Ordered, Pushed
<1>2. CASE start
  <2>1. UNCHANGED <<batch, seen, latest>> /\ queue' = <<>> /\ 1..Len(<<>>) = {}
    BY <1>2, EmptySeq DEF start, appOnly
  <2> QED
    BY <1>0, <2>1 DEF Ordered, Pushed
<1>3. ASSUME NEW t \in Transports, handle_data_received(t) \/ push_message(t)
      PROVE  Ordered' /\ \A u \in Transports : latest'[u] >= latest[u]
  <2>1. latest' = latest
    BY <1>3, Zenon DEF handle_data_received, push_message, ioOnly
  <2> QED
    BY <1>0, <1>3, <2>1, ReceivedInOrder, PushedInOrder
<1>4. ASSUME NEW k \in Workers, pop_and_dispatch(k)
      PROVE  Ordered' /\ \A t \in Transports : latest'[t] >= latest[t]
  BY <1>4, PoppedInOrder
<1> QED
  BY <1>1, <1>2, <1>3, <1>4, ZenonT(30)
  DEF Next, Step, AppCall, AppStep, IoStep, WorkerStep, appOnly, ioOnly, workerOnly, pipeline,
      vars, start_transport, start_transport_failed, start_returns, stop, stop_not_running,
      stop_transport, stop_transport_joined, close_queue, Q!Close, shutdown_wait, join_workers,
      release_locks, check_back_pressure, pause, worker_begins, dispatch_returns,
      handler_sends, check_fill, resume_all, worker_exits

(* The messages of a peer leave the queue in the order in which they were    *)
(* decoded, for any number of transports and workers, evictions and restarts *)
(* included.                                                                 *)
THEOREM PeerOrder == Spec => PeerOrderKept
<1>1. Init => Ordered
  <2> SUFFICES ASSUME Init PROVE Ordered
    OBVIOUS
  <2>1. /\ queue = <<>> /\ Len(<<>>) = 0 /\ 1..0 = {}
        /\ \A t \in Transports : batch[t] = <<>> /\ seen[t] = 0 /\ latest[t] = 0
    BY EmptySeq DEF Init
  <2> QED
    BY <2>1 DEF Ordered, Pushed
<1>2. IInv /\ Ordered /\ [Next]_vars => Ordered'
  BY OrderStep
<1>3. IInv /\ Ordered /\ [Next]_vars => [\A t \in Transports : latest'[t] >= latest[t]]_vars
  BY OrderStep
<1> QED
  BY <1>1, <1>2, <1>3, Invariant, PTL DEF Spec, PeerOrderKept

-----------------------------------------------------------------------------
(* Every message is accounted for.  The messages not pushed yet are a sum    *)
(* over the transports, and a step changes at most one of its terms.         *)

(* A set of numbers has a least one: what induction is made of here. *)
LEMMA LeastOfNats ==
    ASSUME NEW S \in SUBSET Nat, S # {}
    PROVE  \E x \in S : \A y \in S : x <= y
<1>1. PICK x \in S : \A y \in S : ~ (<<y, x>> \in OpToRel(<, Nat))
  BY NatLessThanWellFounded, WFMin, Zenon
<1>2. \A y \in S : <<y, x>> \in OpToRel(<, Nat) <=> y < x
  BY DEF OpToRel
<1>3. \A y \in S : ~(y < x)
  BY <1>1, <1>2, Zenon
<1>4. \A y \in S : x <= y
  BY <1>3
<1> QED
  BY <1>4

(* f[m] is the sum of the first m numbers of b. *)
IsTotal(f, b, n) ==
    f \in [0..n -> Nat] /\ f[0] = 0 /\ \A i \in 1..n : f[i] = f[i - 1] + b[i]

(* There are such sums, by the least m for which there are none. *)
LEMMA TotalExists ==
    ASSUME NEW n \in Nat, NEW b \in [1..n -> Nat]
    PROVE  \E f : IsTotal(f, b, n)
<1> DEFINE bad == {m \in 0..n : ~\E f : IsTotal(f, b, m)}
<1> SUFFICES ASSUME ~\E f : IsTotal(f, b, n) PROVE FALSE
  OBVIOUS
<1>1. PICK m \in bad : \A k \in bad : m <= k
  <2>1. bad \in SUBSET Nat
    OBVIOUS
  <2>2. n \in 0..n
    OBVIOUS
  <2>3. n \in bad
    BY <2>2, Zenon
  <2> HIDE DEF bad
  <2> QED
    BY <2>1, <2>3, LeastOfNats, Zenon
<1>2. CASE m = 0
  <2>1. IsTotal([i \in 0..0 |-> 0], b, 0)
    BY DEF IsTotal
  <2> QED
    BY <1>2, <2>1
<1>3. CASE m # 0
  <2>0. m \in 1..n /\ m - 1 \in 0..n
    BY <1>3
  <2>1. m - 1 \notin bad
    BY <1>1, <2>0
  <2>2. PICK g : IsTotal(g, b, m - 1)
    BY <2>0, <2>1
  <2> DEFINE f == [i \in 0..m |-> IF i = m THEN g[m - 1] + b[m] ELSE g[i]]
  <2>3. g[m - 1] \in Nat /\ b[m] \in Nat /\ \A i \in 0..m : i # m => i \in 0..(m - 1) /\ g[i] \in Nat
    BY <2>0, <2>2 DEF IsTotal
  <2>4. f \in [0..m -> Nat] /\ f[m] = g[m - 1] + b[m] /\ \A i \in 0..(m - 1) : f[i] = g[i]
    BY <2>0, <2>3
  <2> HIDE DEF f
  <2>5. f[0] = 0
    BY <2>0, <2>2, <2>4 DEF IsTotal
  <2>6. \A i \in 1..m : f[i] = f[i - 1] + b[i]
    <3> TAKE i \in 1..m
    <3>1. CASE i = m
      BY <2>0, <2>4, <3>1
    <3>2. CASE i # m
      <4>1. i \in 1..(m - 1) /\ i \in 0..(m - 1) /\ i - 1 \in 0..(m - 1)
        BY <2>0, <3>2
      <4> QED
        BY <2>2, <2>4, <4>1 DEF IsTotal
    <3> QED
      BY <3>1, <3>2
  <2>7. IsTotal(f, b, m)
    BY <2>4, <2>5, <2>6, Zenon DEF IsTotal
  <2> QED
    BY <2>7
<1> QED
  BY <1>2, <1>3

(* f and g are the sums of b and c, which differ at t only. *)
OnlyAt(t, b, c, f, g, n) ==
    /\ b \in [1..n -> Nat] /\ c \in [1..n -> Nat] /\ t \in 1..n
    /\ \A i \in 1..n : i # t => c[i] = b[i]
    /\ IsTotal(f, b, n) /\ IsTotal(g, c, n)

(* Changing one number changes the sum by the difference. *)
LEMMA TotalChange ==
    ASSUME NEW n \in Nat, NEW t, NEW b, NEW c, NEW f, NEW g, OnlyAt(t, b, c, f, g, n)
    PROVE  g[n] = f[n] + (c[t] - b[t])
<1> USE DEF OnlyAt
<1> DEFINE d(m) == IF m >= t THEN c[t] - b[t] ELSE 0
           bad == {m \in 0..n : g[m] # f[m] + d(m)}
<1>0. /\ \A m \in 0..n : f[m] \in Nat /\ g[m] \in Nat
      /\ \A m \in 1..n : b[m] \in Nat /\ c[m] \in Nat
      /\ f[0] = 0 /\ g[0] = 0
      /\ \A m \in 1..n : f[m] = f[m - 1] + b[m] /\ g[m] = g[m - 1] + c[m]
  BY SMTT(30) DEF IsTotal
<1>1. bad = {}
  <2> SUFFICES ASSUME bad # {} PROVE FALSE
    OBVIOUS
  <2>1. PICK m \in bad : \A k \in bad : m <= k
    <3>1. bad \in SUBSET Nat
      OBVIOUS
    <3> HIDE DEF bad
    <3> QED
      BY <3>1, LeastOfNats
  <2>2. m # 0
    <3>1. d(0) = 0
      OBVIOUS
    <3> QED
      BY <1>0, <2>1, <3>1
  <2>3. m \in 1..n /\ m - 1 \in 0..n /\ m - 1 \notin bad
    BY <2>1, <2>2
  <2>4. g[m - 1] = f[m - 1] + d(m - 1)
    BY <2>3
  <2>5. d(m) \in Int /\ d(m - 1) \in Int
    <3>1. c[t] - b[t] \in Int /\ 0 \in Int
      BY <1>0
    <3> QED
      BY <3>1, Zenon
  <2>6. c[m] - b[m] = d(m) - d(m - 1)
    <3>1. CASE m = t
      <4>1. d(m) = c[t] - b[t] /\ d(m - 1) = 0
        BY <2>3, <3>1
      <4>2. b[t] \in Nat /\ c[t] \in Nat
        BY <1>0, Zenon
      <4> HIDE DEF d
      <4> QED
        BY <3>1, <4>1, <4>2
    <3>2. CASE m # t
      <4>1. m >= t <=> m - 1 >= t
        BY <2>3, <3>2
      <4>2. d(m) = d(m - 1)
        BY <4>1, Zenon
      <4>3. c[m] = b[m] /\ b[m] \in Nat /\ d(m) \in Int
        BY <1>0, <2>3, <2>5, <3>2
      <4> HIDE DEF d
      <4> QED
        BY <4>2, <4>3
    <3> QED
      BY <3>1, <3>2, Zenon
  <2> HIDE DEF d
  <2>7. g[m] = f[m] + d(m)
    <3>1. f[m] = f[m - 1] + b[m] /\ g[m] = g[m - 1] + c[m]
      BY <1>0, <2>3, SMTT(30)
    <3>2. /\ f[m - 1] \in Nat /\ g[m - 1] \in Nat /\ b[m] \in Nat /\ c[m] \in Nat
          /\ f[m] \in Nat /\ g[m] \in Nat
      BY <1>0, <2>3, SMTT(30)
    <3> DEFINE f0 == f[m - 1]
               g0 == g[m - 1]
               f1 == f[m]
               g1 == g[m]
               bm == b[m]
               cm == c[m]
               d0 == d(m - 1)
               d1 == d(m)
    <3>3. /\ f0 \in Nat /\ g0 \in Nat /\ bm \in Nat /\ cm \in Nat /\ d0 \in Int /\ d1 \in Int
          /\ f1 = f0 + bm /\ g1 = g0 + cm /\ g0 = f0 + d0 /\ cm - bm = d1 - d0
      BY <2>4, <2>5, <2>6, <3>1, <3>2, SMTT(30)
    <3> HIDE DEF f0, g0, f1, g1, bm, cm, d0, d1
    <3>4. g1 = f1 + d1
      BY <3>3
    <3> QED
      BY <3>4, SMTT(30) DEF f1, g1, d1
  <2> QED
    BY <2>1, <2>7
<1>2. g[n] = f[n] + d(n)
  <2>1. n \in 0..n
    OBVIOUS
  <2>2. n \notin bad
    BY <1>1, Zenon
  <2> HIDE DEF d
  <2> QED
    BY <2>1, <2>2, Zenon
<1> QED
  BY <1>2

Lengths == [t \in 1..NT |-> Len(batch[t])]

(* Unpushed, which chooses such a function, is the sum over the batches. *)
LEMMA UnpushedTotal ==
    Types => Lengths \in [1..NT -> Nat] /\ IsTotal(Unpushed, Lengths, NT) /\ Unpushed[NT] \in Nat
<1> SUFFICES ASSUME Types
             PROVE  Lengths \in [1..NT -> Nat] /\ IsTotal(Unpushed, Lengths, NT) /\ Unpushed[NT] \in Nat
  OBVIOUS
<1> DEFINE F(f) == [n \in 0..NT |-> IF n = 0 THEN 0 ELSE f[n - 1] + Len(batch[n])]
<1>0. NT \in Nat
  BY TransportsAssumption
<1>1. Lengths \in [1..NT -> Nat]
  BY LenProperties DEF Lengths, Types, FlowType, Transports
<1>2. PICK g : IsTotal(g, Lengths, NT)
  BY <1>0, <1>1, TotalExists
<1>3. g = F(g)
  <2>1. g \in [0..NT -> Nat] /\ F(g) = [n \in 0..NT |-> F(g)[n]]
    BY <1>2 DEF IsTotal
  <2>2. \A n \in 0..NT : g[n] = F(g)[n]
    <3> TAKE n \in 0..NT
    <3>1. CASE n = 0
      BY <1>2, <3>1 DEF IsTotal
    <3>2. CASE n # 0
      <4>1. n \in 1..NT
        BY <3>2
      <4> QED
        BY <1>2, <3>2, <4>1 DEF IsTotal, Lengths
    <3> QED
      BY <3>1, <3>2
  <2> QED
    BY <2>1, <2>2
<1>4. Unpushed = F(Unpushed)
  <2>1. Unpushed = CHOOSE f : f = F(f)
    BY DEF Unpushed
  <2> HIDE DEF F
  <2> QED
    BY <1>3, <2>1
<1>5. Unpushed = g
  <2> DEFINE bad == {m \in 0..NT : Unpushed[m] # g[m]}
  <2>0. /\ \A m \in 0..NT : Unpushed[m] = IF m = 0 THEN 0 ELSE Unpushed[m - 1] + Len(batch[m])
        /\ \A m \in 0..NT : g[m] = IF m = 0 THEN 0 ELSE g[m - 1] + Len(batch[m])
    BY <1>3, <1>4, Zenon
  <2> HIDE DEF F
  <2>1. bad = {}
    <3> SUFFICES ASSUME bad # {} PROVE FALSE
      OBVIOUS
    <3>1. PICK m \in bad : \A k \in bad : m <= k
      <4>1. bad \in SUBSET Nat
        BY <1>0
      <4> HIDE DEF bad
      <4> QED
        BY <4>1, LeastOfNats
    <3>2. m # 0
      BY <2>0, <3>1
    <3>3. m - 1 \in 0..NT /\ m - 1 \notin bad
      BY <1>0, <3>1, <3>2
    <3>4. Unpushed[m] = g[m]
      BY <2>0, <3>1, <3>2, <3>3
    <3> QED
      BY <3>1, <3>4
  <2>2. Unpushed = [m \in 0..NT |-> Unpushed[m]] /\ g = [m \in 0..NT |-> g[m]]
    <3>1. g = [m \in 0..NT |-> g[m]]
      BY <1>2 DEF IsTotal
    <3>2. Unpushed = [m \in 0..NT |-> Unpushed[m]]
      BY <1>4 DEF F
    <3> QED
      BY <3>1, <3>2
  <2> QED
    BY <2>1, <2>2
<1> QED
  BY <1>0, <1>1, <1>2, <1>5 DEF IsTotal

(* The same in the next state. *)
LEMMA UnpushedTotalNext ==
    Types' => (Lengths \in [1..NT -> Nat] /\ IsTotal(Unpushed, Lengths, NT) /\ Unpushed[NT] \in Nat)'
BY UnpushedTotal, PTL

(* The sum is that of the batches. *)
LEMMA UnpushedKept ==
    ASSUME UNCHANGED batch
    PROVE  Unpushed[NT]' = Unpushed[NT]
BY DEF Unpushed

(* A new batch of one transport changes the sum by the difference. *)
LEMMA UnpushedChanged ==
    ASSUME Types, Types', NEW t \in Transports, NEW b \in Seq(Messages),
           batch' = [batch EXCEPT ![t] = b]
    PROVE  Unpushed[NT]' = Unpushed[NT] + (Len(b) - Len(batch[t]))
<1>0. NT \in Nat /\ t \in 1..NT /\ Transports = 1..NT
  BY TransportsAssumption DEF Transports
<1>1. Lengths \in [1..NT -> Nat] /\ IsTotal(Unpushed, Lengths, NT)
  BY UnpushedTotal
<1>2. Lengths' \in [1..NT -> Nat] /\ IsTotal(Unpushed', Lengths', NT)
  BY UnpushedTotalNext
<1>3. /\ Lengths[t] = Len(batch[t]) /\ Lengths'[t] = Len(b)
      /\ \A i \in 1..NT : i # t => Lengths'[i] = Lengths[i]
  <2>1. batch'[t] = b /\ \A i \in 1..NT : i # t => batch'[i] = batch[i]
    BY <1>0 DEF Types, FlowType
  <2>2. \A i \in 1..NT : Lengths[i] = Len(batch[i]) /\ Lengths'[i] = Len(batch'[i])
    BY DEF Lengths
  <2> QED
    BY <1>0, <2>1, <2>2
<1>4. Unpushed'[NT] = Unpushed[NT] + (Lengths'[t] - Lengths[t])
  <2> DEFINE b0 == Lengths
             c0 == Lengths'
             f0 == Unpushed
             g0 == Unpushed'
  <2>1. OnlyAt(t, b0, c0, f0, g0, NT)
    BY <1>0, <1>1, <1>2, <1>3 DEF OnlyAt
  <2> HIDE DEF b0, c0, f0, g0
  <2>2. ASSUME NEW c, NEW d, NEW f, NEW g, OnlyAt(t, c, d, f, g, NT)
        PROVE  g[NT] = f[NT] + (d[t] - c[t])
    BY <1>0, <2>2, TotalChange
  <2>3. g0[NT] = f0[NT] + (c0[t] - b0[t])
    BY <2>1, <2>2, Zenon
  <2> QED
    BY <2>3, Zenon DEF b0, c0, f0, g0
<1> QED
  BY <1>3, <1>4

-----------------------------------------------------------------------------

InHandler == {k \in Workers : Handling(k)}

(* The workers in a handler can be counted. *)
LEMMA InHandlerFinite == IsFiniteSet(InHandler) /\ Cardinality(InHandler) \in Nat
BY WorkersAssumption, FS_Subset, FS_CardinalityType DEF InHandler

(* What the account is about, as numbers. *)
LEMMA AccountTypes ==
    Types =>
           /\ Unpushed[NT] \in Nat /\ Len(queue) \in Nat /\ Cardinality(InHandler) \in Nat
           /\ stats.received \in Nat /\ stats.dispatched \in Nat /\ stats.handler_errors \in Nat
           /\ stats.dropped \in Nat /\ unhandled \in Nat /\ evicted \in Nat
BY UnpushedTotal, InHandlerFinite, LenProperties, StatsField DEF Types, FlowType, CountType

Settled == stats.dispatched + stats.handler_errors + unhandled + stats.dropped + evicted

(* What was settled is a number. *)
LEMMA SettledType == Types => Settled \in Nat
<1>1. Types => /\ stats.dispatched \in Nat /\ stats.handler_errors \in Nat
               /\ stats.dropped \in Nat /\ unhandled \in Nat /\ evicted \in Nat
  BY AccountTypes
<1> QED
  BY <1>1 DEF Settled

Account == stats.received = Unpushed[NT] + Len(queue) + Cardinality(InHandler) + Settled

(* The account is what MessagesAccounted says. *)
LEMMA AccountIs ==
    ASSUME Types
    PROVE  MessagesAccounted <=> Account
<1>1. MessagesAccounted <=>
        stats.received = Unpushed[NT] + Len(queue) + Cardinality(InHandler)
            + stats.dispatched + stats.handler_errors + unhandled + stats.dropped + evicted
  BY DEF MessagesAccounted, InHandler
<1> DEFINE u == Unpushed[NT]
           q == Len(queue)
           h == Cardinality(InHandler)
           d == stats.dispatched
           e == stats.handler_errors
           o == stats.dropped
<1>2. /\ u \in Nat /\ q \in Nat /\ h \in Nat /\ d \in Nat /\ e \in Nat /\ o \in Nat
      /\ unhandled \in Nat /\ evicted \in Nat
  BY AccountTypes
<1>3. MessagesAccounted <=> stats.received = u + q + h + d + e + unhandled + o + evicted
  BY <1>1
<1>4. Account <=> stats.received = u + q + h + (d + e + unhandled + o + evicted)
  BY DEF Account, Settled
<1> HIDE DEF u, q, h, d, e, o
<1>5. u + q + h + d + e + unhandled + o + evicted = u + q + h + (d + e + unhandled + o + evicted)
  BY <1>2
<1> QED
  BY <1>3, <1>4, <1>5, Zenon

(* The numbers of the next state. *)
LEMMA TypesNext ==
    Types' => (/\ Unpushed[NT] \in Nat /\ Len(queue) \in Nat /\ Cardinality(InHandler) \in Nat
               /\ stats.received \in Nat /\ Settled \in Nat)'
<1>1. Types => /\ Unpushed[NT] \in Nat /\ Len(queue) \in Nat /\ Cardinality(InHandler) \in Nat
               /\ stats.received \in Nat /\ Settled \in Nat
  BY AccountTypes, SettledType, SMTT(30)
<1> QED
  BY <1>1, PTL

(* A step keeps the account when what it receives is what it adds to the     *)
(* places a message can be in.                                               *)
LEMMA Balance ==
    ASSUME Types, Types', Account,
           stats'.received - stats.received =
               (Unpushed[NT]' - Unpushed[NT]) + (Len(queue') - Len(queue))
               + (Cardinality(InHandler') - Cardinality(InHandler)) + (Settled' - Settled)
    PROVE  Account'
<1> DEFINE r == stats.received
           u == Unpushed[NT]
           q == Len(queue)
           h == Cardinality(InHandler)
           s == Settled
           r1 == stats'.received
           u1 == Unpushed[NT]'
           q1 == Len(queue')
           h1 == Cardinality(InHandler')
           s1 == Settled'
<1>1. r \in Nat /\ u \in Nat /\ q \in Nat /\ h \in Nat /\ s \in Nat
  BY AccountTypes, SettledType
<1>2. r1 \in Nat /\ u1 \in Nat /\ q1 \in Nat /\ h1 \in Nat /\ s1 \in Nat
  BY TypesNext
<1>3. r = u + q + h + s
  BY DEF Account
<1>4. r1 - r = (u1 - u) + (q1 - q) + (h1 - h) + (s1 - s)
  OBVIOUS
<1> HIDE DEF r, u, q, h, s, r1, u1, q1, h1, s1
<1>5. r1 = u1 + q1 + h1 + s1
  BY <1>1, <1>2, <1>3, <1>4
<1> QED
  BY <1>5 DEF Account, r1, u1, q1, h1, s1

(* The application moves no message: start() resets an empty queue. *)
LEMMA AppAccounts ==
    ASSUME IInv, Account, AppCall \/ AppStep
    PROVE  Account'
<1>1. UNCHANGED <<batch, stats, unhandled, evicted>>
  BY Zenon DEF AppCall, AppStep, start, start_transport, start_transport_failed, start_returns, stop,
         stop_not_running, stop_transport, stop_transport_joined, close_queue, shutdown_wait,
         join_workers, appOnly, pipeline
<1>2. queue' = queue
  <2>1. CASE start
    BY <2>1 DEF start, IInv, Progress, Stopped
  <2>2. CASE ~start
    BY <2>2, ZenonT(30) DEF AppCall, AppStep, start_transport, start_transport_failed, start_returns, stop,
           stop_not_running, stop_transport, stop_transport_joined, close_queue, shutdown_wait,
           join_workers, appOnly, pipeline, Q!Close
  <2> QED
    BY <2>1, <2>2, SMTT(30)
<1>3. InHandler' = InHandler
  <2>1. CASE start \/ join_workers
    BY <2>1, Zenon DEF start, join_workers, InHandler, Handling, IInv, Progress, Stopped, Types, ControlType
  <2>2. CASE UNCHANGED worker
    BY <2>2 DEF InHandler, Handling
  <2> QED
    BY <2>1, <2>2 DEF AppCall, AppStep, start_transport, start_transport_failed, start_returns,
           stop, stop_not_running, stop_transport, stop_transport_joined, close_queue, shutdown_wait
<1>4. Unpushed[NT]' = Unpushed[NT] /\ Settled' = Settled
  BY <1>1, UnpushedKept DEF Settled
<1> QED
  BY <1>1, <1>2, <1>3, <1>4 DEF Account

(* What is received is in the batch. *)
LEMMA ReceivedAccounts ==
    ASSUME IInv, IInv', Account, NEW t \in Transports, handle_data_received(t)
    PROVE  Account'
<1>1. PICK n \in 0..MaxBatch, errors \in 0..1 :
        /\ seen[t] + n <= MaxMessages
        /\ batch' = [batch EXCEPT ![t] = MessagesFrom(t, n)]
        /\ stats' = [stats EXCEPT !.received = @ + n, !.decode_errors = @ + errors,
                                  !.reports = @ + errors]
  BY Zenon DEF handle_data_received
<1>2. n \in Nat /\ MessagesFrom(t, n) \in Seq(Messages) /\ Len(MessagesFrom(t, n)) = n
  BY <1>1, BoundAssumption, BatchType DEF IInv
<1>3. batch[t] = <<>> /\ Len(batch[t]) = 0
  BY EmptySeq DEF handle_data_received, IInv, Progress
<1>4. Unpushed[NT]' = Unpushed[NT] + (n - 0)
  BY <1>1, <1>2, <1>3, UnpushedChanged, Zenon DEF IInv
<1>5. UNCHANGED <<queue, worker, unhandled, evicted>>
  BY DEF handle_data_received, ioOnly
<1>6. /\ stats'.received = stats.received + n /\ stats'.dispatched = stats.dispatched
      /\ stats'.handler_errors = stats.handler_errors /\ stats'.dropped = stats.dropped
  <2>1. stats \in StatsType
    BY DEF IInv, Types, CountType
  <2> QED
    BY <1>1, <2>1 DEF StatsType
<1>7. InHandler' = InHandler /\ Settled' = Settled
  BY <1>5, <1>6 DEF InHandler, Handling, Settled
<1>8. /\ Unpushed[NT] \in Nat /\ Len(queue) \in Nat /\ Cardinality(InHandler) \in Nat
      /\ Settled \in Nat /\ stats.received \in Nat
  BY AccountTypes, SettledType, SMTT(30) DEF IInv
<1>9. /\ Unpushed[NT]' - Unpushed[NT] = n /\ stats'.received - stats.received = n
      /\ Len(queue') - Len(queue) = 0 /\ Cardinality(InHandler') - Cardinality(InHandler) = 0
      /\ Settled' - Settled = 0
  <2>1. n \in Nat
    BY <1>2, Zenon
  <2>2. Unpushed[NT] \in Nat /\ stats.received \in Nat
    BY <1>8, Zenon
  <2>3. Unpushed[NT]' - Unpushed[NT] = n
    BY <1>4, <2>1, <2>2, SMTT(30)
  <2>4. stats'.received = stats.received + n
    BY <1>6, Zenon
  <2>5. stats'.received - stats.received = n
    BY <2>1, <2>2, <2>4, SMTT(30)
  <2>6. /\ Len(queue') = Len(queue) /\ Cardinality(InHandler') = Cardinality(InHandler)
        /\ Settled' = Settled
    BY <1>5, <1>7, Zenon
  <2>7. Len(queue') - Len(queue) = 0
    BY <1>8, <2>6, SMTT(30)
  <2>8. Cardinality(InHandler') - Cardinality(InHandler) = 0
    BY <1>8, <2>6, SMTT(30)
  <2>9. Settled' - Settled = 0
    BY <1>8, <2>6, SMTT(30)
  <2> QED
    BY <2>3, <2>5, <2>7, <2>8, <2>9, Zenon
<1>10. n = n + 0 + 0 + 0
  BY <1>2
<1> QED
  BY <1>9, <1>10, Balance, Zenon DEF IInv

(* A message goes from the batch to the queue, or is dropped; or another one *)
(* is evicted.                                                               *)
LEMMA PushAccounts ==
    ASSUME IInv, IInv', Account, NEW t \in Transports, push_message(t)
    PROVE  Account'
<1>0. /\ stats \in StatsType /\ queue \in Seq(Messages) /\ Len(queue) \in Nat
      /\ capacity \in Nat \ {0}
  BY LenProperties, CapacityPositive, SMTT(30) DEF IInv, Types, CountType, FlowType
<1>1. batch[t] \in Seq(Messages) /\ batch[t] # <<>> /\ batch' = [batch EXCEPT ![t] = Tail(batch[t])]
  BY DEF push_message, IInv, Types, FlowType
<1>2. /\ Tail(batch[t]) \in Seq(Messages) /\ Len(Tail(batch[t])) = Len(batch[t]) - 1
      /\ Head(batch[t]) \in Messages /\ Len(batch[t]) \in Nat
  BY <1>1, HeadTailProperties, LenProperties
<1>3. Unpushed[NT]' = Unpushed[NT] + ((Len(batch[t]) - 1) - Len(batch[t]))
  BY <1>1, <1>2, UnpushedChanged, Zenon DEF IInv
<1>4. UNCHANGED <<worker, unhandled>> /\ InHandler' = InHandler
  BY DEF push_message, ioOnly, InHandler, Handling
<1>5. /\ Unpushed[NT] \in Nat /\ Cardinality(InHandler) \in Nat
      /\ Settled \in Nat /\ stats.received \in Nat
  BY AccountTypes, SettledType DEF IInv
<1>6. stats'.received = stats.received
      /\ \/ Len(queue') = Len(queue) + 1 /\ Settled' = Settled
         \/ Len(queue') = Len(queue) /\ Settled' = Settled + 1
  <2>0. stats.dispatched \in Nat /\ stats.handler_errors \in Nat /\ unhandled \in Nat
        /\ stats.dropped \in Nat /\ evicted \in Nat
    BY AccountTypes DEF IInv
  <2>1. CASE Q!Accept(Head(batch[t])) /\ UNCHANGED <<stats, evicted>>
    <3>1. Len(queue') = Len(queue) + 1
      BY <1>0, <1>2, <2>1, AppendProperties DEF Q!Accept
    <3> QED
      BY <1>4, <2>1, <3>1, ZenonT(30) DEF Settled
  <2>2. CASE Q!AcceptAndEvict(Head(batch[t])) /\ evicted' = evicted + 1 /\ UNCHANGED stats
    <3>1. queue # <<>>
      BY <1>0, <2>2, EmptySeq DEF Q!AcceptAndEvict
    <3>2. Tail(queue) \in Seq(Messages) /\ Len(Tail(queue)) = Len(queue) - 1
      BY <1>0, <3>1, HeadTailProperties
    <3>3. Len(queue') = Len(queue)
      BY <1>0, <1>2, <2>2, <3>2, AppendProperties DEF Q!AcceptAndEvict
    <3>4. Settled' = Settled + 1
      <4>1. Settled' = stats.dispatched + stats.handler_errors + unhandled + stats.dropped + (evicted + 1)
        BY <1>4, <2>2, Zenon DEF Settled
      <4> QED
        BY <2>0, <4>1 DEF Settled
    <3> QED
      BY <2>2, <3>3, <3>4
  <2>3. CASE DropMessage
    <3>1. stats' = [stats EXCEPT !.dropped = @ + 1, !.reports = @ + 1] /\ UNCHANGED <<queue, evicted>>
      BY <2>3 DEF DropMessage
    <3>2. /\ stats'.received = stats.received /\ stats'.dispatched = stats.dispatched
          /\ stats'.handler_errors = stats.handler_errors /\ stats'.dropped = stats.dropped + 1
      BY <1>0, <3>1 DEF StatsType
    <3>3. Settled' = Settled + 1
      BY <1>4, <2>0, <3>1, <3>2, SMTT(30) DEF Settled
    <3> QED
      BY <3>1, <3>2, <3>3
  <2> QED
    BY <2>1, <2>2, <2>3 DEF push_message
<1>7. Unpushed[NT]' - Unpushed[NT] = -1 /\ Cardinality(InHandler') - Cardinality(InHandler) = 0
  BY <1>2, <1>3, <1>4, <1>5
<1>8. stats'.received - stats.received = 0
  BY <1>5, <1>6
<1>9. 0 = (-1) + 1 + 0 + 0 /\ 0 = (-1) + 0 + 0 + 1
  OBVIOUS
<1>10. CASE Len(queue') = Len(queue) + 1 /\ Settled' = Settled
  <2>1. Len(queue') - Len(queue) = 1 /\ Settled' - Settled = 0
    BY <1>0, <1>5, <1>10
  <2> QED
    BY <1>7, <1>8, <1>9, <2>1, Balance, Zenon DEF IInv
<1>11. CASE Len(queue') = Len(queue) /\ Settled' = Settled + 1
  <2>1. Len(queue') - Len(queue) = 0 /\ Settled' - Settled = 1
    BY <1>0, <1>5, <1>11
  <2> QED
    BY <1>7, <1>8, <1>9, <2>1, Balance, Zenon DEF IInv
<1> QED
  BY <1>6, <1>10, <1>11, Zenon

(* A message goes from the queue to a handler. *)
LEMMA PopAccounts ==
    ASSUME IInv, IInv', Account, NEW k \in Workers, pop_and_dispatch(k)
    PROVE  Account'
<1>0. queue \in Seq(Messages) /\ queue # <<>> /\ Len(queue) \in Nat /\ Len(queue) # 0
  BY LenProperties, EmptySeq DEF IInv, Types, FlowType, pop_and_dispatch
<1>1. Len(queue') = Len(queue) - 1
  <2>1. \A i \in 2..Len(queue) : queue[i] \in Messages
    BY <1>0, ElementOfSeq, SMTT(30)
  <2>2. Len(SubSeq(queue, 2, Len(queue))) = IF 2 <= Len(queue) THEN Len(queue) - 2 + 1 ELSE 0
    <3>1. 2 \in Int /\ Len(queue) \in Int
      BY <1>0
    <3> QED
      BY <2>1, <3>1, SubSeqProperties
  <2>3. queue' = SubSeq(queue, 2, Len(queue))
    BY DEF pop_and_dispatch, Q!Leave
  <2>4. \A n \in Nat \ {0} : (IF 2 <= n THEN n - 2 + 1 ELSE 0) = n - 1
    OBVIOUS
  <2>5. Len(queue) \in Nat \ {0}
    BY <1>0
  <2> QED
    BY <2>2, <2>3, <2>4, <2>5, Zenon
<1>2. UNCHANGED <<batch, stats, unhandled, evicted>>
  BY SMTT(30) DEF pop_and_dispatch, workerOnly
<1>3. InHandler' = InHandler \cup {k} /\ k \notin InHandler
  BY DEF pop_and_dispatch, At, InHandler, Handling, IInv, Types, ControlType
<1>4. Cardinality(InHandler') = Cardinality(InHandler) + 1
  BY <1>3, InHandlerFinite, FS_AddElement, ZenonT(30)
<1>5. Unpushed[NT]' = Unpushed[NT] /\ Settled' = Settled
  BY <1>2, UnpushedKept, SMTT(30) DEF Settled
<1>6. Unpushed[NT] \in Nat /\ Cardinality(InHandler) \in Nat /\ Settled \in Nat
  BY AccountTypes, SettledType, SMTT(30) DEF IInv
<1>7. /\ Unpushed[NT]' - Unpushed[NT] = 0 /\ Settled' - Settled = 0
      /\ Len(queue') - Len(queue) = -1 /\ Cardinality(InHandler') - Cardinality(InHandler) = 1
  BY <1>0, <1>1, <1>4, <1>5, <1>6, SMTT(30)
<1>8. stats'.received - stats.received = 0
  BY <1>2, AccountTypes DEF IInv
<1>9. 0 = 0 + (-1) + 1 + 0
  OBVIOUS
<1> QED
  BY <1>7, <1>8, <1>9, Balance, ZenonT(30) DEF IInv

(* A message goes from a handler to one of three counters. *)
LEMMA ReturnAccounts ==
    ASSUME IInv, IInv', Account, NEW k \in Workers, dispatch_returns(k)
    PROVE  Account'
<1>0. UNCHANGED <<batch, queue, evicted>>
  BY DEF dispatch_returns, workerOnly
<1>1. InHandler' = InHandler \ {k} /\ k \in InHandler
  BY DEF dispatch_returns, At, InHandler, Handling, IInv, Types, ControlType
<1>2. Cardinality(InHandler') = Cardinality(InHandler) - 1
  BY <1>1, InHandlerFinite, FS_RemoveElement
<1>3. PICK result \in Outcomes, slow \in Slow :
        /\ stats' = [stats EXCEPT
              !.dispatched = @ + (IF result = "Handled" THEN 1 ELSE 0),
              !.handler_errors = @ + (IF result = "Error" THEN 1 ELSE 0),
              !.handler_timeouts = @ + (IF slow THEN 1 ELSE 0),
              !.reports = @ + (IF result = "Error" THEN 1 ELSE 0) + (IF slow THEN 1 ELSE 0)]
        /\ unhandled' = unhandled + (IF result = "NotFound" THEN 1 ELSE 0)
  BY Zenon DEF dispatch_returns
<1>4. /\ stats'.received = stats.received /\ stats'.dropped = stats.dropped
      /\ stats'.dispatched = stats.dispatched + (IF result = "Handled" THEN 1 ELSE 0)
      /\ stats'.handler_errors = stats.handler_errors + (IF result = "Error" THEN 1 ELSE 0)
  <2>1. stats \in StatsType
    BY DEF IInv, Types, CountType
  <2> DEFINE a == stats.dispatched + (IF result = "Handled" THEN 1 ELSE 0)
             b == stats.handler_errors + (IF result = "Error" THEN 1 ELSE 0)
             c == stats.handler_timeouts + (IF slow THEN 1 ELSE 0)
             d == stats.reports + (IF result = "Error" THEN 1 ELSE 0) + (IF slow THEN 1 ELSE 0)
  <2>2. stats' = [stats EXCEPT !.dispatched = a, !.handler_errors = b,
                               !.handler_timeouts = c, !.reports = d]
    BY <1>3, Zenon
  <2> HIDE DEF a, b, c, d
  <2>3. /\ stats'.received = stats.received /\ stats'.dropped = stats.dropped
        /\ stats'.dispatched = a /\ stats'.handler_errors = b
    BY <2>1, <2>2 DEF StatsType
  <2> QED
    BY <2>3, Zenon DEF a, b
<1>5. result \in {"Handled", "Error", "NotFound"}
  BY HandlerAssumption
<1>6. Settled' = Settled + 1
  <2>0. stats.dispatched \in Nat /\ stats.handler_errors \in Nat /\ unhandled \in Nat
        /\ stats.dropped \in Nat /\ evicted \in Nat
    BY AccountTypes DEF IInv
  <2>1. CASE result = "Handled"
    BY <1>0, <1>3, <1>4, <2>0, <2>1 DEF Settled
  <2>2. CASE result = "Error"
    BY <1>0, <1>3, <1>4, <2>0, <2>2 DEF Settled
  <2>3. CASE result = "NotFound"
    BY <1>0, <1>3, <1>4, <2>0, <2>3, SMTT(30) DEF Settled
  <2> QED
    BY <1>5, <2>1, <2>2, <2>3, SMTT(30)
<1>7. Unpushed[NT]' = Unpushed[NT]
  BY <1>0, UnpushedKept, SMTT(30)
<1>8. Unpushed[NT] \in Nat /\ Len(queue) \in Nat /\ Cardinality(InHandler) \in Nat /\ Settled \in Nat
  BY AccountTypes, SettledType, SMTT(30) DEF IInv
<1>9. /\ Unpushed[NT]' - Unpushed[NT] = 0 /\ Len(queue') - Len(queue) = 0
      /\ Cardinality(InHandler') - Cardinality(InHandler) = -1 /\ Settled' - Settled = 1
  BY <1>0, <1>2, <1>6, <1>7, <1>8, SMTT(30)
<1>10. stats'.received - stats.received = 0
  BY <1>4, AccountTypes DEF IInv
<1>11. 0 = 0 + 0 + (-1) + 1
  BY SMTT(30)
<1> QED
  BY <1>9, <1>10, <1>11, Balance, Zenon DEF IInv

(* Every step keeps the account. *)
LEMMA AccountStep ==
    ASSUME IInv, IInv', Account, [Next]_vars
    PROVE  Account'
<1>1. CASE AppCall \/ AppStep
  BY <1>1, AppAccounts
<1>2. ASSUME NEW t \in Transports, handle_data_received(t) PROVE Account'
  BY <1>2, ReceivedAccounts
<1>3. ASSUME NEW t \in Transports, push_message(t) PROVE Account'
  BY <1>3, PushAccounts
<1>4. ASSUME NEW k \in Workers, pop_and_dispatch(k) PROVE Account'
  BY <1>4, PopAccounts
<1>5. ASSUME NEW k \in Workers, dispatch_returns(k) PROVE Account'
  BY <1>5, ReturnAccounts, SMTT(30)
<1>6. ASSUME UNCHANGED <<batch, queue, stats, unhandled, evicted>>, InHandler' = InHandler
      PROVE  Account'
  <2>1. Unpushed[NT]' = Unpushed[NT] /\ Settled' = Settled
    BY <1>6, UnpushedKept, ZenonT(30) DEF Settled
  <2> QED
    BY <1>6, <2>1, SMTT(30) DEF Account
<1>7. ASSUME NEW t \in Transports, release_locks(t) \/ check_back_pressure(t) \/ pause(t)
      PROVE  UNCHANGED <<batch, queue, stats, unhandled, evicted>> /\ InHandler' = InHandler
  BY <1>7 DEF release_locks, check_back_pressure, pause, ioOnly, InHandler, Handling
<1>8. ASSUME NEW k \in Workers,
             \/ worker_begins(k) \/ handler_sends(k) \/ check_fill(k) \/ resume_all(k) \/ worker_exits(k)
      PROVE  UNCHANGED <<batch, queue, stats, unhandled, evicted>> /\ InHandler' = InHandler
  <2>1. UNCHANGED <<batch, queue, stats, unhandled, evicted>>
    BY <1>8, Zenon DEF worker_begins, handler_sends, check_fill, resume_all, worker_exits, workerOnly
  <2>2. worker \in [Workers -> WorkerLabels]
    BY ZenonT(30) DEF IInv, Types, ControlType
  <2>3. InHandler' = InHandler
    BY <1>8, <2>2, Zenon DEF worker_begins, handler_sends, check_fill, resume_all, worker_exits, At,
           InHandler, Handling
  <2> QED
    BY <2>1, <2>3
<1>9. CASE UNCHANGED vars
  <2>1. UNCHANGED <<batch, queue, stats, unhandled, evicted>> /\ InHandler' = InHandler
    BY <1>9 DEF vars, pipeline, InHandler, Handling
  <2> QED
    BY <1>6, <2>1, SMTT(30)
<1> QED
  BY <1>1, <1>2, <1>3, <1>4, <1>5, <1>6, <1>7, <1>8, <1>9, ZenonT(30) DEF Next, Step, IoStep, WorkerStep

(* No message is lost and none is counted twice, for any number of           *)
(* transports and workers, any capacity and policy, and across stop() and    *)
(* start(): what handle_data_received() has counted as received is waiting,  *)
(* queued, in a handler, or settled in exactly one counter.                  *)
THEOREM NoMessageLost == Spec => []MessagesAccounted
<1>1. Init => Account
  <2> SUFFICES ASSUME Init PROVE Account
    OBVIOUS
  <2>1. \A t \in Transports : Len(batch[t]) = 0
    BY EmptySeq DEF Init
  <2>2. Unpushed[NT] = 0
    <3>0. NT \in Nat /\ Transports = 1..NT
      BY TransportsAssumption DEF Transports
    <3>1. Types
      BY Initial DEF IInv
    <3>2. IsTotal(Unpushed, Lengths, NT)
      BY <3>1, UnpushedTotal
    <3> DEFINE bad == {m \in 0..NT : Unpushed[m] # 0}
    <3>3. bad = {}
      <4> SUFFICES ASSUME bad # {} PROVE FALSE
        OBVIOUS
      <4>1. PICK m \in bad : \A k \in bad : m <= k
        <5>1. bad \in SUBSET Nat
          BY <3>0
        <5> HIDE DEF bad
        <5> QED
          BY <5>1, LeastOfNats
      <4>2. m # 0
        BY <3>2, <4>1, Zenon DEF IsTotal
      <4>3. m \in 1..NT /\ m - 1 \in 0..NT /\ m - 1 \notin bad
        BY <3>0, <4>1, <4>2
      <4>4. Unpushed[m - 1] = 0 /\ Lengths[m] = 0
        BY <2>1, <3>0, <4>3, Zenon DEF Lengths
      <4>5. Unpushed[m] = 0
        BY <3>2, <4>3, <4>4, SMTT(30) DEF IsTotal
      <4> QED
        BY <4>1, <4>5
    <3> QED
      BY <3>0, <3>3
  <2>3. InHandler = {}
    BY Zenon DEF Init, InHandler, Handling
  <2>4. Cardinality(InHandler) = 0 /\ Len(queue) = 0
    BY <2>3, FS_EmptySet, EmptySeq, Zenon DEF Init
  <2>5. stats.received = 0 /\ Settled = 0
    BY DEF Init, Settled
  <2> QED
    BY <2>2, <2>4, <2>5, SMTT(30) DEF Account
<1>2. IInv /\ IInv' /\ Account /\ [Next]_vars => Account'
  BY AccountStep
<1>3. IInv /\ Account => MessagesAccounted
  BY AccountIs DEF IInv
<1> QED
  BY <1>1, <1>2, <1>3, Invariant, PTL DEF Spec
=============================================================================
