------------------------------ MODULE Transceiver ------------------------------
(***************************************************************************)
(* The life cycle of conduit::transceiver::Transceiver and its receive      *)
(* pipeline: one I/O thread per transport decodes messages and pushes them  *)
(* to the dispatch queue, worker threads pop them and run the handlers, and *)
(* an application thread starts and stops the whole.                        *)
(*                                                                          *)
(* The dispatch queue is used through what it promises (FifoQueue, which    *)
(* BoundedQueue is shown to implement).  Each transport has one peer; the   *)
(* peers themselves are the subject of PeerRegistry.                        *)
(***************************************************************************)
EXTENDS Integers, Sequences, FiniteSets

CONSTANTS NT,            \* number of transports
          Workers,       \* the worker threads, thread_count of them
          Capacity,      \* config_.rx_queue.capacity; 0 is accepted
          Configs,       \* what else config_ may hold: see ConfigAssumption
          Outcomes,      \* what handlers_.dispatch may return
          Slow,          \* {FALSE}, or BOOLEAN when handlers may exceed handler_timeout
          MaxBatch,      \* bound: messages decoded from one data callback
          MaxMessages,   \* bound: messages received on a transport
          MaxErrors,     \* bound: decode errors
          MaxStarts      \* bound: calls of start()

ASSUME TransportsAssumption == NT \in Nat
ASSUME WorkersAssumption == IsFiniteSet(Workers) /\ Workers # {}
ASSUME QueueAssumption == Capacity \in Nat

(* The drop policy, the back-pressure threshold as a fraction num / den, and *)
(* whether shutdown_timeout is positive.                                     *)
ASSUME ConfigAssumption ==
    Configs \subseteq [drop_policy : {"DropOldest", "DropNewest", "Block"},
                       num : Nat, den : Nat \ {0}, timed : BOOLEAN]
ASSUME HandlerAssumption ==
    Outcomes \subseteq {"Handled", "Error", "NotFound"} /\ Slow \subseteq BOOLEAN
ASSUME BoundAssumption ==
    MaxBatch \in Nat /\ MaxMessages \in Nat /\ MaxErrors \in Nat /\ MaxStarts \in Nat

Transports == 1..NT
Messages == Transports \X (1..MaxMessages)
NoMessage == <<>>

VARIABLES
    config,       \* config_, which does not change while the transceiver runs
    running,      \* running_
    queue,        \* the contents of dispatch_queue_
    closed,       \* dispatch_queue_ is closed, or not made yet
    app,          \* where the application thread is in start() or stop()
    turn,         \* the transport start() or stop() is at
    io,           \* where each I/O thread is
    batch,        \* to_enqueue of each I/O thread
    worker,       \* where each worker thread is
    held,         \* the message each worker handles
    active_workers,
    stats,        \* TransceiverStats, and the error events fired
    seen,         \* messages received on each transport so far
    starts,       \* calls of start() so far
    evicted,      \* history: messages the queue evicted
    unhandled,    \* history: messages no handler was found for
    latest,       \* history: the message of each transport popped last
    expired       \* history: the shutdown wait of the current stop() timed out

pipeline == <<queue, closed, batch, held, evicted>>
vars == <<config, running, pipeline, app, turn, io, worker, active_workers,
          stats, seen, starts, unhandled, latest, expired>>

capacity == IF Capacity > 0 THEN Capacity ELSE 1
Q == INSTANCE FifoQueue WITH q <- queue, Items <- Messages, drop_policy <- config.drop_policy

Init ==
    /\ config \in Configs
    /\ running = FALSE
    /\ queue = <<>> /\ closed = TRUE
    /\ app = "idle" /\ turn = 1
    /\ io = [t \in Transports |-> "off"]
    /\ batch = [t \in Transports |-> <<>>]
    /\ worker = [k \in Workers |-> "off"]
    /\ held = [k \in Workers |-> NoMessage]
    /\ active_workers = 0
    /\ stats = [received |-> 0, dispatched |-> 0, dropped |-> 0, decode_errors |-> 0,
                handler_errors |-> 0, handler_timeouts |-> 0, reports |-> 0]
    /\ seen = [t \in Transports |-> 0]
    /\ starts = 0 /\ evicted = 0 /\ unhandled = 0 /\ latest = [t \in Transports |-> 0] /\ expired = FALSE

-----------------------------------------------------------------------------
(* The application thread: start() and stop(). *)

appOnly == <<io, batch, held, stats, seen, evicted, unhandled, latest>>

(* start(): a new queue, the workers, then the transports one by one. *)
start ==
    /\ app = "idle" /\ ~running /\ starts < MaxStarts
    /\ starts' = starts + 1
    /\ queue' = <<>> /\ closed' = FALSE
    /\ running' = TRUE
    /\ worker' = [k \in Workers |-> "new"]
    /\ app' = "start" /\ turn' = 1 /\ expired' = FALSE
    /\ UNCHANGED <<appOnly, active_workers>>

start_transport ==
    /\ app = "start" /\ turn \in Transports
    /\ io' = [io EXCEPT ![turn] = "idle"]
    /\ turn' = turn + 1
    /\ UNCHANGED <<running, pipeline, app, worker, active_workers, stats, seen, starts,
                   unhandled, latest, expired>>

(* transport->start() fails: start() calls stop() and returns the error. *)
start_transport_failed ==
    /\ app = "start" /\ turn \in Transports
    /\ running' = FALSE
    /\ app' = "stop" /\ turn' = 1
    /\ UNCHANGED <<appOnly, queue, closed, worker, active_workers, starts, expired>>

start_returns ==
    /\ app = "start" /\ turn = NT + 1
    /\ app' = "idle"
    /\ UNCHANGED <<running, pipeline, turn, io, worker, active_workers, stats, seen,
                   starts, unhandled, latest, expired>>

(* Mutant of stop: the queue is closed before the transports are stopped. *)
stop_closes_first ==
    /\ app = "idle" /\ running
    /\ running' = FALSE /\ closed' = TRUE
    /\ app' = "stop" /\ turn' = 1
    /\ UNCHANGED <<appOnly, queue, worker, active_workers, starts, expired>>

stop ==
    /\ app = "idle" /\ running
    /\ running' = FALSE
    /\ app' = "stop" /\ turn' = 1
    /\ UNCHANGED <<appOnly, queue, closed, worker, active_workers, starts, expired>>

(* stop() when not running: the queue is closed again; no worker is left to  *)
(* join, and a transport that does not run ignores stop().                   *)
stop_not_running ==
    /\ app = "idle" /\ ~running
    /\ closed' = TRUE
    /\ UNCHANGED <<appOnly, running, queue, app, turn, worker, active_workers, starts, expired>>

(* transport->stop(): the I/O thread begins no callback any more ... *)
stop_transport ==
    /\ app = "stop" /\ turn \in Transports
    /\ app' = "stopping"
    /\ UNCHANGED <<appOnly, running, queue, closed, turn, worker, active_workers, starts, expired>>

(* ... and is joined when the one it is in has returned. *)
stop_transport_joined ==
    /\ app = "stopping" /\ io[turn] \in {"off", "idle"}
    /\ io' = [io EXCEPT ![turn] = "off"]
    /\ app' = "stop" /\ turn' = turn + 1
    /\ UNCHANGED <<running, pipeline, worker, active_workers, stats, seen, starts,
                   unhandled, latest, expired>>

(* Mutant of close_queue: the queue stays open. *)
close_queue_forgotten ==
    /\ app = "stop" /\ turn = NT + 1
    /\ app' = "wait"
    /\ UNCHANGED <<appOnly, running, queue, closed, turn, worker, active_workers, starts, expired>>

close_queue ==
    /\ app = "stop" /\ turn = NT + 1
    /\ Q!Close
    /\ app' = "wait"
    /\ UNCHANGED <<appOnly, running, turn, worker, active_workers, starts, expired>>

(* The wait on shutdown_cv_ ends when no worker is active or at the timeout, *)
(* which only logs a warning.                                                *)
shutdown_wait ==
    /\ app = "wait"
    /\ expired' = (config.timed /\ active_workers # 0)
    /\ app' = "join"
    /\ UNCHANGED <<appOnly, running, queue, closed, turn, worker, active_workers, starts>>

(* Mutant of join_workers: threads that are not done are detached. *)
join_workers_detach ==
    /\ app = "join"
    /\ (expired \/ \A k \in Workers : worker[k] = "done")
    /\ worker' = [k \in Workers |-> IF worker[k] = "done" THEN "off" ELSE worker[k]]
    /\ app' = "idle"
    /\ UNCHANGED <<appOnly, running, queue, closed, turn, active_workers, starts, expired>>

join_workers ==
    /\ app = "join"
    /\ \A k \in Workers : worker[k] = "done"
    /\ worker' = [k \in Workers |-> "off"]
    /\ app' = "idle"
    /\ UNCHANGED <<appOnly, running, queue, closed, turn, active_workers, starts, expired>>

AppStep ==
    \/ start_transport \/ start_transport_failed \/ start_returns
    \/ stop_transport \/ stop_transport_joined \/ close_queue \/ shutdown_wait \/ join_workers
AppCall == start \/ stop \/ stop_not_running

-----------------------------------------------------------------------------
(* The I/O threads: handle_data_received(). *)

ioOnly == <<running, closed, app, turn, worker, held, active_workers, starts, unhandled,
            latest, expired>>

MessagesFrom(t, n) == [i \in 1..n |-> <<t, seen[t] + i>>]

(* Mutant of handle_data_received: frames are counted, not messages. *)
handle_data_received_counts_frames(t) ==
    /\ io[t] = "idle" /\ ~(app = "stopping" /\ turn = t)
    /\ \E n \in 0..MaxBatch, errors \in 0..1 :
        /\ seen[t] + n <= MaxMessages
        /\ stats.decode_errors + errors <= MaxErrors
        /\ batch' = [batch EXCEPT ![t] = MessagesFrom(t, n)]
        /\ seen' = [seen EXCEPT ![t] = @ + n]
        /\ stats' = [stats EXCEPT !.received = @ + (IF n > 0 THEN 1 ELSE 0),
                                  !.decode_errors = @ + errors, !.reports = @ + errors]
    /\ io' = [io EXCEPT ![t] = "decoded"]
    /\ UNCHANGED <<ioOnly, queue, evicted>>

(* Data arrives: n messages are decoded under ctx_mutex, and perhaps one     *)
(* error, of the framer or of a frame, is put aside to be reported.          *)
handle_data_received(t) ==
    /\ io[t] = "idle" /\ ~(app = "stopping" /\ turn = t)
    /\ \E n \in 0..MaxBatch, errors \in 0..1 :
        /\ seen[t] + n <= MaxMessages
        /\ stats.decode_errors + errors <= MaxErrors
        /\ batch' = [batch EXCEPT ![t] = MessagesFrom(t, n)]
        /\ seen' = [seen EXCEPT ![t] = @ + n]
        /\ stats' = [stats EXCEPT !.received = @ + n, !.decode_errors = @ + errors,
                                  !.reports = @ + errors]
    /\ io' = [io EXCEPT ![t] = "decoded"]
    /\ UNCHANGED <<ioOnly, queue, evicted>>

(* Mutant of InCtxLock: the lock's scope covers the pushes as well. *)
InCtxLockWhilePushing(t) == io[t] \in {"decoded", "push"}

(* The I/O thread of t holds its peer's ctx_mutex. *)
InCtxLock(t) == io[t] = "decoded"

(* The locks are released, and what was put aside is reported and logged. *)
release_locks(t) ==
    /\ io[t] = "decoded"
    /\ io' = [io EXCEPT ![t] = "push"]
    /\ UNCHANGED <<ioOnly, queue, batch, stats, seen, evicted>>

(* push() returns FALSE: the queue is closed, or full and drops the newest. *)
Rejects == closed \/ (config.drop_policy = "DropNewest" /\ Len(queue) = capacity)

DropMessage ==
    /\ Rejects
    /\ stats' = [stats EXCEPT !.dropped = @ + 1, !.reports = @ + 1]
    /\ UNCHANGED <<queue, evicted>>

(* Mutant of push_message: the batch is taken from its end. *)
push_message_last(t) ==
    /\ io[t] = "push" /\ batch[t] # <<>>
    /\ LET m == batch[t][Len(batch[t])] IN
        \/ Q!Accept(m) /\ UNCHANGED <<stats, evicted>>
        \/ Q!AcceptAndEvict(m) /\ evicted' = evicted + 1 /\ UNCHANGED stats
        \/ DropMessage
    /\ batch' = [batch EXCEPT ![t] = SubSeq(@, 1, Len(@) - 1)]
    /\ UNCHANGED <<ioOnly, io, seen>>

(* One message of the batch is pushed.  Under Block a full queue makes the   *)
(* I/O thread wait, outside all locks.                                       *)
push_message(t) ==
    /\ io[t] = "push" /\ batch[t] # <<>>
    /\ \/ Q!Accept(Head(batch[t])) /\ UNCHANGED <<stats, evicted>>
       \/ Q!AcceptAndEvict(Head(batch[t])) /\ evicted' = evicted + 1 /\ UNCHANGED stats
       \/ DropMessage
    /\ batch' = [batch EXCEPT ![t] = Tail(@)]
    /\ UNCHANGED <<ioOnly, io, seen>>

(* fill >= threshold and fill < threshold * 0.8, where fill is a quotient of *)
(* doubles: with a capacity of 0 it is infinite, or not a number.            *)
Enabled == config.num > 0
FillIsHigh ==
    IF Capacity = 0 THEN queue # <<>> ELSE Len(queue) * config.den >= config.num * Capacity
FillIsLow == Len(queue) * config.den * 10 < config.num * Capacity * 8

(* The batch is pushed: the fill is read ... *)
check_back_pressure(t) ==
    /\ io[t] = "push" /\ batch[t] = <<>>
    /\ io' = [io EXCEPT ![t] = IF Enabled /\ FillIsHigh THEN "pause" ELSE "idle"]
    /\ UNCHANGED <<ioOnly, queue, batch, stats, seen, evicted>>

(* ... and the transport paused, in a step of its own.  It stops no data:    *)
(* ITransport::pause() and resume() are empty, and no transport of the       *)
(* library overrides them.                                                   *)
pause(t) ==
    /\ io[t] = "pause"
    /\ io' = [io EXCEPT ![t] = "idle"]
    /\ UNCHANGED <<ioOnly, queue, batch, stats, seen, evicted>>

IoStep(t) == release_locks(t) \/ push_message(t) \/ check_back_pressure(t) \/ pause(t)

-----------------------------------------------------------------------------
(* The worker threads: worker_loop(). *)

workerOnly == <<running, closed, app, turn, io, batch, seen, starts, evicted, expired>>

At(k, from, to) == worker[k] = from /\ worker' = [worker EXCEPT ![k] = to]

worker_begins(k) ==
    /\ At(k, "new", "pop")
    /\ active_workers' = active_workers + 1
    /\ UNCHANGED <<workerOnly, queue, held, stats, unhandled, latest>>

(* A message is popped and its handler called; the handler may first send to *)
(* the peer the message came from.                                           *)
pop_and_dispatch(k) ==
    /\ queue # <<>> /\ Q!Leave(1)
    /\ held' = [held EXCEPT ![k] = Head(queue)]
    /\ latest' = [latest EXCEPT ![Head(queue)[1]] = Head(queue)[2]]
    /\ At(k, "pop", "send") \/ At(k, "pop", "handle")
    /\ UNCHANGED <<workerOnly, active_workers, stats, unhandled>>

(* send_impl() encodes under the peer's ctx_mutex, or fails at once when the *)
(* transceiver does not run.                                                 *)
handler_sends(k) ==
    /\ At(k, "send", "handle")
    /\ running => ~InCtxLock(held[k][1])
    /\ UNCHANGED <<workerOnly, queue, held, active_workers, stats, unhandled, latest>>

(* The handler returns: its time is compared with handler_timeout, and the   *)
(* outcome counted and reported.                                             *)
dispatch_returns(k) ==
    /\ At(k, "handle", "fill")
    /\ \E result \in Outcomes, slow \in Slow :
        LET error == IF result = "Error" THEN 1 ELSE 0
            late == IF slow THEN 1 ELSE 0
        IN  /\ stats' = [stats EXCEPT !.dispatched = @ + (IF result = "Handled" THEN 1 ELSE 0),
                                      !.handler_errors = @ + error,
                                      !.handler_timeouts = @ + late,
                                      !.reports = @ + error + late]
            /\ unhandled' = unhandled + (IF result = "NotFound" THEN 1 ELSE 0)
    /\ held' = [held EXCEPT ![k] = NoMessage]
    /\ UNCHANGED <<workerOnly, queue, active_workers, latest>>

check_fill(k) ==
    /\ worker[k] = "fill"
    /\ worker' = [worker EXCEPT ![k] = IF Enabled /\ FillIsLow THEN "resume" ELSE "pop"]
    /\ UNCHANGED <<workerOnly, queue, held, active_workers, stats, unhandled, latest>>

resume_all(k) ==
    /\ At(k, "resume", "pop")
    /\ UNCHANGED <<workerOnly, queue, held, active_workers, stats, unhandled, latest>>

worker_exits(k) ==
    /\ closed /\ queue = <<>>
    /\ At(k, "pop", "done")
    /\ active_workers' = active_workers - 1
    /\ UNCHANGED <<workerOnly, queue, held, stats, unhandled, latest>>

WorkerStep(k) ==
    \/ worker_begins(k) \/ pop_and_dispatch(k) \/ handler_sends(k) \/ dispatch_returns(k)
    \/ check_fill(k) \/ resume_all(k) \/ worker_exits(k)

Step ==
    \/ AppCall \/ AppStep
    \/ \E t \in Transports : handle_data_received(t) \/ IoStep(t)
    \/ \E k \in Workers : WorkerStep(k)

Next == Step /\ UNCHANGED config

Spec == Init /\ [][Next]_vars

(* Threads that can run do run, handlers return, and a thread that waits for *)
(* a mutex which is released again and again gets it in the end.  Nothing    *)
(* obliges data to arrive or the application to call start() or stop().      *)
FairSpec ==
    /\ Spec
    /\ WF_vars(AppStep /\ UNCHANGED config)
    /\ \A t \in Transports : WF_vars(IoStep(t) /\ UNCHANGED config)
    /\ \A k \in Workers : /\ WF_vars(WorkerStep(k) /\ UNCHANGED config)
                          /\ SF_vars(handler_sends(k) /\ UNCHANGED config)

-----------------------------------------------------------------------------
(* Properties *)

TypeOK ==
    /\ config \in Configs
    /\ running \in BOOLEAN /\ closed \in BOOLEAN /\ expired \in BOOLEAN
    /\ queue \in Seq(Messages) /\ Len(queue) <= capacity
    /\ app \in {"idle", "start", "stop", "stopping", "wait", "join"}
    /\ turn \in 1..(NT + 1)
    /\ io \in [Transports -> {"off", "idle", "decoded", "push", "pause"}]
    /\ batch \in [Transports -> Seq(Messages)]
    /\ worker \in [Workers -> {"off", "new", "pop", "send", "handle", "fill", "resume", "done"}]
    /\ held \in [Workers -> Messages \cup {NoMessage}]
    /\ active_workers \in 0..Cardinality(Workers)
    /\ seen \in [Transports -> 0..MaxMessages]
    /\ stats \in [{"received", "dispatched", "dropped", "decode_errors", "handler_errors",
                   "handler_timeouts", "reports"} -> Nat]
    /\ starts \in Nat /\ evicted \in Nat /\ unhandled \in Nat
    /\ latest \in [Transports -> 0..MaxMessages]

Handling(k) == worker[k] \in {"send", "handle"}

(* The messages the first n transports have decoded and not pushed yet. *)
Unpushed[n \in 0..NT] == IF n = 0 THEN 0 ELSE Unpushed[n - 1] + Len(batch[n])

(* Every message decoded is accounted for: it is waiting to be pushed, in    *)
(* the queue, in a handler, or was counted as dispatched, failed, dropped,   *)
(* evicted or unhandled.  Threads, policies, shutdown and restart lose none  *)
(* and count none twice (handle_data_received, worker_loop, start, stop).    *)
MessagesAccounted ==
    stats.received =
        Unpushed[NT] + Len(queue)
        + Cardinality({k \in Workers : Handling(k)})
        + stats.dispatched + stats.handler_errors + unhandled + stats.dropped + evicted

(* When stop() has returned nothing runs and nothing is left: no handler can *)
(* touch the transceiver any more, no callback is in progress, and every     *)
(* message that reached the queue has been dispatched or evicted (stop:      *)
(* transports first, then the queue, then the workers).                      *)
StoppedIsQuiet ==
    app = "idle" /\ ~running =>
        /\ queue = <<>> /\ closed
        /\ \A k \in Workers : worker[k] = "off"
        /\ \A t \in Transports : io[t] = "off" /\ batch[t] = <<>>
        /\ active_workers = 0

(* stop() refuses no message a transport had decoded: the queue is closed    *)
(* only after every transport has been joined, so shutdown itself drops none *)
(* (the order of stop(), and of start(): workers before transports).         *)
ShutdownDropsNothing == config.drop_policy # "DropNewest" => stats.dropped = 0

(* The messages of a peer are taken from the queue in the order in which     *)
(* they were decoded, restarts and evictions included: with one worker it is *)
(* the order of their handlers.                                              *)
PeerOrderKept == [][\A t \in Transports : latest'[t] >= latest[t]]_vars

(* stop() returns: no I/O thread stays blocked in push(), no worker in pop() *)
(* and no handler in send(), whatever the policy.                            *)
StopReturns == (app = "stop") ~> (app = "idle")

InPipeline(m) ==
    \/ \E t \in Transports : \E i \in 1..Len(batch[t]) : batch[t][i] = m
    \/ \E i \in 1..Len(queue) : queue[i] = m
    \/ \E k \in Workers : held[k] = m

(* Every decoded message leaves the pipeline, also while a handler sends to  *)
(* the peer whose I/O thread waits for room in the queue (the reason why     *)
(* handle_data_received pushes outside ctx_mutex).                           *)
MessagesSettle == \A m \in Messages : InPipeline(m) ~> ~InPipeline(m)
=============================================================================
