------------------------------ MODULE MCPipeline ------------------------------
(* That the receive pipeline never stands still: the transceiver over the     *)
(* queue as it is specified, and the queue as it is implemented.  The two are *)
(* explored one at a time, as part says.                                      *)
EXTENDS MCTransceiver

CONSTANTS p1, p2, c1, m1, a, NoItem,
          Producers, Consumers, Managers, Items, RingCapacity, DropPolicies, BatchSizes, MaxCount

TwoProducers == {p1, p2}
OneConsumer == {c1}
OneManager == {m1}
OneItem == {a}
Batches == {0, 2}
Blocking == {"Block"}

VARIABLES part, buffer, head, tail, size, ring_closed, drop_policy, ring_stats, not_empty, not_full,
          pc, arg, carried, cleared

Ring == INSTANCE BoundedQueue WITH
            Capacity <- RingCapacity, closed <- ring_closed, stats <- ring_stats

ringVars == <<buffer, head, tail, size, ring_closed, drop_policy, ring_stats, not_empty, not_full,
              pc, arg, carried, cleared>>
liveVars == <<part, vars, ringVars>>

LiveInit == part \in {"transceiver", "queue"} /\ Init /\ Ring!Init

OfTransceiver(action) == part = "transceiver" /\ action /\ UNCHANGED <<config, part, ringVars>>
OfQueue(action) == part = "queue" /\ action /\ UNCHANGED <<vars, part, drop_policy>>

(* The fairness of the two specifications, each for its part. *)
LiveSpec ==
    /\ LiveInit
    /\ [][OfTransceiver(Step) \/ OfQueue(Ring!Step)]_liveVars
    /\ WF_liveVars(OfTransceiver(AppStep))
    /\ \A t \in Transports : WF_liveVars(OfTransceiver(IoStep(t)))
    /\ \A k \in Workers : /\ WF_liveVars(OfTransceiver(WorkerStep(k)))
                          /\ SF_liveVars(OfTransceiver(handler_sends(k)))
    /\ \A t \in Ring!Threads : /\ WF_liveVars(OfQueue(Ring!Proceed(t)))
                               /\ SF_liveVars(OfQueue(Ring!Expire(t)))

(* No thread stays blocked in the queue beside a slot that stays free or an   *)
(* element nobody takes, and close() releases everybody (push, pop and close  *)
(* of BoundedQueue).                                                          *)
NobodyStranded == Ring!NobodyStranded
=============================================================================
