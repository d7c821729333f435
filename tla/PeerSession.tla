------------------------------ MODULE PeerSession ------------------------------
(***************************************************************************)
(* The send path of one peer over a reconnecting TCP client: send_impl()    *)
(* encodes a message with the peer's session under ctx_mutex and hands the  *)
(* bytes to the transport after it has released the mutex; the report of    *)
(* the Connected state resets the session under the same mutex.  The        *)
(* session is its sequence counter, the state that encoding changes.        *)
(***************************************************************************)
EXTENDS TcpClient

CONSTANT MaxSkips   \* bound: numbers taken by an encoding that then failed

VARIABLES
    counter,     \* sequence_counter_ of the session
    epoch,       \* resets of the session so far
    ctx_mutex,   \* its owner
    hand,        \* what each thread in send_impl() has encoded
    frames,      \* epoch and number of each frame given to send(), by thread and call
    skipped      \* history: epoch and number of each encoding that took one and failed

sessionVars == <<counter, epoch, ctx_mutex, hand, frames, skipped>>
allVars == <<vars, sessionVars>>

NoFrame == [pc |-> "none", epoch |-> 0, number |-> 0]

SInit ==
    /\ Init
    /\ counter = 0 /\ epoch = 0 /\ ctx_mutex = Nobody
    /\ hand = [k \in Senders |-> NoFrame]
    /\ frames = <<>> /\ skipped = <<>>

-----------------------------------------------------------------------------

(* send_impl(): the check of running_, and the counter is read under the     *)
(* lock.  The state of the peer is not looked at.                            *)
encode_begins(k) ==
    /\ running /\ snd[k].pc = "idle" /\ snd[k].calls < MaxSends
    /\ hand[k].pc = "none" /\ ctx_mutex = Nobody
    /\ ctx_mutex' = k
    /\ hand' = [hand EXCEPT ![k] = [pc |-> "encoding", epoch |-> epoch, number |-> counter]]
    /\ UNCHANGED <<vars, counter, epoch, frames, skipped>>

encode_ends(k) ==
    /\ hand[k].pc = "encoding"
    /\ counter' = hand[k].number + 1
    /\ hand' = [hand EXCEPT ![k].pc = "encoded"]
    /\ ctx_mutex' = Nobody
    /\ UNCHANGED <<vars, epoch, frames, skipped>>

(* The message is refused, receive-only or of an unknown type ... *)
encode_refused(k) ==
    /\ hand[k].pc = "encoding"
    /\ hand' = [hand EXCEPT ![k] = NoFrame]
    /\ ctx_mutex' = Nobody
    /\ UNCHANGED <<vars, counter, epoch, frames, skipped>>

(* ... or encode_bytes() fails, when encode_wrap() has incremented the       *)
(* counter already: the number is used up and no frame carries it.           *)
encode_fails(k) ==
    /\ hand[k].pc = "encoding" /\ Len(skipped) < MaxSkips
    /\ counter' = hand[k].number + 1
    /\ skipped' = Append(skipped, <<hand[k].epoch, hand[k].number>>)
    /\ hand' = [hand EXCEPT ![k] = NoFrame]
    /\ ctx_mutex' = Nobody
    /\ UNCHANGED <<vars, epoch, frames>>

(* transport->send(), with no lock of the transceiver held. *)
transmit(k) ==
    /\ hand[k].pc = "encoded"
    /\ send(k) \/ send_not_connected(k)
    /\ frames' = [f \in DOMAIN frames \cup {<<k, snd[k].calls + 1>>} |->
                    IF f \in DOMAIN frames THEN frames[f] ELSE <<hand[k].epoch, hand[k].number>>]
    /\ hand' = [hand EXCEPT ![k] = NoFrame]
    /\ UNCHANGED <<counter, epoch, ctx_mutex, skipped>>


(* handle_state_changed(Connected). *)
session_reset ==
    /\ connected /\ ctx_mutex = Nobody
    /\ counter' = 0 /\ epoch' = epoch + 1
    /\ UNCHANGED <<ctx_mutex, hand, frames, skipped>>

(* Every other step of the transport.  What the remote sends does not concern *)
(* the send path, and is left out.                                            *)
TransportStep ==
    \/ start \/ stop \/ StopStep \/ IoStep \/ recv_fails
    \/ \E c \in Conns : remote_reads(c) \/ remote_closes(c)
    \/ \E k \in Senders : SendStep(k)

SStep ==
    \/ \E k \in Senders : encode_begins(k) \/ encode_ends(k) \/ encode_refused(k)
                          \/ encode_fails(k) \/ transmit(k)
    \/ session_reset
    \/ TransportStep /\ UNCHANGED sessionVars

SNext == SStep /\ UNCHANGED enabled

SSpec == SInit /\ [][SNext]_allVars

-----------------------------------------------------------------------------
(* Properties *)

EncodedBy(k) == IF hand[k].pc = "encoded" THEN {<<hand[k].epoch, hand[k].number>>} ELSE {}
Encoded == {frames[f] : f \in DOMAIN frames} \cup UNION {EncodedBy(k) : k \in Senders}
EncodedCount == Cardinality(DOMAIN frames) + Cardinality({k \in Senders : hand[k].pc = "encoded"})
Skipped == {skipped[i] : i \in 1..Len(skipped)}


(* What handle_state_changed() says of itself: the session is reset before   *)
(* Connected is visible, "so no thread can send on a stale session".  Every  *)
(* frame put on a connection was encoded with the session as it was reset    *)
(* for that connection: connection c comes with reset c.  (On the first one  *)
(* the session that was never used is as good.)                              *)
NoStaleSession ==
    \A c \in Conns \ {1} : \A i \in 1..Len(stream[c]) : frames[stream[c][i]][1] = c
=============================================================================
