------------------------------ MODULE StreamFramer ------------------------------
(***************************************************************************)
(* conduit::transceiver::StreamFramer: cuts the byte stream of a TCP or     *)
(* serial peer into protocol frames.  push_data() appends a chunk and scans *)
(* the buffer; each turn of its loop is one step here, so that a loop that  *)
(* does not advance would be a behaviour that never returns.                *)
(*                                                                          *)
(* What the session contributes (sync_pattern, min_frame_header_size,       *)
(* extract_frame_length) is generated code: a framer is constructed with    *)
(* one of Sessions.                                                         *)
(***************************************************************************)
EXTENDS Integers, Sequences

CONSTANTS Bytes,                       \* the bytes a peer sends
          Sessions,                    \* records of sync_pattern, which may be empty,
                                       \* and min_frame_header_size, which may be 0
          extract_frame_length(_, _),  \* of a session and a header
          max_buffer_size,
          MaxChunk,                    \* bound: bytes per push_data
          MaxStream                    \* bound: bytes pushed between two resets

ASSUME SessionAssumption ==
    \A s \in Sessions : s.sync_pattern \in Seq(Bytes) /\ s.min_frame_header_size \in Nat
ASSUME BufferAssumption == max_buffer_size \in Nat

VARIABLES session,
          buffer, offset,
          frames,      \* frames the current call has extracted
          running,     \* is a call of push_data in its loop?
          stream,      \* history: the bytes accepted since the last reset
          base,        \* history: how many of them were erased from the buffer
          delivered    \* history: the frames returned since the last reset

vars == <<session, buffer, offset, frames, running, stream, base, delivered>>

sync == session.sync_pattern
MinHeader(s) == IF s.min_frame_header_size = 0 THEN 1 ELSE s.min_frame_header_size
min_header == MinHeader(session)

ASSUME LengthAssumption ==
    \A s \in Sessions : \A h \in [1..MinHeader(s) -> Bytes] : extract_frame_length(s, h) \in Nat

Drop(s, n) == SubSeq(s, n + 1, Len(s))

Init ==
    /\ session \in Sessions
    /\ buffer = <<>> /\ offset = 0
    /\ frames = <<>> /\ running = FALSE
    /\ stream = <<>> /\ base = 0 /\ delivered = <<>>

reset ==
    /\ ~running
    /\ buffer' = <<>> /\ offset' = 0
    /\ stream' = <<>> /\ base' = 0 /\ delivered' = <<>>
    /\ UNCHANGED <<frames, running>>

(* Does a chunk of n bytes fit behind the bytes not yet consumed?  The       *)
(* consumed prefix is erased before the chunk is refused.                    *)
Fits(n) == Len(buffer) - offset + n <= max_buffer_size

push_data(data) ==
    /\ ~running
    /\ Fits(Len(data))
    /\ LET erased == IF Len(buffer) + Len(data) > max_buffer_size THEN offset ELSE 0
       IN /\ buffer' = Drop(buffer, erased) \o data
          /\ offset' = offset - erased
          /\ base' = base + erased
    /\ stream' = stream \o data
    /\ running' = TRUE
    /\ UNCHANGED <<frames, delivered>>

push_data_overrun(data) ==
    /\ ~Fits(Len(data))
    /\ reset

-----------------------------------------------------------------------------
(* The loop. *)

SyncAt(i) == SubSeq(buffer, i + 1, i + Len(sync)) = sync

(* std::search from offset_: where sync begins, for every match. *)
Matches == {i \in offset..(Len(buffer) - Len(sync)) : SyncAt(i)}

First(S) == CHOOSE i \in S : \A j \in S : i <= j

(* Leaving the loop: compact the buffer, hand the frames over. *)
Finish(o) ==
    /\ LET erased == IF o > Len(buffer) \div 2 \/ frames # <<>> THEN o ELSE 0
       IN /\ buffer' = Drop(buffer, erased)
          /\ offset' = o - erased
          /\ base' = base + erased
    /\ delivered' = delivered \o frames
    /\ frames' = <<>>
    /\ running' = FALSE
    /\ UNCHANGED stream

(* Mutants of SyncNotFound: the garbage is kept; a partial sync pattern is not. *)
SyncNotFoundKeepsAll ==
    /\ running
    /\ Matches = {}
    /\ Finish(offset)

SyncNotFoundDropsAll ==
    /\ running
    /\ Matches = {}
    /\ Finish(Len(buffer))

(* No sync pattern: keep what could be the beginning of one. *)
SyncNotFound ==
    /\ running
    /\ Matches = {}
    /\ LET kept == Len(sync) - 1
       IN Finish(IF Len(buffer) - offset > kept THEN Len(buffer) - kept ELSE offset)

(* The loop behind the search, at the position it found. *)
HeaderIncomplete ==
    /\ running
    /\ Matches # {}
    /\ Len(buffer) - First(Matches) < min_header
    /\ Finish(First(Matches))

FrameLength(o) == extract_frame_length(session, SubSeq(buffer, o + 1, o + min_header))

HaveHeader(o) ==
    /\ running
    /\ Matches # {}
    /\ o = First(Matches)
    /\ Len(buffer) - o >= min_header

Plausible(length) == length >= min_header /\ length <= max_buffer_size

(* Mutant of SkipCorrupt: the position is not advanced. *)
SkipNothing(o) ==
    /\ HaveHeader(o)
    /\ ~Plausible(FrameLength(o))
    /\ offset' = o
    /\ UNCHANGED <<buffer, frames, running, stream, base, delivered>>

(* A length of zero, shorter than the header or beyond the buffer's limit:   *)
(* skip the sync pattern, or one byte when there is none.                    *)
SkipCorrupt(o) ==
    /\ HaveHeader(o)
    /\ ~Plausible(FrameLength(o))
    /\ offset' = o + (IF sync = <<>> THEN 1 ELSE Len(sync))
    /\ UNCHANGED <<buffer, frames, running, stream, base, delivered>>

FrameIncomplete(o) ==
    /\ HaveHeader(o)
    /\ Plausible(FrameLength(o))
    /\ Len(buffer) - o < FrameLength(o)
    /\ Finish(o)

ExtractFrame(o) ==
    /\ HaveHeader(o)
    /\ Plausible(FrameLength(o))
    /\ Len(buffer) - o >= FrameLength(o)
    /\ frames' = Append(frames, SubSeq(buffer, o + 1, o + FrameLength(o)))
    /\ offset' = o + FrameLength(o)
    /\ UNCHANGED <<buffer, running, stream, base, delivered>>

Loop ==
    \/ SyncNotFound
    \/ HeaderIncomplete
    \/ \E o \in Matches : SkipCorrupt(o) \/ FrameIncomplete(o) \/ ExtractFrame(o)

Chunks == UNION {[1..n -> Bytes] : n \in 0..MaxChunk}

Step ==
    \/ \E data \in Chunks :
         \/ Len(stream) + Len(data) <= MaxStream /\ push_data(data)
         \/ push_data_overrun(data)
    \/ reset
    \/ Loop

Next == Step /\ UNCHANGED session

Spec == Init /\ [][Next]_vars
FairSpec == Spec /\ WF_vars(Loop /\ UNCHANGED session)

-----------------------------------------------------------------------------
(* Properties. *)

(* The types; offset_ stays inside buffer_ and buffer_ inside its limit.      *)
TypeOK ==
    /\ session \in Sessions
    /\ buffer \in Seq(Bytes) /\ Len(buffer) <= max_buffer_size
    /\ offset \in 0..Len(buffer)
    /\ frames \in Seq(Seq(Bytes)) /\ delivered \in Seq(Seq(Bytes))
    /\ running \in BOOLEAN
    /\ stream \in Seq(Bytes) /\ base \in Nat
    /\ ~running => frames = <<>>

(* The reference: the frames of a whole byte stream, read from position p on *)
(* with nothing but the protocol in mind: no chunks, no buffer.              *)
FramesFrom(s) ==
    LET At(i) == SubSeq(s, i + 1, i + Len(sync)) = sync
        Starts(p) == {i \in p..(Len(s) - Len(sync)) : At(i)}
        LengthAt(i) == extract_frame_length(session, SubSeq(s, i + 1, i + min_header))
        parse[p \in 0..Len(s)] ==
            IF Starts(p) = {} \/ Len(s) - First(Starts(p)) < min_header THEN <<>>
            ELSE LET i == First(Starts(p))
                     n == LengthAt(i)
                 IN IF ~Plausible(n)
                      THEN parse[i + (IF sync = <<>> THEN 1 ELSE Len(sync))]
                    ELSE IF i + n > Len(s) THEN <<>>
                    ELSE <<SubSeq(s, i + 1, i + n)>> \o parse[i + n]
    IN parse[0]

(* However the stream is cut into chunks, and whatever was compacted away in *)
(* between, the frames returned so far are exactly those of the stream read  *)
(* as a whole: none lost, split, repeated, or held back once it is complete. *)
ChunkingIsInvisible == ~running => delivered = FramesFrom(stream)

(* Only an unfinished frame can take the room of the next chunk: neither     *)
(* line noise of any length nor consumed bytes that await compaction lead to *)
(* an overrun, in which push_data throws everything away.  (The user's guide *)
(* names a long time without a sync pattern as a cause, stream-framing.md    *)
(* line 107; push_data keeps no more of such a time than the beginning of a  *)
(* pattern at the end of the buffer.)                                        *)
OverrunOnlyInFrame ==
    ~running /\ ~Fits(MaxChunk) =>
        /\ Matches # {} /\ First(Matches) = offset
        /\ Len(buffer) - offset >= min_header
        /\ Plausible(FrameLength(offset)) /\ FrameLength(offset) > Len(buffer) - offset

(* push_data returns: each turn of the loop consumes something or leaves it. *)
PushDataReturns == running ~> ~running
=============================================================================
