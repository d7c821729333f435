---------------------------- MODULE MCStreamFramer ----------------------------
(* Sessions for TLC: the length of a frame is the byte behind the sync        *)
(* pattern, or the first byte of the frame when there is none.                *)
EXTENDS StreamFramer

LengthByte(s, h) == h[Len(s.sync_pattern) + 1]

TwoByteSync == [sync_pattern |-> <<1, 2>>, min_frame_header_size |-> 3]
RepeatedSync == [sync_pattern |-> <<1, 1>>, min_frame_header_size |-> 3]
NoSync == [sync_pattern |-> <<>>, min_frame_header_size |-> 0]
AllSessions == {TwoByteSync, RepeatedSync, NoSync}

(* With a header of three bytes 1 and 2 announce a frame shorter than it, 5   *)
(* a good frame and 9 one beyond the buffer; without a sync pattern 1, 2 and  *)
(* 5 are good.                                                                *)
SyncBytes == {1, 2, 5, 9}
=============================================================================
