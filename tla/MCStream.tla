-------------------------------- MODULE MCStream --------------------------------
(* The two ends of a byte stream: the framer, and the serial transport.  They *)
(* share no state, so that a behaviour of one says nothing of the other: each *)
(* is explored by itself, as part says.                                       *)
EXTENDS MCStreamFramer, Serial

CONSTANTS k1, k2

TwoWriters == {k1, k2}

VARIABLE part

framerVars == <<session, buffer, offset, frames, running, stream, base, delivered>>
streamVars == <<part, framerVars, serialVars>>

StreamInit == part \in {"framer", "serial"} /\ Init /\ SerialInit

FramerStep == part = "framer" /\ Next /\ UNCHANGED <<part, serialVars>>
SerialStep == part = "serial" /\ SerialNext /\ UNCHANGED <<part, framerVars>>

(* The bounds are reached: the port is closed and nobody is in a call. *)
SerialRests ==
    /\ part = "serial" /\ control = "idle" /\ ~port_running
    /\ opens = MaxOpens /\ \A k \in Writers : writer[k].pc = "idle" /\ writes[k] = MaxWrites
    /\ UNCHANGED streamVars

Of(action) == part = "serial" /\ action /\ UNCHANGED <<part, framerVars>>

(* push_data() goes on.  In the serial transport so do the reader, and a      *)
(* start(), a stop() and a send() once called; the line takes what was written. *)
StreamSpec ==
    /\ StreamInit
    /\ [][FramerStep \/ SerialStep \/ SerialRests]_streamVars
    /\ WF_streamVars(part = "framer" /\ Loop /\ UNCHANGED <<session, part, serialVars>>)
    /\ WF_streamVars(Of(start_port \/ start_port_fails))
    /\ WF_streamVars(Of(stop_unblocks \/ stop_joins \/ stop_closes \/ stop_reports))
    /\ WF_streamVars(Of(ReaderStep))
    /\ \A k \in Writers : WF_streamVars(Of(WriterStep(k)))
    /\ WF_streamVars(Of(line_drains))
=============================================================================
