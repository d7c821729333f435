-------------------------------- MODULE MCCodec --------------------------------
(* What is written is what is read, at two levels: BitWriter and BitReader    *)
(* under every mixture of fields (BitIo), and the generated sessions that use *)
(* them (AsterixLink).  Initially there is a script of messages to send, or   *)
(* there is none and the bit writer is used directly.                         *)
EXTENDS MCBitIo, AsterixSchemas

CONSTANTS Layouts, Scripts

VARIABLES todo, wire, sent, inbox, passed

link == <<todo, wire, sent, inbox, passed>>

Samples == INSTANCE AsterixSamples
Link == INSTANCE AsterixLink

ScriptsOrNone == Samples!AllScripts \cup {<<>>}

LinkUnused == todo = <<>> /\ \A side \in Link!Sides : sent[side] = <<>>

CodecInit == Init /\ Link!Init
CodecNext ==
    \/ Link!Next /\ UNCHANGED vars
    \/ LinkUnused /\ Next /\ UNCHANGED link
CodecSpec == CodecInit /\ [][CodecNext]_<<vars, link>>

(* What one side's session sends, the other's receives (AsterixLink). *)
Interop == Link!Interop

(* A block that is decoded and encoded again has the size it had, and the     *)
(* same bits unless a member is scaled by 0.1 or 0.01 (AsterixLink).          *)
RelayedUnchanged == Link!RelayedUnchanged
=============================================================================
