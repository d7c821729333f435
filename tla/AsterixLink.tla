------------------------------ MODULE AsterixLink ------------------------------
(* The sessions of the two example programs at the ends of a link.  A sender  *)
(* frames a batch of records, the receiver cuts the stream at the length its  *)
(* session extracts and decodes the frame, and a gateway that holds both      *)
(* sessions may pass the received records on as raw bytes.                    *)
EXTENDS AsterixSession

CONSTANT Scripts    \* what the applications send: sequences of batches

VARIABLES
    todo,       \* what the applications still have to send
    wire,       \* the bits on their way to each side
    sent,       \* the batches framed for each side, with their frames
    inbox,      \* what each side decoded, frame by frame
    passed      \* the frames the gateway made of what each side decoded

vars == <<todo, wire, sent, inbox, passed>>

Init ==
    /\ todo \in Scripts
    /\ wire = [side \in Sides |-> <<>>]
    /\ sent = [side \in Sides |-> <<>>]
    /\ inbox = [side \in Sides |-> <<>>]
    /\ passed = [side \in Sides |-> <<>>]

(* Transceiver::send and send_batch: a record the side only receives, and     *)
(* what the session refuses, goes nowhere.                                    *)
Framed(b) ==
    IF Len(b.payloads) = 1 THEN encode_wrap(b.from, b.type, b.payloads[1])
    ELSE encode_batch(b.from, b.type, b.payloads)

Transmit(b, to, frame) ==
    IF is_receive_only(b.from, b.type) \/ frame.error # "none" THEN UNCHANGED <<wire, sent>>
    ELSE /\ wire' = [wire EXCEPT ![to] = @ \o frame.bits]
         /\ sent' = [sent EXCEPT ![to] = Append(@, [batch |-> b, bits |-> frame.bits])]

Send ==
    /\ todo # <<>>
    /\ Transmit(Head(todo), Other(Head(todo).from), Framed(Head(todo)))
    /\ todo' = Tail(todo)
    /\ UNCHANGED <<inbox, passed>>

(* A complete frame is cut off the stream and decoded; what cannot be decoded *)
(* is reported and dropped.                                                   *)
Receive(side) ==
    LET n == 8 * extract_frame_length(wire[side])
    IN  /\ n > 0
        /\ n <= Len(wire[side])
        /\ inbox' = [inbox EXCEPT ![side] =
                        Append(@, decode_frame(side, SubSeq(wire[side], 1, n)))]
        /\ wire' = [wire EXCEPT ![side] = SubSeq(@, n + 1, Len(@))]
        /\ UNCHANGED <<todo, sent, passed>>

(* The gateway takes the bytes of each record of the next frame and frames    *)
(* them again with the session of the sender's kind.                          *)
Relay(side) ==
    LET next == Len(passed[side]) + 1
        messages == inbox[side][next].value
        bytes(m) == EncodeAll(Layouts[side][m.type], m.value, Writer).bits
        raw == [i \in DOMAIN messages |-> Raw(bytes(messages[i]))]
    IN  /\ next <= Len(inbox[side])
        /\ inbox[side][next].error = "none"
        /\ messages # <<>>
        /\ passed' = [passed EXCEPT ![side] =
                         Append(@, encode_batch(Other(side), messages[1].type, raw))]
        /\ UNCHANGED <<todo, wire, sent, inbox>>

Next ==
    \/ Send
    \/ \E side \in Sides : Receive(side) \/ Relay(side)

Spec == Init /\ [][Next]_vars

-----------------------------------------------------------------------------
(* The records of a batch as its sender has them. *)
Records(b) == [i \in DOMAIN b.payloads |-> Payload(b.from, b.type, b.payloads[i]).value]

(* Every frame one namespace's session made, the other's session decodes, in  *)
(* the order sent, to exactly the records of the batch, each with the members *)
(* it had, as far as the wire can hold them.                                  *)
Interop ==
    \A side \in Sides : \A i \in DOMAIN inbox[side] :
        LET b == sent[side][i].batch
            from == Layouts[b.from][b.type]
            got == inbox[side][i]
        IN  /\ got.error = "none"
            /\ Len(got.value) = Len(b.payloads)
            /\ \A k \in DOMAIN got.value :
                 /\ got.value[k].type = b.type
                 /\ SeenAll(Layouts[side][b.type], got.value[k].value)
                    = SeenAll(from, SettledAll(from, Records(b)[k]))

(* Whether a record has a member whose unit is no power of two times a small  *)
(* number, but 0.1 or 0.01: such a member may lose a unit when re-encoded.    *)
(* Only items of bitmaps and their arrays have any.                           *)
Decimal(s) == s.kind = "scaled" /\ s.scale \in {Tenth, Hundredth}
RECURSIVE HasDecimal(_, _)
HasDecimal(steps, v) ==
    \E i \in DOMAIN steps :
        LET s == steps[i]
        IN  \/ Decimal(s)
            \/ s.kind = "item" /\ HasDecimal(s.class, v[i])
            \/ s.kind = "array" /\ \E k \in DOMAIN v[i] : HasDecimal(s.class, v[i][k])
            \/ s.kind = "length" /\ HasDecimal(s.steps, v[i])
            \/ /\ s.kind = "fspec"
               /\ \E k \in DOMAIN v[i] :
                     v[i][k] # <<>> /\ HasDecimal(<<s.items[k].step>>, v[i][k])

(* A gateway that decodes records, takes their bytes and frames those with    *)
(* the other session sends on the very frame it received; one of the same     *)
(* size where a record has decimal members.                                   *)
RelayedUnchanged ==
    \A side \in Sides : \A i \in DOMAIN passed[side] :
        LET b == sent[side][i].batch
            bits == sent[side][i].bits
            layout == Layouts[b.from][b.type]
        IN  /\ passed[side][i].error = "none"
            /\ IF \E k \in DOMAIN b.payloads : HasDecimal(layout, Records(b)[k])
               THEN Len(passed[side][i].bits) = Len(bits)
               ELSE passed[side][i].bits = bits
=============================================================================
