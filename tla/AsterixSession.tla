---------------------------- MODULE AsterixSession ----------------------------
(* The generated protocol sessions of the example programs, the client's in   *)
(* namespace asterix and the server's in asterix_alt, and the frame they send *)
(* records in.  The schemas of the two differ in which category 007 record    *)
(* each side may send.                                                        *)
EXTENDS Codec, SequencesExt

CONSTANT Layouts    \* of the record types, as each side's schema has them

Sides == {"client", "server"}
Other(side) == IF side = "client" THEN "server" ELSE "client"

(* The leaf types of a session, with their ID_VALUE, the category. *)
ID_VALUE == [Cat007DownlinkRecord |-> 7, Cat007UplinkRecord |-> 7,
             Cat021Record |-> 21, Cat048Record |-> 48, Cat253Record |-> 253]
leaf_type_ids == DOMAIN ID_VALUE

is_receive_only(side, type) ==
    type = IF side = "client" THEN "Cat007DownlinkRecord" ELSE "Cat007UplinkRecord"

-----------------------------------------------------------------------------
(* AsterixDataBlock: a category byte, the length of the whole block in two    *)
(* bytes, filled in last, and the records.                                    *)
HeaderBytes == 3

EncodeBlock(side, type, values) ==
    LET header == Put(Put(Writer, MsbFirst(Bits(ID_VALUE[type], 8), 8)), Zeros(16))
        end == EncodeArray(Layouts[side][type], values, header)
    IN  Patched(end, 1, 16, size_bytes(end))

(* The record type the switch picks for a category, if it knows it: for 007   *)
(* the one this side may receive.                                             *)
TypesOf(side, cat) ==
    {t \in leaf_type_ids : ID_VALUE[t] = cat /\ ~is_receive_only(Other(side), t)}

(* Records as long as a whole byte is left; got is the next. *)
RECURSIVE DecodeRecords(_, _, _)
DecodeNextRecord(class, r, done, got) ==
    IF got.error # "none" THEN got
    ELSE DecodeRecords(class, [r EXCEPT !.pos = got.pos], Append(done, got.value))
DecodeRecords(class, r, done) ==
    IF r.end - r.pos < 8 THEN Got(r.pos, done)
    ELSE DecodeNextRecord(class, r, done, DecodeAll(class, r))

(* The reader of the records holds len - 3 bytes; every block here has the    *)
(* three of its own header.                                                   *)
DecodeBody(side, bits, stop, types) ==
    LET records == [Reader(bits) EXCEPT !.pos = 8 * HeaderBytes, !.end = stop]
        type == CHOOSE t \in types : TRUE
    IN  IF stop > Len(bits) THEN Failed("BufferUnderrun")
        ELSE IF stop > 8 * HeaderBytes /\ types = {} THEN Failed("UnknownDiscriminator")
        ELSE [DecodeRecords(Layouts[side][type], records, <<>>) EXCEPT !.value =
                 [i \in DOMAIN @ |-> [type |-> type, value |-> @[i]]]]
DecodeBlock(side, bits) ==
    LET cat == Taken(Reader(bits), 0, 8)
        len == Taken(Reader(bits), 8, 16)
    IN  IF cat.error # "none" THEN cat
        ELSE IF len.error # "none" THEN len
        ELSE DecodeBody(side, bits, 8 * Number(len.value), TypesOf(side, Number(cat.value)))

-----------------------------------------------------------------------------
(* The session.  A payload is a record of the type or the bytes of one; any   *)
(* other content of the std::any is refused.                                  *)
Typed(v) == [form |-> "record", content |-> v]
Raw(bits) == [form |-> "bytes", content |-> bits]

Payload(side, type, p) ==
    CASE p.form = "record" -> Got(0, p.content)
      [] p.form = "bytes"  -> DecodeAll(Layouts[side][type], Reader(p.content))
      [] OTHER             -> Failed("InvalidArgument")

(* encode_wrap() frames one payload, encode_batch() several; the first that   *)
(* is refused decides the error.                                              *)
EncodePayloads(side, type, got) ==
    LET bad == {i \in DOMAIN got : got[i].error # "none"}
    IN  IF bad # {} THEN Refuse(Writer, got[Min(bad)].error)
        ELSE EncodeBlock(side, type, [i \in DOMAIN got |-> got[i].value])
encode_batch(side, type, payloads) ==
    IF type \notin leaf_type_ids THEN Refuse(Writer, "UnknownTypeId")
    ELSE EncodePayloads(side, type,
                        [i \in DOMAIN payloads |-> Payload(side, type, payloads[i])])
encode_wrap(side, type, payload) == encode_batch(side, type, <<payload>>)

decode_frame(side, bits) == DecodeBlock(side, bits)

(* The length of the block that starts the stream, 0 while its header is not  *)
(* there.                                                                     *)
extract_frame_length(bits) ==
    IF Len(bits) < 8 * HeaderBytes THEN 0 ELSE Number(Taken(Reader(bits), 8, 16).value)

-----------------------------------------------------------------------------
(* The values a record has once it was framed and decoded: what the receiver  *)
(* of a message is entitled to see.  Members are cut to their width, an       *)
(* extension with any member has all, identifications are in upper case       *)
(* without blanks at the end, and scaled members are whole units.             *)
RECURSIVE Settled(_, _), SettledAll(_, _), SettledMember(_, _)

Units(s, v) == Settled(s.wire, ToInt(Div(v, s.scale)))

Settled(s, v) ==
    CASE s.kind \in {"uint", "bits"} -> Low(v, s.width)
      [] s.kind \in {"signed", "signeduint"} -> SignExtended(Low(v, s.width), s.width)
      [] s.kind = "scaled" ->
            Mul(FromInt(Units(s, v), s.wire.kind \in {"signed", "signeduint"}), s.scale)
      [] s.kind = "ident"  ->
            Trimmed([i \in 1..CharCount |-> IF i <= Len(v) THEN Upper(v[i]) ELSE 32])
      [] s.kind = "item"   -> SettledAll(s.class, v)
      [] s.kind = "array"  -> [i \in DOMAIN v |-> SettledAll(s.class, v[i])]
      [] s.kind = "needing" -> Settled(s.item, v)
      [] s.kind = "choice" -> [v EXCEPT !.value = SettledAll(s.cases[v.case].class, @)]
      [] s.kind = "fspec"  -> [i \in DOMAIN v |-> IF v[i] = <<>> THEN <<>>
                                                  ELSE <<Settled(s.items[i].step, v[i][1])>>]
      [] s.kind = "length" -> SettledAll(s.steps, v)
      [] s.kind = "fx"     -> IF HasFields(s.steps, v)
                              THEN [i \in DOMAIN v |-> SettledMember(s.steps[i], v[i])]
                              ELSE NoMembers(s.steps)
      [] OTHER             -> v

SettledAll(steps, v) == [i \in DOMAIN steps |-> Settled(steps[i], v[i])]

SettledMember(s, v) ==
    IF s.kind \in {"spare", "fx"} THEN Settled(s, v)
    ELSE <<Settled(s, IF v = <<>> THEN Absent(s) ELSE v[1])>>

(* Values by what they say, whatever the layout around them: a length that is *)
(* given and one that is computed both go.                                    *)
RECURSIVE Seen(_, _)
SeenAll(steps, v) ==
    FlattenSeq([i \in DOMAIN steps |->
        CASE steps[i].kind = "fixed"  -> <<>>
          [] steps[i].kind = "length" -> Seen(steps[i], v[i])
          [] OTHER                    -> <<Seen(steps[i], v[i])>>])
Seen(s, v) ==
    CASE s.kind = "item"   -> SeenAll(s.class, v)
      [] s.kind = "length" -> SeenAll(s.steps, v)
      [] s.kind = "fspec"  -> [i \in DOMAIN v |-> IF v[i] = <<>> THEN <<>>
                                                  ELSE <<Seen(s.items[i].step, v[i][1])>>]
      [] OTHER             -> v
=============================================================================
