--------------------------------- MODULE BitIo ---------------------------------
(* io::BitWriter and io::BitReader: a message is written field by field at    *)
(* bit granularity, finished into bytes, and read back field by field.        *)
(*                                                                            *)
(* An unsigned integer is the set of its one bits (module Words).  Bit 7 of a *)
(* byte goes first on the wire.  A signed integer is                          *)
(* <<negative, magnitude>>, a decimal is the sequence of its digits, lowest   *)
(* first and without leading zeros, and a float is <<sign, exponent, mantissa *)
(* bits>>.                                                                    *)
EXTENDS Words, SequencesExt

CONSTANTS
    Fields,     \* a sequence of the fields a message may be made of
    Patches,    \* values patched over unsigned fields already written
    MaxFields   \* bound: fields of a message

VARIABLES
    data, bit_pos, error,           \* BitWriter
    rdata, byte_pos, rbit_pos,      \* BitReader: its span and its position
    reading,                        \* finish() has returned bytes, now read
    stream,                         \* history: the bits the message must have
    layout,                         \* history: fields written, and where each ends
    results                         \* history: what the reads returned

writer == <<data, bit_pos, error>>
reader == <<rdata, byte_pos, rbit_pos>>
vars == <<writer, reader, reading, stream, layout, results>>

-----------------------------------------------------------------------------
(* Arithmetic of signed integers and floats. *)

ToTwos(i) == IF i[1] THEN Negate(i[2]) ELSE i[2]
FromTwos(v) == IF WordBits - 1 \in v THEN <<TRUE, Negate(v)>> ELSE <<FALSE, v>>

(* IEEE 754 halves are truncated, never rounded; subnormals keep their bits. *)
f32_to_f16(f) ==
    LET sign == IF f[1] THEN {15} ELSE {}
        exp == f[2] - 127 + 15
    IN  CASE f[2] = 255             -> sign \cup (10..14) \cup IF f[3] = {} THEN {} ELSE {9}
          [] f[2] # 255 /\ exp >= 31 -> sign \cup (10..14)
          [] exp < -10              -> sign
          [] exp \in -10..0         -> sign \cup Shr(f[3] \cup {23}, 13 + 1 - exp)
          [] exp \in 1..30          -> sign \cup Shl(Bits(exp, 5), 10) \cup Shr(f[3], 13)

(* Mutant: the exponent of a subnormal is not corrected after the loop. *)
f16_to_f32_off_by_one(h) ==
    LET exp == Shr(Low(h, 15), 10)
        mant == Low(h, 10)
        shifts == 10 - Max(mant)
        number == CHOOSE e \in 0..31 : Bits(e, 5) = exp
    IN  CASE exp = {} /\ mant = {} -> <<15 \in h, 0, {}>>
          [] exp = {} /\ mant # {} ->
                <<15 \in h, 127 - 15 - shifts, Shl(Shl(mant, shifts) \ {10}, 13)>>
          [] exp = 0..4            -> <<15 \in h, 255, Shl(mant, 13)>>
          [] OTHER                 -> <<15 \in h, number + (127 - 15), Shl(mant, 13)>>

f16_to_f32(h) ==
    LET exp == Shr(Low(h, 15), 10)
        mant == Low(h, 10)
        shifts == 10 - Max(mant)        \* until the hidden bit is set
        number == CHOOSE e \in 0..31 : Bits(e, 5) = exp
    IN  CASE exp = {} /\ mant = {} -> <<15 \in h, 0, {}>>
          [] exp = {} /\ mant # {} ->
                <<15 \in h, 1 - shifts + (127 - 15), Shl(Shl(mant, shifts) \ {10}, 13)>>
          [] exp = 0..4            -> <<15 \in h, 255, Shl(mant, 13)>>
          [] OTHER                 ->
                <<15 \in h, number + (127 - 15), Shl(mant, 13)>>

(* A 48-bit float is a double without the 16 lowest bits of its mantissa. *)
f64_to_f48(v) == Shr(v, 16)
f48_to_f64(v) == Shl(v, 16)

-----------------------------------------------------------------------------
(* BitWriter. *)

Bytes(bits) == (bits + 7) \div 8
AlignUp(pos) == 8 * Bytes(pos)
OrInto(d, pos, byte) == [d EXCEPT ![pos \div 8 + 1] = @ \cup byte]

(* The low n bits of v from a byte boundary on: whole bytes from the top,    *)
(* then what is left, against the high end of a byte of its own.             *)
AlignedBytes(v, n) ==
    LET full == n \div 8
        rest == n % 8
    IN  [i \in 1..full |-> Low(Shr(v, (full - i) * 8 + rest), 8)]
        \o IF rest = 0 THEN <<>> ELSE <<Shl(Low(v, rest), 8 - rest)>>

(* Mutant: a slow path that does not mask the value it ors into the byte. *)
PutBitsUnmasked(v, n) ==
    LET room == 8 - (bit_pos % 8)
    IN  CASE room = 8              -> data \o AlignedBytes(v, n)
          [] room < 8 /\ n <= room -> OrInto(data, bit_pos, Low(Shl(v, room - n), 8))
          [] room < 8 /\ n > room  ->
                OrInto(data, bit_pos, Low(Shr(v, n - room), room)) \o AlignedBytes(v, n - room)

(* The buffer after write_bits(v, n).  Within a byte already begun, bits are *)
(* or-ed into the place that was zeroed when the byte was pushed.            *)
PutBits(v, n) ==
    LET room == 8 - (bit_pos % 8)
    IN  CASE room = 8              -> data \o AlignedBytes(v, n)
          [] room < 8 /\ n <= room -> OrInto(data, bit_pos, Shl(Low(v, n), room - n))
          [] room < 8 /\ n > room  ->
                OrInto(data, bit_pos, Low(Shr(v, n - room), room)) \o AlignedBytes(v, n - room)

(* The n bytes of an unsigned integer in its byte order. *)
Ordered(v, n, big) ==
    LET msb_first == [i \in 1..n |-> Low(Shr(v, (n - i) * 8), 8)]
    IN  IF big THEN msb_first ELSE Reverse(msb_first)

(* The reference the buffer is compared with: what a field contributes to    *)
(* the wire, as booleans in order of arrival.                                *)

CanWrite(kind, f) ==
    /\ ~reading /\ error = "none" /\ Len(layout) < MaxFields
    /\ f.kind = kind

set_error(code) ==
    /\ error' = code
    /\ UNCHANGED <<data, bit_pos, reader, reading, stream, layout, results>>

(* The bits ref of field f were written from position `from` on. *)
Wrote(f, from, ref) ==
    /\ bit_pos' = from + Len(ref)
    /\ stream' = stream \o Zeros(from - bit_pos) \o ref
    /\ layout' = Append(layout, [field |-> f, begin |-> from, end |-> from + Len(ref)])
    /\ UNCHANGED <<error, reader, reading, results>>

WriteBits(f, v, n, ref) ==
    IF n > WordBits
    THEN set_error("EncodingFailed")
    ELSE data' = (IF n = 0 THEN data ELSE PutBits(v, n)) /\ Wrote(f, bit_pos, ref)

write_bits(f) ==
    /\ CanWrite("bits", f) \/ CanWrite("raw_bcd", f)
    /\ WriteBits(f, f.value, f.width, MsbFirst(f.value, f.width))

write_signed_bits(f) ==
    /\ CanWrite("signed", f)
    /\ WriteBits(f, ToTwos(f.value), f.width, MsbFirst(ToTwos(f.value), f.width))

(* Digits in nibbles, the lowest digit in the lowest one; on the wire the    *)
(* highest comes first.                                                      *)
Bcd(digits) == UNION {Shl(Bits(digits[i], 4), (i - 1) * 4) : i \in DOMAIN digits}
DigitsOnWire(digits, n) ==
    [i \in 1..n |-> LET d == (n - i) \div 4 + 1
                    IN  d <= Len(digits) /\ (n - i) % 4 \in Bits(digits[d], 4)]

write_bcd(f) ==
    LET nibbles == f.width \div 4
    IN  /\ CanWrite("bcd", f)
        /\ IF f.width % 4 # 0 \/ nibbles > 16 THEN set_error("EncodingFailed")
           ELSE IF f.width # 0 /\ Len(f.value) > nibbles
           THEN set_error("EncodeConstraintViolation")
           ELSE WriteBits(f, Bcd(f.value), f.width, DigitsOnWire(f.value, f.width))

SignBit(negative, n) == IF negative THEN {n - 1} ELSE {}

write_bcd_signed(f) ==
    LET nibbles == (f.width - 1) \div 4
    IN  /\ CanWrite("bcd_signed", f)
        /\ IF f.width < 5 \/ (f.width - 1) % 4 # 0 \/ nibbles > 15
           THEN set_error("EncodingFailed")
           ELSE IF Len(f.value[2]) > nibbles THEN set_error("EncodeConstraintViolation")
           ELSE WriteBits(f, Bcd(f.value[2]) \cup SignBit(f.value[1], f.width), f.width,
                          <<f.value[1]>> \o DigitsOnWire(f.value[2], f.width - 1))

write_sign_magnitude(f) ==
    /\ CanWrite("sign_magnitude", f)
    /\ IF f.width < 2 THEN set_error("EncodingFailed")
       ELSE IF ~(f.value[2] \subseteq 0..(f.width - 2))
       THEN set_error("EncodeConstraintViolation")
       ELSE WriteBits(f, f.value[2] \cup SignBit(f.value[1], f.width), f.width,
                      <<f.value[1]>> \o MsbFirst(f.value[2], f.width - 1))

(* Whole bytes begin at the next byte boundary: the rest of a byte begun is  *)
(* zero already.                                                             *)
WriteBytes(f, bytes) == data' = data \o bytes /\ Wrote(f, AlignUp(bit_pos), Flat(bytes))

(* write_u8 to write_u64; write_f32 and write_f64 store the bits of a float  *)
(* the same way, write_f48 the upper 48 of a double's.                       *)
write_uint(f) == CanWrite("uint", f) /\ WriteBytes(f, Ordered(f.value, f.width, f.big))
write_f16(f) == CanWrite("f16", f) /\ WriteBytes(f, Ordered(f32_to_f16(f.value), 2, f.big))
write_f48(f) == CanWrite("f48", f) /\ WriteBytes(f, Ordered(f64_to_f48(f.value), 6, f.big))
write_bytes(f) == CanWrite("bytes", f) /\ WriteBytes(f, f.value)

(* Truncated or padded to exactly f.width bytes. *)
Padded(s, n) == [i \in 1..n |-> IF i <= Len(s) THEN s[i] ELSE {}]
write_string(f) == CanWrite("string", f) /\ WriteBytes(f, Padded(f.value, f.width))

NextMultiple(n, m) == IF n % m = 0 THEN n ELSE n + m - (n % m)

(* align_to() moves even a writer in error to the byte boundary, but only a  *)
(* writer without one is padded further.                                     *)
align_to(f) ==
    LET here == Bytes(bit_pos)
        there == IF error = "none" THEN NextMultiple(here, f.width) ELSE here
    IN  /\ ~reading /\ Len(layout) < MaxFields /\ f.kind = "align_to"
        /\ data' = data \o [i \in 1..(there - here) |-> {}]
        /\ Wrote([f EXCEPT !.width = IF error = "none" THEN @ ELSE 1], 8 * there, <<>>)

PatchFits(off, n) == off + n <= Len(data)

(* patch_u8/u16/u32 of a field written earlier, or beyond the end.  The      *)
(* caller must be byte-aligned (bit_writer.hpp).                             *)
patch_uint(n, v, big) ==
    /\ ~reading /\ error = "none" /\ bit_pos % 8 = 0
    /\ \/ \E off \in {k \in {Len(data) - n + 1} : k >= 0} :
            ~PatchFits(off, n) /\ set_error("BufferOverrun")
       \/ \E i \in DOMAIN layout :
            LET off == layout[i].begin \div 8
                f == [kind |-> "uint", value |-> v, width |-> n, big |-> big]
                put == Ordered(v, n, big)
            IN  /\ layout[i].field.kind = "uint" /\ layout[i].field.width = n
                /\ PatchFits(off, n)
                /\ data' = [k \in DOMAIN data |-> IF k \in (off + 1)..(off + n) THEN put[k - off] ELSE data[k]]
                /\ layout' = [layout EXCEPT ![i].field = f]
                /\ stream' = [k \in DOMAIN stream |->
                                IF k \in (8 * off + 1)..(8 * (off + n))
                                THEN Flat(put)[k - 8 * off] ELSE stream[k]]
                /\ UNCHANGED <<bit_pos, error, reader, reading, results>>

ClearWriter == data' = <<>> /\ bit_pos' = 0 /\ error' = "none" /\ stream' = <<>>

(* finish() reports the first error and forgets the message, or hands over   *)
(* the bytes.  Whoever reads them may have got all, or lost the last one.    *)
finish ==
    /\ ~reading /\ ClearWriter
    /\ \/ error # "none" /\ layout' = <<>> /\ UNCHANGED <<reader, reading, results>>
       \/ /\ error = "none" /\ reading' = TRUE
          /\ \E got \in {Len(data) - 1, Len(data)} : rdata' = SubSeq(data, 1, got)
          /\ byte_pos' = 0 /\ rbit_pos' = 0
          /\ UNCHANGED <<layout, results>>

clear_error ==
    /\ ~reading /\ error # "none" /\ error' = "none"
    /\ UNCHANGED <<data, bit_pos, reader, reading, stream, layout, results>>

(* clear() of the writer; what was being read is dropped with its reader. *)
clear ==
    /\ ClearWriter
    /\ rdata' = <<>> /\ byte_pos' = 0 /\ rbit_pos' = 0
    /\ reading' = FALSE /\ layout' = <<>> /\ results' = <<>>

-----------------------------------------------------------------------------
(* BitReader.  A decoder reads the fields in the order they were written and *)
(* stops at the first error.                                                 *)

remaining_bits ==
    IF byte_pos >= Len(rdata) THEN 0 ELSE (Len(rdata) - byte_pos) * 8 - rbit_pos

bit_position == byte_pos * 8 + rbit_pos

(* The loop of read_bits, at most a byte at a time: rem bits are to come. *)
Taken(n) ==
    LET take[rem \in 0..n] ==
            IF rem = 0 THEN {}
            ELSE LET at == bit_position + n - rem
                     room == 8 - (at % 8)
                     k == Min({rem, room})
                 IN  Shl(Low(Shr(rdata[at \div 8 + 1], room - k), k), rem - k) \cup take[rem - k]
    IN  take[n]

MoveTo(byte, bit) == byte_pos' = byte /\ rbit_pos' = bit /\ UNCHANGED rdata
advance(bits) == MoveTo(byte_pos + (rbit_pos + bits) \div 8, (rbit_pos + bits) % 8)

Return(r) == results' = Append(results, r) /\ UNCHANGED <<writer, reading, stream, layout>>
Failed == <<"failed">>
Skipped == <<"skipped">>

NextField == layout[Len(results) + 1].field
CanRead(kind) ==
    /\ reading /\ Len(results) < Len(layout)
    /\ results # <<>> => Last(results) # Failed
    /\ NextField.kind = kind

(* The result of a read of n bits; its callers make it of the bits Taken(n). *)
ReadBits(n, result) ==
    IF n = 0 THEN Return(result) /\ UNCHANGED reader
    ELSE IF n > WordBits \/ remaining_bits < n THEN Return(Failed) /\ UNCHANGED reader
    ELSE Return(result) /\ advance(n)

read_bits ==
    /\ CanRead("bits")
    /\ ReadBits(NextField.width, <<"value", Taken(NextField.width)>>)

read_signed_bits ==
    LET n == NextField.width
    IN  /\ CanRead("signed")
        /\ ReadBits(n, <<"value", FromTwos(SignExtended(Taken(n), n))>>)

Digit(raw, i) == CHOOSE d \in 0..15 : Bits(d, 4) = Low(Shr(raw, i * 4), 4)
Decimal(raw, nibbles) ==
    LET top == Max({0} \cup {i \in 1..nibbles : Digit(raw, i - 1) # 0})
    IN  [i \in 1..top |-> Digit(raw, i - 1)]
AllDecimal(raw, nibbles) == \A i \in 1..nibbles : Digit(raw, i - 1) <= 9

read_bcd ==
    LET n == NextField.width
        raw == Taken(n)
    IN  /\ CanRead("bcd") \/ CanRead("raw_bcd")
        /\ ReadBits(n, IF AllDecimal(raw, n \div 4)
                       THEN <<"value", Decimal(raw, n \div 4)>> ELSE Failed)

read_bcd_signed ==
    LET n == NextField.width
        raw == Low(Taken(n), n - 1)
        d == Decimal(raw, (n - 1) \div 4)
    IN  /\ CanRead("bcd_signed")
        /\ ReadBits(n, IF AllDecimal(raw, (n - 1) \div 4)
                       THEN <<"value", <<n - 1 \in Taken(n) /\ d # <<>>, d>>>> ELSE Failed)

read_sign_magnitude ==
    LET n == NextField.width
        mag == Low(Taken(n), n - 1)
    IN  /\ CanRead("sign_magnitude")
        /\ ReadBits(n, <<"value", <<n - 1 \in Taken(n) /\ mag # {}, mag>>>>)

(* Whole bytes: the reader is aligned even when the read then fails. *)
align_to_byte == byte_pos + (IF rbit_pos > 0 THEN 1 ELSE 0)
Ahead(n) == SubSeq(rdata, align_to_byte + 1, align_to_byte + n)

ReadBytes(n, value) ==
    IF align_to_byte + n > Len(rdata)
    THEN Return(Failed) /\ MoveTo(align_to_byte, 0)
    ELSE Return(<<"value", value>>) /\ MoveTo(align_to_byte + n, 0)

(* An unsigned integer from its bytes in their order. *)
Assembled(bytes, big) ==
    LET msb_first == IF big THEN bytes ELSE Reverse(bytes)
    IN  UNION {Shl(msb_first[i], 8 * (Len(bytes) - i)) : i \in DOMAIN bytes}
UIntAhead(n) == Assembled(Ahead(n), NextField.big)

read_uint == CanRead("uint") /\ ReadBytes(NextField.width, UIntAhead(NextField.width))
read_f16 == CanRead("f16") /\ ReadBytes(2, f16_to_f32(UIntAhead(2)))
read_f48 == CanRead("f48") /\ ReadBytes(6, f48_to_f64(UIntAhead(6)))

(* read_bytes, and sub_reader, which moves on just as far. *)
read_bytes == CanRead("bytes") /\ ReadBytes(Len(NextField.value), Ahead(Len(NextField.value)))
read_string == CanRead("string") /\ ReadBytes(NextField.width, Ahead(NextField.width))

skip_bits ==
    /\ CanRead("bits")
    /\ IF NextField.width > remaining_bits
       THEN Return(Failed) /\ UNCHANGED reader
       ELSE Return(Skipped) /\ advance(NextField.width)

reader_align_to ==
    /\ CanRead("align_to")
    /\ MoveTo(Min({NextMultiple(align_to_byte, NextField.width), Len(rdata)}), 0)
    /\ Return(Skipped)

reset ==
    /\ reading /\ results # <<>>
    /\ results' = <<>> /\ MoveTo(0, 0)
    /\ UNCHANGED <<writer, reading, stream, layout>>

-----------------------------------------------------------------------------
Init ==
    /\ data = <<>> /\ bit_pos = 0 /\ error = "none"
    /\ rdata = <<>> /\ byte_pos = 0 /\ rbit_pos = 0
    /\ reading = FALSE /\ stream = <<>> /\ layout = <<>> /\ results = <<>>

WriteField(f) ==
    \/ write_bits(f) \/ write_signed_bits(f) \/ write_bcd(f) \/ write_bcd_signed(f)
    \/ write_sign_magnitude(f) \/ write_uint(f) \/ write_f16(f) \/ write_f48(f)
    \/ write_bytes(f) \/ write_string(f) \/ align_to(f)

ReadField ==
    \/ read_bits \/ read_signed_bits \/ read_bcd \/ read_bcd_signed
    \/ read_sign_magnitude \/ read_uint \/ read_f16 \/ read_f48
    \/ read_bytes \/ read_string \/ skip_bits \/ reader_align_to

Next ==
    \/ \E i \in DOMAIN Fields : WriteField(Fields[i])
    \/ \E n \in {1, 2, 4}, v \in Patches, big \in BOOLEAN : patch_uint(n, v, big)
    \/ finish \/ clear_error \/ clear
    \/ ReadField \/ reset

Spec == Init /\ [][Next]_vars
-----------------------------------------------------------------------------
(* Properties. *)

(* The buffer is the message: bit_pos_ bits, those of the fields written so  *)
(* far in order and padded where a field asks for a byte boundary, in as     *)
(* many bytes as they need, and zero after the last bit, where write_bits    *)
(* will or in the next field (bit_writer.cpp:67, 315).                       *)
StreamIntact ==
    ~reading =>
        /\ Len(data) = Bytes(bit_pos) /\ Len(stream) = bit_pos
        /\ Flat(data) = stream \o Zeros(8 * Len(data) - bit_pos)

(* A signed integer that n bits of two's complement can hold. *)
Fits(i, n) == i[2] \subseteq 0..(n - 2) \/ (i[1] /\ i[2] = {n - 1})

Matches(f, r) ==
    CASE f.kind = "bits"     -> r = Skipped \/ r = <<"value", Low(f.value, f.width)>>
      [] f.kind = "signed"   -> r[1] = "value" /\ (Fits(f.value, f.width) => r[2] = f.value)
      [] f.kind = "raw_bcd"  -> IF AllDecimal(f.value, f.width \div 4)
                                THEN Bcd(r[2]) = Low(f.value, f.width) ELSE r = Failed
      [] f.kind = "bcd"      -> r = <<"value", IF f.width = 0 THEN <<>> ELSE f.value>>
      [] f.kind = "uint"     -> r = <<"value", Low(f.value, 8 * f.width)>>
      [] f.kind = "f48"      -> r = <<"value", f.value \ 0..15>>
      [] f.kind = "string"   -> r = <<"value", Padded(f.value, f.width)>>
      [] f.kind = "align_to" -> r = Skipped
      [] OTHER               -> r = <<"value", f.value>>

(* What was written is what is read, whatever mixture of bit fields, bytes,  *)
(* byte orders, decimals, floats and alignments came before it: a read       *)
(* returns the value written if the bytes received hold all of the field,    *)
(* and fails if they do not; the reader is then where the writer was.        *)
ReadsBack ==
    /\ \A i \in DOMAIN results :
         LET w == layout[i]
         IN  IF w.end <= 8 * Len(rdata) \/ w.begin = w.end
             THEN Matches(w.field, results[i]) ELSE results[i] = Failed
    /\ results # <<>> /\ Last(results) # Failed =>
         bit_position = Min({layout[Len(results)].end, 8 * Len(rdata)})
=============================================================================
