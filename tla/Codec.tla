--------------------------------- MODULE Codec ---------------------------------
(* The encode() and decode() functions of generated message classes.  bgen    *)
(* emits them from a few patterns; a class is modelled by its layout, the     *)
(* sequence of the steps both functions take, and the patterns by what the    *)
(* emitted statements do for a step.                                          *)
(*                                                                            *)
(* A value of a class is the sequence of its members, one per step of the     *)
(* layout.  An integer member is a word, a signed one in two's complement; an *)
(* enum is its number; a scaled member is a double; bytes are sequences of    *)
(* subsets of 0..7; an optional member is a sequence of at most one value.    *)
(* Counts and lengths that the encoder computes itself are no members.        *)
EXTENDS Doubles

(* Steps with a member each.  Uint is written by write_u8 to write_u32, at a  *)
(* byte boundary; SignedUint is written as bits and read as whole bytes.      *)
Uint(name, n) == [kind |-> "uint", name |-> name, width |-> n]
Field(name, n) == [kind |-> "bits", name |-> name, width |-> n]
Signed(name, n) == [kind |-> "signed", name |-> name, width |-> n]
SignedUint(name, n) == [kind |-> "signeduint", name |-> name, width |-> n]
Fixed(name, n, k) == [kind |-> "fixed", name |-> name, width |-> n, equals |-> k]
Code(name, type) ==
    [kind |-> "enum", name |-> name, width |-> type.bits, known |-> type.known]
Scaled(wire, scale) ==
    [kind |-> "scaled", name |-> wire.name, wire |-> wire, scale |-> scale]
Ident(name) == [kind |-> "ident", name |-> name]
Item(name, class) == [kind |-> "item", name |-> name, class |-> class]
Array(name, class) == [kind |-> "array", name |-> name, class |-> class]
Bytes(name, n) == [kind |-> "bytes", name |-> name, width |-> n]
Rest(name) == [kind |-> "rest", name |-> name]

(* Steps without a member, or with several. *)
Spare(n) == [kind |-> "spare", name |-> "", width |-> n]
Fx(steps) == [kind |-> "fx", name |-> "", steps |-> steps]
Fspec(octets, items) ==
    [kind |-> "fspec", name |-> "", octets |-> octets, fx |-> TRUE, items |-> items]
Bitmap(octets, items) == [Fspec(octets, items) EXCEPT !.fx = FALSE]
Length(steps) == [kind |-> "length", name |-> "", steps |-> steps]

(* A member whose decoder needs an earlier member of the same class, and one  *)
(* whose alternative the decoder picks by the k-th member of what it was      *)
(* given: the first whose label matches, else the last.                       *)
Needing(item, other) ==
    [kind |-> "needing", name |-> item.name, item |-> item, other |-> other]
Choice(name, k, cases) ==
    [kind |-> "choice", name |-> name, index |-> k, cases |-> cases]

(* An item of a bitmap and the place of its presence bit. *)
At(octet, bit, step) == [octet |-> octet, bit |-> bit, step |-> step]

Codes(n, known) == [bits |-> n, known |-> known]

-----------------------------------------------------------------------------
(* Encoding appends to what the writer holds: its bits so far, or the first   *)
(* error, after which nothing more is written.                                *)

NextByte(pos) == 8 * ((pos + 7) \div 8)

Writer == [bits |-> <<>>, error |-> "none"]
Put(w, bits) == [w EXCEPT !.bits = @ \o bits]
Aligned(w) == Put(w, Zeros(NextByte(Len(w.bits)) - Len(w.bits)))
Refuse(w, code) == [w EXCEPT !.error = code]
size_bytes(w) == (Len(w.bits) + 7) \div 8

(* Six bits of each of eight characters, upper case, blanks to the right. *)
CharCount == 8
Upper(ch) == IF ch \in 97..122 THEN ch - 32 ELSE ch
SixBits(s) ==
    [i \in 1..(6 * CharCount) |->
        LET k == (i - 1) \div 6 + 1
            ch == IF k <= Len(s) THEN Upper(s[k]) ELSE 32
        IN  5 - ((i - 1) % 6) \in Bits(ch, 8)]

(* Mutant: the continuation bit only where the next octet has an item. *)
FspecOctetsGap(s, v) ==
    LET present == {i \in DOMAIN s.items : v[i] # <<>>}
        last == Max({0} \cup {s.items[i].octet : i \in present})
        count == IF s.fx THEN last + 1 ELSE s.octets
    IN  [k \in 1..count |->
            {s.items[i].bit : i \in {j \in present : s.items[j].octet = k - 1}}
            \cup IF s.fx /\ \E i \in present : s.items[i].octet = k THEN {0} ELSE {}]

(* The octets up to the last with an item; each but the last says that        *)
(* another follows.                                                           *)
FspecOctets(s, v) ==
    LET present == {i \in DOMAIN s.items : v[i] # <<>>}
        last == Max({0} \cup {s.items[i].octet : i \in present})
        count == IF s.fx THEN last + 1 ELSE s.octets
    IN  [k \in 1..count |->
            {s.items[i].bit : i \in {j \in present : s.items[j].octet = k - 1}}
            \cup IF s.fx /\ k < count THEN {0} ELSE {}]

(* Whether any member of an extension, or of a later one, is there. *)
RECURSIVE HasFields(_, _)
HasFields(steps, v) ==
    \E i \in DOMAIN steps :
        CASE steps[i].kind = "spare" -> FALSE
          [] steps[i].kind = "fx"    -> HasFields(steps[i].steps, v[i])
          [] OTHER                   -> v[i] # <<>>

(* What value_or() puts in the place of a missing member of an extension. *)
Absent(s) == IF s.kind = "enum" THEN 0 ELSE IF s.kind = "scaled" THEN Zero ELSE {}

RECURSIVE Encode(_, _, _), EncodeSteps(_, _, _, _, _), EncodeItems(_, _, _, _, _)

(* The n members from the i-th on, and all members; an error ends it. *)
EncodeSteps(steps, v, w, i, n) ==
    IF n = 0 \/ w.error # "none" THEN w
    ELSE IF n = 1 THEN Encode(steps[i], v[i], w)
    ELSE EncodeSteps(steps, v, EncodeSteps(steps, v, w, i, n \div 2),
                     i + n \div 2, n - n \div 2)
EncodeAll(steps, v, w) == EncodeSteps(steps, v, w, 1, Len(steps))

(* The n items from the i-th on. *)
EncodeItems(items, v, w, i, n) ==
    IF n = 0 \/ w.error # "none" THEN w
    ELSE IF n = 1 THEN IF v[i] = <<>> THEN w ELSE Encode(items[i].step, v[i][1], w)
    ELSE EncodeItems(items, v, EncodeItems(items, v, w, i, n \div 2),
                     i + n \div 2, n - n \div 2)

(* The elements of an array are members one after another. *)
Elements(class, n) == [i \in 1..n |-> Item("", class)]
EncodeArray(class, v, w) == EncodeAll(Elements(class, Len(v)), v, w)

(* The members of an extension; a spare bit closes the last one.  A later     *)
(* extension writes its own continuation bit.                                 *)
IsMember(s) == s.kind \notin {"spare", "fx"}
EncodeFx(steps, v, w) ==
    EncodeAll(steps, [i \in DOMAIN v |-> IF ~IsMember(steps[i]) THEN v[i]
                                         ELSE IF v[i] = <<>> THEN Absent(steps[i])
                                         ELSE v[i][1]], w)

(* patch_u8, patch_u16: n bits at a byte offset, the value cast to n bits. *)
Patched(w, at, n, k) ==
    LET new == MsbFirst(Bits(k % 2^n, n), n)
    IN  IF w.error # "none" THEN w
        ELSE [w EXCEPT !.bits = [i \in DOMAIN @ |->
                 IF i \in (8 * at + 1)..(8 * at + n) THEN new[i - 8 * at] ELSE @[i]]]

(* A length byte of its own counts itself and all that follows it. *)
EncodeLength(steps, v, w) ==
    LET end == EncodeAll(steps, v, Put(Aligned(w), Zeros(8)))
    IN  Patched(end, size_bytes(w), 8, size_bytes(end) - size_bytes(w))

Encode(s, v, w) ==
    CASE s.kind = "uint"    -> Put(Aligned(w), MsbFirst(v, s.width))
      [] s.kind \in {"bits", "signed", "signeduint"} -> Put(w, MsbFirst(v, s.width))
      [] s.kind = "spare"   -> Put(w, Zeros(s.width))
      [] s.kind = "fixed"   -> IF v = Bits(s.equals, s.width)
                               THEN Put(Aligned(w), MsbFirst(v, s.width))
                               ELSE Refuse(w, "EncodeConstraintViolation")
      [] s.kind = "enum"    -> IF v \in s.known THEN Put(w, MsbFirst(Bits(v, s.width), s.width))
                               ELSE Refuse(w, "EncodeConstraintViolation")
      [] s.kind = "scaled"  -> Encode(s.wire, ToInt(Div(v, s.scale)), w)
      [] s.kind = "ident"   -> Put(w, SixBits(v))
      [] s.kind = "item"    -> EncodeAll(s.class, v, w)
      [] s.kind = "needing" -> Encode(s.item, v, w)
      [] s.kind = "choice"  -> EncodeAll(s.cases[v.case].class, v.value, w)
      [] s.kind \in {"bytes", "rest"} -> Put(Aligned(w), Flat(v))
      [] s.kind = "array"   ->
            EncodeArray(s.class, v, Put(Aligned(w), MsbFirst(Bits(Len(v) % 256, 8), 8)))
      [] s.kind = "length"  -> EncodeLength(s.steps, v, w)
      [] s.kind = "fspec"   ->
            EncodeItems(s.items, v, Put(Aligned(w), Flat(FspecOctets(s, v))), 1, Len(s.items))
      [] s.kind = "fx"      -> IF HasFields(s.steps, v)
                               THEN EncodeFx(s.steps, v, Put(w, <<TRUE>>))
                               ELSE Put(w, <<FALSE>>)

-----------------------------------------------------------------------------
(* Decoding from a reader: bits from pos up to end, and what the function was *)
(* given, the length byte of the class around it or an earlier member.        *)

Reader(bits) == [bits |-> bits, pos |-> 0, end |-> Len(bits), len |-> 0, given |-> <<>>]
Got(pos, v) == [error |-> "none", pos |-> pos, value |-> v]
Failed(code) == [error |-> code, pos |-> 0, value |-> <<>>]

Taken(r, pos, n) ==
    IF pos + n > r.end THEN Failed("BufferUnderrun")
    ELSE Got(pos + n, FromBits(SubSeq(r.bits, pos + 1, pos + n)))
read_bits(r, n) == Taken(r, r.pos, n)
read_uint(r, n) == Taken(r, NextByte(r.pos), n)

SignedResult(got, n) == [got EXCEPT !.value = SignExtended(@, n)]

read_bytes(r, n) ==
    LET from == NextByte(r.pos)
    IN  IF from + 8 * n > r.end THEN Failed("BufferUnderrun")
        ELSE Got(from + 8 * n,
                 [i \in 1..n |-> FromBits(SubSeq(r.bits, from + 8 * i - 7, from + 8 * i))])

(* Characters below 32 stand for those above 64; trailing blanks go. *)
Character(raw) == IF raw # 0 /\ raw < 32 THEN raw + 64 ELSE raw
(* Mutant: the last character is not looked at. *)
TrimmedShort(s) == SubSeq(s, 1, Max({0} \cup {i \in 1..(Len(s) - 1) : s[i] # 32}))
Trimmed(s) == SubSeq(s, 1, Max({0} \cup {i \in DOMAIN s : s[i] # 32}))
DecodeIdent(r) ==
    IF r.pos + 6 * CharCount > r.end THEN Failed("BufferUnderrun")
    ELSE Got(r.pos + 6 * CharCount,
             Trimmed([i \in 1..CharCount |->
                LET raw == SubSeq(r.bits, r.pos + 6 * i - 5, r.pos + 6 * i)
                IN  Character(Number(FromBits(raw)))]))

(* Octets until one says it is the last; those beyond the class's own are     *)
(* read and dropped.                                                          *)
RECURSIVE FspecRead(_, _, _, _)
FspecRead(s, r, octets, byte) ==
    IF byte.error # "none" THEN byte
    ELSE IF (IF s.fx THEN 0 \in byte.value ELSE Len(octets) + 1 < s.octets)
    THEN FspecRead(s, r, Append(octets, byte.value),
                   read_uint([r EXCEPT !.pos = byte.pos], 8))
    ELSE Got(byte.pos, Append(octets, byte.value))

IsPresent(octets, item) ==
    item.octet < Len(octets) /\ item.bit \in octets[item.octet + 1]

RECURSIVE Decode(_, _), DecodeSteps(_, _, _, _), DecodeItems(_, _, _, _, _)

(* The next n members, after those already done, and all members. *)
DecodeNext(steps, r, done) ==
    [Decode(steps[Len(done) + 1], r) EXCEPT !.value = Append(done, @)]
DecodeMore(steps, r, got, n) ==
    IF got.error # "none" THEN got
    ELSE DecodeSteps(steps, [r EXCEPT !.pos = got.pos], got.value, n)
DecodeSteps(steps, r, done, n) ==
    IF n = 0 THEN Got(r.pos, done)
    ELSE IF n = 1 THEN DecodeNext(steps, r, done)
    ELSE DecodeMore(steps, r, DecodeSteps(steps, r, done, n \div 2), n - n \div 2)
DecodeAll(steps, r) == DecodeSteps(steps, r, <<>>, Len(steps))

(* An item that needs another is refused without it, and is given it. *)
DecodeItem(step, r, done) ==
    IF step.kind # "needing" THEN Decode(step, r)
    ELSE IF done[step.other] = <<>> THEN Failed("InvalidArgument")
    ELSE Decode(step.item, [r EXCEPT !.given = done[step.other][1]])

(* The next n items, after those already done. *)
DecodeNextItem(s, octets, r, done) ==
    LET item == s.items[Len(done) + 1]
    IN  IF IsPresent(octets, item)
        THEN [DecodeItem(item.step, r, done) EXCEPT !.value = Append(done, <<@>>)]
        ELSE Got(r.pos, Append(done, <<>>))
DecodeMoreItems(s, octets, r, got, n) ==
    IF got.error # "none" THEN got
    ELSE DecodeItems(s, octets, [r EXCEPT !.pos = got.pos], got.value, n)
DecodeItems(s, octets, r, done, n) ==
    IF n = 0 THEN Got(r.pos, done)
    ELSE IF n = 1 THEN DecodeNextItem(s, octets, r, done)
    ELSE DecodeMoreItems(s, octets, r, DecodeItems(s, octets, r, done, n \div 2),
                         n - n \div 2)

DecodePresent(s, r, fspec) ==
    IF fspec.error # "none" THEN fspec
    ELSE DecodeItems(s, fspec.value, [r EXCEPT !.pos = fspec.pos], <<>>, Len(s.items))
DecodeFspec(s, r) == DecodePresent(s, r, FspecRead(s, r, <<>>, read_uint(r, 8)))

DecodeArray(class, r, rep) ==
    IF rep.error # "none" THEN rep
    ELSE DecodeAll(Elements(class, Number(rep.value)), [r EXCEPT !.pos = rep.pos])
DecodeCounted(class, r) == DecodeArray(class, r, read_uint(r, 8))

(* The members of an extension are all there or all missing. *)
RECURSIVE NoMembers(_)
NoMembers(steps) ==
    [i \in DOMAIN steps |-> IF steps[i].kind = "fx" THEN NoMembers(steps[i].steps) ELSE <<>>]
DecodeFx(steps, r, fx_bit) ==
    IF fx_bit.error # "none" THEN fx_bit
    ELSE IF fx_bit.value = {} THEN Got(fx_bit.pos, NoMembers(steps))
    ELSE [DecodeAll(steps, [r EXCEPT !.pos = fx_bit.pos]) EXCEPT !.value =
             [i \in DOMAIN @ |-> IF IsMember(steps[i]) THEN <<@[i]>> ELSE @[i]]]
DecodeExtension(steps, r) == DecodeFx(steps, r, read_bits(r, 1))

(* A reader of the bytes the length leaves; when the length cannot be right,  *)
(* because it is too small or they are not there, the reader around it.       *)
DecodeWithin(steps, r, len, total) ==
    LET consumed == (len.pos - NextByte(r.pos)) \div 8
        stop == len.pos + 8 * (total - consumed)
        fallback == total < consumed \/ stop > r.end
        got == DecodeAll(steps, [r EXCEPT !.pos = len.pos, !.len = total,
                                          !.end = IF fallback THEN @ ELSE stop])
    IN  IF len.error # "none" THEN len
        ELSE IF got.error # "none" \/ fallback THEN got ELSE [got EXCEPT !.pos = stop]
LengthRead(steps, r, len) == DecodeWithin(steps, r, len, Number(len.value))
DecodeLength(steps, r) == LengthRead(steps, r, read_uint(r, 8))

(* len - 1 bytes, in size_t: a length of 0 makes it all that is left, and the *)
(* position wraps one byte back.                                              *)
DecodeRest(r) ==
    LET left == (r.end - r.pos) \div 8
        got == read_bytes(r, left)
    IN  IF r.len > 0 THEN read_bytes(r, r.len - 1) ELSE [got EXCEPT !.pos = r.pos - 8]

DecodeChoice(s, r) ==
    LET label == Number(r.given[s.index])
        hits == {k \in DOMAIN s.cases : s.cases[k].label = label}
        k == IF hits = {} THEN Len(s.cases) ELSE Min(hits)
        got == DecodeAll(s.cases[k].class, r)
    IN  [got EXCEPT !.value = [case |-> k, value |-> @]]

DecodeFixed(s, r) ==
    LET got == read_uint(r, s.width)
    IN  IF got.error = "none" /\ got.value # Bits(s.equals, s.width)
        THEN Failed("ConstraintViolation") ELSE got

DecodeEnum(s, r) ==
    LET got == read_bits(r, s.width)
    IN  IF got.error # "none" THEN got
        ELSE IF Number(got.value) \in s.known THEN [got EXCEPT !.value = Number(@)]
        ELSE Failed("UnknownEnumValue")

DecodeScaled(s, r) ==
    LET raw == Decode(s.wire, r)
    IN  IF raw.error # "none" THEN raw
        ELSE [raw EXCEPT !.value =
                 Mul(FromInt(@, s.wire.kind \in {"signed", "signeduint"}), s.scale)]

Decode(s, r) ==
    CASE s.kind = "uint"    -> read_uint(r, s.width)
      [] s.kind = "bits"    -> read_bits(r, s.width)
      [] s.kind = "signed"     -> SignedResult(read_bits(r, s.width), s.width)
      [] s.kind = "signeduint" -> SignedResult(read_uint(r, s.width), s.width)
      [] s.kind = "spare"   -> [read_bits(r, s.width) EXCEPT !.value = <<>>]
      [] s.kind = "fixed"   -> DecodeFixed(s, r)
      [] s.kind = "enum"    -> DecodeEnum(s, r)
      [] s.kind = "scaled"  -> DecodeScaled(s, r)
      [] s.kind = "ident"   -> DecodeIdent(r)
      [] s.kind = "item"    -> DecodeAll(s.class, r)
      [] s.kind = "choice"  -> DecodeChoice(s, r)
      [] s.kind = "bytes"   -> read_bytes(r, s.width)
      [] s.kind = "rest"    -> DecodeRest(r)
      [] s.kind = "array"   -> DecodeCounted(s.class, r)
      [] s.kind = "length"  -> DecodeLength(s.steps, r)
      [] s.kind = "fspec"   -> DecodeFspec(s, r)
      [] s.kind = "fx"      -> DecodeExtension(s.steps, r)
=============================================================================
