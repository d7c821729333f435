---------------------------- MODULE AsterixSamples ----------------------------
(* Messages for the link of two generated sessions: for every record type one *)
(* with no item, with each item alone, with each pair of neighbours, and with *)
(* all items; the members of an item follow one of four patterns, which take  *)
(* a member to its ends and past its width, an array to 0 to 3 elements, an   *)
(* extension from none to all members, and a field with a length byte to the  *)
(* most that byte can count.                                                  *)
EXTENDS AsterixSession

Patterns == 0..3

Wide(n) == n \notin {8, 16, 32, 64}
Word(n, p) ==
    CASE p = 0 -> {}
      [] p = 1 -> 0..(n - 1)
      [] p = 2 -> {b \in 0..(n - 1) : b % 2 = 0}
      [] p = 3 -> {0, n - 1} \cup IF Wide(n) THEN {n} ELSE {}

Identification(p) ==
    CASE p = 0 -> <<>>
      [] p = 1 -> <<65, 66, 67, 68, 69, 70, 71, 90>>
      [] p = 2 -> <<97, 32, 122, 48, 57>>
      [] p = 3 -> <<65, 49, 32, 32, 32, 32, 32, 32, 66>>

(* Whole units, or for the last pattern four and a half of them. *)
IsSigned(w) == w.kind \in {"signed", "signeduint"}
Measure(s, p) ==
    IF p = 3 THEN Mul(Exact(IsSigned(s.wire), {0, 3}, -1), s.scale)
    ELSE LET w == Word(s.wire.width, p)
         IN  Mul(FromInt(IF IsSigned(s.wire) THEN SignExtended(w, s.wire.width) ELSE w,
                         IsSigned(s.wire)), s.scale)

Octets(n, p) == [i \in 1..n |-> Word(8, (p + i) % 4)]
RestLength(p) == <<0, 1, 5, 254>>[p + 1]

(* The members of an extension that are there. *)
Chosen(n, p) ==
    CASE p = 0 -> {} [] p = 1 -> 1..n [] p = 2 -> {n} [] p = 3 -> {i \in 1..n : i % 2 = 1}

RECURSIVE Sample(_, _), SampleAll(_, _), SampleFx(_, _), SampleItems(_, _, _)
Sample(s, p) ==
    CASE s.kind \in {"uint", "bits"} -> Word(s.width, p)
      [] s.kind \in {"signed", "signeduint"} ->
            SignExtended(Low(Word(s.width, p), s.width), s.width)
      [] s.kind = "fixed"   -> Bits(s.equals, s.width)
      [] s.kind = "enum"    -> IF p % 2 = 0 THEN Min(s.known) ELSE Max(s.known)
      [] s.kind = "scaled"  -> Measure(s, p)
      [] s.kind = "ident"   -> Identification(p)
      [] s.kind = "item"    -> SampleAll(s.class, p)
      [] s.kind = "array"   -> [i \in 1..p |-> SampleAll(s.class, (p + i) % 4)]
      [] s.kind = "bytes"   -> Octets(s.width, p)
      [] s.kind = "rest"    -> Octets(RestLength(p), p)
      [] s.kind = "needing" -> Sample(s.item, p)
      [] s.kind = "choice"  -> [case |-> p + 1, value |-> SampleAll(s.cases[p + 1].class, p)]
      [] s.kind = "length"  -> SampleAll(s.steps, p)
      [] s.kind = "fspec"   -> SampleItems(s.items, Chosen(Len(s.items), p), p)
      [] s.kind = "fx"      -> SampleFx(s.steps, p)
      [] OTHER              -> <<>>
SampleAll(steps, p) == [i \in DOMAIN steps |-> Sample(steps[i], p)]

SampleFx(steps, p) ==
    [i \in DOMAIN steps |->
        CASE steps[i].kind = "spare" -> <<>>
          [] steps[i].kind = "fx" -> SampleFx(steps[i].steps, p)
          [] OTHER -> IF i \in Chosen(Len(steps), p) THEN <<Sample(steps[i], p)>> ELSE <<>>]

(* The items chosen, and with one that needs another that other too, telling  *)
(* which alternative follows.                                                 *)
OtherwiseLabel == 7
SampleItems(items, chosen, p) ==
    LET needing == {i \in chosen : items[i].step.kind = "needing"}
        label == <<5, 6, 35, OtherwiseLabel>>[p + 1]
        startIndex == 1
    IN  [i \in DOMAIN items |->
            IF \E j \in needing : items[j].step.other = i
            THEN <<[Sample(items[i].step, p) EXCEPT ![startIndex] = Bits(label, 16)]>>
            ELSE IF i \in chosen THEN <<Sample(items[i].step, p)>> ELSE <<>>]

Items(side, type) == Layouts[side][type][1].class[1].items
Record(side, type, chosen, p) == <<<<SampleItems(Items(side, type), chosen, p)>>>>
Batch(side, type, records) ==
    [from |-> side, type |-> type, payloads |-> [i \in DOMAIN records |-> Typed(records[i])]]

Sendable(side) == {t \in leaf_type_ids : ~is_receive_only(side, t)}

(* One record in one frame. *)
ItemSets(n) ==
    {<<{i}, p>> : i \in 1..n, p \in Patterns}
    \cup {<<{i, i + 1}, 2>> : i \in 1..(n - 1)}
    \cup {<<{}, 0>>, <<1..n, 1>>, <<{i \in 1..n : i % 2 = 0}, 3>>}
Singles(side, type) ==
    {<<Batch(side, type, <<Record(side, type, c[1], c[2])>>)>>
     : c \in ItemSets(Len(Items(side, type)))}

(* Two frames, the second with several records of different length. *)
Streams ==
    {LET n == Len(Items(side, t))
         several == <<Record(side, t, {n}, 2), Record(side, t, {}, 0), Record(side, t, {2, 3}, 1)>>
     IN  <<Batch(side, t, <<Record(side, t, {1}, 2)>>), Batch(side, t, several)>>
     : side \in Sides, t \in leaf_type_ids}

(* Payloads as bytes, of the wrong type, and of no type of the session. *)
Odd ==
    {LET v == Record(side, "Cat048Record", {1, 2}, 1)
         raw == Raw(EncodeAll(Layouts[side]["Cat048Record"], v, Writer).bits)
         wrong == [form |-> "other", content |-> <<>>]
     IN  <<[from |-> side, type |-> "Cat048Record", payloads |-> <<raw, wrong>>],
           [from |-> side, type |-> "none", payloads |-> <<raw>>],
           [from |-> side, type |-> "Cat048Record", payloads |-> <<raw, Typed(v)>>]>>
     : side \in Sides}

AllScripts ==
    Streams \cup Odd
    \cup UNION {UNION {Singles(side, t) : t \in Sendable(side)} : side \in Sides}
=============================================================================
