-------------------------------- MODULE Doubles --------------------------------
(* IEEE 754 double arithmetic, as the build's `double` does it: results are   *)
(* rounded to 53 bits, ties to even.  A finite double is +-mant * 2^exp with  *)
(* mant odd, or zero; exponents stay far from their limits here.              *)
EXTENDS Words

Precision == 53

Zero == [neg |-> FALSE, mant |-> {}, exp |-> 0]

(* +-m * 2^e, where m needs no rounding. *)
Exact(neg, m, e) ==
    IF m = {} THEN Zero
    ELSE LET t == Min(m) IN [neg |-> neg, mant |-> Shr(m, t), exp |-> e + t]

Round(neg, m, e) ==
    LET cut == IF m = {} THEN 0 ELSE Max({0, Max(m) + 1 - Precision})
        kept == Shr(m, cut)
        half == cut > 0 /\ cut - 1 \in m
        tie == \A b \in Low(m, cut) : b = cut - 1
        up == half /\ (tie => 0 \in kept)
    IN  Exact(neg, IF up THEN Plus(kept, {0}) ELSE kept, e + cut)

Mul(a, b) == Round(a.neg # b.neg, Times(a.mant, b.mant), a.exp + b.exp)

(* Two bits more than the precision, then a bit for whether anything is left. *)
Div(a, b) ==
    LET shift == Max({0, Precision + 2 + Max(b.mant) - Max(a.mant)})
        a_ == Shl(a.mant, shift)
        q == Divided(a_, b.mant, 0, Max(a_) - Max(b.mant) + 1)
    IN  IF a = Zero THEN Zero
        ELSE Round(a.neg # b.neg, Shl(q[1], 1) \cup (IF q[2] = {} THEN {} ELSE {0}),
                   a.exp - b.exp - shift - 1)

(* static_cast between a double and an integer of two's complement: towards   *)
(* zero, and only for values the integer type can hold.                       *)
FromInt(w, signed) ==
    IF signed /\ WordBits - 1 \in w THEN Exact(TRUE, Negate(w), 0) ELSE Exact(FALSE, w, 0)
ToInt(d) ==
    LET whole == IF d.exp < 0 THEN Shr(d.mant, -d.exp) ELSE Shl(d.mant, d.exp)
    IN  IF d.neg THEN Negate(whole) ELSE whole

(* The literals of the source: n * 2^e exactly, and the doubles next to 0.1   *)
(* and 0.01, 0xccccccccccccd * 2^-55 and 0x147ae147ae147b * 2^-59.            *)
Dyadic(n, e) == Exact(FALSE, Bits(n, 16), e)
HighLow(high, low) == Shl(Bits(high, 28), 28) \cup Bits(low, 28)
Tenth == Exact(FALSE, HighLow(13421772, 214748365), -55)
Hundredth == Exact(FALSE, HighLow(21474836, 128849019), -59)
=============================================================================
