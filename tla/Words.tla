--------------------------------- MODULE Words ---------------------------------
(* Arithmetic of unsigned integers of any width.  A number is the set of the  *)
(* positions of its one bits, so that <<, >>, & and | are set operations and  *)
(* 64-bit values keep their width; a byte is a subset of 0..7.                *)
EXTENDS Integers, Sequences, FiniteSetsExt

WordBits == 64
Low(v, n) == {b \in v : b < n}
Shr(v, n) == {b - n : b \in {c \in v : c >= n}}
Shl(v, n) == {b + n : b \in v}
Bits(k, n) == {b \in 0..(n - 1) : (k \div 2^b) % 2 = 1}

(* The number as an integer, for those small enough to be one. *)
Number(v) == MapThenSumSet(LAMBDA b : 2^b, v)

(* -v: the lowest one bit stays, the bits above it are flipped. *)
Negate(v) ==
    {b \in 0..(WordBits - 1) : IF b \in v THEN \A c \in v : b <= c ELSE \E c \in v : c < b}

(* The low n bits of v in order of arrival, and the number such bits make. *)
MsbFirst(v, n) == [i \in 1..n |-> n - i \in v]
Zeros(n) == [i \in 1..n |-> FALSE]
Flat(bytes) ==
    [i \in 1..(8 * Len(bytes)) |-> 7 - ((i - 1) % 8) \in bytes[(i - 1) \div 8 + 1]]
FromBits(bits) == {Len(bits) - i : i \in {j \in DOMAIN bits : bits[j]}}

SignExtended(raw, n) == IF n - 1 \in raw THEN raw \cup n..(WordBits - 1) ELSE raw

-----------------------------------------------------------------------------
(* A sum is a xor b xor the carries one place up; a difference borrows the    *)
(* same way.  The bits that carry are those in g, and those a run of bits in  *)
(* p leads to from one in g: runs of less than s bits are followed already.   *)
Xor(a, b) == (a \ b) \cup (b \ a)

RECURSIVE Carries(_, _, _)
Carries(g, p, s) ==
    IF p = {} THEN g ELSE Carries(g \cup (p \cap Shl(g, s)), p \cap Shl(p, s), 2 * s)

Plus(a, b) == Xor(Xor(a, b), Shl(Carries(a \cap b, Xor(a, b), 1), 1))
Minus(a, b) ==
    Xor(Xor(a, b), Shl(Carries(b \ a, (0..Max(a)) \ Xor(a, b), 1), 1))

AtLeast(a, b) == a = b \/ Max(Xor(a, b)) \in a

(* Shifted copies of a, one for each bit of b, added up in halves of b. *)
RECURSIVE Times(_, _)
Times(a, b) ==
    IF b = {} THEN {}
    ELSE IF Min(b) = Max(b) THEN Shl(a, Min(b))
    ELSE LET low == Low(b, (Min(b) + Max(b) + 1) \div 2)
         IN  Plus(Times(a, low), Times(a, b \ low))

(* Long division of a by d where the quotient has bits k to k + n - 1 only,   *)
(* the higher half of them first: <<quotient, rest>>.                         *)
RECURSIVE Divided(_, _, _, _)
Divided(a, d, k, n) ==
    IF ~AtLeast(a, Shl(d, k)) THEN <<{}, a>>
    ELSE IF n = 1 THEN <<{k}, Minus(a, Shl(d, k))>>
    ELSE LET half == n \div 2
             high == Divided(a, d, k + half, n - half)
             low == Divided(high[2], d, k, half)
         IN  <<high[1] \cup low[1], low[2]>>
=============================================================================
