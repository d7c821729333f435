-------------------------------- MODULE MCBitIo --------------------------------
(* Instances of BitIo for TLC: fields of every kind, with the widths and      *)
(* values at the edges of what the writer accepts.                            *)
EXTENDS BitIo

Bit(v, n) == [kind |-> "bits", value |-> v, width |-> n]
Signed(neg, mag, n) == [kind |-> "signed", value |-> <<neg, mag>>, width |-> n]
Dec(digits, n) == [kind |-> "bcd", value |-> digits, width |-> n]
SignedDec(neg, digits, n) == [kind |-> "bcd_signed", value |-> <<neg, digits>>, width |-> n]
SignMag(neg, mag, n) == [kind |-> "sign_magnitude", value |-> <<neg, mag>>, width |-> n]
UInt(v, n, b) == [kind |-> "uint", value |-> v, width |-> n, big |-> b]
Half(f, b) == [kind |-> "f16", value |-> f, big |-> b]
Text(s, n) == [kind |-> "string", value |-> s, width |-> n]
Align(n) == [kind |-> "align_to", width |-> n]

AllFields == <<
    Bit({0, 2, 3, 9}, 3), Bit({0}, 1), Bit({0, 7, 10, 11}, 11), Bit({5}, 0), Bit(0..63, 64),
    Bit({1, 63}, 64), Bit({0}, 65),
    Signed(TRUE, {0}, 3), Signed(TRUE, {4}, 5), Signed(TRUE, {63}, 64),
    Dec(<<9, 0, 1>>, 12), Dec(<<1, 1>>, 4), Dec(<<1>>, 6), Dec(<<3>>, 0),
    [kind |-> "raw_bcd", value |-> {1, 3, 4}, width |-> 8],
    [kind |-> "raw_bcd", value |-> {0, 3, 6}, width |-> 8],
    SignedDec(TRUE, <<4, 2>>, 9), SignedDec(FALSE, <<>>, 5), SignedDec(TRUE, <<1, 1>>, 5),
    SignMag(TRUE, {0, 1}, 7), SignMag(TRUE, {6}, 7), SignMag(TRUE, {63}, 64),
    UInt({0, 9, 14}, 2, TRUE), UInt({3, 31}, 4, FALSE), UInt({7, 60}, 8, TRUE),
    Half(<<FALSE, 127, {22, 13}>>, TRUE), Half(<<TRUE, 103, {}>>, FALSE),
    Half(<<FALSE, 112, {22, 14}>>, TRUE), Half(<<TRUE, 255, {}>>, TRUE), Half(<<FALSE, 0, {}>>, TRUE),
    [kind |-> "f48", value |-> {3, 16, 40, 63}, big |-> FALSE],
    [kind |-> "bytes", value |-> <<{0, 7}, {4}>>], [kind |-> "bytes", value |-> <<>>],
    Text(<<{0}, {6}>>, 1), Text(<<{6, 0}>>, 3), Align(1), Align(4) >>

Lengths == {{1, 2, 8}}
=============================================================================
