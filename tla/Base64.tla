-------------------------------- MODULE Base64 --------------------------------
(***************************************************************************)
(* The base64 codec of the page, static/js/base64.js, as far as index.js   *)
(* uses it: encode makes the quick configuration link of an instance and   *)
(* decode reads it in another browser. Each browser takes its own path     *)
(* through the file, by what it offers: atob, btoa, TextEncoder and        *)
(* TextDecoder or the polyfills of the file in their place.                *)
(*                                                                         *)
(* A string is a sequence of UTF-16 code units. A base64 character is its  *)
(* index in b64ch, 64 being "=", 65 "-", 66 "_" and 67 any other.          *)
(***************************************************************************)
EXTENDS Integers, Sequences

Byte == 0..255
Unit == 0..65535
Sextet == 0..63
Equals == 64
Minus == 65
Underscore == 66
Other == 67

\* What a call returns that throws: no string.
Thrown == <<-1>>

\* What a browser offers.
Browsers == [atob : BOOLEAN, btoa : BOOLEAN, encoder : BOOLEAN, decoder : BOOLEAN]

High(u) == u \in 55296..56319     \* [\uD800-\uDBFF]
Low(u) == u \in 56320..57343      \* [\uDC00-\uDFFF]
PairAt(s, i) == i < Len(s) /\ High(s[i]) /\ Low(s[i + 1])
Lone(s, i) ==
    \/ High(s[i]) /\ ~PairAt(s, i)
    \/ Low(s[i]) /\ (i = 1 \/ ~PairAt(s, i - 1))

\* The character of a surrogate pair, and the pair of a character.
CodePoint(hi, lo) == 65536 + (hi - 55296) * 1024 + (lo - 56320)
HighOf(cp) == 55296 + ((cp - 65536) \div 1024)
LowOf(cp) == 56320 + ((cp - 65536) % 1024)

-----------------------------------------------------------------------------
(* btoa and atob.                                                           *)

\* Three bytes as four characters, and back.
Group(c0, c1, c2) ==
    LET u == c0 * 65536 + c1 * 256 + c2
    IN <<u \div 262144, (u \div 4096) % 64, (u \div 64) % 64, u % 64>>

Ungroup(a, b, c, d) ==
    LET u == a * 262144 + b * 4096 + c * 64 + d
    IN <<(u \div 65536) % 256, (u \div 256) % 256, u % 256>>

\* charCodeAt past the end is NaN, which counts as zero in the shifts.
ByteAt(bin, i) == IF i <= Len(bin) THEN bin[i] ELSE 0

BtoaPolyfill(bin) ==
    LET pad == Len(bin) % 3
        groups == (Len(bin) + 2) \div 3
        asc == [j \in 1..(4 * groups) |->
                  LET g == 3 * ((j - 1) \div 4)
                  IN Group(ByteAt(bin, g + 1), ByteAt(bin, g + 2), ByteAt(bin, g + 3))
                         [1 + ((j - 1) % 4)]]
    IN IF \E i \in DOMAIN bin : bin[i] > 255 THEN Thrown
       ELSE IF pad = 0 THEN asc
       ELSE SubSeq(asc, 1, Len(asc) + pad - 3) \o [i \in 1..(3 - pad) |-> Equals]

\* Mutant: any of the padding may be left out.
WellformedAnyPadding(asc) ==
    \E k \in 0..Len(asc) :
        /\ \A i \in DOMAIN asc : (i <= k) = (asc[i] \in Sextet)
        /\ \A i \in (k + 1)..Len(asc) : asc[i] = Equals
        /\ k % 4 # 1 /\ (k % 4) + (Len(asc) - k) <= 4

\* b64re: whole groups of four, then nothing, two or three characters with
\* all or none of the padding.
Wellformed(asc) ==
    \E k \in 0..Len(asc) :
        /\ \A i \in DOMAIN asc : (i <= k) = (asc[i] \in Sextet)
        /\ \A i \in (k + 1)..Len(asc) : asc[i] = Equals
        /\ \/ k % 4 = 0 /\ Len(asc) = k
           \/ k % 4 = 2 /\ Len(asc) \in {k, k + 2}
           \/ k % 4 = 3 /\ Len(asc) \in {k, k + 1}

\* The padding that was left out is put back, and tells how many bytes of the
\* last group there are.
AtobPolyfill(asc) ==
    LET padded == asc \o [i \in 1..((4 - (Len(asc) % 4)) % 4) |-> Equals]
        digit(i) == padded[i] % 64     \* the shifts drop the 1 of index 64
        bytes == [j \in 1..(3 * (Len(padded) \div 4)) |->
                    LET g == 4 * ((j - 1) \div 3)
                    IN Ungroup(digit(g + 1), digit(g + 2), digit(g + 3), digit(g + 4))
                           [1 + ((j - 1) % 3)]]
        missing == IF padded = <<>> THEN 0
                   ELSE IF padded[Len(padded) - 1] = Equals THEN 2
                   ELSE IF padded[Len(padded)] = Equals THEN 1 ELSE 0
    IN IF Wellformed(asc) THEN SubSeq(bytes, 1, Len(bytes) - missing) ELSE Thrown

(* What browsers do. The bits of the bytes, six at a time.                  *)
Bit(bin, n) == (ByteAt(bin, 1 + (n \div 8)) \div 2^(7 - (n % 8))) % 2

NativeBtoa(bin) ==
    LET sextets == (8 * Len(bin) + 5) \div 6
        sextet(j) == LET n == 6 * (j - 1)
                     IN 32 * Bit(bin, n) + 16 * Bit(bin, n + 1) + 8 * Bit(bin, n + 2)
                        + 4 * Bit(bin, n + 3) + 2 * Bit(bin, n + 4) + Bit(bin, n + 5)
    IN IF \E i \in DOMAIN bin : bin[i] > 255 THEN Thrown
       ELSE [j \in 1..(4 * ((Len(bin) + 2) \div 3)) |->
               IF j <= sextets THEN sextet(j) ELSE Equals]

\* Up to two "=" at the end of whole groups are dropped; a single character
\* in the last group is refused.
Unpadded(asc) ==
    LET ends(i) == Len(asc) % 4 = 0 /\ Len(asc) > i /\ asc[Len(asc) - i] = Equals
    IN SubSeq(asc, 1, Len(asc) - (IF ends(0) THEN IF ends(1) THEN 2 ELSE 1 ELSE 0))

NativeAtob(asc) ==
    LET text == Unpadded(asc)
        bit(n) == (text[1 + (n \div 6)] \div 2^(5 - (n % 6))) % 2
        byte(j) == LET n == 8 * (j - 1)
                   IN 128 * bit(n) + 64 * bit(n + 1) + 32 * bit(n + 2) + 16 * bit(n + 3)
                      + 8 * bit(n + 4) + 4 * bit(n + 5) + 2 * bit(n + 6) + bit(n + 7)
    IN IF Len(text) % 4 = 1 \/ \E i \in DOMAIN text : text[i] \notin Sextet THEN Thrown
       ELSE [j \in 1..((6 * Len(text)) \div 8) |-> byte(j)]

-----------------------------------------------------------------------------
(* UTF-8.                                                                   *)

\* cb_utob of one unit and of a surrogate pair.
UnitBytes(u) ==
    IF u < 128 THEN <<u>>
    ELSE IF u < 2048 THEN <<192 + (u \div 64), 128 + (u % 64)>>
    ELSE <<224 + (u \div 4096), 128 + ((u \div 64) % 64), 128 + (u % 64)>>

PairBytes(hi, lo) ==
    LET cp == CodePoint(hi, lo)
    IN <<240 + (cp \div 262144), 128 + ((cp \div 4096) % 64),
         128 + ((cp \div 64) % 64), 128 + (cp % 64)>>

\* The second class of re_utob is [\uDC00-\uDFFFF]: the low surrogates and "F".
MatchesPair(s, i) == i < Len(s) /\ High(s[i]) /\ (Low(s[i + 1]) \/ s[i + 1] = 70)

Utob(s) ==
    LET from[i \in 1..(Len(s) + 1)] ==
            IF i > Len(s) THEN <<>>
            ELSE IF MatchesPair(s, i) THEN PairBytes(s[i], s[i + 1]) \o from[i + 2]
            ELSE UnitBytes(s[i]) \o from[i + 1]
    IN from[1]

Continues(b, from, to) == to <= Len(b) /\ \A i \in from..to : b[i] \in 128..191

\* The length of re_btou's match at i, or 0.
MatchAt(b, i) ==
    IF b[i] \in 192..223 /\ Continues(b, i + 1, i + 1) THEN 2
    ELSE IF b[i] \in 224..239 /\ Continues(b, i + 1, i + 2) THEN 3
    ELSE IF b[i] \in 240..247 /\ Continues(b, i + 1, i + 3) THEN 4
    ELSE 0

\* cb_btou of a match of four, three and two bytes.
FourBytes(b0, b1, b2, b3) ==
    LET cp == (b0 % 8) * 262144 + (b1 % 64) * 4096 + (b2 % 64) * 64 + (b3 % 64)
    IN <<HighOf(cp), LowOf(cp)>>
ThreeBytes(b0, b1, b2) == <<(b0 % 16) * 4096 + (b1 % 64) * 64 + (b2 % 64)>>
TwoBytes(b0, b1) == <<(b0 % 32) * 64 + (b1 % 64)>>

Btou(b) ==
    LET from[i \in 1..(Len(b) + 1)] ==
            IF i > Len(b) THEN <<>>
            ELSE IF MatchAt(b, i) = 4
                THEN FourBytes(b[i], b[i + 1], b[i + 2], b[i + 3]) \o from[i + 4]
            ELSE IF MatchAt(b, i) = 3
                THEN ThreeBytes(b[i], b[i + 1], b[i + 2]) \o from[i + 3]
            ELSE IF MatchAt(b, i) = 2 THEN TwoBytes(b[i], b[i + 1]) \o from[i + 2]
            ELSE <<b[i]>> \o from[i + 1]
    IN from[1]

(* TextEncoder and TextDecoder, of the browser. The encoder replaces a lone *)
(* surrogate by U+FFFD, the decoder drops U+FEFF at the beginning. The      *)
(* decoder is given here what an encoder made.                              *)
TextEncode(s) == Utob([i \in DOMAIN s |-> IF Lone(s, i) THEN 65533 ELSE s[i]])
TextDecode(b) ==
    LET s == Btou(b)
    IN IF s # <<>> /\ Head(s) = 65279 THEN Tail(s) ELSE s

\* Text as JSON.stringify writes it, of which the two are inverse.
IsText(s) == \A i \in DOMAIN s : ~Lone(s, i) /\ (i = 1 => s[i] # 65279)

-----------------------------------------------------------------------------
(* encode and decode.                                                       *)

\* The characters of s that are not dropped, in their order.
Without(s, dropped) ==
    LET from[i \in 1..(Len(s) + 1)] ==
            IF i > Len(s) THEN <<>>
            ELSE IF s[i] \in dropped THEN from[i + 1]
            ELSE <<s[i]>> \o from[i + 1]
    IN from[1]

NotBase64 == {Equals, Minus, Underscore, Other}

BtoaOf(browser, bin) == IF browser.btoa THEN NativeBtoa(bin) ELSE BtoaPolyfill(bin)
AtobOf(browser, asc) == IF browser.atob THEN NativeAtob(asc) ELSE AtobPolyfill(asc)

Encode(browser, s) ==
    BtoaOf(browser, IF browser.encoder THEN TextEncode(s) ELSE Utob(s))

\* "+" and "/" become "-" and "_", and the padding goes.
EncodeURI(browser, s) ==
    LET asc == Encode(browser, s)
        safe(c) == CASE c = 62 -> Minus [] c = 63 -> Underscore [] OTHER -> c
        text == Without(asc, {Equals})
    IN [i \in DOMAIN text |-> safe(text[i])]

\* Mutant: only "-" is turned back.
UnURIMinusOnly(asc) ==
    LET plain(c) == IF c = Minus THEN 62 ELSE c
    IN Without([i \in DOMAIN asc |-> plain(asc[i])], NotBase64)

UnURI(asc) ==
    LET plain(c) == CASE c = Minus -> 62 [] c = Underscore -> 63 [] OTHER -> c
    IN Without([i \in DOMAIN asc |-> plain(asc[i])], NotBase64)

Decode(browser, asc) ==
    LET bin == AtobOf(browser, UnURI(asc))
    IN IF bin = Thrown THEN Thrown
       ELSE IF browser.decoder THEN TextDecode(bin) ELSE Btou(bin)
=============================================================================
