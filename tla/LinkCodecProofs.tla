--------------------------- MODULE LinkCodecProofs ---------------------------
(***************************************************************************)
(* The codec of the page on every string: the polyfills agree with the     *)
(* browser, and a link is read back as the text it was made of. The run of *)
(* PageAlgorithms takes short strings of a few bytes and characters.       *)
(*                                                                         *)
(* Strings are gone through by recursive functions, whose domains are the  *)
(* positions from the first to one after the last and which look at later  *)
(* positions only. Induction over positions is the least number principle  *)
(* in the form of WFMin.                                                   *)
(***************************************************************************)
EXTENDS LinkCodec, SequenceTheorems, WellFoundedInduction, TLAPS

-----------------------------------------------------------------------------
(* Positions.                                                               *)

LEMMA LeastNumber ==
    ASSUME NEW T, T \subseteq Nat, T # {}
    PROVE  \E x \in T : \A y \in T : x <= y
<1> DEFINE R == {p \in Nat \X Nat : p[1] < p[2]}
<1>1. IsWellFoundedOn(R, Nat)
  BY NatLessThanWellFounded DEF OpToRel
<1> HIDE DEF R
<1>2. PICK x \in T : \A y \in T : ~ (<<y, x>> \in R)
  BY <1>1, WFMin
<1>3. \A y \in T : x <= y
  <2> TAKE y \in T
  <2>1. x \in Nat /\ y \in Nat /\ <<y, x>> \notin R
    BY <1>2
  <2>2. ~ (y < x)
    BY <2>1 DEF R
  <2> QED
    BY <2>1, <2>2
<1> QED
  BY <1>3

(* What holds of a position if it holds of the later ones holds of all.     *)
LEMMA FromTheEnd ==
    ASSUME NEW m \in Nat, NEW S,
           \A i \in 1..m : (\A j \in (i + 1)..m : j \in S) => i \in S
    PROVE  \A i \in 1..m : i \in S
<1>1. SUFFICES ASSUME NEW i \in 1..m, i \notin S PROVE FALSE
  OBVIOUS
<1> DEFINE T == {k \in 0..m : m - k \in 1..m /\ m - k \notin S}
<1>2. m - i \in T
  <2>1. m - i \in 0..m /\ m - (m - i) = i
    OBVIOUS
  <2> QED
    BY <1>1, <2>1
<1>3. PICK k \in T : \A l \in T : k <= l
  <2>1. T # {} /\ T \subseteq Nat
    BY <1>2
  <2> HIDE DEF T
  <2> QED
    BY <2>1, LeastNumber
<1>4. \A j \in (m - k + 1)..m : j \in S
  <2> SUFFICES ASSUME NEW j \in (m - k + 1)..m, j \notin S PROVE FALSE
    OBVIOUS
  <2>1. k \in 0..m
    BY <1>3
  <2>2. m - j \in 0..m /\ m - j < k /\ m - (m - j) = j /\ j \in 1..m
    BY <2>1
  <2>3. m - j \in T
    BY <2>2
  <2> QED
    BY <1>3, <2>1, <2>2, <2>3
<1> QED
  BY <1>3, <1>4

\* What a step of a recursive function makes of the function depends on its
\* values at later positions.
LooksLater(step, m, A) ==
    /\ step \in [1..m -> [[1..m -> A] -> A]]
    /\ \A i \in 1..m : \A g, h \in [1..m -> A] :
           (\A j \in (i + 1)..m : g[j] = h[j]) => step[i][g] = step[i][h]
Computes(step, m, A) == \E f \in [1..m -> A] : \A i \in 1..m : f[i] = step[i][f]

(* A function that is defined by its values at later positions exists.      *)
LEMMA FromTheEndDefined ==
    ASSUME NEW m \in Nat, NEW A, A # {}, NEW step, LooksLater(step, m, A)
    PROVE  Computes(step, m, A)
<1>0. /\ step \in [1..m -> [[1..m -> A] -> A]]
      /\ \A i \in 1..m : \A g, h \in [1..m -> A] :
             (\A j \in (i + 1)..m : g[j] = h[j]) => step[i][g] = step[i][h]
  BY DEF LooksLater
<1> DEFINE Good(i) == \E f \in [1..m -> A] : \A j \in i..m : f[j] = step[j][f]
           S == {i \in 1..m : Good(i)}
<1>1. ASSUME NEW i \in 1..m, \A j \in (i + 1)..m : j \in S
      PROVE  i \in S
  <2>1. PICK g \in [1..m -> A] : \A j \in (i + 1)..m : g[j] = step[j][g]
    <3>1. CASE i = m
      <4>1. PICK a \in A : TRUE
        OBVIOUS
      <4>2. [j \in 1..m |-> a] \in [1..m -> A]
        OBVIOUS
      <4>3. (i + 1)..m = {}
        BY <3>1
      <4> QED
        BY <4>2, <4>3
    <3>2. CASE i < m
      <4>1. i + 1 \in (i + 1)..m
        BY <3>2
      <4> QED
        BY <1>1, <4>1
    <3> QED
      BY <3>1, <3>2
  <2> DEFINE f == [g EXCEPT ![i] = step[i][g]]
  <2>2. f \in [1..m -> A] /\ f[i] = step[i][g] /\ \A j \in (i + 1)..m : f[j] = g[j]
    <3>1. step[i][g] \in A
      BY <1>0
    <3> QED
      BY <3>1
  <2> HIDE DEF f
  <2>3. ASSUME NEW j \in i..m PROVE f[j] = step[j][f]
    <3>1. j \in 1..m /\ \A l \in (j + 1)..m : l \in (i + 1)..m
      OBVIOUS
    <3>2. step[j][f] = step[j][g]
      BY <1>0, <2>2, <3>1
    <3>3. CASE j = i
      BY <2>2, <3>2, <3>3
    <3>4. CASE j # i
      <4>1. j \in (i + 1)..m
        BY <3>4
      <4> QED
        BY <2>1, <2>2, <3>2, <4>1
    <3> QED
      BY <3>3, <3>4
  <2> QED
    BY <2>2, <2>3
<1>2. \A i \in 1..m : i \in S
  <2> HIDE DEF S
  <2> QED
    BY <1>1, FromTheEnd
<1>3. CASE m = 0
  <2>1. PICK a \in A : TRUE
    OBVIOUS
  <2>2. [j \in 1..m |-> a] \in [1..m -> A] /\ 1..m = {}
    BY <1>3
  <2> QED
    BY <2>2 DEF Computes
<1>4. CASE m > 0
  <2>1. 1 \in 1..m
    BY <1>4
  <2>2. Good(1)
    BY <1>2, <2>1
  <2> QED
    BY <2>2 DEF Computes
<1> QED
  BY <1>3, <1>4

-----------------------------------------------------------------------------
(* Groups, units and pairs.                                                 *)

\* Three bytes make four base64 characters, which give the three bytes back
\* (base64.js, cb_encode and cb_decode).
THEOREM GroupReadsBack ==
    ASSUME NEW c0 \in Byte, NEW c1 \in Byte, NEW c2 \in Byte
    PROVE  LET g == Group(c0, c1, c2)
           IN /\ \A i \in 1..4 : g[i] \in Sextet
              /\ Ungroup(g[1], g[2], g[3], g[4]) = <<c0, c1, c2>>
<1> DEFINE u == c0 * 65536 + c1 * 256 + c2
           a == u \div 262144
           b == (u \div 4096) % 64
           c == (u \div 64) % 64
           d == u % 64
<1>1. /\ u \in Nat /\ u <= 16777215
      /\ (u \div 65536) % 256 = c0 /\ (u \div 256) % 256 = c1 /\ u % 256 = c2
  <2>1. /\ c0 \in Int /\ 0 <= c0 /\ c0 <= 255 /\ c1 \in Int /\ 0 <= c1 /\ c1 <= 255
        /\ c2 \in Int /\ 0 <= c2 /\ c2 <= 255
    BY DEF Byte
  <2>2. u \in Nat /\ u <= 16777215
    BY SMT, <2>1
  <2>3. u \div 65536 = c0 /\ u \div 256 = c0 * 256 + c1
    BY SMT, <2>1
  <2>4. c0 % 256 = c0 /\ (c0 * 256 + c1) % 256 = c1 /\ u % 256 = c2
    BY SMT, <2>1
  <2> QED
    BY <2>2, <2>3, <2>4
<1>2. Group(c0, c1, c2) = <<a, b, c, d>>
  BY DEF Group
<1> HIDE DEF u
<1>3. /\ a \in Sextet /\ b \in Sextet /\ c \in Sextet /\ d \in Sextet
      /\ a * 262144 + b * 4096 + c * 64 + d = u
  <2> DEFINE x == u \div 64
             y == x \div 64
  <2>1. x \in Nat /\ x <= 262143 /\ d \in 0..63 /\ u = x * 64 + d
    BY SMT, <1>1
  <2>2. y \in Nat /\ y <= 4095 /\ c \in 0..63 /\ x = y * 64 + c
    BY SMT, <2>1
  <2>3. u \div 4096 = y /\ u \div 262144 = y \div 64
    BY SMT, <1>1, <2>1, <2>2
  <2> HIDE DEF x, y
  <2>4. a \in 0..63 /\ b \in 0..63 /\ y = a * 64 + b
    BY SMT, <1>1, <2>2, <2>3
  <2> QED
    BY SMT, <1>1, <2>1, <2>2, <2>4 DEF Sextet
<1> HIDE DEF a, b, c, d
<1>4. Ungroup(a, b, c, d) = <<c0, c1, c2>>
  BY SMT, <1>1, <1>3 DEF Ungroup
<1> QED
  BY <1>2, <1>3, <1>4

(* A byte that follows in a sequence carries six bits.                      *)
LEMMA SixBits ==
    ASSUME NEW x \in Sextet
    PROVE  128 + x \in 128..191 /\ (128 + x) % 64 = x
BY DEF Sextet

\* A unit of JavaScript text that is not ASCII becomes two or three bytes,
\* which match the pattern of the decoder from their first byte to their last
\* and give the unit back (base64.js, cb_utob and cb_btou).
THEOREM UnitReadsBack ==
    ASSUME NEW u \in Unit, u >= 128
    PROVE  LET b == UnitBytes(u)
           IN /\ MatchAt(b, 1) = Len(b)
              /\ \/ Len(b) = 2 /\ TwoBytes(b[1], b[2]) = <<u>>
                 \/ Len(b) = 3 /\ ThreeBytes(b[1], b[2], b[3]) = <<u>>
<1> DEFINE x == u \div 64
           y == u % 64
<1>1. u \in Int /\ u >= 128 /\ u < 65536
  BY DEF Unit
<1>2. y \in Sextet /\ x \in Nat /\ u = x * 64 + y
  BY SMT, <1>1 DEF Sextet
<1>3. CASE u < 2048
  <2>1. x \in 0..31
    BY <1>1, <1>2, <1>3 DEF Sextet
  <2>2. UnitBytes(u) = <<192 + x, 128 + y>>
    BY <1>1, <1>3 DEF UnitBytes
  <2> HIDE DEF x, y
  <2>3. 192 + x \in 192..223 /\ (192 + x) % 32 = x
    BY SMT, <2>1
  <2>4. 128 + y \in 128..191 /\ (128 + y) % 64 = y
    BY <1>2, SixBits
  <2>5. TwoBytes(192 + x, 128 + y) = <<u>>
    BY <1>2, <2>3, <2>4 DEF TwoBytes
  <2> DEFINE b == <<192 + x, 128 + y>>
  <2>6. Len(b) = 2 /\ b[1] = 192 + x /\ b[2] = 128 + y
    OBVIOUS
  <2>7. MatchAt(b, 1) = 2
    BY <2>3, <2>4, <2>6 DEF MatchAt, Continues
  <2> QED
    BY <2>2, <2>5, <2>6, <2>7
<1>4. CASE u >= 2048
  <2> DEFINE v == u \div 4096
             w == x % 64
  <2>1. v \in 0..15 /\ w \in Sextet /\ u = v * 4096 + w * 64 + y
    BY SMT, <1>1, <1>2 DEF Sextet
  <2>2. UnitBytes(u) = <<224 + v, 128 + w, 128 + y>>
    BY <1>1, <1>4 DEF UnitBytes
  <2> HIDE DEF x, y, v, w
  <2>3. 224 + v \in 224..239 /\ (224 + v) % 16 = v
    BY SMT, <2>1
  <2>4. /\ 128 + y \in 128..191 /\ (128 + y) % 64 = y
        /\ 128 + w \in 128..191 /\ (128 + w) % 64 = w
    BY <1>2, <2>1, SixBits
  <2>5. ThreeBytes(224 + v, 128 + w, 128 + y) = <<u>>
    BY <2>1, <2>3, <2>4 DEF ThreeBytes
  <2> DEFINE b == <<224 + v, 128 + w, 128 + y>>
  <2>6. Len(b) = 3 /\ b[1] = 224 + v /\ b[2] = 128 + w /\ b[3] = 128 + y
    OBVIOUS
  <2>7. MatchAt(b, 1) = 3
    BY <2>3, <2>4, <2>6 DEF MatchAt, Continues
  <2> QED
    BY <2>2, <2>5, <2>6, <2>7
<1> QED
  BY <1>1, <1>3, <1>4

\* A surrogate pair becomes four bytes, which match and give the pair back.
THEOREM PairReadsBack ==
    ASSUME NEW hi, NEW lo, High(hi), Low(lo)
    PROVE  LET b == PairBytes(hi, lo)
           IN /\ Len(b) = 4 /\ MatchAt(b, 1) = 4
              /\ FourBytes(b[1], b[2], b[3], b[4]) = <<hi, lo>>
<1> DEFINE cp == CodePoint(hi, lo)
           p == cp \div 262144
           q == (cp \div 4096) % 64
           r == (cp \div 64) % 64
           s == cp % 64
<1>1. /\ cp \in Int /\ cp >= 65536 /\ cp <= 1114111 /\ hi \in Int /\ lo \in Int
      /\ (cp - 65536) \div 1024 = hi - 55296 /\ (cp - 65536) % 1024 = lo - 56320
  BY SMT DEF High, Low, CodePoint
<1>2. PairBytes(hi, lo) = <<240 + p, 128 + q, 128 + r, 128 + s>>
  BY SMT DEF PairBytes
<1> HIDE DEF cp
<1>3. /\ p \in 0..4 /\ q \in Sextet /\ r \in Sextet /\ s \in Sextet
      /\ cp = p * 262144 + q * 4096 + r * 64 + s
  BY SMT, <1>1 DEF Sextet
<1> HIDE DEF p, q, r, s
<1>4. 240 + p \in 240..247 /\ (240 + p) % 8 = p
  BY <1>3
<1>5. /\ 128 + q \in 128..191 /\ (128 + q) % 64 = q
      /\ 128 + r \in 128..191 /\ (128 + r) % 64 = r
      /\ 128 + s \in 128..191 /\ (128 + s) % 64 = s
  BY <1>3, SixBits
<1>6. FourBytes(240 + p, 128 + q, 128 + r, 128 + s) = <<HighOf(cp), LowOf(cp)>>
  BY SMT, <1>3, <1>4, <1>5 DEF FourBytes
<1>7. HighOf(cp) = hi /\ LowOf(cp) = lo
  BY SMT, <1>1 DEF HighOf, LowOf
<1> DEFINE b == <<240 + p, 128 + q, 128 + r, 128 + s>>
<1>8. Len(b) = 4 /\ b[1] = 240 + p /\ b[2] = 128 + q /\ b[3] = 128 + r /\ b[4] = 128 + s
  OBVIOUS
<1>9. MatchAt(b, 1) = 4
  BY <1>4, <1>5, <1>8 DEF MatchAt, Continues
<1> QED
  BY <1>2, <1>6, <1>7, <1>8, <1>9

-----------------------------------------------------------------------------
(* btoa.                                                                    *)

\* The bytes of a group, six bits at a time.
LEMMA GroupIs ==
    ASSUME NEW x \in Byte, NEW y \in Byte, NEW z \in Byte
    PROVE  Group(x, y, z) = <<x \div 4, (x % 4) * 16 + (y \div 16),
                              (y % 16) * 4 + (z \div 64), z % 64>>
<1> DEFINE u == x * 65536 + y * 256 + z
<1>1. /\ x \in Int /\ 0 <= x /\ x <= 255 /\ y \in Int /\ 0 <= y /\ y <= 255
      /\ z \in Int /\ 0 <= z /\ z <= 255
  BY DEF Byte
<1>2. u \div 262144 = x \div 4
  BY SMT, <1>1
<1>3. u \div 4096 = x * 16 + (y \div 16)
  BY SMT, <1>1
<1>4. (u \div 4096) % 64 = (x % 4) * 16 + (y \div 16)
  BY SMT, <1>1, <1>3
<1>5. u \div 64 = x * 1024 + y * 4 + (z \div 64)
  BY SMT, <1>1
<1>6. (u \div 64) % 64 = (y % 16) * 4 + (z \div 64)
  BY SMT, <1>1, <1>5
<1>7. u % 64 = z % 64
  BY SMT, <1>1
<1> HIDE DEF u
<1>8. Group(x, y, z) = <<u \div 262144, (u \div 4096) % 64, (u \div 64) % 64, u % 64>>
  BY DEF Group, u
<1> QED
  BY <1>2, <1>4, <1>6, <1>7, <1>8

\* The bits of a byte, most significant first.
LEMMA ByteBits ==
    ASSUME NEW x \in Byte
    PROVE  /\ x \div 4 = 32 * ((x \div 128) % 2) + 16 * ((x \div 64) % 2) + 8 * ((x \div 32) % 2)
                         + 4 * ((x \div 16) % 2) + 2 * ((x \div 8) % 2) + ((x \div 4) % 2)
           /\ x % 4 = 2 * ((x \div 2) % 2) + (x % 2)
           /\ x \div 16 = 8 * ((x \div 128) % 2) + 4 * ((x \div 64) % 2)
                          + 2 * ((x \div 32) % 2) + ((x \div 16) % 2)
           /\ x % 16 = 8 * ((x \div 8) % 2) + 4 * ((x \div 4) % 2)
                       + 2 * ((x \div 2) % 2) + (x % 2)
           /\ x \div 64 = 2 * ((x \div 128) % 2) + ((x \div 64) % 2)
           /\ x % 64 = 32 * ((x \div 32) % 2) + 16 * ((x \div 16) % 2) + 8 * ((x \div 8) % 2)
                       + 4 * ((x \div 4) % 2) + 2 * ((x \div 2) % 2) + (x % 2)
<1> DEFINE a == x \div 2
           b == a \div 2
           c == b \div 2
           d == c \div 2
           e == d \div 2
           f == e \div 2
           g == f \div 2
<1>1. x \in Int /\ 0 <= x /\ x <= 255
  BY DEF Byte
<1>2. a = x \div 2 /\ a \in Int /\ 0 <= a /\ a <= 127 /\ x = 2 * a + (x % 2) /\ x % 2 \in 0..1
  BY SMT, <1>1
<1>3. b = x \div 4 /\ b \in Int /\ 0 <= b /\ b <= 63 /\ a = 2 * b + (a % 2) /\ a % 2 \in 0..1
  BY SMT, <1>1, <1>2
<1>4. c = x \div 8 /\ c \in Int /\ 0 <= c /\ c <= 31 /\ b = 2 * c + (b % 2) /\ b % 2 \in 0..1
  BY SMT, <1>1, <1>3
<1>5. d = x \div 16 /\ d \in Int /\ 0 <= d /\ d <= 15 /\ c = 2 * d + (c % 2) /\ c % 2 \in 0..1
  BY SMT, <1>1, <1>4
<1>6. e = x \div 32 /\ e \in Int /\ 0 <= e /\ e <= 7 /\ d = 2 * e + (d % 2) /\ d % 2 \in 0..1
  BY SMT, <1>1, <1>5
<1>7. f = x \div 64 /\ f \in Int /\ 0 <= f /\ f <= 3 /\ e = 2 * f + (e % 2) /\ e % 2 \in 0..1
  BY SMT, <1>1, <1>6
<1>8. g = x \div 128 /\ g \in 0..1 /\ g % 2 = g /\ f = 2 * g + (f % 2) /\ f % 2 \in 0..1
  BY SMT, <1>1, <1>7
<1>9. /\ x % 4 = 2 * (a % 2) + (x % 2)
      /\ x % 16 = 8 * (c % 2) + 4 * (b % 2) + 2 * (a % 2) + (x % 2)
      /\ x % 64 = 32 * (e % 2) + 16 * (d % 2) + 8 * (c % 2) + 4 * (b % 2) + 2 * (a % 2) + (x % 2)
  <2> HIDE DEF a, b, c, d, e, f, g
  <2> QED
    BY SMT, <1>1, <1>2, <1>3, <1>4, <1>5, <1>6, <1>7
<1>10. /\ b = 32 * g + 16 * (f % 2) + 8 * (e % 2) + 4 * (d % 2) + 2 * (c % 2) + (b % 2)
       /\ d = 8 * g + 4 * (f % 2) + 2 * (e % 2) + (d % 2)
       /\ f = 2 * g + (f % 2)
  <2> DEFINE b2 == b % 2  b3 == c % 2  b4 == d % 2  b5 == e % 2  b6 == f % 2
  <2> HIDE DEF a, b, c, d, e, f, g
  <2>1. /\ f = 2 * g + b6 /\ e = 2 * f + b5 /\ d = 2 * e + b4 /\ c = 2 * d + b3
        /\ b = 2 * c + b2
    BY <1>4, <1>5, <1>6, <1>7, <1>8
  <2>3. \A t \in 0..1 : t \in Int
    OBVIOUS
  <2>4. /\ g \in 0..1 /\ b2 \in 0..1 /\ b3 \in 0..1 /\ b4 \in 0..1
        /\ b5 \in 0..1 /\ b6 \in 0..1
    BY <1>4, <1>5, <1>6, <1>7, <1>8, Zenon
  <2> HIDE DEF b2, b3, b4, b5, b6
  <2>2. b = 32 * g + 16 * b6 + 8 * b5 + 4 * b4 + 2 * b3 + b2 /\ d = 8 * g + 4 * b6 + 2 * b5 + b4
    BY <2>1, <2>3, <2>4
  <2> QED
    BY <2>1, <2>2 DEF b2, b3, b4, b5, b6
<1> HIDE DEF a, b, c, d, e, f, g
<1>11. /\ (x \div 2) % 2 = a % 2 /\ (x \div 4) % 2 = b % 2 /\ (x \div 8) % 2 = c % 2
       /\ (x \div 16) % 2 = d % 2 /\ (x \div 32) % 2 = e % 2 /\ (x \div 64) % 2 = f % 2
       /\ (x \div 128) % 2 = g /\ x \div 4 = b /\ x \div 16 = d /\ x \div 64 = f
  BY <1>2, <1>3, <1>4, <1>5, <1>6, <1>7, <1>8
<1> QED
  BY <1>9, <1>10, <1>11, ZenonT(30)

\* Where they are in a string.
LEMMA BitsOfGroup ==
    ASSUME NEW bin, NEW q \in Nat, NEW x \in Byte, NEW y \in Byte, NEW z \in Byte,
           x = ByteAt(bin, 3 * q + 1), y = ByteAt(bin, 3 * q + 2), z = ByteAt(bin, 3 * q + 3)
    PROVE  /\ Bit(bin, 24 * q) = (x \div 128) % 2
           /\ Bit(bin, 24 * q + 1) = (x \div 64) % 2
           /\ Bit(bin, 24 * q + 2) = (x \div 32) % 2
           /\ Bit(bin, 24 * q + 3) = (x \div 16) % 2
           /\ Bit(bin, 24 * q + 4) = (x \div 8) % 2
           /\ Bit(bin, 24 * q + 5) = (x \div 4) % 2
           /\ Bit(bin, 24 * q + 6) = (x \div 2) % 2
           /\ Bit(bin, 24 * q + 7) = x % 2
           /\ Bit(bin, 24 * q + 8) = (y \div 128) % 2
           /\ Bit(bin, 24 * q + 9) = (y \div 64) % 2
           /\ Bit(bin, 24 * q + 10) = (y \div 32) % 2
           /\ Bit(bin, 24 * q + 11) = (y \div 16) % 2
           /\ Bit(bin, 24 * q + 12) = (y \div 8) % 2
           /\ Bit(bin, 24 * q + 13) = (y \div 4) % 2
           /\ Bit(bin, 24 * q + 14) = (y \div 2) % 2
           /\ Bit(bin, 24 * q + 15) = y % 2
           /\ Bit(bin, 24 * q + 16) = (z \div 128) % 2
           /\ Bit(bin, 24 * q + 17) = (z \div 64) % 2
           /\ Bit(bin, 24 * q + 18) = (z \div 32) % 2
           /\ Bit(bin, 24 * q + 19) = (z \div 16) % 2
           /\ Bit(bin, 24 * q + 20) = (z \div 8) % 2
           /\ Bit(bin, 24 * q + 21) = (z \div 4) % 2
           /\ Bit(bin, 24 * q + 22) = (z \div 2) % 2
           /\ Bit(bin, 24 * q + 23) = z % 2
<1>1. ASSUME NEW b \in 0..2, NEW e \in 0..7
      PROVE  Bit(bin, 24 * q + 8 * b + e) = (ByteAt(bin, 3 * q + 1 + b) \div 2^(7 - e)) % 2
  <2>1. 1 + ((24 * q + 8 * b + e) \div 8) = 3 * q + 1 + b /\ (24 * q + 8 * b + e) % 8 = e
    BY SMT
  <2> QED
    BY <2>1 DEF Bit
<1>2. 2^0 = 1 /\ 2^1 = 2 /\ 2^2 = 4 /\ 2^3 = 8 /\ 2^4 = 16 /\ 2^5 = 32 /\ 2^6 = 64 /\ 2^7 = 128
  BY SMT
<1>3. ASSUME NEW b \in 0..2
      PROVE  LET w == ByteAt(bin, 3 * q + 1 + b)
             IN /\ Bit(bin, 24 * q + 8 * b) = (w \div 128) % 2
                /\ Bit(bin, 24 * q + 8 * b + 1) = (w \div 64) % 2
                /\ Bit(bin, 24 * q + 8 * b + 2) = (w \div 32) % 2
                /\ Bit(bin, 24 * q + 8 * b + 3) = (w \div 16) % 2
                /\ Bit(bin, 24 * q + 8 * b + 4) = (w \div 8) % 2
                /\ Bit(bin, 24 * q + 8 * b + 5) = (w \div 4) % 2
                /\ Bit(bin, 24 * q + 8 * b + 6) = (w \div 2) % 2
                /\ Bit(bin, 24 * q + 8 * b + 7) = (w \div 1) % 2
  <2>1. 24 * q + 8 * b + 0 = 24 * q + 8 * b
    OBVIOUS
  <2>2. Bit(bin, 24 * q + 8 * b + 0) = (ByteAt(bin, 3 * q + 1 + b) \div 128) % 2
    BY <1>1, <1>2
  <2>3. Bit(bin, 24 * q + 8 * b + 1) = (ByteAt(bin, 3 * q + 1 + b) \div 64) % 2
    BY <1>1, <1>2
  <2>4. Bit(bin, 24 * q + 8 * b + 2) = (ByteAt(bin, 3 * q + 1 + b) \div 32) % 2
    BY <1>1, <1>2
  <2>5. Bit(bin, 24 * q + 8 * b + 3) = (ByteAt(bin, 3 * q + 1 + b) \div 16) % 2
    BY <1>1, <1>2
  <2>6. Bit(bin, 24 * q + 8 * b + 4) = (ByteAt(bin, 3 * q + 1 + b) \div 8) % 2
    BY <1>1, <1>2
  <2>7. Bit(bin, 24 * q + 8 * b + 5) = (ByteAt(bin, 3 * q + 1 + b) \div 4) % 2
    BY <1>1, <1>2
  <2>8. Bit(bin, 24 * q + 8 * b + 6) = (ByteAt(bin, 3 * q + 1 + b) \div 2) % 2
    BY <1>1, <1>2
  <2>9. Bit(bin, 24 * q + 8 * b + 7) = (ByteAt(bin, 3 * q + 1 + b) \div 1) % 2
    BY <1>1, <1>2
  <2> QED
    BY <2>1, <2>2, <2>3, <2>4, <2>5, <2>6, <2>7, <2>8, <2>9
<1>4. x \div 1 = x /\ y \div 1 = y /\ z \div 1 = z
  BY DEF Byte
<1> QED
  BY <1>3, <1>4

\* The four characters of three bytes of a string, in the two ways.
GroupAt(bin, q) == Group(ByteAt(bin, 3 * q + 1), ByteAt(bin, 3 * q + 2), ByteAt(bin, 3 * q + 3))
SextetAt(bin, n) ==
    32 * Bit(bin, n) + 16 * Bit(bin, n + 1) + 8 * Bit(bin, n + 2)
    + 4 * Bit(bin, n + 3) + 2 * Bit(bin, n + 4) + Bit(bin, n + 5)

\* Bytes, as far as a string has them and after it.
LEMMA BytesOf ==
    ASSUME NEW bin \in Seq(Byte), NEW i \in Nat
    PROVE  ByteAt(bin, i + 1) \in Byte
<1>1. CASE i + 1 <= Len(bin)
  <2>1. i + 1 \in 1..Len(bin)
    BY <1>1
  <2> QED
    BY <1>1, <2>1, ElementOfSeq DEF ByteAt
<1>2. CASE ~ (i + 1 <= Len(bin))
  BY <1>2 DEF ByteAt, Byte
<1> QED
  BY <1>1, <1>2

\* Bits put together again.
LEMMA Together ==
    ASSUME NEW a \in 0..1, NEW b \in 0..1, NEW c \in 0..1, NEW d \in 0..1, NEW e \in 0..1, NEW f \in 0..1
    PROVE  /\ 32 * a + 16 * b + 8 * c + 4 * d + 2 * e + f
                = (2 * a + b) * 16 + (8 * c + 4 * d + 2 * e + f)
           /\ 32 * a + 16 * b + 8 * c + 4 * d + 2 * e + f
                = (8 * a + 4 * b + 2 * c + d) * 4 + (2 * e + f)
OBVIOUS
LEMMA BitType ==
    ASSUME NEW x \in Byte
    PROVE  /\ (x \div 128) % 2 \in 0..1 /\ (x \div 64) % 2 \in 0..1 /\ (x \div 32) % 2 \in 0..1
           /\ (x \div 16) % 2 \in 0..1 /\ (x \div 8) % 2 \in 0..1 /\ (x \div 4) % 2 \in 0..1
           /\ (x \div 2) % 2 \in 0..1 /\ x % 2 \in 0..1
BY DEF Byte

LEMMA SextetsOfGroup ==
    ASSUME NEW bin, NEW q \in Nat, NEW r \in 0..3,
           ByteAt(bin, 3 * q + 1) \in Byte, ByteAt(bin, 3 * q + 2) \in Byte,
           ByteAt(bin, 3 * q + 3) \in Byte
    PROVE  SextetAt(bin, 24 * q + 6 * r) = GroupAt(bin, q)[1 + r]
<1> DEFINE x == ByteAt(bin, 3 * q + 1)
           y == ByteAt(bin, 3 * q + 2)
           z == ByteAt(bin, 3 * q + 3)
<1>1. x \in Byte /\ y \in Byte /\ z \in Byte
  OBVIOUS
<1>2. /\ GroupAt(bin, q)[1] = x \div 4 /\ GroupAt(bin, q)[2] = (x % 4) * 16 + (y \div 16)
      /\ GroupAt(bin, q)[3] = (y % 16) * 4 + (z \div 64) /\ GroupAt(bin, q)[4] = z % 64
  BY <1>1, GroupIs DEF GroupAt
<1>7. /\ x % 2 \in 0..1 /\ (x \div 2) % 2 \in 0..1
      /\ (y \div 128) % 2 \in 0..1 /\ (y \div 64) % 2 \in 0..1 /\ (y \div 32) % 2 \in 0..1
      /\ (y \div 16) % 2 \in 0..1 /\ (y \div 8) % 2 \in 0..1 /\ (y \div 4) % 2 \in 0..1
      /\ (y \div 2) % 2 \in 0..1 /\ y % 2 \in 0..1
      /\ (z \div 128) % 2 \in 0..1 /\ (z \div 64) % 2 \in 0..1
  BY <1>1, BitType
<1>3. CASE r = 0
  <2>1. 24 * q + 6 * r = 24 * q
    BY <1>3
  <2>2. SextetAt(bin, 24 * q) = x \div 4
    BY <1>1, ByteBits, BitsOfGroup DEF SextetAt
  <2> QED
    BY <1>2, <1>3, <2>1, <2>2
<1>4. CASE r = 1
  <2> DEFINE n == 24 * q + 6
  <2>1. /\ 24 * q + 6 * r = n /\ n + 1 = 24 * q + 7 /\ n + 2 = 24 * q + 8 /\ n + 3 = 24 * q + 9
        /\ n + 4 = 24 * q + 10 /\ n + 5 = 24 * q + 11
    BY <1>4
  <2>2. /\ Bit(bin, n) = (x \div 2) % 2 /\ Bit(bin, n + 1) = x % 2
        /\ Bit(bin, n + 2) = (y \div 128) % 2 /\ Bit(bin, n + 3) = (y \div 64) % 2
        /\ Bit(bin, n + 4) = (y \div 32) % 2 /\ Bit(bin, n + 5) = (y \div 16) % 2
    BY <1>1, <2>1, BitsOfGroup
  <2>3. /\ x % 4 = 2 * ((x \div 2) % 2) + (x % 2)
        /\ y \div 16 = 8 * ((y \div 128) % 2) + 4 * ((y \div 64) % 2)
                       + 2 * ((y \div 32) % 2) + ((y \div 16) % 2)
    BY <1>1, ByteBits
  <2> HIDE DEF n, x, y
  <2>4. SextetAt(bin, n) = (x % 4) * 16 + (y \div 16)
    BY <2>2, <2>3, <1>7, Together DEF SextetAt
  <2> QED
    BY <1>2, <1>4, <2>1, <2>4
<1>5. CASE r = 2
  <2> DEFINE n == 24 * q + 12
  <2>1. /\ 24 * q + 6 * r = n /\ n + 1 = 24 * q + 13 /\ n + 2 = 24 * q + 14 /\ n + 3 = 24 * q + 15
        /\ n + 4 = 24 * q + 16 /\ n + 5 = 24 * q + 17
    BY <1>5
  <2>2. /\ Bit(bin, n) = (y \div 8) % 2 /\ Bit(bin, n + 1) = (y \div 4) % 2
        /\ Bit(bin, n + 2) = (y \div 2) % 2 /\ Bit(bin, n + 3) = y % 2
        /\ Bit(bin, n + 4) = (z \div 128) % 2 /\ Bit(bin, n + 5) = (z \div 64) % 2
    BY <1>1, <2>1, BitsOfGroup
  <2>3. /\ y % 16 = 8 * ((y \div 8) % 2) + 4 * ((y \div 4) % 2) + 2 * ((y \div 2) % 2) + (y % 2)
        /\ z \div 64 = 2 * ((z \div 128) % 2) + ((z \div 64) % 2)
    BY <1>1, ByteBits
  <2> HIDE DEF n, y, z
  <2>4. SextetAt(bin, n) = (y % 16) * 4 + (z \div 64)
    BY <2>2, <2>3, <1>7, Together DEF SextetAt
  <2> QED
    BY <1>2, <1>5, <2>1, <2>4
<1>6. CASE r = 3
  <2> DEFINE n == 24 * q + 18
  <2>1. /\ 24 * q + 6 * r = n /\ n + 1 = 24 * q + 19 /\ n + 2 = 24 * q + 20 /\ n + 3 = 24 * q + 21
        /\ n + 4 = 24 * q + 22 /\ n + 5 = 24 * q + 23
    BY <1>6
  <2>2. SextetAt(bin, n) = z % 64
    BY <1>1, <2>1, ByteBits, BitsOfGroup DEF SextetAt
  <2> QED
    BY <1>2, <1>6, <2>1, <2>2
<1> QED
  BY <1>3, <1>4, <1>5, <1>6

\* A string that is cut off and filled up.
LEMMA FilledUp ==
    ASSUME NEW m \in Nat, NEW k \in 0..m, NEW A, NEW a \in [1..m -> A], NEW x
    PROVE  SubSeq(a, 1, k) \o [i \in 1..(m - k) |-> x]
           = [j \in 1..m |-> IF j <= k THEN a[j] ELSE x]
<1> DEFINE S == {a[j] : j \in 1..m} \union {x}
           front == SubSeq(a, 1, k)
           pad == [i \in 1..(m - k) |-> x]
           whole == [j \in 1..m |-> IF j <= k THEN a[j] ELSE x]
<1>1. a \in Seq(S) /\ Len(a) = m
  BY IsASeq
<1>2. front \in Seq(S) /\ Len(front) = k /\ \A j \in 1..k : front[j] = a[j]
  BY <1>1, SubSeqProperties
<1>3. pad \in Seq(S) /\ Len(pad) = m - k /\ \A i \in 1..(m - k) : pad[i] = x
  <2>1. m - k \in Nat
    OBVIOUS
  <2> QED
    BY <2>1, IsASeq
<1> HIDE DEF S, front, pad
<1>4. /\ front \o pad \in Seq(S) /\ Len(front \o pad) = m
      /\ \A j \in 1..m : (front \o pad)[j] = IF j <= k THEN front[j] ELSE pad[j - k]
  <2>1. front \in Seq(S) /\ pad \in Seq(S)
    BY <1>2, <1>3
  <2>2. /\ front \o pad \in Seq(S) /\ Len(front \o pad) = Len(front) + Len(pad)
        /\ \A j \in 1..(Len(front) + Len(pad)) :
               (front \o pad)[j] = IF j <= Len(front) THEN front[j] ELSE pad[j - Len(front)]
    BY <2>1, ConcatProperties
  <2>3. Len(front) = k /\ k + Len(pad) = m
    BY <1>2, <1>3
  <2> QED
    BY <2>2, <2>3
<1>5. whole \in Seq(S) /\ Len(whole) = m
  <2>1. \A j \in 1..m : (IF j <= k THEN a[j] ELSE x) \in S
    BY DEF S
  <2> QED
    BY <2>1, IsASeq
<1>6. ASSUME NEW j \in 1..m PROVE (front \o pad)[j] = whole[j]
  <2> DEFINE both == front \o pad
  <2>1. /\ both[j] = IF j <= k THEN front[j] ELSE pad[j - k]
        /\ whole[j] = IF j <= k THEN a[j] ELSE x
    BY <1>4
  <2>2. j \in Int /\ k \in Int
    OBVIOUS
  <2> HIDE DEF both, whole
  <2>3. ASSUME j <= k PROVE both[j] = whole[j]
    <3>1. j \in 1..k
      BY <2>3
    <3> QED
      BY <1>2, <2>1, <2>3, <3>1
  <2>4. ASSUME ~ (j <= k) PROVE both[j] = whole[j]
    <3>1. j - k \in 1..(m - k)
      BY <2>4
    <3> QED
      BY <1>3, <2>1, <2>4, <3>1
  <2> QED
    BY <2>3, <2>4 DEF both, whole
<1> HIDE DEF whole
<1>7. front \o pad = whole
  BY <1>4, <1>5, <1>6, SeqEqual
<1> QED
  BY <1>7 DEF front, pad, whole

\* The characters of a string of bytes in the two ways.
LEMMA SextetsAre ==
    ASSUME NEW bin \in Seq(Byte), NEW j \in 1..(4 * ((Len(bin) + 2) \div 3))
    PROVE  SextetAt(bin, 6 * (j - 1)) = GroupAt(bin, (j - 1) \div 4)[1 + ((j - 1) % 4)]
<1> DEFINE q == (j - 1) \div 4
           r == (j - 1) % 4
<1>1. Len(bin) \in Nat /\ j \in Nat /\ j >= 1
  BY LenProperties
<1>2. q \in Nat /\ r \in 0..3 /\ j - 1 = 4 * q + r
  BY SMT, <1>1
<1>3. 6 * (j - 1) = 24 * q + 6 * r
  BY <1>2
<1> HIDE DEF q, r
<1>4. /\ 3 * q + 1 = 3 * q + 0 + 1 /\ 3 * q + 2 = (3 * q + 1) + 1 /\ 3 * q + 3 = (3 * q + 2) + 1
      /\ 3 * q \in Nat /\ 3 * q + 1 \in Nat /\ 3 * q + 2 \in Nat
  BY <1>2
<1>5. /\ ByteAt(bin, 3 * q + 1) \in Byte /\ ByteAt(bin, 3 * q + 2) \in Byte
      /\ ByteAt(bin, 3 * q + 3) \in Byte
  BY <1>4, BytesOf
<1>6. SextetAt(bin, 24 * q + 6 * r) = GroupAt(bin, q)[1 + r]
  BY <1>2, <1>5, SextetsOfGroup
<1> QED
  BY <1>3, <1>6 DEF q, r

\* The polyfill of btoa makes the characters that the browser makes of the
\* bits, and throws for the same strings (base64.js 72-88).
THEOREM BtoaAgrees ==
    ASSUME NEW bin \in Seq(Nat)
    PROVE  BtoaPolyfill(bin) = NativeBtoa(bin)
<1> DEFINE n == Len(bin)
           groups == (n + 2) \div 3
           sextets == (8 * n + 5) \div 6
           asc == [j \in 1..(4 * groups) |-> GroupAt(bin, (j - 1) \div 4)[1 + ((j - 1) % 4)]]
           native == [j \in 1..(4 * groups) |->
                         IF j <= sextets THEN SextetAt(bin, 6 * (j - 1)) ELSE Equals]
           poly == IF n % 3 = 0 THEN asc
                   ELSE SubSeq(asc, 1, Len(asc) + (n % 3) - 3) \o [i \in 1..(3 - (n % 3)) |-> Equals]
<1>1. CASE \E i \in DOMAIN bin : bin[i] > 255
  BY <1>1 DEF BtoaPolyfill, NativeBtoa
<1>2. CASE \A i \in DOMAIN bin : ~ (bin[i] > 255)
  <2>1. bin \in Seq(Byte) /\ n \in Nat
    <3>1. \A i \in 1..Len(bin) : bin[i] \in Nat
      BY ElementOfSeq
    <3>2. \A i \in 1..Len(bin) : bin[i] \in Byte
      <4> TAKE i \in 1..Len(bin)
      <4>1. bin[i] \in Nat /\ ~ (bin[i] > 255)
        <5>1. i \in DOMAIN bin
          BY LenProperties
        <5> QED
          BY <1>2, <3>1, <5>1
      <4>2. \A c \in Nat : ~ (c > 255) => c \in Byte
        BY DEF Byte
      <4> QED
        BY <4>1, <4>2, Zenon
    <3> QED
      BY <3>2
  <2>2. BtoaPolyfill(bin) = poly
    BY <1>2 DEF BtoaPolyfill, GroupAt
  <2>3. NativeBtoa(bin) = native
    BY <1>2 DEF NativeBtoa, SextetAt
  <2>4. ASSUME NEW j \in 1..(4 * groups)
        PROVE  asc[j] = SextetAt(bin, 6 * (j - 1))
    BY <2>1, SextetsAre
  <2>5. groups \in Nat /\ Len(asc) = 4 * groups /\ DOMAIN asc = 1..(4 * groups)
    BY <2>1
  <2>6. /\ n % 3 = 0 => sextets = 4 * groups
        /\ n % 3 # 0 => sextets = 4 * groups + (n % 3) - 3
        /\ n % 3 \in 0..2
    <3> DEFINE q == n \div 3
    <3>1. q \in Nat /\ n % 3 \in 0..2 /\ n = 3 * q + (n % 3)
      BY SMT, <2>1
    <3>2. CASE n % 3 = 0
      BY SMT, <3>1, <3>2
    <3>3. CASE n % 3 = 1
      BY SMT, <3>1, <3>3
    <3>4. CASE n % 3 = 2
      BY SMT, <3>1, <3>4
    <3> QED
      BY <3>1, <3>2, <3>3, <3>4
  <2> HIDE DEF groups, sextets, asc
  <2>7. CASE n % 3 = 0
    <3>1. poly = asc
      BY <2>7
    <3>2. asc = native
      BY <2>4, <2>5, <2>6, <2>7 DEF asc
    <3> QED
      BY <2>2, <2>3, <3>1, <3>2
  <2>8. CASE n % 3 # 0
    <3> DEFINE m == 4 * groups
               pad == n % 3
    <3>1. m \in Nat /\ pad \in 1..2 /\ sextets = m + pad - 3 /\ Len(asc) = m /\ m >= 4
      <4>1. groups >= 1
        <5>1. n >= 1
          BY <2>1, <2>8
        <5> QED
          BY <2>1, <5>1 DEF groups
      <4> QED
        BY <2>5, <2>6, <2>8, <4>1
    <3> DEFINE A == {asc[j] : j \in 1..m}
    <3>2. asc \in [1..m -> A]
      BY DEF asc
    <3>3. poly = SubSeq(asc, 1, m + pad - 3) \o [i \in 1..(3 - pad) |-> Equals]
      BY <2>8, <3>1
    <3> HIDE DEF m, pad, poly, A
    <3>4. sextets \in 0..m /\ m - sextets = 3 - pad /\ m + pad - 3 = sextets
      BY <3>1
    <3>5. poly = [j \in 1..m |-> IF j <= sextets THEN asc[j] ELSE Equals]
      <4>1. poly = SubSeq(asc, 1, sextets) \o [i \in 1..(m - sextets) |-> Equals]
        BY <3>3, <3>4, Zenon
      <4>2. SubSeq(asc, 1, sextets) \o [i \in 1..(m - sextets) |-> Equals]
            = [j \in 1..m |-> IF j <= sextets THEN asc[j] ELSE Equals]
        BY <3>1, <3>2, <3>4, FilledUp
      <4> QED
        BY <4>1, <4>2, Zenon
    <3>6. native = [j \in 1..m |-> IF j <= sextets THEN asc[j] ELSE Equals]
      BY <2>4 DEF m
    <3> QED
      BY <2>2, <2>3, <3>5, <3>6
  <2> QED
    BY <2>7, <2>8
<1> QED
  BY <1>1, <1>2

-----------------------------------------------------------------------------
(* atob.                                                                    *)

\* The six bits of four characters, a byte at a time.
LEMMA UngroupIs ==
    ASSUME NEW a \in Sextet, NEW b \in Sextet, NEW c \in Sextet, NEW d \in Sextet
    PROVE  Ungroup(a, b, c, d) = <<a * 4 + (b \div 16), (b % 16) * 16 + (c \div 4),
                                   (c % 4) * 64 + d>>
<1> DEFINE u == a * 262144 + b * 4096 + c * 64 + d
<1>1. /\ a \in Int /\ 0 <= a /\ a <= 63 /\ b \in Int /\ 0 <= b /\ b <= 63
      /\ c \in Int /\ 0 <= c /\ c <= 63 /\ d \in Int /\ 0 <= d /\ d <= 63
  BY DEF Sextet
<1>2. u \div 65536 = a * 4 + (b \div 16)
  BY SMT, <1>1
<1>3. (a * 4 + (b \div 16)) % 256 = a * 4 + (b \div 16)
  BY SMT, <1>1
<1>4. u \div 256 = a * 1024 + b * 16 + (c \div 4)
  BY SMT, <1>1
<1>5. (a * 1024 + b * 16 + (c \div 4)) % 256 = (b % 16) * 16 + (c \div 4)
  BY SMT, <1>1
<1>6. u % 256 = (c % 4) * 64 + d
  BY SMT, <1>1
<1> HIDE DEF u
<1>7. Ungroup(a, b, c, d) = <<(u \div 65536) % 256, (u \div 256) % 256, u % 256>>
  BY DEF Ungroup, u
<1> QED
  BY <1>2, <1>3, <1>4, <1>5, <1>6, <1>7

\* The bits of the characters of a text, as atob of the browser numbers them.
TextBit(text, n) == (text[1 + (n \div 6)] \div 2^(5 - (n % 6))) % 2
OctetAt(text, n) ==
    128 * TextBit(text, n) + 64 * TextBit(text, n + 1) + 32 * TextBit(text, n + 2)
    + 16 * TextBit(text, n + 3) + 8 * TextBit(text, n + 4) + 4 * TextBit(text, n + 5)
    + 2 * TextBit(text, n + 6) + TextBit(text, n + 7)

LEMMA BitsOfCharacter ==
    ASSUME NEW text, NEW q \in Nat, NEW b \in 0..3, NEW x, x = text[4 * q + 1 + b], x \in Sextet
    PROVE  /\ TextBit(text, 24 * q + 6 * b) = (x \div 32) % 2
           /\ TextBit(text, 24 * q + 6 * b + 1) = (x \div 16) % 2
           /\ TextBit(text, 24 * q + 6 * b + 2) = (x \div 8) % 2
           /\ TextBit(text, 24 * q + 6 * b + 3) = (x \div 4) % 2
           /\ TextBit(text, 24 * q + 6 * b + 4) = (x \div 2) % 2
           /\ TextBit(text, 24 * q + 6 * b + 5) = x % 2
<1>1. ASSUME NEW e \in 0..5
      PROVE  TextBit(text, 24 * q + 6 * b + e) = (x \div 2^(5 - e)) % 2
  <2>1. 1 + ((24 * q + 6 * b + e) \div 6) = 4 * q + 1 + b /\ (24 * q + 6 * b + e) % 6 = e
    BY SMT
  <2> QED
    BY <2>1 DEF TextBit
<1>2. 2^0 = 1 /\ 2^1 = 2 /\ 2^2 = 4 /\ 2^3 = 8 /\ 2^4 = 16 /\ 2^5 = 32
  BY SMT
<1>3. 24 * q + 6 * b + 0 = 24 * q + 6 * b /\ x \div 1 = x
  BY DEF Sextet
<1>4. TextBit(text, 24 * q + 6 * b + 0) = (x \div 32) % 2
  BY <1>1, <1>2
<1>5. TextBit(text, 24 * q + 6 * b + 1) = (x \div 16) % 2
  BY <1>1, <1>2
<1>6. TextBit(text, 24 * q + 6 * b + 2) = (x \div 8) % 2
  BY <1>1, <1>2
<1>7. TextBit(text, 24 * q + 6 * b + 3) = (x \div 4) % 2
  BY <1>1, <1>2
<1>8. TextBit(text, 24 * q + 6 * b + 4) = (x \div 2) % 2
  BY <1>1, <1>2
<1>9. TextBit(text, 24 * q + 6 * b + 5) = (x \div 1) % 2
  BY <1>1, <1>2
<1> QED
  BY <1>3, <1>4, <1>5, <1>6, <1>7, <1>8, <1>9

LEMMA CharacterBits ==
    ASSUME NEW x \in Sextet
    PROVE  /\ x \div 4 = 8 * ((x \div 32) % 2) + 4 * ((x \div 16) % 2)
                         + 2 * ((x \div 8) % 2) + ((x \div 4) % 2)
           /\ x % 4 = 2 * ((x \div 2) % 2) + (x % 2)
           /\ x \div 16 = 2 * ((x \div 32) % 2) + ((x \div 16) % 2)
           /\ x % 16 = 8 * ((x \div 8) % 2) + 4 * ((x \div 4) % 2)
                       + 2 * ((x \div 2) % 2) + (x % 2)
           /\ x = 32 * ((x \div 32) % 2) + 16 * ((x \div 16) % 2) + 8 * ((x \div 8) % 2)
                  + 4 * ((x \div 4) % 2) + 2 * ((x \div 2) % 2) + (x % 2)
           /\ (x \div 32) % 2 \in 0..1 /\ (x \div 16) % 2 \in 0..1 /\ (x \div 8) % 2 \in 0..1
           /\ (x \div 4) % 2 \in 0..1 /\ (x \div 2) % 2 \in 0..1 /\ x % 2 \in 0..1
<1>1. x \in Byte /\ x \div 128 = 0 /\ x \div 64 = 0 /\ x % 64 = x
  BY SMT DEF Sextet, Byte
<1>2. (x \div 128) % 2 = 0 /\ (x \div 64) % 2 = 0
  BY SMT, <1>1
<1>3. x \div 4 = 32 * 0 + 16 * 0 + 8 * ((x \div 32) % 2) + 4 * ((x \div 16) % 2)
                 + 2 * ((x \div 8) % 2) + ((x \div 4) % 2)
  BY <1>1, <1>2, ByteBits
<1>4. x \div 16 = 8 * 0 + 4 * 0 + 2 * ((x \div 32) % 2) + ((x \div 16) % 2)
  BY <1>1, <1>2, ByteBits
<1>5. /\ (x \div 32) % 2 \in 0..1 /\ (x \div 16) % 2 \in 0..1 /\ (x \div 8) % 2 \in 0..1
      /\ (x \div 4) % 2 \in 0..1 /\ (x \div 2) % 2 \in 0..1 /\ x % 2 \in 0..1
  BY <1>1, BitType
<1>6. /\ x % 4 = 2 * ((x \div 2) % 2) + (x % 2)
      /\ x % 16 = 8 * ((x \div 8) % 2) + 4 * ((x \div 4) % 2) + 2 * ((x \div 2) % 2) + (x % 2)
      /\ x = 32 * ((x \div 32) % 2) + 16 * ((x \div 16) % 2) + 8 * ((x \div 8) % 2)
             + 4 * ((x \div 4) % 2) + 2 * ((x \div 2) % 2) + (x % 2)
  BY <1>1, ByteBits
<1> DEFINE f == (x \div 32) % 2
           e == (x \div 16) % 2
           d == (x \div 8) % 2
           c == (x \div 4) % 2
<1>7. x \div 4 = 8 * f + 4 * e + 2 * d + c
  <2>1. f \in 0..1 /\ e \in 0..1 /\ d \in 0..1 /\ c \in 0..1
    BY <1>5, Zenon
  <2>2. x \div 4 = 32 * 0 + 16 * 0 + 8 * f + 4 * e + 2 * d + c
    BY <1>3, Zenon
  <2> HIDE DEF f, e, d, c
  <2> QED
    BY <2>1, <2>2
<1>8. x \div 16 = 2 * f + e
  <2>1. f \in 0..1 /\ e \in 0..1
    BY <1>5, Zenon
  <2>2. x \div 16 = 8 * 0 + 4 * 0 + 2 * f + e
    BY <1>4, Zenon
  <2> HIDE DEF f, e
  <2> QED
    BY <2>1, <2>2
<1> QED
  BY <1>5, <1>6, <1>7, <1>8, Zenon

\* Eight bits put together again.
LEMMA EightTogether ==
    ASSUME NEW a \in 0..1, NEW b \in 0..1, NEW c \in 0..1, NEW d \in 0..1,
           NEW e \in 0..1, NEW f \in 0..1, NEW g \in 0..1, NEW h \in 0..1
    PROVE  LET all == 128 * a + 64 * b + 32 * c + 16 * d + 8 * e + 4 * f + 2 * g + h
           IN /\ all = (32 * a + 16 * b + 8 * c + 4 * d + 2 * e + f) * 4 + (2 * g + h)
              /\ all = (8 * a + 4 * b + 2 * c + d) * 16 + (8 * e + 4 * f + 2 * g + h)
              /\ all = (2 * a + b) * 64 + (32 * c + 16 * d + 8 * e + 4 * f + 2 * g + h)
OBVIOUS

\* The three bytes of a group of characters, as far as the characters are
\* there.
LEMMA OctetsOfGroup ==
    ASSUME NEW text, NEW q \in Nat, NEW x \in Sextet, NEW y \in Sextet
    PROVE  /\ text[4 * q + 1] = x /\ text[4 * q + 2] = y
                => OctetAt(text, 24 * q) = x * 4 + (y \div 16)
           /\ text[4 * q + 2] = x /\ text[4 * q + 3] = y
                => OctetAt(text, 24 * q + 8) = (x % 16) * 16 + (y \div 4)
           /\ text[4 * q + 3] = x /\ text[4 * q + 4] = y
                => OctetAt(text, 24 * q + 16) = (x % 4) * 64 + y
<1> DEFINE Bits(n, z) ==
               /\ TextBit(text, n) = (z \div 32) % 2 /\ TextBit(text, n + 1) = (z \div 16) % 2
               /\ TextBit(text, n + 2) = (z \div 8) % 2 /\ TextBit(text, n + 3) = (z \div 4) % 2
               /\ TextBit(text, n + 4) = (z \div 2) % 2 /\ TextBit(text, n + 5) = z % 2
<1>1. ASSUME NEW b \in 0..3, NEW z \in Sextet, text[4 * q + 1 + b] = z
      PROVE  Bits(24 * q + 6 * b, z)
  BY <1>1, BitsOfCharacter
<1> HIDE DEF Bits
<1>2. /\ 4 * q + 1 = 4 * q + 1 + 0 /\ 4 * q + 2 = 4 * q + 1 + 1
      /\ 4 * q + 3 = 4 * q + 1 + 2 /\ 4 * q + 4 = 4 * q + 1 + 3
      /\ 24 * q = 24 * q + 6 * 0 /\ 24 * q + 6 = 24 * q + 6 * 1
      /\ 24 * q + 12 = 24 * q + 6 * 2 /\ 24 * q + 18 = 24 * q + 6 * 3
  OBVIOUS
<1> DEFINE x1 == (x \div 32) % 2
           x2 == (x \div 16) % 2
           x3 == (x \div 8) % 2
           x4 == (x \div 4) % 2
           x5 == (x \div 2) % 2
           x6 == x % 2
           y1 == (y \div 32) % 2
           y2 == (y \div 16) % 2
           y3 == (y \div 8) % 2
           y4 == (y \div 4) % 2
           y5 == (y \div 2) % 2
           y6 == y % 2
<1>3. /\ x1 \in 0..1 /\ x2 \in 0..1 /\ x3 \in 0..1 /\ x4 \in 0..1 /\ x5 \in 0..1 /\ x6 \in 0..1
      /\ y1 \in 0..1 /\ y2 \in 0..1 /\ y3 \in 0..1 /\ y4 \in 0..1 /\ y5 \in 0..1 /\ y6 \in 0..1
  BY CharacterBits, Zenon
<1>4. /\ x = 32 * x1 + 16 * x2 + 8 * x3 + 4 * x4 + 2 * x5 + x6
      /\ x % 16 = 8 * x3 + 4 * x4 + 2 * x5 + x6 /\ x % 4 = 2 * x5 + x6
  BY CharacterBits, Zenon
<1>5. /\ y \div 16 = 2 * y1 + y2 /\ y \div 4 = 8 * y1 + 4 * y2 + 2 * y3 + y4
      /\ y = 32 * y1 + 16 * y2 + 8 * y3 + 4 * y4 + 2 * y5 + y6
  BY CharacterBits, Zenon
<1>6. ASSUME text[4 * q + 1] = x, text[4 * q + 2] = y
      PROVE  OctetAt(text, 24 * q) = x * 4 + (y \div 16)
  <2>1. Bits(24 * q, x) /\ Bits(24 * q + 6, y)
    BY <1>1, <1>2, <1>6
  <2>2. 24 * q + 6 + 1 = 24 * q + 7
    OBVIOUS
  <2>3. /\ TextBit(text, 24 * q) = x1 /\ TextBit(text, 24 * q + 1) = x2
        /\ TextBit(text, 24 * q + 2) = x3 /\ TextBit(text, 24 * q + 3) = x4
        /\ TextBit(text, 24 * q + 4) = x5 /\ TextBit(text, 24 * q + 5) = x6
        /\ TextBit(text, 24 * q + 6) = y1 /\ TextBit(text, 24 * q + 7) = y2
    BY <2>1, <2>2, Zenon DEF Bits
  <2> HIDE DEF x1, x2, x3, x4, x5, x6, y1, y2
  <2>4. OctetAt(text, 24 * q) = 128 * x1 + 64 * x2 + 32 * x3 + 16 * x4 + 8 * x5 + 4 * x6
                                + 2 * y1 + y2
    BY <2>3, Zenon DEF OctetAt
  <2> QED
    BY <1>3, <1>4, <1>5, <2>4, EightTogether
<1>7. ASSUME text[4 * q + 2] = x, text[4 * q + 3] = y
      PROVE  OctetAt(text, 24 * q + 8) = (x % 16) * 16 + (y \div 4)
  <2> DEFINE n == 24 * q + 8
  <2>1. Bits(24 * q + 6, x) /\ Bits(24 * q + 12, y)
    BY <1>1, <1>2, <1>7
  <2>2. /\ n = 24 * q + 6 + 2 /\ n + 1 = 24 * q + 6 + 3 /\ n + 2 = 24 * q + 6 + 4
        /\ n + 3 = 24 * q + 6 + 5 /\ n + 4 = 24 * q + 12 /\ n + 5 = 24 * q + 12 + 1
        /\ n + 6 = 24 * q + 12 + 2 /\ n + 7 = 24 * q + 12 + 3
    OBVIOUS
  <2> HIDE DEF n
  <2>3. /\ TextBit(text, n) = x3 /\ TextBit(text, n + 1) = x4
        /\ TextBit(text, n + 2) = x5 /\ TextBit(text, n + 3) = x6
        /\ TextBit(text, n + 4) = y1 /\ TextBit(text, n + 5) = y2
        /\ TextBit(text, n + 6) = y3 /\ TextBit(text, n + 7) = y4
    BY <2>1, <2>2, Zenon DEF Bits
  <2> HIDE DEF x3, x4, x5, x6, y1, y2, y3, y4
  <2>4. OctetAt(text, n) = 128 * x3 + 64 * x4 + 32 * x5 + 16 * x6 + 8 * y1 + 4 * y2
                           + 2 * y3 + y4
    BY <2>3, Zenon DEF OctetAt
  <2>5. OctetAt(text, n) = (x % 16) * 16 + (y \div 4)
    BY <1>3, <1>4, <1>5, <2>4, EightTogether
  <2> QED
    BY <2>5 DEF n
<1>8. ASSUME text[4 * q + 3] = x, text[4 * q + 4] = y
      PROVE  OctetAt(text, 24 * q + 16) = (x % 4) * 64 + y
  <2> DEFINE n == 24 * q + 16
  <2>1. Bits(24 * q + 12, x) /\ Bits(24 * q + 18, y)
    BY <1>1, <1>2, <1>8
  <2>2. /\ n = 24 * q + 12 + 4 /\ n + 1 = 24 * q + 12 + 5 /\ n + 2 = 24 * q + 18
        /\ n + 3 = 24 * q + 18 + 1 /\ n + 4 = 24 * q + 18 + 2 /\ n + 5 = 24 * q + 18 + 3
        /\ n + 6 = 24 * q + 18 + 4 /\ n + 7 = 24 * q + 18 + 5
    OBVIOUS
  <2> HIDE DEF n
  <2>3. /\ TextBit(text, n) = x5 /\ TextBit(text, n + 1) = x6
        /\ TextBit(text, n + 2) = y1 /\ TextBit(text, n + 3) = y2
        /\ TextBit(text, n + 4) = y3 /\ TextBit(text, n + 5) = y4
        /\ TextBit(text, n + 6) = y5 /\ TextBit(text, n + 7) = y6
    BY <2>1, <2>2, Zenon DEF Bits
  <2> HIDE DEF x5, x6, y1, y2, y3, y4, y5, y6
  <2>4. OctetAt(text, n) = 128 * x5 + 64 * x6 + 32 * y1 + 16 * y2 + 8 * y3 + 4 * y4
                           + 2 * y5 + y6
    BY <2>3, Zenon DEF OctetAt
  <2>5. OctetAt(text, n) = (x % 4) * 64 + y
    BY <1>3, <1>4, <1>5, <2>4, EightTogether
  <2> QED
    BY <2>5 DEF n
<1> QED
  BY <1>6, <1>7, <1>8

Character == Sextet \union NotBase64

\* A text of k characters, followed by the padding that b64re allows.
WellformedAt(asc, k) ==
    /\ \A i \in DOMAIN asc : (i <= k) = (asc[i] \in Sextet)
    /\ \A i \in (k + 1)..Len(asc) : asc[i] = Equals
    /\ \/ k % 4 = 0 /\ Len(asc) = k
       \/ k % 4 = 2 /\ Len(asc) \in {k, k + 2}
       \/ k % 4 = 3 /\ Len(asc) \in {k, k + 1}

\* The characters with the padding that was left out.
Filled(asc) == asc \o [i \in 1..((4 - (Len(asc) % 4)) % 4) |-> Equals]
DigitAt(asc, i) == Filled(asc)[i] % 64

LEMMA NoSextet == Equals \notin Sextet
BY DEF Equals, Sextet
LEMMA SextetKept ==
    ASSUME NEW x \in Sextet
    PROVE  x % 64 = x
BY SMT DEF Sextet

\* A function on the first numbers is a sequence.
LEMMA FunctionSeq ==
    ASSUME NEW m \in Nat, NEW S, NEW f \in [1..m -> S]
    PROVE  f \in Seq(S) /\ Len(f) = m /\ DOMAIN f = 1..m
OBVIOUS

\* The first part of a sequence.
LEMMA CutOff ==
    ASSUME NEW S, NEW s \in Seq(S), NEW k \in 0..Len(s)
    PROVE  /\ SubSeq(s, 1, k) \in Seq(S) /\ Len(SubSeq(s, 1, k)) = k
           /\ \A i \in 1..k : SubSeq(s, 1, k)[i] = s[i]
<1>1. Len(s) \in Nat /\ \A i \in 1..k : s[i] \in S
  BY ElementOfSeq, LenProperties
<1>2. k \in Int /\ 1 \in Int
  BY <1>1
<1>3. /\ SubSeq(s, 1, k) \in Seq(S) /\ Len(SubSeq(s, 1, k)) = IF 1 <= k THEN k - 1 + 1 ELSE 0
      /\ \A i \in 1..(k - 1 + 1) : SubSeq(s, 1, k)[i] = s[1 + i - 1]
  BY <1>1, <1>2, SubSeqProperties
<1>4. k - 1 + 1 = k /\ (~ (1 <= k) => k = 0) /\ \A i \in 1..k : 1 + i - 1 = i
  BY <1>1
<1> QED
  BY <1>3, <1>4

\* Two sequences one after the other.
LEMMA Joined ==
    ASSUME NEW S, NEW s \in Seq(S), NEW t \in Seq(S)
    PROVE  /\ s \o t \in Seq(S) /\ Len(s \o t) = Len(s) + Len(t)
           /\ Len(s) \in Nat /\ Len(t) \in Nat
           /\ \A i \in 1..Len(s) : (s \o t)[i] = s[i]
           /\ \A i \in 1..Len(t) : (s \o t)[Len(s) + i] = t[i]
<1> DEFINE both == s \o t
           m == Len(s)
           n == Len(t)
<1>1. m \in Nat /\ n \in Nat
  BY LenProperties
<1>2. /\ both \in Seq(S) /\ Len(both) = m + n
      /\ \A i \in 1..(m + n) : both[i] = IF i <= m THEN s[i] ELSE t[i - m]
  BY ConcatProperties
<1> HIDE DEF both, m, n
<1>3. \A i \in 1..m : both[i] = s[i]
  BY <1>1, <1>2
<1>4. \A i \in 1..n : both[m + i] = t[i]
  <2>1. \A j \in 1..(m + n) : ~ (j <= m) => both[j] = t[j - m]
    BY <1>2
  <2> TAKE i \in 1..n
  <2>2. PICK j \in 1..(m + n) : j = m + i /\ ~ (j <= m) /\ j - m = i
    BY <1>1
  <2> QED
    BY <2>1, <2>2, Zenon
<1> QED
  BY <1>1, <1>2, <1>3, <1>4 DEF both, m, n

\* Padding.
LEMMA PaddingIs ==
    ASSUME NEW m \in Nat
    PROVE  LET pad == [i \in 1..m |-> Equals]
           IN pad \in Seq(Character) /\ Len(pad) = m /\ \A i \in 1..m : pad[i] = Equals
<1>1. Equals \in Character
  BY DEF Character, NotBase64
<1> QED
  BY <1>1, IsASeq

\* The browser sees the same characters in a well formed string as b64re.
LEMMA UnpaddedIs ==
    ASSUME NEW asc \in Seq(Character), NEW k \in 0..Len(asc), WellformedAt(asc, k)
    PROVE  Unpadded(asc) = SubSeq(asc, 1, k)
<1> DEFINE m == Len(asc)
           ends(i) == m % 4 = 0 /\ m > i /\ asc[m - i] = Equals
<1>1. m \in Nat /\ DOMAIN asc = 1..m
  BY LenProperties
<1>2. /\ \A i \in 1..k : asc[i] # Equals
      /\ \A i \in (k + 1)..m : asc[i] = Equals
  <2>1. \A i \in 1..k : i \in DOMAIN asc /\ i <= k
    BY <1>1
  <2> QED
    BY <2>1, NoSextet DEF WellformedAt
<1>3. Unpadded(asc) = SubSeq(asc, 1, m - (IF ends(0) THEN IF ends(1) THEN 2 ELSE 1 ELSE 0))
  BY DEF Unpadded
<1>4. \/ k % 4 = 0 /\ m = k
      \/ k % 4 = 2 /\ (m = k \/ m = k + 2)
      \/ k % 4 = 3 /\ (m = k \/ m = k + 1)
  BY DEF WellformedAt
<1> HIDE DEF m
<1>5. CASE m = k
  <2>1. m = 0 \/ m \in 1..k
    BY <1>1, <1>5
  <2>2. ~ ends(0)
    <3>1. m > 0 => asc[m - 0] # Equals
      BY <1>1, <1>2, <2>1
    <3> QED
      BY <3>1
  <2>3. m - 0 = k
    BY <1>1, <1>5
  <2> QED
    BY <1>3, <2>2, <2>3
<1>6. CASE k % 4 = 2 /\ m = k + 2
  <2>1. m % 4 = 0 /\ m > 1 /\ m - 0 \in (k + 1)..m /\ m - 1 \in (k + 1)..m /\ m - 2 = k
    BY <1>1, <1>6
  <2>2. ends(0) /\ ends(1)
    BY <1>1, <1>2, <2>1
  <2> QED
    BY <1>3, <2>1, <2>2
<1>7. CASE k % 4 = 3 /\ m = k + 1
  <2>1. m % 4 = 0 /\ m > 1 /\ m - 0 \in (k + 1)..m /\ m - 1 \in 1..k /\ m - 1 = k
    BY <1>1, <1>7
  <2>2. ends(0) /\ ~ ends(1)
    BY <1>1, <1>2, <2>1
  <2> QED
    BY <1>3, <2>1, <2>2
<1> QED
  BY <1>4, <1>5, <1>6, <1>7

\* What the browser takes, b64re takes.
LEMMA TakenByBoth ==
    ASSUME NEW asc \in Seq(Character),
           Len(Unpadded(asc)) % 4 # 1,
           \A i \in DOMAIN Unpadded(asc) : Unpadded(asc)[i] \in Sextet
    PROVE  \E k \in 0..Len(asc) : WellformedAt(asc, k)
<1> DEFINE m == Len(asc)
           text == Unpadded(asc)
           k == Len(text)
           ends(i) == m % 4 = 0 /\ m > i /\ asc[m - i] = Equals
           drop == IF ends(0) THEN IF ends(1) THEN 2 ELSE 1 ELSE 0
<1>1. m \in Nat /\ DOMAIN asc = 1..m
  BY LenProperties
<1>2. drop \in 0..2 /\ m - drop \in 0..m
  BY <1>1
<1>3. text = SubSeq(asc, 1, m - drop)
  BY DEF Unpadded
<1>4. k = m - drop /\ k \in 0..m /\ DOMAIN text = 1..k /\ \A i \in 1..k : text[i] = asc[i]
  <2>1. /\ text \in Seq(Character) /\ Len(text) = m - drop
        /\ \A i \in 1..(m - drop) : text[i] = asc[i]
    BY <1>2, <1>3, CutOff
  <2> HIDE DEF text, drop
  <2>2. DOMAIN text = 1..Len(text)
    BY <2>1, LenProperties, Zenon
  <2> QED
    BY <1>2, <2>1, <2>2
<1>5. k % 4 # 1 /\ \A i \in 1..k : asc[i] \in Sextet
  BY <1>4
<1>6. drop = 1 => ends(0)
  OBVIOUS
<1>7. drop = 2 => ends(0) /\ ends(1)
  OBVIOUS
<1> HIDE DEF m, text, k, drop
<1>8. \A i \in (k + 1)..m : asc[i] = Equals
  <2> TAKE i \in (k + 1)..m
  <2>1. \/ drop = 1 /\ i = m - 0
        \/ drop = 2 /\ (i = m - 0 \/ i = m - 1)
    BY <1>1, <1>2, <1>4
  <2> QED
    BY <1>6, <1>7, <2>1
<1>9. \A i \in 1..m : (i <= k) = (asc[i] \in Sextet)
  <2> TAKE i \in 1..m
  <2>1. CASE i <= k
    <3>1. i \in 1..k
      BY <1>1, <1>4, <2>1
    <3> QED
      BY <1>5, <2>1, <3>1
  <2>2. CASE ~ (i <= k)
    <3>1. i \in (k + 1)..m
      BY <1>1, <1>4, <2>2
    <3> QED
      BY <1>8, <2>2, <3>1, NoSextet
  <2> QED
    BY <2>1, <2>2
<1>10. \/ k % 4 = 0 /\ m = k
       \/ k % 4 = 2 /\ m \in {k, k + 2}
       \/ k % 4 = 3 /\ m \in {k, k + 1}
  <2>1. k \in Nat /\ k % 4 \in {0, 2, 3} /\ m = k + drop
    BY <1>1, <1>2, <1>4, <1>5
  <2>2. drop # 0 => m % 4 = 0
    BY <1>2, <1>6, <1>7
  <2>3. CASE drop = 0
    BY <2>1, <2>3
  <2>4. CASE drop = 1
    <3>1. k % 4 = 3
      BY <2>1, <2>2, <2>4
    <3> QED
      BY <2>1, <2>4, <3>1
  <2>5. CASE drop = 2
    <3>1. k % 4 = 2
      BY <2>1, <2>2, <2>5
    <3> QED
      BY <2>1, <2>5, <3>1
  <2> QED
    BY <1>2, <2>3, <2>4, <2>5
<1>11. WellformedAt(asc, k)
  BY <1>1, <1>8, <1>9, <1>10 DEF WellformedAt, m
<1> QED
  BY <1>4, <1>11 DEF m

\* The polyfill fills the last group up.
LEMMA FilledIs ==
    ASSUME NEW asc \in Seq(Character), NEW k \in 0..Len(asc), WellformedAt(asc, k)
    PROVE  /\ Filled(asc) \in Seq(Character)
           /\ Len(Filled(asc)) = 4 * ((k + 3) \div 4)
           /\ \A i \in 1..k : Filled(asc)[i] = asc[i] /\ asc[i] \in Sextet
           /\ \A i \in (k + 1)..(4 * ((k + 3) \div 4)) : Filled(asc)[i] = Equals
<1> DEFINE m == Len(asc)
           p == (4 - (m % 4)) % 4
           pad == [i \in 1..p |-> Equals]
           all == Filled(asc)
           n == 4 * ((k + 3) \div 4)
<1>1. m \in Nat /\ DOMAIN asc = 1..m /\ p \in Nat
  BY LenProperties
<1>2. /\ \A i \in 1..k : asc[i] \in Sextet
      /\ \A i \in (k + 1)..m : asc[i] = Equals
  <2>1. \A i \in 1..k : i \in DOMAIN asc /\ i <= k
    BY <1>1
  <2> QED
    BY <2>1 DEF WellformedAt
<1>3. \/ k % 4 = 0 /\ m = k
      \/ k % 4 = 2 /\ (m = k \/ m = k + 2)
      \/ k % 4 = 3 /\ (m = k \/ m = k + 1)
  BY DEF WellformedAt
<1>4. pad \in Seq(Character) /\ Len(pad) = p /\ \A i \in 1..p : pad[i] = Equals
  BY <1>1, PaddingIs
<1>5. all = asc \o pad
  BY DEF Filled
<1>6. m + p = n /\ k \in Nat
  <2>1. k \in Nat
    BY <1>1
  <2> HIDE DEF m
  <2>2. CASE k % 4 = 0
    BY SMT, <1>3, <2>1, <2>2
  <2>3. CASE k % 4 = 2 /\ m = k
    BY SMT, <1>3, <2>1, <2>3
  <2>4. CASE k % 4 = 2 /\ m = k + 2
    BY SMT, <1>3, <2>1, <2>4
  <2>5. CASE k % 4 = 3 /\ m = k
    BY SMT, <1>3, <2>1, <2>5
  <2>6. CASE k % 4 = 3 /\ m = k + 1
    BY SMT, <1>3, <2>1, <2>6
  <2> QED
    BY <1>3, <2>1, <2>2, <2>3, <2>4, <2>5, <2>6
<1> HIDE DEF p, pad, all, n
<1>7. /\ all \in Seq(Character) /\ Len(all) = m + p
      /\ \A i \in 1..m : all[i] = asc[i]
      /\ \A i \in 1..p : all[m + i] = pad[i]
  <2>1. asc \in Seq(Character) /\ pad \in Seq(Character)
    BY <1>4
  <2>2. /\ asc \o pad \in Seq(Character) /\ Len(asc \o pad) = Len(asc) + Len(pad)
        /\ \A i \in 1..Len(asc) : (asc \o pad)[i] = asc[i]
        /\ \A i \in 1..Len(pad) : (asc \o pad)[Len(asc) + i] = pad[i]
    BY <2>1, Joined
  <2> QED
    BY <1>4, <1>5, <2>2, Zenon DEF m
<1> HIDE DEF m
<1>8. \A i \in 1..k : all[i] = asc[i]
  <2>1. \A i \in 1..k : i \in 1..m
    BY <1>1 DEF m
  <2> QED
    BY <1>7, <2>1
<1>9. \A i \in (k + 1)..n : all[i] = Equals
  <2> TAKE i \in (k + 1)..n
  <2>1. CASE i <= m
    <3>1. i \in 1..m /\ i \in (k + 1)..m
      BY <1>1, <1>6, <2>1
    <3> QED
      BY <1>2, <1>7, <3>1
  <2>2. CASE ~ (i <= m)
    <3>1. i - m \in 1..p /\ m + (i - m) = i
      BY <1>1, <1>6, <2>2
    <3> QED
      BY <1>4, <1>7, <3>1
  <2> QED
    BY <2>1, <2>2
<1> QED
  BY <1>2, <1>6, <1>7, <1>8, <1>9 DEF n, all

\* The bytes of a well formed string in the two ways.
LEMMA BytesOfWellformed ==
    ASSUME NEW asc \in Seq(Character), NEW k \in 0..Len(asc), WellformedAt(asc, k),
           NEW text, \A i \in 1..k : text[i] = asc[i],
           NEW q \in Nat, NEW r \in 0..2, 3 * q + r < (6 * k) \div 8
    PROVE  Ungroup(DigitAt(asc, 4 * q + 1), DigitAt(asc, 4 * q + 2), DigitAt(asc, 4 * q + 3),
                   DigitAt(asc, 4 * q + 4))[1 + r]
           = OctetAt(text, 24 * q + 8 * r)
<1> DEFINE n == 4 * ((k + 3) \div 4)
           digit(i) == DigitAt(asc, i)
           a == digit(4 * q + 1)
           b == digit(4 * q + 2)
           c == digit(4 * q + 3)
           d == digit(4 * q + 4)
<1>1. k \in Nat /\ k % 4 \in {0, 2, 3}
  <2>1. k \in Nat
    BY LenProperties
  <2> QED
    BY <2>1 DEF WellformedAt
<1>2. /\ \A i \in 1..k : Filled(asc)[i] = asc[i] /\ asc[i] \in Sextet
      /\ \A i \in (k + 1)..n : Filled(asc)[i] = Equals
  BY FilledIs
<1>3. /\ 4 * q + 2 <= k /\ (r = 1 => 4 * q + 3 <= k) /\ (r = 2 => 4 * q + 4 <= k)
      /\ 4 * q + 4 <= n
  <2> DEFINE p == k \div 4
             s == k % 4
  <2>1. k = 4 * p + s /\ p \in Nat /\ s \in {0, 2, 3}
    BY SMT, <1>1
  <2> HIDE DEF p, s
  <2>2. CASE s = 0
    <3>1. (6 * k) \div 8 = 3 * p /\ n = 4 * p
      BY SMT, <2>1, <2>2
    <3> QED
      BY <2>1, <2>2, <3>1
  <2>3. CASE s = 2
    <3>1. (6 * k) \div 8 = 3 * p + 1 /\ n = 4 * p + 4
      BY SMT, <2>1, <2>3
    <3> QED
      BY <2>1, <2>3, <3>1
  <2>4. CASE s = 3
    <3>1. (6 * k) \div 8 = 3 * p + 2 /\ n = 4 * p + 4
      BY SMT, <2>1, <2>4
    <3> QED
      BY <2>1, <2>4, <3>1
  <2> QED
    BY <2>1, <2>2, <2>3, <2>4
<1> HIDE DEF n
<1>4. ASSUME NEW i \in 1..n PROVE digit(i) \in Sextet /\ (i <= k => digit(i) = text[i])
  <2>1. CASE i <= k
    <3>1. i \in 1..k
      BY <1>1, <2>1
    <3>2. Filled(asc)[i] = text[i] /\ text[i] \in Sextet
      BY <1>2, <3>1
    <3>3. digit(i) = text[i]
      BY <3>2, SextetKept, Zenon DEF DigitAt
    <3> QED
      BY <3>2, <3>3, Zenon
  <2>2. CASE ~ (i <= k)
    <3>1. i \in (k + 1)..n
      BY <1>1, <2>2 DEF n
    <3>2. Equals % 64 \in Sextet
      BY DEF Equals, Sextet
    <3> QED
      BY <1>2, <2>2, <3>1, <3>2 DEF DigitAt
  <2> QED
    BY <2>1, <2>2
<1>5. /\ 4 * q + 1 \in 1..n /\ 4 * q + 2 \in 1..n /\ 4 * q + 3 \in 1..n /\ 4 * q + 4 \in 1..n
      /\ 4 * q + 1 <= k
  <2>1. n \in Nat
    BY <1>1 DEF n
  <2> QED
    BY <1>1, <1>3, <2>1
<1>6. a \in Sextet /\ b \in Sextet /\ c \in Sextet /\ d \in Sextet
  BY <1>4, <1>5
<1>7. /\ text[4 * q + 1] = a /\ text[4 * q + 2] = b
      /\ r = 1 => text[4 * q + 3] = c
      /\ r = 2 => text[4 * q + 3] = c /\ text[4 * q + 4] = d
  <2>1. r = 2 => 4 * q + 3 <= k
    BY <1>1, <1>3
  <2> QED
    BY <1>3, <1>4, <1>5, <2>1
<1> HIDE DEF a, b, c, d
<1>8. Ungroup(a, b, c, d) = <<a * 4 + (b \div 16), (b % 16) * 16 + (c \div 4), (c % 4) * 64 + d>>
  BY <1>6, UngroupIs
<1>9. CASE r = 0
  <2>1. OctetAt(text, 24 * q) = a * 4 + (b \div 16)
    BY <1>6, <1>7, OctetsOfGroup
  <2>2. 24 * q + 8 * r = 24 * q
    BY <1>9
  <2>3. Ungroup(a, b, c, d)[1 + r] = OctetAt(text, 24 * q + 8 * r)
    BY <1>8, <1>9, <2>1, <2>2
  <2> QED
    BY <2>3 DEF a, b, c, d
<1>10. CASE r = 1
  <2>1. OctetAt(text, 24 * q + 8) = (b % 16) * 16 + (c \div 4)
    BY <1>6, <1>7, <1>10, OctetsOfGroup
  <2>2. 24 * q + 8 * r = 24 * q + 8
    BY <1>10
  <2>3. Ungroup(a, b, c, d)[1 + r] = OctetAt(text, 24 * q + 8 * r)
    BY <1>8, <1>10, <2>1, <2>2
  <2> QED
    BY <2>3 DEF a, b, c, d
<1>11. CASE r = 2
  <2>1. OctetAt(text, 24 * q + 16) = (c % 4) * 64 + d
    BY <1>6, <1>7, <1>11, OctetsOfGroup
  <2>2. 24 * q + 8 * r = 24 * q + 16
    BY <1>11
  <2>3. Ungroup(a, b, c, d)[1 + r] = OctetAt(text, 24 * q + 8 * r)
    BY <1>8, <1>11, <2>1, <2>2
  <2> QED
    BY <2>3 DEF a, b, c, d
<1> QED
  BY <1>9, <1>10, <1>11

\* What the browser makes of a well formed string.
LEMMA NativeReads ==
    ASSUME NEW asc \in Seq(Character), NEW k \in 0..Len(asc), WellformedAt(asc, k)
    PROVE  /\ \A i \in 1..k : Unpadded(asc)[i] = asc[i]
           /\ NativeAtob(asc) = [j \in 1..((6 * k) \div 8) |-> OctetAt(Unpadded(asc), 8 * (j - 1))]
<1> DEFINE text == Unpadded(asc)
<1>1. text \in Seq(Character) /\ Len(text) = k /\ \A i \in 1..k : text[i] = asc[i]
  <2>1. text = SubSeq(asc, 1, k)
    BY UnpaddedIs
  <2> QED
    BY <2>1, CutOff
<1>2. DOMAIN text = 1..k
  BY <1>1, LenProperties
<1>3. \A i \in 1..k : asc[i] \in Sextet
  BY FilledIs
<1>4. k % 4 # 1
  <2>1. k \in Nat
    BY LenProperties
  <2> QED
    BY <2>1 DEF WellformedAt
<1>5. ~ (Len(text) % 4 = 1 \/ \E i \in DOMAIN text : text[i] \notin Sextet)
  BY <1>1, <1>2, <1>3, <1>4
<1> QED
  BY <1>1, <1>5 DEF NativeAtob, OctetAt, TextBit

\* The polyfill of atob reads and refuses the strings that the browser reads
\* and refuses, with the padding or without it (base64.js 60, 194-211).
THEOREM AtobAgrees ==
    ASSUME NEW asc \in Seq(Character)
    PROVE  AtobPolyfill(asc) = NativeAtob(asc)
<1> DEFINE text == Unpadded(asc)
<1>1. Wellformed(asc) <=> \E k \in 0..Len(asc) : WellformedAt(asc, k)
  BY DEF Wellformed, WellformedAt
<1>2. CASE ~ Wellformed(asc)
  <2>1. AtobPolyfill(asc) = Thrown
    BY <1>2 DEF AtobPolyfill
  <2>2. Len(text) % 4 = 1 \/ \E i \in DOMAIN text : text[i] \notin Sextet
    BY <1>1, <1>2, TakenByBoth
  <2>3. NativeAtob(asc) = Thrown
    BY <2>2 DEF NativeAtob
  <2> QED
    BY <2>1, <2>3
<1>3. CASE Wellformed(asc)
  <2>1. PICK k \in 0..Len(asc) : WellformedAt(asc, k)
    BY <1>1, <1>3
  <2> DEFINE all == Filled(asc)
             n == 4 * ((k + 3) \div 4)
             many == (6 * k) \div 8
             digit(i) == all[i] % 64
             bytes == [j \in 1..(3 * (Len(all) \div 4)) |->
                         LET g == 4 * ((j - 1) \div 3)
                         IN Ungroup(digit(g + 1), digit(g + 2), digit(g + 3), digit(g + 4))
                                [1 + ((j - 1) % 3)]]
             missing == IF all = <<>> THEN 0
                        ELSE IF all[Len(all) - 1] = Equals THEN 2
                        ELSE IF all[Len(all)] = Equals THEN 1 ELSE 0
             native == [j \in 1..many |-> OctetAt(text, 8 * (j - 1))]
  <2>2. /\ all \in Seq(Character) /\ Len(all) = n
        /\ \A i \in 1..k : all[i] = asc[i] /\ asc[i] \in Sextet
        /\ \A i \in (k + 1)..n : all[i] = Equals
    BY <2>1, FilledIs
  <2>3. \A i \in 1..k : text[i] = asc[i]
    BY <2>1, NativeReads
  <2>4. k \in Nat /\ k % 4 \in {0, 2, 3}
    <3>1. k \in Nat
      BY LenProperties
    <3> QED
      BY <2>1, <3>1 DEF WellformedAt
  <2>5. NativeAtob(asc) = native
    BY <2>1, NativeReads, ZenonT(30)
  <2>6. AtobPolyfill(asc) = SubSeq(bytes, 1, Len(bytes) - missing)
    BY <1>3 DEF AtobPolyfill, Filled
  <2>7. /\ n \in Nat /\ many \in Nat /\ n \div 4 \in Nat
        /\ many = 3 * (n \div 4) - missing /\ missing \in 0..2
    <3> DEFINE p == k \div 4
    <3>1. p \in Nat /\ k = 4 * p + (k % 4)
      BY SMT, <2>4
    <3>2. CASE k % 4 = 0
      <4>1. n = 4 * p /\ many = 3 * p /\ n \div 4 = p /\ n = k
        BY SMT, <3>1, <3>2
      <4>2. missing = 0
        <5>1. CASE k = 0
          <6>1. all = <<>>
            BY <2>2, <4>1, <5>1, EmptySeq
          <6> QED
            BY <6>1
        <5>2. CASE k # 0
          <6>1. n \in 1..k /\ n - 1 \in 1..k
            BY <3>1, <3>2, <4>1, <5>2
          <6>2. all[n] # Equals /\ all[n - 1] # Equals
            BY <2>2, <6>1, NoSextet
          <6> QED
            BY <2>2, <6>2
        <5> QED
          BY <5>1, <5>2
      <4> QED
        BY <3>1, <4>1, <4>2
    <3>3. CASE k % 4 = 2
      <4>1. n = 4 * p + 4 /\ many = 3 * p + 1 /\ n \div 4 = p + 1 /\ n = k + 2
        BY SMT, <3>1, <3>3
      <4>2. missing = 2
        <5>1. n - 1 \in (k + 1)..n /\ n > 0
          BY <3>1, <4>1
        <5>2. all[n - 1] = Equals
          BY <2>2, <5>1
        <5>3. all # <<>>
          BY <2>2, <5>1
        <5> QED
          BY <2>2, <5>2, <5>3
      <4> QED
        BY <3>1, <4>1, <4>2
    <3>4. CASE k % 4 = 3
      <4>1. n = 4 * p + 4 /\ many = 3 * p + 2 /\ n \div 4 = p + 1 /\ n = k + 1
        BY SMT, <3>1, <3>4
      <4>2. missing = 1
        <5>1. n \in (k + 1)..n /\ n - 1 \in 1..k /\ n > 0
          BY <3>1, <3>4, <4>1
        <5>2. all[n] = Equals /\ all[n - 1] # Equals
          BY <2>2, <5>1, NoSextet
        <5>3. all # <<>>
          BY <2>2, <5>1
        <5> QED
          BY <2>2, <5>2, <5>3
      <4> QED
        BY <3>1, <4>1, <4>2
    <3> QED
      BY <2>4, <3>2, <3>3, <3>4
  <2>8. ASSUME NEW j \in 1..many PROVE bytes[j] = native[j]
    <3> DEFINE q == (j - 1) \div 3
               r == (j - 1) % 3
    <3>1. many \in Nat /\ j \in Nat /\ j >= 1 /\ j <= many /\ j \in 1..(3 * (n \div 4))
      BY <2>7
    <3>2. q \in Nat /\ r \in 0..2 /\ j - 1 = 3 * q + r
      BY SMT, <3>1
    <3>3. 8 * (j - 1) = 24 * q + 8 * r /\ 3 * q + r < many
      BY <3>1, <3>2
    <3>4. native[j] = OctetAt(text, 24 * q + 8 * r)
      BY <3>3
    <3>5. bytes[j] = Ungroup(digit(4 * q + 1), digit(4 * q + 2), digit(4 * q + 3), digit(4 * q + 4))
                         [1 + r]
      BY <2>2, <3>1
    <3> HIDE DEF q, r
    <3>6. Ungroup(digit(4 * q + 1), digit(4 * q + 2), digit(4 * q + 3), digit(4 * q + 4))[1 + r]
          = OctetAt(text, 24 * q + 8 * r)
      <4>1. /\ WellformedAt(asc, k) /\ q \in Nat /\ r \in 0..2 /\ 3 * q + r < (6 * k) \div 8
            /\ \A i \in 1..k : text[i] = asc[i]
        BY <2>1, <2>3, <3>2, <3>3
      <4>2. Ungroup(DigitAt(asc, 4 * q + 1), DigitAt(asc, 4 * q + 2), DigitAt(asc, 4 * q + 3),
                    DigitAt(asc, 4 * q + 4))[1 + r] = OctetAt(text, 24 * q + 8 * r)
        BY <4>1, BytesOfWellformed, Zenon
      <4> QED
        BY <4>2 DEF DigitAt
    <3> QED
      BY <3>4, <3>5, <3>6
  <2>9. SubSeq(bytes, 1, many) = native
    <3> DEFINE S == {bytes[j] : j \in 1..(3 * (n \div 4))}
               m == 3 * (n \div 4)
    <3>1. m \in Nat /\ many \in 0..m
      BY <2>7
    <3>2. bytes = [j \in 1..m |-> bytes[j]]
      <4>1. 3 * (Len(all) \div 4) = m
        BY <2>2
      <4>2. bytes = [j \in 1..(3 * (Len(all) \div 4)) |-> bytes[j]]
        BY Zenon
      <4> QED
        BY <4>1, <4>2, Zenon
    <3> HIDE DEF bytes, native, many, missing
    <3>3. bytes \in Seq(S) /\ Len(bytes) = m /\ \A j \in 1..m : bytes[j] \in S
      <4>1. bytes \in [1..m -> S] /\ \A j \in 1..m : bytes[j] \in S
        BY <3>2
      <4> HIDE DEF S, m
      <4> QED
        BY <3>1, <4>1, FunctionSeq
    <3>4. /\ SubSeq(bytes, 1, many) \in Seq(S) /\ Len(SubSeq(bytes, 1, many)) = many
          /\ \A j \in 1..many : SubSeq(bytes, 1, many)[j] = bytes[j]
      <4>1. many \in 0..Len(bytes)
        BY <3>1, <3>3
      <4> HIDE DEF S, m
      <4> QED
        BY <3>3, <4>1, CutOff, Zenon
    <3>5. native \in Seq(S) /\ Len(native) = many
      <4>1. \A j \in 1..many : native[j] \in S
        <5>1. \A j \in 1..many : j \in 1..m
          BY <3>1
        <5> QED
          BY <2>8, <3>3, <5>1
      <4>2. native \in [1..many -> S] /\ many \in Nat
        BY <3>1, <4>1 DEF native
      <4> HIDE DEF S
      <4> QED
        BY <4>2, FunctionSeq
    <3> QED
      BY <2>8, <3>4, <3>5, SeqEqual
  <2>10. Len(bytes) = 3 * (n \div 4)
    BY <2>2, <2>7
  <2> QED
    BY <2>5, <2>6, <2>7, <2>9, <2>10
<1> QED
  BY <1>2, <1>3

-----------------------------------------------------------------------------
(* Inputs.                                                                  *)

Typed == kind \in DOMAIN Alphabet /\ input \in Seq(Alphabet[kind])

LEMMA SeqOfMore ==
    ASSUME NEW S, NEW T, S \subseteq T, NEW s \in Seq(S)
    PROVE  s \in Seq(T)
<1>1. \A i \in 1..Len(s) : s[i] \in T
  BY ElementOfSeq
<1>2. Len(s) \in Nat /\ s \in [1..Len(s) -> S]
  BY LenProperties
<1>3. s \in [1..Len(s) -> T]
  BY <1>2
<1> QED
  BY <1>2, <1>3

LEMMA TypingTyped == Typing => []Typed
<1>1. Init => Typed
  BY DEF Init, Typed
<1>2. Typed /\ [\E symbol \in Alphabet[kind] : Add(symbol)]_vars => Typed'
  <2> SUFFICES ASSUME Typed, [\E symbol \in Alphabet[kind] : Add(symbol)]_vars
               PROVE  Typed'
    OBVIOUS
  <2>1. ASSUME NEW symbol \in Alphabet[kind], Add(symbol) PROVE Typed'
    <3>1. Append(input, symbol) \in Seq(Alphabet[kind])
      BY DEF Typed
    <3> QED
      BY <2>1, <3>1 DEF Typed, Add
  <2>2. CASE UNCHANGED vars
    BY <2>2 DEF Typed, vars
  <2> QED
    BY <2>1, <2>2
<1> QED
  BY <1>1, <1>2, PTL DEF Typing

\* Whatever is given to them, the polyfills of btoa and atob do what the
\* browser's do (base64.js 60, 72-88, 194-211).
THEOREM TypingPolyfillsAgree == Typing => []PolyfillsAgree
<1>1. Typed => PolyfillsAgree
  <2> SUFFICES ASSUME Typed PROVE PolyfillsAgree
    OBVIOUS
  <2>1. CASE kind = "bytes"
    <3>1. input \in Seq(Nat)
      BY <2>1, AlphabetAssumption, SeqOfMore DEF Typed
    <3> QED
      BY <2>1, <3>1, BtoaAgrees DEF PolyfillsAgree
  <2>2. CASE kind = "ascii"
    <3>1. input \in Seq(Character)
      BY <2>2, AlphabetAssumption, SeqOfMore DEF Typed, Character
    <3> QED
      BY <2>2, <3>1, AtobAgrees DEF PolyfillsAgree
  <2> QED
    BY <2>1, <2>2 DEF PolyfillsAgree
<1> QED
  BY <1>1, TypingTyped, PTL

-----------------------------------------------------------------------------
(* Characters that are dropped.                                             *)

LEMMA WithoutRecursion ==
    ASSUME NEW S, NEW s \in Seq(S), NEW dropped
    PROVE  \E f \in [1..(Len(s) + 1) -> Seq(S)] :
               /\ Without(s, dropped) = f[1]
               /\ \A i \in 1..(Len(s) + 1) :
                      f[i] = IF i > Len(s) THEN <<>>
                             ELSE IF s[i] \in dropped THEN f[i + 1]
                             ELSE <<s[i]>> \o f[i + 1]
<1> DEFINE m == Len(s) + 1
           A == Seq(S)
           body(g, i) == IF i > Len(s) THEN <<>>
                         ELSE IF s[i] \in dropped THEN g[i + 1]
                         ELSE <<s[i]>> \o g[i + 1]
           step == [i \in 1..m |-> [g \in [1..m -> A] |-> body(g, i)]]
           from == CHOOSE g : g = [i \in 1..m |-> body(g, i)]
<1>1. Len(s) \in Nat /\ m \in Nat /\ <<>> \in A /\ A # {} /\ 1 \in 1..m
  <2>1. Len(s) \in Nat
    BY LenProperties
  <2>2. <<>> \in A
    OBVIOUS
  <2> HIDE DEF A
  <2> QED
    BY <2>1, <2>2
<1>2. \A i \in 1..m : ~ (i > Len(s)) => i \in 1..Len(s) /\ i + 1 \in (i + 1)..m /\ i + 1 \in 1..m
  BY <1>1
<1>3. ASSUME NEW g \in [1..m -> A], NEW i \in 1..m PROVE body(g, i) \in A
  <2>1. CASE ~ (i > Len(s))
    <3>1. s[i] \in S /\ g[i + 1] \in A
      BY <1>2, <2>1, ElementOfSeq
    <3>2. <<s[i]>> \o g[i + 1] \in A
      BY <3>1
    <3> QED
      BY <2>1, <3>1, <3>2
  <2> QED
    BY <1>1, <2>1
<1>4. ASSUME NEW g, NEW h, NEW i \in 1..m, \A j \in (i + 1)..m : g[j] = h[j]
      PROVE  body(g, i) = body(h, i)
  BY <1>2, <1>4
<1>5. \E f \in [1..m -> A] : \A i \in 1..m : f[i] = step[i][f]
  <2>1. step \in [1..m -> [[1..m -> A] -> A]]
    <3> HIDE DEF m, A, body
    <3> QED
      BY <1>3
  <2>2. ASSUME NEW i \in 1..m, NEW g \in [1..m -> A], NEW h \in [1..m -> A],
               \A j \in (i + 1)..m : g[j] = h[j]
        PROVE  step[i][g] = step[i][h]
    <3>1. body(g, i) = body(h, i)
      BY <1>4, <2>2
    <3> HIDE DEF m, A, body
    <3> QED
      BY <3>1
  <2> HIDE DEF m, A, step
  <2>3. LooksLater(step, m, A)
    BY <2>1, <2>2 DEF LooksLater
  <2>4. Computes(step, m, A)
    BY <1>1, <2>3, FromTheEndDefined
  <2> QED
    BY <2>4 DEF Computes
<1>6. PICK f \in [1..m -> A] : \A i \in 1..m : f[i] = step[i][f]
  BY <1>5
<1> HIDE DEF m, A, body
<1>7. \A i \in 1..m : f[i] = body(f, i)
  <2>1. \A i \in 1..m : step[i][f] = body(f, i)
    OBVIOUS
  <2> QED
    BY <1>6, <2>1, Zenon
<1>8. from = [i \in 1..m |-> body(from, i)]
  <2>1. f = [i \in 1..m |-> body(f, i)]
    BY <1>7
  <2> QED
    BY <2>1
<1>9. Without(s, dropped) = from[1]
  BY DEF Without, m, body
<1> HIDE DEF from
<1>10. from = f
  <2> DEFINE T == {i \in 1..m : from[i] = f[i]}
  <2>1. ASSUME NEW i \in 1..m, \A j \in (i + 1)..m : j \in T PROVE i \in T
    <3>1. body(from, i) = body(f, i)
      BY <1>4, <2>1
    <3>2. from[i] = body(from, i)
      BY <1>8
    <3> QED
      BY <1>7, <3>1, <3>2
  <2>2. \A i \in 1..m : i \in T
    <3> HIDE DEF T
    <3> QED
      BY <1>1, <2>1, FromTheEnd
  <2> QED
    BY <1>8, <2>2
<1> QED
  BY <1>7, <1>9, <1>10 DEF m, A, body

\* A character before the part that follows it.
LEMMA OneMore ==
    ASSUME NEW S, NEW s \in Seq(S), NEW k \in 0..Len(s), NEW i \in 1..k
    PROVE  <<s[i]>> \o SubSeq(s, i + 1, k) = SubSeq(s, i, k)
<1> DEFINE a == <<s[i]>>
           b == SubSeq(s, i + 1, k)
           c == SubSeq(s, i, k)
<1>1. Len(s) \in Nat /\ k \in Nat /\ i \in Nat /\ i >= 1 /\ i <= k
  BY LenProperties
<1>2. \A j \in 1..k : s[j] \in S
  BY <1>1, ElementOfSeq
<1>3. c \in Seq(S) /\ Len(c) = k - i + 1 /\ \A j \in 1..(k - i + 1) : c[j] = s[i + j - 1]
  BY <1>1, <1>2, SubSeqProperties
<1>4. /\ b \in Seq(S) /\ Len(b) = k - i
      /\ \A j \in 1..(k - i) : b[j] = s[i + 1 + j - 1]
  <2>1. /\ b \in Seq(S) /\ Len(b) = IF i + 1 <= k THEN k - (i + 1) + 1 ELSE 0
        /\ \A j \in 1..(k - (i + 1) + 1) : b[j] = s[i + 1 + j - 1]
    BY <1>1, <1>2, SubSeqProperties
  <2>2. k - (i + 1) + 1 = k - i /\ (~ (i + 1 <= k) => k - i = 0)
    BY <1>1
  <2> QED
    BY <2>1, <2>2
<1>5. a \in Seq(S) /\ Len(a) = 1 /\ a[1] = s[i]
  BY <1>1, <1>2
<1> HIDE DEF a, b, c
<1>6. /\ a \o b \in Seq(S) /\ Len(a \o b) = Len(a) + Len(b)
      /\ \A j \in 1..Len(a) : (a \o b)[j] = a[j]
      /\ \A j \in 1..Len(b) : (a \o b)[Len(a) + j] = b[j]
  <2>1. a \in Seq(S) /\ b \in Seq(S)
    BY <1>4, <1>5
  <2> QED
    BY <2>1, Joined
<1>7. Len(a \o b) = Len(c)
  BY <1>1, <1>3, <1>4, <1>5, <1>6
<1>8. ASSUME NEW j \in 1..Len(c) PROVE (a \o b)[j] = c[j]
  <2>1. j \in 1..(k - i + 1)
    BY <1>3
  <2>2. CASE j = 1
    <3>1. 1 \in 1..Len(a) /\ i + 1 - 1 = i
      BY <1>1, <1>5
    <3> QED
      BY <1>3, <1>5, <1>6, <2>1, <2>2, <3>1
  <2>3. CASE j # 1
    <3> DEFINE l == j - 1
    <3>1. l \in 1..Len(b) /\ Len(a) + l = j /\ i + 1 + l - 1 = i + j - 1
      BY <1>1, <1>4, <1>5, <2>1, <2>3
    <3>2. l \in 1..(k - i)
      BY <1>4, <3>1
    <3> HIDE DEF l
    <3> QED
      BY <1>3, <1>4, <1>6, <2>1, <3>1, <3>2
  <2> QED
    BY <2>2, <2>3
<1>9. a \o b = c
  BY <1>3, <1>6, <1>7, <1>8, SeqEqual
<1> QED
  BY <1>9 DEF a, b, c

\* If all that is dropped is at the end, the rest stays.
LEMMA WithoutIs ==
    ASSUME NEW S, NEW s \in Seq(S), NEW dropped, NEW k \in 0..Len(s),
           \A i \in 1..k : s[i] \notin dropped,
           \A i \in (k + 1)..Len(s) : s[i] \in dropped
    PROVE  Without(s, dropped) = SubSeq(s, 1, k)
<1> DEFINE m == Len(s) + 1
<1>1. Len(s) \in Nat /\ m \in Nat /\ k \in Nat /\ k <= Len(s) /\ 1 \in 1..m
  BY LenProperties
<1>2. PICK f \in [1..m -> Seq(S)] :
          /\ Without(s, dropped) = f[1]
          /\ \A i \in 1..m : f[i] = IF i > Len(s) THEN <<>>
                                    ELSE IF s[i] \in dropped THEN f[i + 1]
                                    ELSE <<s[i]>> \o f[i + 1]
  BY WithoutRecursion
<1> DEFINE T == {i \in 1..m : f[i] = SubSeq(s, i, k)}
<1>3. ASSUME NEW i \in 1..m, \A j \in (i + 1)..m : j \in T PROVE i \in T
  <2>1. CASE i > Len(s)
    <3>1. f[i] = <<>>
      BY <1>2, <2>1
    <3>2. SubSeq(s, i, k) = <<>>
      BY <1>1, <2>1, SubSeqEmpty
    <3> QED
      BY <3>1, <3>2
  <2>2. CASE ~ (i > Len(s))
    <3>1. i + 1 \in (i + 1)..m /\ i \in 1..Len(s) /\ (i <= k => i \in 1..k) /\ (~ (i <= k) => i \in (k + 1)..Len(s))
      BY <1>1, <2>2
    <3>2. f[i + 1] = SubSeq(s, i + 1, k)
      BY <1>3, <3>1
    <3>3. CASE i <= k
      <4>1. s[i] \notin dropped
        BY <3>1, <3>3
      <4>2. f[i] = <<s[i]>> \o SubSeq(s, i + 1, k)
        BY <1>2, <2>2, <3>2, <4>1
      <4>3. <<s[i]>> \o SubSeq(s, i + 1, k) = SubSeq(s, i, k)
        BY <3>1, <3>3, OneMore
      <4> QED
        BY <4>2, <4>3
    <3>4. CASE ~ (i <= k)
      <4>1. f[i] = SubSeq(s, i + 1, k)
        BY <1>2, <2>2, <3>1, <3>2, <3>4
      <4>2. SubSeq(s, i + 1, k) = <<>> /\ SubSeq(s, i, k) = <<>>
        BY <1>1, <3>4, SubSeqEmpty
      <4> QED
        BY <4>1, <4>2
    <3> QED
      BY <3>3, <3>4
  <2> QED
    BY <2>1, <2>2
<1>4. \A i \in 1..m : i \in T
  <2> HIDE DEF T, m
  <2> QED
    BY <1>1, <1>3, FromTheEnd
<1> QED
  BY <1>1, <1>2, <1>4

-----------------------------------------------------------------------------
(* UTF-8.                                                                   *)

LEMMA ByteIsInt ==
    ASSUME NEW x \in Byte
    PROVE  x \in Int /\ 0 <= x /\ x <= 255 /\ (x < 128 => x \in 0..127)
BY DEF Byte
LEMMA UnitIsInt ==
    ASSUME NEW u \in Unit
    PROVE  u \in Int /\ (~ (u < 128) => u >= 128)
BY DEF Unit

LEMMA UnitBytesAre ==
    ASSUME NEW u \in Unit
    PROVE  UnitBytes(u) \in Seq(Byte)
<1>1. u \in Int /\ 0 <= u /\ u <= 65535
  BY DEF Unit
<1>2. CASE u < 128
  <2>1. u \in Byte
    BY <1>1, <1>2 DEF Byte
  <2> QED
    BY <1>2, <2>1 DEF UnitBytes
<1>3. CASE ~ (u < 128) /\ u < 2048
  <2>1. 192 + (u \div 64) \in Byte /\ 128 + (u % 64) \in Byte
    BY SMT, <1>1, <1>3 DEF Byte
  <2> HIDE DEF Byte
  <2> QED
    BY <1>3, <2>1 DEF UnitBytes
<1>4. CASE ~ (u < 128) /\ ~ (u < 2048)
  <2>1. 224 + (u \div 4096) \in Byte /\ 128 + (u % 64) \in Byte /\ 128 + ((u \div 64) % 64) \in Byte
    BY SMT, <1>1, <1>4 DEF Byte
  <2> QED
    BY <1>4, <2>1 DEF UnitBytes
<1> QED
  BY <1>2, <1>3, <1>4

LEMMA PairBytesAre ==
    ASSUME NEW hi, NEW lo, High(hi), Low(lo)
    PROVE  PairBytes(hi, lo) \in Seq(Byte)
<1> DEFINE cp == CodePoint(hi, lo)
<1>1. cp \in Int /\ cp >= 65536 /\ cp <= 1114111
  BY SMT DEF High, Low, CodePoint
<1> HIDE DEF cp
<1>2. 240 + (cp \div 262144) \in Byte /\ 128 + (cp % 64) \in Byte
  BY SMT, <1>1 DEF Byte
<1>3. 128 + ((cp \div 4096) % 64) \in Byte /\ 128 + ((cp \div 64) % 64) \in Byte
  BY SMT, <1>1 DEF Byte
<1>4. PairBytes(hi, lo) = <<240 + (cp \div 262144), 128 + ((cp \div 4096) % 64),
                            128 + ((cp \div 64) % 64), 128 + (cp % 64)>>
  BY DEF PairBytes, cp
<1> QED
  BY <1>2, <1>3, <1>4

\* In a text a high surrogate is followed by a low one, never by the "F" that
\* the pattern lets through.
LEMMA PairOfText ==
    ASSUME NEW s \in Seq(Unit), IsText(s), NEW i \in 1..Len(s), MatchesPair(s, i)
    PROVE  i < Len(s) /\ High(s[i]) /\ Low(s[i + 1])
<1>1. i \in DOMAIN s
  BY LenProperties
<1> QED
  BY <1>1 DEF IsText, Lone, PairAt, MatchesPair

LEMMA UtobRecursion ==
    ASSUME NEW s \in Seq(Unit), IsText(s)
    PROVE  \E f \in [1..(Len(s) + 1) -> Seq(Byte)] :
               /\ Utob(s) = f[1]
               /\ \A i \in 1..(Len(s) + 1) :
                      f[i] = IF i > Len(s) THEN <<>>
                             ELSE IF MatchesPair(s, i) THEN PairBytes(s[i], s[i + 1]) \o f[i + 2]
                             ELSE UnitBytes(s[i]) \o f[i + 1]
<1> DEFINE m == Len(s) + 1
           A == Seq(Byte)
           body(g, i) == IF i > Len(s) THEN <<>>
                         ELSE IF MatchesPair(s, i) THEN PairBytes(s[i], s[i + 1]) \o g[i + 2]
                         ELSE UnitBytes(s[i]) \o g[i + 1]
           step == [i \in 1..m |-> [g \in [1..m -> A] |-> body(g, i)]]
           from == CHOOSE g : g = [i \in 1..m |-> body(g, i)]
<1>1. Len(s) \in Nat /\ m \in Nat /\ <<>> \in A /\ A # {} /\ 1 \in 1..m
  <2>1. Len(s) \in Nat
    BY LenProperties
  <2>2. <<>> \in A
    OBVIOUS
  <2> HIDE DEF A
  <2> QED
    BY <2>1, <2>2
<1>2. \A i \in 1..m :
          /\ ~ (i > Len(s)) => i \in 1..Len(s) /\ i + 1 \in (i + 1)..m /\ i + 1 \in 1..m
          /\ MatchesPair(s, i) => i + 2 \in (i + 1)..m /\ i + 2 \in 1..m
  BY <1>1 DEF MatchesPair
<1>3. ASSUME NEW g \in [1..m -> A], NEW i \in 1..m PROVE body(g, i) \in A
  <2>1. CASE MatchesPair(s, i) /\ ~ (i > Len(s))
    <3>1. PairBytes(s[i], s[i + 1]) \in Seq(Byte)
      BY <2>1, PairOfText, PairBytesAre
    <3>2. g[i + 2] \in A
      BY <1>2, <2>1
    <3>3. PairBytes(s[i], s[i + 1]) \o g[i + 2] \in A
      BY <3>1, <3>2
    <3> QED
      BY <2>1, <3>3
  <2>2. CASE ~ MatchesPair(s, i) /\ ~ (i > Len(s))
    <3>1. UnitBytes(s[i]) \in Seq(Byte)
      BY <1>2, <2>2, ElementOfSeq, UnitBytesAre
    <3>2. g[i + 1] \in A
      BY <1>2, <2>2
    <3>3. UnitBytes(s[i]) \o g[i + 1] \in A
      BY <3>1, <3>2
    <3> QED
      BY <2>2, <3>3
  <2> QED
    BY <1>1, <2>1, <2>2
<1>4. ASSUME NEW g, NEW h, NEW i \in 1..m, \A j \in (i + 1)..m : g[j] = h[j]
      PROVE  body(g, i) = body(h, i)
  BY <1>2, <1>4
<1>5. \E f \in [1..m -> A] : \A i \in 1..m : f[i] = step[i][f]
  <2>1. step \in [1..m -> [[1..m -> A] -> A]]
    <3> HIDE DEF m, A, body
    <3> QED
      BY <1>3
  <2>2. ASSUME NEW i \in 1..m, NEW g \in [1..m -> A], NEW h \in [1..m -> A],
               \A j \in (i + 1)..m : g[j] = h[j]
        PROVE  step[i][g] = step[i][h]
    <3>1. body(g, i) = body(h, i)
      BY <1>4, <2>2
    <3> HIDE DEF m, A, body
    <3> QED
      BY <3>1
  <2> HIDE DEF m, A, step
  <2>3. LooksLater(step, m, A)
    BY <2>1, <2>2 DEF LooksLater
  <2>4. Computes(step, m, A)
    BY <1>1, <2>3, FromTheEndDefined
  <2> QED
    BY <2>4 DEF Computes
<1>6. PICK f \in [1..m -> A] : \A i \in 1..m : f[i] = step[i][f]
  BY <1>5
<1> HIDE DEF m, A, body
<1>7. \A i \in 1..m : f[i] = body(f, i)
  <2>1. \A i \in 1..m : step[i][f] = body(f, i)
    OBVIOUS
  <2> QED
    BY <1>6, <2>1, Zenon
<1>8. from = [i \in 1..m |-> body(from, i)]
  <2>1. f = [i \in 1..m |-> body(f, i)]
    BY <1>7
  <2> QED
    BY <2>1
<1>9. Utob(s) = from[1]
  BY DEF Utob, m, body
<1> HIDE DEF from
<1>10. from = f
  <2> DEFINE T == {i \in 1..m : from[i] = f[i]}
  <2>1. ASSUME NEW i \in 1..m, \A j \in (i + 1)..m : j \in T PROVE i \in T
    <3>1. body(from, i) = body(f, i)
      BY <1>4, <2>1
    <3>2. from[i] = body(from, i)
      BY <1>8
    <3> QED
      BY <1>7, <3>1, <3>2
  <2>2. \A i \in 1..m : i \in T
    <3> HIDE DEF T
    <3> QED
      BY <1>1, <2>1, FromTheEnd
  <2> QED
    BY <1>8, <2>2
<1> QED
  BY <1>7, <1>9, <1>10 DEF m, A, body

\* What a match of the decoder becomes.
LEMMA DecodedAre ==
    ASSUME NEW b \in Seq(Byte), NEW i \in 1..Len(b)
    PROVE  /\ MatchAt(b, i) = 4 => FourBytes(b[i], b[i + 1], b[i + 2], b[i + 3]) \in Seq(Int)
           /\ MatchAt(b, i) = 3 => ThreeBytes(b[i], b[i + 1], b[i + 2]) \in Seq(Int)
           /\ MatchAt(b, i) = 2 => TwoBytes(b[i], b[i + 1]) \in Seq(Int)
<1>1. Len(b) \in Nat /\ \A j \in 1..Len(b) : b[j] \in Int
  <2>1. \A j \in 1..Len(b) : b[j] \in Byte
    BY ElementOfSeq
  <2>2. Len(b) \in Nat
    BY LenProperties
  <2> QED
    BY <2>1, <2>2, ByteIsInt, Zenon
<1>2. ASSUME NEW w \in Int, NEW x \in Int, NEW y \in Int, NEW z \in Int
      PROVE  FourBytes(w, x, y, z) \in Seq(Int) /\ ThreeBytes(w, x, y) \in Seq(Int)
             /\ TwoBytes(w, x) \in Seq(Int)
  <2> DEFINE cp == (w % 8) * 262144 + (x % 64) * 4096 + (y % 64) * 64 + (z % 64)
  <2>1. cp \in Int
    OBVIOUS
  <2>2. FourBytes(w, x, y, z) = <<HighOf(cp), LowOf(cp)>>
    BY DEF FourBytes
  <2> HIDE DEF cp
  <2>3. HighOf(cp) \in Int /\ LowOf(cp) \in Int
    BY <2>1 DEF HighOf, LowOf
  <2>4. ThreeBytes(w, x, y) \in Seq(Int)
    BY DEF ThreeBytes
  <2>5. TwoBytes(w, x) \in Seq(Int)
    BY DEF TwoBytes
  <2> QED
    BY <2>2, <2>3, <2>4, <2>5
<1>3. MatchAt(b, i) = 4 => i + 1 \in 1..Len(b) /\ i + 2 \in 1..Len(b) /\ i + 3 \in 1..Len(b)
  BY <1>1 DEF MatchAt, Continues
<1>4. MatchAt(b, i) = 3 => i + 1 \in 1..Len(b) /\ i + 2 \in 1..Len(b)
  BY <1>1 DEF MatchAt, Continues
<1>5. MatchAt(b, i) = 2 => i + 1 \in 1..Len(b)
  BY <1>1 DEF MatchAt, Continues
<1> QED
  BY <1>1, <1>2, <1>3, <1>4, <1>5

LEMMA BtouRecursion ==
    ASSUME NEW b \in Seq(Byte)
    PROVE  \E f \in [1..(Len(b) + 1) -> Seq(Int)] :
               /\ Btou(b) = f[1]
               /\ \A i \in 1..(Len(b) + 1) :
                      f[i] = IF i > Len(b) THEN <<>>
                             ELSE IF MatchAt(b, i) = 4
                                 THEN FourBytes(b[i], b[i + 1], b[i + 2], b[i + 3]) \o f[i + 4]
                             ELSE IF MatchAt(b, i) = 3 THEN ThreeBytes(b[i], b[i + 1], b[i + 2]) \o f[i + 3]
                             ELSE IF MatchAt(b, i) = 2 THEN TwoBytes(b[i], b[i + 1]) \o f[i + 2]
                             ELSE <<b[i]>> \o f[i + 1]
<1> DEFINE m == Len(b) + 1
           A == Seq(Int)
           body(g, i) == IF i > Len(b) THEN <<>>
                         ELSE IF MatchAt(b, i) = 4
                             THEN FourBytes(b[i], b[i + 1], b[i + 2], b[i + 3]) \o g[i + 4]
                         ELSE IF MatchAt(b, i) = 3 THEN ThreeBytes(b[i], b[i + 1], b[i + 2]) \o g[i + 3]
                         ELSE IF MatchAt(b, i) = 2 THEN TwoBytes(b[i], b[i + 1]) \o g[i + 2]
                         ELSE <<b[i]>> \o g[i + 1]
           step == [i \in 1..m |-> [g \in [1..m -> A] |-> body(g, i)]]
           from == CHOOSE g : g = [i \in 1..m |-> body(g, i)]
<1>1. Len(b) \in Nat /\ m \in Nat /\ <<>> \in A /\ A # {} /\ 1 \in 1..m
  <2>1. Len(b) \in Nat
    BY LenProperties
  <2>2. <<>> \in A
    OBVIOUS
  <2> HIDE DEF A
  <2> QED
    BY <2>1, <2>2
<1>2. \A i \in 1..m : ~ (i > Len(b)) =>
          /\ i \in 1..Len(b) /\ i + 1 \in (i + 1)..m /\ i + 1 \in 1..m
          /\ MatchAt(b, i) = 4 => i + 4 \in (i + 1)..m /\ i + 4 \in 1..m
          /\ MatchAt(b, i) = 3 => i + 3 \in (i + 1)..m /\ i + 3 \in 1..m
          /\ MatchAt(b, i) = 2 => i + 2 \in (i + 1)..m /\ i + 2 \in 1..m
  BY <1>1 DEF MatchAt, Continues
<1>3. ASSUME NEW g \in [1..m -> A], NEW i \in 1..m PROVE body(g, i) \in A
  <2> DEFINE x == MatchAt(b, i)
  <2>1. CASE ~ (i > Len(b)) /\ x = 4
    <3>1. FourBytes(b[i], b[i + 1], b[i + 2], b[i + 3]) \in Seq(Int) /\ g[i + 4] \in Seq(Int)
      BY <1>2, <2>1, DecodedAre
    <3>2. FourBytes(b[i], b[i + 1], b[i + 2], b[i + 3]) \o g[i + 4] \in A
      BY <3>1
    <3> QED
      BY <2>1, <3>2
  <2>2. CASE ~ (i > Len(b)) /\ x = 3
    <3>1. ThreeBytes(b[i], b[i + 1], b[i + 2]) \in Seq(Int) /\ g[i + 3] \in Seq(Int)
      BY <1>2, <2>2, DecodedAre
    <3>2. ThreeBytes(b[i], b[i + 1], b[i + 2]) \o g[i + 3] \in A
      BY <3>1
    <3> QED
      BY <2>2, <3>2
  <2>3. CASE ~ (i > Len(b)) /\ x = 2
    <3>1. TwoBytes(b[i], b[i + 1]) \in Seq(Int) /\ g[i + 2] \in Seq(Int)
      BY <1>2, <2>3, DecodedAre
    <3>2. TwoBytes(b[i], b[i + 1]) \o g[i + 2] \in A
      BY <3>1
    <3> QED
      BY <2>3, <3>2
  <2>4. CASE ~ (i > Len(b)) /\ x \notin {2, 3, 4}
    <3>1. b[i] \in Int /\ g[i + 1] \in Seq(Int)
      <4>1. b[i] \in Byte
        BY <1>2, <2>4, ElementOfSeq
      <4>2. g[i + 1] \in Seq(Int)
        BY <1>2, <2>4
      <4> QED
        BY <4>1, <4>2, ByteIsInt, Zenon
    <3>2. <<b[i]>> \o g[i + 1] \in A
      BY <3>1
    <3> QED
      BY <2>4, <3>2
  <2> QED
    BY <1>1, <2>1, <2>2, <2>3, <2>4
<1>4. ASSUME NEW g, NEW h, NEW i \in 1..m, \A j \in (i + 1)..m : g[j] = h[j]
      PROVE  body(g, i) = body(h, i)
  BY <1>2, <1>4
<1>5. \E f \in [1..m -> A] : \A i \in 1..m : f[i] = step[i][f]
  <2>1. step \in [1..m -> [[1..m -> A] -> A]]
    <3> HIDE DEF m, A, body
    <3> QED
      BY <1>3
  <2>2. ASSUME NEW i \in 1..m, NEW g \in [1..m -> A], NEW h \in [1..m -> A],
               \A j \in (i + 1)..m : g[j] = h[j]
        PROVE  step[i][g] = step[i][h]
    <3>1. body(g, i) = body(h, i)
      BY <1>4, <2>2
    <3> HIDE DEF m, A, body
    <3> QED
      BY <3>1
  <2> HIDE DEF m, A, step
  <2>3. LooksLater(step, m, A)
    BY <2>1, <2>2 DEF LooksLater
  <2>4. Computes(step, m, A)
    BY <1>1, <2>3, FromTheEndDefined
  <2> QED
    BY <2>4 DEF Computes
<1>6. PICK f \in [1..m -> A] : \A i \in 1..m : f[i] = step[i][f]
  BY <1>5
<1> HIDE DEF m, A, body
<1>7. \A i \in 1..m : f[i] = body(f, i)
  <2>1. \A i \in 1..m : step[i][f] = body(f, i)
    OBVIOUS
  <2> QED
    BY <1>6, <2>1, Zenon
<1>8. from = [i \in 1..m |-> body(from, i)]
  <2>1. f = [i \in 1..m |-> body(f, i)]
    BY <1>7
  <2> QED
    BY <2>1
<1>9. Btou(b) = from[1]
  BY DEF Btou, m, body
<1> HIDE DEF from
<1>10. from = f
  <2> DEFINE T == {i \in 1..m : from[i] = f[i]}
  <2>1. ASSUME NEW i \in 1..m, \A j \in (i + 1)..m : j \in T PROVE i \in T
    <3>1. body(from, i) = body(f, i)
      BY <1>4, <2>1
    <3>2. from[i] = body(from, i)
      BY <1>8
    <3> QED
      BY <1>7, <3>1, <3>2
  <2>2. \A i \in 1..m : i \in T
    <3> HIDE DEF T
    <3> QED
      BY <1>1, <2>1, FromTheEnd
  <2> QED
    BY <1>8, <2>2
<1> QED
  BY <1>7, <1>9, <1>10 DEF m, A, body

\* What comes after the first bytes is decoded as it is on its own.
Decoded(b, g, i) ==
    IF i > Len(b) THEN <<>>
    ELSE IF MatchAt(b, i) = 4
        THEN FourBytes(b[i], b[i + 1], b[i + 2], b[i + 3]) \o g[i + 4]
    ELSE IF MatchAt(b, i) = 3 THEN ThreeBytes(b[i], b[i + 1], b[i + 2]) \o g[i + 3]
    ELSE IF MatchAt(b, i) = 2 THEN TwoBytes(b[i], b[i + 1]) \o g[i + 2]
    ELSE <<b[i]>> \o g[i + 1]
Decodes(b, g) ==
    /\ g \in [1..(Len(b) + 1) -> Seq(Int)]
    /\ \A i \in 1..(Len(b) + 1) : g[i] = Decoded(b, g, i)

LEMMA BtouDecodes ==
    ASSUME NEW b \in Seq(Byte)
    PROVE  \E g : Decodes(b, g) /\ Btou(b) = g[1]
BY BtouRecursion DEF Decodes, Decoded

LEMMA MatchShift ==
    ASSUME NEW b \in Seq(Byte), NEW t \in Seq(Byte), NEW d \in Nat, Len(b) = d + Len(t),
           \A i \in 1..Len(t) : b[d + i] = t[i], NEW i \in 1..Len(t)
    PROVE  MatchAt(b, d + i) = MatchAt(t, i)
<1>1. Len(t) \in Nat /\ i \in Nat /\ b[d + i] = t[i]
  BY LenProperties
<1>2. ASSUME NEW c \in 1..3
      PROVE  Continues(b, d + i + 1, d + i + c) = Continues(t, i + 1, i + c)
  <2>1. d + i + c <= Len(b) <=> i + c <= Len(t)
    BY <1>1
  <2>2. ASSUME i + c <= Len(t), \A l \in (i + 1)..(i + c) : t[l] \in 128..191
        PROVE  \A l \in (d + i + 1)..(d + i + c) : b[l] \in 128..191
    <3> TAKE l \in (d + i + 1)..(d + i + c)
    <3>1. PICK j \in (i + 1)..(i + c) : j = l - d /\ j \in 1..Len(t) /\ d + j = l
      BY <1>1, <2>2
    <3>2. b[l] = t[j]
      BY <3>1
    <3> QED
      BY <2>2, <3>1, <3>2, Zenon
  <2>3. ASSUME i + c <= Len(t), \A l \in (d + i + 1)..(d + i + c) : b[l] \in 128..191
        PROVE  \A l \in (i + 1)..(i + c) : t[l] \in 128..191
    <3> TAKE l \in (i + 1)..(i + c)
    <3>1. PICK j \in (d + i + 1)..(d + i + c) : j = d + l /\ l \in 1..Len(t)
      BY <1>1, <2>3
    <3>2. b[j] = t[l]
      BY <3>1
    <3> QED
      BY <2>3, <3>1, <3>2, Zenon
  <2> QED
    BY <2>1, <2>2, <2>3, Zenon DEF Continues
<1>3. /\ Continues(b, d + i + 1, d + i + 1) = Continues(t, i + 1, i + 1)
      /\ Continues(b, d + i + 1, d + i + 2) = Continues(t, i + 1, i + 2)
      /\ Continues(b, d + i + 1, d + i + 3) = Continues(t, i + 1, i + 3)
  BY <1>2
<1> QED
  BY <1>1, <1>3, SMT DEF MatchAt

LEMMA MatchInside ==
    ASSUME NEW t \in Seq(Byte), NEW i \in 1..Len(t)
    PROVE  /\ MatchAt(t, i) \in {0, 2, 3, 4}
           /\ MatchAt(t, i) = 4 => i + 3 <= Len(t)
           /\ MatchAt(t, i) = 3 => i + 2 <= Len(t)
           /\ MatchAt(t, i) = 2 => i + 1 <= Len(t)
BY DEF MatchAt, Continues

LEMMA BtouShift ==
    ASSUME NEW b \in Seq(Byte), NEW t \in Seq(Byte), NEW d \in Nat, Len(b) = d + Len(t),
           \A i \in 1..Len(t) : b[d + i] = t[i],
           NEW g, Decodes(b, g), NEW h, Decodes(t, h)
    PROVE  g[d + 1] = h[1]
<1> DEFINE m == Len(t) + 1
           T == {i \in 1..m : g[d + i] = h[i]}
<1>1. Len(t) \in Nat /\ m \in Nat /\ Len(b) \in Nat
  BY LenProperties
<1>2. ASSUME NEW i \in 1..m, \A j \in (i + 1)..m : j \in T PROVE i \in T
  <2>1. g[d + i] = Decoded(b, g, d + i) /\ h[i] = Decoded(t, h, i)
    <3>1. d + i \in 1..(Len(b) + 1)
      BY <1>1
    <3> QED
      BY <3>1 DEF Decodes
  <2>2. CASE i > Len(t)
    <3>1. d + i > Len(b)
      BY <1>1, <2>2
    <3> QED
      BY <2>1, <2>2, <3>1 DEF Decoded
  <2>3. CASE ~ (i > Len(t))
    <3>1. i \in 1..Len(t) /\ ~ (d + i > Len(b))
      BY <1>1, <2>3
    <3> DEFINE x == MatchAt(t, i)
    <3>2. /\ MatchAt(b, d + i) = x /\ x \in {0, 2, 3, 4}
          /\ x = 4 => i + 3 <= Len(t)
          /\ x = 3 => i + 2 <= Len(t)
          /\ x = 2 => i + 1 <= Len(t)
      BY <3>1, MatchShift, MatchInside
    <3> HIDE DEF x
    <3>3. ASSUME NEW c \in 0..4, i + c <= Len(t) PROVE b[d + i + c] = t[i + c]
      <4>1. i + c \in 1..Len(t) /\ d + (i + c) = d + i + c
        BY <1>1, <3>3
      <4> QED
        BY <4>1
    <3>4. ASSUME NEW c \in 1..4, i + c <= m PROVE g[d + i + c] = h[i + c]
      <4>1. i + c \in (i + 1)..m /\ d + (i + c) = d + i + c
        BY <1>1, <3>4
      <4>2. i + c \in T
        BY <1>2, <4>1
      <4> QED
        BY <4>1, <4>2
    <3>5. b[d + i] = t[i]
      BY <3>1
    <3>6. CASE x = 4
      <4>1. /\ b[d + i + 1] = t[i + 1] /\ b[d + i + 2] = t[i + 2] /\ b[d + i + 3] = t[i + 3]
            /\ g[d + i + 4] = h[i + 4]
        <5>1. i + 1 <= Len(t) /\ i + 2 <= Len(t) /\ i + 3 <= Len(t) /\ i + 4 <= m
          BY <1>1, <3>2, <3>6
        <5> QED
          BY <3>3, <3>4, <5>1
      <4>2. g[d + i] = FourBytes(b[d + i], b[d + i + 1], b[d + i + 2], b[d + i + 3]) \o g[d + i + 4]
        BY <2>1, <3>1, <3>2, <3>6, Zenon DEF Decoded
      <4>3. h[i] = FourBytes(t[i], t[i + 1], t[i + 2], t[i + 3]) \o h[i + 4]
        BY <2>1, <2>3, <3>6, Zenon DEF Decoded, x
      <4> QED
        BY <3>5, <4>1, <4>2, <4>3, Zenon
    <3>7. CASE x = 3
      <4>1. /\ b[d + i + 1] = t[i + 1] /\ b[d + i + 2] = t[i + 2]
            /\ g[d + i + 3] = h[i + 3]
        <5>1. i + 1 <= Len(t) /\ i + 2 <= Len(t) /\ i + 3 <= m
          BY <1>1, <3>2, <3>7
        <5> QED
          BY <3>3, <3>4, <5>1
      <4>2. 3 # 4
        OBVIOUS
      <4>3. g[d + i] = ThreeBytes(b[d + i], b[d + i + 1], b[d + i + 2]) \o g[d + i + 3]
        BY <2>1, <3>1, <3>2, <3>7, <4>2, Zenon DEF Decoded
      <4>4. h[i] = ThreeBytes(t[i], t[i + 1], t[i + 2]) \o h[i + 3]
        BY <2>1, <2>3, <3>7, <4>2, Zenon DEF Decoded, x
      <4> QED
        BY <3>5, <4>1, <4>3, <4>4, Zenon
    <3>8. CASE x = 2
      <4>1. b[d + i + 1] = t[i + 1] /\ g[d + i + 2] = h[i + 2]
        <5>1. i + 1 <= Len(t) /\ i + 2 <= m
          BY <1>1, <3>2, <3>8
        <5> QED
          BY <3>3, <3>4, <5>1
      <4>2. 2 # 4 /\ 2 # 3
        OBVIOUS
      <4>3. g[d + i] = TwoBytes(b[d + i], b[d + i + 1]) \o g[d + i + 2]
        BY <2>1, <3>1, <3>2, <3>8, <4>2, Zenon DEF Decoded
      <4>4. h[i] = TwoBytes(t[i], t[i + 1]) \o h[i + 2]
        BY <2>1, <2>3, <3>8, <4>2, Zenon DEF Decoded, x
      <4> QED
        BY <3>5, <4>1, <4>3, <4>4, Zenon
    <3>9. CASE x = 0
      <4>1. g[d + i + 1] = h[i + 1]
        <5>1. i + 1 <= m
          BY <1>1, <2>3
        <5> QED
          BY <3>4, <5>1
      <4>2. 0 # 4 /\ 0 # 3 /\ 0 # 2
        OBVIOUS
      <4>3. g[d + i] = <<b[d + i]>> \o g[d + i + 1]
        BY <2>1, <3>1, <3>2, <3>9, <4>2, Zenon DEF Decoded
      <4>4. h[i] = <<t[i]>> \o h[i + 1]
        BY <2>1, <2>3, <3>9, <4>2, Zenon DEF Decoded, x
      <4> QED
        BY <3>5, <4>1, <4>3, <4>4, Zenon
    <3> QED
      BY <3>2, <3>6, <3>7, <3>8, <3>9
  <2> QED
    BY <2>2, <2>3
<1>3. \A i \in 1..m : i \in T
  <2> HIDE DEF T, m
  <2> QED
    BY <1>1, <1>2, FromTheEnd
<1>4. 1 \in 1..m
  BY <1>1
<1> QED
  BY <1>3, <1>4

\* The first byte of a match tells its length.
LEMMA MatchMeans ==
    ASSUME NEW t, NEW i
    PROVE  /\ MatchAt(t, i) = 4 <=> t[i] \in 240..247 /\ Continues(t, i + 1, i + 3)
           /\ MatchAt(t, i) = 3 <=> t[i] \in 224..239 /\ Continues(t, i + 1, i + 2)
           /\ MatchAt(t, i) = 2 <=> t[i] \in 192..223 /\ Continues(t, i + 1, i + 1)
           /\ t[i] \in 0..127 => MatchAt(t, i) = 0
<1> DEFINE y == t[i]
           c == Continues(t, i + 1, i + 1)
           d == Continues(t, i + 1, i + 2)
           e == Continues(t, i + 1, i + 3)
<1>1. MatchAt(t, i) = IF y \in 192..223 /\ c THEN 2
                      ELSE IF y \in 224..239 /\ d THEN 3
                      ELSE IF y \in 240..247 /\ e THEN 4 ELSE 0
  BY DEF MatchAt
<1> HIDE DEF y, c, d, e
<1>2. /\ MatchAt(t, i) = 4 <=> y \in 240..247 /\ e
      /\ MatchAt(t, i) = 3 <=> y \in 224..239 /\ d
      /\ MatchAt(t, i) = 2 <=> y \in 192..223 /\ c
      /\ y \in 0..127 => MatchAt(t, i) = 0
  BY <1>1
<1> QED
  BY <1>2 DEF y, c, d, e

\* A match does not depend on what comes after it.
LEMMA MatchFront ==
    ASSUME NEW x \in Seq(Byte), NEW b \in Seq(Byte), Len(x) <= Len(b),
           \A i \in 1..Len(x) : b[i] = x[i], Len(x) \in {2, 3, 4}, MatchAt(x, 1) = Len(x)
    PROVE  MatchAt(b, 1) = Len(x)
<1>1. Len(x) \in Nat /\ Len(b) \in Nat /\ b[1] = x[1]
  BY LenProperties
<1>2. ASSUME NEW c \in 1..3, 1 + c <= Len(x)
      PROVE  Continues(b, 1 + 1, 1 + c) = Continues(x, 1 + 1, 1 + c)
  <2>1. 1 + c <= Len(b) /\ \A l \in (1 + 1)..(1 + c) : b[l] = x[l]
    BY <1>1, <1>2
  <2> QED
    BY <1>2, <2>1 DEF Continues
<1>3. CASE Len(x) = 2
  <2>1. b[1] \in 192..223 /\ Continues(x, 1 + 1, 1 + 1)
    BY <1>1, <1>3, MatchMeans
  <2>2. Continues(b, 1 + 1, 1 + 1)
    BY <1>2, <1>3, <2>1
  <2> QED
    BY <1>3, <2>1, <2>2, MatchMeans
<1>4. CASE Len(x) = 3
  <2>1. b[1] \in 224..239 /\ Continues(x, 1 + 1, 1 + 2)
    BY <1>1, <1>4, MatchMeans
  <2>2. Continues(b, 1 + 1, 1 + 2)
    BY <1>2, <1>4, <2>1
  <2> QED
    BY <1>4, <2>1, <2>2, MatchMeans
<1>5. CASE Len(x) = 4
  <2>1. b[1] \in 240..247 /\ Continues(x, 1 + 1, 1 + 3)
    BY <1>1, <1>5, MatchMeans
  <2>2. Continues(b, 1 + 1, 1 + 3)
    BY <1>2, <1>5, <2>1
  <2> QED
    BY <1>5, <2>1, <2>2, MatchMeans
<1> QED
  BY <1>3, <1>4, <1>5

\* A character that is followed by others is decoded, then the others are.
LEMMA BtouJoin ==
    ASSUME NEW x \in Seq(Byte), NEW t \in Seq(Byte)
    PROVE  /\ Len(x) = 4 /\ MatchAt(x, 1) = 4
                => Btou(x \o t) = FourBytes(x[1], x[2], x[3], x[4]) \o Btou(t)
           /\ Len(x) = 3 /\ MatchAt(x, 1) = 3
                => Btou(x \o t) = ThreeBytes(x[1], x[2], x[3]) \o Btou(t)
           /\ Len(x) = 2 /\ MatchAt(x, 1) = 2
                => Btou(x \o t) = TwoBytes(x[1], x[2]) \o Btou(t)
           /\ Len(x) = 1 /\ x[1] < 128 => Btou(x \o t) = <<x[1]>> \o Btou(t)
<1> DEFINE b == x \o t
           d == Len(x)
<1>1. /\ b \in Seq(Byte) /\ Len(b) = d + Len(t) /\ d \in Nat /\ Len(t) \in Nat
      /\ \A i \in 1..d : b[i] = x[i]
      /\ \A i \in 1..Len(t) : b[d + i] = t[i]
  BY Joined
<1> HIDE DEF b, d
<1>2. PICK g : Decodes(b, g) /\ Btou(b) = g[1]
  <2>1. \E g : Decodes(b, g) /\ Btou(b) = g[1]
    BY <1>1, BtouDecodes
  <2> QED
    BY <2>1
<1>3. PICK h : Decodes(t, h) /\ Btou(t) = h[1]
  <2>1. \E h : Decodes(t, h) /\ Btou(t) = h[1]
    BY BtouDecodes
  <2> QED
    BY <2>1
<1>4. g[d + 1] = Btou(t)
  BY <1>1, <1>2, <1>3, BtouShift
<1>5. 1 \in 1..(Len(b) + 1)
  BY <1>1
<1>6. Btou(b) = Decoded(b, g, 1)
  BY <1>2, <1>5 DEF Decodes
<1>7. ASSUME d \in {2, 3, 4}, MatchAt(x, 1) = d PROVE MatchAt(b, 1) = d
  <2>1. Len(x) <= Len(b) /\ \A i \in 1..Len(x) : b[i] = x[i]
    BY <1>1 DEF d
  <2>2. b \in Seq(Byte) /\ Len(x) \in {2, 3, 4} /\ MatchAt(x, 1) = Len(x)
    BY <1>1, <1>7 DEF d
  <2> QED
    BY <2>1, <2>2, MatchFront, Zenon DEF d
<1>8. ASSUME d = 4, MatchAt(x, 1) = 4
      PROVE  Btou(b) = FourBytes(x[1], x[2], x[3], x[4]) \o Btou(t)
  <2>1. MatchAt(b, 1) = 4
    BY <1>7, <1>8
  <2>2. b[1] = x[1] /\ b[1 + 1] = x[2] /\ b[1 + 2] = x[3] /\ b[1 + 3] = x[4]
        /\ 1 + 4 = d + 1 /\ ~ (1 > Len(b))
    <3>1. /\ 1 \in 1..d /\ 2 \in 1..d /\ 3 \in 1..d /\ 4 \in 1..d
          /\ 1 + 1 = 2 /\ 1 + 2 = 3 /\ 1 + 3 = 4 /\ 1 + 4 = d + 1 /\ ~ (1 > Len(b))
      BY <1>1, <1>8
    <3> QED
      BY <1>1, <3>1, Zenon
  <2>3. Btou(b) = FourBytes(b[1], b[1 + 1], b[1 + 2], b[1 + 3]) \o g[1 + 4]
    BY <1>6, <2>1, <2>2, Zenon DEF Decoded
  <2> QED
    BY <1>4, <2>2, <2>3, Zenon
<1>9. ASSUME d = 3, MatchAt(x, 1) = 3
      PROVE  Btou(b) = ThreeBytes(x[1], x[2], x[3]) \o Btou(t)
  <2>1. MatchAt(b, 1) = 3
    BY <1>7, <1>9
  <2>2. b[1] = x[1] /\ b[1 + 1] = x[2] /\ b[1 + 2] = x[3]
        /\ 1 + 3 = d + 1 /\ ~ (1 > Len(b)) /\ 3 # 4
    <3>1. /\ 1 \in 1..d /\ 2 \in 1..d /\ 3 \in 1..d
          /\ 1 + 1 = 2 /\ 1 + 2 = 3 /\ 1 + 3 = d + 1 /\ ~ (1 > Len(b)) /\ 3 # 4
      BY <1>1, <1>9
    <3> QED
      BY <1>1, <3>1, Zenon
  <2>3. Btou(b) = ThreeBytes(b[1], b[1 + 1], b[1 + 2]) \o g[1 + 3]
    BY <1>6, <2>1, <2>2, Zenon DEF Decoded
  <2> QED
    BY <1>4, <2>2, <2>3, Zenon
<1>10. ASSUME d = 2, MatchAt(x, 1) = 2
      PROVE  Btou(b) = TwoBytes(x[1], x[2]) \o Btou(t)
  <2>1. MatchAt(b, 1) = 2
    BY <1>7, <1>10
  <2>2. b[1] = x[1] /\ b[1 + 1] = x[2]
        /\ 1 + 2 = d + 1 /\ ~ (1 > Len(b)) /\ 2 # 4 /\ 2 # 3
    <3>1. /\ 1 \in 1..d /\ 2 \in 1..d /\ 1 + 1 = 2 /\ 1 + 2 = d + 1
          /\ ~ (1 > Len(b)) /\ 2 # 4 /\ 2 # 3
      BY <1>1, <1>10
    <3> QED
      BY <1>1, <3>1, Zenon
  <2>3. Btou(b) = TwoBytes(b[1], b[1 + 1]) \o g[1 + 2]
    BY <1>6, <2>1, <2>2, Zenon DEF Decoded
  <2> QED
    BY <1>4, <2>2, <2>3, Zenon
<1>11. ASSUME d = 1, x[1] < 128
       PROVE  Btou(b) = <<x[1]>> \o Btou(t)
  <2>1. b[1] = x[1] /\ x[1] \in Byte
    BY <1>1, <1>11, ElementOfSeq DEF d
  <2>2. MatchAt(b, 1) = 0
    <3>1. b[1] \in 0..127
      BY <1>11, <2>1, ByteIsInt, Zenon
    <3> QED
      BY <3>1, MatchMeans
  <2>3. 1 + 1 = d + 1 /\ ~ (1 > Len(b)) /\ 0 # 4 /\ 0 # 3 /\ 0 # 2
    BY <1>1, <1>11
  <2>4. Btou(b) = <<b[1]>> \o g[1 + 1]
    BY <1>6, <2>2, <2>3, Zenon DEF Decoded
  <2> QED
    BY <1>4, <2>1, <2>3, <2>4, Zenon
<1> QED
  BY <1>8, <1>9, <1>10, <1>11 DEF b, d

LEMMA BtouEmpty == Btou(<<>>) = <<>>
<1>1. <<>> \in Seq(Byte) /\ Len(<<>>) = 0
  BY EmptySeq
<1>2. PICK g : Decodes(<<>>, g) /\ Btou(<<>>) = g[1]
  <2>1. \E g : Decodes(<<>>, g) /\ Btou(<<>>) = g[1]
    BY <1>1, BtouDecodes
  <2> QED
    BY <2>1
<1>3. g[1] = Decoded(<<>>, g, 1)
  BY <1>1, <1>2 DEF Decodes
<1> QED
  BY <1>1, <1>2, <1>3 DEF Decoded

\* Text that was made UTF-8 is decoded to itself (base64.js, utob and btou).
THEOREM TextReadsBack ==
    ASSUME NEW s \in Seq(Unit), IsText(s)
    PROVE  Utob(s) \in Seq(Byte) /\ Btou(Utob(s)) = s
<1> DEFINE n == Len(s)
           m == n + 1
<1>1. n \in Nat /\ m \in Nat /\ 1 \in 1..m /\ DOMAIN s = 1..n
  BY LenProperties
<1>2. PICK f \in [1..m -> Seq(Byte)] :
          /\ Utob(s) = f[1]
          /\ \A i \in 1..m : f[i] = IF i > n THEN <<>>
                                    ELSE IF MatchesPair(s, i) THEN PairBytes(s[i], s[i + 1]) \o f[i + 2]
                                    ELSE UnitBytes(s[i]) \o f[i + 1]
  BY UtobRecursion
<1> DEFINE T == {i \in 1..m : Btou(f[i]) = SubSeq(s, i, n)}
<1>3. ASSUME NEW i \in 1..m, \A j \in (i + 1)..m : j \in T PROVE i \in T
  <2>1. CASE i > n
    <3>1. f[i] = <<>>
      BY <1>2, <2>1
    <3>2. SubSeq(s, i, n) = <<>>
      BY <1>1, <2>1, SubSeqEmpty
    <3> QED
      BY <3>1, <3>2, BtouEmpty
  <2>2. CASE ~ (i > n) /\ MatchesPair(s, i)
    <3>1. i \in 1..n /\ i < n /\ i + 1 \in 1..n /\ i + 1 + 1 = i + 2
          /\ i + 2 \in (i + 1)..m /\ i + 2 \in 1..m
      BY <1>1, <2>2 DEF MatchesPair
    <3>2. High(s[i]) /\ Low(s[i + 1])
      BY <2>2, <3>1, PairOfText
    <3> DEFINE x == PairBytes(s[i], s[i + 1])
    <3>3. x \in Seq(Byte) /\ Len(x) = 4 /\ MatchAt(x, 1) = 4
          /\ FourBytes(x[1], x[2], x[3], x[4]) = <<s[i], s[i + 1]>>
      BY <3>2, PairBytesAre, PairReadsBack
    <3>4. f[i] = x \o f[i + 2] /\ f[i + 2] \in Seq(Byte) /\ Btou(f[i + 2]) = SubSeq(s, i + 2, n)
      BY <1>2, <1>3, <2>2, <3>1
    <3> HIDE DEF x
    <3>5. Btou(f[i]) = <<s[i], s[i + 1]>> \o SubSeq(s, i + 2, n)
      BY <3>3, <3>4, BtouJoin
    <3>6. /\ <<s[i + 1]>> \o SubSeq(s, i + 1 + 1, n) = SubSeq(s, i + 1, n)
          /\ <<s[i]>> \o SubSeq(s, i + 1, n) = SubSeq(s, i, n)
      BY <1>1, <3>1, OneMore
    <3>7. <<s[i], s[i + 1]>> \o SubSeq(s, i + 2, n) = <<s[i]>> \o (<<s[i + 1]>> \o SubSeq(s, i + 2, n))
      <4>1. <<s[i]>> \in Seq(Unit) /\ <<s[i + 1]>> \in Seq(Unit)
        BY <3>1, ElementOfSeq
      <4>2. SubSeq(s, i + 2, n) \in Seq(Unit)
        <5>1. \A j \in (i + 2)..n : s[j] \in Unit
          BY <1>1, <3>1, ElementOfSeq
        <5> QED
          BY <1>1, <3>1, <5>1, SubSeqProperties
      <4>3. <<s[i], s[i + 1]>> = <<s[i]>> \o <<s[i + 1]>>
        BY <4>1
      <4> QED
        BY <4>1, <4>2, <4>3, ConcatAssociative
    <3> QED
      BY <3>1, <3>5, <3>6, <3>7
  <2>3. CASE ~ (i > n) /\ ~ MatchesPair(s, i)
    <3>1. i \in 1..n /\ i + 1 \in (i + 1)..m /\ i + 1 \in 1..m
      BY <1>1, <2>3
    <3> DEFINE u == s[i]
               x == UnitBytes(u)
    <3>2. u \in Unit /\ x \in Seq(Byte)
      BY <3>1, ElementOfSeq, UnitBytesAre
    <3>3. f[i] = x \o f[i + 1] /\ f[i + 1] \in Seq(Byte) /\ Btou(f[i + 1]) = SubSeq(s, i + 1, n)
      BY <1>2, <1>3, <2>3, <3>1
    <3>4. <<u>> \o SubSeq(s, i + 1, n) = SubSeq(s, i, n)
      <4>1. n \in 0..Len(s) /\ i \in 1..n
        BY <1>1, <3>1
      <4> QED
        BY <4>1, OneMore
    <3>5. Btou(f[i]) = <<u>> \o SubSeq(s, i + 1, n)
      <4>1. CASE u < 128
        <5>1. x = <<u>>
          BY <4>1 DEF UnitBytes
        <5>2. Len(x) = 1 /\ x[1] = u
          BY <5>1
        <5> HIDE DEF x, u
        <5> QED
          BY <3>2, <3>3, <4>1, <5>2, BtouJoin
      <4>2. CASE ~ (u < 128)
        <5>1. u >= 128
          BY <3>2, <4>2, UnitIsInt, Zenon
        <5>2. /\ MatchAt(x, 1) = Len(x)
              /\ \/ Len(x) = 2 /\ TwoBytes(x[1], x[2]) = <<u>>
                 \/ Len(x) = 3 /\ ThreeBytes(x[1], x[2], x[3]) = <<u>>
          BY <3>2, <5>1, UnitReadsBack
        <5> HIDE DEF x, u
        <5> QED
          BY <3>2, <3>3, <5>2, BtouJoin
      <4> QED
        BY <4>1, <4>2
    <3> QED
      BY <3>4, <3>5
  <2> QED
    BY <2>1, <2>2, <2>3
<1>4. \A i \in 1..m : i \in T
  <2> HIDE DEF T, m
  <2> QED
    BY <1>1, <1>3, FromTheEnd
<1>5. SubSeq(s, 1, n) = s
  <2>1. /\ SubSeq(s, 1, n) \in Seq(Unit) /\ Len(SubSeq(s, 1, n)) = n
        /\ \A i \in 1..n : SubSeq(s, 1, n)[i] = s[i]
    BY <1>1, CutOff
  <2> QED
    BY <2>1, SeqEqual
<1> QED
  BY <1>1, <1>2, <1>4, <1>5

-----------------------------------------------------------------------------
(* Links.                                                                   *)

\* Characters, and after them padding only.
ThenPadding(asc, k) ==
    /\ \A i \in 1..k : asc[i] \in Sextet
    /\ \A i \in (k + 1)..Len(asc) : asc[i] = Equals

\* What becomes of a character on the way.
Safe(c) == CASE c = 62 -> Minus [] c = 63 -> Underscore [] OTHER -> c
Plain(c) == CASE c = Minus -> 62 [] c = Underscore -> 63 [] OTHER -> c

LEMMA CharactersAre ==
    ASSUME NEW c \in Sextet
    PROVE  /\ c \in Character /\ c \notin NotBase64 /\ c \notin {Equals}
           /\ Plain(c) = c /\ Plain(Safe(c)) = c /\ Safe(c) \in Character
<1>1. c \in Int /\ c >= 0 /\ c <= 63
  BY DEF Sextet
<1>2. Minus = 65 /\ Underscore = 66 /\ Equals = 64 /\ Other = 67
  BY DEF Minus, Underscore, Equals, Other
<1>3. c \in Character /\ c \notin NotBase64 /\ c \notin {Equals} /\ Plain(c) = c
  BY <1>1, <1>2 DEF Character, NotBase64, Plain
<1>4. CASE c = 62
  BY <1>2, <1>3, <1>4 DEF Safe, Plain, Character, NotBase64
<1>5. CASE c = 63
  BY <1>2, <1>3, <1>5 DEF Safe, Plain, Character, NotBase64
<1>6. CASE c # 62 /\ c # 63
  <2>1. Safe(c) = c
    BY <1>6 DEF Safe
  <2> QED
    BY <1>3, <2>1
<1> QED
  BY <1>3, <1>4, <1>5, <1>6

LEMMA PaddingStays == Plain(Equals) = Equals /\ Equals \in Character /\ Equals \in NotBase64
BY DEF Plain, Minus, Underscore, Equals, Character, NotBase64

\* The padding goes; what was made safe for a link is made plain again.
LEMMA UnURIReads ==
    ASSUME NEW asc \in Seq(Character), NEW k \in 0..Len(asc), ThenPadding(asc, k)
    PROVE  LET text == SubSeq(asc, 1, k)
           IN /\ Without(asc, {Equals}) = text
              /\ UnURI(asc) = text
              /\ UnURI([i \in DOMAIN text |-> Safe(text[i])]) = text
<1> DEFINE text == SubSeq(asc, 1, k)
           safe == [i \in DOMAIN text |-> Safe(text[i])]
<1>1. /\ text \in Seq(Character) /\ Len(text) = k
      /\ \A i \in 1..k : text[i] = asc[i]
  BY CutOff
<1>2. DOMAIN asc = 1..Len(asc) /\ DOMAIN text = 1..k /\ Len(asc) \in Nat /\ k \in Nat
  BY <1>1, LenProperties
<1>3. /\ \A i \in 1..k : asc[i] \notin {Equals} /\ asc[i] \notin NotBase64 /\ Plain(asc[i]) = asc[i]
      /\ \A i \in (k + 1)..Len(asc) : asc[i] \in {Equals} /\ asc[i] \in NotBase64
                                      /\ Plain(asc[i]) = asc[i]
  BY CharactersAre, PaddingStays DEF ThenPadding
<1>4. Without(asc, {Equals}) = text
  BY <1>3, WithoutIs
<1>5. UnURI(asc) = text
  <2> DEFINE plain == [i \in DOMAIN asc |-> Plain(asc[i])]
  <2>1. \A i \in 1..Len(asc) : Plain(asc[i]) = asc[i]
    <3> TAKE i \in 1..Len(asc)
    <3>1. i \in 1..k \/ i \in (k + 1)..Len(asc)
      BY <1>2
    <3> QED
      BY <1>3, <3>1
  <2>2. asc = [i \in DOMAIN asc |-> asc[i]]
    BY LenProperties
  <2>3. plain = asc
    BY <1>2, <2>1, <2>2
  <2>4. UnURI(asc) = Without(plain, NotBase64)
    BY DEF UnURI, Plain
  <2>5. Without(asc, NotBase64) = text
    BY <1>3, WithoutIs
  <2> QED
    BY <2>3, <2>4, <2>5
<1>6. UnURI(safe) = text
  <2> DEFINE plain == [i \in DOMAIN safe |-> Plain(safe[i])]
  <2>1. \A i \in 1..k : text[i] \in Sextet
    BY <1>1 DEF ThenPadding
  <2>2. DOMAIN safe = 1..k
    BY <1>2
  <2>3. \A i \in 1..k : Plain(safe[i]) = text[i]
    <3> TAKE i \in 1..k
    <3>1. safe[i] = Safe(text[i])
      BY <1>2
    <3> HIDE DEF safe
    <3> QED
      BY <2>1, <3>1, CharactersAre
  <2>4. text = [i \in DOMAIN text |-> text[i]]
    BY <1>1, LenProperties
  <2>5. plain = text
    <3> HIDE DEF text, safe
    <3> QED
      BY <1>2, <2>2, <2>3, <2>4
  <2>6. UnURI(safe) = Without(plain, NotBase64)
    BY DEF UnURI, Plain
  <2>7. Without(text, NotBase64) = SubSeq(text, 1, k)
    <3>1. \A i \in 1..k : text[i] \notin NotBase64
      BY <2>1, CharactersAre
    <3>2. k \in 0..Len(text) /\ (k + 1)..Len(text) = {}
      BY <1>1, <1>2
    <3> HIDE DEF text
    <3> QED
      BY <1>1, <3>1, <3>2, WithoutIs
  <2>8. SubSeq(text, 1, k) = text
    <3>1. k \in 0..Len(text)
      BY <1>1, <1>2
    <3> HIDE DEF text
    <3>2. /\ SubSeq(text, 1, k) \in Seq(Character) /\ Len(SubSeq(text, 1, k)) = k
          /\ \A i \in 1..k : SubSeq(text, 1, k)[i] = text[i]
      BY <1>1, <3>1, CutOff
    <3> QED
      BY <1>1, <3>2, SeqEqual
  <2> QED
    BY <2>5, <2>6, <2>7, <2>8
<1> QED
  BY <1>4, <1>5, <1>6

\* The numbers of characters, of bytes and of groups.
LEMMA Counts ==
    ASSUME NEW n \in Nat
    PROVE  LET k == (8 * n + 5) \div 6
               groups == (n + 2) \div 3
           IN /\ k \in Nat /\ groups \in Nat /\ k <= 4 * groups /\ (6 * k) \div 8 = n
              /\ \/ n = 3 * groups /\ k = 4 * groups
                 \/ n = 3 * groups - 1 /\ k = 4 * groups - 1
                 \/ n = 3 * groups - 2 /\ k = 4 * groups - 2
<1> DEFINE q == n \div 3
           k == (8 * n + 5) \div 6
           groups == (n + 2) \div 3
<1>1. q \in Nat /\ n % 3 \in 0..2 /\ n = 3 * q + (n % 3)
  BY SMT
<1>2. CASE n % 3 = 0
  <2>1. k = 4 * q /\ groups = q /\ n = 3 * q
    BY SMT, <1>1, <1>2
  <2>2. (6 * (4 * q)) \div 8 = 3 * q
    BY SMT, <1>1
  <2> HIDE DEF k, groups, q
  <2>3. k \in Nat /\ groups \in Nat /\ k <= 4 * groups /\ (6 * k) \div 8 = n
        /\ n = 3 * groups /\ k = 4 * groups
    BY <1>1, <2>1, <2>2
  <2> QED
    BY <2>3 DEF k, groups
<1>3. CASE n % 3 = 1
  <2>1. k = 4 * q + 2 /\ groups = q + 1 /\ n = 3 * q + 1
    BY SMT, <1>1, <1>3
  <2>2. (6 * (4 * q + 2)) \div 8 = 3 * q + 1
    BY SMT, <1>1
  <2> HIDE DEF k, groups, q
  <2>3. k \in Nat /\ groups \in Nat /\ k <= 4 * groups /\ (6 * k) \div 8 = n
        /\ n = 3 * groups - 2 /\ k = 4 * groups - 2
    BY <1>1, <2>1, <2>2
  <2> QED
    BY <2>3 DEF k, groups
<1>4. CASE n % 3 = 2
  <2>1. k = 4 * q + 3 /\ groups = q + 1 /\ n = 3 * q + 2
    BY SMT, <1>1, <1>4
  <2>2. (6 * (4 * q + 3)) \div 8 = 3 * q + 2
    BY SMT, <1>1
  <2> HIDE DEF k, groups, q
  <2>3. k \in Nat /\ groups \in Nat /\ k <= 4 * groups /\ (6 * k) \div 8 = n
        /\ n = 3 * groups - 1 /\ k = 4 * groups - 1
    BY <1>1, <2>1, <2>2
  <2> QED
    BY <2>3 DEF k, groups
<1> QED
  BY <1>1, <1>2, <1>3, <1>4

\* The characters of a group are sextets; those that stand for no byte are zero.
LEMMA CharactersOfGroup ==
    ASSUME NEW bin \in Seq(Byte), NEW q \in Nat
    PROVE  /\ \A r \in 0..3 : GroupAt(bin, q)[1 + r] \in Sextet
           /\ \A r \in 0..2 : Ungroup(GroupAt(bin, q)[1], GroupAt(bin, q)[2], GroupAt(bin, q)[3],
                                      GroupAt(bin, q)[4])[1 + r] = ByteAt(bin, 3 * q + 1 + r)
           /\ Len(bin) < 3 * q + 2 => GroupAt(bin, q)[3] = 0
           /\ Len(bin) < 3 * q + 3 => GroupAt(bin, q)[4] = 0
<1> DEFINE x == ByteAt(bin, 3 * q + 1)
           y == ByteAt(bin, 3 * q + 2)
           z == ByteAt(bin, 3 * q + 3)
           g == GroupAt(bin, q)
<1>1. /\ 3 * q + 2 = (3 * q + 1) + 1 /\ 3 * q + 3 = (3 * q + 2) + 1
      /\ 3 * q \in Nat /\ 3 * q + 1 \in Nat /\ 3 * q + 2 \in Nat
  OBVIOUS
<1>2. x \in Byte /\ y \in Byte /\ z \in Byte
  BY <1>1, BytesOf
<1>3. Len(bin) \in Nat
  BY LenProperties
<1>4. /\ Len(bin) < 3 * q + 2 => y = 0 /\ z = 0
      /\ Len(bin) < 3 * q + 3 => z = 0
  BY <1>3 DEF ByteAt
<1>5. g = Group(x, y, z)
  BY DEF GroupAt
<1>6. 3 * q + 1 + 0 = 3 * q + 1 /\ 3 * q + 1 + 1 = 3 * q + 2 /\ 3 * q + 1 + 2 = 3 * q + 3
  OBVIOUS
<1>7. ASSUME NEW r \in 0..2
      PROVE  <<x, y, z>>[1 + r] = ByteAt(bin, 3 * q + 1 + r)
  <2>1. r = 0 \/ r = 1 \/ r = 2
    OBVIOUS
  <2>2. <<x, y, z>>[1 + 0] = x /\ <<x, y, z>>[1 + 1] = y /\ <<x, y, z>>[1 + 2] = z
    OBVIOUS
  <2> QED
    BY <1>6, <2>1, <2>2, Zenon
<1> HIDE DEF x, y, z, g
<1>8. /\ \A i \in 1..4 : g[i] \in Sextet
      /\ Ungroup(g[1], g[2], g[3], g[4]) = <<x, y, z>>
  BY <1>2, <1>5, GroupReadsBack
<1>9. g[3] = (y % 16) * 4 + (z \div 64) /\ g[4] = z % 64
  BY <1>2, <1>5, GroupIs
<1>10. /\ Len(bin) < 3 * q + 2 => g[3] = 0
       /\ Len(bin) < 3 * q + 3 => g[4] = 0
  BY <1>4, <1>9
<1>11. \A r \in 0..3 : 1 + r \in 1..4
  OBVIOUS
<1> QED
  BY <1>7, <1>8, <1>10, <1>11 DEF g

\* What btoa makes: the characters of the groups, then padding.
LEMMA BtoaMakes ==
    ASSUME NEW bin \in Seq(Byte)
    PROVE  LET asc == NativeBtoa(bin)
               groups == (Len(bin) + 2) \div 3
               k == (8 * Len(bin) + 5) \div 6
           IN /\ asc \in Seq(Character) /\ Len(asc) = 4 * groups /\ k \in 0..Len(asc)
              /\ ThenPadding(asc, k)
              /\ \A q \in 0..(groups - 1), r \in 0..3 :
                     IF 4 * q + 1 + r <= k
                     THEN asc[4 * q + 1 + r] = GroupAt(bin, q)[1 + r]
                     ELSE GroupAt(bin, q)[1 + r] = 0
<1> DEFINE n == Len(bin)
           asc == NativeBtoa(bin)
           groups == (n + 2) \div 3
           k == (8 * n + 5) \div 6
           made == [j \in 1..(4 * groups) |-> IF j <= k THEN SextetAt(bin, 6 * (j - 1)) ELSE Equals]
<1>1. n \in Nat /\ DOMAIN bin = 1..n
  BY LenProperties, Zenon
<1>2. /\ k \in Nat /\ groups \in Nat /\ k <= 4 * groups
      /\ \/ n = 3 * groups /\ k = 4 * groups
         \/ n = 3 * groups - 1 /\ k = 4 * groups - 1
         \/ n = 3 * groups - 2 /\ k = 4 * groups - 2
  BY <1>1, Counts
<1>3. asc = made
  <2>1. \A i \in DOMAIN bin : ~ (bin[i] > 255)
    <3> TAKE i \in DOMAIN bin
    <3>1. bin[i] \in Byte
      BY <1>1, ElementOfSeq
    <3>2. \A x \in Byte : ~ (x > 255)
      BY DEF Byte
    <3> QED
      BY <3>1, <3>2, Zenon
  <2> QED
    BY <2>1 DEF NativeBtoa, SextetAt
<1>4. ASSUME NEW j \in 1..(4 * groups)
      PROVE  /\ (j - 1) \div 4 \in Nat /\ (j - 1) % 4 \in 0..3
             /\ SextetAt(bin, 6 * (j - 1)) = GroupAt(bin, (j - 1) \div 4)[1 + ((j - 1) % 4)]
  <2>1. (j - 1) \div 4 \in Nat /\ (j - 1) % 4 \in 0..3
    <3>1. j - 1 \in Nat
      BY <1>2
    <3> QED
      BY SMT, <3>1
  <2> QED
    BY <2>1, SextetsAre
<1>5. \A j \in 1..(4 * groups) : SextetAt(bin, 6 * (j - 1)) \in Sextet
  BY <1>4, CharactersOfGroup
<1> HIDE DEF n, groups, k
<1>6. /\ DOMAIN made = 1..(4 * groups)
      /\ \A j \in 1..(4 * groups) : made[j] = IF j <= k THEN SextetAt(bin, 6 * (j - 1)) ELSE Equals
  OBVIOUS
<1>7. made \in [1..(4 * groups) -> Character]
  <2>1. \A j \in 1..(4 * groups) : (IF j <= k THEN SextetAt(bin, 6 * (j - 1)) ELSE Equals) \in Character
    BY <1>5, PaddingStays DEF Character
  <2> HIDE DEF Character
  <2> QED
    BY <2>1
<1> HIDE DEF made, asc
<1>8. asc \in Seq(Character) /\ Len(asc) = 4 * groups /\ k \in 0..Len(asc)
  <2>1. 4 * groups \in Nat
    BY <1>2
  <2>2. asc \in Seq(Character) /\ Len(asc) = 4 * groups
    BY <1>3, <1>7, <2>1, FunctionSeq
  <2> QED
    BY <1>2, <2>2
<1>9. ThenPadding(asc, k)
  <2>1. \A i \in 1..k : i \in 1..(4 * groups) /\ i <= k
    BY <1>2
  <2>2. \A i \in (k + 1)..Len(asc) : i \in 1..(4 * groups) /\ ~ (i <= k)
    BY <1>2, <1>8
  <2> QED
    BY <1>3, <1>5, <1>6, <2>1, <2>2 DEF ThenPadding
<1>10. ASSUME NEW q \in 0..(groups - 1), NEW r \in 0..3
       PROVE  IF 4 * q + 1 + r <= k
              THEN asc[4 * q + 1 + r] = GroupAt(bin, q)[1 + r]
              ELSE GroupAt(bin, q)[1 + r] = 0
  <2> DEFINE j == 4 * q + 1 + r
  <2>1. j \in 1..(4 * groups) /\ q \in Nat /\ j - 1 = 4 * q + r
    BY <1>2
  <2>2. (j - 1) \div 4 = q /\ (j - 1) % 4 = r
    <3>1. (4 * q + r) \div 4 = q /\ (4 * q + r) % 4 = r
      BY SMT, <2>1
    <3> QED
      BY <2>1, <3>1
  <2> HIDE DEF j
  <2>3. CASE j <= k
    <3>1. asc[j] = GroupAt(bin, q)[1 + r]
      BY <1>3, <1>4, <1>6, <2>1, <2>2, <2>3
    <3> QED
      BY <2>3, <3>1 DEF j
  <2>4. CASE ~ (j <= k)
    <3>1. \/ r = 2 /\ n < 3 * q + 2
          \/ r = 3 /\ n < 3 * q + 3
      BY <1>1, <1>2, <2>1, <2>4 DEF j
    <3>2. GroupAt(bin, q)[1 + r] = 0
      <4>1. 1 + 2 = 3 /\ 1 + 3 = 4
        OBVIOUS
      <4>2. /\ n < 3 * q + 2 => GroupAt(bin, q)[3] = 0
            /\ n < 3 * q + 3 => GroupAt(bin, q)[4] = 0
        BY <2>1, CharactersOfGroup DEF n
      <4> QED
        BY <3>1, <4>1, <4>2, Zenon
    <3> QED
      BY <2>4, <3>2 DEF j
  <2> QED
    BY <2>3, <2>4
<1> QED
  BY <1>8, <1>9, <1>10 DEF asc, groups, k, n

\* The characters that btoa makes of bytes, without the padding, are read back
\* as the bytes, by the polyfill of atob and by the browser.
THEOREM BytesReadBack ==
    ASSUME NEW bin \in Seq(Byte)
    PROVE  LET text == SubSeq(NativeBtoa(bin), 1, (8 * Len(bin) + 5) \div 6)
           IN AtobPolyfill(text) = bin /\ NativeAtob(text) = bin
<1> DEFINE n == Len(bin)
           asc == NativeBtoa(bin)
           groups == (n + 2) \div 3
           k == (8 * n + 5) \div 6
           text == SubSeq(asc, 1, k)
           digit(i) == DigitAt(text, i)
<1>1. n \in Nat /\ bin \in [1..n -> Byte]
  BY LenProperties, Zenon
<1>2. /\ k \in Nat /\ groups \in Nat /\ k <= 4 * groups /\ (6 * k) \div 8 = n
      /\ \/ n = 3 * groups /\ k = 4 * groups
         \/ n = 3 * groups - 1 /\ k = 4 * groups - 1
         \/ n = 3 * groups - 2 /\ k = 4 * groups - 2
  BY <1>1, Counts
<1>3. /\ asc \in Seq(Character) /\ Len(asc) = 4 * groups /\ k \in 0..Len(asc)
      /\ ThenPadding(asc, k)
      /\ \A q \in 0..(groups - 1), r \in 0..3 :
             IF 4 * q + 1 + r <= k
             THEN asc[4 * q + 1 + r] = GroupAt(bin, q)[1 + r]
             ELSE GroupAt(bin, q)[1 + r] = 0
  BY BtoaMakes
<1> HIDE DEF n, asc, groups, k
<1>4. text \in Seq(Character) /\ Len(text) = k /\ \A i \in 1..k : text[i] = asc[i]
  BY <1>3, CutOff
<1> HIDE DEF text
<1>5. k \in 0..Len(text) /\ WellformedAt(text, k)
  <2>1. \A i \in DOMAIN text : i <= k /\ text[i] \in Sextet
    <3>1. DOMAIN text = 1..k
      BY <1>4, LenProperties
    <3>2. \A i \in 1..k : i <= k /\ text[i] \in Sextet
      BY <1>2, <1>3, <1>4 DEF ThenPadding
    <3> QED
      BY <3>1, <3>2
  <2>2. (k + 1)..Len(text) = {} /\ k \in 0..Len(text)
    BY <1>2, <1>4
  <2>3. k % 4 = 0 \/ k % 4 = 2 \/ k % 4 = 3
    <3>1. CASE k = 4 * groups
      BY SMT, <1>2, <3>1
    <3>2. CASE k = 4 * groups - 1
      BY SMT, <1>2, <3>2
    <3>3. CASE k = 4 * groups - 2
      BY SMT, <1>2, <3>3
    <3> QED
      BY <1>2, <3>1, <3>2, <3>3
  <2> QED
    BY <1>4, <2>1, <2>2, <2>3 DEF WellformedAt
<1>6. /\ \A i \in 1..k : Filled(text)[i] = text[i] /\ text[i] \in Sextet
      /\ \A i \in (k + 1)..(4 * groups) : Filled(text)[i] = Equals
  <2>1. 4 * ((k + 3) \div 4) = 4 * groups
    <3>1. CASE k = 4 * groups
      BY SMT, <1>2, <3>1
    <3>2. CASE k = 4 * groups - 1
      BY SMT, <1>2, <3>2
    <3>3. CASE k = 4 * groups - 2
      BY SMT, <1>2, <3>3
    <3> QED
      BY <1>2, <3>1, <3>2, <3>3
  <2>2. /\ \A i \in 1..k : Filled(text)[i] = text[i] /\ text[i] \in Sextet
        /\ \A i \in (k + 1)..(4 * ((k + 3) \div 4)) : Filled(text)[i] = Equals
    BY <1>4, <1>5, FilledIs
  <2> QED
    BY <2>1, <2>2, Zenon
<1>7. ASSUME NEW q \in 0..(groups - 1), NEW r \in 0..3
      PROVE  digit(4 * q + 1 + r) = GroupAt(bin, q)[1 + r]
  <2> DEFINE i == 4 * q + 1 + r
  <2>1. i \in 1..(4 * groups) /\ i \in Int /\ k \in Int
    BY <1>2
  <2>2. IF i <= k THEN asc[i] = GroupAt(bin, q)[1 + r] ELSE GroupAt(bin, q)[1 + r] = 0
    BY <1>3
  <2> HIDE DEF i
  <2>3. CASE i <= k
    <3>1. i \in 1..k
      BY <2>1, <2>3
    <3>2. Filled(text)[i] = asc[i] /\ asc[i] \in Sextet
      BY <1>4, <1>6, <3>1
    <3> QED
      BY <2>2, <2>3, <3>2, SextetKept DEF i, DigitAt
  <2>4. CASE ~ (i <= k)
    <3>1. i \in (k + 1)..(4 * groups)
      BY <1>2, <2>1, <2>4
    <3>2. Filled(text)[i] = Equals /\ Equals % 64 = 0
      BY <1>6, <3>1 DEF Equals
    <3> QED
      BY <2>2, <2>4, <3>2, Zenon DEF i, DigitAt
  <2> QED
    BY <2>3, <2>4
<1>8. /\ \A i \in 1..k : Unpadded(text)[i] = text[i]
      /\ NativeAtob(text) = [j \in 1..n |-> OctetAt(Unpadded(text), 8 * (j - 1))]
  <2>1. /\ \A i \in 1..k : Unpadded(text)[i] = text[i]
        /\ NativeAtob(text) = [j \in 1..((6 * k) \div 8) |-> OctetAt(Unpadded(text), 8 * (j - 1))]
    BY <1>4, <1>5, NativeReads
  <2> QED
    BY <1>2, <2>1, Zenon
<1>9. ASSUME NEW j \in 1..n PROVE OctetAt(Unpadded(text), 8 * (j - 1)) = bin[j]
  <2> DEFINE q == (j - 1) \div 3
             r == (j - 1) % 3
  <2>1. j \in Nat /\ j >= 1 /\ j <= n
    BY <1>1 DEF n
  <2>2. q \in Nat /\ r \in 0..2 /\ j - 1 = 3 * q + r
    BY SMT, <2>1
  <2> HIDE DEF q, r
  <2>3. 8 * (j - 1) = 24 * q + 8 * r /\ 3 * q + r < n /\ j = 3 * q + 1 + r /\ q \in 0..(groups - 1)
    BY <1>1, <1>2, <2>1, <2>2
  <2>4. 3 * q + r < (6 * k) \div 8
    BY <1>2, <2>3, Zenon
  <2>5. Ungroup(digit(4 * q + 1), digit(4 * q + 2), digit(4 * q + 3), digit(4 * q + 4))[1 + r]
        = OctetAt(Unpadded(text), 24 * q + 8 * r)
    <3>1. \A i \in 1..k : Unpadded(text)[i] = text[i]
      BY <1>8
    <3> QED
      BY <1>4, <1>5, <2>2, <2>4, <3>1, BytesOfWellformed, ZenonT(30)
  <2>6. /\ digit(4 * q + 1) = GroupAt(bin, q)[1] /\ digit(4 * q + 2) = GroupAt(bin, q)[2]
        /\ digit(4 * q + 3) = GroupAt(bin, q)[3] /\ digit(4 * q + 4) = GroupAt(bin, q)[4]
    <3>1. /\ 4 * q + 1 + 0 = 4 * q + 1 /\ 4 * q + 1 + 1 = 4 * q + 2
          /\ 4 * q + 1 + 2 = 4 * q + 3 /\ 4 * q + 1 + 3 = 4 * q + 4
          /\ 1 + 0 = 1 /\ 1 + 1 = 2 /\ 1 + 2 = 3 /\ 1 + 3 = 4
          /\ 0 \in 0..3 /\ 1 \in 0..3 /\ 2 \in 0..3 /\ 3 \in 0..3
      BY <2>2
    <3> HIDE DEF digit
    <3>2. /\ digit(4 * q + 1 + 0) = GroupAt(bin, q)[1 + 0] /\ digit(4 * q + 1 + 1) = GroupAt(bin, q)[1 + 1]
          /\ digit(4 * q + 1 + 2) = GroupAt(bin, q)[1 + 2] /\ digit(4 * q + 1 + 3) = GroupAt(bin, q)[1 + 3]
      BY <1>7, <2>3, <3>1, Zenon
    <3> QED
      BY <3>1, <3>2, Zenon
  <2>7. Ungroup(GroupAt(bin, q)[1], GroupAt(bin, q)[2], GroupAt(bin, q)[3], GroupAt(bin, q)[4])[1 + r]
        = ByteAt(bin, 3 * q + 1 + r)
    BY <2>2, CharactersOfGroup, Zenon
  <2>8. ByteAt(bin, j) = bin[j]
    BY <2>1 DEF ByteAt, n
  <2> HIDE DEF digit
  <2> QED
    BY <2>3, <2>5, <2>6, <2>7, <2>8, Zenon
<1>10. NativeAtob(text) = bin
  <2>1. bin = [j \in 1..n |-> bin[j]]
    BY <1>1 DEF n
  <2> QED
    BY <1>8, <1>9, <2>1
<1>11. AtobPolyfill(text) = bin
  BY <1>4, <1>10, AtobAgrees
<1> QED
  BY <1>10, <1>11 DEF text, asc, k, n

\* Text holds no lone surrogate: the encoder of the browser makes of it what
\* utob does, and the decoder of the browser drops nothing.
LEMMA TextIsKept ==
    ASSUME NEW s \in Seq(Unit), IsText(s)
    PROVE  TextEncode(s) = Utob(s) /\ TextDecode(Utob(s)) = s
<1>1. s = [i \in DOMAIN s |-> s[i]] /\ DOMAIN s = 1..Len(s) /\ Len(s) \in Nat
  BY LenProperties
<1>2. \A i \in DOMAIN s : ~ Lone(s, i) /\ (i = 1 => s[i] # 65279)
  BY DEF IsText
<1>3. TextEncode(s) = Utob(s)
  <2>1. [i \in DOMAIN s |-> IF Lone(s, i) THEN 65533 ELSE s[i]] = s
    <3>1. [i \in DOMAIN s |-> IF Lone(s, i) THEN 65533 ELSE s[i]] = [i \in DOMAIN s |-> s[i]]
      BY <1>2
    <3> QED
      BY <1>1, <3>1
  <2> QED
    BY <2>1 DEF TextEncode
<1>4. TextDecode(Utob(s)) = s
  <2>1. Btou(Utob(s)) = s
    BY TextReadsBack
  <2>2. ~ (s # <<>> /\ Head(s) = 65279)
    <3> SUFFICES ASSUME s # <<>> PROVE Head(s) # 65279
      OBVIOUS
    <3>1. Len(s) # 0
      BY EmptySeq
    <3>2. 1 \in DOMAIN s
      BY <1>1, <3>1
    <3>3. Head(s) = s[1]
      OBVIOUS
    <3> QED
      BY <1>2, <3>2, <3>3
  <2> QED
    BY <2>1, <2>2 DEF TextDecode
<1> QED
  BY <1>3, <1>4

\* The two links that a browser makes of a text, and what UnURI takes of each.
LEMMA LinksOf ==
    ASSUME NEW s \in Seq(Unit), IsText(s), NEW b \in Browsers
    PROVE  LET text == SubSeq(NativeBtoa(Utob(s)), 1, (8 * Len(Utob(s)) + 5) \div 6)
           IN UnURI(Encode(b, s)) = text /\ UnURI(EncodeURI(b, s)) = text
<1> DEFINE bin == Utob(s)
           asc == NativeBtoa(bin)
           k == (8 * Len(bin) + 5) \div 6
           text == SubSeq(asc, 1, k)
<1>1. bin \in Seq(Byte)
  BY TextReadsBack
<1>2. Encode(b, s) = asc
  <2>1. TextEncode(s) = bin
    BY TextIsKept
  <2>2. BtoaPolyfill(bin) = asc
    <3>1. Byte \subseteq Nat
      BY DEF Byte
    <3>2. bin \in Seq(Nat)
      BY <1>1, <3>1, SeqOfMore
    <3> QED
      BY <3>2, BtoaAgrees
  <2> QED
    BY <2>1, <2>2 DEF Encode, BtoaOf
<1> HIDE DEF bin
<1>3. asc \in Seq(Character) /\ k \in 0..Len(asc) /\ ThenPadding(asc, k)
  BY <1>1, BtoaMakes
<1> HIDE DEF asc, k
<1>4. /\ Without(asc, {Equals}) = text /\ UnURI(asc) = text
      /\ UnURI([i \in DOMAIN text |-> Safe(text[i])]) = text
  BY <1>3, UnURIReads
<1>5. EncodeURI(b, s) = [i \in DOMAIN text |-> Safe(text[i])]
  <2>1. EncodeURI(b, s) = [i \in DOMAIN Without(Encode(b, s), {Equals}) |->
                              Safe(Without(Encode(b, s), {Equals})[i])]
    BY DEF EncodeURI, Safe
  <2> HIDE DEF text
  <2> QED
    BY <1>2, <1>4, <2>1
<1> QED
  BY <1>2, <1>4, <1>5 DEF text, asc, k, bin

\* What one browser makes of a text is read back as it by any other
\* (base64.js 65-68, 117-190, 229-240).
THEOREM LinksReadBack ==
    ASSUME NEW s \in Seq(Unit), IsText(s), NEW b \in Browsers, NEW c \in Browsers
    PROVE  Decode(c, Encode(b, s)) = s /\ Decode(c, EncodeURI(b, s)) = s
<1> DEFINE bin == Utob(s)
           text == SubSeq(NativeBtoa(bin), 1, (8 * Len(bin) + 5) \div 6)
<1>1. bin \in Seq(Byte) /\ Btou(bin) = s
  BY TextReadsBack
<1>2. TextDecode(bin) = s
  BY TextIsKept
<1>3. UnURI(Encode(b, s)) = text /\ UnURI(EncodeURI(b, s)) = text
  BY LinksOf
<1> HIDE DEF bin
<1>4. AtobOf(c, text) = bin
  BY <1>1, BytesReadBack DEF AtobOf
<1>5. bin # Thrown
  <2>1. Len(Thrown) = 1 /\ Thrown[1] = -1 /\ 1 \in 1..1
    BY DEF Thrown
  <2>2. ASSUME bin = Thrown PROVE FALSE
    <3>1. 1 \in 1..Len(bin)
      BY <2>1, <2>2, Zenon
    <3>2. bin[1] \in Byte
      BY <1>1, <3>1, ElementOfSeq
    <3>3. -1 \notin Byte
      BY DEF Byte
    <3> QED
      BY <2>1, <2>2, <3>2, <3>3, Zenon
  <2> QED
    BY <2>2
<1> HIDE DEF text
<1>6. ASSUME NEW link, UnURI(link) = text PROVE Decode(c, link) = s
  BY <1>1, <1>2, <1>4, <1>5, <1>6 DEF Decode
<1> QED
  BY <1>3, <1>6

\* Every text that is entered is read back from every link made of it
\* (base64.js 65-68, 117-190, 229-240).
THEOREM TypingLinkReadsBack == Typing => []LinkReadsBack
<1>1. Typed => LinkReadsBack
  <2> SUFFICES ASSUME Typed, kind = "text", IsText(input),
                      NEW b \in Browsers, NEW link \in {Encode(b, input), EncodeURI(b, input)},
                      NEW c \in Browsers
               PROVE  Decode(c, link) = input
    BY DEF LinkReadsBack
  <2>1. input \in Seq(Unit)
    <3>1. Alphabet["text"] \subseteq Unit /\ input \in Seq(Alphabet["text"])
      BY AlphabetAssumption DEF Typed
    <3> QED
      BY <3>1, SeqOfMore
  <2> QED
    BY <2>1, LinksReadBack
<1> QED
  BY <1>1, TypingTyped, PTL
=============================================================================
