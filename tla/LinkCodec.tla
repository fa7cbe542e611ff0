------------------------------ MODULE LinkCodec ------------------------------
(***************************************************************************)
(* The codec of the page on every input: a state is an input, and a step   *)
(* adds a symbol to it. An input is a string of bytes for btoa, of base64  *)
(* characters for atob, or a text that a link is made of; PageAlgorithms   *)
(* has inputs of other kinds.                                              *)
(***************************************************************************)
EXTENDS Base64

CONSTANTS
    Alphabet,   \* [kind of input -> its symbols]
    Cap         \* [kind of input -> its longest length]

ASSUME AlphabetAssumption ==
    \A k \in DOMAIN Alphabet :
        /\ k = "bytes" => Alphabet[k] \subseteq Nat
        /\ k = "ascii" => Alphabet[k] \subseteq Sextet \union NotBase64
        /\ k = "text" => Alphabet[k] \subseteq Unit

VARIABLES kind, input

vars == <<kind, input>>

Init == kind \in DOMAIN Alphabet /\ input = <<>>

Add(symbol) ==
    /\ Len(input) < Cap[kind]
    /\ input' = Append(input, symbol)
    /\ UNCHANGED kind

Typing == Init /\ [][\E symbol \in Alphabet[kind] : Add(symbol)]_vars

-----------------------------------------------------------------------------

\* The polyfills of btoa and atob do what the browser's do, errors included
\* (base64.js 60, 72-88, 194-211).
PolyfillsAgree ==
    /\ kind = "bytes" => BtoaPolyfill(input) = NativeBtoa(input)
    /\ kind = "ascii" => AtobPolyfill(input) = NativeAtob(input)

\* A link made in one browser is read back in any other, whichever parts of
\* the library each of them has to use (base64.js 65-68, 117-190, 229-240).
LinkReadsBack ==
    kind = "text" /\ IsText(input) =>
        LET links == UNION {{Encode(b, input), EncodeURI(b, input)} : b \in Browsers}
        IN \A link \in links, b \in Browsers : Decode(b, link) = input
=============================================================================
