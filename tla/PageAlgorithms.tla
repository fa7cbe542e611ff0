---------------------------- MODULE PageAlgorithms ----------------------------
(***************************************************************************)
(* The two libraries of the page, base64.js and jsrender.js, on every      *)
(* input of a bounded length: LinkCodec's bytes, characters and texts, and *)
(* templates, which are only continued while they can still be one.        *)
(***************************************************************************)
EXTENDS LinkCodec, JsrTemplate

CONSTANTS
    Datas,      \* the data templates are rendered with, a sequence
    Failing     \* templates and data whose rendering throws, a sequence

\* As many tokens are left as there are blocks to close.
MayBecome(m) == Parsed(m) # Refused /\ Len(Parsed(m)) - 1 <= Cap.template - Len(m)

Type(symbol) ==
    /\ kind = "template" => MayBecome(Append(input, symbol))
    /\ kind = "markup" => Parsed(input) # Refused
    /\ Add(symbol)

Next == \E symbol \in Alphabet[kind] : Type(symbol)
Spec == Init /\ [][Next]_vars

-----------------------------------------------------------------------------

\* The parser takes exactly the markup whose blocks are closed by their own
\* tags, and its tree is that markup: no tag is lost, moved into another block
\* or given to another opener (jsrender.js 1908-2091).
ParserAgrees ==
    kind = "markup" =>
        /\ Accepted(input) = WellNested(input)
        /\ Accepted(input) => MarkupOf(Tree(input)) = Plain(input)

\* A template that renders without views, in the one top view that all blocks
\* share, renders what it does with them (jsrender.js 1658-1733, 2485-2508).
FastMatchesViews ==
    LET tree == Tree(input)
    IN kind = "template" /\ Accepted(input) /\ ~UseViews(tree) =>
           \A i \in DOMAIN Datas :
               Outcome(Render(tree, Datas[i], TopView, TRUE))
               = Outcome(Render(tree, Datas[i], TopView, FALSE))

\* A template renders the first branch that has something to show, each row
\* with its own data and number, and #getIndex() is the number of the row
\* around at every depth (jsrender.js 785-934, 1735-1855, 2900-2977).
RenderedAsMeant ==
    LET tree == Tree(input)
    IN kind = "template" /\ Accepted(input) =>
           \A i \in DOMAIN Datas :
               Outcome(Render(tree, Datas[i], TopView, FALSE)) = TemplateMeaning(tree, Datas[i])

\* The top view after renderings that threw.
Aborted ==
    [f \in DOMAIN Failing |-> Render(Tree(Failing[f].markup), Failing[f].data, TopView, TRUE)]

\* A rendering that threw leaves the top view with the data and the index of
\* the row it was in; what the next template renders does not show it, unless
\* the template has #index outside every block (jsrender.js 1701-1724).
AbortedRenderHarmless ==
    LET tree == Tree(input)
        shown(data, top) == Outcome(Render(tree, data, top, TRUE))
        Harmless(data, left, fresh) ==
            \A f \in DOMAIN left : left[f].thrown /\ shown(data, left[f].view) = fresh
    IN kind = "template" /\ Accepted(input) /\ ~UseViews(tree) /\ ~IndexAtTop(tree) =>
           \A i \in DOMAIN Datas : Harmless(Datas[i], Aborted, shown(Datas[i], TopView))
=============================================================================
