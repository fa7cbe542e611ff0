----------------------------- MODULE JsrTemplate -----------------------------
(***************************************************************************)
(* The template engine of the page, static/js/jsrender.js: how the markup  *)
(* of a template is read into a tree, which of its two ways of rendering a *)
(* template gets, and what it renders for some data. The tags are those of *)
(* the page's templates, {{if}}, {{for}}, {{props}} and {{else}}, and the  *)
(* values {{:}} and {{>}}; a template has no data-bound tags, named        *)
(* parameters, helpers or nested named templates, and the library keeps    *)
(* its settings, as on the page.                                           *)
(*                                                                         *)
(* The markup is a sequence of tokens, one per match of rTag and one per   *)
(* piece of text between two matches.                                      *)
(***************************************************************************)
EXTENDS Integers, Sequences, SequencesExt

Token(kind, name, arg) == [kind |-> kind, name |-> name, arg |-> arg]
Text(t) == Token("text", t, "")
Value(arg) == Token("value", ":", arg)
Open(name, arg) == Token("open", name, arg)
SelfClosing(name, arg) == Token("selfclosing", name, arg)     \* {{if a/}}
Close(name) == Token("close", name, "")
\* {{else if a}}, {{:a:}}, {{^{/if}} and their like.
Malformed(name) == Token("malformed", name, "")

-----------------------------------------------------------------------------
(* tmplFn: from the markup to the tree. A node that is being read is on the *)
(* stack, the root below it. An else has its opener: the tag whose branch   *)
(* it is.                                                                   *)

Node(tok, block, opener) ==
    [name |-> IF tok.kind = "text" THEN "text" ELSE tok.name,
     arg |-> IF tok.kind = "text" THEN tok.name ELSE tok.arg,
     block |-> block, opener |-> opener, content |-> <<>>]
Root == Node(Open("", ""), TRUE, "")
Refused == <<>>

AddTo(stack, node) == [stack EXCEPT ![Len(stack)].content = Append(@, node)]
Closed(stack) == AddTo(Front(stack), Last(stack))

\* Mutant: the name of an end tag is not looked at.
ClosesAny(tok, current) == current.name # ""

\* The blocks an end tag may close.
Closes(tok, current) == tok.name \in {current.name, current.opener}

\* parseTag. An else closes the branch before it, whatever its slash; a block
\* is closed by its own name and, in an else, by that of the opener.
ParseTag(stack, tok) ==
    IF stack = Refused \/ tok.kind = "malformed" THEN Refused
    ELSE LET current == Last(stack)
             opener == IF current.opener # "" THEN current.opener ELSE current.name
         IN CASE tok.name = "else" /\ tok.kind \in {"open", "selfclosing"} ->
                    IF opener = "" THEN Refused
                    ELSE Append(Closed(stack), Node(tok, TRUE, opener))
              [] tok.kind = "open" -> Append(stack, Node(tok, TRUE, ""))
              [] tok.kind = "close" ->
                    IF Closes(tok, current) THEN Closed(stack) ELSE Refused
              [] OTHER -> AddTo(stack, Node(tok, FALSE, ""))

Parsed(markup) == FoldLeft(ParseTag, <<Root>>, markup)

\* What is left open is found at the end: it is the last node of the root.
Accepted(markup) == Len(Parsed(markup)) = 1
Tree(markup) == Parsed(markup)[1].content

(* What a template may be, said without a stack. Depth(m, i) is how many    *)
(* blocks are open after the first i tokens.                                *)
IsOpen(tok) == tok.kind = "open" /\ tok.name # "else"
IsElse(tok) == tok.name = "else" /\ tok.kind \in {"open", "selfclosing"}
Depth(m, i) == Len(SelectSeq(SubSeq(m, 1, i), IsOpen))
               - Len(SelectSeq(SubSeq(m, 1, i), LAMBDA tok : tok.kind = "close"))
OpenerOf(m, i) ==
    CHOOSE o \in 1..(i - 1) :
        /\ IsOpen(m[o])
        /\ \A j \in o..(i - 1) : Depth(m, j) > Depth(m, o - 1)
        /\ \A p \in (o + 1)..(i - 1) :
               IsOpen(m[p]) => \E j \in p..(i - 1) : Depth(m, j) = Depth(m, p - 1)
WellNested(m) ==
    /\ \A i \in DOMAIN m :
           /\ Depth(m, i) >= 0
           /\ m[i].kind # "malformed"
           /\ IsElse(m[i]) => Depth(m, i) > 0
    /\ Depth(m, Len(m)) = 0
    /\ \A i \in DOMAIN m : m[i].kind = "close" =>
           LET o == OpenerOf(m, i)
           IN \/ m[i].name = m[o].name
              \/ /\ m[i].name = "else"
                 /\ \E e \in (o + 1)..(i - 1) : IsElse(m[e]) /\ OpenerOf(m, e) = o

\* The markup of a tree, with each end tag as {{/}}.
RECURSIVE MarkupOf(_)
MarkupOf(nodes) ==
    LET markup(i) ==
            LET node == nodes[i]
                next == IF i < Len(nodes) THEN nodes[i + 1].name ELSE ""
            IN CASE node.name = "text" -> <<Text(node.arg)>>
                 [] node.name # "text" /\ node.block ->
                        <<Open(node.name, node.arg)>> \o MarkupOf(node.content)
                        \o (IF next = "else" THEN <<>> ELSE <<Close("")>>)
                 [] node.name = ":" -> <<Value(node.arg)>>
                 [] OTHER -> <<SelfClosing(node.name, node.arg)>>
    IN FlattenSeq([i \in DOMAIN nodes |-> markup(i)])
Plain(m) ==
    [i \in DOMAIN m |-> IF m[i].kind = "close" THEN Close("")
                        ELSE IF IsElse(m[i]) THEN Open("else", m[i].arg) ELSE m[i]]

-----------------------------------------------------------------------------
(* The data. An object is a sequence of keys with their values.             *)

Leaf(v) == [type |-> "leaf", v |-> v]
Zero == [type |-> "zero", v |-> "0"]
Null == [type |-> "null", v |-> ""]
Undefined == [type |-> "undefined", v |-> ""]
Array(vs) == [type |-> "array", v |-> vs]
Object(kvs) == [type |-> "object", v |-> kvs]
Throws == [type |-> "throws", v |-> ""]

Digits == <<"0", "1", "2", "3">>
Number(i) == IF i = 0 THEN Zero ELSE Leaf(Digits[i + 1])
Truthy(v) == v.type \in {"leaf", "array", "object"}
Missing(v) == v.type \in {"null", "undefined"}

\* A name is a property of the data; null and undefined have none.
Get(data, name) ==
    IF Missing(data) THEN Throws
    ELSE IF data.type = "object" /\ \E i \in DOMAIN data.v : data.v[i][1] = name
         THEN data.v[CHOOSE i \in DOMAIN data.v : data.v[i][1] = name][2]
         ELSE Undefined

\* {{:v}} shows nothing for null and undefined.
Show(v) == CASE Missing(v) -> <<>>
             [] v.type \in {"array", "object"} -> <<v.type>>
             [] OTHER -> <<v.v>>

\* getTargetProps: the keys and values of an object, or of an array.
Props(v) ==
    LET row(key, prop) == Object(<< <<"key", key>>, <<"prop", prop>> >>)
    IN CASE v.type = "object" -> Array([i \in DOMAIN v.v |-> row(Leaf(v.v[i][1]), v.v[i][2])])
         [] v.type = "array" -> Array([i \in DOMAIN v.v |-> row(Leaf(Digits[i]), v.v[i])])
         [] OTHER -> Array(<<>>)

-----------------------------------------------------------------------------
(* Rendering. A view has its data and its index. Without views the one top  *)
(* view of the library stands for each of them in turn; with views every    *)
(* block has its own, whose parent is the view around it.                   *)

Hint == Leaf("For #index in nested block use #getIndex().")
NoView == [type |-> "none"]
TopView == [type |-> "top", data |-> Undefined, index |-> Undefined, parent |-> NoView]

\* getIndex, and the getNestedIndex of a view that is not a row.
RECURSIVE ItemIndex(_)
ItemIndex(view) == IF view.type = "none" THEN Undefined
                   ELSE IF view.type = "item" THEN view.index ELSE ItemIndex(view.parent)
GetIndex(view) == IF view.parent.type = "none" THEN view.index ELSE ItemIndex(view)

Eval(arg, data, view) ==
    CASE arg = "#data" -> data
      [] arg = "#index" -> view.index
      [] arg = "#getIndex()" -> GetIndex(view)
      [] OTHER -> Get(data, arg)

\* Mutant: nested templates do not tell.
UseViewsShallow(nodes) == \E i \in DOMAIN nodes : nodes[i].arg = "#getIndex()"

\* buildCode: a parameter that asks the view for more than its index makes the
\* template, and the templates around it, render with views.
RECURSIVE UseViews(_)
UseViews(nodes) ==
    \E i \in DOMAIN nodes : nodes[i].arg = "#getIndex()" \/ UseViews(nodes[i].content)

\* The node at the head of nodes with the elses that follow it.
TagAndElses(nodes) ==
    LET ends == {j \in DOMAIN nodes : j = Len(nodes) \/ nodes[j + 1].name # "else"}
    IN SubSeq(nodes, 1, CHOOSE j \in ends : \A k \in ends : j <= k)

\* The view of a block, and of a row of it.
BlockView(fast, view, data) ==
    IF fast THEN [view EXCEPT !.data = data, !.index = Hint]
    ELSE [type |-> "block", data |-> data, index |-> Hint, parent |-> view]
RowView(fast, view, data, i) ==
    IF fast THEN [view EXCEPT !.data = data, !.index = Number(i - 1)]
    ELSE [type |-> "item", data |-> data, index |-> Number(i - 1), parent |-> view]

(* s is what has been rendered, the view it is rendered in, and whether an  *)
(* exception ended it.                                                      *)
RECURSIVE Fn(_, _, _, _)

Rows(content, data, view, s, fast) ==
    LET row(t, i) ==
            IF t.thrown THEN t
            ELSE Fn(content, data.v[i],
                    [t EXCEPT !.view = RowView(fast, view, data.v[i], i)], fast)
    IN FoldLeft(row, s, [i \in DOMAIN data.v |-> i])

\* The top view is put back as it was, but not after an exception.
PutBack(view, end, fast) == IF fast /\ end.thrown THEN end ELSE [end EXCEPT !.view = view]

\* renderContent of a block, and renderWithViews: a template is rendered for
\* each row of an array, or once.
RenderContent(content, data, noIteration, s, fast) ==
    LET block == BlockView(fast, s.view, data)
    IN PutBack(s.view,
               IF data.type = "array" /\ ~noIteration
               THEN Rows(content, data, block, s, fast)
               ELSE Fn(content, data, [s EXCEPT !.view = block], fast),
               fast)

\* The render methods of {{if}}, and of {{for}} and {{props}}, for one branch;
\* done is tag.rendering.done.
RenderIf(node, first, val, s, fast) ==
    IF s.done \/ (~Truthy(val) /\ (first \/ node.arg # "")) THEN s
    ELSE [RenderContent(node.content, s.view.data, TRUE, s, fast) EXCEPT !.done = TRUE]

\* Mutant: an array without rows counts as rendered.
RenderForOnce(node, first, val, s, fast) ==
    LET iterate == first \/ node.arg # ""
        value == IF iterate THEN val ELSE s.view.data
    IN IF s.done \/ value.type = "undefined" THEN s
       ELSE [RenderContent(node.content, value, ~iterate, s, fast) EXCEPT !.done = TRUE]

RenderFor(node, first, val, s, fast) ==
    LET iterate == first \/ node.arg # ""
        value == IF iterate THEN val ELSE s.view.data
    IN IF s.done \/ value.type = "undefined" THEN s
       ELSE [RenderContent(node.content, value, ~iterate, s, fast) EXCEPT
                !.done = value.type # "array" \/ value.v # <<>>]

\* renderTag: the parameters of all branches are taken first, then each branch
\* renders. The first parameter of the tag is by default the data.
RenderTag(branches, data, s, fast) ==
    LET name == branches[1].name
        val(i) == IF branches[i].arg = "" THEN s.view.data
                  ELSE Eval(branches[i].arg, data, s.view)
        branch(t, i) ==
            IF t.thrown THEN t
            ELSE IF name = "if" THEN RenderIf(branches[i], i = 1, val(i), t, fast)
            ELSE RenderFor(branches[i], i = 1,
                           IF name = "props" THEN Props(val(i)) ELSE val(i), t, fast)
        start == [s EXCEPT !.done = FALSE]
    IN IF \E i \in DOMAIN branches : val(i).type = "throws" THEN [s EXCEPT !.thrown = TRUE]
       ELSE [FoldLeft(branch, start, [i \in DOMAIN branches |-> i]) EXCEPT !.done = s.done]

\* The function buildCode makes of a template.
Fn(nodes, data, s, fast) ==
    IF nodes = <<>> \/ s.thrown THEN s
    ELSE LET node == Head(nodes)
             group == TagAndElses(nodes)
             val == Eval(node.arg, data, s.view)
         IN CASE node.name = "text" ->
                    Fn(Tail(nodes), data, [s EXCEPT !.out = Append(@, node.arg)], fast)
              [] node.name \in {":", ">"} ->
                    IF val.type = "throws" THEN [s EXCEPT !.thrown = TRUE]
                    ELSE Fn(Tail(nodes), data, [s EXCEPT !.out = @ \o Show(val)], fast)
              [] OTHER ->
                    Fn(SubSeq(nodes, Len(group) + 1, Len(nodes)), data,
                       RenderTag(group, data, s, fast), fast)

Rendered(nodes, data, top, view, fast) ==
    LET s == [out |-> <<>>, view |-> top, thrown |-> FALSE, done |-> FALSE]
    IN PutBack([top EXCEPT !.index = IF fast THEN Undefined ELSE @],
               IF data.type = "array" THEN Rows(nodes, data, view, s, fast)
               ELSE Fn(nodes, data, [s EXCEPT !.view = view], fast),
               fast)

\* Mutant: the top view is not given the data.
RenderOldData(nodes, data, top, fast) ==
    LET view == IF fast THEN top ELSE [TopView EXCEPT !.data = data]
    IN Rendered(nodes, data, top, view, fast)

\* renderContent of a template of the page. Without views it renders in the
\* top view, whose index is what the last rendering left of it, and ends
\* without one.
Render(nodes, data, top, fast) ==
    LET view == [IF fast THEN top ELSE TopView EXCEPT !.data = data]
    IN Rendered(nodes, data, top, view, fast)

Outcome(s) == IF s.thrown THEN <<"throws">> ELSE s.out

-----------------------------------------------------------------------------
(* What a template means, without views and without a state: where is "top",*)
(* "row" or "block", row the number of the innermost row around.            *)

ThrownAsMeant(all) == IF \E i \in DOMAIN all : all[i] = "throws" THEN <<"throws">> ELSE all

RECURSIVE Meaning(_, _, _, _)

ContentMeaning(content, data, iterate, row) ==
    IF data.type = "array" /\ iterate
    THEN FlattenSeq([i \in DOMAIN data.v |-> Meaning(content, data.v[i], "row", Number(i - 1))])
    ELSE Meaning(content, data, "block", row)

\* The first branch that has something to show shows it.
TagMeaning(branches, val(_), data, row) ==
    LET name == branches[1].name
        final(i) == i > 1 /\ branches[i].arg = ""
        given(i) == IF final(i) THEN data ELSE IF name = "props" THEN Props(val(i)) ELSE val(i)
        shows(i) == IF name = "if" THEN final(i) \/ Truthy(val(i))
                    ELSE /\ given(i).type # "undefined"
                         /\ given(i).type = "array" => (final(i) \/ given(i).v # <<>>)
        live == SelectSeq([i \in DOMAIN branches |-> i], shows)
    IN IF \E i \in DOMAIN branches : val(i).type = "throws" THEN <<"throws">>
       ELSE IF live = <<>> THEN <<>>
       ELSE IF name = "if" THEN ContentMeaning(branches[live[1]].content, data, FALSE, row)
       ELSE ContentMeaning(branches[live[1]].content, given(live[1]), ~final(live[1]), row)

Meaning(nodes, data, where, row) ==
    LET val(arg) == CASE arg = "" \/ arg = "#data" -> data
                      [] arg = "#getIndex()" -> row
                      [] arg = "#index" -> CASE where = "row" -> row
                                             [] where = "block" -> Hint
                                             [] OTHER -> Undefined
                      [] OTHER -> Get(data, arg)
        shown(i) ==
            LET node == nodes[i]
                branches == TagAndElses(SubSeq(nodes, i, Len(nodes)))
            IN CASE node.name = "text" -> <<node.arg>>
                 [] node.name = "else" -> <<>>
                 [] node.name \in {":", ">"} ->
                        IF val(node.arg).type = "throws" THEN <<"throws">>
                        ELSE Show(val(node.arg))
                 [] OTHER -> TagMeaning(branches, LAMBDA b : val(branches[b].arg), data, row)
    IN ThrownAsMeant(FlattenSeq([i \in DOMAIN nodes |-> shown(i)]))

TemplateMeaning(nodes, data) ==
    ThrownAsMeant(IF data.type = "array" THEN ContentMeaning(nodes, data, TRUE, Undefined)
                  ELSE Meaning(nodes, data, "top", Undefined))

\* #index outside every block.
IndexAtTop(nodes) == \E i \in DOMAIN nodes : nodes[i].arg = "#index"
=============================================================================
