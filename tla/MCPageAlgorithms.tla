--------------------------- MODULE MCPageAlgorithms ---------------------------
(* Inputs for PageAlgorithms. The bytes and characters are those at the ends *)
(* of the ranges the code tells apart; the tokens of "template" are those of *)
(* the page's templates with #getIndex(), which the library offers for the   *)
(* index in a nested block.                                                  *)
EXTENDS PageAlgorithms

MCAlphabet ==
    [bytes |-> {0, 97, 128, 255, 256},
     ascii |-> {0, 17, 63, 64, 65, 67},
     text |-> {123, 70, 127, 128, 2048, 55296, 56319, 56320, 57343, 65279, 65535},
     markup |-> {Text("t"), Value("a"), Open("if", "a"), Open("for", "a"), Open("else", ""),
                 Open("else", "a"), SelfClosing("for", "a"), SelfClosing("else", ""),
                 Close("if"), Close("for"), Close("else"), Malformed("else if a")},
     template |-> {Text("t"), Value("a"), Value("#index"), Value("#getIndex()"),
                   Open("if", "a"), Open("for", "a"), Open("props", ""),
                   Open("else", ""), Open("else", "a"), Close("if"), Close("for"), Close("props")}]

MCCap == [bytes |-> 5, ascii |-> 5, text |-> 3, markup |-> 5, template |-> 6]

A(v) == Object(<< <<"a", v>> >>)
MCDatas == <<
     A(Leaf("x")), A(Null), A(A(Leaf("x"))), Object(<<>>),
     A(Array(<<>>)), A(Array(<<A(Leaf("x")), A(Zero)>>)),
     A(Array(<<A(Array(<<Leaf("x"), Leaf("y")>>)), Null>>)),
     Array(<<A(Leaf("x")), A(Array(<<A(Leaf("y"))>>))>>)
    >>

\* An exception in the second row of an array, in an {{if}} and in no block.
MCFailing == <<
     [markup |-> <<Open("for", "a"), Value("a"), Close("for")>>,
      data |-> A(Array(<<A(Leaf("x")), Null>>))],
     [markup |-> <<Open("for", "a"), Open("if", "a"), Open("for", ""), Value("a"),
                   Close("for"), Close("if"), Close("for")>>,
      data |-> A(Array(<<A(Leaf("x")), A(Array(<<Null>>)), Null>>))],
     [markup |-> <<Value("a")>>, data |-> Undefined]
    >>
=============================================================================
