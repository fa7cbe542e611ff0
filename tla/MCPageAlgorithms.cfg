SPECIFICATION Spec
CONSTANTS
    Alphabet <- MCAlphabet
    Cap <- MCCap
    Datas <- MCDatas
    Failing <- MCFailing
INVARIANTS
    PolyfillsAgree
    LinkReadsBack
    ParserAgrees
    FastMatchesViews
    RenderedAsMeant
    AbortedRenderHarmless
CHECK_DEADLOCK FALSE
