---------------------------- MODULE MCGrepBlocks ----------------------------
(***************************************************************************)
(* Small files for the expressions that the compiler treats differently.   *)
(* With four-bit blocks, two-bit words and an If after two characters,     *)
(* every operation has its carries and every If is skipped and resumed.    *)
(***************************************************************************)
EXTENDS GrepBlocks

MCClasses == [ca |-> {"a"}, cb |-> {"b"}, ce |-> {"eacute"}, cbe |-> {"b", "eacute"}]

A   == <<"name", "ca">>
B   == <<"name", "cb">>
E   == <<"name", "ce">>
BE  == <<"name", "cbe">>
Dot == <<"any">>
Kleene(re)        == <<"rep", re, 0, Unbounded>>
Times(re, n)      == <<"rep", re, n, n>>
Between(re, n, m) == <<"rep", re, n, m>>

MCCases == <<
    \* Ifs in Ifs, and a star of a class
    [re |-> <<"seq", A, A, B, A, B>>,        alphabet |-> {"a", "b"}, length |-> 8],
    [re |-> <<"seq", A, Kleene(B), A>>,      alphabet |-> {"a", "b", "LF"}, length |-> 5],
    [re |-> <<"seq", A, Kleene(BE), A>>,     alphabet |-> {"a", "b", "eacute"}, length |-> 5],
    \* loops
    [re |-> <<"seq", A, Kleene(<<"seq", B, A>>), B>>, alphabet |-> {"a", "b"}, length |-> 9],
    [re |-> <<"seq", A, Kleene(<<"seq", B, B>>), A>>, alphabet |-> {"a", "b"}, length |-> 9],
    [re |-> <<"seq", A, Kleene(<<"seq", Kleene(<<"seq", A, B>>), B>>), A>>,
                                             alphabet |-> {"a", "b"}, length |-> 9],
    [re |-> <<"seq", A, Kleene(<<"alt", E, <<"seq", B, B>>>>), A>>,
                                             alphabet |-> {"a", "b", "eacute"}, length |-> 5],
    \* the ends of lines
    [re |-> <<"seq", <<"start">>, A, Dot, <<"end">>>>,
                                             alphabet |-> {"a", "eacute", "LF", "CR"}, length |-> 4],
    [re |-> <<"seq", A, <<"end">>>>,         alphabet |-> {"a", "LF", "NEL", "LS"}, length |-> 4],
    \* alternatives that mark different positions
    [re |-> <<"seq", <<"alt", A, <<"seq", B, Kleene(A)>>>>, B>>,
                                             alphabet |-> {"a", "b", "LF"}, length |-> 5],
    \* bounded repetition, with short and long advances, at the top and in an If
    [re |-> <<"seq", A, Times(B, 3), A>>,    alphabet |-> {"a", "b"}, length |-> 8],
    [re |-> <<"seq", B, Times(A, 5)>>,       alphabet |-> {"a", "b"}, length |-> 9],
    [re |-> <<"seq", B, B, Times(A, 5)>>,    alphabet |-> {"a", "b"}, length |-> 9],
    [re |-> <<"seq", A, Between(B, 1, 4), A>>, alphabet |-> {"a", "b"}, length |-> 8],
    [re |-> <<"seq", A, Between(BE, 3, 6), A>>, alphabet |-> {"a", "b", "eacute"}, length |-> 6],
    [re |-> <<"seq", A, Between(<<"seq", A, B>>, 0, 3), B>>, alphabet |-> {"a", "b"}, length |-> 9],
    \* operators on matches of one character, and assertions
    [re |-> <<"seq", A, <<"diff", Dot, B>>, <<"intersect", Dot, BE>>>>,
                                             alphabet |-> {"a", "b", "eacute"}, length |-> 5],
    [re |-> <<"seq", <<"behind", A>>, B, <<"notAhead", B>>>>, alphabet |-> {"a", "b", "LF"}, length |-> 5],
    [re |-> <<"seq", <<"notBehind", <<"seq", A, B>>>>, B, <<"ahead", E>>>>,
                                             alphabet |-> {"a", "b", "eacute"}, length |-> 5]
    >>

\* A While in an If: aa(ba)* and then a character of two bytes, so that the
\* While can end a block in the middle of the repetition.
MCWhileInIf == <<
    [re |-> <<"seq", A, A, Kleene(<<"seq", B, A>>), E>>, alphabet |-> {"a", "b", "eacute"}, length |-> 6]
    >>

\* The code of the cases has what the theorems of KernelBlocksProofs ask of it.
ASSUME CodeOfCases ==
    \A i \in DOMAIN Cases : \A k \in DOMAIN Pipelines[i] :
        LET code == Pipelines[i][k].code
        IN  LoopFree(code) => LongAdvancesHeard(code) /\ NoStaleSlots(code)
=============================================================================
