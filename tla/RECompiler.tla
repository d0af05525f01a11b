----------------------------- MODULE RECompiler -----------------------------
(***************************************************************************)
(* The regular expression compiler (re/re_compiler.cpp): from an           *)
(* expression to the Pablo program that marks its matches, for UTF-8 input *)
(* and the default options.  An expression is a tuple:                     *)
(*   <<"name", n>>  a character class;  <<"any">>, <<"start">>, <<"end">>, *)
(*   <<"seq", e1, e2, ...>>, <<"alt", e1, e2, ...>>, <<"rep", e, lb, ub>>, *)
(*   <<"diff", e1, e2>>, <<"intersect", e1, e2>>,                          *)
(*   <<"behind", e>>, <<"ahead", e>>  assertions, and their negations      *)
(*   <<"notBehind", e>>, <<"notAhead", e>>.                                *)
(* The program is built in scopes: the one being filled, the scopes around *)
(* it, and the top scope, to which the line starts always go.  A marker is *)
(* a variable with the position it marks, the final unit of a match or the *)
(* final unit of the character after it.                                   *)
(***************************************************************************)
EXTENDS Pablo

CONSTANTS
    IfInsertionGap,     \* -if-insertion-gap, 3 by default
    Classes             \* the characters of each class, by its name

Unbounded  == -1        \* Rep::UNBOUNDED_REP
ByteChars  == {"a", "b", "LF", "CR"}    \* one byte long

FinalMatchUnit        == 0
FinalPostPositionUnit == 1

-----------------------------------------------------------------------------
(* re_analysis.cpp *)

Parts(re) == {re[i] : i \in 2 .. Len(re)}

RECURSIVE isByteLength(_), isUnicodeUnitLength(_), minMatchLength(_)

isByteLength(re) ==
    CASE re[1] = "name" -> Classes[re[2]] \subseteq ByteChars
      [] re[1] \in {"alt", "diff", "intersect"} -> \A part \in Parts(re) : isByteLength(part)
      [] re[1] = "rep"  -> re[3] = 1 /\ re[4] = 1 /\ isByteLength(re[2])
      [] OTHER          -> FALSE

isUnicodeUnitLength(re) ==
    CASE re[1] \in {"name", "any"} -> TRUE
      [] re[1] \in {"alt", "diff", "intersect"} -> \A part \in Parts(re) : isUnicodeUnitLength(part)
      [] re[1] = "rep"  -> re[3] = 1 /\ re[4] = 1 /\ isUnicodeUnitLength(re[2])
      [] OTHER          -> FALSE

minMatchLength(re) ==
    LET Least(lengths) == CHOOSE n \in lengths : \A m \in lengths : n <= m IN
    CASE re[1] \in {"name", "any"} -> 1
      [] re[1] \in {"alt", "intersect"} -> Least({minMatchLength(part) : part \in Parts(re)})
      [] re[1] = "seq"  -> LET sum[i \in 1 .. Len(re)] ==
                                   IF i = 1 THEN 0 ELSE sum[i - 1] + minMatchLength(re[i])
                           IN  sum[Len(re)]
      [] re[1] = "rep"  -> re[3] * minMatchLength(re[2])
      [] re[1] = "diff" -> minMatchLength(re[2])
      [] OTHER          -> 0

-----------------------------------------------------------------------------
(* The program under construction: PabloBuilder and the members of         *)
(* RE_Compiler that change.  A result is the builder and a marker.         *)

NewBuilder == [scopes |-> <<<<>>>>, vars |-> 0, test |-> "none", starDepth |-> 0]

Level(b)     == Len(b.scopes)
New(b, i)    == ToString(b.vars + i)    \* the i-th variable from here on
Result(b, pos, stream) == [b |-> b, pos |-> pos, stream |-> stream]

\* Statements at the end of a scope, which define the next n variables.
EmitAt(b, level, n, code) == [b EXCEPT !.scopes[level] = @ \o code, !.vars = @ + n]
Emit(b, n, code)       == EmitAt(b, Level(b), n, code)
Assign(b, var, value) == Emit(b, 0, << <<"set", var, value>> >>)

\* Statements the last of whose variables becomes the marker.
Mark(b, pos, n, code) == Result(Emit(b, n, code), pos, New(b, n))

\* A new scope, and the branch that it becomes the body of.
Nest(b) == [b EXCEPT !.scopes = Append(@, <<>>)]
Close(b, op, condition) ==
    Emit([b EXCEPT !.scopes = SubSeq(@, 1, Level(b) - 1)], 1,
        << <<op, New(b, 1), condition, b.scopes[Level(b)]>> >>)

AdvanceMarker(m) ==
    LET v(i) == New(m.b, i)
    IN  IF m.pos = FinalPostPositionUnit THEN m
        ELSE Mark(m.b, FinalPostPositionUnit, 3,
                  << <<"adv", v(1), m.stream, 1>>,
                     <<"and", v(2), "initial", v(1)>>,
                     <<"scan", v(3), v(2), "nonFinal">> >>)

\* Mutated form: the second marker is taken to be where the first is.
AlignNothing(b, m1, m2) == [b |-> b, pos |-> m1.pos, s1 |-> m1.stream, s2 |-> m2.stream]

\* AlignMarkers(m1, m2) when both were made by the builder b: the streams in
\* their common position.
AlignMarkers(b, m1, m2) ==
    LET a1 == IF m1.pos < m2.pos THEN AdvanceMarker([m1 EXCEPT !.b = b]) ELSE [m1 EXCEPT !.b = b]
        a2 == IF m2.pos < m1.pos THEN AdvanceMarker([m2 EXCEPT !.b = a1.b]) ELSE [m2 EXCEPT !.b = a1.b]
    IN  [b |-> a2.b, pos |-> a1.pos, s1 |-> a1.stream, s2 |-> a2.stream]

-----------------------------------------------------------------------------
(* Leaves, and the short-circuit Ifs around the rest of an expression.     *)

compileAny(m) ==
    LET p    == AdvanceMarker(m)
        v(i) == New(p.b, i)
    IN  Mark(p.b, FinalMatchUnit, 3,
             << <<"or", v(1), "linebreak", "crlf">>,
                <<"not", v(2), v(1)>>,
                <<"and", v(3), p.stream, v(2)>> >>)

compileName(re, m) ==
    LET p    == AdvanceMarker(m)
        v(i) == New(p.b, i)
    IN  Mark(p.b, FinalMatchUnit, 2,
             << <<"and", v(1), re[2], "any">>, <<"and", v(2), p.stream, v(1)>> >>)

compileStart(m) ==
    LET p    == AdvanceMarker(m)
        v(i) == New(p.b, i)
        sol  == EmitAt(p.b, 1, 7,
                      << <<"or", v(1), "linebreak", "crlf">>,
                         <<"not", v(2), v(1)>>,
                         <<"adv", v(3), v(2), 1>>,
                         <<"or", v(4), v(3), "crlf">>,
                         <<"not", v(5), v(4)>>,
                         <<"and", v(6), "initial", v(5)>>,
                         <<"scan", v(7), v(6), "nonFinal">> >>)
    IN  Mark(sol, FinalPostPositionUnit, 1, << <<"and", v(8), p.stream, v(7)>> >>)

compileEnd(m) ==
    LET p == AdvanceMarker(m)
    IN  Mark(p.b, FinalPostPositionUnit, 1, << <<"and", New(p.b, 1), p.stream, "linebreak">> >>)

\* The rest of an expression goes into an If on its marker; outside, its
\* marker is a variable that is empty when the body is skipped.
OpenIf(m) == [m   |-> [m EXCEPT !.b = Nest(Emit(m.b, 1, << <<"zero", New(m.b, 1)>> >>))],
              var |-> New(m.b, 1)]
CloseIf(open, rest) ==
    Result(Close(Assign(rest.b, open.var, rest.stream), "if", open.m.stream), rest.pos, open.var)

\* consecutive_matches (op "and") and the loop of reachable (op "or"): a
\* stream combined with itself at distances that double up to `total`.
RECURSIVE Doubled(_, _, _, _, _)
Doubled(op, b, stream, i, total) ==
    LET by   == IF 2 * i < total THEN i ELSE total - i
        v(j) == New(b, j)
        next == Emit(b, 2, << <<"adv", v(1), stream, by>>, <<op, v(2), stream, v(1)>> >>)
    IN  IF i >= total THEN [b |-> b, stream |-> stream]
        ELSE IF 2 * i < total THEN Doubled(op, next, v(2), 2 * i, total)
        ELSE [b |-> next, stream |-> v(2)]

\* createAdvance: an advance by nothing is no statement.
AdvanceBy(b, stream, n) ==
    IF n = 0 THEN [b |-> b, stream |-> stream]
    ELSE [b |-> Emit(b, 1, << <<"adv", New(b, 1), stream, n>> >>), stream |-> New(b, 1)]

Negated(b, stream, negative) ==
    IF negative THEN [b |-> Emit(b, 1, << <<"not", New(b, 1), stream>> >>), stream |-> New(b, 1)]
    ELSE [b |-> b, stream |-> stream]

-----------------------------------------------------------------------------
RECURSIVE process(_, _), processAll(_, _), compileSeqTail(_, _, _), alternatives(_, _, _)
RECURSIVE processLowerBound(_, _, _, _), processBoundedRep(_, _, _, _)
RECURSIVE processTimes(_, _, _), processUpTo(_, _, _)

\* RE_Compiler::compile(re, pb): the expression from every position.
compile(re, b) == process(re, Mark(b, FinalPostPositionUnit, 1, << <<"ones", New(b, 1)>> >>))

processAll(res, m) == IF res = <<>> THEN m ELSE processAll(Tail(res), process(Head(res), m))

compileSeqTail(res, matchLenSoFar, m) ==
    IF res = <<>> THEN m
    ELSE IF matchLenSoFar < IfInsertionGap
    THEN compileSeqTail(Tail(res), matchLenSoFar + minMatchLength(Head(res)), process(Head(res), m))
    ELSE LET open == OpenIf(m) IN CloseIf(open, compileSeqTail(res, 0, open.m))

compileSeq(re, m) ==
    IF m.b.starDepth > 0 THEN processAll(Tail(re), m) ELSE compileSeqTail(Tail(re), 0, m)

\* compileAlt: the alternatives are gathered by the position they mark.
alternatives(res, base, acc) ==
    IF res = <<>> THEN acc ELSE
    LET m  == process(Head(res), [base EXCEPT !.b = acc.b])
        or == Emit(m.b, 1, << <<"or", New(m.b, 1), acc.streams[m.pos], m.stream>> >>)
    IN  alternatives(Tail(res), base,
                     [b       |-> or,
                      streams |-> [acc.streams EXCEPT ![m.pos] = New(m.b, 1)],
                      post    |-> acc.post \/ m.pos = FinalPostPositionUnit])
compileAlt(re, m) ==
    LET zero == Emit(m.b, 1, << <<"zero", New(m.b, 1)>> >>)
        none == [p \in {FinalMatchUnit, FinalPostPositionUnit} |-> New(m.b, 1)]
        acc  == alternatives(Tail(re), m, [b |-> zero, streams |-> none, post |-> FALSE])
        unit == Result(acc.b, FinalMatchUnit, acc.streams[FinalMatchUnit])
        post == AdvanceMarker(unit)
    IN  IF ~acc.post THEN unit
        ELSE Mark(post.b, FinalPostPositionUnit, 1,
                  << <<"or", New(post.b, 1), post.stream, acc.streams[FinalPostPositionUnit]>> >>)

\* compileAssertion: a lookbehind, or a lookahead of one character.
Behind == {"behind", "notBehind"}
compileAssertion(re, m) ==
    LET cond  == compile(re[2], m.b)
        here  == IF re[1] \in Behind THEN m ELSE AdvanceMarker([m EXCEPT !.b = cond.b])
        both  == IF re[1] \in Behind THEN AlignMarkers(cond.b, here, cond)
                 ELSE [b |-> here.b, pos |-> here.pos, s1 |-> here.stream, s2 |-> cond.stream]
        sense == Negated(both.b, both.s2, re[1] \in {"notBehind", "notAhead"})
    IN  Mark(sense.b, both.pos, 1, << <<"and", New(sense.b, 1), both.s1, sense.stream>> >>)

\* compileDiff, compileIntersect
compileBoth(re, m) ==
    LET t1   == process(re[2], m)
        t2   == process(re[3], [m EXCEPT !.b = t1.b])
        both == AlignMarkers(t2.b, t1, t2)
        rh   == Negated(both.b, both.s2, re[1] = "diff")
    IN  Mark(rh.b, both.pos, 1, << <<"and", New(rh.b, 1), both.s1, rh.stream>> >>)

processTimes(re, n, m) == IF n = 0 THEN m ELSE processTimes(re, n - 1, process(re, m))

processLowerBound(re, lb, m, ifGroupSize) ==
    LET cc    == compile(re, m.b)
        ccLB  == Doubled("and", cc.b, cc.stream, 1, lb)
        fwd   == AdvanceBy(ccLB.b, m.stream, IF m.pos = FinalMatchUnit THEN lb ELSE lb - 1)
        group == IF ifGroupSize < lb THEN ifGroupSize ELSE lb
        some  == processTimes(re, group, m)
        open  == OpenIf(some)
    IN  IF isByteLength(re) THEN Mark(fwd.b, FinalMatchUnit, 1, << <<"and", New(fwd.b, 1), fwd.stream, ccLB.stream>> >>)
        ELSE IF lb = group THEN some
        ELSE CloseIf(open, processLowerBound(re, lb - group, open.m, 2 * ifGroupSize))

processUpTo(re, n, m) ==
    IF n = 0 THEN m ELSE
    LET a    == process(re, m)
        both == AlignMarkers(a.b, a, m)
    IN  processUpTo(re, n - 1, Mark(both.b, both.pos, 1, << <<"or", New(both.b, 1), both.s1, both.s2>> >>))

processBoundedRep(re, ub, m, ifGroupSize) ==
    LET p      == AdvanceMarker(m)
        v(i)   == New(p.b, i)
        within == Emit(p.b, 2, << <<"adv", v(1), p.stream, 1>>, <<"or", v(2), p.stream, v(1)>> >>)
        mask   == Doubled("or", within, v(2), 1, ub)
        cc     == compile(re, mask.b)
        w(i)   == New(cc.b, i)
        group  == IF ifGroupSize < ub THEN ifGroupSize ELSE ub
        some   == processUpTo(re, group, m)
        open   == OpenIf(some)
    IN  IF isByteLength(re) /\ ub > 1
        THEN Mark(cc.b, FinalPostPositionUnit, 2,
                  << <<"star", w(1), p.stream, cc.stream>>, <<"and", w(2), w(1), mask.stream>> >>)
        ELSE IF ub = group THEN some
        ELSE CloseIf(open, processBoundedRep(re, ub - group, open.m, 2 * ifGroupSize))

\* processUnboundedRep, of a class: a MatchStar.
starOfClass(re, base) ==
    LET cc   == compile(re, base.b)
        v(i) == New(cc.b, i)
    IN  IF isByteLength(re)
        THEN Mark(cc.b, FinalPostPositionUnit, 1, << <<"star", v(1), base.stream, cc.stream>> >>)
        ELSE Mark(cc.b, FinalPostPositionUnit, 3,
                  << <<"or", v(1), cc.stream, "nonFinal">>,
                     <<"star", v(2), base.stream, v(1)>>,
                     <<"and", v(3), v(2), "final">> >>)

\* processUnboundedRep, of anything else: a While, in which the positions
\* just reached are pending until an iteration reaches no new one.
starLoop(re, base) ==
    LET v(i)    == New(base.b, i)
        test    == v(1)
        pending == v(2)
        accum   == v(3)
        init    == Emit(base.b, 4, << <<"set", test, base.stream>>, <<"set", pending, base.stream>>,
                                     <<"set", accum, base.stream>>, <<"zero", v(4)>> >>)
        inside  == [Nest(init) EXCEPT !.starDepth = 1, !.test = v(4)]
        result  == AdvanceMarker(process(re, Result(inside, FinalPostPositionUnit, pending)))
        w(i)    == New(result.b, i)
        reached == Emit(result.b, 4,
                       << <<"not", w(1), accum>>,
                          <<"and", w(2), result.stream, w(1)>>,
                          <<"set", pending, w(2)>>,
                          <<"or", w(3), result.stream, accum>>,
                          <<"set", accum, w(3)>>,
                          <<"or", w(4), result.b.test, pending>>,
                          <<"set", test, w(4)>> >>)
    IN  Result([Close(reached, "while", test) EXCEPT !.starDepth = 0], FinalPostPositionUnit, accum)

\* processUnboundedRep in the body of another: its pending positions and the
\* ones it has reached are variables of the scope around the loop, which goes
\* on while there are any.
starInLoop(re, base) ==
    LET v(i)    == New(base.b, i)
        pending == v(1)
        accum   == v(2)
        init    == EmitAt(base.b, Level(base.b) - 1, 2, << <<"zero", pending>>, <<"zero", accum>> >>)
        known   == Emit(init, 2, << <<"or", v(3), base.stream, pending>>, <<"or", v(4), base.stream, accum>> >>)
        inside  == [known EXCEPT !.starDepth = @ + 1]
        result  == AdvanceMarker(process(re, Result(inside, FinalPostPositionUnit, v(3))))
        w(i)    == New(result.b, i)
        reached == Emit(result.b, 4,
                       << <<"not", w(1), v(4)>>,
                          <<"and", w(2), result.stream, w(1)>>,
                          <<"set", pending, w(2)>>,
                          <<"or", w(3), result.stream, v(4)>>,
                          <<"set", accum, w(3)>>,
                          <<"or", w(4), result.b.test, pending>> >>)
        after   == [reached EXCEPT !.starDepth = @ - 1, !.test = w(4)]
    IN  Mark(after, FinalPostPositionUnit, 1, << <<"or", New(after, 1), base.stream, accum>> >>)

processUnboundedRep(re, m) ==
    LET base == AdvanceMarker(m)
    IN  IF isUnicodeUnitLength(re) THEN starOfClass(re, base)
        ELSE IF m.b.starDepth > 0 THEN starInLoop(re, base)
        ELSE starLoop(re, base)

compileRep(re, m) ==
    LET lb    == re[3]
        ub    == re[4]
        lower == IF lb > 0 THEN processLowerBound(re[2], lb, m, IfInsertionGap) ELSE m
    IN  IF ub = Unbounded THEN processUnboundedRep(re[2], lower)
        ELSE IF lb < ub THEN processBoundedRep(re[2], ub - lb, lower, IfInsertionGap)
        ELSE lower

process(re, m) ==
    CASE re[1] = "name"  -> compileName(re, m)
      [] re[1] = "seq"   -> compileSeq(re, m)
      [] re[1] = "alt"   -> compileAlt(re, m)
      [] re[1] = "rep"   -> compileRep(re, m)
      [] re[1] = "any"   -> compileAny(m)
      [] re[1] = "start" -> compileStart(m)
      [] re[1] = "end"   -> compileEnd(m)
      [] re[1] \in {"diff", "intersect"} -> compileBoth(re, m)
      [] OTHER           -> compileAssertion(re, m)

\* RE_Compiler::RE_Compiler and compile(re): the program that marks, as
\* "matches", the character after each match.
Program(re) ==
    LET any == [NewBuilder EXCEPT !.scopes = <<<<  <<"not", "any", "linebreak">> >>>>]
        m   == AdvanceMarker(compile(re, any))
    IN  Assign(m.b, "matches", m.stream).scopes[1]
=============================================================================
