----------------------------- MODULE GrepBlocks -----------------------------
(***************************************************************************)
(* One file through the matching part of the grep pipeline of              *)
(* grep_engine.cpp, a block at a time: line breaks, required streams, the  *)
(* compiled regular expression, matched lines, and the scan that reports   *)
(* the lines (kernels/scanmatchgen.cpp).  Init picks an expression and a   *)
(* file; a step runs every kernel on the next block, the last of which     *)
(* holds the end of the file.  What is checked is that cutting the streams *)
(* into blocks, skipping Ifs and resuming from carries changes nothing:    *)
(* the streams are those of whole-stream Pablo, the matches those of the   *)
(* expression, and the lines reported those with a match.                  *)
(***************************************************************************)
EXTENDS RECompiler, GrepKernels, KernelBlocks

CONSTANTS
    Cases,          \* <<[re, alphabet, length], ...>>: the expressions and files
    WordWidth       \* bits in a scan word of ScanMatchKernel

ASSUME GrepConstants ==
    /\ IfInsertionGap \in Nat \ {0}
    /\ BlockWidth % WordWidth = 0
    /\ \A i \in DOMAIN Cases : Cases[i].alphabet \subseteq DOMAIN Utf8 /\ Cases[i].length \in Nat \ {0}

Programs == [i \in DOMAIN Cases |-> Program(Cases[i].re)]

\* The kernels of the pipeline for each case: the code and the outputs.
CasePipelines ==
    LET Kernel(source, outputs) == [code |-> Compile(source), outputs |-> outputs]
    IN  [i \in DOMAIN Cases |->
            [ linebreak    |-> Kernel(LineBreakKernel, {"linebreak"}),
              required     |-> Kernel(RequiredStreams, {"crlf", "initial", "nonFinal", "final"}),
              icgrep       |-> Kernel(Programs[i], {"matches"}),
              matchedLines |-> Kernel(MatchedLinesKernel, {"matchedLines"}) ]]

ASSUME PipelinesOfCases == Pipelines = CasePipelines

VARIABLES
    text,       \* the characters of the file
    scan        \* ScanMatchKernel: LineNum, the start of the line, the lines reported

vars == <<text, scan, kernelVars>>

-----------------------------------------------------------------------------
(* The file.                                                               *)

\* The position of the first byte of each character, and of the end.
Offsets(chars) ==
    LET at[i \in 1 .. Len(chars) + 1] ==
            IF i = 1 THEN 0 ELSE at[i - 1] + Len(Utf8[chars[i - 1]])
    IN  at
Size(chars) == Offsets(chars)[Len(chars) + 1]
Last(chars) == Size(chars) \div BlockWidth      \* the number of the last block

\* The byte at each position, up to the end of the last block.
FileBytes(chars) ==
    LET at == Offsets(chars)
        bytes == UNION {{<<at[i] + j - 1, Utf8[chars[i]][j]>> : j \in DOMAIN Utf8[chars[i]]}
                            : i \in DOMAIN chars}
    IN  [p \in 0 .. (Last(chars) + 1) * BlockWidth - 1 |->
            IF p < Size(chars) THEN (CHOOSE pair \in bytes : pair[1] = p)[2] ELSE Padding]

\* The streams of byte classes (S2P and the CC compiler) and of the classes of
\* the expression, marked at the final byte of a character (CharClassesKernel).
ByteStreams(chars) ==
    LET bytes == FileBytes(chars)
    IN  [c \in DOMAIN ByteClass |-> {p \in DOMAIN bytes : bytes[p] \in ByteClass[c]}]
ClassStreams(chars) ==
    [c \in DOMAIN Classes |->
        {Offsets(chars)[i + 1] - 1 : i \in {j \in DOMAIN chars : chars[j] \in Classes[c]}}]

\* The part of a function of streams that is in a block.
InBlock(s, k) == [c \in DOMAIN s |-> {p - k * BlockWidth : p \in {q \in s[c] : q \div BlockWidth = k}}]

-----------------------------------------------------------------------------
(* ScanMatchKernel::generateMultiBlockLogic and wrapped_report_match.      *)

\* Mutated form: a line after a CRLF starts on the LF.
ReportFromBreak(num, start, end) == [num |-> num, end |-> end, start |-> start]

\* A report: the number of the line, where it starts and ends.  A line that
\* starts on the LF of a CRLF starts after it.
Report(num, start, end) ==
    [num |-> num, end |-> end,
     start |-> IF FileBytes(text)[start] = "LF" /\ start # end THEN start + 1 ELSE start]

\* Mutated form: the break that ends the line of a match is one before it.
PriorOrAt(breaks, match) == {p \in breaks : p <= match}

\* The line breaks before a match.
Prior(breaks, match) == {p \in breaks : p < match}

RECURSIVE ScanWord(_, _, _)
ScanWord(matches, breaks, s) ==
    LET first == Min(matches)
        prior == Prior(breaks, first)
        num   == s.num + Cardinality(prior)
        start == IF prior = {} THEN s.start ELSE Max(prior) + 1
    IN  IF matches # {}
        THEN ScanWord(matches \ {first}, breaks \ prior,
                      [num |-> num, start |-> start, reports |-> Append(s.reports, Report(num, start, first))])
        ELSE IF breaks = {} THEN s
        ELSE [s EXCEPT !.num = @ + Cardinality(breaks), !.start = Max(breaks) + 1]

ScanBlock(k, matches, breaks, s) ==
    LET Word(i) == k * BlockWidth + i * WordWidth .. k * BlockWidth + (i + 1) * WordWidth - 1
        after[i \in 0 .. BlockWidth \div WordWidth] ==
            IF i = 0 THEN s
            ELSE ScanWord(matches \cap Word(i - 1), breaks \cap Word(i - 1), after[i - 1])
    IN  after[BlockWidth \div WordWidth]

-----------------------------------------------------------------------------
Init ==
    /\ case \in DOMAIN Cases
    /\ text \in [1 .. Cases[case].length -> Cases[case].alphabet]
    /\ NoBlocksYet
    /\ scan = [num |-> 0, start |-> 0, reports |-> <<>>]

\* Mutated form: a kernel starts every block without carries.
RunKernelAnew(k, inputs, eof) ==
    LET start == Start(Code(k), inputs, eof, NoCarries(Code(k)))
    IN  IF LoopFree(Code(k)) THEN RunBlock(Code(k), start) ELSE Exec(Code(k), start)

\* One block of a kernel's code.
RunKernel(k, inputs, eof) ==
    LET start == Start(Code(k), inputs, eof, carries[k])
    IN  IF LoopFree(Code(k)) THEN RunBlock(Code(k), start) ELSE Exec(Code(k), start)

\* The inputs of the kernels, from those before them.
ICGrepInputs(classes, lb, required) ==
    [c \in {"linebreak"} |-> lb[c]]
    @@ [c \in {"crlf", "initial", "nonFinal", "final"} |-> required[c]]
    @@ classes
LinesInputs(lb, icgrep) == [linebreak |-> lb["linebreak"], matches |-> icgrep["matches"]]

\* A result is bound once, by a quantifier over the set of it alone.
DoBlock ==
    /\ block <= Last(text)
    /\ \E bytes   \in {InBlock(ByteStreams(text), block)},
          classes \in {InBlock(ClassStreams(text), block)},
          eof     \in {IF block = Last(text) THEN {Size(text) % BlockWidth} ELSE {}} :
       \E lb       \in {RunKernel("linebreak", bytes, eof)},
          required \in {RunKernel("required", bytes, eof)} :
       \E written  \in {ICGrepInputs(classes, lb.env, required.env)} :
       \E icgrep   \in {RunKernel("icgrep", written, eof)} :
       \E found    \in {LinesInputs(lb.env, icgrep.env)} :
       \E lines    \in {RunKernel("matchedLines", found, eof)} :
          LET here(bits) == Shift(bits, block * BlockWidth)
          IN  /\ FinishBlock([linebreak |-> bytes, required |-> bytes, icgrep |-> written, matchedLines |-> found],
                             eof,
                             [linebreak |-> lb, required |-> required, icgrep |-> icgrep, matchedLines |-> lines])
              /\ scan' = ScanBlock(block, here(lines.env["matchedLines"]), here(lb.env["linebreak"]), scan)
    /\ UNCHANGED text

Done == block > Last(text)

Next == DoBlock \/ (Done /\ UNCHANGED vars)

Spec == Init /\ [][Next]_vars

-----------------------------------------------------------------------------
(* What the expression means: the characters that can follow a match.      *)

Breaks == {"LF", "CR", "NEL", "LS"}
Terminator(chars, i) == i <= Len(chars) /\ chars[i] \in Breaks /\ ~(i > 1 /\ chars[i] = "LF" /\ chars[i - 1] = "CR")
LineEnd(chars, i)    == Terminator(chars, i) \/ (i = Len(chars) + 1 /\ i > 1 /\ chars[i - 1] \notin Breaks)
LineStart(chars, i)  == i = 1 \/ (chars[i - 1] \in Breaks
                                 /\ ~(i <= Len(chars) /\ chars[i] = "LF" /\ chars[i - 1] = "CR"))

RECURSIVE After(_, _, _), AfterAll(_, _, _), AfterTimes(_, _, _, _), AfterStar(_, _, _)

\* The characters after the matches of re that start at characters in `from`.
After(re, from, chars) ==
    CASE re[1] = "name"  -> {i + 1 : i \in {j \in from : j <= Len(chars) /\ chars[j] \in Classes[re[2]]}}
      [] re[1] = "any"   -> {i + 1 : i \in {j \in from : j <= Len(chars) /\ chars[j] \notin Breaks}}
      [] re[1] = "start" -> {i \in from : LineStart(chars, i)}
      [] re[1] = "end"   -> {i \in from : LineEnd(chars, i)}
      [] re[1] = "seq"   -> AfterAll(Tail(re), from, chars)
      [] re[1] = "alt"   -> UNION {After(part, from, chars) : part \in Parts(re)}
      [] re[1] = "rep"   ->
            LET least == AfterTimes(re[2], re[3], from, chars)
            IN  IF re[4] = Unbounded THEN AfterStar(re[2], least, chars)
                ELSE UNION {AfterTimes(re[2], n, least, chars) : n \in 0 .. re[4] - re[3]}
      [] re[1] = "diff"  -> UNION {After(re[2], {i}, chars) \ After(re[3], {i}, chars) : i \in from}
      [] re[1] = "intersect" -> UNION {After(re[2], {i}, chars) \cap After(re[3], {i}, chars) : i \in from}
      [] re[1] \in Behind ->
            {i \in from : (re[1] = "behind") = (i \in After(re[2], 1 .. Len(chars) + 1, chars))}
      [] OTHER           -> {i \in from : (re[1] = "ahead") = (After(re[2], {i}, chars) # {})}

AfterAll(res, from, chars) ==
    IF res = <<>> THEN from ELSE AfterAll(Tail(res), After(Head(res), from, chars), chars)
AfterTimes(re, n, from, chars) ==
    IF n = 0 THEN from ELSE AfterTimes(re, n - 1, After(re, from, chars), chars)
AfterStar(re, from, chars) ==
    LET more == from \cup After(re, from, chars)
    IN  IF more = from THEN from ELSE AfterStar(re, more, chars)

Matched == After(Cases[case].re, 1 .. Len(text) + 1, text)

\* The final unit of a character, or the end of the file.
FinalUnit(i) == IF i > Len(text) THEN Size(text) ELSE Offsets(text)[i + 1] - 1

\* The lines with a match, as they should be reported, by their number.
MatchingLines ==
    LET ends   == {i \in 1 .. Len(text) + 1 : LineEnd(text, i)}
        First(i) == CHOOSE j \in 1 .. i : /\ LineStart(text, j)
                                          /\ \A k \in j + 1 .. i : ~LineStart(text, k)
        Line(i) == [num |-> Cardinality({j \in ends : j < i}),
                    start |-> Offsets(text)[First(i)], end |-> FinalUnit(i)]
    IN  {Line(i) : i \in {j \in ends : Matched \cap First(j) .. j # {}}}

-----------------------------------------------------------------------------
(* Properties.                                                             *)

TypeOK ==
    /\ case \in DOMAIN Cases
    /\ block <= Last(text) + 1
    /\ scan.num \in Nat /\ scan.start \in 0 .. block * BlockWidth
    /\ \A i \in DOMAIN scan.reports : scan.reports[i].start <= scan.reports[i].end

\* Running a program a block at a time, skipping an If when its condition and
\* its summary are empty, and going through a While as long as this block
\* needs, writes the streams that the program means on the whole file.
BlockwiseIsStream ==
    Done =>
        LET all      == DOMAIN FileBytes(text)
            eof      == {Size(text)}
            lb       == Run(LineBreakKernel, ByteStreams(text), all, eof)
            required == Run(RequiredStreams, ByteStreams(text), all, eof)
            icgrep   == Run(Programs[case], ICGrepInputs(ClassStreams(text), lb, required), all, eof)
            lines    == Run(MatchedLinesKernel, LinesInputs(lb, icgrep), all, eof)
        IN  /\ results.linebreak.linebreak = lb["linebreak"]
            /\ \A c \in Outputs("required") : results.required[c] = required[c]
            /\ results.icgrep.matches = icgrep["matches"]
            /\ results.matchedLines.matchedLines = lines["matchedLines"]

\* The compiled expression marks the character after a match exactly when the
\* expression has a match that ends there.
MatchesRE ==
    Done => {i \in 1 .. Len(text) + 1 : FinalUnit(i) \in results.icgrep.matches} = Matched

\* The lines reported are those with a match, once each, in the order of the
\* file, with their number, start and end.
ReportedLines ==
    Done => /\ \A i, j \in DOMAIN scan.reports : i < j => scan.reports[i].num < scan.reports[j].num
            /\ {scan.reports[i] : i \in DOMAIN scan.reports} = MatchingLines

\* The kernels written by hand, and those that the compiler makes of expressions,
\* put no more into an If than its condition allows to be skipped: while that is
\* empty and nothing is remembered, the body would set no variable of the code
\* around it, and remember nothing. A bounded repetition in an If is the
\* exception: the runs of its class go on whatever the condition
\* (processLowerBound). When LongAdvance is 2 these are the Ifs with long advances.
RepeatsInIf(code) == \E i \in DOMAIN code : IsLong(code[i].st) /\ code[i].ifs > 0
SkippedIfsAreIdle ==
    \A k \in Kernels :
        LoopFree(Code(k)) /\ ~RepeatsInIf(Code(k)) => SkipsChangeNothing(k)

\* Where no kernel has a loop, the pipeline takes the steps of KernelBlocks: it
\* is one of those that the theorems about KernelSpec are about.
ImplementsKernels == [][(\A k \in Kernels : LoopFree(Code(k))) => DoTheseBlocks]_kernelVars
=============================================================================
