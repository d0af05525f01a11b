----------------------------- MODULE KernelBlocks -----------------------------
(***************************************************************************)
(* Pablo kernels on a stream that comes in blocks.  A step is one block:   *)
(* every kernel runs its code on the next block of its inputs, from the    *)
(* carries that the block before has left, up to the block that holds the  *)
(* end of the file.  What the blocks of its outputs amount to is compared  *)
(* with what the code means on the whole streams.                          *)
(***************************************************************************)
EXTENDS PabloKernel

CONSTANT
    Pipelines       \* <<[kernel |-> [code, outputs], ...], ...>>

VARIABLES
    case,       \* the pipeline that runs
    block,      \* the blocks done
    given,      \* the input streams of each kernel
    ended,      \* the position past the end of the file, once a block held it
    carries,    \* the carry data of each kernel
    results     \* the output streams of each kernel

kernelVars == <<case, block, given, ended, carries, results>>

Codes   == [i \in DOMAIN Pipelines |-> [k \in DOMAIN Pipelines[i] |-> Pipelines[i][k].code]]
Written == [i \in DOMAIN Pipelines |-> [k \in DOMAIN Pipelines[i] |-> Pipelines[i][k].outputs]]

Kernels    == DOMAIN Codes[case]
Code(k)    == Codes[case][k]
Outputs(k) == Written[case][k]

\* The positions of the first n blocks.
Positions(n) == 0 .. n * BlockWidth - 1

-----------------------------------------------------------------------------
(* Code that PabloCompiler makes.                                          *)

Inside(code, e) == e + 1 .. code[e].to - 1
Ifs(code)       == {i \in DOMAIN code : code[i].st[1] = "if"}
Carrying(code)  == {i \in DOMAIN code : code[i].st[1] \in Producers}

\* The variables in scope after the first i instructions: a variable is so
\* until the end of the If that defines it.
InScope(code, i) ==
    Inputs(code) \cup
    {code[j].st[2] : j \in {h \in 1 .. i : /\ code[h].st[1] \notin Branches
                                           /\ \A e \in Ifs(code) : h \in Inside(code, e) => i < code[e].to}}

IsCode(code) ==
    /\ Len(code) \in Nat /\ DOMAIN code = 1 .. Len(code)
    /\ \A i \in DOMAIN code :
        /\ code[i].st[1] \in Bitwise \cup Producers \cup {"if", "endif"}
        /\ code[i].loops = 0
        /\ code[i].ifs \in Nat
        /\ code[i].st[1] = "adv" => code[i].st[4] \in Nat \ {0}
        /\ Operands(code[i].st) \subseteq InScope(code, i - 1)

UniquePlaces(code) ==
    \A i, j \in DOMAIN code : Keeps(code[i]) /\ Keeps(code[j]) /\ i # j => code[i].st[2] # code[j].st[2]

\* Ifs are properly nested, and ifs is the number of those around.
Depth(code, i) == IF i = 0 THEN 0 ELSE code[i].ifs + (IF code[i].st[1] = "if" THEN 1 ELSE 0)
Nested(code) ==
    /\ \A i \in DOMAIN code :
        code[i].ifs = Depth(code, i - 1) - (IF code[i].st[1] = "endif" THEN 1 ELSE 0)
    /\ \A e \in Ifs(code) :
        /\ code[e].to \in e + 1 .. Len(code)
        /\ code[code[e].to].st[1] = "endif" /\ code[code[e].to].to = e
        /\ code[code[e].to].ifs = code[e].ifs /\ code[code[e].to].own = code[e].own
        /\ code[code[e].to].st[2] = code[e].st[2]
        /\ \A i \in Inside(code, e) : code[i].ifs > code[e].ifs
        /\ \A f \in Ifs(code) \cap Inside(code, e) : code[f].to < code[e].to
    /\ \A i \in DOMAIN code : code[i].st[1] = "endif" => code[i].to \in Ifs(code) /\ code[code[i].to].to = i

\* The summary of an If: none where no statement in it has a carry, a pack of
\* its own, or borrowed from the only statement with a carry or the only If
\* around such statements.
SummaryOfItsOwn(code, e) ==
    LET carrying == Carrying(code) \cap Inside(code, e) IN
    CASE code[e].own = "none"     -> carrying = {}
      [] code[e].own = "explicit" -> code[e].from = code[e].st[2]
      [] code[e].own = "borrowed" ->
            \/ \E i \in carrying : /\ carrying = {i}
                                   /\ code[e].from = code[i].st[2]
                                   /\ IsLong(code[i].st) => code[i].st[4] <= BlockWidth
            \/ \E f \in Ifs(code) \cap Inside(code, e) :
                                   /\ code[f].own = "explicit"
                                   /\ code[e].from = code[f].st[2]
                                   /\ carrying \subseteq Inside(code, f)
      [] OTHER -> FALSE

Summarized(code) ==
    /\ \A i \in DOMAIN code :
          /\ code[i].ifs = 0 => code[i].summary = "none"
          /\ code[i].ifs > 0 /\ i \in Carrying(code) => code[i].summary \in {"explicit", "borrowed"}
    /\ \A e \in Ifs(code) :
          /\ SummaryOfItsOwn(code, e)
          /\ \A i \in Inside(code, e) :
                code[i].ifs = code[e].ifs + 1 => code[i].summary = code[e].own
          /\ code[e].escaped = {code[i].st[2] : i \in {j \in Inside(code, e) : code[j].st[1] \notin Branches}}
                                    \cap InScope(code, e - 1)

\* Code without loops, as it is compiled.
WellFormed(code) == IsCode(code) /\ UniquePlaces(code) /\ Nested(code) /\ Summarized(code)

\* A long advance of at most a block adds nothing to a summary that the If
\* borrows from it, so that an If around that one would not hear of it.
LongAdvancesHeard(code) ==
    \A i \in DOMAIN code :
        IsLong(code[i].st) /\ code[i].st[4] <= BlockWidth /\ code[i].ifs > 1 => code[i].summary = "explicit"

\* The buffer of a long advance in an If has no more slots than the advance
\* has blocks, so that none is stale after the If was skipped.
NoStaleSlots(code) ==
    \A i \in DOMAIN code :
        IsLong(code[i].st) /\ code[i].ifs > 0 => PackSize(code[i].st) = AdvanceBlocks(code[i].st[4])

ASSUME PipelinesWellFormed ==
    \A i \in DOMAIN Pipelines : \A k \in DOMAIN Pipelines[i] :
        LET code == Pipelines[i][k].code
        IN  LoopFree(code) => WellFormed(code) /\ Pipelines[i][k].outputs \subseteq InScope(code, Len(code))

-----------------------------------------------------------------------------
NoBlocksYet ==
    /\ block = 0
    /\ given = [k \in Kernels |-> [v \in Inputs(Code(k)) |-> {}]]
    /\ ended = {}
    /\ carries = [k \in Kernels |-> NoCarries(Code(k))]
    /\ results = [k \in Kernels |-> [v \in Outputs(k) |-> {}]]

\* A block is over: the streams have grown by it.
FinishBlock(inputs, eof, after) ==
    LET here(bits) == Shift(bits, block * BlockWidth) IN
    /\ block' = block + 1
    /\ given' = [k \in Kernels |-> [v \in DOMAIN given[k] |-> given[k][v] \cup here(inputs[k][v])]]
    /\ ended' = ended \cup here(eof)
    /\ carries' = [k \in Kernels |-> NextCarries(Code(k), after[k])]
    /\ results' = [k \in Kernels |-> [v \in Outputs(k) |-> results[k][v] \cup here(after[k].env[v])]]
    /\ UNCHANGED case

KernelInit ==
    /\ case \in DOMAIN Pipelines
    /\ \A k \in Kernels : LoopFree(Code(k))
    /\ NoBlocksYet

\* One block of every kernel; the last block has the bit of the end of file.
DoBlocks(inputs, eof) ==
    /\ ended = {}
    /\ FinishBlock(inputs, eof,
                   [k \in Kernels |-> RunBlock(Code(k), Start(Code(k), inputs[k], eof, carries[k]))])

KernelNext ==
    \E inputs \in [Kernels -> [UNION {Inputs(Code(k)) : k \in Kernels} -> SUBSET Block]],
       eof    \in {{}} \cup {{p} : p \in Block} :
          DoBlocks(inputs, eof)

KernelSpec == KernelInit /\ [][KernelNext]_kernelVars

\* KernelNext, on the blocks that the streams grow by.
DoTheseBlocks ==
    LET start    == block * BlockWidth
        new(bits) == {p - start : p \in {q \in bits : q >= start}}
    IN  \E inputs \in {[k \in Kernels |-> [v \in UNION {Inputs(Code(h)) : h \in Kernels} |->
                            IF v \in DOMAIN given[k] THEN new(given'[k][v]) ELSE {}]]} :
           DoBlocks(inputs, new(ended'))

-----------------------------------------------------------------------------
(* What code means on the streams so far.                                  *)

\* The variables before each instruction, and after the last.  The body of an
\* If is done whatever its condition.
StreamStep(env, st, all, eof) ==
    IF st[1] \in Branches THEN env ELSE [env EXCEPT ![st[2]] = Means(st, env, all, eof)]
Streams(code, inputs, all, eof) ==
    LET envs[i \in 0 .. Len(code)] ==
            IF i = 0 THEN << Initially(code, inputs) >>
            ELSE LET before == envs[i - 1] IN Append(before, StreamStep(before[i], code[i].st, all, eof))
    IN  envs[Len(code)]

\* What a statement has to remember of the positions before start: the bits
\* still to come out of an advance, of a long one all the bits in the blocks
\* that it keeps, and the carry of an addition.
Remembered(st, env, start) ==
    LET x == env[st[3]]
        y == env[st[4]]
        reach == IF IsLong(st) THEN AdvanceBlocks(st[4]) * BlockWidth ELSE st[4]
    IN  CASE st[1] = "adv"  -> {p \in x : start - reach <= p /\ p < start}
          [] st[1] = "scan" -> IF CarryInto(x, y, start) THEN {start} ELSE {}
          [] st[1] = "star" -> IF CarryInto(x \cap y, y, start) THEN {start} ELSE {}

\* The block of a stream that starts at a position.
BlockAt(stream, start) == {p - start : p \in {q \in stream : start <= q /\ q < start + BlockWidth}}

-----------------------------------------------------------------------------
(* Properties.                                                             *)

KernelTypeOK ==
    /\ block \in Nat
    /\ \A k \in Kernels :
        /\ \A d \in Places(Code(k)) :
              \A i \in DOMAIN carries[k].pack[d] : carries[k].pack[d][i] \subseteq Block
        /\ \A i \in DOMAIN Code(k) :
              LET st == Code(k)[i].st IN
              IsLong(st) => carries[k].long[st[2]] \subseteq 0 .. AdvanceBlocks(st[4]) - 1
        /\ carries[k].selector \in {0, 1}
        /\ carries[k].index \in 0 .. block
        /\ \A v \in Outputs(k) : results[k][v] \subseteq Positions(block)

\* "We branch into this If scope iff a carry out was generated by a statement
\* within this If scope" (carry_manager.cpp:470): between blocks, a carry in
\* the scope of an If is in its summary, so that the If is entered.
Side(in, data) == IF in.loops = 0 THEN 0 ELSE data.selector
Kept(in, data) ==
    IF ~IsLong(in.st) THEN data.pack[in.st[2]][Side(in, data)]
    ELSE IF in.st[4] > BlockWidth THEN data.long[in.st[2]]
    ELSE data.pack[in.st[2]][0]

Covered(code, data, e) ==
    code[e].own = "explicit" /\ data.pack[code[e].st[2]][Side(code[e], data)] = {}
        => \A i \in Carrying(code) \cap Inside(code, e) : Kept(code[i], data) = {}

SummaryCoversCarries ==
    \A k \in Kernels : \A e \in Ifs(Code(k)) : Covered(Code(k), carries[k], e)

\* An If that had nothing to do in the last block, because its condition was
\* empty there and its statements had nothing to remember, would have done
\* nothing: it may be skipped.
Idle(code, V, e, start) ==
    /\ BlockAt(V[e][code[e].st[3]], start) = {}
    /\ \A i \in Carrying(code) \cap Inside(code, e) : Remembered(code[i].st, V[i], start) = {}
SkipsChangeNothing(k) ==
    block > 0 =>
        LET code  == Code(k)
            V     == Streams(code, given[k], Positions(block), ended)
            start == (block - 1) * BlockWidth
        IN  \A e \in Ifs(code) : Idle(code, V, e, start) =>
                /\ \A i \in Carrying(code) \cap Inside(code, e) :
                        Remembered(code[i].st, V[i], start + BlockWidth) = {}
                /\ \A v \in code[e].escaped :
                        BlockAt(V[code[e].to + 1][v], start) = BlockAt(V[e][v], start)

\* Cutting the streams into blocks, resuming from carries and skipping Ifs
\* whose condition and summary are empty writes what the code means on the
\* whole streams.
ResultsAreStreams ==
    \A k \in {h \in Kernels : LoopFree(Code(h))} :
        LET V == Streams(Code(k), given[k], Positions(block), ended)
        IN  \A v \in Outputs(k) : results[k][v] = V[Len(Code(k)) + 1][v]
=============================================================================
