---------------------------- MODULE PabloKernel ----------------------------
(***************************************************************************)
(* The code of a Pablo kernel, a block at a time: what                     *)
(* pablo/pablo_compiler.cpp generates for each statement, and the carries  *)
(* that pablo/carry_manager.cpp keeps between blocks.  A bit stream is the *)
(* set of its positions, a block a subset of 0 .. BlockWidth - 1.          *)
(*                                                                         *)
(* Code is a sequence of instructions.  An instruction has a statement st, *)
(* which is a tuple of an operation, the variable it defines, and its      *)
(* operands (see Pablo), and what the compiler knows of its place: how     *)
(* many loops and Ifs are around it, and the type of summary of its scope. *)
(* An If is a branch over its body, from <<"if", d, x>> to past the        *)
(* <<"endif", d>>, each of which has the place of the other in `to`; own   *)
(* is the type of its summary, from the pack that this is read from, and   *)
(* escaped the outer variables that the body assigns.  A While is the      *)
(* branch back at its "endwhile".                                          *)
(***************************************************************************)
EXTENDS Integers, Sequences, FiniteSetsExt

CONSTANTS
    BlockWidth,     \* bits in a block
    LongAdvance     \* LONG_ADVANCE_BREAKPOINT

ASSUME PabloConstants ==
    /\ BlockWidth \in Nat \ {0, 1}
    /\ LongAdvance \in 2 .. BlockWidth

Block == 0 .. BlockWidth - 1

Pow2[k \in Nat] == IF k = 0 THEN 1 ELSE 2 * Pow2[k - 1]

CeilDiv(x, y)  == (x + y - 1) \div y
NearestPow2(v) == Pow2[CHOOSE k \in 0 .. v : Pow2[k] >= v /\ \A j \in 0 .. k - 1 : Pow2[j] < v]

Bitwise   == {"zero", "ones", "set", "not", "and", "or", "xor", "eof"}
Producers == {"adv", "scan", "star"}
Branches  == {"if", "endif", "while", "endwhile"}

AdvanceBlocks(n) == CeilDiv(n, BlockWidth)
IsLong(st)       == st[1] = "adv" /\ st[4] >= LongAdvance

-----------------------------------------------------------------------------
(* What a statement means on whole streams: over the positions in `all`,   *)
(* with the position past the end of the file in the set eof.              *)

\* The carry into position p when the streams are added: from a position q
\* where both have a bit, over positions where at least one has.
CarryInto(x, y, p) ==
    \E q \in x \cap y : q < p /\ \A r \in q + 1 .. p - 1 : r \in x \cup y

\* (from + thru) & ~thru: where no marker stands at the end of another's run,
\* each moves to the first position at or after it that is not in thru.
Scan(from, thru, all) == {p \in all \ thru : (p \in from) # CarryInto(from, thru, p)}

\* Every position reached from a marker over a run of cc.
Star(from, cc, all) ==
    from \cup {p \in all : \E q \in from : q < p /\ \A r \in q .. p - 1 : r \in cc}

Shift(bits, n) == {p + n : p \in bits}

Means(st, env, all, eof) ==
    LET x == env[st[3]]
        y == env[st[4]]
    IN  CASE st[1] = "zero"  -> {}
          [] st[1] = "ones"  -> all
          [] st[1] = "set"   -> x
          [] st[1] = "not"   -> all \ x
          [] st[1] = "and"   -> x \cap y
          [] st[1] = "or"    -> x \cup y
          [] st[1] = "xor"   -> SymDiff(x, y)
          [] st[1] = "eof"   -> x \cap eof
          [] st[1] = "adv"   -> Shift(x, st[4]) \cap all
          [] st[1] = "scan"  -> Scan(x, y, all)
          [] st[1] = "star"  -> Star(x, y, all)

-----------------------------------------------------------------------------
(* What the code of an instruction does to a block.  The machine s holds   *)
(* the variables of the block, the bit of the end of file, the carry data, *)
(* the stack of carry-out summaries and the next instruction.              *)

\* The sum of two blocks and a carry, with the carry out as bit BlockWidth
\* (bitblock_add_with_carry).
Value(bits) == LET sum[i \in 0 .. BlockWidth + 1] ==
                       IF i = 0 THEN 0 ELSE sum[i - 1] + (IF i - 1 \in bits THEN Pow2[i - 1] ELSE 0)
               IN  sum[BlockWidth + 1]
Sum == [x \in SUBSET Block |-> [y \in SUBSET Block |-> [carry \in {{}, {0}} |->
           CHOOSE bits \in SUBSET (0 .. BlockWidth) : Value(bits) = Value(x) + Value(y) + Value(carry)]]]

Top(s)                == s.summaries[Len(s.summaries)]
AddToSummary(s, bits) == [s EXCEPT !.summaries[Len(s.summaries)] = @ \cup bits]
Define(s, in, bits)   == [s EXCEPT !.env[in.st[2]] = bits]

\* The sides of a pack that are read and written: in a loop they alternate
\* from block to block.
ReadSide(s, in)  == IF in.loops = 0 THEN 0 ELSE s.selector
WriteSide(s, in) == IF in.loops = 0 THEN 0 ELSE 1 - s.selector

\* getNextCarryIn and setNextCarryOut: in a loop the carry in is consumed,
\* and the carries out of its iterations gather on the other side.
CarryIn(s, in) == s.pack[in.st[2]][ReadSide(s, in)]

\* Mutated form: of the carries out of the iterations, the last is kept.
LastCarryOut(s, in, out) ==
    LET d    == in.st[2]
        kept == IF in.loops = 0 THEN [s EXCEPT !.pack[d][0] = out]
                ELSE [s EXCEPT !.pack[d][s.selector] = {}, !.pack[d][1 - s.selector] = out]
    IN  IF in.summary = "none" THEN kept ELSE AddToSummary(kept, out)

CarryOut(s, in, out) ==
    LET d    == in.st[2]
        kept == IF in.loops = 0 THEN [s EXCEPT !.pack[d][0] = out]
                ELSE [s EXCEPT !.pack[d][s.selector] = {}, !.pack[d][1 - s.selector] = @ \cup out]
    IN  IF in.summary = "none" THEN kept ELSE AddToSummary(kept, out)

\* addCarryInCarryOut
AddOut(s, in, sum) == CarryOut(s, in, Shift(sum \ Block, -BlockWidth))

ScanThru(s, in, x, y) ==
    LET sum == Sum[x][y][CarryIn(s, in)]
    IN  Define(AddOut(s, in, sum), in, (sum \cap Block) \ y)

MatchStar(s, in, x, y) ==
    LET sum == Sum[x \cap y][y][CarryIn(s, in)]
    IN  Define(AddOut(s, in, sum), in, SymDiff(sum \cap Block, y) \cup x)

\* Mutated form: the carry in is read after the carry out is stored.
AdvanceStored(s, in, x) ==
    LET moved  == Shift(x, in.st[4])
        stored == CarryOut(s, in, Shift(moved \ Block, -BlockWidth))
    IN  Define(stored, in, (moved \cap Block) \cup CarryIn(stored, in))

\* advanceCarryInCarryOut
Advance(s, in, x) ==
    LET moved == Shift(x, in.st[4])
    IN  Define(CarryOut(s, in, Shift(moved \ Block, -BlockWidth)), in,
               (moved \cap Block) \cup CarryIn(s, in))

\* Mutated form: blocks that have left the buffer are not masked out.
UnmaskedSummary(s, in, x) ==
    LET bits == Shift(s.long[in.st[2]], 1) \cup (IF x = {} THEN {} ELSE {0})
    IN  IF in.ifs = 0 THEN s
        ELSE IF in.st[4] > BlockWidth THEN AddToSummary([s EXCEPT !.long[in.st[2]] = bits], {b % BlockWidth : b \in bits})
        ELSE IF in.summary = "explicit" THEN AddToSummary(s, x)
        ELSE s

\* longAdvanceCarryInCarryOut: the blocks of the last st[4] bits are kept; in
\* an If, a bit for each of them tells which are not empty.
AdvanceSummary(s, in, x) ==
    LET bits == (Shift(s.long[in.st[2]], 1) \cup (IF x = {} THEN {} ELSE {0}))
                    \cap 0 .. AdvanceBlocks(in.st[4]) - 1
    IN  IF in.ifs = 0 THEN s
        ELSE IF in.st[4] > BlockWidth THEN AddToSummary([s EXCEPT !.long[in.st[2]] = bits], {b % BlockWidth : b \in bits})
        ELSE IF in.summary = "explicit" THEN AddToSummary(s, x)
        ELSE s

LongAdvanced(s, in, x) ==
    LET pack   == s.pack[in.st[2]]
        blocks == AdvanceBlocks(in.st[4])
        size   == NearestPow2(blocks)
        by     == in.st[4] % BlockWidth
        single == in.st[4] < BlockWidth /\ in.loops = 0
        slot   == IF single THEN 0 ELSE s.index % size
        oldest == pack[IF single THEN 0 ELSE (s.index - blocks) % size]
        next   == IF single THEN x ELSE pack[(s.index - blocks + 1) % size]
        result == IF by = 0 THEN oldest
                  ELSE (Shift(oldest, by - BlockWidth) \cup Shift(next, by)) \cap Block
    IN  Define([AdvanceSummary(s, in, x) EXCEPT !.pack[in.st[2]][slot] = x], in, result)

\* A statement.  What needs no carry does to a block what it does to a stream.
Statement(s, in) ==
    LET st == in.st
        x  == s.env[st[3]]
        y  == s.env[st[4]]
    IN  CASE st[1] \in Bitwise -> Define(s, in, Means(st, s.env, Block, s.eof))
          [] st[1] = "adv"     -> IF IsLong(st) THEN LongAdvanced(s, in, x) ELSE Advance(s, in, x)
          [] st[1] = "scan"    -> ScanThru(s, in, x, y)
          [] st[1] = "star"    -> MatchStar(s, in, x, y)

\* enterIfScope, generateSummaryTest: the carry-in summary of an If.  When it
\* is empty, and the condition too, the body is skipped.
SummaryIn(s, in) == IF in.own = "none" THEN {} ELSE s.pack[in.from][ReadSide(s, in)]

EnterIf(s, in) ==
    LET read == IF in.own = "explicit" /\ in.loops > 0
                THEN [s EXCEPT !.pack[in.st[2]][s.selector] = {}] ELSE s
    IN  IF s.env[in.st[3]] \cup SummaryIn(s, in) = {}
        THEN [read EXCEPT !.pc = in.to + 1]
        ELSE [read EXCEPT !.pc = @ + 1, !.summaries = Append(@, {})]

\* Mutated form: the enclosing If does not hear of the summary.
LeaveIfUnheard(s, in) ==
    LET n      == Len(s.summaries)
        stored == IF in.own # "explicit" THEN s
                  ELSE [s EXCEPT !.pack[in.st[2]][WriteSide(s, in)] = Top(s)]
    IN  [stored EXCEPT !.summaries = SubSeq(@, 1, n - 1), !.pc = @ + 1]

\* leaveIfBody, leaveIfScope: the summary of the body is stored, and becomes
\* part of the summary of the enclosing If.
LeaveIf(s, in) ==
    LET n      == Len(s.summaries)
        stored == IF in.own # "explicit" THEN s
                  ELSE [s EXCEPT !.pack[in.st[2]][WriteSide(s, in)] = Top(s)]
        outer  == IF n > 2 /\ in.own # "none" THEN s.summaries[n - 1] \cup Top(s)
                  ELSE s.summaries[n - 1]
    IN  [stored EXCEPT !.summaries = Append(SubSeq(@, 1, n - 2), outer), !.pc = @ + 1]

\* The instruction that s has reached: compileStatement, compileIf,
\* compileWhile.  The first iteration of a While is unconditional.
Execute(s, in) ==
    CASE in.st[1] = "if"       -> EnterIf(s, in)
      [] in.st[1] = "endif"    -> LeaveIf(s, in)
      [] in.st[1] = "while"    -> [s EXCEPT !.pc = @ + 1]
      [] in.st[1] = "endwhile" -> [s EXCEPT !.pc = IF s.env[in.st[3]] = {} THEN @ + 1 ELSE in.to + 1]
      [] OTHER                 -> [Statement(s, in) EXCEPT !.pc = @ + 1]

-----------------------------------------------------------------------------
(* Code as a whole.                                                        *)

LoopFree(code) == \A i \in DOMAIN code : code[i].st[1] \notin {"while", "endwhile"}

\* The variables that code defines, and those that it is given.
Operands(st) ==
    IF st[1] \in {"zero", "ones", "endif", "while"} THEN {}
    ELSE IF st[1] \in {"set", "not", "eof", "adv", "if", "endwhile"} THEN {st[3]}
    ELSE {st[3], st[4]}
Defined(code) == {code[i].st[2] : i \in DOMAIN code}
Inputs(code)  == (UNION {Operands(code[i].st) : i \in DOMAIN code}) \ Defined(code)

\* The variables before the first instruction.
Initially(code, inputs) ==
    LET defined == Defined(code)
    IN  [v \in Inputs(code) \cup defined |-> IF v \in defined THEN {} ELSE inputs[v]]

\* The instructions that keep a carry, and the Ifs, by the name of their place.
Keeps(in)    == in.st[1] \in Producers \cup {"if"}
Places(code) == {code[i].st[2] : i \in {j \in DOMAIN code : Keeps(code[j])}}
At(code, d)  == CHOOSE i \in DOMAIN code : Keeps(code[i]) /\ code[i].st[2] = d

\* The carry data of a kernel before its first block.  A pack has a side for
\* each value of the loop selector, of which a statement outside loops uses
\* one; a long advance has a circular buffer of blocks.
PackSize(st) == IF IsLong(st) THEN NearestPow2(AdvanceBlocks(st[4])) ELSE 2
NoCarries(code) ==
    [ pack     |-> [d \in Places(code) |-> [i \in 0 .. PackSize(code[At(code, d)].st) - 1 |-> {}]],
      long     |-> [d \in {e \in Places(code) : IsLong(code[At(code, e)].st)} |-> {}],
      selector |-> 0,
      index    |-> 0 ]      \* CarryBlockIndex

\* The machine at the start of a block (initializeCodeGen).
Start(code, inputs, eof, data) ==
    [ env       |-> Initially(code, inputs),
      eof       |-> eof,
      pack      |-> data.pack,
      long      |-> data.long,
      selector  |-> data.selector,
      index     |-> data.index,
      summaries |-> << {} >>,
      pc        |-> 1 ]

\* Code without loops goes forward: instruction i is executed if it has been
\* reached when those before it are over.
RunBlock(code, start) ==
    LET after[i \in 0 .. Len(code)] ==
            IF i = 0 THEN start
            ELSE LET s == after[i - 1] IN IF s.pc = i THEN Execute(s, code[i]) ELSE s
    IN  after[Len(code)]

\* The carry data for the next block (finalizeCodeGen).
NextCarries(code, s) ==
    [ pack     |-> s.pack,
      long     |-> s.long,
      selector |-> IF LoopFree(code) THEN 0 ELSE 1 - s.selector,
      index    |-> IF \E i \in DOMAIN code : IsLong(code[i].st) THEN s.index + 1 ELSE 0 ]
=============================================================================
