-------------------------- MODULE KernelBlocksProofs --------------------------
(***************************************************************************)
(* What is proved of Pablo kernels that run a block at a time, for any     *)
(* width of a block, any breakpoint of long advances and any kernels       *)
(* without loops:                                                          *)
(*   SumIsLookahead     adding two blocks with a carry is what ScanThru    *)
(*                      and MatchStar are taken to mean;                   *)
(*   KernelsAreTyped    carry data, summaries and results stay in bounds;  *)
(*   CarriesAreCovered  between blocks, no carry in an If is missing from  *)
(*                      the summary by which the If is entered;            *)
(*   BlocksAreStreams   if skipping an If that is idle changes nothing,    *)
(*                      and long advances in Ifs are heard of and leave no *)
(*                      stale slots, what the blocks of a stream amount to *)
(*                      is what the code means on the stream;              *)
(*   BranchFreeBlocksAreStreams  it is, for all code without Ifs.          *)
(* The proofs follow a block of a kernel instruction by instruction: what  *)
(* each kind of instruction does to the machine (Effect, Entered, Skipped, *)
(* LeaveEffect), the invariants of the machine between two instructions    *)
(* (MachineOK, Hears, Follows), and those of the carry data and of the     *)
(* results between two blocks (IsRunning, Covered, KernelsFollow).         *)
(***************************************************************************)
EXTENDS KernelBlocks, NaturalsInduction, SequenceTheorems, WellFoundedInduction, TLAPS

-----------------------------------------------------------------------------
(* Numbers, and functions defined by a step.                               *)

\* A set of numbers that is not empty has a least one.
LEMMA LeastNumber ==
    ASSUME NEW T, T \subseteq Nat, T # {}
    PROVE  \E x \in T : \A y \in T : x <= y
<1> DEFINE R == OpToRel(<, Nat)
<1>1. IsWellFoundedOn(R, Nat)
    BY NatLessThanWellFounded
<1>2. \A x, y \in Nat : x < y => <<x, y>> \in R
    BY DEF OpToRel
<1> HIDE DEF R
<1>3. PICK x \in T : \A y \in T : ~ (<<y, x>> \in R)
    BY <1>1, WFMin
<1>4. \A y \in T : x <= y
    <2> SUFFICES ASSUME NEW y \in T PROVE x <= y
        OBVIOUS
    <2>1. x \in Nat /\ y \in Nat /\ ~ (y < x)
        BY <1>2, <1>3
    <2> QED BY <2>1
<1> QED BY <1>4

\* The states between the instructions of a block.
Steps(code, start, after, n) ==
    after = [i \in 0 .. n |-> IF i = 0 THEN start
             ELSE LET s == after[i - 1] IN IF s.pc = i THEN Execute(s, code[i]) ELSE s]

\* The states between the instructions of a block are defined.
LEMMA StepsExist ==
    ASSUME NEW code, NEW start, NEW n \in Nat
    PROVE  \E after : Steps(code, start, after, n)
<1> DEFINE C == {m \in Nat : ~\E after : Steps(code, start, after, m)}
<1> SUFFICES ASSUME C # {} PROVE FALSE
    OBVIOUS
<1>1. PICK m \in C : \A k \in C : m <= k
    <2>1. C \subseteq Nat
        OBVIOUS
    <2> HIDE DEF C
    <2> QED BY <2>1, LeastNumber
<1>2. m # 0
    <2> DEFINE after == [i \in 0 .. 0 |-> start]
    <2>1. Steps(code, start, after, 0)
        BY DEF Steps
    <2> QED BY <2>1
<1>3. m - 1 \in Nat /\ m - 1 \notin C
    BY <1>1, <1>2
<1>4. PICK before : Steps(code, start, before, m - 1)
    BY <1>3
<1> DEFINE last == LET s == before[m - 1] IN IF s.pc = m THEN Execute(s, code[m]) ELSE s
           after == [i \in 0 .. m |-> IF i = m THEN last ELSE before[i]]
<1>5. Steps(code, start, after, m)
    <2> SUFFICES ASSUME NEW i \in 0 .. m
                 PROVE  after[i] = IF i = 0 THEN start
                          ELSE LET s == after[i - 1] IN IF s.pc = i THEN Execute(s, code[i]) ELSE s
        BY DEF Steps
    <2>1. CASE i = m
        BY <1>2, <2>1
    <2>2. CASE i # m
        <3>1. i \in 0 .. m - 1 /\ after[i] = before[i]
            BY <2>2
        <3>2. i # 0 => after[i - 1] = before[i - 1]
            BY <3>1
        <3> HIDE DEF after, last
        <3> QED BY <1>4, <3>1, <3>2 DEF Steps
    <2> QED BY <2>1, <2>2
<1> QED BY <1>5

Stepwise(code, start, after) ==
    /\ after[0] = start
    /\ \A i \in 1 .. Len(code) :
          after[i] = IF after[i - 1].pc = i THEN Execute(after[i - 1], code[i]) ELSE after[i - 1]

\* A block is run one instruction after the other.
LEMMA BlockSteps ==
    ASSUME NEW code, NEW start, Len(code) \in Nat
    PROVE  \E after : RunBlock(code, start) = after[Len(code)] /\ Stepwise(code, start, after)
<1>1. RunBlock(code, start) = (CHOOSE after : Steps(code, start, after, Len(code)))[Len(code)]
    BY DEF RunBlock, Steps
<1>2. PICK after : after = CHOOSE f : Steps(code, start, f, Len(code))
    OBVIOUS
<1>3. Steps(code, start, after, Len(code))
    BY <1>2, StepsExist
<1>4. after[0] = start
    BY <1>3 DEF Steps
<1>5. ASSUME NEW i \in 1 .. Len(code)
      PROVE  after[i] = IF after[i - 1].pc = i THEN Execute(after[i - 1], code[i]) ELSE after[i - 1]
    <2>1. i \in 0 .. Len(code) /\ i # 0
        OBVIOUS
    <2> QED BY <1>3, <2>1 DEF Steps
<1>6. RunBlock(code, start) = after[Len(code)]
    BY <1>1, <1>2
<1> QED BY <1>4, <1>5, <1>6 DEF Stepwise

\* Powers of two, up to an exponent.
Powers(f, n) == f = [k \in 0 .. n |-> IF k = 0 THEN 1 ELSE 2 * f[k - 1]]

\* Pow2 is defined by its steps,
LEMMA PowersExist ==
    ASSUME NEW n \in Nat
    PROVE  \E f : Powers(f, n)
<1> DEFINE C == {m \in Nat : ~\E f : Powers(f, m)}
<1> SUFFICES ASSUME C # {} PROVE FALSE
    OBVIOUS
<1>1. PICK m \in C : \A k \in C : m <= k
    <2>1. C \subseteq Nat
        OBVIOUS
    <2> HIDE DEF C
    <2> QED BY <2>1, LeastNumber
<1>2. m # 0
    <2>1. Powers([k \in 0 .. 0 |-> 1], 0)
        BY DEF Powers
    <2> QED BY <2>1
<1>3. m - 1 \in Nat /\ m - 1 \notin C
    BY <1>1, <1>2
<1>4. PICK g : Powers(g, m - 1)
    BY <1>3
<1> DEFINE f == [k \in 0 .. m |-> IF k = m THEN 2 * g[m - 1] ELSE g[k]]
<1>5. Powers(f, m)
    <2> SUFFICES ASSUME NEW k \in 0 .. m
                 PROVE  f[k] = IF k = 0 THEN 1 ELSE 2 * f[k - 1]
        BY DEF Powers
    <2>1. CASE k = m
        BY <1>2, <2>1
    <2>2. CASE k # m
        <3>1. k \in 0 .. m - 1 /\ f[k] = g[k]
            BY <2>2
        <3>2. k # 0 => f[k - 1] = g[k - 1]
            BY <3>1
        <3> HIDE DEF f
        <3> QED BY <1>4, <3>1, <3>2 DEF Powers
    <2> QED BY <2>1, <2>2
<1> QED BY <1>5

\* and by nothing else.
LEMMA PowersAgree ==
    ASSUME NEW n \in Nat, NEW m \in Nat, NEW f, NEW g, Powers(f, n), Powers(g, m)
    PROVE  \A k \in 0 .. n : k <= m => f[k] = g[k]
<1> DEFINE C == {k \in 0 .. n : k <= m /\ f[k] # g[k]}
<1> SUFFICES ASSUME C # {} PROVE FALSE
    OBVIOUS
<1>1. PICK k \in C : \A j \in C : k <= j
    <2>1. C \subseteq Nat
        OBVIOUS
    <2> HIDE DEF C
    <2> QED BY <2>1, LeastNumber
<1>2. k \in 0 .. n /\ k \in 0 .. m /\ f[k] # g[k]
    OBVIOUS
<1>3. /\ f[k] = IF k = 0 THEN 1 ELSE 2 * f[k - 1]
      /\ g[k] = IF k = 0 THEN 1 ELSE 2 * g[k - 1]
    BY <1>2 DEF Powers
<1>4. k # 0 => k - 1 \in 0 .. n /\ k - 1 <= m /\ k - 1 \notin C
    BY <1>1, <1>2
<1> QED BY <1>2, <1>3, <1>4

\* The powers of two, one from the next.
LEMMA Pow2Steps ==
    /\ Pow2[0] = 1
    /\ \A k \in Nat : Pow2[k + 1] = 2 * Pow2[k]
<1> DEFINE Def(f) == f = [k \in Nat |-> IF k = 0 THEN 1 ELSE 2 * f[k - 1]]
           P(n) == CHOOSE f : Powers(f, n)
           G == [k \in Nat |-> P(k)[k]]
<1>1. ASSUME NEW n \in Nat PROVE Powers(P(n), n)
    BY PowersExist
<1>2. ASSUME NEW k \in Nat PROVE G[k] = IF k = 0 THEN 1 ELSE 2 * G[k - 1]
    <2>1. G[k] = P(k)[k] /\ (k # 0 => G[k - 1] = P(k - 1)[k - 1])
        OBVIOUS
    <2>2. Powers(P(k), k)
        BY <1>1
    <2>3. k # 0 => Powers(P(k - 1), k - 1)
        BY <1>1
    <2> HIDE DEF P, G
    <2>4. P(k)[k] = IF k = 0 THEN 1 ELSE 2 * P(k)[k - 1]
        BY <2>2 DEF Powers
    <2>5. k # 0 => P(k - 1)[k - 1] = P(k)[k - 1]
        <3> SUFFICES ASSUME k # 0 PROVE P(k - 1)[k - 1] = P(k)[k - 1]
            OBVIOUS
        <3>1. k - 1 \in Nat /\ k - 1 \in 0 .. k - 1 /\ k - 1 <= k
            OBVIOUS
        <3> QED BY <2>2, <2>3, <3>1, PowersAgree
    <2> QED BY <2>1, <2>4, <2>5
<1>3. Def(G)
    <2>1. G = [k \in Nat |-> G[k]]
        OBVIOUS
    <2> HIDE DEF G
    <2> QED BY <1>2, <2>1
<1> HIDE DEF G
<1>4. Pow2 = CHOOSE f : Def(f)
    BY DEF Pow2
<1>5. Def(Pow2)
    <2>1. \E f : Def(f)
        BY <1>3
    <2> HIDE DEF Def
    <2> QED BY <1>4, <2>1
<1>6. Pow2[0] = 1
    BY <1>5
<1>7. ASSUME NEW k \in Nat PROVE Pow2[k + 1] = 2 * Pow2[k]
    <2>1. k + 1 \in Nat /\ k + 1 # 0 /\ (k + 1) - 1 = k
        OBVIOUS
    <2>2. Pow2[k + 1] = 2 * Pow2[(k + 1) - 1]
        BY <1>5, <2>1
    <2> QED BY <2>1, <2>2
<1> QED BY <1>6, <1>7

\* A power of two is above its exponent.
LEMMA Pow2Grows ==
    \A k \in Nat : Pow2[k] \in Nat /\ Pow2[k] > k
<1> DEFINE C == {k \in Nat : ~(Pow2[k] \in Nat /\ Pow2[k] > k)}
<1> SUFFICES ASSUME C # {} PROVE FALSE
    OBVIOUS
<1>1. PICK k \in C : \A j \in C : k <= j
    <2>1. C \subseteq Nat
        OBVIOUS
    <2> HIDE DEF C
    <2> QED BY <2>1, LeastNumber
<1>2. k # 0
    BY Pow2Steps
<1>3. k - 1 \in Nat /\ k - 1 \notin C
    BY <1>1, <1>2
<1>4. Pow2[(k - 1) + 1] = 2 * Pow2[k - 1]
    BY <1>3, Pow2Steps
<1>5. (k - 1) + 1 = k
    OBVIOUS
<1> QED BY <1>3, <1>4, <1>5

\* NearestPow2 is a number, and no less than what it is taken of.
LEMMA NearestPow2Above ==
    ASSUME NEW v \in Nat
    PROVE  NearestPow2(v) \in Nat /\ NearestPow2(v) >= v
<1> DEFINE C == {k \in Nat : k <= v /\ Pow2[k] >= v}
<1>1. v \in C
    BY Pow2Grows
<1>2. PICK k \in C : \A j \in C : k <= j
    <2>1. C \subseteq Nat
        OBVIOUS
    <2> HIDE DEF C
    <2> QED BY <1>1, <2>1, LeastNumber
<1>3. \A j \in 0 .. k - 1 : Pow2[j] < v
    <2> SUFFICES ASSUME NEW j \in 0 .. k - 1 PROVE Pow2[j] < v
        OBVIOUS
    <2>1. j \in Nat /\ j \notin C /\ j <= v
        BY <1>2
    <2> QED BY <2>1, Pow2Grows
<1>4. \E i \in 0 .. v : Pow2[i] >= v /\ \A j \in 0 .. i - 1 : Pow2[j] < v
    BY <1>2, <1>3
<1>5. PICK i \in 0 .. v : NearestPow2(v) = Pow2[i] /\ Pow2[i] >= v
    BY <1>4 DEF NearestPow2
<1> QED BY <1>5, Pow2Grows

\* Quotient and remainder.
LEMMA DivMod ==
    ASSUME NEW x \in Int, NEW y \in Nat \ {0}
    PROVE  /\ x \div y \in Int /\ x % y \in 0 .. y - 1
           /\ x = y * (x \div y) + (x % y)
OBVIOUS

\* They are the only ones of their kind.
LEMMA DivModIs ==
    ASSUME NEW x \in Int, NEW y \in Nat \ {0}, NEW q \in Int, NEW r \in 0 .. y - 1, x = y * q + r
    PROVE  x \div y = q /\ x % y = r
<1>1. x = y * (x \div y) + (x % y) /\ x \div y \in Int /\ x % y \in 0 .. y - 1
    BY DivMod
<1> DEFINE d == q - (x \div y)
<1>2. d \in Int /\ y * d = (x % y) - r
    BY <1>1
<1> HIDE DEF d
<1>3. ~(d >= 1)
    <2> SUFFICES ASSUME d >= 1 PROVE FALSE
        OBVIOUS
    <2>1. y * d >= y * 1
        BY <1>2
    <2> QED BY <1>1, <1>2, <2>1
<1>4. ~(d <= -1)
    <2> SUFFICES ASSUME d <= -1 PROVE FALSE
        OBVIOUS
    <2>1. y * d <= y * (-1)
        BY <1>2
    <2> QED BY <1>1, <1>2, <2>1
<1>5. d = 0
    BY <1>2, <1>3, <1>4
<1> QED BY <1>1, <1>2, <1>5 DEF d

\* The blocks that a long advance keeps: enough for all of its bits, and no
\* more.
LEMMA AdvanceBlocksOf ==
    ASSUME NEW n \in Nat \ {0}
    PROVE  /\ AdvanceBlocks(n) \in Nat \ {0}
           /\ n <= AdvanceBlocks(n) * BlockWidth
           /\ (AdvanceBlocks(n) - 1) * BlockWidth < n
           /\ n <= BlockWidth <=> AdvanceBlocks(n) = 1
<1> DEFINE W == BlockWidth
           m == n + W - 1
           b == m \div W
           r == m % W
<1>1. W \in Nat \ {0, 1} /\ m \in Int
    BY PabloConstants
<1>2. /\ b \in Int /\ r \in 0 .. W - 1 /\ m = W * b + r
    <2> HIDE DEF W, m
    <2> QED BY <1>1, DivMod
<1>3. AdvanceBlocks(n) = b
    BY DEF AdvanceBlocks, CeilDiv
<1> HIDE DEF b, r, W
<1>4. W * b >= n /\ W * b - W < n
    BY <1>1, <1>2
<1>5. ~(b <= 0)
    <2> SUFFICES ASSUME b <= 0 PROVE FALSE
        OBVIOUS
    <2>1. W * b <= W * 0
        BY <1>1, <1>2
    <2> QED BY <1>1, <1>2, <1>4, <2>1
<1>6. (b - 1) * W = W * b - W /\ b * W = W * b
    BY <1>1, <1>2
<1>7. b >= 2 => W * b >= W * 2
    BY <1>1, <1>2
<1>8. n <= W <=> b = 1
    <2>1. b = 1 => W * b = W
        BY <1>1
    <2> QED BY <1>1, <1>2, <1>4, <1>5, <1>6, <1>7, <2>1
<1> QED BY <1>2, <1>3, <1>4, <1>5, <1>6, <1>8 DEF W

-----------------------------------------------------------------------------
(* The effect of each kind of instruction.                                 *)

Fields == {"env", "eof", "pack", "long", "selector", "index", "summaries", "pc"}

\* The statement that defines bits, keeps pack and long, and adds out to the
\* summary if it counts.
Effect(s, t, d, bits, pack, long, summaries) ==
    /\ DOMAIN t = DOMAIN s
    /\ t.env = [s.env EXCEPT ![d] = bits]
    /\ t.eof = s.eof /\ t.selector = s.selector /\ t.index = s.index
    /\ t.pack = pack /\ t.long = long /\ t.summaries = summaries
    /\ t.pc = s.pc + 1

Heard(s, bits) == [s.summaries EXCEPT ![Len(s.summaries)] = @ \cup bits]

\* A statement without a carry sets its variable only.
LEMMA BitwiseEffect ==
    ASSUME NEW s, NEW in, DOMAIN s = Fields, in.st[1] \in Bitwise
    PROVE  Effect(s, Execute(s, in), in.st[2], Means(in.st, s.env, Block, s.eof), s.pack, s.long, s.summaries)
<1>1. Execute(s, in) = [Statement(s, in) EXCEPT !.pc = @ + 1]
    BY DEF Execute, Bitwise
<1>2. Statement(s, in) = Define(s, in, Means(in.st, s.env, Block, s.eof))
    BY DEF Statement, Bitwise
<1> QED BY <1>1, <1>2 DEF Define, Effect, Fields

Put(pack, d, n, bits) == [pack EXCEPT ![d] = [@ EXCEPT ![n] = bits]]

CarryPack(s, in, out) == Put(s.pack, in.st[2], 0, out)
CarryHeard(s, in, out) == IF in.summary = "none" THEN s.summaries ELSE Heard(s, out)

\* Storing a carry changes its pack, and the summary of the If around it.
LEMMA CarryOutEffect ==
    ASSUME NEW s, NEW in, NEW out, DOMAIN s = Fields, in.loops = 0
    PROVE  LET t == CarryOut(s, in, out) IN
           /\ DOMAIN t = Fields
           /\ t.pack = CarryPack(s, in, out) /\ t.summaries = CarryHeard(s, in, out)
           /\ t.env = s.env /\ t.eof = s.eof /\ t.long = s.long /\ t.selector = s.selector
           /\ t.index = s.index /\ t.pc = s.pc
BY DEF CarryOut, AddToSummary, CarryPack, Put, CarryHeard, Heard, Fields

Carry(s, in) == s.pack[in.st[2]][0]
Over(bits)   == Shift(bits \ Block, -BlockWidth)

ScanSum(s, in) == Sum[s.env[in.st[3]]][s.env[in.st[4]]][Carry(s, in)]
StarSum(s, in) == Sum[s.env[in.st[3]] \cap s.env[in.st[4]]][s.env[in.st[4]]][Carry(s, in)]

\* ScanThru sets its variable, its carry and the summary around it.
LEMMA ScanEffect ==
    ASSUME NEW s, NEW in, DOMAIN s = Fields, in.loops = 0, in.st[1] = "scan"
    PROVE  LET sum == ScanSum(s, in) IN
           Effect(s, Execute(s, in), in.st[2], (sum \cap Block) \ s.env[in.st[4]],
                  CarryPack(s, in, Over(sum)), s.long, CarryHeard(s, in, Over(sum)))
<1> DEFINE sum == ScanSum(s, in)
           kept == CarryOut(s, in, Over(sum))
<1>1. Execute(s, in) = [Statement(s, in) EXCEPT !.pc = @ + 1]
    BY DEF Execute
<1>2. Statement(s, in) = ScanThru(s, in, s.env[in.st[3]], s.env[in.st[4]])
    BY DEF Statement, Bitwise
<1>3. @ = Define(kept, in, (sum \cap Block) \ s.env[in.st[4]])
    BY DEF ScanThru, AddOut, Over, CarryIn, ReadSide, ScanSum, Carry
<1> HIDE DEF sum, kept
<1>4. Execute(s, in) = [[kept EXCEPT !.env[in.st[2]] = (sum \cap Block) \ s.env[in.st[4]]] EXCEPT !.pc = @ + 1]
    BY <1>1, <1>2, <1>3 DEF Define
<1>5. /\ DOMAIN kept = Fields
      /\ kept.pack = CarryPack(s, in, Over(sum)) /\ kept.summaries = CarryHeard(s, in, Over(sum))
      /\ kept.env = s.env /\ kept.eof = s.eof /\ kept.long = s.long /\ kept.selector = s.selector
      /\ kept.index = s.index /\ kept.pc = s.pc
    BY CarryOutEffect DEF kept
<1>6. Effect(s, Execute(s, in), in.st[2], (sum \cap Block) \ s.env[in.st[4]],
                  CarryPack(s, in, Over(sum)), s.long, CarryHeard(s, in, Over(sum)))
    BY <1>4, <1>5 DEF Effect, Fields
<1> QED BY <1>6 DEF sum

\* So does MatchStar,
LEMMA StarEffect ==
    ASSUME NEW s, NEW in, DOMAIN s = Fields, in.loops = 0, in.st[1] = "star"
    PROVE  LET sum == StarSum(s, in) IN
           Effect(s, Execute(s, in), in.st[2], SymDiff(sum \cap Block, s.env[in.st[4]]) \cup s.env[in.st[3]],
                  CarryPack(s, in, Over(sum)), s.long, CarryHeard(s, in, Over(sum)))
<1> DEFINE sum == StarSum(s, in)
           kept == CarryOut(s, in, Over(sum))
           bits == SymDiff(sum \cap Block, s.env[in.st[4]]) \cup s.env[in.st[3]]
<1>1. Execute(s, in) = [Statement(s, in) EXCEPT !.pc = @ + 1]
    BY DEF Execute
<1>2. Statement(s, in) = MatchStar(s, in, s.env[in.st[3]], s.env[in.st[4]])
    BY DEF Statement, Bitwise
<1>3. @ = Define(kept, in, bits)
    BY DEF MatchStar, AddOut, Over, CarryIn, ReadSide, StarSum, Carry
<1> HIDE DEF sum, kept, bits
<1>4. Execute(s, in) = [[kept EXCEPT !.env[in.st[2]] = bits] EXCEPT !.pc = @ + 1]
    BY <1>1, <1>2, <1>3 DEF Define
<1>5. /\ DOMAIN kept = Fields
      /\ kept.pack = CarryPack(s, in, Over(sum)) /\ kept.summaries = CarryHeard(s, in, Over(sum))
      /\ kept.env = s.env /\ kept.eof = s.eof /\ kept.long = s.long /\ kept.selector = s.selector
      /\ kept.index = s.index /\ kept.pc = s.pc
    BY CarryOutEffect DEF kept
<1>6. Effect(s, Execute(s, in), in.st[2], bits,
                  CarryPack(s, in, Over(sum)), s.long, CarryHeard(s, in, Over(sum)))
    BY <1>4, <1>5 DEF Effect, Fields
<1> QED BY <1>6 DEF sum, bits

\* and a short advance.
LEMMA AdvanceEffect ==
    ASSUME NEW s, NEW in, DOMAIN s = Fields, in.loops = 0, in.st[1] = "adv", ~IsLong(in.st)
    PROVE  LET moved == Shift(s.env[in.st[3]], in.st[4]) IN
           Effect(s, Execute(s, in), in.st[2], (moved \cap Block) \cup Carry(s, in),
                  CarryPack(s, in, Over(moved)), s.long, CarryHeard(s, in, Over(moved)))
<1> DEFINE moved == Shift(s.env[in.st[3]], in.st[4])
           kept == CarryOut(s, in, Over(moved))
           bits == (moved \cap Block) \cup Carry(s, in)
<1>1. Execute(s, in) = [Statement(s, in) EXCEPT !.pc = @ + 1]
    BY DEF Execute
<1>2. Statement(s, in) = Advance(s, in, s.env[in.st[3]])
    BY DEF Statement, Bitwise
<1>3. @ = Define(kept, in, bits)
    BY DEF Advance, Over, CarryIn, ReadSide, Carry
<1> HIDE DEF moved, kept, bits
<1>4. Execute(s, in) = [[kept EXCEPT !.env[in.st[2]] = bits] EXCEPT !.pc = @ + 1]
    BY <1>1, <1>2, <1>3 DEF Define
<1>5. /\ DOMAIN kept = Fields
      /\ kept.pack = CarryPack(s, in, Over(moved)) /\ kept.summaries = CarryHeard(s, in, Over(moved))
      /\ kept.env = s.env /\ kept.eof = s.eof /\ kept.long = s.long /\ kept.selector = s.selector
      /\ kept.index = s.index /\ kept.pc = s.pc
    BY CarryOutEffect DEF kept
<1>6. Effect(s, Execute(s, in), in.st[2], bits,
                  CarryPack(s, in, Over(moved)), s.long, CarryHeard(s, in, Over(moved)))
    BY <1>4, <1>5 DEF Effect, Fields
<1> QED BY <1>6 DEF moved, bits

LongBits(s, in) ==
    (Shift(s.long[in.st[2]], 1) \cup (IF s.env[in.st[3]] = {} THEN {} ELSE {0}))
        \cap 0 .. AdvanceBlocks(in.st[4]) - 1
LongKept(s, in) == IF in.ifs # 0 /\ in.st[4] > BlockWidth THEN [s.long EXCEPT ![in.st[2]] = LongBits(s, in)]
                   ELSE s.long
LongHeard(s, in) ==
    IF in.ifs = 0 THEN s.summaries
    ELSE IF in.st[4] > BlockWidth THEN Heard(s, {b % BlockWidth : b \in LongBits(s, in)})
    ELSE IF in.summary = "explicit" THEN Heard(s, s.env[in.st[3]])
    ELSE s.summaries
LongPack(s, in) ==
    LET n == NearestPow2(AdvanceBlocks(in.st[4])) IN
    Put(s.pack, in.st[2], IF in.st[4] < BlockWidth THEN 0 ELSE s.index % n, s.env[in.st[3]])
LongValue(s, in) ==
    LET pack   == s.pack[in.st[2]]
        blocks == AdvanceBlocks(in.st[4])
        size   == NearestPow2(blocks)
        by     == in.st[4] % BlockWidth
        single == in.st[4] < BlockWidth
        oldest == pack[IF single THEN 0 ELSE (s.index - blocks) % size]
        next   == IF single THEN s.env[in.st[3]] ELSE pack[(s.index - blocks + 1) % size]
    IN  IF by = 0 THEN oldest
        ELSE (Shift(oldest, by - BlockWidth) \cup Shift(next, by)) \cap Block

\* A long advance sets its variable, one block of its buffer, and in an If
\* the record of the blocks that are not empty.
LEMMA LongEffect ==
    ASSUME NEW s, NEW in, DOMAIN s = Fields, in.loops = 0, in.st[1] = "adv", IsLong(in.st)
    PROVE  Effect(s, Execute(s, in), in.st[2], LongValue(s, in),
                  LongPack(s, in), LongKept(s, in), LongHeard(s, in))
<1> DEFINE x == s.env[in.st[3]]
           kept == AdvanceSummary(s, in, x)
           slot == IF in.st[4] < BlockWidth THEN 0 ELSE s.index % NearestPow2(AdvanceBlocks(in.st[4]))
           bits == LongValue(s, in)
<1>1. Execute(s, in) = [Statement(s, in) EXCEPT !.pc = @ + 1]
    BY DEF Execute
<1>2. Statement(s, in) = LongAdvanced(s, in, x)
    BY DEF Statement, Bitwise
<1>3. @ = [[kept EXCEPT !.pack[in.st[2]][slot] = x] EXCEPT !.env[in.st[2]] = bits]
    BY DEF LongAdvanced, LongValue, Define
<1>4. LongPack(s, in) = [s.pack EXCEPT ![in.st[2]] = [@ EXCEPT ![slot] = x]]
    BY DEF LongPack, Put
<1>5. /\ DOMAIN kept = Fields
      /\ kept.pack = s.pack /\ kept.summaries = LongHeard(s, in) /\ kept.long = LongKept(s, in)
      /\ kept.env = s.env /\ kept.eof = s.eof /\ kept.selector = s.selector
      /\ kept.index = s.index /\ kept.pc = s.pc
    BY DEF AdvanceSummary, AddToSummary, LongHeard, LongKept, LongBits, Heard, Fields
<1> HIDE DEF x, kept, slot, bits
<1>6. Execute(s, in) = [[[kept EXCEPT !.pack[in.st[2]][slot] = x] EXCEPT !.env[in.st[2]] = bits] EXCEPT !.pc = @ + 1]
    BY <1>1, <1>2, <1>3
<1>7. Effect(s, Execute(s, in), in.st[2], bits, LongPack(s, in), LongKept(s, in), LongHeard(s, in))
    BY <1>4, <1>5, <1>6 DEF Effect, Fields
<1> QED BY <1>7 DEF bits

\* What an If does when it is entered, skipped, and left.
Entered(s, t) ==
    /\ DOMAIN t = DOMAIN s
    /\ t.env = s.env /\ t.eof = s.eof /\ t.selector = s.selector /\ t.index = s.index
    /\ t.pack = s.pack /\ t.long = s.long
    /\ t.summaries = Append(s.summaries, {}) /\ t.pc = s.pc + 1
Skipped(s, in, t) ==
    /\ DOMAIN t = DOMAIN s
    /\ t.env = s.env /\ t.eof = s.eof /\ t.selector = s.selector /\ t.index = s.index
    /\ t.pack = s.pack /\ t.long = s.long /\ t.summaries = s.summaries
    /\ t.pc = in.to + 1
Summary(s, in) == IF in.own = "none" THEN {} ELSE s.pack[in.from][0]

\* An If is entered or skipped, and changes nothing of the carry data by
\* that.
LEMMA EnterEffect ==
    ASSUME NEW s, NEW in, DOMAIN s = Fields, in.loops = 0, in.st[1] = "if"
    PROVE  IF s.env[in.st[3]] = {} /\ Summary(s, in) = {} THEN Skipped(s, in, Execute(s, in))
           ELSE Entered(s, Execute(s, in))
<1>1. Execute(s, in) = EnterIf(s, in)
    BY DEF Execute
<1>2. SummaryIn(s, in) = Summary(s, in)
    BY DEF SummaryIn, Summary, ReadSide
<1> QED BY <1>1, <1>2 DEF EnterIf, Fields, Entered, Skipped

LeftPack(s, in) == IF in.own # "explicit" THEN s.pack ELSE Put(s.pack, in.st[2], 0, Top(s))
LeftSummaries(s, in) ==
    LET n == Len(s.summaries) IN
    Append(SubSeq(s.summaries, 1, n - 2),
           IF n > 2 /\ in.own # "none" THEN s.summaries[n - 1] \cup Top(s) ELSE s.summaries[n - 1])

\* The end of an If stores its summary and adds it to that around.
LEMMA LeaveEffect ==
    ASSUME NEW s, NEW in, DOMAIN s = Fields, in.loops = 0, in.st[1] = "endif"
    PROVE  LET t == Execute(s, in) IN
           /\ DOMAIN t = Fields
           /\ t.env = s.env /\ t.eof = s.eof /\ t.selector = s.selector /\ t.index = s.index
           /\ t.pack = LeftPack(s, in) /\ t.long = s.long
           /\ t.summaries = LeftSummaries(s, in) /\ t.pc = s.pc + 1
<1> DEFINE stored == IF in.own # "explicit" THEN s
                     ELSE [s EXCEPT !.pack[in.st[2]][0] = Top(s)]
<1>1. Execute(s, in) = [stored EXCEPT !.summaries = LeftSummaries(s, in), !.pc = @ + 1]
    BY DEF Execute, LeaveIf, WriteSide, LeftSummaries
<1>2. /\ DOMAIN stored = Fields
      /\ stored.pack = LeftPack(s, in) /\ stored.long = s.long
      /\ stored.env = s.env /\ stored.eof = s.eof /\ stored.selector = s.selector
      /\ stored.index = s.index /\ stored.pc = s.pc
    BY DEF Fields, LeftPack, Put
<1> HIDE DEF stored
<1> QED BY <1>1, <1>2 DEF Fields

-----------------------------------------------------------------------------
(* Adding blocks: the value of a block, and the carries of an addition.    *)

\* The sums of the first powers of two of a set of bits.
Sums(val, bits, n) ==
    val = [i \in 0 .. n |-> IF i = 0 THEN 0 ELSE val[i - 1] + (IF i - 1 \in bits THEN Pow2[i - 1] ELSE 0)]

\* The value of a block is a sum, defined by its steps.
LEMMA SumsExist ==
    ASSUME NEW bits, NEW n \in Nat
    PROVE  \E val : Sums(val, bits, n)
<1> DEFINE C == {m \in Nat : ~\E f : Sums(f, bits, m)}
<1> SUFFICES ASSUME C # {} PROVE FALSE
    OBVIOUS
<1>1. PICK m \in C : \A k \in C : m <= k
    <2>1. C \subseteq Nat
        OBVIOUS
    <2> HIDE DEF C
    <2> QED BY <2>1, LeastNumber
<1>2. m # 0
    <2>1. Sums([k \in 0 .. 0 |-> 0], bits, 0)
        BY DEF Sums
    <2> QED BY <2>1
<1>3. m - 1 \in Nat /\ m - 1 \notin C
    BY <1>1, <1>2
<1>4. PICK g : Sums(g, bits, m - 1)
    BY <1>3
<1> DEFINE last == g[m - 1] + (IF m - 1 \in bits THEN Pow2[m - 1] ELSE 0)
           f == [k \in 0 .. m |-> IF k = m THEN last ELSE g[k]]
<1>5. Sums(f, bits, m)
    <2> SUFFICES ASSUME NEW k \in 0 .. m
                 PROVE  f[k] = IF k = 0 THEN 0 ELSE f[k - 1] + (IF k - 1 \in bits THEN Pow2[k - 1] ELSE 0)
        BY DEF Sums
    <2>1. CASE k = m
        BY <1>2, <2>1
    <2>2. CASE k # m
        <3>1. k \in 0 .. m - 1 /\ f[k] = g[k]
            BY <2>2
        <3>2. k # 0 => f[k - 1] = g[k - 1]
            BY <3>1
        <3> HIDE DEF f, last
        <3> QED BY <1>4, <3>1, <3>2 DEF Sums
    <2> QED BY <2>1, <2>2
<1> QED BY <1>5

\* val is how Value adds up bits.
AddsUp(val, bits) ==
    /\ Value(bits) = val[BlockWidth + 1] /\ val[0] = 0
    /\ \A i \in 0 .. BlockWidth : val[i + 1] = val[i] + (IF i \in bits THEN Pow2[i] ELSE 0)

\* The value of a block, bit by bit.
LEMMA ValueSteps ==
    ASSUME NEW bits
    PROVE  \E val : AddsUp(val, bits)
<1>0. BlockWidth \in Nat /\ BlockWidth + 1 \in Nat
    BY PabloConstants
<1>1. Value(bits) = (CHOOSE val : Sums(val, bits, BlockWidth + 1))[BlockWidth + 1]
    BY DEF Value, Sums
<1>2. PICK val : val = CHOOSE f : Sums(f, bits, BlockWidth + 1)
    OBVIOUS
<1>3. Sums(val, bits, BlockWidth + 1)
    BY <1>0, <1>2, SumsExist
<1>4. val[0] = 0
    BY <1>0, <1>3 DEF Sums
<1>5. ASSUME NEW i \in 0 .. BlockWidth
      PROVE  val[i + 1] = val[i] + (IF i \in bits THEN Pow2[i] ELSE 0)
    <2>1. i + 1 \in 0 .. BlockWidth + 1 /\ i + 1 # 0 /\ (i + 1) - 1 = i
        BY <1>0
    <2>2. val[i + 1] = val[(i + 1) - 1] + (IF (i + 1) - 1 \in bits THEN Pow2[(i + 1) - 1] ELSE 0)
        BY <1>3, <2>1 DEF Sums
    <2> QED BY <2>1, <2>2
<1> QED BY <1>1, <1>2, <1>4, <1>5 DEF AddsUp

\* The first i bits add up to less than 2^i.
LEMMA BelowPow2 ==
    ASSUME NEW bits, NEW val, AddsUp(val, bits), NEW i \in 0 .. BlockWidth + 1
    PROVE  val[i] \in Nat /\ val[i] < Pow2[i]
<1>0. BlockWidth \in Nat
    BY PabloConstants
<1> DEFINE C == {k \in 0 .. BlockWidth + 1 : ~(val[k] \in Nat /\ val[k] < Pow2[k])}
<1> SUFFICES ASSUME C # {} PROVE FALSE
    OBVIOUS
<1>1. PICK k \in C : \A j \in C : k <= j
    <2>1. C \subseteq Nat
        OBVIOUS
    <2> HIDE DEF C
    <2> QED BY <2>1, LeastNumber
<1>2. k # 0
    BY Pow2Steps DEF AddsUp
<1> DEFINE h == k - 1
<1>3. h \in Nat /\ h \in 0 .. BlockWidth /\ h \notin C /\ h + 1 = k /\ h \in 0 .. BlockWidth + 1
    BY <1>0, <1>1, <1>2
<1>4. val[h] \in Nat /\ val[h] < Pow2[h]
    BY <1>3
<1>5. ~(val[k] \in Nat /\ val[k] < Pow2[k])
    OBVIOUS
<1> HIDE DEF C, h
<1>6. Pow2[k] = 2 * Pow2[h] /\ Pow2[h] \in Nat
    BY <1>3, Pow2Steps, Pow2Grows
<1>7. val[k] = val[h] + (IF h \in bits THEN Pow2[h] ELSE 0)
    BY <1>3 DEF AddsUp
<1> QED BY <1>4, <1>5, <1>6, <1>7

\* Bits are known by what they add up to.
LEMMA ValueIsUnique ==
    ASSUME NEW b, NEW c, b \subseteq 0 .. BlockWidth, c \subseteq 0 .. BlockWidth, Value(b) = Value(c)
    PROVE  b = c
<1>0. BlockWidth \in Nat
    BY PabloConstants
<1>1. PICK u : AddsUp(u, b)
    BY ValueSteps
<1>2. PICK v : AddsUp(v, c)
    BY ValueSteps
<1> DEFINE Same(i) == \A j \in 0 .. i - 1 : j \in b <=> j \in c
           C == {i \in 0 .. BlockWidth + 1 : u[i] = v[i] /\ ~Same(i)}
<1>3. C = {}
    <2> SUFFICES ASSUME C # {} PROVE FALSE
        OBVIOUS
    <2>1. PICK i \in C : \A j \in C : i <= j
        <3>1. C \subseteq Nat
            OBVIOUS
        <3> HIDE DEF C
        <3> QED BY <3>1, LeastNumber
    <2> DEFINE h == i - 1
    <2>2. i # 0
        OBVIOUS
    <2>3. h \in 0 .. BlockWidth /\ h \in Nat /\ h + 1 = i /\ h \in 0 .. BlockWidth + 1 /\ h \notin C
        BY <1>0, <2>1, <2>2
    <2>4. u[i] = v[i] /\ ~Same(i)
        OBVIOUS
    <2>5. u[h] = v[h] => Same(h)
        BY <2>3
    <2> HIDE DEF C, h
    <2>6. /\ u[i] = u[h] + (IF h \in b THEN Pow2[h] ELSE 0)
          /\ v[i] = v[h] + (IF h \in c THEN Pow2[h] ELSE 0)
        BY <1>1, <1>2, <2>3 DEF AddsUp
    <2>7. u[h] \in Nat /\ u[h] < Pow2[h] /\ v[h] \in Nat /\ v[h] < Pow2[h]
        BY <1>1, <1>2, <2>3, BelowPow2
    <2>8. Pow2[h] \in Nat
        BY <2>3, Pow2Grows
    <2>9. (h \in b <=> h \in c) /\ u[h] = v[h]
        <3> HIDE DEF Same
        <3>1. PICK p \in {0, Pow2[h]} : u[i] = u[h] + p /\ (p = Pow2[h] <=> h \in b)
            <4>1. CASE h \in b
                BY <2>6, <4>1
            <4>2. CASE h \notin b
                <5>1. u[i] = u[h] + 0
                    BY <2>6, <4>2
                <5>2. 0 # Pow2[h]
                    BY <2>7, <2>8
                <5> QED BY <4>2, <5>1, <5>2
            <4> QED BY <4>1, <4>2
        <3>2. PICK r \in {0, Pow2[h]} : v[i] = v[h] + r /\ (r = Pow2[h] <=> h \in c)
            <4>1. CASE h \in c
                BY <2>6, <4>1
            <4>2. CASE h \notin c
                <5>1. v[i] = v[h] + 0
                    BY <2>6, <4>2
                <5>2. 0 # Pow2[h]
                    BY <2>7, <2>8
                <5> QED BY <4>2, <5>1, <5>2
            <4> QED BY <4>1, <4>2
        <3>3. u[h] + p = v[h] + r
            BY <2>4, <3>1, <3>2
        <3>4. p = r /\ u[h] = v[h]
            BY <2>7, <2>8, <3>3
        <3> QED BY <3>1, <3>2, <3>4
    <2>10. Same(i)
        <3>1. \A j \in 0 .. i - 1 : j = h \/ j \in 0 .. h - 1
            BY <2>3
        <3> QED BY <2>5, <2>9, <3>1
    <2> QED BY <2>4, <2>10
<1>4. u[BlockWidth + 1] = v[BlockWidth + 1]
    BY <1>1, <1>2 DEF AddsUp
<1>5. Same(BlockWidth + 1)
    BY <1>0, <1>3, <1>4
<1>6. \A j \in 0 .. BlockWidth : j \in b <=> j \in c
    BY <1>0, <1>5
<1> QED BY <1>6

\* The carry into bit i when x, y and the carry are added.
CarryTo(x, y, carry, i) ==
    \/ CarryInto(x, y, i)
    \/ carry # {} /\ \A r \in 0 .. i - 1 : r \in x \cup y

\* The carry into a bit, from that into the bit before.
LEMMA CarryStep ==
    ASSUME NEW x, NEW y, NEW carry, NEW i \in Nat, x \subseteq Nat
    PROVE  CarryTo(x, y, carry, i + 1)
              <=> (i \in x /\ i \in y) \/ ((i \in x \/ i \in y) /\ CarryTo(x, y, carry, i))
<1>1. CarryInto(x, y, i + 1) <=> (i \in x /\ i \in y) \/ ((i \in x \/ i \in y) /\ CarryInto(x, y, i))
    <2>1. ASSUME NEW q \in x \cap y, q < i + 1, \A r \in q + 1 .. (i + 1) - 1 : r \in x \cup y
          PROVE  (i \in x /\ i \in y) \/ ((i \in x \/ i \in y) /\ CarryInto(x, y, i))
        <3>1. CASE q = i
            BY <3>1
        <3>2. CASE q # i
            <4>1. q < i /\ i \in q + 1 .. (i + 1) - 1
                BY <2>1, <3>2
            <4>2. \A r \in q + 1 .. i - 1 : r \in q + 1 .. (i + 1) - 1
                BY <2>1
            <4> QED BY <2>1, <4>1, <4>2 DEF CarryInto
        <3> QED BY <3>1, <3>2
    <2>2. ASSUME i \in x, i \in y
          PROVE  CarryInto(x, y, i + 1)
        <3>1. i \in x \cap y /\ i < i + 1 /\ i + 1 .. (i + 1) - 1 = {}
            BY <2>2
        <3> QED BY <3>1 DEF CarryInto
    <2>3. ASSUME i \in x \/ i \in y, CarryInto(x, y, i)
          PROVE  CarryInto(x, y, i + 1)
        <3>1. PICK q \in x \cap y : q < i /\ \A r \in q + 1 .. i - 1 : r \in x \cup y
            BY <2>3 DEF CarryInto
        <3>2. \A r \in q + 1 .. (i + 1) - 1 : r = i \/ r \in q + 1 .. i - 1
            OBVIOUS
        <3>3. \A r \in q + 1 .. (i + 1) - 1 : r \in x \cup y
            BY <2>3, <3>1, <3>2
        <3>4. q < i + 1
            BY <3>1
        <3> QED BY <3>3, <3>4 DEF CarryInto
    <2> QED BY <2>1, <2>2, <2>3 DEF CarryInto
<1>2. (\A r \in 0 .. (i + 1) - 1 : r \in x \cup y)
          <=> (i \in x \/ i \in y) /\ \A r \in 0 .. i - 1 : r \in x \cup y
    <2>1. 0 .. (i + 1) - 1 = (0 .. i - 1) \cup {i}
        OBVIOUS
    <2> QED BY <2>1
<1> QED BY <1>1, <1>2 DEF CarryTo

-----------------------------------------------------------------------------
(* The sum of two blocks.                                                  *)

Lookahead(x, y, carry) == {i \in 0 .. BlockWidth : (i \in x <=> i \in y) <=> CarryTo(x, y, carry, i)}

\* What has been added up at bit i, the carry included.
SumsTo(u, v, w, x, y, carry, i) ==
    u[i] + v[i] + (IF carry = {} THEN 0 ELSE 1)
        = w[i] + (IF CarryTo(x, y, carry, i) THEN Pow2[i] ELSE 0)

\* The bits of two numbers and a carry add up to the bit and the carry that
\* CarryTo makes of them.
LEMMA FullAdder ==
    ASSUME NEW x, NEW y, NEW carry, NEW i \in 0 .. BlockWidth, x \subseteq Block, y \subseteq Block,
           NEW u, NEW v, NEW w, AddsUp(u, x), AddsUp(v, y), AddsUp(w, Lookahead(x, y, carry)),
           SumsTo(u, v, w, x, y, carry, i)
    PROVE  SumsTo(u, v, w, x, y, carry, i + 1)
<1> DEFINE R == Lookahead(x, y, carry)
           p == Pow2[i]
           c == IF carry = {} THEN 0 ELSE 1
           In == CarryTo(x, y, carry, i)
           Out == CarryTo(x, y, carry, i + 1)
<1>0. BlockWidth \in Nat /\ i \in 0 .. BlockWidth + 1 /\ i \in Nat /\ x \subseteq Nat
    BY PabloConstants DEF Block
<1>1. p \in Nat /\ Pow2[i + 1] = 2 * p
    BY <1>0, Pow2Grows, Pow2Steps
<1>2. u[i] \in Nat /\ v[i] \in Nat /\ w[i] \in Nat
    BY <1>0, BelowPow2
<1>3. /\ u[i + 1] = u[i] + (IF i \in x THEN p ELSE 0)
      /\ v[i + 1] = v[i] + (IF i \in y THEN p ELSE 0)
      /\ w[i + 1] = w[i] + (IF i \in R THEN p ELSE 0)
    BY DEF AddsUp
<1>4. Out <=> (i \in x /\ i \in y) \/ ((i \in x \/ i \in y) /\ In)
    BY <1>0, CarryStep
<1>5. i \in R <=> ((i \in x <=> i \in y) <=> In)
    BY DEF Lookahead
<1>6. /\ In => u[i] + v[i] + c = w[i] + p
      /\ ~In => u[i] + v[i] + c = w[i] + 0
    BY DEF SumsTo
<1>7. c \in Nat
    OBVIOUS
<1>8. SumsTo(u, v, w, x, y, carry, i + 1)
          <=> u[i + 1] + v[i + 1] + c = w[i + 1] + (IF Out THEN Pow2[i + 1] ELSE 0)
    BY DEF SumsTo
<1> HIDE DEF R, p, c, In, Out
<1>9. CASE i \in x /\ i \in y
    <2>1. u[i + 1] = u[i] + p /\ v[i + 1] = v[i] + p /\ Out
        BY <1>3, <1>4, <1>9
    <2>2. CASE In
        <3>1. w[i + 1] = w[i] + p
            BY <1>3, <1>5, <1>9, <2>2
        <3> QED BY <1>1, <1>2, <1>6, <1>7, <1>8, <2>1, <2>2, <3>1
    <2>3. CASE ~In
        <3>1. w[i + 1] = w[i] + 0
            BY <1>3, <1>5, <1>9, <2>3
        <3> QED BY <1>1, <1>2, <1>6, <1>7, <1>8, <2>1, <2>3, <3>1
    <2> QED BY <2>2, <2>3
<1>10. CASE i \notin x /\ i \notin y
    <2>1. u[i + 1] = u[i] + 0 /\ v[i + 1] = v[i] + 0 /\ ~Out
        BY <1>3, <1>4, <1>10
    <2>2. CASE In
        <3>1. w[i + 1] = w[i] + p
            BY <1>3, <1>5, <1>10, <2>2
        <3> QED BY <1>1, <1>2, <1>6, <1>7, <1>8, <2>1, <2>2, <3>1
    <2>3. CASE ~In
        <3>1. w[i + 1] = w[i] + 0
            BY <1>3, <1>5, <1>10, <2>3
        <3> QED BY <1>1, <1>2, <1>6, <1>7, <1>8, <2>1, <2>3, <3>1
    <2> QED BY <2>2, <2>3
<1>11. CASE ~(i \in x <=> i \in y)
    <2>1. u[i + 1] + v[i + 1] = u[i] + v[i] + p
        <3>1. CASE i \in x /\ i \notin y
            <4>1. u[i + 1] = u[i] + p /\ v[i + 1] = v[i] + 0
                BY <1>3, <3>1
            <4> QED BY <1>1, <1>2, <4>1
        <3>2. CASE i \notin x /\ i \in y
            <4>1. u[i + 1] = u[i] + 0 /\ v[i + 1] = v[i] + p
                BY <1>3, <3>2
            <4> QED BY <1>1, <1>2, <4>1
        <3> QED BY <1>11, <3>1, <3>2
    <2>2. CASE In
        <3>1. w[i + 1] = w[i] + 0 /\ Out
            BY <1>3, <1>4, <1>5, <1>11, <2>2
        <3> QED BY <1>1, <1>2, <1>6, <1>7, <1>8, <2>1, <2>2, <3>1
    <2>3. CASE ~In
        <3>1. w[i + 1] = w[i] + p /\ ~Out
            BY <1>3, <1>4, <1>5, <1>11, <2>3
        <3> QED BY <1>1, <1>2, <1>6, <1>7, <1>8, <2>1, <2>3, <3>1
    <2> QED BY <2>2, <2>3
<1> QED BY <1>9, <1>10, <1>11

\* The value of a carry into a block.
LEMMA ValueOfCarry ==
    Value({}) = 0 /\ Value({0}) = 1
<1>0. BlockWidth \in Nat /\ BlockWidth + 1 \in Nat /\ BlockWidth + 1 # 0
    BY PabloConstants
<1> DEFINE n(bits) == IF bits = {} THEN 0 ELSE 1
<1>1. ASSUME NEW bits \in {{}, {0}}
      PROVE  Value(bits) = n(bits)
    <2>1. PICK u : AddsUp(u, bits)
        BY ValueSteps
    <2> DEFINE C == {i \in 0 .. BlockWidth + 1 : i # 0 /\ u[i] # n(bits)}
    <2>2. C = {}
        <3> SUFFICES ASSUME C # {} PROVE FALSE
            OBVIOUS
        <3>1. PICK i \in C : \A j \in C : i <= j
            <4>1. C \subseteq Nat
                OBVIOUS
            <4> HIDE DEF C
            <4> QED BY <4>1, LeastNumber
        <3> DEFINE h == i - 1
        <3>2. h \in 0 .. BlockWidth /\ h \in 0 .. BlockWidth + 1 /\ h + 1 = i /\ h \notin C /\ u[i] # n(bits)
            BY <1>0, <3>1
        <3>3. h = 0 \/ u[h] = n(bits)
            BY <3>2
        <3> HIDE DEF C, h
        <3>4. u[i] = u[h] + (IF h \in bits THEN Pow2[h] ELSE 0)
            BY <2>1, <3>2 DEF AddsUp
        <3>5. CASE h = 0
            <4>1. u[h] = 0 /\ Pow2[h] = 1
                BY <2>1, <3>5, Pow2Steps DEF AddsUp
            <4> QED BY <3>2, <3>4, <3>5, <4>1
        <3>6. CASE h # 0
            <4>1. u[h] = n(bits) /\ h \notin bits
                BY <3>3, <3>6
            <4> QED BY <3>2, <3>4, <4>1
        <3> QED BY <3>5, <3>6
    <2>3. u[BlockWidth + 1] = n(bits)
        BY <1>0, <2>2
    <2> HIDE DEF n, C
    <2> QED BY <2>1, <2>3 DEF AddsUp
<1> QED BY <1>1

\* The addition of two blocks, by carry look-ahead.
THEOREM SumIsLookahead ==
    ASSUME NEW x \in SUBSET Block, NEW y \in SUBSET Block, NEW carry \in {{}, {0}}
    PROVE  Sum[x][y][carry] = Lookahead(x, y, carry)
<1> DEFINE R == Lookahead(x, y, carry)
           c == IF carry = {} THEN 0 ELSE 1
<1>0. BlockWidth \in Nat /\ BlockWidth + 1 \in 0 .. BlockWidth + 1
    BY PabloConstants
<1>1. PICK u : AddsUp(u, x)
    BY ValueSteps
<1>2. PICK v : AddsUp(v, y)
    BY ValueSteps
<1>3. PICK w : AddsUp(w, R)
    BY ValueSteps
<1>4. SumsTo(u, v, w, x, y, carry, 0)
    <2>1. ~CarryInto(x, y, 0)
        BY DEF CarryInto, Block
    <2>2. CarryTo(x, y, carry, 0) <=> carry # {}
        BY <2>1 DEF CarryTo
    <2>3. u[0] = 0 /\ v[0] = 0 /\ w[0] = 0 /\ Pow2[0] = 1
        BY <1>1, <1>2, <1>3, Pow2Steps DEF AddsUp
    <2>4. CASE carry = {}
        BY <2>2, <2>3, <2>4 DEF SumsTo
    <2>5. CASE carry # {}
        BY <2>2, <2>3, <2>5 DEF SumsTo
    <2> QED BY <2>4, <2>5
<1> DEFINE C == {i \in 0 .. BlockWidth + 1 : ~SumsTo(u, v, w, x, y, carry, i)}
<1>5. C = {}
    <2> SUFFICES ASSUME C # {} PROVE FALSE
        OBVIOUS
    <2>1. PICK i \in C : \A j \in C : i <= j
        <3>1. C \subseteq Nat
            OBVIOUS
        <3> HIDE DEF C
        <3> QED BY <3>1, LeastNumber
    <2> DEFINE h == i - 1
    <2>2. i # 0
        BY <1>4
    <2>3. h \in 0 .. BlockWidth /\ h \in 0 .. BlockWidth + 1 /\ h + 1 = i /\ h \notin C /\ ~SumsTo(u, v, w, x, y, carry, i)
        BY <1>0, <2>1, <2>2
    <2>4. SumsTo(u, v, w, x, y, carry, h)
        BY <2>3
    <2> HIDE DEF C, h, R
    <2> QED BY <1>1, <1>2, <1>3, <2>3, <2>4, FullAdder DEF R
<1>6. SumsTo(u, v, w, x, y, carry, BlockWidth + 1)
    BY <1>0, <1>5
<1>7. ~CarryTo(x, y, carry, BlockWidth + 1)
    <2>1. BlockWidth \notin x /\ BlockWidth \notin y /\ x \subseteq Nat
        BY <1>0 DEF Block
    <2> QED BY <1>0, <2>1, CarryStep
<1> HIDE DEF C, R
<1>8. Value(x) + Value(y) + c = Value(R)
    <2>1. /\ u[BlockWidth + 1] \in Nat /\ v[BlockWidth + 1] \in Nat /\ w[BlockWidth + 1] \in Nat
        BY <1>0, <1>1, <1>2, <1>3, BelowPow2
    <2>2. u[BlockWidth + 1] + v[BlockWidth + 1] + c = w[BlockWidth + 1] + 0
        BY <1>6, <1>7 DEF SumsTo
    <2> QED BY <1>1, <1>2, <1>3, <2>1, <2>2 DEF AddsUp
<1>9. Value(carry) = c
    BY ValueOfCarry
<1>10. Sum[x][y][carry] = CHOOSE bits \in SUBSET (0 .. BlockWidth) : Value(bits) = Value(x) + Value(y) + Value(carry)
    BY DEF Sum
<1>11. R \in SUBSET (0 .. BlockWidth) /\ Value(R) = Value(x) + Value(y) + Value(carry)
    BY <1>8, <1>9 DEF R, Lookahead
<1>12. /\ Sum[x][y][carry] \in SUBSET (0 .. BlockWidth)
       /\ Value(Sum[x][y][carry]) = Value(R)
    BY <1>10, <1>11
<1>13. Sum[x][y][carry] = R
    BY <1>11, <1>12, ValueIsUnique
<1> QED BY <1>13 DEF R

-----------------------------------------------------------------------------
(* What code and its machine are.                                          *)

PackOK(code, pack) ==
    /\ DOMAIN pack = Places(code)
    /\ \A i \in DOMAIN code : Keeps(code[i]) =>
          /\ DOMAIN pack[code[i].st[2]] = 0 .. PackSize(code[i].st) - 1
          /\ \A n \in 0 .. PackSize(code[i].st) - 1 : pack[code[i].st[2]][n] \subseteq Block
          /\ code[i].st[1] \in {"scan", "star"} => pack[code[i].st[2]][0] \in {{}, {0}}
LongOK(code, long) ==
    \A i \in DOMAIN code : IsLong(code[i].st) =>
        /\ code[i].st[2] \in DOMAIN long
        /\ long[code[i].st[2]] \subseteq 0 .. AdvanceBlocks(code[i].st[4]) - 1
DataOK(code, data) ==
    /\ PackOK(code, data.pack) /\ LongOK(code, data.long)
    /\ data.selector = 0 /\ data.index \in Nat
MachineOK(code, s) ==
    /\ DOMAIN s = Fields
    /\ DataOK(code, s)
    /\ DOMAIN s.env = Inputs(code) \cup Defined(code)
    /\ \A v \in DOMAIN s.env : s.env[v] \subseteq Block
    /\ s.eof \subseteq Block
    /\ s.summaries \in Seq(SUBSET Block)
    /\ s.pc \in 1 .. Len(code) + 1
    /\ Len(s.summaries) = 1 + Depth(code, s.pc - 1)

\* What is in scope is a variable of the code.
LEMMA InScopeIsVariable ==
    ASSUME NEW code, IsCode(code), NEW i \in 0 .. Len(code)
    PROVE  InScope(code, i) \subseteq Inputs(code) \cup Defined(code)
BY DEF InScope, Defined, IsCode

\* So are the operands of an instruction and what it defines.
LEMMA OperandIsVariable ==
    ASSUME NEW code, IsCode(code), NEW i \in DOMAIN code
    PROVE  /\ Operands(code[i].st) \subseteq Inputs(code) \cup Defined(code)
           /\ code[i].st[2] \in Defined(code)
           /\ i \in 1 .. Len(code) /\ i - 1 \in 0 .. Len(code) /\ Len(code) \in Nat
<1>1. i \in 1 .. Len(code) /\ i - 1 \in 0 .. Len(code) /\ Len(code) \in Nat
    BY DEF IsCode
<1>2. Operands(code[i].st) \subseteq InScope(code, i - 1)
    BY DEF IsCode
<1>3. InScope(code, i - 1) \subseteq Inputs(code) \cup Defined(code)
    BY <1>1, InScopeIsVariable
<1> QED BY <1>1, <1>2, <1>3 DEF Defined

\* The number of Ifs around an instruction, from that around the one before.
LEMMA DepthIs ==
    ASSUME NEW code, WellFormed(code), NEW i \in DOMAIN code
    PROVE  /\ Depth(code, i) \in Nat /\ Depth(code, i - 1) \in Nat
           /\ code[i].ifs \in Nat
           /\ code[i].st[1] \notin {"if", "endif"} => Depth(code, i) = Depth(code, i - 1)
           /\ code[i].st[1] = "if" => Depth(code, i) = Depth(code, i - 1) + 1 /\ code[i].ifs = Depth(code, i - 1)
           /\ code[i].st[1] = "endif" => Depth(code, i) = Depth(code, i - 1) - 1 /\ code[i].ifs = Depth(code, i)
<1>1. i \in Nat /\ i # 0
    BY DEF WellFormed, IsCode
<1>2. code[i].ifs \in Nat /\ code[i].ifs = Depth(code, i - 1) - (IF code[i].st[1] = "endif" THEN 1 ELSE 0)
    BY DEF WellFormed, IsCode, Nested
<1>3. Depth(code, i) = code[i].ifs + (IF code[i].st[1] = "if" THEN 1 ELSE 0)
    BY <1>1 DEF Depth
<1>4. Depth(code, i - 1) \in Nat
    <2>1. i - 1 # 0 => i - 1 \in DOMAIN code
        BY <1>1 DEF WellFormed, IsCode
    <2>2. i - 1 # 0 => code[i - 1].ifs \in Nat
        BY <2>1 DEF WellFormed, IsCode
    <2> QED BY <2>2 DEF Depth
<1>5. CASE code[i].st[1] = "if"
    BY <1>2, <1>3, <1>4, <1>5
<1>6. CASE code[i].st[1] = "endif"
    BY <1>2, <1>3, <1>4, <1>6
<1>7. CASE code[i].st[1] \notin {"if", "endif"}
    BY <1>2, <1>3, <1>4, <1>7
<1> QED BY <1>5, <1>6, <1>7

\* A pack has a slot, and one for every block that a long advance keeps.
LEMMA PackSizeIs ==
    ASSUME NEW code, IsCode(code), NEW i \in DOMAIN code
    PROVE  /\ PackSize(code[i].st) \in Nat \ {0}
           /\ IsLong(code[i].st) => /\ PackSize(code[i].st) = NearestPow2(AdvanceBlocks(code[i].st[4]))
                                    /\ PackSize(code[i].st) >= AdvanceBlocks(code[i].st[4])
                                    /\ AdvanceBlocks(code[i].st[4]) \in Nat \ {0}
                                    /\ code[i].st[4] \in Nat \ {0}
<1>1. CASE IsLong(code[i].st)
    <2>1. code[i].st[4] \in Nat \ {0}
        BY <1>1 DEF IsLong, IsCode
    <2>2. AdvanceBlocks(code[i].st[4]) \in Nat \ {0}
        BY <2>1, AdvanceBlocksOf
    <2>3. /\ NearestPow2(AdvanceBlocks(code[i].st[4])) \in Nat
          /\ NearestPow2(AdvanceBlocks(code[i].st[4])) >= AdvanceBlocks(code[i].st[4])
        BY <2>2, NearestPow2Above
    <2> QED BY <1>1, <2>1, <2>2, <2>3 DEF PackSize
<1>2. CASE ~IsLong(code[i].st)
    BY <1>2 DEF PackSize
<1> QED BY <1>1, <1>2

\* Adding to the summary of the innermost If leaves the others.
LEMMA HeardIs ==
    ASSUME NEW s, NEW bits, s.summaries \in Seq(SUBSET Block), Len(s.summaries) > 0, bits \subseteq Block
    PROVE  /\ Heard(s, bits) \in Seq(SUBSET Block) /\ Len(Heard(s, bits)) = Len(s.summaries)
           /\ Len(s.summaries) \in Nat
           /\ \A l \in 1 .. Len(s.summaries) :
                Heard(s, bits)[l] = IF l = Len(s.summaries) THEN s.summaries[l] \cup bits ELSE s.summaries[l]
<1> DEFINE q == s.summaries
           n == Len(q)
           e == q[n] \cup bits
<1>1. n \in DOMAIN q /\ n \in Nat /\ DOMAIN q = 1 .. n /\ q \in [1 .. n -> SUBSET Block]
    OBVIOUS
<1>2. e \in SUBSET Block
    BY <1>1
<1>3. Heard(s, bits) = [q EXCEPT ![n] = e]
    BY DEF Heard
<1> HIDE DEF q, e, n
<1>4. [q EXCEPT ![n] = e] \in [1 .. n -> SUBSET Block]
    BY <1>1, <1>2
<1>5. [q EXCEPT ![n] = e] \in Seq(SUBSET Block) /\ Len([q EXCEPT ![n] = e]) = n
    BY <1>1, <1>4
<1>6. \A l \in 1 .. n : [q EXCEPT ![n] = e][l] = IF l = n THEN e ELSE q[l]
    BY <1>1
<1> QED BY <1>1, <1>3, <1>5, <1>6 DEF q, n, e

\* A statement whose effect is typed leaves the machine typed.
LEMMA EffectTyped ==
    ASSUME NEW code, WellFormed(code), NEW s, MachineOK(code, s), s.pc \in DOMAIN code,
           code[s.pc].st[1] \notin {"if", "endif"},
           NEW t, NEW bits, NEW pack, NEW long, NEW summaries,
           Effect(s, t, code[s.pc].st[2], bits, pack, long, summaries),
           bits \subseteq Block, PackOK(code, pack), LongOK(code, long),
           summaries \in Seq(SUBSET Block), Len(summaries) = Len(s.summaries)
    PROVE  MachineOK(code, t) /\ t.pc = s.pc + 1
<1> DEFINE d == code[s.pc].st[2]
<1>1. d \in Defined(code) /\ s.pc \in 1 .. Len(code) /\ Len(code) \in Nat
    BY OperandIsVariable DEF WellFormed
<1>2. Depth(code, s.pc) = Depth(code, s.pc - 1)
    BY DepthIs
<1>3. t.env = [s.env EXCEPT ![d] = bits]
    BY DEF Effect
<1>4. DOMAIN t.env = Inputs(code) \cup Defined(code)
    BY <1>3 DEF MachineOK
<1>5. \A v \in DOMAIN t.env : t.env[v] \subseteq Block
    BY <1>3 DEF MachineOK
<1>6. t.pc = s.pc + 1 /\ t.pc - 1 = s.pc /\ t.pc \in 1 .. Len(code) + 1
    BY <1>1 DEF Effect
<1>7. DataOK(code, t)
    BY DEF Effect, DataOK, MachineOK
<1> HIDE DEF d
<1> QED BY <1>2, <1>4, <1>5, <1>6, <1>7 DEF Effect, MachineOK

\* Storing in one pack leaves the others.
LEMMA PackPut ==
    ASSUME NEW code, WellFormed(code), NEW pack, PackOK(code, pack),
           NEW i \in DOMAIN code, Keeps(code[i]), NEW n \in 0 .. PackSize(code[i].st) - 1,
           NEW bits, bits \subseteq Block, code[i].st[1] \in {"scan", "star"} => bits \in {{}, {0}}
    PROVE  LET p == Put(pack, code[i].st[2], n, bits) IN
           /\ PackOK(code, p)
           /\ p[code[i].st[2]] = [pack[code[i].st[2]] EXCEPT ![n] = bits]
           /\ \A m \in 0 .. PackSize(code[i].st) - 1 :
                p[code[i].st[2]][m] = IF m = n THEN bits ELSE pack[code[i].st[2]][m]
           /\ \A j \in DOMAIN code : Keeps(code[j]) /\ j # i => p[code[j].st[2]] = pack[code[j].st[2]]
<1> DEFINE d == code[i].st[2]
           p == Put(pack, d, n, bits)
           size == PackSize(code[i].st)
<1>1. d \in DOMAIN pack
    BY DEF PackOK, Places
<1>2. p[d] = [pack[d] EXCEPT ![n] = bits] /\ DOMAIN p = DOMAIN pack
    BY <1>1 DEF Put
<1>3. DOMAIN pack[d] = 0 .. size - 1
    BY DEF PackOK
<1>4. DOMAIN p[d] = 0 .. size - 1 /\ \A m \in 0 .. size - 1 : p[d][m] = IF m = n THEN bits ELSE pack[d][m]
    BY <1>2, <1>3
<1>5. \A j \in DOMAIN code : Keeps(code[j]) /\ j # i => code[j].st[2] # d
    BY DEF WellFormed, UniquePlaces
<1>6. \A j \in DOMAIN code : Keeps(code[j]) /\ j # i => p[code[j].st[2]] = pack[code[j].st[2]]
    <2> SUFFICES ASSUME NEW j \in DOMAIN code, Keeps(code[j]), j # i
                 PROVE  p[code[j].st[2]] = pack[code[j].st[2]]
        OBVIOUS
    <2>1. code[j].st[2] \in DOMAIN pack /\ code[j].st[2] # d
        BY <1>5 DEF PackOK, Places
    <2> HIDE DEF d
    <2> QED BY <2>1 DEF Put
<1> HIDE DEF p, d
<1>7. PackOK(code, p)
    <2> SUFFICES ASSUME NEW j \in DOMAIN code, Keeps(code[j])
                 PROVE  /\ DOMAIN p[code[j].st[2]] = 0 .. PackSize(code[j].st) - 1
                        /\ \A m \in 0 .. PackSize(code[j].st) - 1 : p[code[j].st[2]][m] \subseteq Block
                        /\ code[j].st[1] \in {"scan", "star"} => p[code[j].st[2]][0] \in {{}, {0}}
        BY <1>2 DEF PackOK
    <2>1. CASE j # i
        <3>1. p[code[j].st[2]] = pack[code[j].st[2]]
            BY <1>6, <2>1
        <3> QED BY <3>1 DEF PackOK
    <2>2. CASE j = i
        <3>1. code[j].st[2] = d
            BY <2>2 DEF d
        <3>2. \A m \in 0 .. size - 1 : pack[d][m] \subseteq Block
            BY DEF PackOK, d
        <3>3. code[i].st[1] \in {"scan", "star"} => pack[d][0] \in {{}, {0}} /\ size = 2
            BY DEF PackOK, d, PackSize, IsLong
        <3>4. code[i].st[1] \in {"scan", "star"} => p[d][0] \in {{}, {0}}
            BY <1>4, <3>3
        <3> QED BY <1>4, <2>2, <3>1, <3>2, <3>4
    <2> QED BY <2>1, <2>2
<1> QED BY <1>2, <1>4, <1>6, <1>7 DEF p, d

\* Storing a block in a slot leaves the packs typed.
LEMMA PackPutOK ==
    ASSUME NEW code, WellFormed(code), NEW pack, PackOK(code, pack),
           NEW i \in DOMAIN code, Keeps(code[i]), NEW n \in 0 .. PackSize(code[i].st) - 1,
           NEW bits \in SUBSET Block, code[i].st[1] \in {"scan", "star"} => bits \in {{}, {0}}
    PROVE  PackOK(code, Put(pack, code[i].st[2], n, bits))
BY PackPut

\* The carry out of a sum is at most one bit.
LEMMA OverIs ==
    ASSUME NEW x \in SUBSET Block, NEW y \in SUBSET Block, NEW carry \in {{}, {0}}
    PROVE  Over(Sum[x][y][carry]) = IF CarryTo(x, y, carry, BlockWidth) THEN {0} ELSE {}
<1> DEFINE R == Lookahead(x, y, carry)
<1>0. BlockWidth \in Nat /\ BlockWidth # 0
    BY PabloConstants
<1>1. Sum[x][y][carry] = R
    BY SumIsLookahead
<1>2. 0 .. BlockWidth = Block \cup {BlockWidth} /\ BlockWidth \notin Block /\ Block \subseteq Int
    BY <1>0 DEF Block
<1>3. BlockWidth \notin x /\ BlockWidth \notin y
    BY <1>2
<1>4. BlockWidth \in R <=> CarryTo(x, y, carry, BlockWidth)
    BY <1>2, <1>3 DEF Lookahead
<1>5. R \ Block = IF BlockWidth \in R THEN {BlockWidth} ELSE {}
    BY <1>2 DEF Lookahead
<1>6. Shift({BlockWidth}, -BlockWidth) = {0} /\ Shift({}, -BlockWidth) = {}
    BY <1>0 DEF Shift
<1> HIDE DEF R
<1>7. Over(R) = IF CarryTo(x, y, carry, BlockWidth) THEN {0} ELSE {}
    BY <1>4, <1>5, <1>6 DEF Over
<1> QED BY <1>1, <1>7

\* The other bits of a sum.
BitOfSum(sum, x, y, carry, i) == i \in sum <=> ((i \in x <=> i \in y) <=> CarryTo(x, y, carry, i))

\* Every bit of a sum is that of the two blocks and the carry into it.
LEMMA SumBits ==
    ASSUME NEW x \in SUBSET Block, NEW y \in SUBSET Block, NEW carry \in {{}, {0}}, NEW i \in Block
    PROVE  BitOfSum(Sum[x][y][carry], x, y, carry, i)
<1>1. Sum[x][y][carry] = Lookahead(x, y, carry)
    BY SumIsLookahead
<1>2. i \in 0 .. BlockWidth
    BY PabloConstants DEF Block
<1> QED BY <1>1, <1>2 DEF Lookahead, BitOfSum

\* A carry out is a carry in.
LEMMA OverIsCarry ==
    ASSUME NEW x \in SUBSET Block, NEW y \in SUBSET Block, NEW carry \in {{}, {0}}
    PROVE  Over(Sum[x][y][carry]) \in {{}, {0}}
BY OverIs

\* A block has a first position.
LEMMA ZeroInBlock == 0 \in Block /\ {0} \subseteq Block
BY PabloConstants DEF Block

\* The pack, the carry and the summaries after a carry is stored.
LEMMA CarryTyped ==
    ASSUME NEW code, WellFormed(code), NEW s, MachineOK(code, s), s.pc \in DOMAIN code,
           s.pc \in Carrying(code), ~IsLong(code[s.pc].st), NEW out, out \subseteq Block,
           code[s.pc].st[1] \in {"scan", "star"} => out \in {{}, {0}}
    PROVE  /\ PackOK(code, CarryPack(s, code[s.pc], out))
           /\ CarryHeard(s, code[s.pc], out) \in Seq(SUBSET Block)
           /\ Len(CarryHeard(s, code[s.pc], out)) = Len(s.summaries)
<1>1. Keeps(code[s.pc]) /\ PackSize(code[s.pc].st) = 2
    BY DEF Keeps, Carrying, PackSize
<1>2. PackOK(code, CarryPack(s, code[s.pc], out))
    <2>1. 0 \in 0 .. PackSize(code[s.pc].st) - 1
        BY <1>1
    <2>2. PackOK(code, s.pack)
        BY DEF MachineOK, DataOK
    <2> QED BY <1>1, <2>1, <2>2, PackPut DEF CarryPack
<1>3. Len(s.summaries) > 0 /\ s.summaries \in Seq(SUBSET Block)
    BY DepthIs DEF MachineOK
<1>4. CarryHeard(s, code[s.pc], out) \in Seq(SUBSET Block) /\ Len(CarryHeard(s, code[s.pc], out)) = Len(s.summaries)
    BY <1>3, HeardIs DEF CarryHeard
<1> QED BY <1>2, <1>4

\* What needs no carry makes a block of blocks.
LEMMA BitwiseInBlock ==
    ASSUME NEW st, NEW env, NEW eof, NEW all, st[1] \in Bitwise,
           \A v \in Operands(st) : env[v] \subseteq all
    PROVE  Means(st, env, all, eof) \subseteq all
<1>1. st[1] \in {"set", "not", "eof"} => env[st[3]] \subseteq all
    BY DEF Operands
<1>2. st[1] \in {"and", "or", "xor"} => env[st[3]] \subseteq all /\ env[st[4]] \subseteq all
    BY DEF Operands
<1>3. SymDiff(env[st[3]], env[st[4]]) \subseteq env[st[3]] \cup env[st[4]]
    BY DEF SymDiff
<1> HIDE DEF SymDiff
<1>4. CASE st[1] = "zero"
    BY <1>4 DEF Means
<1>5. CASE st[1] = "ones"
    BY <1>5 DEF Means
<1>6. CASE st[1] = "set"
    BY <1>1, <1>6 DEF Means
<1>7. CASE st[1] = "not"
    BY <1>7 DEF Means
<1>8. CASE st[1] = "and"
    BY <1>2, <1>8 DEF Means
<1>9. CASE st[1] = "or"
    BY <1>2, <1>9 DEF Means
<1>10. CASE st[1] = "xor"
    BY <1>2, <1>3, <1>10 DEF Means
<1>11. CASE st[1] = "eof"
    BY <1>1, <1>11 DEF Means
<1> QED BY <1>4, <1>5, <1>6, <1>7, <1>8, <1>9, <1>10, <1>11 DEF Bitwise

-----------------------------------------------------------------------------
(* Statements keep the machine typed.                                      *)

\* The operands of an instruction are blocks.
LEMMA OperandInBlock ==
    ASSUME NEW code, WellFormed(code), NEW s, MachineOK(code, s), s.pc \in DOMAIN code,
           NEW v \in Operands(code[s.pc].st)
    PROVE  s.env[v] \in SUBSET Block
<1>1. v \in Inputs(code) \cup Defined(code)
    BY OperandIsVariable DEF WellFormed
<1> QED BY <1>1 DEF MachineOK

\* What an instruction of code without loops can be.
LEMMA InstructionIs ==
    ASSUME NEW code, WellFormed(code), NEW i \in DOMAIN code
    PROVE  /\ code[i].loops = 0
           /\ code[i].st[1] \in Bitwise \cup Producers \cup {"if", "endif"}
           /\ i \in Nat /\ i \in 1 .. Len(code) /\ Len(code) \in Nat
BY DEF WellFormed, IsCode

\* A statement without a carry leaves the machine typed.
LEMMA BitwiseTyped ==
    ASSUME NEW code, WellFormed(code), NEW s, MachineOK(code, s), s.pc \in DOMAIN code,
           code[s.pc].st[1] \in Bitwise
    PROVE  MachineOK(code, Execute(s, code[s.pc])) /\ Execute(s, code[s.pc]).pc = s.pc + 1
<1> DEFINE in == code[s.pc]
           bits == Means(in.st, s.env, Block, s.eof)
<1>1. Effect(s, Execute(s, in), in.st[2], bits, s.pack, s.long, s.summaries)
    BY BitwiseEffect DEF MachineOK
<1>2. bits \subseteq Block
    BY OperandInBlock, BitwiseInBlock
<1>3. PackOK(code, s.pack) /\ LongOK(code, s.long) /\ s.summaries \in Seq(SUBSET Block)
    BY DEF MachineOK, DataOK
<1>4. in.st[1] \notin {"if", "endif"}
    BY DEF Bitwise
<1> HIDE DEF bits
<1> QED BY <1>1, <1>2, <1>3, <1>4, EffectTyped

\* So does ScanThru,
LEMMA ScanTyped ==
    ASSUME NEW code, WellFormed(code), NEW s, MachineOK(code, s), s.pc \in DOMAIN code,
           code[s.pc].st[1] = "scan"
    PROVE  MachineOK(code, Execute(s, code[s.pc])) /\ Execute(s, code[s.pc]).pc = s.pc + 1
<1> DEFINE in == code[s.pc]
           sum == ScanSum(s, in)
           bits == (sum \cap Block) \ s.env[in.st[4]]
<1>1. Effect(s, Execute(s, in), in.st[2], bits, CarryPack(s, in, Over(sum)), s.long, CarryHeard(s, in, Over(sum)))
    BY ScanEffect, InstructionIs DEF MachineOK
<1>2. s.env[in.st[3]] \in SUBSET Block /\ s.env[in.st[4]] \in SUBSET Block
    BY OperandInBlock DEF Operands
<1>3. Keeps(in) /\ ~IsLong(in.st) /\ s.pc \in Carrying(code)
    BY DEF Keeps, Producers, IsLong, Carrying
<1>4. Carry(s, in) \in {{}, {0}}
    BY <1>3 DEF Carry, MachineOK, DataOK, PackOK
<1>5. Over(sum) \in {{}, {0}}
    BY <1>2, <1>4, OverIs DEF ScanSum
<1>6. bits \subseteq Block
    OBVIOUS
<1>7. LongOK(code, s.long)
    BY DEF MachineOK, DataOK
<1> HIDE DEF sum, bits
<1>8. Over(sum) \subseteq Block
    BY <1>5, ZeroInBlock
<1>9. /\ PackOK(code, CarryPack(s, in, Over(sum)))
      /\ CarryHeard(s, in, Over(sum)) \in Seq(SUBSET Block)
      /\ Len(CarryHeard(s, in, Over(sum))) = Len(s.summaries)
    BY <1>3, <1>5, <1>8, CarryTyped
<1> QED BY <1>1, <1>6, <1>7, <1>9, EffectTyped

\* and MatchStar.
LEMMA StarTyped ==
    ASSUME NEW code, WellFormed(code), NEW s, MachineOK(code, s), s.pc \in DOMAIN code,
           code[s.pc].st[1] = "star"
    PROVE  MachineOK(code, Execute(s, code[s.pc])) /\ Execute(s, code[s.pc]).pc = s.pc + 1
<1> DEFINE in == code[s.pc]
           sum == StarSum(s, in)
           bits == SymDiff(sum \cap Block, s.env[in.st[4]]) \cup s.env[in.st[3]]
<1>1. Effect(s, Execute(s, in), in.st[2], bits, CarryPack(s, in, Over(sum)), s.long, CarryHeard(s, in, Over(sum)))
    BY StarEffect, InstructionIs DEF MachineOK
<1>2. s.env[in.st[3]] \in SUBSET Block /\ s.env[in.st[4]] \in SUBSET Block
    BY OperandInBlock DEF Operands
<1>3. Keeps(in) /\ ~IsLong(in.st) /\ s.pc \in Carrying(code)
    BY DEF Keeps, Producers, IsLong, Carrying
<1>4. Carry(s, in) \in {{}, {0}}
    BY <1>3 DEF Carry, MachineOK, DataOK, PackOK
<1>5. Over(sum) \in {{}, {0}}
    <2>1. s.env[in.st[3]] \cap s.env[in.st[4]] \in SUBSET Block
        BY <1>2
    <2> HIDE DEF in
    <2> QED BY <1>2, <1>4, <2>1, OverIsCarry DEF StarSum
<1>6. bits \subseteq Block
    <2> HIDE DEF sum
    <2> QED BY <1>2 DEF SymDiff
<1>7. LongOK(code, s.long)
    BY DEF MachineOK, DataOK
<1> HIDE DEF sum, bits
<1>8. Over(sum) \subseteq Block
    BY <1>5, ZeroInBlock
<1>9. /\ PackOK(code, CarryPack(s, in, Over(sum)))
      /\ CarryHeard(s, in, Over(sum)) \in Seq(SUBSET Block)
      /\ Len(CarryHeard(s, in, Over(sum))) = Len(s.summaries)
    BY <1>3, <1>5, <1>8, CarryTyped
<1> QED BY <1>1, <1>6, <1>7, <1>9, EffectTyped

\* What is shifted out of a block by less than a block.
LEMMA OverShift ==
    ASSUME NEW x \in SUBSET Block, NEW n \in Nat, n <= BlockWidth
    PROVE  /\ Over(Shift(x, n)) = {p + n - BlockWidth : p \in {q \in x : q + n >= BlockWidth}}
           /\ Over(Shift(x, n)) \subseteq Block
<1>0. BlockWidth \in Nat
    BY PabloConstants
<1>1. Shift(x, n) \ Block = {p + n : p \in {q \in x : q + n >= BlockWidth}}
    BY <1>0 DEF Shift, Block
<1> DEFINE y == {q \in x : q + n >= BlockWidth}
<1>2. Over(Shift(x, n)) = {r + (-BlockWidth) : r \in {p + n : p \in y}}
    BY <1>1 DEF Over, Shift
<1>3. \A q \in y : (q + n) + (-BlockWidth) = q + n - BlockWidth /\ q + n - BlockWidth \in Block
    BY <1>0 DEF Block
<1> HIDE DEF y
<1>4. Over(Shift(x, n)) = {p + n - BlockWidth : p \in y}
    BY <1>2, <1>3
<1> QED BY <1>3, <1>4 DEF y

\* A short advance is by less than a block.
LEMMA ShortIs ==
    ASSUME NEW code, WellFormed(code), NEW i \in DOMAIN code, code[i].st[1] = "adv", ~IsLong(code[i].st)
    PROVE  code[i].st[4] \in Nat \ {0} /\ code[i].st[4] < BlockWidth
<1>1. code[i].st[4] \in Nat \ {0}
    BY DEF WellFormed, IsCode
<1> QED BY <1>1, PabloConstants DEF IsLong

\* So does a short advance.
LEMMA AdvanceTyped ==
    ASSUME NEW code, WellFormed(code), NEW s, MachineOK(code, s), s.pc \in DOMAIN code,
           code[s.pc].st[1] = "adv", ~IsLong(code[s.pc].st)
    PROVE  MachineOK(code, Execute(s, code[s.pc])) /\ Execute(s, code[s.pc]).pc = s.pc + 1
<1> DEFINE in == code[s.pc]
           moved == Shift(s.env[in.st[3]], in.st[4])
           bits == (moved \cap Block) \cup Carry(s, in)
<1>1. Effect(s, Execute(s, in), in.st[2], bits, CarryPack(s, in, Over(moved)), s.long, CarryHeard(s, in, Over(moved)))
    BY AdvanceEffect, InstructionIs DEF MachineOK
<1>2. s.env[in.st[3]] \in SUBSET Block
    BY OperandInBlock DEF Operands
<1>3. Keeps(in) /\ s.pc \in Carrying(code) /\ PackSize(in.st) = 2
    BY DEF Keeps, Producers, Carrying, PackSize
<1>4. Carry(s, in) \subseteq Block
    BY <1>3 DEF Carry, MachineOK, DataOK, PackOK
<1>5. Over(moved) \subseteq Block
    BY <1>2, ShortIs, OverShift, PabloConstants
<1>6. bits \subseteq Block
    BY <1>4
<1>7. LongOK(code, s.long)
    BY DEF MachineOK, DataOK
<1> HIDE DEF moved, bits
<1>9. /\ PackOK(code, CarryPack(s, in, Over(moved)))
      /\ CarryHeard(s, in, Over(moved)) \in Seq(SUBSET Block)
      /\ Len(CarryHeard(s, in, Over(moved))) = Len(s.summaries)
    BY <1>3, <1>5, CarryTyped
<1> QED BY <1>1, <1>6, <1>7, <1>9, EffectTyped

\* The slots that a long advance reads and writes are slots of its buffer.
LEMMA LongSlots ==
    ASSUME NEW code, WellFormed(code), NEW i \in DOMAIN code, code[i].st[1] = "adv", IsLong(code[i].st),
           NEW k \in Int
    PROVE  /\ 0 \in 0 .. PackSize(code[i].st) - 1
           /\ k % NearestPow2(AdvanceBlocks(code[i].st[4])) \in 0 .. PackSize(code[i].st) - 1
<1>1. /\ PackSize(code[i].st) \in Nat \ {0}
      /\ PackSize(code[i].st) = NearestPow2(AdvanceBlocks(code[i].st[4]))
    BY PackSizeIs DEF WellFormed
<1> QED BY <1>1

\* So does a long advance.
LEMMA LongTyped ==
    ASSUME NEW code, WellFormed(code), NEW s, MachineOK(code, s), s.pc \in DOMAIN code,
           code[s.pc].st[1] = "adv", IsLong(code[s.pc].st)
    PROVE  MachineOK(code, Execute(s, code[s.pc])) /\ Execute(s, code[s.pc]).pc = s.pc + 1
<1> DEFINE in == code[s.pc]
           x == s.env[in.st[3]]
           n == NearestPow2(AdvanceBlocks(in.st[4]))
           slot == IF in.st[4] < BlockWidth THEN 0 ELSE s.index % n
<1>1. Effect(s, Execute(s, in), in.st[2], LongValue(s, in), LongPack(s, in), LongKept(s, in), LongHeard(s, in))
    BY LongEffect, InstructionIs DEF MachineOK
<1>2. x \in SUBSET Block
    BY OperandInBlock DEF Operands
<1>3. Keeps(in) /\ s.pc \in Carrying(code)
    BY DEF Keeps, Producers, Carrying
<1>4. s.index \in Nat /\ AdvanceBlocks(in.st[4]) \in Nat \ {0} /\ in.st[4] \in Nat \ {0}
    BY PackSizeIs DEF MachineOK, DataOK, WellFormed
<1>5. slot \in 0 .. PackSize(in.st) - 1
    BY <1>4, LongSlots
<1>6. PackOK(code, s.pack) /\ LongOK(code, s.long)
    BY DEF MachineOK, DataOK
<1>7. LongPack(s, in) = Put(s.pack, in.st[2], slot, x)
    BY DEF LongPack
<1>8. PackOK(code, LongPack(s, in))
    <2> HIDE DEF slot, x
    <2>1. in.st[1] \notin {"scan", "star"}
        OBVIOUS
    <2>2. PackOK(code, Put(s.pack, code[s.pc].st[2], slot, x))
        BY <1>2, <1>3, <1>5, <1>6, <2>1, PackPutOK
    <2> QED BY <1>7, <2>2
<1>9. LongValue(s, in) \subseteq Block
    <2> DEFINE oldest == s.pack[in.st[2]][IF in.st[4] < BlockWidth THEN 0 ELSE (s.index - AdvanceBlocks(in.st[4])) % n]
    <2>1. (s.index - AdvanceBlocks(in.st[4])) % n \in 0 .. PackSize(in.st) - 1 /\ 0 \in 0 .. PackSize(in.st) - 1
        BY <1>4, LongSlots
    <2>2. oldest \subseteq Block
        BY <1>3, <1>6, <2>1 DEF PackOK
    <2> HIDE DEF n
    <2> QED BY <2>2 DEF LongValue, n
<1>10. LongBits(s, in) \subseteq 0 .. AdvanceBlocks(in.st[4]) - 1
    BY DEF LongBits
<1>11. LongOK(code, LongKept(s, in))
    <2> SUFFICES ASSUME NEW j \in DOMAIN code, IsLong(code[j].st)
                 PROVE  /\ code[j].st[2] \in DOMAIN LongKept(s, in)
                        /\ LongKept(s, in)[code[j].st[2]] \subseteq 0 .. AdvanceBlocks(code[j].st[4]) - 1
        BY DEF LongOK
    <2>1. Keeps(code[j])
        BY DEF IsLong, Keeps, Producers
    <2>2. j # s.pc => code[j].st[2] # in.st[2]
        BY <1>3, <2>1 DEF WellFormed, UniquePlaces
    <2>3. code[j].st[2] \in DOMAIN s.long /\ s.long[code[j].st[2]] \subseteq 0 .. AdvanceBlocks(code[j].st[4]) - 1
        BY <1>6 DEF LongOK
    <2> QED BY <1>10, <2>2, <2>3 DEF LongKept
<1>12. LongHeard(s, in) \in Seq(SUBSET Block) /\ Len(LongHeard(s, in)) = Len(s.summaries)
    <2>1. s.summaries \in Seq(SUBSET Block) /\ Len(s.summaries) > 0
        BY DepthIs DEF MachineOK
    <2>2. {b % BlockWidth : b \in LongBits(s, in)} \subseteq Block
        <3>1. ASSUME NEW b \in LongBits(s, in)
              PROVE  b % BlockWidth \in Block
            <4>1. b \in Int
                BY <1>4, <1>10
            <4> QED BY <4>1, PabloConstants DEF Block
        <3> QED BY <3>1
    <2>3. x \subseteq Block
        BY <1>2
    <2> QED BY <2>1, <2>2, <2>3, HeardIs DEF LongHeard
<1> HIDE DEF x, n, slot
<1> QED BY <1>1, <1>8, <1>9, <1>11, <1>12, EffectTyped

-----------------------------------------------------------------------------
(* So do Ifs.                                                              *)

\* The place of an If and of its end.
LEMMA IfIs ==
    ASSUME NEW code, WellFormed(code), NEW e \in Ifs(code)
    PROVE  /\ e \in DOMAIN code /\ e \in 1 .. Len(code) /\ Len(code) \in Nat
           /\ code[e].to \in DOMAIN code /\ code[e].to \in e + 1 .. Len(code)
           /\ code[code[e].to].st[1] = "endif" /\ code[code[e].to].to = e
           /\ code[code[e].to].own = code[e].own /\ code[code[e].to].st[2] = code[e].st[2]
           /\ code[e].st[1] = "if" /\ Keeps(code[e]) /\ ~IsLong(code[e].st) /\ PackSize(code[e].st) = 2
           /\ Depth(code, code[e].to) = Depth(code, e - 1)
           /\ Depth(code, e - 1) = code[e].ifs
<1>1. e \in DOMAIN code /\ code[e].st[1] = "if" /\ Keeps(code[e]) /\ ~IsLong(code[e].st)
    BY DEF Ifs, Keeps, IsLong
<1>2. DOMAIN code = 1 .. Len(code) /\ Len(code) \in Nat
    BY DEF WellFormed, IsCode
<1>3. /\ code[e].to \in e + 1 .. Len(code)
      /\ code[code[e].to].st[1] = "endif" /\ code[code[e].to].to = e
      /\ code[code[e].to].own = code[e].own /\ code[code[e].to].st[2] = code[e].st[2]
      /\ code[code[e].to].ifs = code[e].ifs
    BY DEF WellFormed, Nested
<1>4. code[e].to \in DOMAIN code
    BY <1>1, <1>2, <1>3
<1>5. Depth(code, e - 1) = code[e].ifs
    BY <1>1, DepthIs
<1>6. Depth(code, code[e].to) = code[code[e].to].ifs
    BY <1>3, <1>4, DepthIs
<1> QED BY <1>1, <1>2, <1>3, <1>4, <1>5, <1>6 DEF PackSize

\* Where an If ends.
LEMMA IfPlace ==
    ASSUME NEW code, WellFormed(code), NEW e \in Ifs(code)
    PROVE  /\ e \in Nat /\ code[e].to \in Nat /\ e < code[e].to /\ e \in DOMAIN code
           /\ code[code[e].to].to = e /\ code[code[e].to].st[1] = "endif"
           /\ code[e].st[1] = "if"
<1>1. /\ e \in 1 .. Len(code) /\ Len(code) \in Nat /\ code[e].to \in e + 1 .. Len(code) /\ e \in DOMAIN code
      /\ code[code[e].to].st[1] = "endif" /\ code[code[e].to].to = e
      /\ code[e].st[1] = "if"
    BY IfIs
<1> QED BY <1>1

\* Entering and skipping an If leaves the machine typed,
LEMMA EnterTyped ==
    ASSUME NEW code, WellFormed(code), NEW s, MachineOK(code, s), s.pc \in DOMAIN code,
           code[s.pc].st[1] = "if"
    PROVE  /\ MachineOK(code, Execute(s, code[s.pc]))
           /\ Execute(s, code[s.pc]).pc \in s.pc + 1 .. Len(code) + 1
<1> DEFINE in == code[s.pc]
           t == Execute(s, in)
<1>1. IF s.env[in.st[3]] = {} /\ Summary(s, in) = {} THEN Skipped(s, in, t) ELSE Entered(s, t)
    BY EnterEffect, InstructionIs DEF MachineOK
<1>2. s.pc \in Ifs(code)
    BY DEF Ifs
<1>3. /\ in.to \in s.pc + 1 .. Len(code) /\ Depth(code, in.to) = Depth(code, s.pc - 1)
      /\ Len(code) \in Nat /\ s.pc \in 1 .. Len(code)
    BY <1>2, IfIs
<1>4. Depth(code, s.pc) = Depth(code, s.pc - 1) + 1 /\ Depth(code, s.pc - 1) \in Nat
    BY DepthIs
<1>5. s.summaries \in Seq(SUBSET Block) /\ Len(s.summaries) = 1 + Depth(code, s.pc - 1)
    BY DEF MachineOK
<1> HIDE DEF t
<1>6. CASE Skipped(s, in, t)
    <2>1. t.pc = in.to + 1 /\ t.pc - 1 = in.to /\ t.pc \in 1 .. Len(code) + 1 /\ t.pc \in s.pc + 1 .. Len(code) + 1
        BY <1>3, <1>6 DEF Skipped
    <2>2. DataOK(code, t)
        BY <1>6 DEF Skipped, MachineOK, DataOK
    <2>3. Len(t.summaries) = 1 + Depth(code, t.pc - 1)
        BY <1>3, <1>5, <1>6, <2>1 DEF Skipped
    <2>4. MachineOK(code, t)
        BY <1>6, <2>1, <2>2, <2>3 DEF Skipped, MachineOK
    <2> QED BY <2>1, <2>4 DEF t
<1>7. CASE Entered(s, t)
    <2>1. t.pc = s.pc + 1 /\ t.pc - 1 = s.pc /\ t.pc \in 1 .. Len(code) + 1 /\ t.pc \in s.pc + 1 .. Len(code) + 1
        BY <1>3, <1>7 DEF Entered
    <2>2. DataOK(code, t)
        BY <1>7 DEF Entered, MachineOK, DataOK
    <2>3. t.summaries \in Seq(SUBSET Block) /\ Len(t.summaries) = 1 + Depth(code, t.pc - 1)
        <3>1. {} \in SUBSET Block
            OBVIOUS
        <3>2. t.summaries = Append(s.summaries, {})
            BY <1>7 DEF Entered
        <3>3. t.summaries \in Seq(SUBSET Block) /\ Len(t.summaries) = Len(s.summaries) + 1
            BY <1>5, <3>1, <3>2
        <3> QED BY <1>4, <1>5, <2>1, <3>3
    <2>4. MachineOK(code, t)
        BY <1>7, <2>1, <2>2, <2>3 DEF Entered, MachineOK
    <2> QED BY <2>1, <2>4 DEF t
<1> QED BY <1>1, <1>6, <1>7

\* At the end of an If, its summary goes into the one around.
LEMMA LeftSummariesAre ==
    ASSUME NEW s, NEW in, s.summaries \in Seq(SUBSET Block), Len(s.summaries) > 1
    PROVE  LET n == Len(s.summaries) IN
           /\ LeftSummaries(s, in) \in Seq(SUBSET Block)
           /\ n \in Nat /\ Len(LeftSummaries(s, in)) = n - 1
           /\ \A l \in 1 .. n - 2 : LeftSummaries(s, in)[l] = s.summaries[l]
           /\ LeftSummaries(s, in)[n - 1] = IF n > 2 /\ in.own # "none" THEN s.summaries[n - 1] \cup s.summaries[n]
                                            ELSE s.summaries[n - 1]
<1> DEFINE q == s.summaries
           n == Len(q)
           outer == IF n > 2 /\ in.own # "none" THEN q[n - 1] \cup q[n] ELSE q[n - 1]
           front == SubSeq(q, 1, n - 2)
<1>1. q \in Seq(SUBSET Block) /\ n \in Nat /\ n > 1
    OBVIOUS
<1>2. LeftSummaries(s, in) = Append(front, outer)
    BY DEF LeftSummaries, Top
<1> HIDE DEF q
<1>3. q[n] \in SUBSET Block /\ q[n - 1] \in SUBSET Block
    <2>1. n \in 1 .. n /\ n - 1 \in 1 .. n
        BY <1>1
    <2> QED BY <1>1, <2>1
<1>4. outer \in SUBSET Block
    BY <1>3
<1>5. /\ front \in Seq(SUBSET Block) /\ Len(front) = n - 2
      /\ \A l \in 1 .. n - 2 : front[l] = q[l]
    <2>1. \A l \in 1 .. n - 2 : q[l] \in SUBSET Block
        BY <1>1
    <2>2. /\ front \in Seq(SUBSET Block) /\ Len(front) = IF 1 <= n - 2 THEN (n - 2) - 1 + 1 ELSE 0
          /\ \A l \in 1 .. (n - 2) - 1 + 1 : front[l] = q[1 + l - 1]
        BY <1>1, <2>1, SubSeqProperties
    <2> HIDE DEF front, n
    <2>3. (n - 2) - 1 + 1 = n - 2 /\ Len(front) = n - 2
        BY <1>1, <2>2
    <2>4. \A l \in 1 .. n - 2 : front[l] = q[l]
        BY <2>2, <2>3
    <2> QED BY <2>2, <2>3, <2>4
<1> HIDE DEF front, outer, n
<1>6. Append(front, outer) \in Seq(SUBSET Block) /\ Len(Append(front, outer)) = n - 1
    BY <1>1, <1>4, <1>5
<1>7. \A l \in 1 .. n - 2 : Append(front, outer)[l] = q[l]
    BY <1>1, <1>4, <1>5
<1>8. Append(front, outer)[n - 1] = outer
    BY <1>1, <1>4, <1>5
<1> QED BY <1>1, <1>2, <1>6, <1>7, <1>8 DEF q, n, outer

\* and so does leaving it.
LEMMA LeaveTyped ==
    ASSUME NEW code, WellFormed(code), NEW s, MachineOK(code, s), s.pc \in DOMAIN code,
           code[s.pc].st[1] = "endif"
    PROVE  /\ MachineOK(code, Execute(s, code[s.pc]))
           /\ Execute(s, code[s.pc]).pc \in s.pc + 1 .. Len(code) + 1
<1> DEFINE in == code[s.pc]
           e == in.to
           t == Execute(s, in)
<1>1. /\ DOMAIN t = Fields
      /\ t.env = s.env /\ t.eof = s.eof /\ t.selector = s.selector /\ t.index = s.index
      /\ t.pack = LeftPack(s, in) /\ t.long = s.long
      /\ t.summaries = LeftSummaries(s, in) /\ t.pc = s.pc + 1
    BY LeaveEffect, InstructionIs DEF MachineOK
<1>2. e \in Ifs(code) /\ code[e].to = s.pc
    BY DEF WellFormed, Nested
<1>3. e \in DOMAIN code /\ Keeps(code[e]) /\ PackSize(code[e].st) = 2 /\ in.st[2] = code[e].st[2] /\ code[e].st[1] = "if"
    <2> HIDE DEF in
    <2>1. e \in DOMAIN code /\ Keeps(code[e]) /\ PackSize(code[e].st) = 2 /\ code[e].st[1] = "if"
        BY <1>2, IfIs
    <2>2. code[code[e].to].st[2] = code[e].st[2]
        BY <1>2, IfIs
    <2> QED BY <1>2, <2>1, <2>2 DEF in
<1>4. Depth(code, s.pc) = Depth(code, s.pc - 1) - 1 /\ Depth(code, s.pc) \in Nat
    BY DepthIs
<1>5. s.summaries \in Seq(SUBSET Block) /\ Len(s.summaries) = 1 + Depth(code, s.pc - 1) /\ Len(s.summaries) > 1
    BY <1>4, DepthIs DEF MachineOK
<1>6. s.pc \in 1 .. Len(code) /\ Len(code) \in Nat
    BY InstructionIs
<1> HIDE DEF t
<1>7. t.pc - 1 = s.pc /\ t.pc \in 1 .. Len(code) + 1 /\ t.pc \in s.pc + 1 .. Len(code) + 1
    BY <1>1, <1>6
<1>8. t.summaries \in Seq(SUBSET Block) /\ Len(t.summaries) = 1 + Depth(code, t.pc - 1)
    <2>1. /\ LeftSummaries(s, in) \in Seq(SUBSET Block)
          /\ Len(LeftSummaries(s, in)) = Len(s.summaries) - 1
        BY <1>5, LeftSummariesAre
    <2>2. Depth(code, t.pc - 1) = Depth(code, s.pc)
        BY <1>7
    <2>3. PICK d \in Nat : d = Depth(code, s.pc)
        BY <1>4
    <2>4. PICK m : m = Depth(code, s.pc - 1)
        OBVIOUS
    <2>5. m - 1 = d /\ m \in Nat
        BY <1>4, <2>3, <2>4, DepthIs
    <2>6. Len(s.summaries) = 1 + m
        BY <1>5, <2>4
    <2>7. Len(s.summaries) - 1 = 1 + d
        BY <2>5, <2>6
    <2>8. t.summaries = LeftSummaries(s, in)
        BY <1>1
    <2>9. Len(t.summaries) = 1 + Depth(code, t.pc - 1)
        BY <2>1, <2>2, <2>3, <2>7, <2>8
    <2> QED BY <2>1, <2>8, <2>9
<1>9. PackOK(code, LeftPack(s, in))
    <2>1. CASE in.own # "explicit"
        BY <2>1 DEF LeftPack, MachineOK, DataOK
    <2>2. CASE in.own = "explicit"
        <3>1. Top(s) \subseteq Block
            BY <1>5 DEF Top
        <3>2. LeftPack(s, in) = Put(s.pack, code[e].st[2], 0, Top(s))
            BY <1>3, <2>2 DEF LeftPack
        <3>3. 0 \in 0 .. PackSize(code[e].st) - 1 /\ code[e].st[1] \notin {"scan", "star"} /\ PackOK(code, s.pack)
            BY <1>3 DEF MachineOK, DataOK
        <3>4. Top(s) \in SUBSET Block
            BY <3>1
        <3> HIDE DEF e
        <3>5. PackOK(code, Put(s.pack, code[e].st[2], 0, Top(s)))
            BY <1>3, <3>3, <3>4, PackPutOK
        <3> QED BY <3>2, <3>5
    <2> QED BY <2>1, <2>2
<1>10. DataOK(code, t)
    BY <1>1, <1>9 DEF MachineOK, DataOK
<1>11. MachineOK(code, t)
    BY <1>1, <1>7, <1>8, <1>10 DEF MachineOK
<1> QED BY <1>7, <1>11 DEF t

\* Every instruction leaves the machine typed.
LEMMA StepTyped ==
    ASSUME NEW code, WellFormed(code), NEW s, MachineOK(code, s), s.pc \in DOMAIN code
    PROVE  /\ MachineOK(code, Execute(s, code[s.pc]))
           /\ Execute(s, code[s.pc]).pc \in s.pc + 1 .. Len(code) + 1
<1> DEFINE in == code[s.pc]
<1>1. in.st[1] \in Bitwise \cup Producers \cup {"if", "endif"} /\ s.pc \in 1 .. Len(code) /\ Len(code) \in Nat
    BY InstructionIs
<1>2. CASE in.st[1] = "if"
    BY <1>2, EnterTyped
<1>3. CASE in.st[1] = "endif"
    BY <1>3, LeaveTyped
<1>4. CASE in.st[1] \notin {"if", "endif"}
    <2>1. MachineOK(code, Execute(s, in)) /\ Execute(s, in).pc = s.pc + 1
        BY <1>1, <1>4, BitwiseTyped, ScanTyped, StarTyped, AdvanceTyped, LongTyped DEF Producers
    <2> QED BY <1>1, <2>1
<1> QED BY <1>2, <1>3, <1>4

-----------------------------------------------------------------------------
(* So does a block, and carry data between blocks.                         *)

\* The states of a block, one for each instruction.
Runs(code, start, after) ==
    /\ after[0] = start
    /\ \A i \in 1 .. Len(code) :
          \/ after[i - 1].pc = i /\ after[i] = Execute(after[i - 1], code[i])
          \/ after[i - 1].pc > i /\ after[i] = after[i - 1]
    /\ \A i \in 0 .. Len(code) : MachineOK(code, after[i]) /\ after[i].pc \in i + 1 .. Len(code) + 1

\* A block goes through states that are typed, from its first instruction to
\* past the last.
LEMMA BlockRuns ==
    ASSUME NEW code, WellFormed(code), NEW start, MachineOK(code, start), start.pc = 1
    PROVE  \E after : RunBlock(code, start) = after[Len(code)] /\ Runs(code, start, after)
<1>0. Len(code) \in Nat /\ DOMAIN code = 1 .. Len(code)
    BY DEF WellFormed, IsCode
<1>a. PICK after : RunBlock(code, start) = after[Len(code)] /\ Stepwise(code, start, after)
    BY <1>0, BlockSteps
<1>1. /\ RunBlock(code, start) = after[Len(code)]
      /\ after[0] = start
      /\ \A i \in 1 .. Len(code) :
            after[i] = IF after[i - 1].pc = i THEN Execute(after[i - 1], code[i]) ELSE after[i - 1]
    BY <1>a DEF Stepwise
<1> DEFINE P(i) == MachineOK(code, after[i]) /\ after[i].pc \in i + 1 .. Len(code) + 1
           C == {i \in 0 .. Len(code) : ~P(i)}
<1>2. \A i \in 0 .. Len(code) : P(i)
    <2> SUFFICES ASSUME C # {} PROVE FALSE
        OBVIOUS
    <2>1. PICK i \in C : \A j \in C : i <= j
        <3>1. C \subseteq Nat
            BY <1>0
        <3> HIDE DEF C
        <3> QED BY <3>1, LeastNumber
    <2>2. i # 0
        <3>1. P(0)
            BY <1>0, <1>1
        <3> QED BY <2>1, <3>1
    <2>3. i \in 1 .. Len(code) /\ i - 1 \in 0 .. Len(code) /\ P(i - 1)
        BY <1>0, <2>1, <2>2
    <2>4. CASE after[i - 1].pc = i
        <3> DEFINE s == after[i - 1]
        <3>1. MachineOK(code, s) /\ s.pc \in DOMAIN code /\ s.pc = i
            BY <1>0, <2>3, <2>4
        <3>2. after[i] = Execute(s, code[s.pc])
            BY <1>1, <2>3, <2>4
        <3> HIDE DEF s
        <3>3. P(i)
            BY <3>1, <3>2, StepTyped
        <3> QED BY <2>1, <3>3
    <2>5. CASE after[i - 1].pc # i
        <3>1. after[i] = after[i - 1] /\ after[i - 1].pc \in i .. Len(code) + 1
            BY <1>1, <2>3, <2>5
        <3>2. P(i)
            BY <1>0, <2>3, <2>5, <3>1
        <3> QED BY <2>1, <3>2
    <2> QED BY <2>4, <2>5
<1>3. ASSUME NEW i \in 1 .. Len(code)
      PROVE  \/ after[i - 1].pc = i /\ after[i] = Execute(after[i - 1], code[i])
             \/ after[i - 1].pc > i /\ after[i] = after[i - 1]
    <2>1. i - 1 \in 0 .. Len(code)
        BY <1>0
    <2>2. after[i - 1].pc \in i .. Len(code) + 1
        BY <1>0, <1>2, <2>1
    <2> QED BY <1>0, <1>1, <2>2
<1>4. Runs(code, start, after)
    BY <1>1, <1>2, <1>3 DEF Runs
<1> QED BY <1>1, <1>4

\* The machine is typed at the start of a block.
LEMMA StartTyped ==
    ASSUME NEW code, WellFormed(code), NEW data, DataOK(code, data),
           NEW inputs, \A v \in Inputs(code) : inputs[v] \subseteq Block, NEW eof \in SUBSET Block
    PROVE  MachineOK(code, Start(code, inputs, eof, data)) /\ Start(code, inputs, eof, data).pc = 1
<1> DEFINE s == Start(code, inputs, eof, data)
<1>1. DOMAIN s = Fields
    BY DEF Start, Fields
<1>2. /\ s.env = Initially(code, inputs) /\ s.eof = eof /\ s.pack = data.pack /\ s.long = data.long
      /\ s.selector = data.selector /\ s.index = data.index /\ s.summaries = << {} >> /\ s.pc = 1
    BY DEF Start
<1> HIDE DEF s
<1>3. DataOK(code, s)
    BY <1>2 DEF DataOK
<1>4. DOMAIN s.env = Inputs(code) \cup Defined(code) /\ \A v \in DOMAIN s.env : s.env[v] \subseteq Block
    BY <1>2 DEF Initially
<1>5. s.summaries \in Seq(SUBSET Block) /\ Len(s.summaries) = 1
    BY <1>2
<1>6. Len(code) \in Nat
    BY DEF WellFormed, IsCode
<1>7. Depth(code, s.pc - 1) = 0
    BY <1>2 DEF Depth
<1>8. MachineOK(code, s)
    BY <1>1, <1>2, <1>3, <1>4, <1>5, <1>6, <1>7 DEF MachineOK
<1> QED BY <1>2, <1>8 DEF s

\* The name of a place is that of one instruction.
LEMMA AtIs ==
    ASSUME NEW code, WellFormed(code), NEW i \in DOMAIN code, Keeps(code[i])
    PROVE  At(code, code[i].st[2]) = i /\ code[i].st[2] \in Places(code)
<1>1. \A j \in DOMAIN code : Keeps(code[j]) /\ code[j].st[2] = code[i].st[2] => j = i
    BY DEF WellFormed, UniquePlaces
<1> QED BY <1>1 DEF At, Places

\* The carry data before the first block is typed.
LEMMA NoCarriesTyped ==
    ASSUME NEW code, WellFormed(code)
    PROVE  DataOK(code, NoCarries(code))
<1> DEFINE data == NoCarries(code)
<1>1. /\ data.pack = [d \in Places(code) |-> [i \in 0 .. PackSize(code[At(code, d)].st) - 1 |-> {}]]
      /\ data.long = [d \in {e \in Places(code) : IsLong(code[At(code, e)].st)} |-> {}]
      /\ data.selector = 0 /\ data.index = 0
    BY DEF NoCarries
<1> HIDE DEF data
<1>2. PackOK(code, data.pack)
    <2> SUFFICES ASSUME NEW i \in DOMAIN code, Keeps(code[i])
                 PROVE  /\ DOMAIN data.pack[code[i].st[2]] = 0 .. PackSize(code[i].st) - 1
                        /\ \A n \in 0 .. PackSize(code[i].st) - 1 : data.pack[code[i].st[2]][n] \subseteq Block
                        /\ code[i].st[1] \in {"scan", "star"} => data.pack[code[i].st[2]][0] \in {{}, {0}}
        BY <1>1 DEF PackOK
    <2>1. data.pack[code[i].st[2]] = [n \in 0 .. PackSize(code[i].st) - 1 |-> {}]
        <3>1. PICK d : d = code[i].st[2]
            OBVIOUS
        <3>2. At(code, d) = i /\ d \in Places(code)
            BY <3>1, AtIs
        <3>3. data.pack[d] = [n \in 0 .. PackSize(code[At(code, d)].st) - 1 |-> {}]
            BY <1>1, <3>2
        <3> QED BY <3>1, <3>2, <3>3
    <2>2. code[i].st[1] \in {"scan", "star"} => 0 \in 0 .. PackSize(code[i].st) - 1
        BY DEF PackSize, IsLong
    <2> QED BY <2>1, <2>2
<1>3. LongOK(code, data.long)
    <2> SUFFICES ASSUME NEW i \in DOMAIN code, IsLong(code[i].st)
                 PROVE  /\ code[i].st[2] \in DOMAIN data.long
                        /\ data.long[code[i].st[2]] \subseteq 0 .. AdvanceBlocks(code[i].st[4]) - 1
        BY DEF LongOK
    <2>1. Keeps(code[i])
        BY DEF IsLong, Keeps, Producers
    <2>2. At(code, code[i].st[2]) = i /\ code[i].st[2] \in Places(code)
        BY <2>1, AtIs
    <2> QED BY <1>1, <2>2
<1>4. DataOK(code, data)
    BY <1>1, <1>2, <1>3 DEF DataOK
<1> QED BY <1>4 DEF data

\* What holds of every kernel between blocks.
IsRunning ==
    /\ case \in DOMAIN Pipelines
    /\ \A k \in Kernels : LoopFree(Code(k))
    /\ block \in Nat
    /\ \A k \in Kernels :
          /\ DataOK(Code(k), carries[k])
          /\ carries[k].index <= block
          /\ \A v \in Outputs(k) : results[k][v] \subseteq Positions(block)

\* The kernels that run are well formed.
LEMMA CodeWellFormed ==
    ASSUME case \in DOMAIN Pipelines, NEW k \in Kernels, LoopFree(Code(k))
    PROVE  /\ WellFormed(Code(k)) /\ Outputs(k) \subseteq InScope(Code(k), Len(Code(k)))
           /\ Outputs(k) \subseteq Inputs(Code(k)) \cup Defined(Code(k))
<1>1. k \in DOMAIN Pipelines[case] /\ Code(k) = Pipelines[case][k].code /\ Outputs(k) = Pipelines[case][k].outputs
    BY DEF Kernels, Code, Codes, Outputs, Written
<1>2. WellFormed(Code(k)) /\ Outputs(k) \subseteq InScope(Code(k), Len(Code(k)))
    BY <1>1, PipelinesWellFormed
<1>3. IsCode(Code(k)) /\ Len(Code(k)) \in 0 .. Len(Code(k))
    BY <1>2 DEF WellFormed, IsCode
<1> QED BY <1>2, <1>3, InScopeIsVariable

\* A block, moved to its place, is among the positions of the blocks so far.
LEMMA ShiftIntoBlock ==
    ASSUME NEW b \in Nat, NEW bits \in SUBSET Block
    PROVE  /\ Shift(bits, b * BlockWidth) \subseteq Positions(b + 1)
           /\ Positions(b) \subseteq Positions(b + 1)
<1> DEFINE w == b * BlockWidth
<1>1. w \in Nat /\ BlockWidth \in Nat /\ (b + 1) * BlockWidth = w + BlockWidth
    BY PabloConstants
<1> HIDE DEF w
<1>2. Positions(b) = 0 .. w - 1 /\ Positions(b + 1) = 0 .. w + BlockWidth - 1
    BY <1>1 DEF Positions, w
<1>3. \A p \in bits : p + w \in 0 .. w + BlockWidth - 1
    BY <1>1 DEF Block
<1> QED BY <1>1, <1>2, <1>3 DEF Shift, w

\* What a block does to a kernel.
LEMMA BlockTyped ==
    ASSUME NEW code, WellFormed(code), NEW data, DataOK(code, data),
           NEW inputs, \A v \in Inputs(code) : inputs[v] \subseteq Block, NEW eof \in SUBSET Block
    PROVE  LET s == RunBlock(code, Start(code, inputs, eof, data)) IN
           /\ MachineOK(code, s) /\ s.pc = Len(code) + 1
           /\ \A v \in Inputs(code) \cup Defined(code) : s.env[v] \subseteq Block
<1> DEFINE start == Start(code, inputs, eof, data)
           s == RunBlock(code, start)
<1>1. MachineOK(code, start) /\ start.pc = 1
    BY StartTyped
<1>2. PICK after : s = after[Len(code)] /\ Runs(code, start, after)
    BY <1>1, BlockRuns
<1>3. Len(code) \in Nat
    BY DEF WellFormed, IsCode
<1> HIDE DEF s, start
<1>4. MachineOK(code, s) /\ s.pc = Len(code) + 1
    BY <1>2, <1>3 DEF Runs
<1>5. \A v \in Inputs(code) \cup Defined(code) : s.env[v] \subseteq Block
    BY <1>4 DEF MachineOK
<1> QED BY <1>4, <1>5 DEF s, start

\* The index counts the blocks where there is a long advance.
LEMMA IndexCounts ==
    ASSUME NEW code, WellFormed(code), NEW start, MachineOK(code, start), start.pc = 1
    PROVE  RunBlock(code, start).index = start.index
<1>0. Len(code) \in Nat /\ DOMAIN code = 1 .. Len(code)
    BY DEF WellFormed, IsCode
<1>1. PICK after : RunBlock(code, start) = after[Len(code)] /\ Runs(code, start, after)
    BY BlockRuns
<1> DEFINE C == {i \in 0 .. Len(code) : after[i].index # start.index}
<1> SUFFICES ASSUME C # {} PROVE FALSE
    BY <1>0, <1>1
<1>2. PICK i \in C : \A j \in C : i <= j
    <2>1. C \subseteq Nat
        BY <1>0
    <2> HIDE DEF C
    <2> QED BY <2>1, LeastNumber
<1>3. i # 0
    BY <1>1, <1>2 DEF Runs
<1>4. i \in 1 .. Len(code) /\ i - 1 \in 0 .. Len(code) /\ after[i - 1].index = start.index
    BY <1>0, <1>2, <1>3
<1> DEFINE s == after[i - 1]
<1>5. s.pc = i /\ after[i] = Execute(s, code[i]) /\ MachineOK(code, s)
    BY <1>1, <1>2, <1>4 DEF Runs
<1> HIDE DEF s, C
<1>6. Execute(s, code[i]).index = s.index
    <2> DEFINE in == code[i]
    <2>1. DOMAIN s = Fields /\ in.loops = 0
        BY <1>0, <1>4, <1>5, InstructionIs DEF MachineOK
    <2>2. CASE in.st[1] \in Bitwise
        BY <2>1, <2>2, BitwiseEffect DEF Effect
    <2>3. CASE in.st[1] = "scan"
        BY <2>1, <2>3, ScanEffect DEF Effect
    <2>4. CASE in.st[1] = "star"
        BY <2>1, <2>4, StarEffect DEF Effect
    <2>5. CASE in.st[1] = "adv" /\ ~IsLong(in.st)
        BY <2>1, <2>5, AdvanceEffect DEF Effect
    <2>6. CASE in.st[1] = "adv" /\ IsLong(in.st)
        BY <2>1, <2>6, LongEffect DEF Effect
    <2>7. CASE in.st[1] = "if"
        BY <2>1, <2>7, EnterEffect DEF Skipped, Entered
    <2>8. CASE in.st[1] = "endif"
        BY <2>1, <2>8, LeaveEffect
    <2>9. in.st[1] \in Bitwise \cup Producers \cup {"if", "endif"}
        BY <1>0, <1>4, InstructionIs
    <2> QED BY <2>2, <2>3, <2>4, <2>5, <2>6, <2>7, <2>8, <2>9 DEF Producers
<1>7. after[i].index # start.index
    BY <1>2 DEF C
<1> QED BY <1>4, <1>5, <1>6, <1>7 DEF s

\* The carry data after a block is typed.
LEMMA NextTyped ==
    ASSUME NEW code, WellFormed(code), LoopFree(code), NEW s, MachineOK(code, s)
    PROVE  /\ DataOK(code, NextCarries(code, s))
           /\ NextCarries(code, s).index <= s.index + 1
           /\ NextCarries(code, s).pack = s.pack /\ NextCarries(code, s).long = s.long
<1> DEFINE data == NextCarries(code, s)
<1>1. /\ data.pack = s.pack /\ data.long = s.long /\ data.selector = 0
      /\ data.index = IF \E i \in DOMAIN code : IsLong(code[i].st) THEN s.index + 1 ELSE 0
    BY DEF NextCarries
<1> HIDE DEF data
<1>2. s.index \in Nat
    BY DEF MachineOK, DataOK
<1>3. DataOK(code, data) /\ data.index <= s.index + 1
    BY <1>1, <1>2 DEF MachineOK, DataOK
<1> QED BY <1>1, <1>3 DEF data

\* A step is a block of each kernel.
LEMMA StepIsBlocks ==
    ASSUME IsRunning, KernelNext
    PROVE  \E inputs, eof, after :
              /\ ended = {} /\ eof \in SUBSET Block
              /\ \A k \in Kernels : \A v \in Inputs(Code(k)) : inputs[k][v] \in SUBSET Block
              /\ \A k \in Kernels :
                    /\ after[k] = RunBlock(Code(k), Start(Code(k), inputs[k], eof, carries[k]))
                    /\ MachineOK(Code(k), Start(Code(k), inputs[k], eof, carries[k]))
                    /\ MachineOK(Code(k), after[k]) /\ after[k].pc = Len(Code(k)) + 1
              /\ FinishBlock(inputs, eof, after)
<1>1. PICK inputs \in [Kernels -> [UNION {Inputs(Code(k)) : k \in Kernels} -> SUBSET Block]],
           eof \in {{}} \cup {{p} : p \in Block} : DoBlocks(inputs, eof)
    BY DEF KernelNext
<1> DEFINE after == [k \in Kernels |-> RunBlock(Code(k), Start(Code(k), inputs[k], eof, carries[k]))]
<1>2. ended = {} /\ FinishBlock(inputs, eof, after)
    BY <1>1 DEF DoBlocks
<1>3. eof \in SUBSET Block
    OBVIOUS
<1>4. \A k \in Kernels : \A v \in Inputs(Code(k)) : inputs[k][v] \in SUBSET Block
    <2> SUFFICES ASSUME NEW k \in Kernels, NEW v \in Inputs(Code(k)) PROVE inputs[k][v] \in SUBSET Block
        OBVIOUS
    <2>1. v \in UNION {Inputs(Code(h)) : h \in Kernels}
        OBVIOUS
    <2> QED BY <2>1
<1>5. ASSUME NEW k \in Kernels
      PROVE  /\ after[k] = RunBlock(Code(k), Start(Code(k), inputs[k], eof, carries[k]))
             /\ MachineOK(Code(k), Start(Code(k), inputs[k], eof, carries[k]))
             /\ MachineOK(Code(k), after[k]) /\ after[k].pc = Len(Code(k)) + 1
    <2>1. WellFormed(Code(k)) /\ DataOK(Code(k), carries[k])
        BY CodeWellFormed DEF IsRunning
    <2>2. after[k] = RunBlock(Code(k), Start(Code(k), inputs[k], eof, carries[k]))
        OBVIOUS
    <2> HIDE DEF after
    <2>3. \A v \in Inputs(Code(k)) : inputs[k][v] \subseteq Block
        BY <1>4
    <2>4. MachineOK(Code(k), after[k]) /\ after[k].pc = Len(Code(k)) + 1
        BY <1>3, <2>1, <2>2, <2>3, BlockTyped
    <2>5. MachineOK(Code(k), Start(Code(k), inputs[k], eof, carries[k]))
        BY <1>3, <2>1, <2>3, StartTyped
    <2> QED BY <2>2, <2>4, <2>5
<1> HIDE DEF after
<1> QED BY <1>2, <1>3, <1>4, <1>5

-----------------------------------------------------------------------------
(* KernelTypeOK.                                                           *)

\* IsRunning holds at first,
LEMMA RunningAtFirst == KernelInit => IsRunning
<1> SUFFICES ASSUME KernelInit PROVE IsRunning
    OBVIOUS
<1>1. case \in DOMAIN Pipelines /\ (\A k \in Kernels : LoopFree(Code(k))) /\ block = 0
    BY DEF KernelInit, NoBlocksYet
<1>2. ASSUME NEW k \in Kernels
      PROVE  /\ DataOK(Code(k), carries[k]) /\ carries[k].index <= block
             /\ \A v \in Outputs(k) : results[k][v] \subseteq Positions(block)
    <2>1. WellFormed(Code(k))
        BY <1>1, CodeWellFormed
    <2>2. carries[k] = NoCarries(Code(k)) /\ results[k] = [v \in Outputs(k) |-> {}]
        BY DEF KernelInit, NoBlocksYet
    <2>3. carries[k].index = 0
        BY <2>2 DEF NoCarries
    <2> QED BY <1>1, <2>1, <2>2, <2>3, NoCarriesTyped
<1> QED BY <1>1, <1>2 DEF IsRunning

\* The kernels stay what they are.
LEMMA CodeStays ==
    ASSUME UNCHANGED case
    PROVE  Kernels' = Kernels /\ \A k : Code(k)' = Code(k) /\ Outputs(k)' = Outputs(k)
BY DEF Kernels, Code, Codes, Outputs, Written

\* and after every step.
LEMMA RunningStep == IsRunning /\ [KernelNext]_kernelVars => IsRunning'
<1> SUFFICES ASSUME IsRunning, [KernelNext]_kernelVars PROVE IsRunning'
    OBVIOUS
<1>1. CASE UNCHANGED kernelVars
    BY <1>1 DEF IsRunning, kernelVars, Kernels, Code, Outputs
<1>2. CASE KernelNext
    <2>1. PICK inputs, eof, after :
              /\ ended = {} /\ eof \in SUBSET Block
              /\ \A k \in Kernels : \A v \in Inputs(Code(k)) : inputs[k][v] \in SUBSET Block
              /\ \A k \in Kernels :
                    /\ after[k] = RunBlock(Code(k), Start(Code(k), inputs[k], eof, carries[k]))
                    /\ MachineOK(Code(k), Start(Code(k), inputs[k], eof, carries[k]))
                    /\ MachineOK(Code(k), after[k]) /\ after[k].pc = Len(Code(k)) + 1
              /\ FinishBlock(inputs, eof, after)
        BY <1>2, StepIsBlocks
    <2>2. case' = case /\ Kernels' = Kernels /\ \A k : Code(k)' = Code(k) /\ Outputs(k)' = Outputs(k)
        BY <2>1, CodeStays DEF FinishBlock
    <2>3. block' = block + 1 /\ block \in Nat
        BY <2>1 DEF FinishBlock, IsRunning
    <2>4. ASSUME NEW k \in Kernels
          PROVE  /\ DataOK(Code(k), carries'[k]) /\ carries'[k].index <= block'
                 /\ \A v \in Outputs(k) : results'[k][v] \subseteq Positions(block')
        <3>1. WellFormed(Code(k)) /\ LoopFree(Code(k)) /\ Outputs(k) \subseteq Inputs(Code(k)) \cup Defined(Code(k))
            BY CodeWellFormed DEF IsRunning
        <3>2. carries'[k] = NextCarries(Code(k), after[k])
            BY <2>1 DEF FinishBlock
        <3>3. results'[k] = [v \in Outputs(k) |-> results[k][v] \cup Shift(after[k].env[v], block * BlockWidth)]
            BY <2>1 DEF FinishBlock
        <3>4. MachineOK(Code(k), after[k])
            BY <2>1
        <3>5. DataOK(Code(k), carries'[k]) /\ carries'[k].index <= after[k].index + 1
            BY <3>1, <3>2, <3>4, NextTyped
        <3>6. after[k].index = carries[k].index
            <4> DEFINE start == Start(Code(k), inputs[k], eof, carries[k])
            <4>1. start.pc = 1 /\ start.index = carries[k].index
                BY DEF Start
            <4>2. MachineOK(Code(k), start) /\ after[k] = RunBlock(Code(k), start)
                BY <2>1
            <4> HIDE DEF start
            <4> QED BY <3>1, <4>1, <4>2, IndexCounts
        <3>7. carries[k].index <= block /\ carries[k].index \in Nat /\ carries'[k].index \in Nat
            BY <3>5 DEF IsRunning, DataOK
        <3>8. carries'[k].index <= block'
            BY <2>3, <3>5, <3>6, <3>7
        <3>9. ASSUME NEW v \in Outputs(k)
              PROVE  results'[k][v] \subseteq Positions(block')
            <4>1. after[k].env[v] \in SUBSET Block
                BY <3>1, <3>4 DEF MachineOK
            <4>2. results[k][v] \subseteq Positions(block)
                BY DEF IsRunning
            <4> QED BY <2>3, <3>3, <4>1, <4>2, ShiftIntoBlock
        <3> QED BY <3>5, <3>8, <3>9
    <2>5. case' \in DOMAIN Pipelines /\ \A k \in Kernels : LoopFree(Code(k))
        BY <2>2 DEF IsRunning
    <2>6. block' \in Nat
        BY <2>3
    <2> QED BY <2>2, <2>4, <2>5, <2>6 DEF IsRunning
<1> QED BY <1>1, <1>2

\* It is more than KernelTypeOK.
LEMMA RunningIsTyped == IsRunning => KernelTypeOK
<1> SUFFICES ASSUME IsRunning PROVE KernelTypeOK
    OBVIOUS
<1> SUFFICES ASSUME NEW k \in Kernels
             PROVE  /\ \A d \in Places(Code(k)) :
                          \A i \in DOMAIN carries[k].pack[d] : carries[k].pack[d][i] \subseteq Block
                    /\ \A i \in DOMAIN Code(k) :
                          LET st == Code(k)[i].st IN
                          IsLong(st) => carries[k].long[st[2]] \subseteq 0 .. AdvanceBlocks(st[4]) - 1
                    /\ carries[k].selector \in {0, 1}
                    /\ carries[k].index \in 0 .. block
                    /\ \A v \in Outputs(k) : results[k][v] \subseteq Positions(block)
    BY DEF KernelTypeOK, IsRunning
<1>1. /\ DataOK(Code(k), carries[k]) /\ carries[k].index <= block /\ block \in Nat
      /\ \A v \in Outputs(k) : results[k][v] \subseteq Positions(block)
    BY DEF IsRunning
<1>2. ASSUME NEW d \in Places(Code(k)), NEW n \in DOMAIN carries[k].pack[d]
      PROVE  carries[k].pack[d][n] \subseteq Block
    <2>1. PICK i \in DOMAIN Code(k) : Keeps(Code(k)[i]) /\ d = Code(k)[i].st[2]
        BY DEF Places
    <2> QED BY <1>1, <2>1 DEF DataOK, PackOK
<1> QED BY <1>1, <1>2 DEF DataOK, LongOK

\* Whatever the inputs, carries stay in their packs, the record of a long
\* advance within the blocks that it keeps, and results within the blocks
\* done.
THEOREM KernelsAreTyped == KernelSpec => []KernelTypeOK
<1>1. KernelSpec => []IsRunning
    BY RunningAtFirst, RunningStep, PTL DEF KernelSpec
<1> QED BY <1>1, RunningIsTyped, PTL

-----------------------------------------------------------------------------
(* Carries and the summaries of the Ifs around them.                       *)

\* The Ifs whose bodies hold instruction i, or end there.
Open(code, i, e) == e \in Ifs(code) /\ e < i /\ i <= code[e].to

Hearing(code, s, e) ==
    /\ ~Open(code, s.pc, e) => Covered(code, s, e)
    /\ Open(code, s.pc, e) /\ (code[e].own = "explicit" \/ code[e].ifs > 0) =>
          \A j \in Carrying(code) : e < j /\ j < s.pc =>
              \/ Kept(code[j], s) = {}
              \/ \E l \in code[e].ifs + 2 .. Len(s.summaries) : s.summaries[l] # {}
    /\ Open(code, s.pc, e) /\ code[e].own = "none" =>
          \A l \in code[e].ifs + 2 .. Len(s.summaries) : s.summaries[l] = {}
Hears(code, s) == \A e \in Ifs(code) : Hearing(code, s, e)

\* Inside an If, the depth is above that of the If.
LEMMA OpenDepth ==
    ASSUME NEW code, WellFormed(code), NEW i \in DOMAIN code, NEW e, Open(code, i, e)
    PROVE  /\ Depth(code, i - 1) \in Nat /\ code[e].ifs \in Nat /\ Depth(code, i - 1) >= code[e].ifs + 1
           /\ i # code[e].to => i \in Inside(code, e) /\ code[i].ifs \in Nat /\ code[i].ifs > code[e].ifs
<1>1. /\ e \in DOMAIN code /\ e \in Nat /\ i \in Nat /\ code[e].to \in Nat /\ e < i /\ i <= code[e].to
      /\ Depth(code, e - 1) = code[e].ifs /\ DOMAIN code = 1 .. Len(code) /\ Len(code) \in Nat
    <2>1. e \in Ifs(code) /\ e < i /\ i <= code[e].to
        BY DEF Open
    <2>2. e \in DOMAIN code /\ e \in Nat /\ code[e].to \in Nat
        BY <2>1, IfPlace
    <2>3. Depth(code, e - 1) = code[e].ifs
        BY <2>1, IfIs
    <2>4. DOMAIN code = 1 .. Len(code) /\ Len(code) \in Nat
        BY DEF WellFormed, IsCode
    <2> QED BY <2>1, <2>2, <2>3, <2>4
<1>2. \A j \in Inside(code, e) : code[j].ifs > code[e].ifs
    BY DEF Open, WellFormed, Nested
<1>3. code[e].ifs \in Nat
    BY <1>1 DEF WellFormed, IsCode
<1>4. i # code[e].to => i \in Inside(code, e)
    BY <1>1 DEF Inside
<1>5. Depth(code, i - 1) \in Nat /\ Depth(code, i - 1) >= code[e].ifs + 1
    <2>1. CASE i - 1 = e
        <3>1. code[e].st[1] = "if"
            BY DEF Open, Ifs
        <3> QED BY <1>1, <1>3, <2>1, <3>1, DepthIs
    <2>2. CASE i - 1 # e
        <3>1. i - 1 \in Inside(code, e) /\ i - 1 \in DOMAIN code /\ i - 1 # 0
            BY <1>1, <2>2 DEF Inside
        <3>2. code[i - 1].ifs > code[e].ifs /\ code[i - 1].ifs \in Nat
            BY <1>2, <3>1 DEF WellFormed, IsCode
        <3>3. Depth(code, i - 1) = code[i - 1].ifs + (IF code[i - 1].st[1] = "if" THEN 1 ELSE 0)
            BY <3>1 DEF Depth
        <3> QED BY <1>3, <3>2, <3>3
    <2> QED BY <2>1, <2>2
<1>6. i # code[e].to => code[i].ifs \in Nat /\ code[i].ifs > code[e].ifs
    BY <1>2, <1>4 DEF WellFormed, IsCode
<1> QED BY <1>3, <1>4, <1>5, <1>6

\* An instruction that is not an If or its end is in the same Ifs as the next.
LEMMA OpenStays ==
    ASSUME NEW code, WellFormed(code), NEW i \in DOMAIN code, code[i].st[1] \notin {"if", "endif"}, NEW e \in Ifs(code)
    PROVE  /\ Open(code, i, e) <=> Open(code, i + 1, e)
           /\ Open(code, i, e) <=> i \in Inside(code, e)
<1>1. e \in Nat /\ i \in Nat /\ code[e].to \in Nat /\ e # i /\ code[e].to # i
    BY IfIs DEF WellFormed, IsCode, Ifs
<1> QED BY <1>1 DEF Open, Inside

\* What statements do to carries and summaries.
HeardOn(code, s, t) ==
    /\ t.pc = s.pc + 1 /\ Len(t.summaries) = Len(s.summaries)
    /\ \A j \in Carrying(code) : j # s.pc => Kept(code[j], t) = Kept(code[j], s)
    /\ \A e \in Ifs(code) : t.pack[code[e].st[2]] = s.pack[code[e].st[2]]
    /\ s.pc \notin Carrying(code) => t.summaries = s.summaries
    /\ \A l \in 1 .. Len(s.summaries) : s.summaries[l] \subseteq t.summaries[l]
    /\ s.pc \in Carrying(code) =>
          \A e \in Ifs(code) : Open(code, s.pc, e) /\ (code[e].own = "explicit" \/ code[e].ifs > 0) =>
              Kept(code[s.pc], t) = {} \/ t.summaries[Len(s.summaries)] # {}

\* An instruction that stores its carry in the innermost summary, and no
\* other, leaves every If with what it has to hear.
LEMMA HearsOn ==
    ASSUME NEW code, WellFormed(code), NEW s, MachineOK(code, s), s.pc \in DOMAIN code, Hears(code, s),
           code[s.pc].st[1] \notin {"if", "endif"},
           NEW t, HeardOn(code, s, t)
    PROVE  Hears(code, t)
<1> SUFFICES ASSUME NEW e \in Ifs(code) PROVE Hearing(code, t, e)
    BY DEF Hears
<1> DEFINE i == s.pc
<1> USE DEF HeardOn
<1>1. i \in Nat /\ i \in DOMAIN code /\ t.pc = i + 1
    BY DEF WellFormed, IsCode
<1>2. (Open(code, i, e) <=> Open(code, i + 1, e)) /\ (Open(code, i, e) <=> i \in Inside(code, e))
    BY OpenStays
<1>3. Hearing(code, s, e)
    BY DEF Hears
<1>4. ~Open(code, t.pc, e) => Covered(code, t, e)
    <2> SUFFICES ASSUME ~Open(code, t.pc, e) PROVE Covered(code, t, e)
        OBVIOUS
    <2>1. Covered(code, s, e) /\ i \notin Inside(code, e)
        BY <1>1, <1>2, <1>3 DEF Hearing
    <2>2. code[e].loops = 0 /\ e \in DOMAIN code
        BY IfIs, InstructionIs
    <2>3. Side(code[e], s) = 0 /\ Side(code[e], t) = 0
        BY <2>2 DEF Side
    <2>4. \A j \in Carrying(code) \cap Inside(code, e) : Kept(code[j], t) = Kept(code[j], s)
        BY <2>1
    <2> QED BY <2>1, <2>3, <2>4 DEF Covered
<1>5. ASSUME Open(code, t.pc, e), code[e].own = "explicit" \/ code[e].ifs > 0,
             NEW j \in Carrying(code), e < j, j < t.pc
      PROVE  \/ Kept(code[j], t) = {}
             \/ \E l \in code[e].ifs + 2 .. Len(t.summaries) : t.summaries[l] # {}
    <2>1. Open(code, i, e)
        BY <1>1, <1>2, <1>5
    <2>2. /\ Depth(code, i - 1) \in Nat /\ code[e].ifs \in Nat /\ Depth(code, i - 1) >= code[e].ifs + 1
          /\ Len(s.summaries) = 1 + Depth(code, i - 1)
        BY <2>1, OpenDepth DEF MachineOK
    <2>3. CASE j = i
        <3>1. Len(s.summaries) \in code[e].ifs + 2 .. Len(t.summaries)
            BY <2>2
        <3> QED BY <1>5, <2>1, <2>3, <3>1
    <2>4. CASE j # i
        <3>1. j \in Nat
            BY DEF Carrying, WellFormed, IsCode
        <3>2. j < s.pc
            BY <1>1, <1>5, <2>4, <3>1
        <3>3. \/ Kept(code[j], s) = {}
              \/ \E l \in code[e].ifs + 2 .. Len(s.summaries) : s.summaries[l] # {}
            BY <1>3, <1>5, <2>1, <3>2 DEF Hearing
        <3>4. CASE Kept(code[j], s) = {}
            BY <2>4, <3>4
        <3>5. ASSUME NEW l \in code[e].ifs + 2 .. Len(s.summaries), s.summaries[l] # {}
              PROVE  \E m \in code[e].ifs + 2 .. Len(t.summaries) : t.summaries[m] # {}
            <4>1. l \in 1 .. Len(s.summaries)
                BY <2>2
            <4>2. t.summaries[l] # {}
                BY <3>5, <4>1
            <4> QED BY <4>2
        <3> QED BY <3>3, <3>4, <3>5
    <2> QED BY <2>3, <2>4
<1>6. ASSUME Open(code, t.pc, e), code[e].own = "none"
      PROVE  \A l \in code[e].ifs + 2 .. Len(t.summaries) : t.summaries[l] = {}
    <2>1. Open(code, i, e) /\ i \in Inside(code, e)
        BY <1>1, <1>2, <1>6
    <2>2. i \notin Carrying(code)
        <3>1. SummaryOfItsOwn(code, e)
            BY DEF WellFormed, Summarized
        <3>2. Carrying(code) \cap Inside(code, e) = {}
            BY <1>6, <3>1 DEF SummaryOfItsOwn
        <3> QED BY <2>1, <3>2
    <2> QED BY <1>3, <1>6, <2>1, <2>2 DEF Hearing
<1> QED BY <1>4, <1>5, <1>6 DEF Hearing

-----------------------------------------------------------------------------
(* Statements are heard.                                                   *)

\* What an instruction has kept, by its kind.
LEMMA KeptIs ==
    ASSUME NEW code, WellFormed(code), NEW j \in Carrying(code), NEW s
    PROVE  /\ ~IsLong(code[j].st) => Kept(code[j], s) = s.pack[code[j].st[2]][0]
           /\ IsLong(code[j].st) /\ code[j].st[4] > BlockWidth => Kept(code[j], s) = s.long[code[j].st[2]]
           /\ IsLong(code[j].st) /\ ~(code[j].st[4] > BlockWidth) => Kept(code[j], s) = s.pack[code[j].st[2]][0]
<1>1. code[j].loops = 0
    BY InstructionIs DEF Carrying
<1> QED BY <1>1 DEF Kept, Side

\* Storing the carry of one instruction keeps those of others.
LEMMA KeptStays ==
    ASSUME NEW code, WellFormed(code), NEW j \in Carrying(code), NEW s, NEW t,
           t.pack[code[j].st[2]] = s.pack[code[j].st[2]],
           IsLong(code[j].st) => t.long[code[j].st[2]] = s.long[code[j].st[2]]
    PROVE  Kept(code[j], t) = Kept(code[j], s)
BY KeptIs

\* Putting bits into a pack leaves the others alone.
LEMMA PutElsewhere ==
    ASSUME NEW code, WellFormed(code), NEW pack, PackOK(code, pack),
           NEW i \in DOMAIN code, Keeps(code[i]), NEW n \in 0 .. PackSize(code[i].st) - 1, NEW bits
    PROVE  /\ Put(pack, code[i].st[2], n, bits)[code[i].st[2]][n] = bits
           /\ \A j \in DOMAIN code : Keeps(code[j]) /\ j # i =>
                 Put(pack, code[i].st[2], n, bits)[code[j].st[2]] = pack[code[j].st[2]]
<1>1. code[i].st[2] \in DOMAIN pack /\ DOMAIN pack[code[i].st[2]] = 0 .. PackSize(code[i].st) - 1
    BY DEF PackOK, Places
<1>2. ASSUME NEW j \in DOMAIN code, Keeps(code[j]), j # i
      PROVE  Put(pack, code[i].st[2], n, bits)[code[j].st[2]] = pack[code[j].st[2]]
    <2>1. code[j].st[2] # code[i].st[2] /\ code[j].st[2] \in DOMAIN pack
        BY <1>2 DEF WellFormed, UniquePlaces, PackOK, Places
    <2> QED BY <2>1 DEF Put
<1>3. Put(pack, code[i].st[2], n, bits)[code[i].st[2]][n] = bits
    BY <1>1 DEF Put
<1> QED BY <1>2, <1>3

\* A statement without a carry is heard, since there is nothing to hear.
LEMMA HearsBitwise ==
    ASSUME NEW code, WellFormed(code), NEW s, MachineOK(code, s), s.pc \in DOMAIN code, Hears(code, s),
           code[s.pc].st[1] \in Bitwise
    PROVE  Hears(code, Execute(s, code[s.pc]))
<1> DEFINE in == code[s.pc]
           t == Execute(s, in)
           bits == Means(in.st, s.env, Block, s.eof)
<1>1. Effect(s, t, in.st[2], bits, s.pack, s.long, s.summaries)
    BY BitwiseEffect DEF MachineOK
<1>2. in.st[1] \notin {"if", "endif"} /\ s.pc \notin Carrying(code)
    BY DEF Bitwise, Carrying, Producers
<1> HIDE DEF t, bits
<1>3. t.pc = s.pc + 1 /\ t.pack = s.pack /\ t.long = s.long /\ t.summaries = s.summaries
    BY <1>1 DEF Effect
<1>4. \A j \in Carrying(code) : Kept(code[j], t) = Kept(code[j], s)
    BY <1>3, KeptStays
<1>5. Hears(code, t)
    <2>1. HeardOn(code, s, t)
        BY <1>2, <1>3, <1>4 DEF HeardOn
    <2> QED BY <1>2, <2>1, HearsOn
<1> QED BY <1>5 DEF t

\* The levels of the summaries when the top one is added to.
LEMMA HeardLevels ==
    ASSUME NEW code, WellFormed(code), NEW s, MachineOK(code, s), s.pc \in DOMAIN code, NEW bits \in SUBSET Block
    PROVE  /\ Len(Heard(s, bits)) = Len(s.summaries)
           /\ \A l \in 1 .. Len(s.summaries) : s.summaries[l] \subseteq Heard(s, bits)[l]
           /\ bits # {} => Heard(s, bits)[Len(s.summaries)] # {}
<1>1. s.summaries \in Seq(SUBSET Block) /\ Len(s.summaries) > 0 /\ Len(s.summaries) \in 1 .. Len(s.summaries)
    BY DepthIs DEF MachineOK
<1>2. /\ Len(Heard(s, bits)) = Len(s.summaries)
      /\ \A l \in 1 .. Len(s.summaries) :
            Heard(s, bits)[l] = IF l = Len(s.summaries) THEN s.summaries[l] \cup bits ELSE s.summaries[l]
    BY <1>1, HeardIs
<1> QED BY <1>1, <1>2

\* So is ScanThru, MatchStar or a short advance,
LEMMA HearsCarry ==
    ASSUME NEW code, WellFormed(code), NEW s, MachineOK(code, s), s.pc \in DOMAIN code, Hears(code, s),
           s.pc \in Carrying(code), ~IsLong(code[s.pc].st),
           NEW t, NEW bits, NEW out \in SUBSET Block,
           Effect(s, t, code[s.pc].st[2], bits, CarryPack(s, code[s.pc], out), s.long, CarryHeard(s, code[s.pc], out))
    PROVE  Hears(code, t)
<1> DEFINE in == code[s.pc]
<1>1. in.st[1] \notin {"if", "endif"} /\ Keeps(in) /\ PackSize(in.st) = 2
    BY DEF Carrying, Producers, Keeps, PackSize
<1>2. t.pc = s.pc + 1 /\ t.pack = CarryPack(s, in, out) /\ t.long = s.long /\ t.summaries = CarryHeard(s, in, out)
    BY DEF Effect
<1>3. PackOK(code, s.pack) /\ 0 \in 0 .. PackSize(in.st) - 1
    BY <1>1 DEF MachineOK, DataOK
<1>4. /\ t.pack[in.st[2]][0] = out
      /\ \A j \in DOMAIN code : Keeps(code[j]) /\ j # s.pc => t.pack[code[j].st[2]] = s.pack[code[j].st[2]]
    BY <1>1, <1>2, <1>3, PutElsewhere DEF CarryPack
<1>5. \A j \in Carrying(code) : j # s.pc => Kept(code[j], t) = Kept(code[j], s)
    <2> SUFFICES ASSUME NEW j \in Carrying(code), j # s.pc PROVE Kept(code[j], t) = Kept(code[j], s)
        OBVIOUS
    <2>1. j \in DOMAIN code /\ Keeps(code[j])
        BY DEF Carrying, Keeps
    <2> QED BY <1>2, <1>4, <2>1, KeptStays
<1>6. \A e \in Ifs(code) : t.pack[code[e].st[2]] = s.pack[code[e].st[2]]
    <2> SUFFICES ASSUME NEW e \in Ifs(code) PROVE t.pack[code[e].st[2]] = s.pack[code[e].st[2]]
        OBVIOUS
    <2>1. e \in DOMAIN code /\ Keeps(code[e]) /\ e # s.pc
        BY <1>1, IfIs
    <2> QED BY <1>4, <2>1
<1>7. /\ Len(t.summaries) = Len(s.summaries)
      /\ \A l \in 1 .. Len(s.summaries) : s.summaries[l] \subseteq t.summaries[l]
      /\ in.summary # "none" /\ out # {} => t.summaries[Len(s.summaries)] # {}
    BY <1>2, HeardLevels DEF CarryHeard
<1>8. ASSUME NEW e \in Ifs(code), Open(code, s.pc, e)
      PROVE  Kept(in, t) = {} \/ t.summaries[Len(s.summaries)] # {}
    <2>1. Kept(in, t) = out
        BY <1>4, KeptIs
    <2>2. in.ifs > 0
        <3>1. s.pc # code[e].to
            BY <1>1, IfIs
        <3>2. in.ifs \in Nat /\ code[e].ifs \in Nat /\ in.ifs > code[e].ifs
            BY <1>8, <3>1, OpenDepth
        <3> QED BY <3>2
    <2>3. in.summary # "none"
        BY <2>2 DEF WellFormed, Summarized
    <2> QED BY <1>7, <2>1, <2>3
<1>9. HeardOn(code, s, t)
    BY <1>2, <1>5, <1>6, <1>7, <1>8 DEF HeardOn
<1> QED BY <1>1, <1>9, HearsOn

\* A buffer for one block has one slot.
LEMMA OneBlock == NearestPow2(1) = 1
<1>1. Pow2[0] = 1
    BY Pow2Steps
<1>2. \A k \in 0 .. 1 : (Pow2[k] >= 1 /\ \A j \in 0 .. k - 1 : Pow2[j] < 1) => k = 0
    BY <1>1
<1>3. \A j \in 0 .. 0 - 1 : Pow2[j] < 1
    OBVIOUS
<1>4. (CHOOSE k \in 0 .. 1 : Pow2[k] >= 1 /\ \A j \in 0 .. k - 1 : Pow2[j] < 1) = 0
    BY <1>1, <1>2, <1>3
<1> QED BY <1>1, <1>4 DEF NearestPow2

\* and a long advance.
LEMMA HearsLong ==
    ASSUME NEW code, WellFormed(code), LongAdvancesHeard(code),
           NEW s, MachineOK(code, s), s.pc \in DOMAIN code, Hears(code, s),
           code[s.pc].st[1] = "adv", IsLong(code[s.pc].st)
    PROVE  Hears(code, Execute(s, code[s.pc]))
<1> DEFINE in == code[s.pc]
           t == Execute(s, in)
           x == s.env[in.st[3]]
           n == NearestPow2(AdvanceBlocks(in.st[4]))
           slot == IF in.st[4] < BlockWidth THEN 0 ELSE s.index % n
<1>0. Effect(s, t, in.st[2], LongValue(s, in), LongPack(s, in), LongKept(s, in), LongHeard(s, in))
    BY LongEffect, InstructionIs DEF MachineOK
<1>1. in.st[1] \notin {"if", "endif"} /\ Keeps(in) /\ s.pc \in Carrying(code)
    BY DEF Carrying, Producers, Keeps
<1> HIDE DEF t
<1>2. t.pc = s.pc + 1 /\ t.pack = LongPack(s, in) /\ t.long = LongKept(s, in) /\ t.summaries = LongHeard(s, in)
    BY <1>0 DEF Effect
<1>3. s.index \in Nat /\ AdvanceBlocks(in.st[4]) \in Nat \ {0} /\ in.st[4] \in Nat \ {0} /\ PackOK(code, s.pack)
    BY PackSizeIs DEF MachineOK, DataOK, WellFormed
<1>4. slot \in 0 .. PackSize(in.st) - 1
    BY <1>3, LongSlots
<1>5. /\ t.pack[in.st[2]][slot] = x
      /\ \A j \in DOMAIN code : Keeps(code[j]) /\ j # s.pc => t.pack[code[j].st[2]] = s.pack[code[j].st[2]]
    <2>1. t.pack = Put(s.pack, in.st[2], slot, x)
        BY <1>2 DEF LongPack
    <2> HIDE DEF slot, x
    <2> QED BY <1>1, <1>3, <1>4, <2>1, PutElsewhere
<1>6. \A j \in DOMAIN code : Keeps(code[j]) /\ j # s.pc => code[j].st[2] # in.st[2]
    BY <1>1 DEF WellFormed, UniquePlaces
<1>7. \A j \in Carrying(code) : j # s.pc => Kept(code[j], t) = Kept(code[j], s)
    <2> SUFFICES ASSUME NEW j \in Carrying(code), j # s.pc PROVE Kept(code[j], t) = Kept(code[j], s)
        OBVIOUS
    <2>1. j \in DOMAIN code /\ Keeps(code[j]) /\ code[j].st[2] # in.st[2]
        BY <1>6 DEF Carrying, Keeps
    <2>2. t.long[code[j].st[2]] = s.long[code[j].st[2]] \/ ~IsLong(code[j].st)
        <3>1. IsLong(code[j].st) => code[j].st[2] \in DOMAIN s.long
            BY <2>1 DEF MachineOK, DataOK, LongOK
        <3> QED BY <1>2, <2>1, <3>1 DEF LongKept
    <2>3. t.pack[code[j].st[2]] = s.pack[code[j].st[2]]
        BY <1>5, <2>1
    <2> HIDE DEF slot, x, n
    <2> QED BY <2>2, <2>3, KeptStays
<1>8. \A e \in Ifs(code) : t.pack[code[e].st[2]] = s.pack[code[e].st[2]]
    <2> SUFFICES ASSUME NEW e \in Ifs(code) PROVE t.pack[code[e].st[2]] = s.pack[code[e].st[2]]
        OBVIOUS
    <2>1. e \in DOMAIN code /\ Keeps(code[e]) /\ e # s.pc
        BY <1>1, IfIs
    <2> QED BY <1>5, <2>1
<1>9. x \in SUBSET Block
    BY OperandInBlock DEF Operands
<1>10. LongBits(s, in) \subseteq 0 .. AdvanceBlocks(in.st[4]) - 1
    BY DEF LongBits
<1> DEFINE ring == {b % BlockWidth : b \in LongBits(s, in)}
<1>11. ring \in SUBSET Block
    <2>1. ASSUME NEW b \in LongBits(s, in)
          PROVE  b % BlockWidth \in Block
        <3>1. b \in Int
            BY <1>3, <1>10
        <3> QED BY <3>1, PabloConstants DEF Block
    <2> QED BY <2>1
<1>12. /\ Len(t.summaries) = Len(s.summaries)
       /\ \A l \in 1 .. Len(s.summaries) : s.summaries[l] \subseteq t.summaries[l]
       /\ in.ifs # 0 /\ in.st[4] > BlockWidth /\ ring # {} => t.summaries[Len(s.summaries)] # {}
       /\ in.ifs # 0 /\ ~(in.st[4] > BlockWidth) /\ in.summary = "explicit" /\ x # {}
              => t.summaries[Len(s.summaries)] # {}
    <2>1. /\ Len(Heard(s, ring)) = Len(s.summaries)
          /\ \A l \in 1 .. Len(s.summaries) : s.summaries[l] \subseteq Heard(s, ring)[l]
          /\ ring # {} => Heard(s, ring)[Len(s.summaries)] # {}
        <3> HIDE DEF ring
        <3> QED BY <1>11, HeardLevels
    <2>2. /\ Len(Heard(s, x)) = Len(s.summaries)
          /\ \A l \in 1 .. Len(s.summaries) : s.summaries[l] \subseteq Heard(s, x)[l]
          /\ x # {} => Heard(s, x)[Len(s.summaries)] # {}
        <3> HIDE DEF x
        <3> QED BY <1>9, HeardLevels
    <2>3. t.summaries = IF in.ifs = 0 THEN s.summaries
                        ELSE IF in.st[4] > BlockWidth THEN Heard(s, ring)
                        ELSE IF in.summary = "explicit" THEN Heard(s, x)
                        ELSE s.summaries
        BY <1>2 DEF LongHeard
    <2> HIDE DEF ring, x
    <2> QED BY <2>1, <2>2, <2>3
<1>13. ASSUME NEW e \in Ifs(code), Open(code, s.pc, e), code[e].own = "explicit" \/ code[e].ifs > 0
       PROVE  Kept(in, t) = {} \/ t.summaries[Len(s.summaries)] # {}
    <2>1. s.pc \in Inside(code, e) /\ in.ifs \in Nat /\ code[e].ifs \in Nat /\ in.ifs > code[e].ifs
        <3>1. s.pc # code[e].to
            BY <1>1, IfIs
        <3> QED BY <1>13, <3>1, OpenDepth
    <2>2. CASE in.st[4] > BlockWidth
        <3>1. Kept(in, t) = LongBits(s, in)
            <4>1. in.st[2] \in DOMAIN s.long
                BY DEF MachineOK, DataOK, LongOK
            <4>2. Kept(in, t) = t.long[in.st[2]]
                BY <1>1, <2>2, KeptIs
            <4>3. in.ifs # 0
                BY <2>1
            <4> QED BY <1>2, <2>2, <4>1, <4>2, <4>3 DEF LongKept
        <3>2. ring = {} => LongBits(s, in) = {}
            OBVIOUS
        <3>3. in.ifs # 0
            BY <2>1
        <3> HIDE DEF ring
        <3> QED BY <1>12, <2>2, <3>1, <3>2, <3>3
    <2>3. CASE ~(in.st[4] > BlockWidth)
        <3>1. in.summary = "explicit"
            <4>1. CASE in.ifs > 1
                BY <2>3, <4>1, <1>3, PabloConstants DEF LongAdvancesHeard
            <4>2. CASE in.ifs = 1
                <5>1. code[e].ifs = 0 /\ code[e].own = "explicit" /\ in.ifs = code[e].ifs + 1
                    BY <1>13, <2>1, <4>2
                <5> QED BY <2>1, <5>1 DEF WellFormed, Summarized
            <4> QED BY <2>1, <4>1, <4>2
        <3>2. Kept(in, t) = x
            <4>1. AdvanceBlocks(in.st[4]) = 1
                BY <1>3, <2>3, AdvanceBlocksOf, PabloConstants
            <4>2. slot = 0
                <5>1. n = 1
                    BY <4>1, OneBlock
                <5> HIDE DEF n
                <5>2. s.index % n = 0
                    BY <1>3, <5>1
                <5> QED BY <5>2
            <4>3. Kept(in, t) = t.pack[in.st[2]][0]
                BY <1>1, <2>3, KeptIs
            <4> HIDE DEF slot, x
            <4> QED BY <1>5, <4>2, <4>3
        <3>3. in.ifs # 0
            BY <2>1
        <3> HIDE DEF x
        <3> QED BY <1>12, <2>3, <3>1, <3>2, <3>3
    <2> QED BY <2>2, <2>3
<1>14. Hears(code, t)
    <2> HIDE DEF x, slot, n, ring
    <2>1. HeardOn(code, s, t)
        BY <1>1, <1>2, <1>7, <1>8, <1>12, <1>13 DEF HeardOn
    <2> QED BY <1>1, <2>1, HearsOn
<1> QED BY <1>14 DEF t

-----------------------------------------------------------------------------
(* Entering and skipping an If.                                            *)

\* What is covered stays so while the packs inside the If stay.
LEMMA CoveredStays ==
    ASSUME NEW code, WellFormed(code), NEW e \in Ifs(code), NEW s, NEW t,
           t.pack[code[e].st[2]] = s.pack[code[e].st[2]],
           \A j \in Carrying(code) \cap Inside(code, e) : Kept(code[j], t) = Kept(code[j], s),
           Covered(code, s, e)
    PROVE  Covered(code, t, e)
<1>1. code[e].loops = 0
    BY IfIs, InstructionIs
<1> QED BY <1>1 DEF Covered, Side

\* What is kept depends on the packs and records only.
LEMMA KeptSame ==
    ASSUME NEW s, NEW t, t.pack = s.pack, t.long = s.long, t.selector = s.selector
    PROVE  /\ \A in : Kept(in, t) = Kept(in, s)
           /\ \A code, e : Covered(code, t, e) = Covered(code, s, e)
BY DEF Kept, Side, Covered

\* Of the Ifs around an If, which is around it.
LEMMA OpenAround ==
    ASSUME NEW code, WellFormed(code), NEW i \in Ifs(code), NEW e \in Ifs(code)
    PROVE  /\ Open(code, i + 1, e) <=> e = i \/ Open(code, i, e)
           /\ Open(code, code[i].to + 1, e) <=> Open(code, i, e)
           /\ Open(code, i, e) => code[i].to < code[e].to
<1>1. /\ i \in Nat /\ code[i].to \in Nat /\ i < code[i].to /\ i \in DOMAIN code /\ code[i].st[1] = "if"
      /\ code[code[i].to].to = i
    BY IfPlace
<1>2. /\ e \in Nat /\ code[e].to \in Nat /\ e < code[e].to /\ e \in DOMAIN code /\ code[code[e].to].st[1] = "endif"
      /\ code[code[e].to].to = e
    BY IfPlace
<1>3. code[e].to # i
    BY <1>1, <1>2
<1>4. \A f, g \in Ifs(code) : g \in Inside(code, f) => code[g].to < code[f].to
    BY DEF WellFormed, Nested
<1>5. Open(code, i, e) => code[i].to < code[e].to
    <2> SUFFICES ASSUME Open(code, i, e) PROVE code[i].to < code[e].to
        OBVIOUS
    <2>1. i \in Inside(code, e)
        BY <1>1, <1>2, <1>3 DEF Open, Inside
    <2> QED BY <1>4, <2>1
<1>6. Open(code, code[i].to + 1, e) => Open(code, i, e)
    <2> SUFFICES ASSUME Open(code, code[i].to + 1, e) PROVE Open(code, i, e)
        OBVIOUS
    <2>1. e < code[i].to + 1 /\ code[i].to + 1 <= code[e].to
        BY DEF Open
    <2>2. ~(i < e)
        <3> SUFFICES ASSUME i < e PROVE FALSE
            OBVIOUS
        <3>1. e # code[i].to
            <4>1. code[e].st[1] = "if" /\ code[code[i].to].st[1] = "endif"
                BY IfPlace
            <4> QED BY <4>1
        <3>2. e \in Inside(code, i)
            BY <1>1, <1>2, <2>1, <3>1 DEF Inside
        <3> QED BY <1>1, <1>2, <1>4, <2>1, <3>2
    <2>3. e # i
        BY <1>1, <1>2, <2>1
    <2> QED BY <1>1, <1>2, <2>1, <2>2, <2>3 DEF Open
<1>7. Open(code, i, e) => Open(code, code[i].to + 1, e)
    BY <1>1, <1>2, <1>5 DEF Open
<1>8. Open(code, i + 1, e) <=> e = i \/ Open(code, i, e)
    BY <1>1, <1>2, <1>3 DEF Open
<1> QED BY <1>5, <1>6, <1>7, <1>8

\* An If that is entered has everything to hear.
LEMMA HearsEntered ==
    ASSUME NEW code, WellFormed(code), NEW s, MachineOK(code, s), s.pc \in Ifs(code), Hears(code, s),
           NEW t, Entered(s, t)
    PROVE  Hears(code, t)
<1> SUFFICES ASSUME NEW e \in Ifs(code) PROVE Hearing(code, t, e)
    BY DEF Hears
<1> DEFINE i == s.pc
           n == Len(s.summaries)
<1>1. Hearing(code, s, e)
    BY DEF Hears
<1>2. /\ i \in Nat /\ i \in DOMAIN code /\ t.pc = i + 1 /\ t.pack = s.pack /\ t.long = s.long /\ t.selector = s.selector
      /\ t.summaries = Append(s.summaries, {})
    <2>1. i \in Nat /\ i \in DOMAIN code
        BY IfPlace
    <2> QED BY <2>1 DEF Entered
<1>3. /\ s.summaries \in Seq(SUBSET Block) /\ n = 1 + Depth(code, i - 1) /\ n \in Nat
    BY <1>2 DEF MachineOK
<1>4. /\ Len(t.summaries) = n + 1
      /\ \A l \in 1 .. n : t.summaries[l] = s.summaries[l]
      /\ t.summaries[n + 1] = {}
    <2> HIDE DEF n
    <2>1. n = Len(s.summaries)
        BY DEF n
    <2> QED BY <1>2, <1>3, <2>1
<1>5. \A j : Kept(code[j], t) = Kept(code[j], s)
    BY <1>2, KeptSame
<1>6. Open(code, i + 1, e) <=> e = i \/ Open(code, i, e)
    BY OpenAround
<1>7. code[e].ifs \in Nat /\ e \in Nat
    <2>1. e \in DOMAIN code /\ e \in 1 .. Len(code) /\ Len(code) \in Nat
        BY IfIs
    <2> QED BY <2>1, DepthIs
<1>8. Depth(code, i - 1) = code[i].ifs
    BY IfIs
<1> HIDE DEF n
<1>9. ~Open(code, t.pc, e) => Covered(code, t, e)
    BY <1>1, <1>2, <1>6, KeptSame DEF Hearing
<1>10. ASSUME Open(code, t.pc, e), code[e].own = "explicit" \/ code[e].ifs > 0,
              NEW j \in Carrying(code), e < j, j < t.pc
       PROVE  \/ Kept(code[j], t) = {}
              \/ \E l \in code[e].ifs + 2 .. Len(t.summaries) : t.summaries[l] # {}
    <2>1. j \in Nat /\ j # i
        BY DEF Carrying, WellFormed, IsCode, Ifs, Producers
    <2>2. j < i
        BY <1>2, <1>10, <2>1
    <2>3. e # i
        BY <1>2, <1>7, <1>10, <2>1, <2>2
    <2>4. \/ Kept(code[j], s) = {}
          \/ \E l \in code[e].ifs + 2 .. n : s.summaries[l] # {}
        BY <1>1, <1>2, <1>6, <1>10, <2>2, <2>3 DEF Hearing, n
    <2>5. \A l \in code[e].ifs + 2 .. n : l \in 1 .. n /\ l \in code[e].ifs + 2 .. n + 1
        BY <1>3, <1>7
    <2> QED BY <1>4, <1>5, <2>4, <2>5
<1>11. ASSUME Open(code, t.pc, e), code[e].own = "none", NEW l \in code[e].ifs + 2 .. Len(t.summaries)
       PROVE  t.summaries[l] = {}
    <2>1. l \in 1 .. n + 1
        BY <1>4, <1>7
    <2>2. CASE l = n + 1
        BY <1>4, <2>2
    <2>3. CASE l # n + 1
        <3>1. l \in 1 .. n /\ l <= n
            BY <1>3, <2>1, <2>3
        <3>2. e # i
            BY <1>3, <1>7, <1>8, <1>11, <3>1
        <3>3. l \in code[e].ifs + 2 .. Len(s.summaries)
            BY <1>3, <1>7, <3>1 DEF n
        <3> QED BY <1>1, <1>2, <1>4, <1>6, <1>11, <3>1, <3>2, <3>3 DEF Hearing
    <2> QED BY <2>2, <2>3
<1> QED BY <1>9, <1>10, <1>11 DEF Hearing

\* An If is skipped only when no statement in it keeps a carry.
LEMMA SkippedKeepsNothing ==
    ASSUME NEW code, WellFormed(code), NEW s, s.pc \in Ifs(code), Hears(code, s),
           Summary(s, code[s.pc]) = {}, NEW j \in Carrying(code) \cap Inside(code, s.pc)
    PROVE  Kept(code[j], s) = {}
<1> DEFINE i == s.pc
<1>1. i \in Nat /\ code[i].loops = 0
    BY IfIs, InstructionIs
<1>2. \A f \in Ifs(code) : f >= i => Covered(code, s, f)
    <2> SUFFICES ASSUME NEW f \in Ifs(code), f >= i PROVE Covered(code, s, f)
        OBVIOUS
    <2>1. ~Open(code, i, f)
        BY <1>1, IfIs DEF Open
    <2> QED BY <2>1 DEF Hears, Hearing
<1>3. SummaryOfItsOwn(code, i)
    BY DEF WellFormed, Summarized
<1>4. CASE code[i].own = "none"
    BY <1>3, <1>4 DEF SummaryOfItsOwn
<1>5. CASE code[i].own = "explicit"
    <2>1. s.pack[code[i].st[2]][0] = {}
        BY <1>3, <1>5 DEF SummaryOfItsOwn, Summary
    <2>2. Covered(code, s, i)
        BY <1>1, <1>2
    <2> QED BY <1>1, <1>5, <2>1, <2>2 DEF Covered, Side
<1>6. CASE code[i].own = "borrowed"
    <2>0. s.pack[code[i].from][0] = {}
        BY <1>6 DEF Summary
    <2>1. \/ \E c \in Carrying(code) \cap Inside(code, i) :
                                   /\ Carrying(code) \cap Inside(code, i) = {c}
                                   /\ code[i].from = code[c].st[2]
                                   /\ IsLong(code[c].st) => code[c].st[4] <= BlockWidth
          \/ \E f \in Ifs(code) \cap Inside(code, i) :
                                   /\ code[f].own = "explicit"
                                   /\ code[i].from = code[f].st[2]
                                   /\ Carrying(code) \cap Inside(code, i) \subseteq Inside(code, f)
        BY <1>3, <1>6 DEF SummaryOfItsOwn
    <2>2. ASSUME NEW c \in Carrying(code) \cap Inside(code, i),
                 Carrying(code) \cap Inside(code, i) = {c}, code[i].from = code[c].st[2],
                 IsLong(code[c].st) => code[c].st[4] <= BlockWidth
          PROVE  Kept(code[j], s) = {}
        <3>1. j = c
            BY <2>2
        <3>2. IsLong(code[c].st) => ~(code[c].st[4] > BlockWidth)
            <4>1. IsLong(code[c].st) => code[c].st[4] \in Nat
                BY PackSizeIs DEF Carrying, WellFormed
            <4> QED BY <2>2, <4>1, PabloConstants
        <3>3. Kept(code[c], s) = s.pack[code[c].st[2]][0]
            BY <3>2, KeptIs
        <3> QED BY <2>0, <2>2, <3>1, <3>3
    <2>3. ASSUME NEW f \in Ifs(code) \cap Inside(code, i),
                 code[f].own = "explicit", code[i].from = code[f].st[2],
                 Carrying(code) \cap Inside(code, i) \subseteq Inside(code, f)
          PROVE  Kept(code[j], s) = {}
        <3>1. f \in Nat /\ f >= i /\ code[f].loops = 0
            BY <1>1, IfIs, InstructionIs DEF Inside
        <3>2. Covered(code, s, f)
            BY <1>2, <3>1
        <3>3. s.pack[code[f].st[2]][0] = {}
            BY <2>0, <2>3
        <3>4. j \in Carrying(code) \cap Inside(code, f)
            BY <2>3
        <3> QED BY <2>3, <3>1, <3>2, <3>3, <3>4 DEF Covered, Side
    <2> QED BY <2>1, <2>2, <2>3
<1>7. code[i].own \in {"none", "explicit", "borrowed"}
    BY <1>3 DEF SummaryOfItsOwn
<1> QED BY <1>4, <1>5, <1>6, <1>7

\* One that is skipped has heard that there is nothing.
LEMMA HearsSkipped ==
    ASSUME NEW code, WellFormed(code), NEW s, MachineOK(code, s), s.pc \in Ifs(code), Hears(code, s),
           NEW t, Skipped(s, code[s.pc], t), Summary(s, code[s.pc]) = {}
    PROVE  Hears(code, t)
<1> SUFFICES ASSUME NEW e \in Ifs(code) PROVE Hearing(code, t, e)
    BY DEF Hears
<1> DEFINE i == s.pc
<1>1. Hearing(code, s, e)
    BY DEF Hears
<1>2. /\ i \in Nat /\ code[i].to \in Nat /\ i < code[i].to
      /\ t.pc = code[i].to + 1 /\ t.pack = s.pack /\ t.long = s.long /\ t.selector = s.selector
      /\ t.summaries = s.summaries
    <2>1. i \in Nat /\ code[i].to \in Nat /\ i < code[i].to
        BY IfPlace
    <2> QED BY <2>1 DEF Skipped
<1>3. Open(code, t.pc, e) <=> Open(code, i, e)
    BY <1>2, OpenAround
<1>4. \A j : Kept(code[j], t) = Kept(code[j], s)
    BY <1>2, KeptSame
<1>5. ~Open(code, t.pc, e) => Covered(code, t, e)
    BY <1>1, <1>2, <1>3, KeptSame DEF Hearing
<1>6. ASSUME Open(code, t.pc, e), code[e].own = "explicit" \/ code[e].ifs > 0,
             NEW j \in Carrying(code), e < j, j < t.pc
      PROVE  \/ Kept(code[j], t) = {}
             \/ \E l \in code[e].ifs + 2 .. Len(t.summaries) : t.summaries[l] # {}
    <2>1. j \in Nat /\ j # i /\ j # code[i].to
        <3>1. code[i].st[1] = "if" /\ code[code[i].to].st[1] = "endif"
            BY IfPlace
        <3>2. j \in DOMAIN code /\ code[j].st[1] \in Producers
            BY DEF Carrying
        <3>3. j \in Nat
            BY <3>2, InstructionIs
        <3> QED BY <3>1, <3>2, <3>3 DEF Producers
    <2>2. CASE j < i
        BY <1>1, <1>2, <1>3, <1>4, <1>6, <2>2 DEF Hearing
    <2>3. CASE ~(j < i)
        <3>1. j \in Inside(code, i)
            BY <1>2, <1>6, <2>1, <2>3 DEF Inside
        <3> QED BY <1>4, <3>1, SkippedKeepsNothing
    <2> QED BY <2>2, <2>3
<1>7. Open(code, t.pc, e) /\ code[e].own = "none" =>
          \A l \in code[e].ifs + 2 .. Len(t.summaries) : t.summaries[l] = {}
    BY <1>1, <1>2, <1>3 DEF Hearing
<1> QED BY <1>5, <1>6, <1>7 DEF Hearing

-----------------------------------------------------------------------------
(* Leaving an If.                                                          *)

\* Of the Ifs around the end of one, which are around what follows.
LEMMA OpenAtEnd ==
    ASSUME NEW code, WellFormed(code), NEW i \in Ifs(code), NEW e \in Ifs(code)
    PROVE  /\ Open(code, code[i].to + 1, e) <=> e # i /\ Open(code, code[i].to, e)
           /\ Open(code, code[i].to, i)
           /\ Open(code, code[i].to + 1, e) => code[i].ifs \in Nat /\ code[e].ifs \in Nat /\ code[e].ifs < code[i].ifs
<1>1. i \in Nat /\ code[i].to \in Nat /\ i < code[i].to /\ i \in DOMAIN code /\ code[code[i].to].to = i
    BY IfPlace
<1>2. e \in Nat /\ code[e].to \in Nat /\ e < code[e].to /\ code[code[e].to].to = e /\ code[code[e].to].st[1] = "endif"
    BY IfPlace
<1>3. Open(code, code[i].to + 1, e) => e # i /\ Open(code, code[i].to, e)
    <2> SUFFICES ASSUME Open(code, code[i].to + 1, e) PROVE e # i /\ Open(code, code[i].to, e)
        OBVIOUS
    <2>1. Open(code, i, e)
        BY OpenAround
    <2> QED BY <1>1, <1>2, <2>1 DEF Open
<1>4. e # i /\ Open(code, code[i].to, e) => Open(code, code[i].to + 1, e)
    <2> SUFFICES ASSUME e # i, Open(code, code[i].to, e) PROVE Open(code, code[i].to + 1, e)
        OBVIOUS
    <2>1. code[e].to # code[i].to
        BY <1>1, <1>2
    <2> QED BY <1>1, <1>2, <2>1 DEF Open
<1>5. Open(code, code[i].to, i)
    BY <1>1 DEF Open
<1>6. ASSUME Open(code, code[i].to + 1, e)
      PROVE  code[i].ifs \in Nat /\ code[e].ifs \in Nat /\ code[e].ifs < code[i].ifs
    <2>1. Open(code, i, e)
        BY <1>6, OpenAround
    <2>2. i # code[e].to
        BY <1>1, <1>2 DEF Ifs
    <2> QED BY <1>1, <2>1, <2>2, OpenDepth
<1> QED BY <1>3, <1>4, <1>5, <1>6

\* When an If is left, its summary has what it heard, and the If around hears
\* of it.
LEMMA HearsLeft ==
    ASSUME NEW code, WellFormed(code), NEW s, MachineOK(code, s), s.pc \in DOMAIN code, Hears(code, s),
           code[s.pc].st[1] = "endif"
    PROVE  Hears(code, Execute(s, code[s.pc]))
<1> DEFINE in == code[s.pc]
           t == Execute(s, in)
           i == in.to
           n == Len(s.summaries)
<1>1. /\ t.pack = LeftPack(s, in) /\ t.long = s.long
      /\ t.summaries = LeftSummaries(s, in) /\ t.pc = s.pc + 1
    BY LeaveEffect, InstructionIs DEF MachineOK
<1> HIDE DEF t
<1>2. i \in Ifs(code) /\ code[i].to = s.pc
    BY DEF WellFormed, Nested
<1>3. /\ i \in DOMAIN code /\ Keeps(code[i]) /\ PackSize(code[i].st) = 2 /\ in.st[2] = code[i].st[2]
      /\ in.own = code[i].own /\ code[i].st[1] = "if" /\ i \in Nat /\ s.pc \in Nat /\ i < s.pc
    <2> HIDE DEF i
    <2>1. i \in 1 .. Len(code) /\ Len(code) \in Nat /\ code[i].to \in i + 1 .. Len(code)
        BY <1>2, IfIs
    <2>2. i \in Nat /\ s.pc \in Nat /\ i < s.pc
        BY <1>2, <2>1
    <2>3. code[code[i].to] = in
        BY <1>2
    <2> QED BY <1>2, <2>2, <2>3, IfIs
<1>4. s.summaries \in Seq(SUBSET Block) /\ n \in Nat /\ n = code[i].ifs + 2 /\ code[i].ifs \in Nat
    <2>1. Depth(code, s.pc) = Depth(code, s.pc - 1) - 1 /\ Depth(code, s.pc - 1) \in Nat
        BY DepthIs
    <2>2. Depth(code, s.pc) = Depth(code, i - 1) /\ Depth(code, i - 1) = code[i].ifs
        BY <1>2, IfIs
    <2>3. s.summaries \in Seq(SUBSET Block) /\ Len(s.summaries) = 1 + Depth(code, s.pc - 1)
        BY DEF MachineOK
    <2>4. PICK d : d = Depth(code, s.pc - 1)
        OBVIOUS
    <2>5. d \in Nat /\ d - 1 = code[i].ifs /\ n = 1 + d
        BY <2>1, <2>2, <2>3, <2>4
    <2>6. code[i].ifs \in Nat
        BY <1>3, DepthIs
    <2> QED BY <2>3, <2>5, <2>6
<1>5. /\ Len(t.summaries) = n - 1
      /\ \A l \in 1 .. n - 2 : t.summaries[l] = s.summaries[l]
      /\ t.summaries[n - 1] = IF n > 2 /\ in.own # "none" THEN s.summaries[n - 1] \cup s.summaries[n]
                              ELSE s.summaries[n - 1]
    <2>1. Len(s.summaries) > 1
        BY <1>4
    <2>2. /\ Len(LeftSummaries(s, in)) = n - 1
          /\ \A l \in 1 .. n - 2 : LeftSummaries(s, in)[l] = s.summaries[l]
          /\ LeftSummaries(s, in)[n - 1] = IF n > 2 /\ in.own # "none" THEN s.summaries[n - 1] \cup s.summaries[n]
                                           ELSE s.summaries[n - 1]
        BY <1>4, <2>1, LeftSummariesAre
    <2> HIDE DEF n, in, i
    <2> QED BY <1>1, <2>2
<1> HIDE DEF n, i
<1>6. /\ \A j \in DOMAIN code : Keeps(code[j]) /\ j # i => t.pack[code[j].st[2]] = s.pack[code[j].st[2]]
      /\ in.own = "explicit" => t.pack[code[i].st[2]][0] = s.summaries[n]
    <2>1. CASE in.own # "explicit"
        BY <1>1, <2>1 DEF LeftPack
    <2>2. CASE in.own = "explicit"
        <3>1. t.pack = Put(s.pack, code[i].st[2], 0, s.summaries[n])
            BY <1>1, <1>3, <2>2 DEF LeftPack, Top, n
        <3>2. PackOK(code, s.pack) /\ 0 \in 0 .. PackSize(code[i].st) - 1
            BY <1>3 DEF MachineOK, DataOK
        <3> DEFINE bits == s.summaries[n]
        <3>3. i \in DOMAIN code /\ Keeps(code[i]) /\ t.pack = Put(s.pack, code[i].st[2], 0, bits)
            BY <1>3, <3>1
        <3> HIDE DEF bits, in
        <3>4. /\ Put(s.pack, code[i].st[2], 0, bits)[code[i].st[2]][0] = bits
              /\ \A j \in DOMAIN code : Keeps(code[j]) /\ j # i =>
                    Put(s.pack, code[i].st[2], 0, bits)[code[j].st[2]] = s.pack[code[j].st[2]]
            BY <3>2, <3>3, PutElsewhere
        <3> QED BY <3>3, <3>4 DEF bits
    <2> QED BY <2>1, <2>2
<1>7. \A j \in Carrying(code) : Kept(code[j], t) = Kept(code[j], s)
    <2> SUFFICES ASSUME NEW j \in Carrying(code) PROVE Kept(code[j], t) = Kept(code[j], s)
        OBVIOUS
    <2>1. j \in DOMAIN code /\ Keeps(code[j]) /\ j # i
        BY <1>3 DEF Carrying, Keeps, Producers
    <2>2. t.pack[code[j].st[2]] = s.pack[code[j].st[2]]
        BY <1>6, <2>1
    <2> QED BY <1>1, <2>2, KeptStays
<1> SUFFICES ASSUME NEW e \in Ifs(code) PROVE Hearing(code, t, e)
    BY DEF Hears, t
<1>8. Hearing(code, s, e) /\ Hearing(code, s, i)
    BY <1>2 DEF Hears
<1>9. /\ Open(code, t.pc, e) <=> e # i /\ Open(code, s.pc, e)
      /\ Open(code, s.pc, i)
      /\ Open(code, t.pc, e) => code[e].ifs \in Nat /\ code[e].ifs < code[i].ifs
    BY <1>1, <1>2, OpenAtEnd
<1>10. ASSUME ~Open(code, t.pc, e), e # i
       PROVE  Covered(code, t, e)
    <2>1. Covered(code, s, e)
        BY <1>8, <1>9, <1>10 DEF Hearing
    <2>2. t.pack[code[e].st[2]] = s.pack[code[e].st[2]]
        BY <1>6, <1>10, IfIs
    <2> QED BY <1>7, <2>1, <2>2, CoveredStays
<1>11. Covered(code, t, i)
    <2> SUFFICES ASSUME code[i].own = "explicit", t.pack[code[i].st[2]][0] = {},
                        NEW j \in Carrying(code) \cap Inside(code, i)
                 PROVE  Kept(code[j], t) = {}
        <3>1. code[i].loops = 0
            BY <1>3, InstructionIs
        <3> QED BY <3>1 DEF Covered, Side
    <2>1. s.summaries[n] = {}
        BY <1>3, <1>6
    <2>2. j \in Nat /\ i < j /\ j < s.pc
        BY <1>2, <1>3 DEF Inside
    <2>3. \/ Kept(code[j], s) = {}
          \/ \E l \in code[i].ifs + 2 .. n : s.summaries[l] # {}
        BY <1>8, <1>9, <2>2 DEF Hearing, n
    <2>4. \A l \in code[i].ifs + 2 .. n : l = n
        BY <1>4
    <2> QED BY <1>7, <2>1, <2>3, <2>4
<1>12. ASSUME Open(code, t.pc, e), code[e].own = "explicit" \/ code[e].ifs > 0,
              NEW j \in Carrying(code), e < j, j < t.pc
       PROVE  \/ Kept(code[j], t) = {}
              \/ \E l \in code[e].ifs + 2 .. Len(t.summaries) : t.summaries[l] # {}
    <2>1. j \in Nat /\ j # s.pc
        <3>1. j \in DOMAIN code /\ code[j].st[1] # "endif"
            BY DEF Carrying, Producers
        <3> QED BY <3>1, InstructionIs
    <2>2. j < s.pc
        BY <1>1, <1>3, <1>12, <2>1
    <2>3. \/ Kept(code[j], s) = {}
          \/ \E l \in code[e].ifs + 2 .. n : s.summaries[l] # {}
        BY <1>8, <1>9, <1>12, <2>2 DEF Hearing, n
    <2>4. ASSUME NEW l \in code[e].ifs + 2 .. n, s.summaries[l] # {}
          PROVE  \E m \in code[e].ifs + 2 .. Len(t.summaries) : t.summaries[m] # {}
        <3>1. code[e].ifs \in Nat /\ code[e].ifs + 2 <= n - 1 /\ n > 2
            <4>1. code[e].ifs \in Nat /\ code[e].ifs < code[i].ifs
                BY <1>9, <1>12
            <4>2. PICK a \in Nat, b \in Nat : a = code[e].ifs /\ b = code[i].ifs
                BY <1>4, <4>1
            <4>3. a < b /\ n = b + 2
                BY <1>4, <4>1, <4>2
            <4>4. a + 2 <= n - 1 /\ n > 2
                BY <4>3
            <4> QED BY <4>2, <4>4
        <3>0. n \in Nat /\ l \in Int /\ l >= code[e].ifs + 2 /\ l <= n /\ Len(t.summaries) = n - 1
            BY <1>4, <1>5, <3>1
        <3>2. CASE l <= n - 2
            <4>1. l \in 1 .. n - 2 /\ l \in code[e].ifs + 2 .. Len(t.summaries)
                BY <3>0, <3>1, <3>2
            <4> QED BY <1>5, <2>4, <4>1
        <3>3. CASE l = n - 1
            <4>1. n - 1 \in code[e].ifs + 2 .. Len(t.summaries)
                BY <1>4, <1>5, <3>1
            <4>2. t.summaries[n - 1] # {}
                BY <1>5, <2>4, <3>3
            <4> QED BY <4>1, <4>2
        <3>4. CASE l = n
            <4>1. in.own # "none"
                <5> SUFFICES ASSUME code[i].own = "none" PROVE FALSE
                    BY <1>3
                <5>1. n \in code[i].ifs + 2 .. Len(s.summaries)
                    BY <1>4 DEF n
                <5> QED BY <1>8, <1>9, <2>4, <3>4, <5>1 DEF Hearing
            <4>2. n - 1 \in code[e].ifs + 2 .. Len(t.summaries)
                BY <1>4, <1>5, <3>1
            <4>3. t.summaries[n - 1] # {}
                BY <1>5, <2>4, <3>1, <3>4, <4>1
            <4> QED BY <4>2, <4>3
        <3>5. l <= n - 2 \/ l = n - 1 \/ l = n
            BY <3>0
        <3> QED BY <3>2, <3>3, <3>4, <3>5
    <2> QED BY <1>7, <2>3, <2>4
<1>13. ASSUME Open(code, t.pc, e), code[e].own = "none", NEW l \in code[e].ifs + 2 .. Len(t.summaries)
       PROVE  t.summaries[l] = {}
    <2>1. code[e].ifs \in Nat /\ code[e].ifs + 2 <= n - 1
        <3>1. code[e].ifs \in Nat /\ code[e].ifs < code[i].ifs
            BY <1>9, <1>13
        <3>2. PICK a \in Nat, b \in Nat : a = code[e].ifs /\ b = code[i].ifs
            BY <1>4, <3>1
        <3>3. a < b /\ n = b + 2
            BY <1>4, <3>1, <3>2
        <3>4. a + 2 <= n - 1
            BY <3>3
        <3> QED BY <3>2, <3>4
    <2>2. \A m \in code[e].ifs + 2 .. n : s.summaries[m] = {}
        BY <1>8, <1>9, <1>13 DEF Hearing, n
    <2>3. CASE l <= n - 2
        <3>1. l \in 1 .. n - 2 /\ l \in code[e].ifs + 2 .. n
            BY <1>4, <1>5, <2>1, <2>3
        <3> QED BY <1>5, <2>2, <3>1
    <2>4. CASE l = n - 1
        <3>0. PICK m \in Nat : m = code[e].ifs
            BY <2>1
        <3>1. n - 1 \in code[e].ifs + 2 .. n /\ n \in code[e].ifs + 2 .. n
            <4>1. n \in Nat
                BY <1>4
            <4>2. m + 2 <= n - 1
                BY <2>1, <3>0
            <4>3. n - 1 \in m + 2 .. n /\ n \in m + 2 .. n
                BY <4>1, <4>2
            <4> QED BY <3>0, <4>3
        <3>2. s.summaries[n - 1] = {} /\ s.summaries[n] = {}
            BY <2>2, <3>1
        <3>3. t.summaries[n - 1] = {}
            BY <1>5, <3>2
        <3> QED BY <2>4, <3>3
    <2>0. n \in Nat /\ l \in Int /\ l <= n - 1
        <3>1. Len(t.summaries) = n - 1 /\ n \in Nat
            BY <1>4, <1>5
        <3>2. l \in code[e].ifs + 2 .. n - 1
            BY <3>1
        <3> QED BY <2>1, <3>1, <3>2
    <2>5. l <= n - 2 \/ l = n - 1
        BY <2>0
    <2> QED BY <2>3, <2>4, <2>5
<1> QED BY <1>10, <1>11, <1>12, <1>13, <1>9 DEF Hearing

-----------------------------------------------------------------------------
(* SummaryCoversCarries.                                                   *)

\* Every instruction leaves every If with what it has to hear.
LEMMA StepHears ==
    ASSUME NEW code, WellFormed(code), LongAdvancesHeard(code),
           NEW s, MachineOK(code, s), s.pc \in DOMAIN code, Hears(code, s)
    PROVE  Hears(code, Execute(s, code[s.pc]))
<1> DEFINE in == code[s.pc]
           t == Execute(s, in)
<1>0. DOMAIN s = Fields /\ in.loops = 0
    BY InstructionIs DEF MachineOK
<1>1. in.st[1] \in Bitwise \cup Producers \cup {"if", "endif"}
    BY InstructionIs
<1>2. CASE in.st[1] \in Bitwise
    BY <1>2, HearsBitwise
<1>3. CASE in.st[1] = "scan"
    <2> DEFINE sum == ScanSum(s, in)
               bits == (sum \cap Block) \ s.env[in.st[4]]
    <2>1. Effect(s, t, in.st[2], bits, CarryPack(s, in, Over(sum)), s.long, CarryHeard(s, in, Over(sum)))
        BY <1>0, <1>3, ScanEffect
    <2>2. s.env[in.st[3]] \in SUBSET Block /\ s.env[in.st[4]] \in SUBSET Block
        BY <1>3, OperandInBlock DEF Operands
    <2>3. Keeps(in) /\ ~IsLong(in.st) /\ s.pc \in Carrying(code)
        BY <1>3 DEF Keeps, Producers, IsLong, Carrying
    <2>4. Carry(s, in) \in {{}, {0}}
        BY <1>3, <2>3 DEF Carry, MachineOK, DataOK, PackOK
    <2>5. Over(sum) \in {{}, {0}}
        BY <2>2, <2>4, OverIs DEF ScanSum
    <2> HIDE DEF sum, bits, t
    <2>6. Over(sum) \in SUBSET Block
        BY <2>5, ZeroInBlock
    <2>7. Hears(code, t)
        BY <2>1, <2>3, <2>6, HearsCarry
    <2> QED BY <2>7 DEF t
<1>4. CASE in.st[1] = "star"
    <2> DEFINE sum == StarSum(s, in)
               bits == SymDiff(sum \cap Block, s.env[in.st[4]]) \cup s.env[in.st[3]]
    <2>1. Effect(s, t, in.st[2], bits, CarryPack(s, in, Over(sum)), s.long, CarryHeard(s, in, Over(sum)))
        BY <1>0, <1>4, StarEffect
    <2>2. s.env[in.st[3]] \cap s.env[in.st[4]] \in SUBSET Block /\ s.env[in.st[4]] \in SUBSET Block
        BY <1>4, OperandInBlock DEF Operands
    <2>3. Keeps(in) /\ ~IsLong(in.st) /\ s.pc \in Carrying(code)
        BY <1>4 DEF Keeps, Producers, IsLong, Carrying
    <2>4. Carry(s, in) \in {{}, {0}}
        BY <1>4, <2>3 DEF Carry, MachineOK, DataOK, PackOK
    <2>5. Over(sum) \in {{}, {0}}
        <3> HIDE DEF in
        <3> QED BY <2>2, <2>4, OverIsCarry DEF StarSum
    <2> HIDE DEF sum, bits, t
    <2>6. Over(sum) \in SUBSET Block
        BY <2>5, ZeroInBlock
    <2>7. Hears(code, t)
        BY <2>1, <2>3, <2>6, HearsCarry
    <2> QED BY <2>7 DEF t
<1>5. CASE in.st[1] = "adv" /\ ~IsLong(in.st)
    <2> DEFINE moved == Shift(s.env[in.st[3]], in.st[4])
               bits == (moved \cap Block) \cup Carry(s, in)
    <2>1. Effect(s, t, in.st[2], bits, CarryPack(s, in, Over(moved)), s.long, CarryHeard(s, in, Over(moved)))
        BY <1>0, <1>5, AdvanceEffect
    <2>2. s.env[in.st[3]] \in SUBSET Block
        BY <1>5, OperandInBlock DEF Operands
    <2>3. s.pc \in Carrying(code)
        BY <1>5 DEF Producers, Carrying
    <2>4. Over(moved) \in SUBSET Block
        BY <1>5, <2>2, ShortIs, OverShift, PabloConstants
    <2> HIDE DEF moved, bits, t
    <2>5. Hears(code, t)
        BY <1>5, <2>1, <2>3, <2>4, HearsCarry
    <2> QED BY <2>5 DEF t
<1>6. CASE in.st[1] = "adv" /\ IsLong(in.st)
    BY <1>6, HearsLong
<1>7. CASE in.st[1] = "if"
    <2>1. s.pc \in Ifs(code)
        BY <1>7 DEF Ifs
    <2>2. IF s.env[in.st[3]] = {} /\ Summary(s, in) = {} THEN Skipped(s, in, t) ELSE Entered(s, t)
        BY <1>0, <1>7, EnterEffect
    <2> HIDE DEF t
    <2>3. Hears(code, t)
        BY <2>1, <2>2, HearsEntered, HearsSkipped
    <2> QED BY <2>3 DEF t
<1>8. CASE in.st[1] = "endif"
    BY <1>8, HearsLeft
<1> QED BY <1>1, <1>2, <1>3, <1>4, <1>5, <1>6, <1>7, <1>8 DEF Producers

\* What the summaries cover at the start of a block, they cover at its end.
LEMMA BlockHears ==
    ASSUME NEW code, WellFormed(code), LongAdvancesHeard(code),
           NEW start, MachineOK(code, start), start.pc = 1,
           \A e \in Ifs(code) : Covered(code, start, e)
    PROVE  \A e \in Ifs(code) : Covered(code, RunBlock(code, start), e)
<1>0. Len(code) \in Nat /\ DOMAIN code = 1 .. Len(code)
    BY DEF WellFormed, IsCode
<1>1. PICK after : RunBlock(code, start) = after[Len(code)] /\ Runs(code, start, after)
    BY BlockRuns
<1> DEFINE C == {i \in 0 .. Len(code) : ~Hears(code, after[i])}
<1>2. C = {}
    <2> SUFFICES ASSUME C # {} PROVE FALSE
        OBVIOUS
    <2>1. PICK i \in C : \A j \in C : i <= j
        <3>1. C \subseteq Nat
            BY <1>0
        <3> HIDE DEF C
        <3> QED BY <3>1, LeastNumber
    <2>2. i # 0
        <3>1. Hears(code, start)
            <4> SUFFICES ASSUME NEW e \in Ifs(code) PROVE Hearing(code, start, e)
                BY DEF Hears
            <4>1. ~Open(code, start.pc, e)
                BY IfIs DEF Open
            <4> QED BY <4>1 DEF Hearing
        <3> QED BY <1>1, <2>1, <3>1 DEF Runs
    <2>3. i \in 1 .. Len(code) /\ i - 1 \in 0 .. Len(code) /\ Hears(code, after[i - 1])
        BY <1>0, <2>1, <2>2
    <2>4. after[i] # after[i - 1]
        BY <2>1, <2>3
    <2> DEFINE s == after[i - 1]
    <2>5. MachineOK(code, s) /\ s.pc = i /\ after[i] = Execute(s, code[i]) /\ s.pc \in DOMAIN code
        BY <1>0, <1>1, <2>3, <2>4 DEF Runs
    <2>6. Hears(code, s)
        BY <2>3
    <2> HIDE DEF s
    <2>7. Hears(code, after[i])
        BY <2>5, <2>6, StepHears
    <2> QED BY <2>1, <2>7
<1> DEFINE t == after[Len(code)]
<1>3. Len(code) \in 0 .. Len(code)
    BY <1>0
<1>4. Hears(code, t) /\ t.pc = Len(code) + 1
    BY <1>0, <1>1, <1>2, <1>3 DEF Runs
<1> HIDE DEF t
<1>5. ASSUME NEW e \in Ifs(code)
      PROVE  Covered(code, t, e)
    <2>1. ~Open(code, t.pc, e)
        BY <1>0, <1>4, IfIs DEF Open
    <2> QED BY <1>4, <2>1 DEF Hears, Hearing
<1> QED BY <1>1, <1>5 DEF t

\* At first nothing is carried.
LEMMA NothingCarried ==
    ASSUME NEW code, WellFormed(code), NEW e \in Ifs(code)
    PROVE  Covered(code, NoCarries(code), e)
<1> DEFINE data == NoCarries(code)
<1>1. /\ data.pack = [d \in Places(code) |-> [i \in 0 .. PackSize(code[At(code, d)].st) - 1 |-> {}]]
      /\ data.long = [d \in {f \in Places(code) : IsLong(code[At(code, f)].st)} |-> {}]
    BY DEF NoCarries
<1> HIDE DEF data
<1>2. ASSUME NEW j \in Carrying(code)
      PROVE  Kept(code[j], data) = {}
    <2>1. j \in DOMAIN code /\ Keeps(code[j])
        BY DEF Carrying, Keeps
    <2>2. PICK d : d = code[j].st[2]
        OBVIOUS
    <2>3. At(code, d) = j /\ d \in Places(code)
        BY <2>1, <2>2, AtIs
    <2>4. data.pack[d] = [i \in 0 .. PackSize(code[At(code, d)].st) - 1 |-> {}]
        BY <1>1, <2>3
    <2>5. 0 \in 0 .. PackSize(code[j].st) - 1
        BY <2>1, PackSizeIs DEF WellFormed
    <2>6. data.pack[d][0] = {}
        BY <2>3, <2>4, <2>5
    <2>7. IsLong(code[j].st) => data.long[d] = {}
        BY <1>1, <2>3
    <2> QED BY <2>2, <2>6, <2>7, KeptIs
<1>3. Covered(code, data, e)
    BY <1>2 DEF Covered
<1> QED BY <1>3 DEF data

\* The carries are covered at first,
LEMMA CoveredAtFirst == KernelInit => SummaryCoversCarries
<1> SUFFICES ASSUME KernelInit, NEW k \in Kernels, NEW e \in Ifs(Code(k))
             PROVE  Covered(Code(k), carries[k], e)
    BY DEF SummaryCoversCarries
<1>1. WellFormed(Code(k))
    BY RunningAtFirst, CodeWellFormed DEF IsRunning
<1>2. carries[k] = NoCarries(Code(k))
    BY DEF KernelInit, NoBlocksYet
<1> QED BY <1>1, <1>2, NothingCarried

AdvancesHeard == \A k \in Kernels : LongAdvancesHeard(Code(k))

\* and after every step.
LEMMA CoveredStep ==
    ASSUME IsRunning, AdvancesHeard, SummaryCoversCarries, [KernelNext]_kernelVars
    PROVE  AdvancesHeard' /\ SummaryCoversCarries'
<1>1. CASE UNCHANGED kernelVars
    BY <1>1 DEF AdvancesHeard, SummaryCoversCarries, kernelVars, Kernels, Code
<1>2. CASE KernelNext
    <2>1. PICK inputs, eof, after :
              /\ ended = {} /\ eof \in SUBSET Block
              /\ \A k \in Kernels : \A v \in Inputs(Code(k)) : inputs[k][v] \in SUBSET Block
              /\ \A k \in Kernels :
                    /\ after[k] = RunBlock(Code(k), Start(Code(k), inputs[k], eof, carries[k]))
                    /\ MachineOK(Code(k), Start(Code(k), inputs[k], eof, carries[k]))
                    /\ MachineOK(Code(k), after[k]) /\ after[k].pc = Len(Code(k)) + 1
              /\ FinishBlock(inputs, eof, after)
        BY <1>2, StepIsBlocks
    <2>2. Kernels' = Kernels /\ \A k : Code(k)' = Code(k)
        BY <2>1, CodeStays DEF FinishBlock
    <2>3. ASSUME NEW k \in Kernels, NEW e \in Ifs(Code(k))
          PROVE  Covered(Code(k), carries'[k], e)
        <3> DEFINE code == Code(k)
                   start == Start(code, inputs[k], eof, carries[k])
        <3>1. WellFormed(code) /\ LoopFree(code) /\ LongAdvancesHeard(code)
            BY CodeWellFormed DEF IsRunning, AdvancesHeard
        <3>2. carries'[k] = NextCarries(code, after[k])
            BY <2>1 DEF FinishBlock
        <3>3. carries'[k].pack = after[k].pack /\ carries'[k].long = after[k].long /\ carries'[k].selector = 0
            BY <3>1, <3>2 DEF NextCarries
        <3>4. start.pc = 1 /\ start.pack = carries[k].pack /\ start.long = carries[k].long
              /\ start.selector = carries[k].selector
            BY DEF Start
        <3>5. MachineOK(code, start) /\ after[k] = RunBlock(code, start) /\ MachineOK(code, after[k])
            BY <2>1
        <3>6. after[k].selector = 0
            BY <3>5 DEF MachineOK, DataOK
        <3>7. \A f \in Ifs(code) : Covered(code, start, f)
            <4> SUFFICES ASSUME NEW f \in Ifs(code) PROVE Covered(code, start, f)
                OBVIOUS
            <4>1. Covered(code, carries[k], f)
                BY DEF SummaryCoversCarries
            <4> HIDE DEF start
            <4> QED BY <3>4, <4>1, KeptSame
        <3> HIDE DEF start
        <3>8. Covered(code, after[k], e)
            BY <3>1, <3>4, <3>5, <3>7, BlockHears
        <3> QED BY <3>3, <3>6, <3>8, KeptSame
    <2> QED BY <2>2, <2>3 DEF AdvancesHeard, SummaryCoversCarries
<1> QED BY <1>1, <1>2

\* Between blocks, a carry anywhere inside an If is in the summary of the If:
\* "We branch into this If scope iff a carry out was generated by a statement
\* within this If scope" (carry_manager.cpp:470), for every nesting of Ifs
\* and for carries, long advances and summaries of either kind.
THEOREM CarriesAreCovered ==
    KernelSpec /\ AdvancesHeard => []SummaryCoversCarries
<1> DEFINE Inv == IsRunning /\ AdvancesHeard /\ SummaryCoversCarries
<1>1. KernelInit /\ AdvancesHeard => Inv
    BY RunningAtFirst, CoveredAtFirst
<1>2. Inv /\ [KernelNext]_kernelVars => Inv'
    BY RunningStep, CoveredStep
<1>3. Inv => SummaryCoversCarries
    OBVIOUS
<1> QED BY <1>1, <1>2, <1>3, PTL DEF KernelSpec

-----------------------------------------------------------------------------
(* What code means on whole streams, and the blocks of a stream.           *)

\* A block of a stream.
LEMMA BlockAtIs ==
    ASSUME NEW x, x \subseteq Int, NEW w \in Int
    PROVE  /\ BlockAt(x, w) = {p \in Block : w + p \in x}
           /\ BlockAt(x, w) \in SUBSET Block
<1>0. BlockWidth \in Nat
    BY PabloConstants
<1> DEFINE y == {q \in x : w <= q /\ q < w + BlockWidth}
<1>1. \A q \in y : q - w \in Block /\ w + (q - w) = q
    BY <1>0 DEF Block
<1>2. ASSUME NEW p \in Block, w + p \in x
      PROVE  w + p \in y /\ (w + p) - w = p
    BY <1>0, <1>2 DEF Block
<1>3. BlockAt(x, w) = {q - w : q \in y}
    BY DEF BlockAt
<1>4. \A q \in y : q \in x
    OBVIOUS
<1> HIDE DEF y
<1>5. \A q \in y : q - w \in {p \in Block : w + p \in x}
    BY <1>1, <1>4
<1>6. \A p \in {r \in Block : w + r \in x} : p \in {q - w : q \in y}
    BY <1>2
<1> QED BY <1>3, <1>5, <1>6

\* The streams as they are built.
Built(code, inputs, all, eof, f, n) ==
    f = [i \in 0 .. n |->
            IF i = 0 THEN << Initially(code, inputs) >>
            ELSE LET before == f[i - 1] IN Append(before, StreamStep(before[i], code[i].st, all, eof))]

\* The variables before each instruction can be built one after another,
LEMMA StreamsBuilt ==
    ASSUME NEW code, NEW inputs, NEW all, NEW eof, NEW n \in Nat
    PROVE  \E f : Built(code, inputs, all, eof, f, n)
<1> DEFINE C == {m \in Nat : ~\E f : Built(code, inputs, all, eof, f, m)}
<1> SUFFICES ASSUME C # {} PROVE FALSE
    OBVIOUS
<1>1. PICK m \in C : \A k \in C : m <= k
    <2>1. C \subseteq Nat
        OBVIOUS
    <2> HIDE DEF C
    <2> QED BY <2>1, LeastNumber
<1>2. m # 0
    <2> DEFINE f == [i \in 0 .. 0 |-> << Initially(code, inputs) >>]
    <2>1. Built(code, inputs, all, eof, f, 0)
        BY DEF Built
    <2> QED BY <2>1
<1>3. m - 1 \in Nat /\ m - 1 \notin C
    BY <1>1, <1>2
<1>4. PICK before : Built(code, inputs, all, eof, before, m - 1)
    BY <1>3
<1> DEFINE last == LET b == before[m - 1] IN Append(b, StreamStep(b[m], code[m].st, all, eof))
           f == [i \in 0 .. m |-> IF i = m THEN last ELSE before[i]]
<1>5. Built(code, inputs, all, eof, f, m)
    <2> SUFFICES ASSUME NEW i \in 0 .. m
                 PROVE  f[i] = IF i = 0 THEN << Initially(code, inputs) >>
                          ELSE LET b == f[i - 1] IN Append(b, StreamStep(b[i], code[i].st, all, eof))
        BY DEF Built
    <2>1. CASE i = m
        BY <1>2, <2>1
    <2>2. CASE i # m
        <3>1. i \in 0 .. m - 1 /\ f[i] = before[i]
            BY <2>2
        <3>2. i # 0 => f[i - 1] = before[i - 1]
            BY <3>1
        <3> HIDE DEF f, last
        <3> QED BY <1>4, <3>1, <3>2 DEF Built
    <2> QED BY <2>1, <2>2
<1> QED BY <1>5

\* The variables before each instruction follow from those before the last.
StreamsOf(code, inputs, all, eof, V) ==
    /\ V[1] = Initially(code, inputs)
    /\ \A i \in 1 .. Len(code) : V[i + 1] = StreamStep(V[i], code[i].st, all, eof)

\* Appending to a sequence of any elements.
LEMMA AppendIs ==
    ASSUME NEW T, NEW q \in Seq(T), NEW e \in T
    PROVE  /\ Append(q, e) \in Seq(T) /\ Len(Append(q, e)) = Len(q) + 1
           /\ Append(q, e)[Len(q) + 1] = e /\ \A i \in 1 .. Len(q) : Append(q, e)[i] = q[i]
OBVIOUS

\* and each instruction takes them to those before the next.
LEMMA StreamsSteps ==
    ASSUME NEW code, NEW inputs, NEW all, NEW eof, Len(code) \in Nat
    PROVE  StreamsOf(code, inputs, all, eof, Streams(code, inputs, all, eof))
<1>1. Streams(code, inputs, all, eof)
        = (CHOOSE f : Built(code, inputs, all, eof, f, Len(code)))[Len(code)]
    BY DEF Streams, Built
<1>2. PICK f : f = CHOOSE g : Built(code, inputs, all, eof, g, Len(code))
    OBVIOUS
<1>3. Built(code, inputs, all, eof, f, Len(code))
    BY <1>2, StreamsBuilt
<1>4. /\ f[0] = << Initially(code, inputs) >>
      /\ \A i \in 1 .. Len(code) : f[i] = Append(f[i - 1], StreamStep(f[i - 1][i], code[i].st, all, eof))
    <2>1. f[0] = << Initially(code, inputs) >>
        BY <1>3 DEF Built
    <2>2. ASSUME NEW i \in 1 .. Len(code)
          PROVE  f[i] = Append(f[i - 1], StreamStep(f[i - 1][i], code[i].st, all, eof))
        <3>1. i \in 0 .. Len(code) /\ i # 0
            OBVIOUS
        <3> QED BY <1>3, <3>1 DEF Built
    <2> QED BY <2>1, <2>2
<1> DEFINE T == {Initially(code, inputs)} \cup {StreamStep(f[j - 1][j], code[j].st, all, eof) : j \in 1 .. Len(code)}
           Q(i) == /\ f[i] \in Seq(T) /\ Len(f[i]) = i + 1
                   /\ f[i][1] = Initially(code, inputs)
                   /\ \A j \in 1 .. i : f[i][j + 1] = StreamStep(f[i][j], code[j].st, all, eof)
           C == {i \in 0 .. Len(code) : ~Q(i)}
<1>5. C = {}
    <2> SUFFICES ASSUME C # {} PROVE FALSE
        OBVIOUS
    <2>1. PICK i \in C : \A j \in C : i <= j
        <3>1. C \subseteq Nat
            OBVIOUS
        <3> HIDE DEF C
        <3> QED BY <3>1, LeastNumber
    <2>2. i # 0
        <3>1. Q(0)
            BY <1>4
        <3> QED BY <2>1, <3>1
    <2>3. i \in 1 .. Len(code) /\ i - 1 \in 0 .. Len(code) /\ Q(i - 1)
        <3>1. i - 1 \in 0 .. Len(code) /\ i \in 1 .. Len(code) /\ ~(i <= i - 1)
            BY <2>1, <2>2
        <3> HIDE DEF Q
        <3>2. i - 1 \in C => i <= i - 1
            BY <2>1
        <3>3. i - 1 \notin C
            BY <3>1, <3>2
        <3> QED BY <3>1, <3>3
    <2> DEFINE q == f[i - 1]
               e == StreamStep(q[i], code[i].st, all, eof)
    <2>4. q \in Seq(T) /\ Len(q) = i /\ e \in T /\ f[i] = Append(q, e) /\ i \in Nat
        BY <1>4, <2>3
    <2>5. q[1] = Initially(code, inputs) /\ \A j \in 1 .. i - 1 : q[j + 1] = StreamStep(q[j], code[j].st, all, eof)
        BY <2>3
    <2>6. ~Q(i)
        BY <2>1
    <2> HIDE DEF T, q
    <2>7. e = StreamStep(q[i], code[i].st, all, eof)
        OBVIOUS
    <2> HIDE DEF e
    <2>8. /\ f[i] \in Seq(T) /\ Len(f[i]) = i + 1 /\ f[i][i + 1] = e
          /\ \A j \in 1 .. i : f[i][j] = q[j]
        <3> HIDE DEF C, Q
        <3>1. q \in Seq(T) /\ e \in T /\ Len(q) = i
            BY <2>4
        <3>2. /\ Append(q, e) \in Seq(T) /\ Len(Append(q, e)) = Len(q) + 1
              /\ Append(q, e)[Len(q) + 1] = e /\ \A j \in 1 .. Len(q) : Append(q, e)[j] = q[j]
            BY <3>1, AppendIs
        <3>3. f[i] = Append(q, e)
            BY <2>4
        <3> QED BY <3>1, <3>2, <3>3
    <2>9. f[i][1] = Initially(code, inputs)
        BY <2>3, <2>5, <2>8
    <2>10. ASSUME NEW j \in 1 .. i
           PROVE  f[i][j + 1] = StreamStep(f[i][j], code[j].st, all, eof)
        <3>1. CASE j = i
            BY <2>7, <2>8, <3>1
        <3>2. CASE j # i
            <4>1. j \in 1 .. i - 1 /\ j + 1 \in 1 .. i
                BY <2>4, <3>2
            <4> QED BY <2>5, <2>8, <4>1
        <3> QED BY <3>1, <3>2
    <2> QED BY <2>6, <2>8, <2>9, <2>10
<1>6. Len(code) \in 0 .. Len(code)
    OBVIOUS
<1>7. Q(Len(code))
    BY <1>5, <1>6
<1> HIDE DEF C, T
<1> QED BY <1>1, <1>2, <1>7 DEF StreamsOf

-----------------------------------------------------------------------------
(* What statements mean does not depend on what comes later.               *)

\* What a statement means is a stream of positions that there are.
LEMMA MeansInAll ==
    ASSUME NEW st, NEW env, NEW all, NEW eof, st[1] \in Bitwise \cup Producers,
           \A v \in Operands(st) : env[v] \subseteq all
    PROVE  Means(st, env, all, eof) \subseteq all
<1>1. CASE st[1] \in Bitwise
    BY <1>1, BitwiseInBlock
<1>2. CASE st[1] = "adv"
    <2>1. Means(st, env, all, eof) = Shift(env[st[3]], st[4]) \cap all
        BY <1>2 DEF Means
    <2> QED BY <2>1
<1>3. CASE st[1] = "scan"
    <2>1. Means(st, env, all, eof) = Scan(env[st[3]], env[st[4]], all)
        BY <1>3 DEF Means
    <2> QED BY <2>1 DEF Scan
<1>4. CASE st[1] = "star"
    <2>1. Means(st, env, all, eof) = Star(env[st[3]], env[st[4]], all)
        BY <1>4 DEF Means
    <2>2. env[st[3]] \subseteq all
        BY <1>4 DEF Operands
    <2> QED BY <2>1, <2>2 DEF Star
<1> QED BY <1>1, <1>2, <1>3, <1>4 DEF Producers

\* A carry into a position depends on nothing after it.
LEMMA CarryIntoAgrees ==
    ASSUME NEW x \in SUBSET Nat, NEW y \in SUBSET Nat, NEW m \in Nat, NEW p \in 0 .. m
    PROVE  CarryInto(x, y, p) <=> CarryInto(x \cap (0 .. m - 1), y \cap (0 .. m - 1), p)
<1> DEFINE u == x \cap (0 .. m - 1)
           v == y \cap (0 .. m - 1)
<1>1. ASSUME NEW q \in x \cap y, q < p, \A r \in q + 1 .. p - 1 : r \in x \cup y
      PROVE  CarryInto(u, v, p)
    <2>1. q \in u \cap v
        BY <1>1
    <2>2. \A r \in q + 1 .. p - 1 : r \in u \cup v
        BY <1>1
    <2> QED BY <1>1, <2>1, <2>2 DEF CarryInto
<1>2. ASSUME NEW q \in u \cap v, q < p, \A r \in q + 1 .. p - 1 : r \in u \cup v
      PROVE  CarryInto(x, y, p)
    <2>1. q \in x \cap y /\ \A r \in q + 1 .. p - 1 : r \in x \cup y
        BY <1>2
    <2> QED BY <1>2, <2>1 DEF CarryInto
<1> QED BY <1>1, <1>2 DEF CarryInto

\* A scan leaves the markers that no carry meets, and what a carry turns.
LEMMA ScanIs ==
    ASSUME NEW x, NEW y, NEW all, NEW p
    PROVE  p \in Scan(x, y, all) <=> p \in all /\ p \notin y /\ ~(p \in x <=> CarryInto(x, y, p))
<1>1. CarryInto(x, y, p) \in BOOLEAN /\ (p \in x) \in BOOLEAN
    BY DEF CarryInto
<1>2. (p \in x) # CarryInto(x, y, p) <=> ~(p \in x <=> CarryInto(x, y, p))
    BY <1>1
<1>3. p \in Scan(x, y, all) <=> p \in all \ y /\ (p \in x) # CarryInto(x, y, p)
    BY DEF Scan
<1> QED BY <1>2, <1>3

Reaches(x, y, all) == {p \in all : CarryInto(x \cap y, y, p)}

\* A star reaches what a carry reaches.
LEMMA StarIsCarry ==
    ASSUME NEW x \in SUBSET Nat, NEW y \in SUBSET Nat, NEW all \in SUBSET Nat
    PROVE  Star(x, y, all) = x \cup Reaches(x, y, all)
<1>1. ASSUME NEW p \in all
      PROVE  (\E q \in x : q < p /\ \A r \in q .. p - 1 : r \in y) <=> CarryInto(x \cap y, y, p)
    <2>1. ASSUME NEW q \in x, q < p, \A r \in q .. p - 1 : r \in y
          PROVE  CarryInto(x \cap y, y, p)
        <3>1. q \in q .. p - 1 /\ q \in y
            BY <2>1
        <3>2. \A r \in q + 1 .. p - 1 : r \in (x \cap y) \cup y
            BY <2>1
        <3> QED BY <2>1, <3>1, <3>2 DEF CarryInto
    <2>2. ASSUME NEW q \in (x \cap y) \cap y, q < p, \A r \in q + 1 .. p - 1 : r \in (x \cap y) \cup y
          PROVE  \E h \in x : h < p /\ \A r \in h .. p - 1 : r \in y
        <3>1. \A r \in q .. p - 1 : r = q \/ r \in q + 1 .. p - 1
            OBVIOUS
        <3>2. \A r \in q .. p - 1 : r \in y
            BY <2>2, <3>1
        <3> QED BY <2>2, <3>2
    <2> QED BY <2>1, <2>2 DEF CarryInto
<1> QED BY <1>1 DEF Star, Reaches

\* What ScanThru means up to a position depends on its operands up to there.
LEMMA ScanCausal ==
    ASSUME NEW m \in Nat, NEW n \in Nat, m <= n, NEW u \in SUBSET (0 .. n - 1), NEW v \in SUBSET (0 .. n - 1)
    PROVE  Scan(u, v, 0 .. n - 1) \cap (0 .. m - 1)
             = Scan(u \cap (0 .. m - 1), v \cap (0 .. m - 1), 0 .. m - 1)
<1> DEFINE P == 0 .. m - 1
<1>1. u \in SUBSET Nat /\ v \in SUBSET Nat
    OBVIOUS
<1>2. \A p \in P : p \in 0 .. m
    OBVIOUS
<1>3. \A p \in P : CarryInto(u, v, p) <=> CarryInto(u \cap P, v \cap P, p)
    BY <1>1, <1>2, CarryIntoAgrees
<1>4. \A p \in P : p \in 0 .. n - 1
    OBVIOUS
<1> HIDE DEF P
<1>5. Scan(u, v, 0 .. n - 1) \cap P = Scan(u \cap P, v \cap P, P)
    <2>1. ASSUME NEW p \in P
          PROVE  p \in Scan(u, v, 0 .. n - 1) <=> p \in Scan(u \cap P, v \cap P, P)
        <3>1. p \in Scan(u, v, 0 .. n - 1) <=> p \in 0 .. n - 1 /\ p \notin v /\ ~(p \in u <=> CarryInto(u, v, p))
            BY ScanIs
        <3>2. p \in Scan(u \cap P, v \cap P, P)
                <=> p \in P /\ p \notin v \cap P /\ ~(p \in u \cap P <=> CarryInto(u \cap P, v \cap P, p))
            BY ScanIs
        <3> QED BY <1>3, <1>4, <3>1, <3>2
    <2>2. Scan(u \cap P, v \cap P, P) \subseteq P
        BY DEF Scan
    <2> QED BY <2>1, <2>2
<1> QED BY <1>5 DEF P

\* So does what MatchStar means,
LEMMA StarCausal ==
    ASSUME NEW m \in Nat, NEW n \in Nat, m <= n, NEW u \in SUBSET (0 .. n - 1), NEW v \in SUBSET (0 .. n - 1)
    PROVE  Star(u, v, 0 .. n - 1) \cap (0 .. m - 1)
             = Star(u \cap (0 .. m - 1), v \cap (0 .. m - 1), 0 .. m - 1)
<1> DEFINE P == 0 .. m - 1
           all == 0 .. n - 1
<1>1. /\ u \in SUBSET Nat /\ v \in SUBSET Nat /\ u \cap v \in SUBSET Nat /\ all \in SUBSET Nat
      /\ u \cap P \in SUBSET Nat /\ v \cap P \in SUBSET Nat /\ P \in SUBSET Nat
    OBVIOUS
<1>2. \A p \in P : p \in 0 .. m /\ p \in all
    OBVIOUS
<1>3. \A p \in P : CarryInto(u \cap v, v, p) <=> CarryInto((u \cap v) \cap P, v \cap P, p)
    BY <1>1, <1>2, CarryIntoAgrees
<1>4. (u \cap v) \cap P = (u \cap P) \cap (v \cap P)
    OBVIOUS
<1> HIDE DEF P, all
<1>5. Star(u, v, all) = u \cup Reaches(u, v, all)
    BY <1>1, StarIsCarry
<1>6. Star(u \cap P, v \cap P, P) = (u \cap P) \cup Reaches(u \cap P, v \cap P, P)
    BY <1>1, StarIsCarry
<1>7. Star(u, v, all) \cap P = Star(u \cap P, v \cap P, P)
    BY <1>2, <1>3, <1>4, <1>5, <1>6 DEF Reaches
<1> QED BY <1>7 DEF P, all

\* Streams that go on: ext is env on the first m positions, and more.
GoesOn(ext, env, vars, m, n) ==
    \A v \in vars : ext[v] \subseteq 0 .. n - 1 /\ ext[v] \cap (0 .. m - 1) = env[v]

\* Operands that go on past m, up to n.
OperandsGoOn(st, env, eof, ext, over, m, n) ==
    /\ m \in Nat /\ n \in Nat /\ m <= n
    /\ st[1] \in Bitwise \cup Producers
    /\ st[1] = "adv" => st[4] \in Nat \ {0}
    /\ GoesOn(ext, env, Operands(st), m, n)
    /\ over \cap (0 .. m - 1) = eof

\* What a statement means on streams that go on goes on.
LEMMA MeansCausal ==
    ASSUME NEW st, NEW env, NEW eof, NEW ext, NEW over, NEW m, NEW n, OperandsGoOn(st, env, eof, ext, over, m, n)
    PROVE  Means(st, ext, 0 .. n - 1, over) \cap (0 .. m - 1) = Means(st, env, 0 .. m - 1, eof)
<1>h. /\ m \in Nat /\ n \in Nat /\ m <= n
      /\ st[1] \in Bitwise \cup Producers /\ (st[1] = "adv" => st[4] \in Nat \ {0})
      /\ GoesOn(ext, env, Operands(st), m, n) /\ over \cap (0 .. m - 1) = eof
    BY DEF OperandsGoOn
<1> USE <1>h
<1> DEFINE all == 0 .. n - 1
           P == 0 .. m - 1
           x == env[st[3]]
           y == env[st[4]]
           u == ext[st[3]]
           v == ext[st[4]]
<1>0. P \subseteq all /\ P \subseteq Nat /\ all \subseteq Nat
    OBVIOUS
<1>1. st[1] \in {"set", "not", "eof", "adv", "and", "or", "xor", "scan", "star"} => u \subseteq all /\ u \cap P = x
    BY DEF Operands, GoesOn
<1>2. st[1] \in {"and", "or", "xor", "scan", "star"} => v \subseteq all /\ v \cap P = y
    BY DEF Operands, GoesOn
<1> HIDE DEF all, P, x, y, u, v
<1>z. CASE st[1] = "zero"
    <2>1. Means(st, ext, all, over) = {} /\ Means(st, env, P, eof) = {}
        BY <1>z DEF Means
    <2> QED BY <2>1 DEF all, P
<1>o. CASE st[1] = "ones"
    <2>1. Means(st, ext, all, over) = all /\ Means(st, env, P, eof) = P
        BY <1>o DEF Means
    <2>2. all \cap P = P
        BY <1>0
    <2> QED BY <2>1, <2>2 DEF all, P
<1>s. CASE st[1] = "set"
    <2>1. Means(st, ext, all, over) = u /\ Means(st, env, P, eof) = x
        BY <1>s DEF Means, x, u
    <2> QED BY <1>1, <1>s, <2>1 DEF all, P
<1>n. CASE st[1] = "not"
    <2>1. Means(st, ext, all, over) = all \ u /\ Means(st, env, P, eof) = P \ x
        BY <1>n DEF Means, x, u
    <2>2. (all \ u) \cap P = P \ x
        BY <1>0, <1>1, <1>n
    <2> QED BY <2>1, <2>2 DEF all, P
<1>a. CASE st[1] = "and"
    <2>1. Means(st, ext, all, over) = u \cap v /\ Means(st, env, P, eof) = x \cap y
        BY <1>a DEF Means, x, u, y, v
    <2>2. (u \cap v) \cap P = x \cap y
        BY <1>1, <1>2, <1>a
    <2> QED BY <2>1, <2>2 DEF all, P
<1>r. CASE st[1] = "or"
    <2>1. Means(st, ext, all, over) = u \cup v /\ Means(st, env, P, eof) = x \cup y
        BY <1>r DEF Means, x, u, y, v
    <2>2. (u \cup v) \cap P = x \cup y
        BY <1>1, <1>2, <1>r
    <2> QED BY <2>1, <2>2 DEF all, P
<1>x. CASE st[1] = "xor"
    <2>1. Means(st, ext, all, over) = SymDiff(u, v) /\ Means(st, env, P, eof) = SymDiff(x, y)
        BY <1>x DEF Means, x, u, y, v
    <2>2. SymDiff(u, v) \cap P = SymDiff(x, y)
        BY <1>1, <1>2, <1>x DEF SymDiff
    <2> QED BY <2>1, <2>2 DEF all, P
<1>e. CASE st[1] = "eof"
    <2>1. Means(st, ext, all, over) = u \cap over /\ Means(st, env, P, eof) = x \cap eof
        BY <1>e DEF Means, x, u
    <2>2. over \cap P = eof
        BY DEF P
    <2>3. (u \cap over) \cap P = x \cap eof
        BY <1>1, <1>e, <2>2
    <2> QED BY <2>1, <2>3 DEF all, P
<1>d. CASE st[1] = "adv"
    <2>1. Means(st, ext, all, over) = Shift(u, st[4]) \cap all /\ Means(st, env, P, eof) = Shift(x, st[4]) \cap P
        BY <1>d DEF Means, x, u
    <2>2. (Shift(u, st[4]) \cap all) \cap P = Shift(x, st[4]) \cap P
        <3> DEFINE k == st[4]
        <3>1. k \in Nat
            BY <1>d
        <3> HIDE DEF k
        <3>2. ASSUME NEW p \in u, p + k \in P
              PROVE  p \in x
            <4>1. p \in Nat
                BY <1>0, <1>1, <1>d
            <4>2. p \in P
                BY <3>1, <3>2, <4>1 DEF P
            <4> QED BY <1>1, <1>d, <4>2
        <3>3. x \subseteq u
            BY <1>1, <1>d
        <3>4. (Shift(u, k) \cap all) \cap P = Shift(x, k) \cap P
            BY <1>0, <3>2, <3>3 DEF Shift
        <3> QED BY <3>4 DEF k
    <2> QED BY <2>1, <2>2 DEF all, P
<1>c. CASE st[1] = "scan"
    <2>1. Means(st, ext, all, over) = Scan(u, v, all) /\ Means(st, env, P, eof) = Scan(x, y, P)
        BY <1>c DEF Means, x, u, y, v
    <2>2. u \in SUBSET all /\ v \in SUBSET all /\ u \cap P = x /\ v \cap P = y
        BY <1>1, <1>2, <1>c
    <2>3. Scan(u, v, all) \cap P = Scan(x, y, P)
        BY <2>2, ScanCausal DEF all, P
    <2> QED BY <2>1, <2>3 DEF all, P
<1>t. CASE st[1] = "star"
    <2>1. Means(st, ext, all, over) = Star(u, v, all) /\ Means(st, env, P, eof) = Star(x, y, P)
        BY <1>t DEF Means, x, u, y, v
    <2>2. u \in SUBSET all /\ v \in SUBSET all /\ u \cap P = x /\ v \cap P = y
        BY <1>1, <1>2, <1>t
    <2>3. Star(u, v, all) \cap P = Star(x, y, P)
        BY <2>2, StarCausal DEF all, P
    <2> QED BY <2>1, <2>3 DEF all, P
<1> QED BY <1>z, <1>o, <1>s, <1>n, <1>a, <1>r, <1>x, <1>e, <1>d, <1>c, <1>t DEF Bitwise, Producers

\* What an instruction of a kernel can be, and what its operands are.
LEMMA StatementIs ==
    ASSUME NEW code, WellFormed(code), NEW i \in 1 .. Len(code)
    PROVE  /\ i \in DOMAIN code /\ i \in Nat /\ Len(code) \in Nat
           /\ code[i].st[1] \in Branches <=> code[i].st[1] \in {"if", "endif"}
           /\ code[i].st[1] \notin Branches => code[i].st[1] \in Bitwise \cup Producers
           /\ code[i].st[1] = "adv" => code[i].st[4] \in Nat \ {0}
           /\ Operands(code[i].st) \subseteq Inputs(code) \cup Defined(code)
           /\ code[i].st[2] \in Defined(code)
<1>1. i \in DOMAIN code /\ i \in Nat /\ Len(code) \in Nat
    BY DEF WellFormed, IsCode
<1>2. code[i].st[1] \in Bitwise \cup Producers \cup {"if", "endif"}
    BY <1>1, InstructionIs
<1>3. code[i].st[1] \in Bitwise \cup Producers => code[i].st[1] \notin Branches
    BY DEF Bitwise, Producers, Branches
<1>4. code[i].st[1] \in Branches <=> code[i].st[1] \in {"if", "endif"}
    BY <1>2, <1>3 DEF Branches
<1>5. code[i].st[1] = "adv" => code[i].st[4] \in Nat \ {0}
    BY <1>1 DEF WellFormed, IsCode
<1> QED BY <1>1, <1>2, <1>4, <1>5, OperandIsVariable DEF WellFormed

Variables(code) == Inputs(code) \cup Defined(code)

\* All variables are streams of positions that there are,
LEMMA StreamsTyped ==
    ASSUME NEW code, WellFormed(code), NEW inputs, NEW all, NEW eof, NEW V, StreamsOf(code, inputs, all, eof, V),
           \A v \in Inputs(code) : inputs[v] \subseteq all
    PROVE  \A i \in 1 .. Len(code) + 1 :
              DOMAIN V[i] = Variables(code) /\ \A v \in Variables(code) : V[i][v] \subseteq all
<1>0. Len(code) \in Nat
    BY DEF WellFormed, IsCode
<1> DEFINE P(i) == DOMAIN V[i] = Variables(code) /\ \A v \in Variables(code) : V[i][v] \subseteq all
           C == {i \in 1 .. Len(code) + 1 : ~P(i)}
<1> SUFFICES ASSUME C # {} PROVE FALSE
    OBVIOUS
<1>1. PICK i \in C : \A j \in C : i <= j
    <2>1. C \subseteq Nat
        BY <1>0
    <2> HIDE DEF C
    <2> QED BY <2>1, LeastNumber
<1>2. i # 1
    <2>1. V[1] = Initially(code, inputs)
        BY DEF StreamsOf
    <2>2. P(1)
        BY <2>1 DEF Initially, Variables
    <2> QED BY <1>1, <2>2
<1>3. i - 1 \in 1 .. Len(code) /\ i = (i - 1) + 1 /\ P(i - 1)
    <2>1. i - 1 \in 1 .. Len(code) /\ i = (i - 1) + 1 /\ ~(i <= i - 1) /\ i - 1 \in 1 .. Len(code) + 1
        BY <1>0, <1>1, <1>2
    <2> HIDE DEF P
    <2>2. i - 1 \in C => i <= i - 1
        BY <1>1
    <2> QED BY <2>1, <2>2
<1> DEFINE j == i - 1
           st == code[j].st
<1>4. V[j + 1] = StreamStep(V[j], st, all, eof)
    BY <1>3 DEF StreamsOf
<1>5. CASE st[1] \in Branches
    <2>1. V[j + 1] = V[j]
        BY <1>4, <1>5 DEF StreamStep
    <2> QED BY <1>1, <1>3, <2>1
<1>6. CASE st[1] \notin Branches
    <2>1. V[j + 1] = [V[j] EXCEPT ![st[2]] = Means(st, V[j], all, eof)]
        BY <1>4, <1>6 DEF StreamStep
    <2>2. st[1] \in Bitwise \cup Producers /\ Operands(st) \subseteq Variables(code)
        BY <1>3, <1>6, StatementIs DEF Variables
    <2>3. Means(st, V[j], all, eof) \subseteq all
        BY <1>3, <2>2, MeansInAll
    <2> HIDE DEF j, st
    <2>4. P(j + 1)
        BY <1>3, <2>1, <2>3 DEF j
    <2> QED BY <1>1, <1>3, <2>4 DEF j
<1> QED BY <1>5, <1>6

\* What code means on streams that go on is what it means on those before, and
\* goes on.

\* The streams before and after there is more.
StreamsGoOn(code, inputs, eof, V, more, over, U, m, n) ==
    /\ m \in Nat /\ n \in Nat /\ m <= n /\ WellFormed(code)
    /\ StreamsOf(code, inputs, 0 .. m - 1, eof, V)
    /\ StreamsOf(code, more, 0 .. n - 1, over, U)
    /\ GoesOn(more, inputs, Inputs(code), m, n)
    /\ over \cap (0 .. m - 1) = eof

\* and they go on as the streams given to the code go on.
LEMMA StreamsCausal ==
    ASSUME NEW code, NEW inputs, NEW eof, NEW V, NEW more, NEW over, NEW U, NEW m, NEW n,
           StreamsGoOn(code, inputs, eof, V, more, over, U, m, n)
    PROVE  \A i \in 1 .. Len(code) + 1 : \A v \in Variables(code) : U[i][v] \cap (0 .. m - 1) = V[i][v]
<1>h. /\ m \in Nat /\ n \in Nat /\ m <= n /\ WellFormed(code)
      /\ StreamsOf(code, inputs, 0 .. m - 1, eof, V) /\ StreamsOf(code, more, 0 .. n - 1, over, U)
      /\ GoesOn(more, inputs, Inputs(code), m, n) /\ over \cap (0 .. m - 1) = eof
    BY DEF StreamsGoOn
<1> USE <1>h
<1>0. Len(code) \in Nat
    BY DEF WellFormed, IsCode
<1> DEFINE all == 0 .. n - 1
           pre == 0 .. m - 1
           P(i) == \A v \in Variables(code) : U[i][v] \cap pre = V[i][v]
           C == {i \in 1 .. Len(code) + 1 : ~P(i)}
<1>c. \A v \in Inputs(code) : more[v] \subseteq all /\ more[v] \cap pre = inputs[v] /\ inputs[v] \subseteq pre
    BY DEF GoesOn
<1>a. \A i \in 1 .. Len(code) + 1 :
              DOMAIN U[i] = Variables(code) /\ \A v \in Variables(code) : U[i][v] \subseteq all
    BY <1>c, StreamsTyped
<1>b. \A i \in 1 .. Len(code) + 1 :
              DOMAIN V[i] = Variables(code) /\ \A v \in Variables(code) : V[i][v] \subseteq pre
    BY <1>c, StreamsTyped
<1> SUFFICES ASSUME C # {} PROVE FALSE
    OBVIOUS
<1>1. PICK i \in C : \A j \in C : i <= j
    <2>1. C \subseteq Nat
        BY <1>0
    <2> HIDE DEF C
    <2> QED BY <2>1, LeastNumber
<1>2. i # 1
    <2>1. U[1] = Initially(code, more) /\ V[1] = Initially(code, inputs)
        BY DEF StreamsOf
    <2>2. P(1)
        BY <1>c, <2>1 DEF Initially, Variables
    <2> QED BY <1>1, <2>2
<1>3. i - 1 \in 1 .. Len(code) /\ i = (i - 1) + 1 /\ P(i - 1) /\ i - 1 \in 1 .. Len(code) + 1
    <2>1. i - 1 \in 1 .. Len(code) /\ i = (i - 1) + 1 /\ ~(i <= i - 1) /\ i - 1 \in 1 .. Len(code) + 1
        BY <1>0, <1>1, <1>2
    <2> HIDE DEF P
    <2>2. i - 1 \in C => i <= i - 1
        BY <1>1
    <2> QED BY <2>1, <2>2
<1> DEFINE j == i - 1
           st == code[j].st
<1>4. U[j + 1] = StreamStep(U[j], st, all, over) /\ V[j + 1] = StreamStep(V[j], st, pre, eof)
    BY <1>3 DEF StreamsOf
<1>5. CASE st[1] \in Branches
    <2>1. U[j + 1] = U[j] /\ V[j + 1] = V[j]
        BY <1>4, <1>5 DEF StreamStep
    <2> QED BY <1>1, <1>3, <2>1
<1>6. CASE st[1] \notin Branches
    <2>1. /\ U[j + 1] = [U[j] EXCEPT ![st[2]] = Means(st, U[j], all, over)]
          /\ V[j + 1] = [V[j] EXCEPT ![st[2]] = Means(st, V[j], pre, eof)]
        BY <1>4, <1>6 DEF StreamStep
    <2>2. /\ st[1] \in Bitwise \cup Producers /\ Operands(st) \subseteq Variables(code)
          /\ st[1] = "adv" => st[4] \in Nat \ {0}
        BY <1>3, <1>6, StatementIs DEF Variables
    <2>3. GoesOn(U[j], V[j], Operands(st), m, n)
        BY <1>3, <1>a, <2>2 DEF GoesOn
    <2>4. Means(st, U[j], all, over) \cap pre = Means(st, V[j], pre, eof)
        <3>1. OperandsGoOn(st, V[j], eof, U[j], over, m, n)
            BY <2>2, <2>3 DEF OperandsGoOn
        <3> HIDE DEF j, st
        <3> QED BY <3>1, MeansCausal
    <2>5. DOMAIN U[j] = Variables(code) /\ DOMAIN V[j] = Variables(code)
        BY <1>3, <1>a, <1>b
    <2>6. P(j)
        BY <1>3
    <2> HIDE DEF j, st, all, pre
    <2>7. P(j + 1)
        BY <2>1, <2>4, <2>5, <2>6
    <2> QED BY <1>1, <1>3, <2>7 DEF j
<1> QED BY <1>5, <1>6

-----------------------------------------------------------------------------
(* The block of a scan and of a star, from the sum of two blocks.          *)

\* A block of a stream has the bits of the stream from a position on.
LEMMA BlockOf ==
    ASSUME NEW x \in SUBSET Nat, NEW w \in Int
    PROVE  BlockAt(x, w) = {p \in Block : w + p \in x} /\ BlockAt(x, w) \in SUBSET Block
<1>1. x \subseteq Int
    OBVIOUS
<1> QED BY <1>1, BlockAtIs

\* The carry into a position, as a block.
CarryBit(x, y, p) == IF CarryInto(x, y, p) THEN {0} ELSE {}

\* The sums that a scan and a star make of a block of their operands.
ScanTotal(x, y, start) == Sum[BlockAt(x, start)][BlockAt(y, start)][CarryBit(x, y, start)]
StarTotal(x, y, start) ==
    Sum[BlockAt(x, start) \cap BlockAt(y, start)][BlockAt(y, start)][CarryBit(x \cap y, y, start)]

\* Those are right: the block is that of the stream, and so is the carry out.
ScanByBlock(x, y, start, all) ==
    /\ BlockAt(Scan(x, y, all), start) = (ScanTotal(x, y, start) \cap Block) \ BlockAt(y, start)
    /\ Over(ScanTotal(x, y, start)) = CarryBit(x, y, start + BlockWidth)

StarByBlock(x, y, start, all) ==
    /\ BlockAt(Star(x, y, all), start)
          = SymDiff(StarTotal(x, y, start) \cap Block, BlockAt(y, start)) \cup BlockAt(x, start)
    /\ Over(StarTotal(x, y, start)) = CarryBit(x \cap y, y, start + BlockWidth)

\* The positions of a block are there.
Reached(all, start) == \A i \in Block : start + i \in all

\* A carry in a stream is one in its block, from the carry into the block.
LEMMA CarryAt ==
    ASSUME NEW x \in SUBSET Nat, NEW y \in SUBSET Nat, NEW start \in Nat, NEW i \in 0 .. BlockWidth
    PROVE  CarryInto(x, y, start + i)
             <=> CarryTo(BlockAt(x, start), BlockAt(y, start), CarryBit(x, y, start), i)
<1> DEFINE u == BlockAt(x, start)
           v == BlockAt(y, start)
<1>0. BlockWidth \in Nat /\ Block = 0 .. BlockWidth - 1
    BY PabloConstants DEF Block
<1>1. u = {p \in Block : start + p \in x} /\ v = {p \in Block : start + p \in y}
    BY BlockOf
<1>2. CarryBit(x, y, start) # {} <=> CarryInto(x, y, start)
    BY DEF CarryBit
<1> HIDE DEF u, v
<1>3. ASSUME CarryInto(x, y, start + i)
      PROVE  CarryTo(u, v, CarryBit(x, y, start), i)
    <2>1. PICK q \in x \cap y : q < start + i /\ \A r \in q + 1 .. start + i - 1 : r \in x \cup y
        BY <1>3 DEF CarryInto
    <2>2. CASE q >= start
        <3>1. q - start \in u \cap v /\ q - start < i /\ q - start \in Nat
            BY <1>0, <1>1, <2>1, <2>2
        <3>2. ASSUME NEW r \in (q - start) + 1 .. i - 1
              PROVE  r \in u \cup v
            <4>1. r \in Block /\ start + r \in q + 1 .. start + i - 1
                BY <1>0, <2>2, <3>1, <3>2
            <4> QED BY <1>1, <2>1, <4>1
        <3>3. CarryInto(u, v, i)
            BY <3>1, <3>2 DEF CarryInto
        <3> QED BY <3>3 DEF CarryTo
    <2>3. CASE q < start
        <3>1. CarryInto(x, y, start)
            <4>1. \A r \in q + 1 .. start - 1 : r \in q + 1 .. start + i - 1
                OBVIOUS
            <4> QED BY <2>1, <2>3, <4>1 DEF CarryInto
        <3>2. ASSUME NEW r \in 0 .. i - 1
              PROVE  r \in u \cup v
            <4>1. r \in Block /\ start + r \in q + 1 .. start + i - 1
                BY <1>0, <2>3, <3>2
            <4> QED BY <1>1, <2>1, <4>1
        <3> QED BY <1>2, <3>1, <3>2 DEF CarryTo
    <2> QED BY <2>2, <2>3
<1>4. ASSUME CarryInto(u, v, i)
      PROVE  CarryInto(x, y, start + i)
    <2>1. PICK q \in u \cap v : q < i /\ \A r \in q + 1 .. i - 1 : r \in u \cup v
        BY <1>4 DEF CarryInto
    <2>2. start + q \in x \cap y /\ start + q < start + i /\ q \in Nat
        BY <1>0, <1>1, <2>1
    <2>3. ASSUME NEW r \in start + q + 1 .. start + i - 1
          PROVE  r \in x \cup y
        <3>1. r - start \in q + 1 .. i - 1 /\ start + (r - start) = r
            BY <2>2, <2>3
        <3> QED BY <1>1, <2>1, <3>1
    <2> QED BY <2>2, <2>3 DEF CarryInto
<1>5. ASSUME CarryInto(x, y, start), \A r \in 0 .. i - 1 : r \in u \cup v
      PROVE  CarryInto(x, y, start + i)
    <2>1. PICK q \in x \cap y : q < start /\ \A r \in q + 1 .. start - 1 : r \in x \cup y
        BY <1>5 DEF CarryInto
    <2>2. ASSUME NEW r \in q + 1 .. start + i - 1
          PROVE  r \in x \cup y
        <3>1. CASE r < start
            BY <2>1, <2>2, <3>1
        <3>2. CASE r >= start
            <4>1. r - start \in 0 .. i - 1 /\ start + (r - start) = r
                BY <2>1, <2>2, <3>2
            <4> QED BY <1>1, <1>5, <4>1
        <3> QED BY <2>1, <2>2, <3>1, <3>2
    <2> QED BY <2>1, <2>2 DEF CarryInto
<1>6. CarryTo(u, v, CarryBit(x, y, start), i) <=> CarryTo(u, v, CarryBit(x, y, start), i)
    OBVIOUS
<1> QED BY <1>2, <1>3, <1>4, <1>5 DEF CarryTo, u, v

\* What ScanThru means is, in a block, what its addition writes,
LEMMA ScanBlock ==
    ASSUME NEW x \in SUBSET Nat, NEW y \in SUBSET Nat, NEW start \in Nat, NEW all \in SUBSET Nat,
           Reached(all, start)
    PROVE  ScanByBlock(x, y, start, all)
<1>r. \A i \in Block : start + i \in all
    BY DEF Reached
<1> SUFFICES LET sum == Sum[BlockAt(x, start)][BlockAt(y, start)][CarryBit(x, y, start)] IN
             /\ BlockAt(Scan(x, y, all), start) = (sum \cap Block) \ BlockAt(y, start)
             /\ Over(sum) = CarryBit(x, y, start + BlockWidth)
    BY DEF ScanTotal, ScanByBlock
<1> DEFINE u == BlockAt(x, start)
           v == BlockAt(y, start)
           c == CarryBit(x, y, start)
           out == Scan(x, y, all)
           sum == Sum[u][v][c]
<1>0. BlockWidth \in Nat /\ Block = 0 .. BlockWidth - 1
    BY PabloConstants DEF Block
<1>1. /\ u = {p \in Block : start + p \in x} /\ v = {p \in Block : start + p \in y}
      /\ u \in SUBSET Block /\ v \in SUBSET Block /\ c \in {{}, {0}}
    BY BlockOf DEF CarryBit
<1>2. \A i \in 0 .. BlockWidth : CarryInto(x, y, start + i) <=> CarryTo(u, v, c, i)
    BY CarryAt
<1>3. BlockAt(out, start) = {p \in Block : start + p \in out}
    <2>1. out \in SUBSET Nat
        BY DEF Scan
    <2> HIDE DEF out
    <2> QED BY <2>1, BlockOf
<1>4. \A i \in Block : start + i \in out <=> start + i \notin y /\ ~(start + i \in x <=> CarryInto(x, y, start + i))
    BY <1>r, ScanIs
<1> HIDE DEF u, v, c, out
<1>5. Over(sum) = IF CarryTo(u, v, c, BlockWidth) THEN {0} ELSE {}
    <2>1. u \in SUBSET Block /\ v \in SUBSET Block /\ c \in {{}, {0}}
        BY <1>1
    <2> QED BY <2>1, OverIs
<1>d. ASSUME NEW i \in Block
      PROVE  i \in sum <=> ((i \in u <=> i \in v) <=> CarryTo(u, v, c, i))
    <2>1. BitOfSum(sum, u, v, c, i)
        BY <1>1, SumBits
    <2> QED BY <2>1 DEF BitOfSum
<1> HIDE DEF sum
<1>6. Over(sum) = CarryBit(x, y, start + BlockWidth)
    <2>1. BlockWidth \in 0 .. BlockWidth
        BY <1>0
    <2> QED BY <1>2, <1>5, <2>1 DEF CarryBit
<1>7. \A i \in Block : i \in BlockAt(out, start) <=> i \in sum \cap Block /\ i \notin v
    <2> SUFFICES ASSUME NEW i \in Block PROVE i \in BlockAt(out, start) <=> i \in sum \cap Block /\ i \notin v
        OBVIOUS
    <2>1. i \in BlockAt(out, start) <=> start + i \notin y /\ ~(start + i \in x <=> CarryInto(x, y, start + i))
        BY <1>3, <1>4
    <2>2. i \in u <=> start + i \in x
        BY <1>1
    <2>3. i \in v <=> start + i \in y
        BY <1>1
    <2>4. i \in 0 .. BlockWidth
        BY <1>0
    <2>5. i \in sum \cap Block <=> ((i \in u <=> i \in v) <=> CarryTo(u, v, c, i))
        BY <1>d
    <2> QED BY <1>2, <2>1, <2>2, <2>3, <2>4, <2>5
<1>8. BlockAt(out, start) \subseteq Block
    BY <1>3
<1> QED BY <1>6, <1>7, <1>8 DEF u, v, c, out, sum

\* and so is what MatchStar means.
LEMMA StarBlock ==
    ASSUME NEW x \in SUBSET Nat, NEW y \in SUBSET Nat, NEW start \in Nat, NEW all \in SUBSET Nat,
           Reached(all, start)
    PROVE  StarByBlock(x, y, start, all)
<1>r. \A i \in Block : start + i \in all
    BY DEF Reached
<1> SUFFICES LET xs  == BlockAt(x, start)
                 ys  == BlockAt(y, start)
                 sum == Sum[xs \cap ys][ys][CarryBit(x \cap y, y, start)] IN
             /\ BlockAt(Star(x, y, all), start) = SymDiff(sum \cap Block, ys) \cup xs
             /\ Over(sum) = CarryBit(x \cap y, y, start + BlockWidth)
    BY DEF StarTotal, StarByBlock
<1> DEFINE u == BlockAt(x, start)
           v == BlockAt(y, start)
           w == u \cap v
           c == CarryBit(x \cap y, y, start)
           out == Star(x, y, all)
           sum == Sum[w][v][c]
<1>0. BlockWidth \in Nat /\ Block = 0 .. BlockWidth - 1
    BY PabloConstants DEF Block
<1>1. /\ u = {p \in Block : start + p \in x} /\ v = {p \in Block : start + p \in y}
      /\ u \in SUBSET Block /\ v \in SUBSET Block /\ w \in SUBSET Block /\ c \in {{}, {0}}
    BY BlockOf DEF CarryBit
<1>a. BlockAt(x \cap y, start) = w
    <2>1. x \cap y \in SUBSET Nat
        OBVIOUS
    <2>2. BlockAt(x \cap y, start) = {p \in Block : start + p \in x \cap y}
        BY <2>1, BlockOf
    <2> QED BY <1>1, <2>2
<1>2. \A i \in 0 .. BlockWidth : CarryInto(x \cap y, y, start + i) <=> CarryTo(w, v, c, i)
    <2>1. x \cap y \in SUBSET Nat
        OBVIOUS
    <2>2. \A i \in 0 .. BlockWidth :
             CarryInto(x \cap y, y, start + i) <=> CarryTo(BlockAt(x \cap y, start), v, c, i)
        BY <2>1, CarryAt
    <2> QED BY <1>a, <2>2
<1>3. out = x \cup Reaches(x, y, all)
    BY StarIsCarry
<1>b. BlockAt(out, start) = {p \in Block : start + p \in out}
    <2>1. out \in SUBSET Nat
        <3> HIDE DEF out
        <3>1. Reaches(x, y, all) \subseteq Nat
            BY DEF Reaches
        <3> QED BY <1>3, <3>1
    <2> HIDE DEF out
    <2> QED BY <2>1, BlockOf
<1>4. \A i \in Block : start + i \in out <=> start + i \in x \/ CarryInto(x \cap y, y, start + i)
    BY <1>r, <1>3 DEF Reaches
<1>c. \A i : i \in w <=> i \in u /\ i \in v
    OBVIOUS
<1> HIDE DEF u, v, w, c, out
<1>5. Over(sum) = IF CarryTo(w, v, c, BlockWidth) THEN {0} ELSE {}
    <2>1. w \in SUBSET Block /\ v \in SUBSET Block /\ c \in {{}, {0}}
        BY <1>1
    <2> QED BY <2>1, OverIs
<1>d. ASSUME NEW i \in Block
      PROVE  i \in sum <=> ((i \in w <=> i \in v) <=> CarryTo(w, v, c, i))
    <2>1. BitOfSum(sum, w, v, c, i)
        BY <1>1, SumBits
    <2> QED BY <2>1 DEF BitOfSum
<1> HIDE DEF sum
<1>6. Over(sum) = CarryBit(x \cap y, y, start + BlockWidth)
    <2>1. BlockWidth \in 0 .. BlockWidth
        BY <1>0
    <2> QED BY <1>2, <1>5, <2>1 DEF CarryBit
<1>7. \A i \in Block : i \in BlockAt(out, start) <=> i \in SymDiff(sum \cap Block, v) \cup u
    <2> SUFFICES ASSUME NEW i \in Block PROVE i \in BlockAt(out, start) <=> i \in SymDiff(sum \cap Block, v) \cup u
        OBVIOUS
    <2>1. i \in BlockAt(out, start) <=> start + i \in x \/ CarryInto(x \cap y, y, start + i)
        BY <1>b, <1>4
    <2>2. i \in u <=> start + i \in x
        BY <1>1
    <2>4. i \in 0 .. BlockWidth
        BY <1>0
    <2>5. i \in sum \cap Block <=> ((i \in w <=> i \in v) <=> CarryTo(w, v, c, i))
        BY <1>d
    <2>6. i \in SymDiff(sum \cap Block, v) <=> ~(i \in sum \cap Block <=> i \in v)
        BY DEF SymDiff
    <2>7. CarryInto(x \cap y, y, start + i) <=> CarryTo(w, v, c, i)
        BY <1>2, <2>4
    <2> QED BY <1>c, <2>1, <2>2, <2>5, <2>6, <2>7
<1>8. BlockAt(out, start) \subseteq Block /\ SymDiff(sum \cap Block, v) \cup u \subseteq Block
    BY <1>b, <1>1 DEF SymDiff
<1> QED BY <1>6, <1>7, <1>8 DEF u, v, w, c, out, sum

-----------------------------------------------------------------------------
(* The block of an advance, from the bits carried over or the blocks kept. *)

\* The bits that an advance by n carries over to the block at start.
Carried(x, n, start) == Shift({p \in x : start - n <= p /\ p < start}, n - start)

\* The positions of a stream that is moved.
LEMMA ShiftIs ==
    ASSUME NEW x \in SUBSET Int, NEW n \in Int, NEW i \in Int
    PROVE  i \in Shift(x, n) <=> i - n \in x
<1>1. ASSUME NEW p \in x, i = p + n
      PROVE  i - n \in x
    <2>1. i - n = p
        BY <1>1
    <2> QED BY <2>1
<1>2. ASSUME i - n \in x
      PROVE  \E p \in x : i = p + n
    <2>1. i = (i - n) + n
        OBVIOUS
    <2> QED BY <1>2, <2>1
<1> QED BY <1>1, <1>2 DEF Shift

\* The carried bits are at the start of the block.
LEMMA CarriedIs ==
    ASSUME NEW x \in SUBSET Nat, NEW n \in Nat, NEW start \in Nat
    PROVE  /\ Carried(x, n, start) = {i \in 0 .. n - 1 : start + i - n \in x}
<1> DEFINE y == {p \in x : start - n <= p /\ p < start}
<1>1. y \in SUBSET Int /\ n - start \in Int
    <2>1. \A p \in y : p \in Int
        OBVIOUS
    <2> HIDE DEF y
    <2> QED BY <2>1
<1>2. \A p \in y : p + (n - start) \in 0 .. n - 1
    OBVIOUS
<1>3. \A i \in 0 .. n - 1 : i - (n - start) \in y <=> start + i - n \in x
    <2> SUFFICES ASSUME NEW i \in 0 .. n - 1 PROVE i - (n - start) \in y <=> start + i - n \in x
        OBVIOUS
    <2>1. i - (n - start) = start + i - n /\ start - n <= start + i - n /\ start + i - n < start
        OBVIOUS
    <2> QED BY <2>1
<1> HIDE DEF y
<1>4. Shift(y, n - start) \subseteq 0 .. n - 1
    BY <1>2 DEF Shift
<1>5. \A i \in 0 .. n - 1 : i \in Shift(y, n - start) <=> start + i - n \in x
    <2> SUFFICES ASSUME NEW i \in 0 .. n - 1 PROVE i \in Shift(y, n - start) <=> start + i - n \in x
        OBVIOUS
    <2>1. i \in Shift(y, n - start) <=> i - (n - start) \in y
        BY <1>1, ShiftIs
    <2> QED BY <1>3, <2>1
<1> QED BY <1>4, <1>5 DEF Carried, y

\* What an advance means is, in a block, the block moved and what was carried,
LEMMA AdvanceBlock ==
    ASSUME NEW x \in SUBSET Nat, NEW n \in 0 .. BlockWidth, NEW start \in Nat, NEW all \in SUBSET Nat,
           \A i \in Block : start + i \in all
    PROVE  LET moved == Shift(BlockAt(x, start), n) IN
           /\ BlockAt(Shift(x, n) \cap all, start) = (moved \cap Block) \cup Carried(x, n, start)
           /\ Over(moved) = Carried(x, n, start + BlockWidth)
<1> DEFINE u == BlockAt(x, start)
           out == Shift(x, n) \cap all
<1>0. BlockWidth \in Nat /\ Block = 0 .. BlockWidth - 1 /\ n \in Nat
    BY PabloConstants DEF Block
<1>1. u = {p \in Block : start + p \in x} /\ u \in SUBSET Block
    BY BlockOf
<1>2. BlockAt(out, start) = {p \in Block : start + p \in out}
    <2>1. out \in SUBSET Nat
        OBVIOUS
    <2> HIDE DEF out
    <2> QED BY <2>1, BlockOf
<1>3. \A i \in Block : start + i \in out <=> start + i - n \in x
    <2> SUFFICES ASSUME NEW i \in Block PROVE start + i \in Shift(x, n) <=> start + i - n \in x
        OBVIOUS
    <2> QED BY <1>0, ShiftIs
<1>a. u \in SUBSET Int /\ n \in Int
    BY <1>0, <1>1
<1> HIDE DEF u, out
<1>4. Carried(x, n, start) = {i \in 0 .. n - 1 : start + i - n \in x}
    BY <1>0, CarriedIs
<1>5. \A i \in Block : i \in Carried(x, n, start) <=> start + i - n \in x /\ i < n
    BY <1>0, <1>4
<1>6. \A i \in Block : i \in Shift(u, n) <=> start + i - n \in x /\ i >= n
    <2> SUFFICES ASSUME NEW i \in Block PROVE i \in Shift(u, n) <=> start + i - n \in x /\ i >= n
        OBVIOUS
    <2>1. i \in Shift(u, n) <=> i - n \in u
        BY <1>0, <1>a, ShiftIs
    <2>2. i - n \in Block <=> i >= n
        BY <1>0
    <2>3. start + (i - n) = start + i - n
        BY <1>0
    <2> QED BY <1>1, <2>1, <2>2, <2>3
<1>7. BlockAt(out, start) = (Shift(u, n) \cap Block) \cup Carried(x, n, start)
    <2>1. Carried(x, n, start) \subseteq Block
        BY <1>0, <1>4
    <2>2. \A i \in Block : i < n \/ i >= n
        BY <1>0
    <2> QED BY <1>2, <1>3, <1>5, <1>6, <2>1, <2>2
<1>8. Over(Shift(u, n)) = {p + n - BlockWidth : p \in {q \in u : q + n >= BlockWidth}}
    <2>1. n <= BlockWidth
        BY <1>0
    <2> QED BY <1>0, <1>1, <2>1, OverShift
<1>9. Carried(x, n, start + BlockWidth) = {i \in 0 .. n - 1 : start + BlockWidth + i - n \in x}
    <2>1. start + BlockWidth \in Nat
        BY <1>0
    <2> QED BY <1>0, <2>1, CarriedIs
<1>10. ASSUME NEW p \in u, p + n >= BlockWidth
       PROVE  p + n - BlockWidth \in Carried(x, n, start + BlockWidth)
    <2>1. p + n - BlockWidth \in 0 .. n - 1 /\ start + BlockWidth + (p + n - BlockWidth) - n = start + p
        BY <1>0, <1>1, <1>10
    <2>2. start + p \in x
        BY <1>1
    <2> QED BY <1>9, <2>1, <2>2
<1>11. ASSUME NEW i \in 0 .. n - 1, start + BlockWidth + i - n \in x
       PROVE  i \in Over(Shift(u, n))
    <2>1. BlockWidth + i - n \in Block /\ start + (BlockWidth + i - n) = start + BlockWidth + i - n
          /\ (BlockWidth + i - n) + n >= BlockWidth /\ i = (BlockWidth + i - n) + n - BlockWidth
        BY <1>0
    <2>2. BlockWidth + i - n \in u
        BY <1>1, <1>11, <2>1
    <2> QED BY <1>8, <2>1, <2>2
<1>12. Over(Shift(u, n)) = Carried(x, n, start + BlockWidth)
    BY <1>8, <1>9, <1>10, <1>11
<1> QED BY <1>7, <1>12 DEF u, out

\* An advance is by a number of blocks, or by less than that by some bits.
LEMMA AdvanceIs ==
    ASSUME NEW n \in Nat \ {0}
    PROVE  n = IF n % BlockWidth = 0 THEN AdvanceBlocks(n) * BlockWidth
               ELSE (AdvanceBlocks(n) - 1) * BlockWidth + (n % BlockWidth)
<1> DEFINE w == BlockWidth
           d == n \div w
           by == n % w
<1>0. w \in Nat \ {0, 1}
    BY PabloConstants
<1>1. d \in Int /\ by \in 0 .. w - 1 /\ n = w * d + by
    <2> HIDE DEF w
    <2> QED BY <1>0, DivMod
<1>2. AdvanceBlocks(n) = (n + w - 1) \div w
    BY DEF AdvanceBlocks, CeilDiv
<1> HIDE DEF w, d, by
<1>3. CASE by = 0
    <2>1. w - 1 \in 0 .. w - 1 /\ n + w - 1 = w * d + (w - 1) /\ n + w - 1 \in Int
        BY <1>0, <1>1, <1>3
    <2>2. (n + w - 1) \div w = d
        BY <1>0, <1>1, <2>1, DivModIs
    <2> QED BY <1>0, <1>1, <1>2, <1>3, <2>2 DEF w, by
<1>4. CASE by # 0
    <2>1. by - 1 \in 0 .. w - 1 /\ n + w - 1 = w * (d + 1) + (by - 1) /\ n + w - 1 \in Int /\ d + 1 \in Int
        <3>1. w * (d + 1) = w * d + w
            BY <1>0, <1>1
        <3> QED BY <1>0, <1>1, <1>4, <3>1
    <2>2. (n + w - 1) \div w = d + 1
        <3> DEFINE D == d + 1
                   X == n + w - 1
                   r == by - 1
        <3>1. X \in Int /\ D \in Int /\ r \in 0 .. w - 1 /\ X = w * D + r /\ w \in Nat \ {0}
            BY <1>0, <2>1
        <3> HIDE DEF D, X, r
        <3>2. X \div w = D
            BY <3>1, DivModIs
        <3> QED BY <3>2 DEF X, D
    <2>3. AdvanceBlocks(n) - 1 = d
        BY <1>1, <1>2, <2>2
    <2> QED BY <1>0, <1>1, <1>4, <2>3 DEF w, by
<1> QED BY <1>3, <1>4

\* The last bits of a block and the first of the next.
TwoBlocks(old, new, by) ==
    IF by = 0 THEN old ELSE (Shift(old, by - BlockWidth) \cup Shift(new, by)) \cap Block

\* and for a long one, two of the blocks that it keeps.
LEMMA LongBlock ==
    ASSUME NEW x \in SUBSET Nat, NEW n \in Nat \ {0}, NEW start \in Nat, NEW all \in SUBSET Nat,
           \A i \in Block : start + i \in all
    PROVE  BlockAt(Shift(x, n) \cap all, start)
             = TwoBlocks(BlockAt(x, start - AdvanceBlocks(n) * BlockWidth),
                         BlockAt(x, start - (AdvanceBlocks(n) - 1) * BlockWidth), n % BlockWidth)
<1> DEFINE by     == n % BlockWidth
           blocks == AdvanceBlocks(n)
           w      == BlockWidth
           old    == start - blocks * w
           new    == start - (blocks - 1) * w
           out    == Shift(x, n) \cap all
<1>0. w \in Nat /\ Block = 0 .. w - 1 /\ by \in 0 .. w - 1 /\ blocks \in Nat
    <2>1. w \in Nat \ {0}
        BY PabloConstants
    <2>2. n \in Int /\ by \in 0 .. w - 1
        BY <2>1, DivMod
    <2>3. blocks \in Nat
        BY AdvanceBlocksOf
    <2> QED BY <2>1, <2>2, <2>3 DEF Block
<1>1. n = IF by = 0 THEN blocks * w ELSE (blocks - 1) * w + by
    BY AdvanceIs
<1>2. BlockAt(out, start) = {p \in Block : start + p \in out}
    <2>1. out \in SUBSET Nat
        OBVIOUS
    <2> HIDE DEF out
    <2> QED BY <2>1, BlockOf
<1>3. \A i \in Block : start + i \in out <=> start + i - n \in x
    <2> SUFFICES ASSUME NEW i \in Block PROVE start + i \in Shift(x, n) <=> start + i - n \in x
        OBVIOUS
    <2> QED BY <1>0, ShiftIs
<1> HIDE DEF by, blocks, out
<1>4. old \in Int /\ new \in Int /\ new = old + w
    <2>1. (blocks - 1) * w = blocks * w - w /\ blocks * w \in Int
        BY <1>0
    <2> QED BY <1>0, <2>1
<1>5. n = IF by = 0 THEN start - old ELSE start - new + by
    BY <1>0, <1>1
<1> HIDE DEF w, old, new
<1>6. BlockAt(x, old) = {p \in Block : old + p \in x} /\ BlockAt(x, new) = {p \in Block : new + p \in x}
    BY <1>4, BlockOf
<1>9. BlockAt(x, old) \in SUBSET Int /\ BlockAt(x, new) \in SUBSET Int
    BY <1>0, <1>6
<1>7. CASE by = 0
    <2>1. \A i \in Block : start + i - n = old + i
        BY <1>0, <1>4, <1>5, <1>7
    <2>2. BlockAt(out, start) = BlockAt(x, old)
        BY <1>2, <1>3, <1>6, <2>1
    <2> QED BY <1>7, <2>2 DEF w, old, by, blocks, out, TwoBlocks
<1>8. CASE by # 0
    <2>1. \A i \in Block : start + i - n = new + (i - by) /\ start + i - n = old + (i - (by - w))
        BY <1>0, <1>4, <1>5, <1>8
    <2>2. \A i \in Block : i \in Shift(BlockAt(x, old), by - w) <=> i < by /\ start + i - n \in x
        <3> SUFFICES ASSUME NEW i \in Block
                     PROVE  i \in Shift(BlockAt(x, old), by - w) <=> i < by /\ start + i - n \in x
            OBVIOUS
        <3>1. i \in Shift(BlockAt(x, old), by - w) <=> i - (by - w) \in BlockAt(x, old)
            BY <1>0, <1>9, ShiftIs
        <3>2. i - (by - w) \in Block <=> i < by
            BY <1>0
        <3> QED BY <1>6, <2>1, <3>1, <3>2
    <2>3. \A i \in Block : i \in Shift(BlockAt(x, new), by) <=> i >= by /\ start + i - n \in x
        <3> SUFFICES ASSUME NEW i \in Block
                     PROVE  i \in Shift(BlockAt(x, new), by) <=> i >= by /\ start + i - n \in x
            OBVIOUS
        <3>1. i \in Shift(BlockAt(x, new), by) <=> i - by \in BlockAt(x, new)
            BY <1>0, <1>9, ShiftIs
        <3>2. i - by \in Block <=> i >= by
            BY <1>0
        <3> QED BY <1>6, <2>1, <3>1, <3>2
    <2>4. \A i \in Block : i < by \/ i >= by
        BY <1>0
    <2>5. BlockAt(out, start) = (Shift(BlockAt(x, old), by - w) \cup Shift(BlockAt(x, new), by)) \cap Block
        BY <1>2, <1>3, <2>2, <2>3, <2>4
    <2> QED BY <1>8, <2>5 DEF w, old, new, by, blocks, out, TwoBlocks
<1> QED BY <1>7, <1>8

\* A statement without a carry does to a block of streams what it does to them.
LEMMA BitwiseBlock ==
    ASSUME NEW st, st[1] \in Bitwise, NEW env, NEW local, NEW start \in Nat,
           NEW all \in SUBSET Nat, \A i \in Block : start + i \in all, NEW eof \in SUBSET Nat,
           \A v \in Operands(st) : env[v] \in SUBSET Nat /\ local[v] = BlockAt(env[v], start)
    PROVE  BlockAt(Means(st, env, all, eof), start) = Means(st, local, Block, BlockAt(eof, start))
<1> DEFINE x == env[st[3]]
           y == env[st[4]]
           u == local[st[3]]
           v == local[st[4]]
           e == BlockAt(eof, start)
<1>1. st[1] \in {"set", "not", "eof", "and", "or", "xor"} => x \in SUBSET Nat /\ u = BlockAt(x, start)
    BY DEF Operands
<1>2. st[1] \in {"and", "or", "xor"} => y \in SUBSET Nat /\ v = BlockAt(y, start)
    BY DEF Operands
<1>3. \A h \in SUBSET Nat : BlockAt(h, start) = {p \in Block : start + p \in h}
    BY BlockOf
<1> HIDE DEF x, y, u, v, e
<1>4. e = {p \in Block : start + p \in eof}
    BY <1>3 DEF e
<1>z. CASE st[1] = "zero"
    <2>1. Means(st, env, all, eof) = {} /\ Means(st, local, Block, e) = {}
        BY <1>z DEF Means
    <2>2. {} \in SUBSET Nat
        OBVIOUS
    <2>3. BlockAt({}, start) = {}
        BY <1>3, <2>2
    <2> QED BY <2>1, <2>3 DEF e
<1>o. CASE st[1] = "ones"
    <2>1. Means(st, env, all, eof) = all /\ Means(st, local, Block, e) = Block
        BY <1>o DEF Means
    <2>2. BlockAt(all, start) = Block
        BY <1>3
    <2> QED BY <2>1, <2>2 DEF e
<1>s. CASE st[1] = "set"
    <2>1. Means(st, env, all, eof) = x /\ Means(st, local, Block, e) = u
        BY <1>s DEF Means, x, u
    <2> QED BY <1>1, <1>s, <2>1 DEF e
<1>n. CASE st[1] = "not"
    <2>1. Means(st, env, all, eof) = all \ x /\ Means(st, local, Block, e) = Block \ u
        BY <1>n DEF Means, x, u
    <2>2. all \ x \in SUBSET Nat /\ u = {p \in Block : start + p \in x}
        BY <1>1, <1>3, <1>n
    <2>3. BlockAt(all \ x, start) = Block \ u
        BY <1>3, <2>2
    <2> QED BY <2>1, <2>3 DEF e
<1>e. CASE st[1] = "eof"
    <2>1. Means(st, env, all, eof) = x \cap eof /\ Means(st, local, Block, e) = u \cap e
        BY <1>e DEF Means, x, u
    <2>2. x \cap eof \in SUBSET Nat /\ u = {p \in Block : start + p \in x}
        BY <1>1, <1>3, <1>e
    <2>3. BlockAt(x \cap eof, start) = u \cap e
        BY <1>3, <1>4, <2>2
    <2> QED BY <2>1, <2>3 DEF e
<1>a. CASE st[1] \in {"and", "or", "xor"}
    <2>1. /\ x \in SUBSET Nat /\ y \in SUBSET Nat
          /\ u = {p \in Block : start + p \in x} /\ v = {p \in Block : start + p \in y}
        BY <1>1, <1>2, <1>3, <1>a
    <2>2. CASE st[1] = "and"
        <3>1. Means(st, env, all, eof) = x \cap y /\ Means(st, local, Block, e) = u \cap v
            BY <2>2 DEF Means, x, u, y, v
        <3>2. x \cap y \in SUBSET Nat
            BY <2>1
        <3>3. BlockAt(x \cap y, start) = u \cap v
            BY <1>3, <2>1, <3>2
        <3> QED BY <3>1, <3>3 DEF e
    <2>3. CASE st[1] = "or"
        <3>1. Means(st, env, all, eof) = x \cup y /\ Means(st, local, Block, e) = u \cup v
            BY <2>3 DEF Means, x, u, y, v
        <3>2. x \cup y \in SUBSET Nat
            BY <2>1
        <3>3. BlockAt(x \cup y, start) = u \cup v
            BY <1>3, <2>1, <3>2
        <3> QED BY <3>1, <3>3 DEF e
    <2>4. CASE st[1] = "xor"
        <3>1. Means(st, env, all, eof) = SymDiff(x, y) /\ Means(st, local, Block, e) = SymDiff(u, v)
            BY <2>4 DEF Means, x, u, y, v
        <3>2. SymDiff(x, y) \in SUBSET Nat
            BY <2>1 DEF SymDiff
        <3>3. BlockAt(SymDiff(x, y), start) = SymDiff(u, v)
            BY <1>3, <2>1, <3>2 DEF SymDiff
        <3> QED BY <3>1, <3>3 DEF e
    <2> QED BY <1>a, <2>2, <2>3, <2>4
<1> QED BY <1>z, <1>o, <1>s, <1>n, <1>e, <1>a DEF Bitwise

-----------------------------------------------------------------------------
(* A machine that follows what its code means.                             *)

\* The streams V that code means, on blocks up to the one at start.
Meant(code, V, all, eof, start) ==
    /\ start \in Nat /\ eof \in SUBSET Nat
    /\ all \in SUBSET Nat /\ \A i \in Block : start + i \in all
    /\ \A i \in 1 .. Len(code) + 1 :
          DOMAIN V[i] = Variables(code) /\ \A v \in Variables(code) : V[i][v] \in SUBSET Nat
    /\ \A i \in 1 .. Len(code) : V[i + 1] = StreamStep(V[i], code[i].st, all, eof)

\* The pack, and the summary of its blocks, that a statement has kept of the
\* streams env before start.
Bits(st) == IF st[1] = "adv" THEN st[4] ELSE 0
Slots(st, x, pack, index, start) ==
    \A k \in 1 .. AdvanceBlocks(st[4]) : pack[(index - k) % PackSize(st)] = BlockAt(x, start - k * BlockWidth)
Filled(st, x, start) ==
    {k \in 0 .. AdvanceBlocks(st[4]) - 1 : BlockAt(x, start - (k + 1) * BlockWidth) # {}}
Packed(in, env, pack, long, index, start) ==
    IF IsLong(in.st)
    THEN /\ Slots(in.st, env[in.st[3]], pack, index, start)
         /\ in.ifs # 0 /\ in.st[4] > BlockWidth => long = Filled(in.st, env[in.st[3]], start)
    ELSE pack[0] = Shift(Remembered(in.st, env, start), Bits(in.st) - start)
PackedFor(code, V, s, i, index, start) ==
    Packed(code[i], V[i], s.pack[code[i].st[2]], s.long[code[i].st[2]], index, start)

\* The machine s has the blocks at start of what code means, and has kept what
\* it has to remember.
Follows(code, V, eof, start, s) ==
    /\ s.eof = BlockAt(eof, start)
    /\ \A v \in InScope(code, s.pc - 1) : s.env[v] = BlockAt(V[s.pc][v], start)
    /\ \A i \in Carrying(code) :
          IF i < s.pc THEN PackedFor(code, V, s, i, s.index + 1, start + BlockWidth)
          ELSE PackedFor(code, V, s, i, s.index, start)

\* What is in scope after an instruction was so before it, or is what it
\* defines.
LEMMA InScopeStep ==
    ASSUME NEW code, WellFormed(code), NEW i \in 1 .. Len(code)
    PROVE  /\ InScope(code, i) \subseteq Variables(code)
           /\ \A v \in InScope(code, i) :
                 v \in InScope(code, i - 1) \/ (code[i].st[1] \notin Branches /\ v = code[i].st[2])
<1>0. Len(code) \in Nat /\ DOMAIN code = 1 .. Len(code) /\ i \in 0 .. Len(code) /\ IsCode(code)
    BY DEF WellFormed, IsCode
<1>1. InScope(code, i) \subseteq Variables(code)
    BY <1>0, InScopeIsVariable DEF Variables
<1>2. ASSUME NEW v \in InScope(code, i), v \notin Inputs(code)
      PROVE  v \in InScope(code, i - 1) \/ (code[i].st[1] \notin Branches /\ v = code[i].st[2])
    <2>1. PICK h \in 1 .. i : /\ code[h].st[1] \notin Branches /\ v = code[h].st[2]
                              /\ \A e \in Ifs(code) : h \in Inside(code, e) => i < code[e].to
        BY <1>2 DEF InScope
    <2>2. CASE h = i
        BY <2>1, <2>2
    <2>3. CASE h # i
        <3>1. h \in 1 .. i - 1
            BY <1>0, <2>3
        <3>2. \A e \in Ifs(code) : h \in Inside(code, e) => i - 1 < code[e].to
            <4> SUFFICES ASSUME NEW e \in Ifs(code), h \in Inside(code, e) PROVE i - 1 < code[e].to
                OBVIOUS
            <4>1. code[e].to \in Nat
                BY IfPlace
            <4> QED BY <1>0, <2>1, <4>1
        <3> QED BY <2>1, <3>1, <3>2 DEF InScope
    <2> QED BY <2>2, <2>3
<1> QED BY <1>1, <1>2 DEF InScope

\* An instruction other than an If: what it is executed on, and what it means.
LEMMA StatementMeant ==
    ASSUME NEW code, WellFormed(code), NEW V, NEW all, NEW eof, NEW start, Meant(code, V, all, eof, start),
           NEW i \in DOMAIN code, code[i].st[1] \notin Branches
    PROVE  /\ V[i + 1] = [V[i] EXCEPT ![code[i].st[2]] = Means(code[i].st, V[i], all, eof)]
           /\ DOMAIN V[i] = Variables(code)
           /\ \A v \in Operands(code[i].st) : V[i][v] \in SUBSET Nat
           /\ i \in 1 .. Len(code)
<1>1. i \in 1 .. Len(code) /\ i \in 1 .. Len(code) + 1
    BY DEF WellFormed, IsCode
<1>2. V[i + 1] = StreamStep(V[i], code[i].st, all, eof)
    BY <1>1 DEF Meant
<1>3. Operands(code[i].st) \subseteq Variables(code)
    BY <1>1, StatementIs DEF Variables
<1> QED BY <1>1, <1>2, <1>3 DEF Meant, StreamStep

\* The carries of the other statements stay.
Untouched(code, s, pack, long) ==
    \A j \in Carrying(code) : j # s.pc =>
        /\ pack[code[j].st[2]] = s.pack[code[j].st[2]]
        /\ IsLong(code[j].st) => long[code[j].st[2]] = s.long[code[j].st[2]]

\* Any other instruction follows if it defines the block of what it means, and
\* keeps what is to be remembered.
LEMMA FollowsOn ==
    ASSUME NEW code, WellFormed(code), NEW V, NEW all, NEW eof, NEW start, Meant(code, V, all, eof, start),
           NEW s, MachineOK(code, s), s.pc \in DOMAIN code, code[s.pc].st[1] \notin Branches,
           Follows(code, V, eof, start, s),
           NEW t, NEW bits, NEW pack, NEW long, NEW summaries,
           Effect(s, t, code[s.pc].st[2], bits, pack, long, summaries),
           bits = BlockAt(Means(code[s.pc].st, V[s.pc], all, eof), start),
           Untouched(code, s, pack, long),
           s.pc \in Carrying(code) => PackedFor(code, V, t, s.pc, s.index + 1, start + BlockWidth)
    PROVE  Follows(code, V, eof, start, t)
<1> DEFINE i == s.pc
           d == code[i].st[2]
<1>1. i \in 1 .. Len(code) /\ i \in Nat
    BY DEF WellFormed, IsCode
<1>2. /\ t.env = [s.env EXCEPT ![d] = bits] /\ t.pack = pack /\ t.long = long /\ t.pc = i + 1
      /\ t.index = s.index /\ t.eof = s.eof
    BY DEF Effect
<1>3. V[i + 1] = [V[i] EXCEPT ![d] = Means(code[i].st, V[i], all, eof)] /\ DOMAIN V[i] = Variables(code)
    <2>1. i \in DOMAIN code /\ code[i].st[1] \notin Branches
        OBVIOUS
    <2> HIDE DEF i
    <2> QED BY <2>1, StatementMeant
<1>4. DOMAIN s.env = Variables(code)
    BY DEF MachineOK, Variables
<1> HIDE DEF i
<1>5. ASSUME NEW v \in InScope(code, i)
      PROVE  t.env[v] = BlockAt(V[i + 1][v], start)
    <2>1. v \in Variables(code) /\ (v \in InScope(code, i - 1) \/ v = d)
        BY <1>1, InScopeStep
    <2>2. CASE v = d
        BY <1>2, <1>3, <1>4, <2>1, <2>2 DEF i
    <2>3. CASE v # d
        <3>1. s.env[v] = BlockAt(V[i][v], start)
            BY <2>1, <2>3 DEF Follows, i
        <3> QED BY <1>2, <1>3, <1>4, <2>1, <2>3, <3>1
    <2> QED BY <2>2, <2>3
<1>6. ASSUME NEW j \in Carrying(code)
      PROVE  IF j < t.pc THEN PackedFor(code, V, t, j, t.index + 1, start + BlockWidth)
             ELSE PackedFor(code, V, t, j, t.index, start)
    <2>1. j \in Nat
        BY DEF Carrying, WellFormed, IsCode
    <2>2. CASE j = i
        BY <1>1, <1>2, <2>2 DEF i
    <2>3. CASE j # i
        <3>1. j < t.pc <=> j < s.pc
            BY <1>1, <1>2, <2>1, <2>3 DEF i
        <3>2. /\ t.pack[code[j].st[2]] = s.pack[code[j].st[2]]
              /\ IsLong(code[j].st) => t.long[code[j].st[2]] = s.long[code[j].st[2]]
            BY <1>2, <2>3 DEF i, Untouched
        <3>3. \A index, p : PackedFor(code, V, t, j, index, p) = PackedFor(code, V, s, j, index, p)
            BY <3>2 DEF PackedFor, Packed
        <3> QED BY <1>2, <3>1, <3>3 DEF Follows
    <2> QED BY <2>2, <2>3
<1>7. t.pc - 1 = i
    BY <1>1, <1>2
<1> QED BY <1>2, <1>5, <1>6, <1>7 DEF Follows

-----------------------------------------------------------------------------
(* Statements with a carry follow.                                         *)

\* The operands of an instruction are blocks of what they mean.
LEMMA OperandFollows ==
    ASSUME NEW code, WellFormed(code), NEW V, NEW all, NEW eof, NEW start, Meant(code, V, all, eof, start),
           NEW s, MachineOK(code, s), s.pc \in DOMAIN code, Follows(code, V, eof, start, s),
           NEW v \in Operands(code[s.pc].st)
    PROVE  /\ V[s.pc][v] \in SUBSET Nat
           /\ s.env[v] = BlockAt(V[s.pc][v], start)
<1>1. s.pc \in 1 .. Len(code) /\ s.pc \in 1 .. Len(code) + 1 /\ Operands(code[s.pc].st) \subseteq InScope(code, s.pc - 1)
    BY DEF WellFormed, IsCode
<1>2. Operands(code[s.pc].st) \subseteq Variables(code)
    BY <1>1, StatementIs DEF Variables
<1> QED BY <1>1, <1>2 DEF Meant, Follows

\* A statement without a carry follows,
LEMMA FollowsBitwise ==
    ASSUME NEW code, WellFormed(code), NEW V, NEW all, NEW eof, NEW start, Meant(code, V, all, eof, start),
           NEW s, MachineOK(code, s), s.pc \in DOMAIN code, Follows(code, V, eof, start, s),
           code[s.pc].st[1] \in Bitwise
    PROVE  Follows(code, V, eof, start, Execute(s, code[s.pc]))
<1> DEFINE in == code[s.pc]
           t == Execute(s, in)
           bits == Means(in.st, s.env, Block, s.eof)
<1>m. start \in Nat /\ all \in SUBSET Nat /\ eof \in SUBSET Nat /\ \A i \in Block : start + i \in all
    BY DEF Meant
<1>1. Effect(s, t, in.st[2], bits, s.pack, s.long, s.summaries)
    BY BitwiseEffect DEF MachineOK
<1>2. s.pc \notin Carrying(code) /\ in.st[1] \notin Branches
    BY DEF Carrying, Bitwise, Producers, Branches
<1>3. bits = BlockAt(Means(in.st, V[s.pc], all, eof), start)
    <2>1. \A v \in Operands(in.st) : V[s.pc][v] \in SUBSET Nat /\ s.env[v] = BlockAt(V[s.pc][v], start)
        BY OperandFollows
    <2>2. s.eof = BlockAt(eof, start)
        BY DEF Follows
    <2> DEFINE st == in.st
               env == V[s.pc]
               local == s.env
    <2>3. st[1] \in Bitwise /\ \A v \in Operands(st) : env[v] \in SUBSET Nat /\ local[v] = BlockAt(env[v], start)
        BY <2>1
    <2> HIDE DEF st, env, local
    <2>4. BlockAt(Means(st, env, all, eof), start) = Means(st, local, Block, BlockAt(eof, start))
        BY <1>m, <2>3, BitwiseBlock
    <2> QED BY <2>2, <2>4 DEF st, env, local
<1> HIDE DEF bits, t
<1>5. Untouched(code, s, s.pack, s.long)
    BY DEF Untouched
<1>4. Follows(code, V, eof, start, t)
    BY <1>1, <1>2, <1>3, <1>5, FollowsOn
<1> QED BY <1>4 DEF t

\* A carry is put into its pack, and nothing into another.
LEMMA CarryPut ==
    ASSUME NEW code, WellFormed(code), NEW s, MachineOK(code, s), s.pc \in DOMAIN code,
           s.pc \in Carrying(code), NEW out
    PROVE  /\ CarryPack(s, code[s.pc], out)[code[s.pc].st[2]][0] = out
           /\ Untouched(code, s, CarryPack(s, code[s.pc], out), s.long)
<1> DEFINE in == code[s.pc]
<1>1. Keeps(in) /\ 0 \in 0 .. PackSize(in.st) - 1
    BY PackSizeIs DEF Carrying, Keeps, WellFormed
<1>2. PackOK(code, s.pack)
    BY DEF MachineOK, DataOK
<1>3. \A j \in Carrying(code) : j \in DOMAIN code /\ Keeps(code[j])
    BY DEF Carrying, Keeps
<1> QED BY <1>1, <1>2, <1>3, PutElsewhere DEF CarryPack, Untouched

\* A statement follows if it defines the block of what it means, and keeps the
\* carry out that is to be remembered.
LEMMA FollowsCarry ==
    ASSUME NEW code, WellFormed(code), NEW V, NEW all, NEW eof, NEW start, Meant(code, V, all, eof, start),
           NEW s, MachineOK(code, s), s.pc \in DOMAIN code, Follows(code, V, eof, start, s),
           s.pc \in Carrying(code), ~IsLong(code[s.pc].st),
           NEW t, NEW bits, NEW out, NEW summaries,
           Effect(s, t, code[s.pc].st[2], bits, CarryPack(s, code[s.pc], out), s.long, summaries),
           bits = BlockAt(Means(code[s.pc].st, V[s.pc], all, eof), start),
           out = Shift(Remembered(code[s.pc].st, V[s.pc], start + BlockWidth), Bits(code[s.pc].st) - (start + BlockWidth))
    PROVE  Follows(code, V, eof, start, t)
<1> DEFINE pack == CarryPack(s, code[s.pc], out)
<1>1. code[s.pc].st[1] \notin Branches
    BY DEF Carrying, Producers, Branches
<1>2. pack[code[s.pc].st[2]][0] = out /\ Untouched(code, s, pack, s.long)
    BY CarryPut
<1>3. t.pack = pack
    BY DEF Effect
<1>4. PackedFor(code, V, t, s.pc, s.index + 1, start + BlockWidth)
    BY <1>2, <1>3 DEF PackedFor, Packed
<1> HIDE DEF pack
<1>5. Effect(s, t, code[s.pc].st[2], bits, pack, s.long, summaries)
    BY DEF pack
<1>6. Untouched(code, s, pack, s.long)
    BY <1>2 DEF pack
<1> QED BY <1>1, <1>4, <1>5, <1>6, FollowsOn

\* The carry of an addition, as it is kept.
LEMMA CarryRemembered ==
    ASSUME NEW st, NEW env, NEW p \in Nat
    PROVE  /\ st[1] = "scan" => Shift(Remembered(st, env, p), Bits(st) - p) = CarryBit(env[st[3]], env[st[4]], p)
           /\ st[1] = "star" => Shift(Remembered(st, env, p), Bits(st) - p)
                                  = CarryBit(env[st[3]] \cap env[st[4]], env[st[4]], p)
<1>1. Shift({p}, 0 - p) = {0} /\ Shift({}, 0 - p) = {}
    BY DEF Shift
<1> QED BY <1>1 DEF Remembered, Bits, CarryBit

\* ScanThru follows, since the carry out of its addition is the carry into
\* the next block,
LEMMA FollowsScan ==
    ASSUME NEW code, WellFormed(code), NEW V, NEW all, NEW eof, NEW start, Meant(code, V, all, eof, start),
           NEW s, MachineOK(code, s), s.pc \in DOMAIN code, Follows(code, V, eof, start, s),
           code[s.pc].st[1] = "scan"
    PROVE  Follows(code, V, eof, start, Execute(s, code[s.pc]))
<1> DEFINE in == code[s.pc]
           t == Execute(s, in)
           sum == ScanSum(s, in)
           bits == (sum \cap Block) \ s.env[in.st[4]]
           x == V[s.pc][in.st[3]]
           y == V[s.pc][in.st[4]]
<1>0. s.pc \in Carrying(code) /\ ~IsLong(in.st) /\ in.loops = 0 /\ DOMAIN s = Fields /\ s.pc \in Nat
    BY InstructionIs DEF Carrying, Producers, IsLong, MachineOK
<1>m. start \in Nat /\ all \in SUBSET Nat /\ eof \in SUBSET Nat /\ \A i \in Block : start + i \in all
    BY DEF Meant
<1>1. Effect(s, t, in.st[2], bits, CarryPack(s, in, Over(sum)), s.long, CarryHeard(s, in, Over(sum)))
    BY <1>0, ScanEffect
<1>2. /\ x \in SUBSET Nat /\ y \in SUBSET Nat
      /\ s.env[in.st[3]] = BlockAt(x, start) /\ s.env[in.st[4]] = BlockAt(y, start)
    <2>1. in.st[3] \in Operands(in.st) /\ in.st[4] \in Operands(in.st)
        BY DEF Operands
    <2> QED BY <2>1, OperandFollows
<1>3. Carry(s, in) = CarryBit(x, y, start)
    <2>1. PackedFor(code, V, s, s.pc, s.index, start)
        BY <1>0 DEF Follows
    <2>2. Carry(s, in) = Shift(Remembered(in.st, V[s.pc], start), Bits(in.st) - start)
        BY <1>0, <2>1 DEF PackedFor, Packed, Carry
    <2> QED BY <2>2, CarryRemembered DEF Meant
<1>4. sum = ScanTotal(x, y, start)
    BY <1>2, <1>3 DEF ScanSum, ScanTotal
<1>5. Means(in.st, V[s.pc], all, eof) = Scan(x, y, all)
    BY DEF Means
<1> HIDE DEF x, y, sum, t
<1>6. /\ BlockAt(Scan(x, y, all), start) = (sum \cap Block) \ BlockAt(y, start)
      /\ Over(sum) = CarryBit(x, y, start + BlockWidth)
    <2>1. Reached(all, start)
        BY <1>m DEF Reached
    <2>2. x \in SUBSET Nat /\ y \in SUBSET Nat /\ start \in Nat /\ all \in SUBSET Nat
        BY <1>m, <1>2
    <2>3. ScanByBlock(x, y, start, all)
        BY <2>1, <2>2, ScanBlock
    <2> QED BY <1>4, <2>3 DEF ScanByBlock
<1>7. Over(sum) = Shift(Remembered(in.st, V[s.pc], start + BlockWidth), Bits(in.st) - (start + BlockWidth))
    <2>1. start + BlockWidth \in Nat
        BY PabloConstants DEF Meant
    <2> QED BY <1>6, <2>1, CarryRemembered DEF x, y
<1>8. bits = BlockAt(Means(in.st, V[s.pc], all, eof), start)
    BY <1>2, <1>5, <1>6
<1> HIDE DEF bits
<1>9. Follows(code, V, eof, start, t)
    BY <1>0, <1>1, <1>7, <1>8, FollowsCarry
<1> QED BY <1>9 DEF t

\* and so does MatchStar,
LEMMA FollowsStar ==
    ASSUME NEW code, WellFormed(code), NEW V, NEW all, NEW eof, NEW start, Meant(code, V, all, eof, start),
           NEW s, MachineOK(code, s), s.pc \in DOMAIN code, Follows(code, V, eof, start, s),
           code[s.pc].st[1] = "star"
    PROVE  Follows(code, V, eof, start, Execute(s, code[s.pc]))
<1> DEFINE in == code[s.pc]
           t == Execute(s, in)
           sum == StarSum(s, in)
           bits == SymDiff(sum \cap Block, s.env[in.st[4]]) \cup s.env[in.st[3]]
           x == V[s.pc][in.st[3]]
           y == V[s.pc][in.st[4]]
<1>0. s.pc \in Carrying(code) /\ ~IsLong(in.st) /\ in.loops = 0 /\ DOMAIN s = Fields /\ s.pc \in Nat
    BY InstructionIs DEF Carrying, Producers, IsLong, MachineOK
<1>m. start \in Nat /\ all \in SUBSET Nat /\ eof \in SUBSET Nat /\ \A i \in Block : start + i \in all
    BY DEF Meant
<1>1. Effect(s, t, in.st[2], bits, CarryPack(s, in, Over(sum)), s.long, CarryHeard(s, in, Over(sum)))
    BY <1>0, StarEffect
<1>2. /\ x \in SUBSET Nat /\ y \in SUBSET Nat
      /\ s.env[in.st[3]] = BlockAt(x, start) /\ s.env[in.st[4]] = BlockAt(y, start)
    <2>1. in.st[3] \in Operands(in.st) /\ in.st[4] \in Operands(in.st)
        BY DEF Operands
    <2> QED BY <2>1, OperandFollows
<1>3. Carry(s, in) = CarryBit(x \cap y, y, start)
    <2>1. PackedFor(code, V, s, s.pc, s.index, start)
        BY <1>0 DEF Follows
    <2>2. Carry(s, in) = Shift(Remembered(in.st, V[s.pc], start), Bits(in.st) - start)
        BY <1>0, <2>1 DEF PackedFor, Packed, Carry
    <2> QED BY <2>2, CarryRemembered DEF Meant
<1>4. sum = StarTotal(x, y, start)
    BY <1>2, <1>3 DEF StarSum, StarTotal
<1>5. Means(in.st, V[s.pc], all, eof) = Star(x, y, all)
    BY DEF Means
<1> HIDE DEF x, y, sum, t
<1>6. /\ BlockAt(Star(x, y, all), start) = SymDiff(sum \cap Block, BlockAt(y, start)) \cup BlockAt(x, start)
      /\ Over(sum) = CarryBit(x \cap y, y, start + BlockWidth)
    <2>1. Reached(all, start)
        BY <1>m DEF Reached
    <2>2. x \in SUBSET Nat /\ y \in SUBSET Nat /\ start \in Nat /\ all \in SUBSET Nat
        BY <1>m, <1>2
    <2>3. StarByBlock(x, y, start, all)
        BY <2>1, <2>2, StarBlock
    <2> QED BY <1>4, <2>3 DEF StarByBlock
<1>7. Over(sum) = Shift(Remembered(in.st, V[s.pc], start + BlockWidth), Bits(in.st) - (start + BlockWidth))
    <2>1. start + BlockWidth \in Nat
        BY PabloConstants DEF Meant
    <2> QED BY <1>6, <2>1, CarryRemembered DEF x, y
<1>8. bits = BlockAt(Means(in.st, V[s.pc], all, eof), start)
    BY <1>2, <1>5, <1>6
<1> HIDE DEF bits
<1>9. Follows(code, V, eof, start, t)
    BY <1>0, <1>1, <1>7, <1>8, FollowsCarry
<1> QED BY <1>9 DEF t

\* and an advance by less than LONG_ADVANCE_BREAKPOINT.
LEMMA FollowsAdvance ==
    ASSUME NEW code, WellFormed(code), NEW V, NEW all, NEW eof, NEW start, Meant(code, V, all, eof, start),
           NEW s, MachineOK(code, s), s.pc \in DOMAIN code, Follows(code, V, eof, start, s),
           code[s.pc].st[1] = "adv", ~IsLong(code[s.pc].st)
    PROVE  Follows(code, V, eof, start, Execute(s, code[s.pc]))
<1> DEFINE in == code[s.pc]
           t == Execute(s, in)
           x == V[s.pc][in.st[3]]
           n == in.st[4]
           moved == Shift(s.env[in.st[3]], n)
           bits == (moved \cap Block) \cup Carry(s, in)
<1>0. s.pc \in Carrying(code) /\ in.loops = 0 /\ DOMAIN s = Fields /\ s.pc \in Nat
    BY InstructionIs DEF Carrying, Producers, MachineOK
<1>m. start \in Nat /\ all \in SUBSET Nat /\ eof \in SUBSET Nat /\ \A i \in Block : start + i \in all
    BY DEF Meant
<1>1. Effect(s, t, in.st[2], bits, CarryPack(s, in, Over(moved)), s.long, CarryHeard(s, in, Over(moved)))
    BY <1>0, AdvanceEffect
<1>2. x \in SUBSET Nat /\ s.env[in.st[3]] = BlockAt(x, start)
    BY OperandFollows DEF Operands
<1>a. n \in 0 .. BlockWidth
    BY ShortIs, PabloConstants
<1>b. \A p : Shift(Remembered(in.st, V[s.pc], p), Bits(in.st) - p) = Carried(x, n, p)
    BY DEF Remembered, Bits, Carried
<1>3. Carry(s, in) = Carried(x, n, start)
    <2>1. PackedFor(code, V, s, s.pc, s.index, start)
        BY <1>0 DEF Follows
    <2>2. Carry(s, in) = Shift(Remembered(in.st, V[s.pc], start), Bits(in.st) - start)
        BY <1>0, <2>1 DEF PackedFor, Packed, Carry
    <2> QED BY <1>b, <2>2
<1>5. Means(in.st, V[s.pc], all, eof) = Shift(x, n) \cap all
    BY DEF Means
<1>4. moved = Shift(BlockAt(x, start), n)
    BY <1>2
<1> HIDE DEF x, n, t, moved
<1>6. /\ BlockAt(Shift(x, n) \cap all, start) = (moved \cap Block) \cup Carried(x, n, start)
      /\ Over(moved) = Carried(x, n, start + BlockWidth)
    <2>1. LET q == Shift(BlockAt(x, start), n) IN
          /\ BlockAt(Shift(x, n) \cap all, start) = (q \cap Block) \cup Carried(x, n, start)
          /\ Over(q) = Carried(x, n, start + BlockWidth)
        BY <1>m, <1>2, <1>a, AdvanceBlock
    <2> QED BY <1>4, <2>1
<1>7. Over(moved) = Shift(Remembered(in.st, V[s.pc], start + BlockWidth), Bits(in.st) - (start + BlockWidth))
    BY <1>6, <1>b
<1>8. bits = BlockAt(Means(in.st, V[s.pc], all, eof), start)
    BY <1>3, <1>5, <1>6
<1> HIDE DEF bits
<1>9. Follows(code, V, eof, start, t)
    BY <1>0, <1>1, <1>7, <1>8, FollowsCarry
<1> QED BY <1>9 DEF t

-----------------------------------------------------------------------------
(* The slots of a long advance.                                            *)

\* The slots of a circular buffer differ while there are not too many.
LEMMA SlotsDiffer ==
    ASSUME NEW a \in Int, NEW m \in Nat \ {0}, NEW j \in 1 .. m - 1
    PROVE  (a - j) % m # a % m
<1> DEFINE q == a \div m
           r == a % m
           u == (a - j) \div m
           v == (a - j) % m
<1>1. q \in Int /\ r \in 0 .. m - 1 /\ a = m * q + r
    BY DivMod
<1>2. u \in Int /\ v \in 0 .. m - 1 /\ a - j = m * u + v
    <2>1. a - j \in Int
        OBVIOUS
    <2> DEFINE b == a - j
    <2>2. b \in Int
        BY <2>1
    <2> HIDE DEF b
    <2>3. b \div m \in Int /\ b % m \in 0 .. m - 1 /\ b = m * (b \div m) + (b % m)
        BY <2>2, DivMod
    <2> QED BY <2>3 DEF b
<1> HIDE DEF q, r, u, v
<1> SUFFICES ASSUME v = r PROVE FALSE
    BY DEF v, r
<1>3. j = m * q - m * u
    BY <1>1, <1>2
<1>4. CASE q <= u
    <2>1. m * q <= m * u
        BY <1>1, <1>2, <1>4
    <2> QED BY <1>1, <1>2, <1>3, <2>1
<1>5. CASE q >= u + 1
    <2>1. m * q >= m * (u + 1) /\ m * (u + 1) = m * u + m
        BY <1>1, <1>2, <1>5
    <2> QED BY <1>1, <1>2, <1>3, <2>1
<1> QED BY <1>1, <1>2, <1>4, <1>5

\* What is taken for granted of a long advance: how many blocks it keeps, the
\* size of its buffer, and what n < BlockWidth says of both.
LEMMA LongIs ==
    ASSUME NEW st, IsLong(st), st[4] \in Nat \ {0}
    PROVE  /\ AdvanceBlocks(st[4]) \in Nat \ {0} /\ PackSize(st) \in Nat \ {0}
           /\ PackSize(st) = NearestPow2(AdvanceBlocks(st[4]))
           /\ AdvanceBlocks(st[4]) <= PackSize(st)
           /\ st[4] <= BlockWidth => AdvanceBlocks(st[4]) = 1 /\ PackSize(st) = 1
           /\ st[4] > BlockWidth => AdvanceBlocks(st[4]) > 1
<1>1. AdvanceBlocks(st[4]) \in Nat \ {0} /\ (st[4] <= BlockWidth <=> AdvanceBlocks(st[4]) = 1)
    BY AdvanceBlocksOf
<1>2. PackSize(st) = NearestPow2(AdvanceBlocks(st[4]))
    BY DEF PackSize
<1> DEFINE b == AdvanceBlocks(st[4])
<1>3. NearestPow2(b) \in Nat /\ NearestPow2(b) >= b
    <2> HIDE DEF b
    <2>1. b \in Nat
        BY <1>1 DEF b
    <2> QED BY <2>1, NearestPow2Above
<1>4. st[4] <= BlockWidth \/ st[4] > BlockWidth
    BY PabloConstants
<1> QED BY <1>1, <1>2, <1>3, <1>4, OneBlock, PabloConstants

\* Everything is a multiple of one.
LEMMA ModOne == \A k \in Int : k % 1 = 0
    OBVIOUS

\* What a long advance writes, of the block that it is given and its pack.
LongOut(st, u, pack, index) ==
    LET n      == st[4]
        blocks == AdvanceBlocks(n)
        size   == NearestPow2(blocks)
        single == n < BlockWidth
        oldest == pack[IF single THEN 0 ELSE (index - blocks) % size]
        next   == IF single THEN u ELSE pack[(index - blocks + 1) % size]
    IN  TwoBlocks(oldest, next, n % BlockWidth)

\* The block of an advance is in the slots,
LEMMA SlotsAdvance ==
    ASSUME NEW st, IsLong(st), st[4] \in Nat \ {0}, NEW x \in SUBSET Nat, NEW pack,
           NEW index \in Nat, NEW start \in Nat, Slots(st, x, pack, index, start),
           NEW all \in SUBSET Nat, Reached(all, start)
    PROVE  BlockAt(Shift(x, st[4]) \cap all, start) = LongOut(st, BlockAt(x, start), pack, index)
<1> DEFINE n      == st[4]
           blocks == AdvanceBlocks(n)
           size   == NearestPow2(blocks)
           by     == n % BlockWidth
           single == n < BlockWidth
           oldest == pack[IF single THEN 0 ELSE (index - blocks) % size]
           next   == IF single THEN BlockAt(x, start) ELSE pack[(index - blocks + 1) % size]
<1>0. BlockWidth \in Nat /\ BlockWidth > 0 /\ n \in Nat
    BY PabloConstants
<1>1. /\ blocks \in Nat \ {0} /\ size \in Nat \ {0} /\ size = PackSize(st) /\ blocks <= size
      /\ n <= BlockWidth => blocks = 1 /\ size = 1
      /\ n > BlockWidth => blocks > 1
    BY LongIs
<1>2. BlockAt(Shift(x, n) \cap all, start)
        = TwoBlocks(BlockAt(x, start - blocks * BlockWidth), BlockAt(x, start - (blocks - 1) * BlockWidth), by)
    <2>1. n \in Nat \ {0} /\ \A i \in Block : start + i \in all
        BY DEF Reached
    <2> HIDE DEF n
    <2> QED BY <2>1, LongBlock
<1>3. \A k \in 1 .. blocks : pack[(index - k) % size] = BlockAt(x, start - k * BlockWidth)
    BY <1>1 DEF Slots
<1>4. n = BlockWidth => by = 0
    <2>1. BlockWidth % BlockWidth = 0
        <3> DEFINE w == BlockWidth
        <3>1. w \in Int /\ w \in Nat \ {0} /\ 1 \in Int /\ 0 \in 0 .. w - 1 /\ w = w * 1 + 0
            BY <1>0
        <3> HIDE DEF w
        <3>2. w % w = 0
            BY <3>1, DivModIs
        <3> QED BY <3>2 DEF w
    <2> QED BY <2>1
<1> HIDE DEF n, blocks, size, by
<1>5. oldest = BlockAt(x, start - blocks * BlockWidth)
    <2>1. blocks \in 1 .. blocks
        BY <1>1
    <2>2. pack[(index - blocks) % size] = BlockAt(x, start - blocks * BlockWidth)
        BY <1>3, <2>1
    <2>3. single => (index - blocks) % size = 0
        <3>1. single => n <= BlockWidth
            BY <1>0
        <3>2. index - blocks \in Int
            BY <1>1
        <3> HIDE DEF single
        <3> QED BY <1>1, <3>1, <3>2, ModOne
    <2> HIDE DEF single
    <2> QED BY <2>2, <2>3
<1>6. by # 0 => next = BlockAt(x, start - (blocks - 1) * BlockWidth)
    <2> SUFFICES ASSUME by # 0 PROVE next = BlockAt(x, start - (blocks - 1) * BlockWidth)
        OBVIOUS
    <2>1. CASE n < BlockWidth
        <3>1. blocks - 1 = 0
            BY <1>0, <1>1, <2>1
        <3>2. start - (blocks - 1) * BlockWidth = start
            BY <1>0, <3>1
        <3> QED BY <2>1, <3>2
    <2>2. CASE ~(n < BlockWidth)
        <3>1. blocks - 1 \in 1 .. blocks /\ index - blocks + 1 = index - (blocks - 1)
            BY <1>0, <1>1, <1>4, <2>2
        <3>2. pack[(index - (blocks - 1)) % size] = BlockAt(x, start - (blocks - 1) * BlockWidth)
            BY <1>3, <3>1
        <3> QED BY <2>2, <3>1, <3>2
    <2> QED BY <2>1, <2>2
<1> HIDE DEF oldest, next, single
<1>7. BlockAt(Shift(x, n) \cap all, start) = TwoBlocks(oldest, next, by)
    BY <1>2, <1>5, <1>6 DEF TwoBlocks
<1> QED BY <1>7 DEF oldest, next, single, n, blocks, size, by, LongOut

\* the next block goes into the next slot,
LEMMA SlotsStep ==
    ASSUME NEW st, IsLong(st), st[4] \in Nat \ {0}, NEW x, NEW pack,
           NEW index \in Nat, NEW start \in Nat, Slots(st, x, pack, index, start),
           NEW next, next[index % PackSize(st)] = BlockAt(x, start),
           \A k \in Int : k % PackSize(st) # index % PackSize(st) => next[k % PackSize(st)] = pack[k % PackSize(st)]
    PROVE  Slots(st, x, next, index + 1, start + BlockWidth)
<1> DEFINE blocks == AdvanceBlocks(st[4])
           size   == PackSize(st)
           w      == BlockWidth
<1>0. w \in Nat /\ blocks \in Nat \ {0} /\ size \in Nat \ {0} /\ blocks <= size
    BY LongIs, PabloConstants
<1> SUFFICES ASSUME NEW k \in 1 .. blocks
             PROVE  next[((index + 1) - k) % size] = BlockAt(x, (start + w) - k * w)
    BY Zenon DEF Slots
<1> HIDE DEF blocks, size, w
<1>1. CASE k = 1
    <2>1. (index + 1) - k = index /\ (start + w) - k * w = start
        BY <1>0, <1>1
    <2> QED BY <2>1 DEF size
<1>2. CASE k # 1
    <2>1. k - 1 \in 1 .. blocks /\ k - 1 \in 1 .. size - 1 /\ (index + 1) - k = index - (k - 1) /\ index - (k - 1) \in Int
        BY <1>0, <1>2
    <2>2. (k - 1) * w = k * w - w
        BY <1>0
    <2>3. (start + w) - k * w = start - (k - 1) * w
        BY <1>0, <2>2
    <2>4. pack[(index - (k - 1)) % size] = BlockAt(x, start - (k - 1) * w)
        BY <2>1 DEF Slots, blocks, size, w
    <2> DEFINE j == k - 1
    <2>5. j \in 1 .. size - 1 /\ index \in Int
        BY <2>1
    <2> HIDE DEF j
    <2>6. (index - j) % size # index % size
        BY <1>0, <2>5, SlotsDiffer
    <2>7. next[(index - (k - 1)) % size] = pack[(index - (k - 1)) % size]
        BY <2>1, <2>6 DEF j, size
    <2> QED BY <2>1, <2>3, <2>4, <2>7
<1> QED BY <1>1, <1>2

\* and its bit into the summary of the blocks.
LEMMA FilledStep ==
    ASSUME NEW st, IsLong(st), st[4] \in Nat \ {0}, NEW x, NEW start \in Nat
    PROVE  (Shift(Filled(st, x, start), 1) \cup (IF BlockAt(x, start) = {} THEN {} ELSE {0}))
              \cap 0 .. AdvanceBlocks(st[4]) - 1 = Filled(st, x, start + BlockWidth)
<1> DEFINE blocks == AdvanceBlocks(st[4])
           w == BlockWidth
           F == Filled(st, x, start)
           G == Filled(st, x, start + w)
           E(p) == BlockAt(x, p) # {}
<1>0. w \in Nat /\ blocks \in Nat \ {0}
    BY LongIs, PabloConstants
<1>1. /\ F = {k \in 0 .. blocks - 1 : E(start - (k + 1) * w)}
      /\ G = {k \in 0 .. blocks - 1 : E((start + w) - (k + 1) * w)}
    <2>1. \A p : Filled(st, x, p) = {k \in 0 .. blocks - 1 : E(p - (k + 1) * w)}
        BY Zenon DEF Filled
    <2> HIDE DEF E, blocks, w
    <2>2. F = {k \in 0 .. blocks - 1 : E(start - (k + 1) * w)}
        BY <2>1, Zenon
    <2>3. G = {k \in 0 .. blocks - 1 : E((start + w) - (k + 1) * w)}
        BY <2>1, Zenon
    <2> QED BY <2>2, <2>3, Zenon
<1> HIDE DEF blocks, w, F, G
<1>2. ASSUME NEW k \in 0 .. blocks - 1
      PROVE  k \in G <=> k \in Shift(F, 1) \cup (IF ~E(start) THEN {} ELSE {0})
    <2>1. (k + 1) * w = k * w + w /\ (start + w) - (k + 1) * w = start - k * w
        BY <1>0
    <2>2. k \in G <=> E(start - k * w)
        BY <1>1, <2>1
    <2>3. k \in Shift(F, 1) <=> k - 1 \in F
        <3>1. F \in SUBSET Int
            BY <1>0, <1>1
        <3> QED BY <3>1, ShiftIs
    <2> HIDE DEF E
    <2>4. CASE k = 0
        <3>1. k - 1 \notin F /\ start - k * w = start
            BY <1>0, <1>1, <2>4
        <3> QED BY <2>2, <2>3, <2>4, <3>1
    <2>5. CASE k # 0
        <3>1. k - 1 \in 0 .. blocks - 1 /\ (k - 1) + 1 = k
            BY <1>0, <2>5
        <3>2. k - 1 \in F <=> E(start - k * w)
            BY <1>1, <3>1
        <3> QED BY <2>2, <2>3, <2>5, <3>2
    <2> QED BY <2>4, <2>5
<1>3. G \subseteq 0 .. blocks - 1
    BY <1>1
<1> QED BY <1>2, <1>3 DEF blocks, w, F, G

\* A long advance puts its block into a slot of its own buffer, and a bit into
\* its own summary.
LEMMA LongPut ==
    ASSUME NEW code, WellFormed(code), NEW s, MachineOK(code, s), s.pc \in DOMAIN code,
           code[s.pc].st[1] = "adv", IsLong(code[s.pc].st)
    PROVE  LET in   == code[s.pc]
               d    == in.st[2]
               size == PackSize(in.st)
               next == LongPack(s, in)[d] IN
           /\ next[s.index % size] = s.env[in.st[3]]
           /\ \A k \in Int : k % size # s.index % size => next[k % size] = s.pack[d][k % size]
           /\ LongKept(s, in)[d] = IF in.ifs # 0 /\ in.st[4] > BlockWidth THEN LongBits(s, in) ELSE s.long[d]
           /\ Untouched(code, s, LongPack(s, in), LongKept(s, in))
<1> DEFINE in   == code[s.pc]
           d    == in.st[2]
           size == PackSize(in.st)
           u    == s.env[in.st[3]]
           slot == s.index % size
<1>0. /\ s.pc \in Carrying(code) /\ Keeps(in) /\ in.st[4] \in Nat \ {0} /\ s.index \in Nat
      /\ PackOK(code, s.pack) /\ d \in DOMAIN s.long
    BY DEF Carrying, Keeps, Producers, WellFormed, IsCode, MachineOK, DataOK, LongOK
<1>1. /\ size \in Nat \ {0} /\ size = NearestPow2(AdvanceBlocks(in.st[4]))
      /\ in.st[4] <= BlockWidth => size = 1
    BY <1>0, LongIs
<1>2. \A k \in Int : k % size \in 0 .. size - 1
    <2> HIDE DEF size
    <2> QED BY <1>1, DivMod
<1>3. LongPack(s, in) = Put(s.pack, d, slot, u)
    <2>1. in.st[4] < BlockWidth => slot = 0
        <3>1. in.st[4] < BlockWidth => size = 1
            BY <1>0, <1>1, PabloConstants
        <3>2. s.index \in Int
            BY <1>0
        <3> HIDE DEF size
        <3> QED BY <3>1, <3>2, ModOne
    <2> QED BY <1>1, <2>1 DEF LongPack
<1>4. slot \in 0 .. size - 1
    BY <1>0, <1>2
<1>5. d \in DOMAIN s.pack /\ DOMAIN s.pack[d] = 0 .. size - 1
    BY <1>0 DEF PackOK, Places, Keeps, Carrying
<1>6. LongPack(s, in)[d] = [s.pack[d] EXCEPT ![slot] = u]
    <2> HIDE DEF slot, d, u
    <2> QED BY <1>3, <1>5 DEF Put
<1>7. LongPack(s, in)[d][slot] = u /\ \A k \in 0 .. size - 1 : k # slot => LongPack(s, in)[d][k] = s.pack[d][k]
    <2> HIDE DEF slot, size, u
    <2> QED BY <1>4, <1>5, <1>6
<1>8. LongKept(s, in)[d] = IF in.ifs # 0 /\ in.st[4] > BlockWidth THEN LongBits(s, in) ELSE s.long[d]
    <2> HIDE DEF in
    <2>1. d \in DOMAIN s.long
        BY <1>0
    <2> QED BY <2>1 DEF LongKept
<1>9. Untouched(code, s, LongPack(s, in), LongKept(s, in))
    <2> SUFFICES ASSUME NEW j \in Carrying(code), j # s.pc
                 PROVE  /\ LongPack(s, in)[code[j].st[2]] = s.pack[code[j].st[2]]
                        /\ IsLong(code[j].st) => LongKept(s, in)[code[j].st[2]] = s.long[code[j].st[2]]
        BY DEF Untouched
    <2>1. j \in DOMAIN code /\ Keeps(code[j])
        BY DEF Carrying, Keeps
    <2>2. code[j].st[2] # d
        BY <1>0, <2>1 DEF WellFormed, UniquePlaces
    <2>3. IsLong(code[j].st) => code[j].st[2] \in DOMAIN s.long
        BY <2>1 DEF MachineOK, DataOK, LongOK
    <2>4. LongPack(s, in)[code[j].st[2]] = s.pack[code[j].st[2]]
        <3> HIDE DEF slot, u, size
        <3> QED BY <1>0, <1>3, <1>4, <2>1, PutElsewhere DEF size
    <2> HIDE DEF in
    <2>5. IsLong(code[j].st) => LongKept(s, in)[code[j].st[2]] = s.long[code[j].st[2]]
        BY <2>2, <2>3 DEF LongKept
    <2> QED BY <2>4, <2>5
<1>10. \A k \in Int : k % size # slot => LongPack(s, in)[d][k % size] = s.pack[d][k % size]
    <2> HIDE DEF size, slot, d
    <2> QED BY <1>2, <1>7
<1> QED BY <1>7, <1>8, <1>9, <1>10

\* A long advance follows: its circular buffer holds the blocks that it
\* needs.
LEMMA FollowsLong ==
    ASSUME NEW code, WellFormed(code), NEW V, NEW all, NEW eof, NEW start, Meant(code, V, all, eof, start),
           NEW s, MachineOK(code, s), s.pc \in DOMAIN code, Follows(code, V, eof, start, s),
           code[s.pc].st[1] = "adv", IsLong(code[s.pc].st)
    PROVE  Follows(code, V, eof, start, Execute(s, code[s.pc]))
<1> DEFINE in == code[s.pc]
           st == in.st
           d  == st[2]
           t == Execute(s, in)
           x == V[s.pc][st[3]]
           bits == LongValue(s, in)
           pack == s.pack[d]
           next == LongPack(s, in)[d]
<1>m. start \in Nat /\ all \in SUBSET Nat /\ eof \in SUBSET Nat /\ \A i \in Block : start + i \in all
    BY DEF Meant
<1>0. /\ s.pc \in Carrying(code) /\ in.loops = 0 /\ DOMAIN s = Fields /\ s.pc \in Nat
      /\ st[4] \in Nat \ {0} /\ s.index \in Nat
    BY InstructionIs DEF Carrying, Producers, MachineOK, DataOK, WellFormed, IsCode
<1>1. Effect(s, t, d, bits, LongPack(s, in), LongKept(s, in), LongHeard(s, in))
    BY <1>0, LongEffect
<1>2. x \in SUBSET Nat /\ s.env[st[3]] = BlockAt(x, start)
    BY OperandFollows DEF Operands
<1>3. Slots(st, x, pack, s.index, start) /\ (in.ifs # 0 /\ st[4] > BlockWidth => s.long[d] = Filled(st, x, start))
    <2>1. PackedFor(code, V, s, s.pc, s.index, start)
        BY <1>0 DEF Follows
    <2> QED BY <2>1 DEF PackedFor, Packed
<1>4. /\ next[s.index % PackSize(st)] = s.env[st[3]]
      /\ \A k \in Int : k % PackSize(st) # s.index % PackSize(st) => next[k % PackSize(st)] = pack[k % PackSize(st)]
      /\ LongKept(s, in)[d] = IF in.ifs # 0 /\ st[4] > BlockWidth THEN LongBits(s, in) ELSE s.long[d]
      /\ Untouched(code, s, LongPack(s, in), LongKept(s, in))
    BY LongPut
<1>5. bits = BlockAt(Means(st, V[s.pc], all, eof), start)
    <2>1. Means(st, V[s.pc], all, eof) = Shift(x, st[4]) \cap all
        BY DEF Means
    <2>2. bits = LongOut(st, BlockAt(x, start), pack, s.index)
        BY <1>2 DEF LongValue, LongOut, TwoBlocks
    <2>3. BlockAt(Shift(x, st[4]) \cap all, start) = LongOut(st, BlockAt(x, start), pack, s.index)
        <3> DEFINE index == s.index
        <3>1. Slots(st, x, pack, index, start) /\ index \in Nat
            BY <1>0, <1>3
        <3>2. IsLong(st) /\ st[4] \in Nat \ {0} /\ Reached(all, start)
            BY <1>0, <1>m DEF Reached
        <3> HIDE DEF st, x, pack, index
        <3>3. BlockAt(Shift(x, st[4]) \cap all, start) = LongOut(st, BlockAt(x, start), pack, index)
            BY <1>2, <1>m, <3>1, <3>2, SlotsAdvance
        <3> QED BY <3>3 DEF index
    <2> QED BY <2>1, <2>2, <2>3
<1>6. Slots(st, x, next, s.index + 1, start + BlockWidth)
    <2> DEFINE index == s.index
    <2>1. /\ Slots(st, x, pack, index, start) /\ index \in Nat /\ IsLong(st) /\ st[4] \in Nat \ {0}
          /\ next[index % PackSize(st)] = BlockAt(x, start)
          /\ \A k \in Int : k % PackSize(st) # index % PackSize(st) => next[k % PackSize(st)] = pack[k % PackSize(st)]
        BY <1>0, <1>2, <1>3, <1>4
    <2> HIDE DEF st, x, pack, next, index
    <2>2. Slots(st, x, next, index + 1, start + BlockWidth)
        BY <1>m, <2>1, SlotsStep
    <2> QED BY <2>2 DEF index
<1>7. in.ifs # 0 /\ st[4] > BlockWidth => LongKept(s, in)[d] = Filled(st, x, start + BlockWidth)
    <2> SUFFICES ASSUME in.ifs # 0, st[4] > BlockWidth PROVE LongKept(s, in)[d] = Filled(st, x, start + BlockWidth)
        OBVIOUS
    <2>1. LongKept(s, in)[d] = LongBits(s, in)
        BY <1>4
    <2>2. LongBits(s, in) = (Shift(Filled(st, x, start), 1) \cup (IF BlockAt(x, start) = {} THEN {} ELSE {0}))
                               \cap 0 .. AdvanceBlocks(st[4]) - 1
        BY <1>2, <1>3 DEF LongBits
    <2>3. IsLong(st) /\ st[4] \in Nat \ {0}
        BY <1>0
    <2> HIDE DEF st, x, d
    <2>4. LongBits(s, in) = Filled(st, x, start + BlockWidth)
        BY <1>m, <2>2, <2>3, FilledStep
    <2> QED BY <2>1, <2>4
<1>8. t.pack = LongPack(s, in) /\ t.long = LongKept(s, in)
    BY <1>1 DEF Effect
<1> HIDE DEF t, bits
<1>9. PackedFor(code, V, t, s.pc, s.index + 1, start + BlockWidth)
    BY <1>6, <1>7, <1>8 DEF PackedFor, Packed
<1>10. in.st[1] \notin Branches
    BY DEF Branches
<1>12. Follows(code, V, eof, start, t)
    <2> DEFINE p == LongPack(s, in)
               l == LongKept(s, in)
               h == LongHeard(s, in)
    <2>1. Effect(s, t, d, bits, p, l, h) /\ Untouched(code, s, p, l)
        BY <1>1, <1>4
    <2> HIDE DEF p, l, h
    <2> QED BY <1>5, <1>9, <1>10, <2>1, FollowsOn
<1> QED BY <1>12 DEF t

-----------------------------------------------------------------------------
(* What a statement keeps, when an If is skipped.                          *)

\* What a long advance remembers are the blocks that it keeps.
LEMMA LongRemembered ==
    ASSUME NEW st, st[1] = "adv", IsLong(st), st[4] \in Nat \ {0}, NEW env, env[st[3]] \in SUBSET Nat,
           NEW start \in Nat
    PROVE  Remembered(st, env, start) = {}
             <=> \A k \in 1 .. AdvanceBlocks(st[4]) : BlockAt(env[st[3]], start - k * BlockWidth) = {}
<1> DEFINE x == env[st[3]]
           blocks == AdvanceBlocks(st[4])
           w == BlockWidth
           far == start - blocks * w
<1>0. w \in Nat /\ w > 0 /\ blocks \in Nat \ {0} /\ Block = 0 .. w - 1 /\ x \in SUBSET Nat
    BY LongIs, PabloConstants DEF Block
<1>1. Remembered(st, env, start) = {p \in x : far <= p /\ p < start}
    BY DEF Remembered
<1>2. \A k \in 1 .. blocks : BlockAt(x, start - k * w) = {p \in Block : (start - k * w) + p \in x}
    <2> SUFFICES ASSUME NEW k \in 1 .. blocks
                 PROVE  BlockAt(x, start - k * w) = {p \in Block : (start - k * w) + p \in x}
        OBVIOUS
    <2>1. start - k * w \in Int
        BY <1>0
    <2> DEFINE at == start - k * w
    <2> HIDE DEF at, x
    <2>2. BlockAt(x, at) = {p \in Block : at + p \in x}
        BY <1>0, <2>1, BlockOf DEF at
    <2> QED BY <2>2 DEF at
<1>f. far \in Int /\ far = start - blocks * w
    BY <1>0
<1> HIDE DEF x, blocks, w, far
<1>3. ASSUME NEW k \in 1 .. blocks, NEW p \in Block, (start - k * w) + p \in x
      PROVE  Remembered(st, env, start) # {}
    <2>1. k * w <= blocks * w /\ k * w >= w /\ k * w \in Int /\ blocks * w \in Int
        BY <1>0
    <2> DEFINE q == (start - k * w) + p
    <2>2. far <= q /\ q < start
        BY <1>0, <1>f, <2>1
    <2>3. q \in x
        BY <1>3
    <2> HIDE DEF q
    <2> QED BY <1>1, <2>2, <2>3
<1>4. ASSUME NEW p \in x, far <= p, p < start
      PROVE  \E k \in 1 .. blocks : BlockAt(x, start - k * w) # {}
    <2> DEFINE m == start - 1 - p
               q == m \div w
               r == m % w
    <2>1. m \in Int /\ m >= 0 /\ m < blocks * w
        BY <1>0, <1>f, <1>4
    <2> HIDE DEF m
    <2>2. q \in Int /\ r \in 0 .. w - 1 /\ m = w * q + r
        <3>1. w \in Nat \ {0}
            BY <1>0
        <3> QED BY <2>1, <3>1, DivMod
    <2> HIDE DEF q, r
    <2>3. q >= 0
        <3> SUFFICES ASSUME q <= -1 PROVE FALSE
            BY <2>2
        <3>1. w * q <= w * (-1)
            BY <1>0, <2>2
        <3> QED BY <1>0, <2>1, <2>2, <3>1
    <2>4. q < blocks
        <3> SUFFICES ASSUME q >= blocks PROVE FALSE
            BY <1>0, <2>2
        <3>1. w * q >= blocks * w
            BY <1>0, <2>2
        <3> QED BY <1>0, <2>1, <2>2, <3>1
    <2>5. q + 1 \in 1 .. blocks /\ (q + 1) * w = w * q + w
        BY <1>0, <2>2, <2>3, <2>4
    <2>6. w - 1 - r \in Block /\ (start - (q + 1) * w) + (w - 1 - r) = p
        BY <1>0, <1>4, <2>2, <2>5 DEF m
    <2>7. w - 1 - r \in BlockAt(x, start - (q + 1) * w)
        BY <1>2, <2>5, <2>6
    <2> QED BY <2>5, <2>7
<1>5. (\A k \in 1 .. blocks : BlockAt(x, start - k * w) = {}) => Remembered(st, env, start) = {}
    BY <1>1, <1>4
<1>6. Remembered(st, env, start) = {} => \A k \in 1 .. blocks : BlockAt(x, start - k * w) = {}
    BY <1>2, <1>3
<1> QED BY <1>5, <1>6 DEF x, blocks, w

\* Nothing is remembered where nothing is kept,
LEMMA KeptRemembered ==
    ASSUME NEW code, WellFormed(code), NEW V, NEW all, NEW eof, NEW start, Meant(code, V, all, eof, start),
           NEW s, MachineOK(code, s), NEW i \in Carrying(code), code[i].ifs # 0,
           PackedFor(code, V, s, i, s.index, start), Kept(code[i], s) = {}
    PROVE  Remembered(code[i].st, V[i], start) = {}
<1> DEFINE st == code[i].st
           env == V[i]
           pack == s.pack[st[2]]
<1>0. /\ i \in 1 .. Len(code) + 1 /\ s.index \in Nat /\ start \in Nat
      /\ st[1] \in Producers /\ (st[1] = "adv" => st[4] \in Nat \ {0})
      /\ i \in 1 .. Len(code)
    BY DEF Carrying, WellFormed, IsCode, MachineOK, DataOK, Meant
<1>1. IsLong(st) => st[1] = "adv" /\ env[st[3]] \in SUBSET Nat
    <2> SUFFICES ASSUME IsLong(st) PROVE st[1] = "adv" /\ env[st[3]] \in SUBSET Nat
        OBVIOUS
    <2>1. st[1] = "adv"
        BY DEF IsLong
    <2>2. st[3] \in Variables(code)
        BY <1>0, <2>1, StatementIs DEF Operands, Variables
    <2> QED BY <1>0, <2>1, <2>2 DEF Meant
<1>2. CASE ~IsLong(st)
    <2>1. pack[0] = {}
        BY <1>2, KeptIs
    <2>2. pack[0] = Shift(Remembered(st, env, start), Bits(st) - start)
        BY <1>2 DEF PackedFor, Packed
    <2> QED BY <2>1, <2>2 DEF Shift
<1>3. CASE IsLong(st)
    <2> DEFINE x == env[st[3]]
               blocks == AdvanceBlocks(st[4])
               w == BlockWidth
               E(p) == BlockAt(x, p) = {}
    <2>0. st[1] = "adv" /\ st[4] \in Nat \ {0} /\ env[st[3]] \in SUBSET Nat /\ w \in Nat
        BY <1>0, <1>1, <1>3, PabloConstants
    <2>1. Remembered(st, env, start) = {} <=> \A k \in 1 .. blocks : E(start - k * w)
        <3> HIDE DEF st, env
        <3> QED BY <1>0, <1>3, <2>0, LongRemembered
    <2>2. CASE st[4] > BlockWidth
        <3>1. s.long[st[2]] = {}
            BY <1>3, <2>2, KeptIs
        <3>2. s.long[st[2]] = Filled(st, x, start)
            BY <1>3, <2>2 DEF PackedFor, Packed
        <3>3. \A k \in 0 .. blocks - 1 : E(start - (k + 1) * w)
            BY <3>1, <3>2 DEF Filled
        <3>4. blocks \in Nat
            BY <1>3, <2>0, LongIs
        <3> HIDE DEF E, blocks, w
        <3>5. ASSUME NEW k \in 1 .. blocks
              PROVE  E(start - k * w)
            <4>1. k - 1 \in 0 .. blocks - 1 /\ (k - 1) + 1 = k
                BY <3>4
            <4> QED BY <3>3, <4>1
        <3> QED BY <2>1, <3>5 DEF blocks, w
    <2>3. CASE ~(st[4] > BlockWidth)
        <3>1. pack[0] = {}
            BY <1>3, <2>3, KeptIs
        <3>2. blocks = 1 /\ PackSize(st) = 1
            <4>1. st[4] <= BlockWidth
                BY <2>0, <2>3
            <4> QED BY <1>3, <2>0, <4>1, LongIs
        <3>3. \A k \in 1 .. blocks : pack[(s.index - k) % PackSize(st)] = BlockAt(x, start - k * w)
            BY <1>3 DEF PackedFor, Packed, Slots
        <3>4. ASSUME NEW k \in 1 .. blocks
              PROVE  E(start - k * w)
            <4>1. k \in Int /\ s.index - k \in Int
                BY <1>0, <3>2
            <4>2. (s.index - k) % PackSize(st) = 0
                BY <3>2, <4>1, ModOne
            <4> QED BY <3>1, <3>3, <4>2
        <3> QED BY <2>1, <3>4
    <2> QED BY <2>2, <2>3
<1> QED BY <1>2, <1>3

\* A circular buffer comes round.
LEMMA SlotAgain ==
    ASSUME NEW a \in Int, NEW m \in Nat \ {0}
    PROVE  (a - m) % m = a % m
<1> DEFINE q == a \div m
           r == a % m
           b == a - m
           u == q - 1
<1>1. q \in Int /\ r \in 0 .. m - 1 /\ a = m * q + r
    BY DivMod
<1> HIDE DEF q, r
<1>2. b \in Int /\ u \in Int /\ b = m * u + r
    BY <1>1
<1> HIDE DEF b, u
<1>3. b % m = r
    BY <1>1, <1>2, DivModIs
<1> QED BY <1>3 DEF b, r

\* and a statement that keeps nothing need not be executed where it would have
\* nothing to remember.
LEMMA PackedIdle ==
    ASSUME NEW code, WellFormed(code), NoStaleSlots(code),
           NEW V, NEW all, NEW eof, NEW start, Meant(code, V, all, eof, start),
           NEW s, MachineOK(code, s), NEW i \in Carrying(code), code[i].ifs # 0,
           PackedFor(code, V, s, i, s.index, start), Kept(code[i], s) = {},
           Remembered(code[i].st, V[i], start + BlockWidth) = {}
    PROVE  PackedFor(code, V, s, i, s.index + 1, start + BlockWidth)
<1> DEFINE st == code[i].st
           env == V[i]
           pack == s.pack[st[2]]
           w == BlockWidth
<1>0. /\ i \in 1 .. Len(code) + 1 /\ s.index \in Nat /\ start \in Nat
      /\ st[1] \in Producers /\ (st[1] = "adv" => st[4] \in Nat \ {0})
      /\ i \in 1 .. Len(code) /\ i \in DOMAIN code /\ w \in Nat
    BY PabloConstants DEF Carrying, WellFormed, IsCode, MachineOK, DataOK, Meant
<1>1. CASE ~IsLong(st)
    <2>1. pack[0] = {}
        BY <1>1, KeptIs
    <2>2. pack[0] = Shift(Remembered(st, env, start + BlockWidth), Bits(st) - (start + BlockWidth))
        BY <2>1 DEF Shift
    <2> QED BY <1>1, <2>2 DEF PackedFor, Packed
<1>2. CASE IsLong(st)
    <2> DEFINE x == env[st[3]]
               blocks == AdvanceBlocks(st[4])
               size == PackSize(st)
               E(p) == BlockAt(x, p) = {}
               index == s.index
    <2>0. st[1] = "adv" /\ st[4] \in Nat \ {0}
        BY <1>0, <1>2 DEF IsLong
    <2>1. env[st[3]] \in SUBSET Nat
        <3>1. st[3] \in Variables(code)
            BY <1>0, <2>0, StatementIs DEF Operands, Variables
        <3> QED BY <1>0, <3>1 DEF Meant
    <2>2. blocks \in Nat \ {0} /\ size = blocks
        <3>1. PackSize(code[i].st) = AdvanceBlocks(code[i].st[4])
            <4>1. code[i].ifs > 0
                BY <1>0 DEF WellFormed, IsCode
            <4> QED BY <1>0, <1>2, <4>1 DEF NoStaleSlots
        <3>2. AdvanceBlocks(st[4]) \in Nat \ {0}
            BY <2>0, AdvanceBlocksOf
        <3> QED BY <3>1, <3>2
    <2>3. \A k \in 1 .. blocks : E(start - k * w)
        <3>1. Remembered(st, env, start) = {}
            BY KeptRemembered
        <3> HIDE DEF st, env
        <3> QED BY <1>0, <1>2, <2>0, <2>1, <3>1, LongRemembered
    <2>4. E(start)
        <3>1. start + w \in Nat
            BY <1>0
        <3> DEFINE after == start + w
        <3>2. Remembered(st, env, after) = {} /\ after \in Nat
            BY <3>1
        <3> HIDE DEF st, env, after
        <3>3. \A k \in 1 .. AdvanceBlocks(st[4]) : BlockAt(env[st[3]], after - k * BlockWidth) = {}
            BY <1>2, <2>0, <2>1, <3>2, LongRemembered
        <3>4. 1 \in 1 .. AdvanceBlocks(st[4])
            BY <2>2
        <3>5. BlockAt(env[st[3]], after - 1 * BlockWidth) = {}
            BY <3>3, <3>4
        <3>6. after - 1 * BlockWidth = start
            BY <1>0 DEF after
        <3> QED BY <3>5, <3>6
    <2>5. \A k \in 1 .. blocks : pack[(index - k) % size] = BlockAt(x, start - k * w)
        BY <1>2 DEF PackedFor, Packed, Slots
    <2>6. index \in Nat
        BY <1>0
    <2>7. st[4] > BlockWidth => s.long[st[2]] = Filled(st, x, start)
        BY <1>2 DEF PackedFor, Packed
    <2> HIDE DEF index, pack, size, blocks, E, w
    <2>8. \A k \in 1 .. blocks : pack[(index - k) % size] = {}
        BY <2>3, <2>5 DEF E
    <2>9. ASSUME NEW k \in 1 .. blocks
          PROVE  E((start + w) - k * w) /\ pack[((index + 1) - k) % size] = {}
        <3>1. CASE k = 1
            <4>1. (start + w) - k * w = start /\ (index + 1) - k = index
                BY <1>0, <2>6, <3>1
            <4>2. (index - size) % size = index % size
                <5>1. index \in Int /\ size \in Nat \ {0}
                    BY <2>2, <2>6
                <5> QED BY <5>1, SlotAgain
            <4>3. blocks \in 1 .. blocks
                BY <2>2
            <4>4. pack[index % size] = {}
                BY <2>2, <2>8, <4>2, <4>3
            <4> QED BY <2>4, <4>1, <4>4
        <3>2. CASE k # 1
            <4>1. k - 1 \in 1 .. blocks /\ (index + 1) - k = index - (k - 1)
                BY <2>2, <2>6, <3>2
            <4>2. (k - 1) * w = k * w - w
                BY <1>0
            <4>3. (start + w) - k * w = start - (k - 1) * w
                BY <1>0, <4>2
            <4> QED BY <2>3, <2>8, <4>1, <4>3
        <3> QED BY <3>1, <3>2
    <2>10. Slots(st, x, pack, index + 1, start + w)
        BY <2>9 DEF Slots, E, blocks, size, w
    <2>11. st[4] > BlockWidth => s.long[st[2]] = Filled(st, x, start + w)
        <3>1. Filled(st, x, start) = {}
            <4> SUFFICES ASSUME NEW k \in 0 .. blocks - 1, ~E(start - (k + 1) * w) PROVE FALSE
                BY DEF Filled, E, blocks, w
            <4>1. k + 1 \in 1 .. blocks
                BY <2>2
            <4> QED BY <2>3, <4>1
        <3>2. Filled(st, x, start + w) = {}
            <4> SUFFICES ASSUME NEW k \in 0 .. blocks - 1, ~E((start + w) - (k + 1) * w) PROVE FALSE
                BY DEF Filled, E, blocks, w
            <4>1. k + 1 \in 1 .. blocks
                BY <2>2
            <4> QED BY <2>9, <4>1
        <3> QED BY <2>7, <3>1, <3>2
    <2> QED BY <1>2, <2>10, <2>11 DEF PackedFor, Packed, index, pack, w
<1> QED BY <1>1, <1>2

\* Entering an If and leaving it defines nothing.
LEMMA FollowsBranch ==
    ASSUME NEW code, WellFormed(code), NEW V, NEW all, NEW eof, NEW start, Meant(code, V, all, eof, start),
           NEW s, MachineOK(code, s), s.pc \in DOMAIN code, code[s.pc].st[1] \in Branches,
           Follows(code, V, eof, start, s),
           NEW t, t.env = s.env, t.eof = s.eof, t.index = s.index, t.pc = s.pc + 1,
           Untouched(code, s, t.pack, t.long)
    PROVE  Follows(code, V, eof, start, t)
<1> DEFINE i == s.pc
<1>1. i \in 1 .. Len(code) /\ i \in Nat /\ i \notin Carrying(code)
    BY DEF WellFormed, IsCode, Carrying, Producers, Branches
<1>2. V[i + 1] = V[i]
    BY <1>1 DEF Meant, StreamStep
<1> HIDE DEF i
<1>3. ASSUME NEW v \in InScope(code, i)
      PROVE  t.env[v] = BlockAt(V[i + 1][v], start)
    <2>1. v \in InScope(code, i - 1)
        BY <1>1, InScopeStep DEF i
    <2> QED BY <1>2, <2>1 DEF Follows, i
<1>4. ASSUME NEW j \in Carrying(code)
      PROVE  IF j < t.pc THEN PackedFor(code, V, t, j, t.index + 1, start + BlockWidth)
             ELSE PackedFor(code, V, t, j, t.index, start)
    <2>1. j \in Nat /\ j # i
        BY <1>1 DEF Carrying, WellFormed, IsCode
    <2>2. j < t.pc <=> j < s.pc
        BY <1>1, <2>1 DEF i
    <2>3. /\ t.pack[code[j].st[2]] = s.pack[code[j].st[2]]
          /\ IsLong(code[j].st) => t.long[code[j].st[2]] = s.long[code[j].st[2]]
        BY <2>1 DEF Untouched, i
    <2>4. \A index, p : PackedFor(code, V, t, j, index, p) = PackedFor(code, V, s, j, index, p)
        BY <2>3 DEF PackedFor, Packed
    <2> QED BY <2>2, <2>4 DEF Follows
<1>5. t.pc - 1 = i /\ t.pc = i + 1
    BY <1>1 DEF i
<1>6. t.eof = BlockAt(eof, start)
    BY DEF Follows
<1> QED BY <1>3, <1>4, <1>5, <1>6 DEF Follows

\* Entering an If changes no variable and no carry,
LEMMA FollowsEntered ==
    ASSUME NEW code, WellFormed(code), NEW V, NEW all, NEW eof, NEW start, Meant(code, V, all, eof, start),
           NEW s, MachineOK(code, s), s.pc \in Ifs(code), Follows(code, V, eof, start, s),
           NEW t, Entered(s, t)
    PROVE  Follows(code, V, eof, start, t)
<1>1. s.pc \in DOMAIN code /\ code[s.pc].st[1] \in Branches
    BY DEF Ifs, Branches
<1>2. Untouched(code, s, t.pack, t.long)
    BY DEF Entered, Untouched
<1> QED BY <1>1, <1>2, FollowsBranch DEF Entered

\* and leaving it changes only its summary.
LEMMA FollowsLeft ==
    ASSUME NEW code, WellFormed(code), NEW V, NEW all, NEW eof, NEW start, Meant(code, V, all, eof, start),
           NEW s, MachineOK(code, s), s.pc \in DOMAIN code, code[s.pc].st[1] = "endif",
           Follows(code, V, eof, start, s)
    PROVE  Follows(code, V, eof, start, Execute(s, code[s.pc]))
<1> DEFINE in == code[s.pc]
           t == Execute(s, in)
           e == in.to
<1>0. DOMAIN s = Fields /\ in.loops = 0 /\ in.st[1] \in Branches /\ PackOK(code, s.pack)
    BY InstructionIs DEF MachineOK, DataOK, Branches
<1>1. /\ t.env = s.env /\ t.eof = s.eof /\ t.index = s.index
      /\ t.pack = LeftPack(s, in) /\ t.long = s.long /\ t.pc = s.pc + 1
    BY <1>0, LeaveEffect
<1>2. e \in Ifs(code) /\ code[e].to = s.pc
    BY DEF WellFormed, Nested
<1>3. e \in DOMAIN code /\ Keeps(code[e]) /\ in.st[2] = code[e].st[2] /\ 0 \in 0 .. PackSize(code[e].st) - 1
    BY <1>2, IfIs
<1> HIDE DEF t
<1>4. Untouched(code, s, t.pack, t.long)
    <2> SUFFICES ASSUME NEW j \in Carrying(code) PROVE LeftPack(s, in)[code[j].st[2]] = s.pack[code[j].st[2]]
        BY <1>1 DEF Untouched
    <2>1. j \in DOMAIN code /\ Keeps(code[j]) /\ j # e
        BY <1>2 DEF Carrying, Keeps, Ifs, Producers
    <2>2. Put(s.pack, in.st[2], 0, Top(s))[code[j].st[2]] = s.pack[code[j].st[2]]
        BY <1>0, <1>3, <2>1, PutElsewhere
    <2> QED BY <2>2 DEF LeftPack
<1>5. Follows(code, V, eof, start, t)
    BY <1>0, <1>1, <1>4, FollowsBranch
<1> QED BY <1>5 DEF t

-----------------------------------------------------------------------------
(* Skipping an If that is idle.                                            *)

\* The variables that the body of an If assigns.
Assigned(code, e) == {code[i].st[2] : i \in {j \in Inside(code, e) : code[j].st[1] \notin Branches}}

\* An If changes no others.
LEMMA OthersStay ==
    ASSUME NEW code, WellFormed(code), NEW V, NEW all, NEW eof, NEW start, Meant(code, V, all, eof, start),
           NEW e \in Ifs(code), NEW v \in Variables(code), v \notin Assigned(code, e)
    PROVE  V[code[e].to + 1][v] = V[e][v]
<1> DEFINE last == code[e].to + 1
           C == {i \in e .. last : V[i][v] # V[e][v]}
<1>0. /\ e \in 1 .. Len(code) /\ code[e].to \in e + 1 .. Len(code) /\ Len(code) \in Nat
      /\ code[e].st[1] \in Branches /\ code[code[e].to].st[1] \in Branches
    BY IfIs DEF Branches
<1> SUFFICES ASSUME C # {} PROVE FALSE
    BY <1>0
<1>1. PICK i \in C : \A j \in C : i <= j
    <2>1. C \subseteq Nat
        BY <1>0
    <2> HIDE DEF C
    <2> QED BY <2>1, LeastNumber
<1> DEFINE h == i - 1
<1>2. i # e
    BY <1>1
<1>3. h \in e .. code[e].to /\ h \in 1 .. Len(code) /\ h + 1 = i /\ h \in 1 .. Len(code) + 1
    BY <1>0, <1>1, <1>2
<1>4. V[h][v] = V[e][v]
    <2>1. h \notin C
        <3>1. ~(i <= h)
            BY <1>0, <1>1
        <3> HIDE DEF C, h
        <3> QED BY <1>1, <3>1
    <2> QED BY <1>0, <1>3, <2>1
<1>5. V[h + 1] = StreamStep(V[h], code[h].st, all, eof) /\ DOMAIN V[h] = Variables(code)
    BY <1>3 DEF Meant
<1>6. V[h + 1][v] # V[e][v]
    BY <1>1, <1>3
<1> HIDE DEF h, C
<1>7. CASE code[h].st[1] \in Branches
    BY <1>4, <1>5, <1>6, <1>7 DEF StreamStep
<1>8. CASE code[h].st[1] \notin Branches
    <2>1. h \in Inside(code, e)
        <3>1. h # e /\ h # code[e].to
            BY <1>0, <1>8
        <3> QED BY <1>0, <1>3, <3>1 DEF Inside
    <2>2. v # code[h].st[2]
        BY <1>8, <2>1 DEF Assigned
    <2>3. V[h + 1] = [V[h] EXCEPT ![code[h].st[2]] = Means(code[h].st, V[h], all, eof)]
        BY <1>5, <1>8 DEF StreamStep
    <2> QED BY <1>4, <1>5, <1>6, <2>2, <2>3
<1> QED BY <1>7, <1>8

\* What is in scope after an If was before it, and if it is assigned in the If,
\* it is known to escape.
LEMMA InScopeSkip ==
    ASSUME NEW code, WellFormed(code), NEW e \in Ifs(code), NEW v \in InScope(code, code[e].to)
    PROVE  /\ v \in InScope(code, e - 1) /\ v \in Variables(code)
           /\ v \in Assigned(code, e) => v \in code[e].escaped
<1>0. e \in 1 .. Len(code) /\ code[e].to \in e + 1 .. Len(code) /\ Len(code) \in Nat
      /\ code[e].st[1] \in Branches /\ code[code[e].to].st[1] \in Branches
    BY IfIs DEF Branches
<1>1. v \in InScope(code, e - 1)
    <2>1. CASE v \in Inputs(code)
        BY <2>1 DEF InScope
    <2>2. CASE v \notin Inputs(code)
        <3>1. PICK h \in 1 .. code[e].to :
                 /\ code[h].st[1] \notin Branches /\ v = code[h].st[2]
                 /\ \A f \in Ifs(code) : h \in Inside(code, f) => code[e].to < code[f].to
            BY <2>2 DEF InScope
        <3>2. h \notin Inside(code, e) /\ h # e /\ h # code[e].to
            BY <1>0, <3>1
        <3>3. h \in 1 .. e - 1
            BY <1>0, <3>1, <3>2 DEF Inside
        <3>4. \A f \in Ifs(code) : h \in Inside(code, f) => e - 1 < code[f].to
            <4> SUFFICES ASSUME NEW f \in Ifs(code), h \in Inside(code, f) PROVE e - 1 < code[f].to
                OBVIOUS
            <4>1. code[e].to < code[f].to /\ code[f].to \in Nat
                BY <3>1, IfPlace
            <4> QED BY <1>0, <4>1
        <3> QED BY <3>1, <3>3, <3>4 DEF InScope
    <2> QED BY <2>1, <2>2
<1>2. v \in Variables(code)
    BY <1>0, InScopeStep
<1>3. code[e].escaped = Assigned(code, e) \cap InScope(code, e - 1)
    BY DEF WellFormed, Summarized, Assigned
<1> QED BY <1>1, <1>2, <1>3

\* Ifs that have nothing to do in the block at start would do nothing.
Quiet(code, V, start) ==
    \A e \in Ifs(code) : Idle(code, V, e, start) =>
        /\ \A i \in Carrying(code) \cap Inside(code, e) : Remembered(code[i].st, V[i], start + BlockWidth) = {}
        /\ \A v \in code[e].escaped : BlockAt(V[code[e].to + 1][v], start) = BlockAt(V[e][v], start)

\* An If is skipped when it has nothing to do.
LEMMA SkippedIsIdle ==
    ASSUME NEW code, WellFormed(code),
           NEW V, NEW all, NEW eof, NEW start, Meant(code, V, all, eof, start),
           NEW s, MachineOK(code, s), s.pc \in Ifs(code), Follows(code, V, eof, start, s), Hears(code, s),
           s.env[code[s.pc].st[3]] = {}, Summary(s, code[s.pc]) = {}
    PROVE  /\ Idle(code, V, s.pc, start)
           /\ \A j \in Carrying(code) \cap Inside(code, s.pc) :
                 Kept(code[j], s) = {} /\ code[j].ifs # 0 /\ PackedFor(code, V, s, j, s.index, start)
<1> DEFINE e == s.pc
<1>0. e \in DOMAIN code /\ e \in Nat /\ code[e].st[1] = "if"
    BY IfPlace
<1>1. ASSUME NEW j \in Carrying(code) \cap Inside(code, e)
      PROVE  /\ Kept(code[j], s) = {} /\ code[j].ifs # 0 /\ PackedFor(code, V, s, j, s.index, start)
             /\ Remembered(code[j].st, V[j], start) = {}
    <2>1. Kept(code[j], s) = {}
        BY SkippedKeepsNothing
    <2>2. code[j].ifs # 0
        <3>1. code[j].ifs > code[e].ifs /\ code[e].ifs \in Nat /\ code[j].ifs \in Nat
            BY <1>0 DEF WellFormed, Nested, IsCode, Carrying
        <3> QED BY <3>1
    <2>3. PackedFor(code, V, s, j, s.index, start)
        <3>1. ~(j < s.pc)
            BY <1>0 DEF Inside
        <3> QED BY <3>1 DEF Follows
    <2> QED BY <2>1, <2>2, <2>3, KeptRemembered
<1>2. BlockAt(V[e][code[e].st[3]], start) = {}
    <2>1. code[e].st[3] \in Operands(code[e].st)
        BY <1>0 DEF Operands
    <2> QED BY <1>0, <2>1, OperandFollows
<1> QED BY <1>1, <1>2 DEF Idle

\* Skipping an If follows too, if the If had nothing to do.
LEMMA FollowsSkipped ==
    ASSUME NEW code, WellFormed(code), NoStaleSlots(code),
           NEW V, NEW all, NEW eof, NEW start, Meant(code, V, all, eof, start), Quiet(code, V, start),
           NEW s, MachineOK(code, s), s.pc \in Ifs(code), Follows(code, V, eof, start, s), Hears(code, s),
           s.env[code[s.pc].st[3]] = {}, Summary(s, code[s.pc]) = {},
           NEW t, Skipped(s, code[s.pc], t)
    PROVE  Follows(code, V, eof, start, t)
<1> DEFINE e == s.pc
           to == code[e].to
<1>0. /\ e \in 1 .. Len(code) /\ e \in Nat /\ to \in Nat /\ e < to
      /\ code[e].st[1] = "if" /\ code[to].st[1] = "endif"
    BY IfIs, IfPlace
<1>1. /\ t.env = s.env /\ t.eof = s.eof /\ t.index = s.index
      /\ t.pack = s.pack /\ t.long = s.long /\ t.pc = to + 1
    BY DEF Skipped
<1>2. /\ Idle(code, V, e, start)
      /\ \A j \in Carrying(code) \cap Inside(code, e) :
            Kept(code[j], s) = {} /\ code[j].ifs # 0 /\ PackedFor(code, V, s, j, s.index, start)
    BY SkippedIsIdle
<1>3. /\ \A i \in Carrying(code) \cap Inside(code, e) : Remembered(code[i].st, V[i], start + BlockWidth) = {}
      /\ \A v \in code[e].escaped : BlockAt(V[to + 1][v], start) = BlockAt(V[e][v], start)
    BY <1>2 DEF Quiet
<1>4. ASSUME NEW v \in InScope(code, to)
      PROVE  t.env[v] = BlockAt(V[to + 1][v], start)
    <2>1. v \in InScope(code, e - 1) /\ v \in Variables(code) /\ (v \in Assigned(code, e) => v \in code[e].escaped)
        BY InScopeSkip
    <2>2. s.env[v] = BlockAt(V[e][v], start)
        BY <2>1 DEF Follows
    <2>3. CASE v \in Assigned(code, e)
        BY <1>1, <1>3, <2>1, <2>2, <2>3
    <2>4. CASE v \notin Assigned(code, e)
        <3>1. V[to + 1][v] = V[e][v]
            BY <2>1, <2>4, OthersStay
        <3> QED BY <1>1, <2>2, <3>1
    <2> QED BY <2>3, <2>4
<1> HIDE DEF e, to
<1>5. ASSUME NEW j \in Carrying(code)
      PROVE  IF j < t.pc THEN PackedFor(code, V, t, j, t.index + 1, start + BlockWidth)
             ELSE PackedFor(code, V, t, j, t.index, start)
    <2>1. j \in Nat /\ j # e /\ j # to
        BY <1>0 DEF Carrying, WellFormed, IsCode, Producers
    <2>2. \A index, p : PackedFor(code, V, t, j, index, p) = PackedFor(code, V, s, j, index, p)
        BY <1>1 DEF PackedFor
    <2>3. CASE j \in Inside(code, e)
        <3>1. PackedFor(code, V, s, j, s.index + 1, start + BlockWidth)
            BY <1>2, <1>3, <2>3, PackedIdle
        <3>2. j < t.pc
            BY <1>0, <1>1, <2>1, <2>3 DEF Inside, to
        <3> QED BY <1>1, <2>2, <3>1, <3>2
    <2>4. CASE j \notin Inside(code, e)
        <3>1. j < t.pc <=> j < s.pc
            BY <1>0, <1>1, <2>1, <2>4 DEF Inside, to, e
        <3> QED BY <1>1, <2>2, <3>1 DEF Follows
    <2> QED BY <2>3, <2>4
<1>6. t.pc - 1 = to
    BY <1>0, <1>1
<1> QED BY <1>1, <1>4, <1>5, <1>6 DEF Follows

-----------------------------------------------------------------------------
(* A block follows.                                                        *)

\* An instruction follows what it means,
LEMMA StepFollows ==
    ASSUME NEW code, WellFormed(code), NoStaleSlots(code),
           NEW V, NEW all, NEW eof, NEW start, Meant(code, V, all, eof, start), Quiet(code, V, start),
           NEW s, MachineOK(code, s), s.pc \in DOMAIN code, Follows(code, V, eof, start, s), Hears(code, s)
    PROVE  Follows(code, V, eof, start, Execute(s, code[s.pc]))
<1> DEFINE in == code[s.pc]
           t == Execute(s, in)
<1>0. DOMAIN s = Fields /\ in.loops = 0
    BY InstructionIs DEF MachineOK
<1>1. in.st[1] \in Bitwise \cup Producers \cup {"if", "endif"}
    BY InstructionIs
<1>2. CASE in.st[1] \in Bitwise
    BY <1>2, FollowsBitwise
<1>3. CASE in.st[1] = "scan"
    BY <1>3, FollowsScan
<1>4. CASE in.st[1] = "star"
    BY <1>4, FollowsStar
<1>5. CASE in.st[1] = "adv" /\ ~IsLong(in.st)
    BY <1>5, FollowsAdvance
<1>6. CASE in.st[1] = "adv" /\ IsLong(in.st)
    BY <1>6, FollowsLong
<1>7. CASE in.st[1] = "if"
    <2>1. s.pc \in Ifs(code)
        BY <1>7 DEF Ifs
    <2>2. IF s.env[in.st[3]] = {} /\ Summary(s, in) = {} THEN Skipped(s, in, t) ELSE Entered(s, t)
        BY <1>0, <1>7, EnterEffect
    <2> HIDE DEF t
    <2>3. Follows(code, V, eof, start, t)
        BY <2>1, <2>2, FollowsEntered, FollowsSkipped
    <2> QED BY <2>3 DEF t
<1>8. CASE in.st[1] = "endif"
    BY <1>8, FollowsLeft
<1> QED BY <1>1, <1>2, <1>3, <1>4, <1>5, <1>6, <1>7, <1>8 DEF Producers

\* and so does a block.
LEMMA BlockFollows ==
    ASSUME NEW code, WellFormed(code), LongAdvancesHeard(code), NoStaleSlots(code),
           NEW V, NEW all, NEW eof, NEW start, Meant(code, V, all, eof, start), Quiet(code, V, start),
           NEW first, MachineOK(code, first), first.pc = 1,
           \A e \in Ifs(code) : Covered(code, first, e), Follows(code, V, eof, start, first)
    PROVE  Follows(code, V, eof, start, RunBlock(code, first))
<1>0. Len(code) \in Nat /\ DOMAIN code = 1 .. Len(code)
    BY DEF WellFormed, IsCode
<1>1. PICK after : RunBlock(code, first) = after[Len(code)] /\ Runs(code, first, after)
    BY BlockRuns
<1> DEFINE P(i) == Hears(code, after[i]) /\ Follows(code, V, eof, start, after[i])
           C == {i \in 0 .. Len(code) : ~P(i)}
<1>2. C = {}
    <2> SUFFICES ASSUME C # {} PROVE FALSE
        OBVIOUS
    <2>1. PICK i \in C : \A j \in C : i <= j
        <3>1. C \subseteq Nat
            BY <1>0
        <3> HIDE DEF C
        <3> QED BY <3>1, LeastNumber
    <2>2. i # 0
        <3>1. Hears(code, first)
            <4> SUFFICES ASSUME NEW e \in Ifs(code) PROVE Hearing(code, first, e)
                BY DEF Hears
            <4>1. ~Open(code, first.pc, e)
                BY IfIs DEF Open
            <4> QED BY <4>1 DEF Hearing
        <3> QED BY <1>1, <2>1, <3>1 DEF Runs
    <2>3. i \in 1 .. Len(code) /\ i - 1 \in 0 .. Len(code) /\ P(i - 1)
        BY <1>0, <2>1, <2>2
    <2>4. after[i] # after[i - 1]
        BY <2>1, <2>3
    <2> DEFINE s == after[i - 1]
    <2>5. MachineOK(code, s) /\ s.pc = i /\ after[i] = Execute(s, code[i]) /\ s.pc \in DOMAIN code
        BY <1>0, <1>1, <2>3, <2>4 DEF Runs
    <2>6. Hears(code, s) /\ Follows(code, V, eof, start, s)
        BY <2>3
    <2> HIDE DEF s
    <2>7. Hears(code, after[i])
        BY <2>5, <2>6, StepHears
    <2>8. Follows(code, V, eof, start, after[i])
        BY <2>5, <2>6, StepFollows
    <2> QED BY <2>1, <2>7, <2>8
<1>3. Len(code) \in 0 .. Len(code)
    BY <1>0
<1> QED BY <1>1, <1>2, <1>3

\* Streams that agree up to a position, with what is remembered there.
Agree(code, V, U, start) ==
    \A i \in 1 .. Len(code) + 1 : \A v \in Variables(code) :
        U[i][v] \in SUBSET Nat /\ U[i][v] \cap (0 .. start - 1) = V[i][v]

\* What is remembered at a position depends on the streams before it,
LEMMA RememberedAgrees ==
    ASSUME NEW st, NEW V, NEW U, NEW start \in Nat, st[1] \in Producers,
           \A v \in Operands(st) : U[v] \in SUBSET Nat /\ U[v] \cap (0 .. start - 1) = V[v]
    PROVE  Remembered(st, V, start) = Remembered(st, U, start)
<1> DEFINE x == U[st[3]]
           y == U[st[4]]
           a == V[st[3]]
           b == V[st[4]]
           P == 0 .. start - 1
<1>0. start \in 0 .. start
    OBVIOUS
<1>1. CASE st[1] = "adv"
    <2>1. x \in SUBSET Nat /\ x \cap P = a
        BY <1>1 DEF Operands
    <2>2. \A p \in x : p < start <=> p \in a
        BY <2>1
    <2>3. a \subseteq x
        BY <2>1
    <2>4. \A reach : {p \in a : start - reach <= p /\ p < start} = {p \in x : start - reach <= p /\ p < start}
        BY <2>2, <2>3
    <2> QED BY <1>1, <2>4 DEF Remembered
<1>2. CASE st[1] = "scan"
    <2>1. x \in SUBSET Nat /\ x \cap P = a /\ y \in SUBSET Nat /\ y \cap P = b
        BY <1>2 DEF Operands
    <2>2. CarryInto(x, y, start) <=> CarryInto(x \cap P, y \cap P, start)
        BY <1>0, <2>1, CarryIntoAgrees
    <2> QED BY <1>2, <2>1, <2>2 DEF Remembered
<1>3. CASE st[1] = "star"
    <2>1. x \in SUBSET Nat /\ x \cap P = a /\ y \in SUBSET Nat /\ y \cap P = b /\ x \cap y \in SUBSET Nat
        BY <1>3 DEF Operands
    <2>2. CarryInto(x \cap y, y, start) <=> CarryInto((x \cap y) \cap P, y \cap P, start)
        BY <1>0, <2>1, CarryIntoAgrees
    <2>3. (x \cap y) \cap P = a \cap b
        BY <2>1
    <2> QED BY <1>3, <2>1, <2>2, <2>3 DEF Remembered
<1> QED BY <1>1, <1>2, <1>3 DEF Producers

\* The blocks before a position, too, are the same.
LEMMA BlocksAgree ==
    ASSUME NEW x \in SUBSET Nat, NEW start \in Nat, NEW w \in Int, w + BlockWidth <= start
    PROVE  BlockAt(x \cap (0 .. start - 1), w) = BlockAt(x, w)
<1> DEFINE y == x \cap (0 .. start - 1)
<1>0. BlockWidth \in Nat /\ Block = 0 .. BlockWidth - 1
    BY PabloConstants DEF Block
<1>1. y \in SUBSET Nat
    OBVIOUS
<1>2. \A p \in Block : w + p \in y <=> w + p \in x
    BY <1>0
<1> HIDE DEF y
<1>3. BlockAt(x, w) = {p \in Block : w + p \in x}
    BY BlockOf
<1>4. BlockAt(y, w) = {p \in Block : w + p \in y}
    BY <1>1, BlockOf
<1> QED BY <1>2, <1>3, <1>4 DEF y

\* and so does how it is kept.
LEMMA PackedAgrees ==
    ASSUME NEW code, WellFormed(code), NEW V, NEW U, NEW start \in Nat, Agree(code, V, U, start),
           NEW data, NEW i \in Carrying(code), NEW index, PackedFor(code, V, data, i, index, start)
    PROVE  PackedFor(code, U, data, i, index, start)
<1> DEFINE st == code[i].st
           x == U[i][st[3]]
           a == V[i][st[3]]
           w == BlockWidth
<1>0. /\ i \in 1 .. Len(code) /\ i \in 1 .. Len(code) + 1 /\ w \in Nat
      /\ st[1] \in Producers /\ (st[1] = "adv" => st[4] \in Nat \ {0})
    BY PabloConstants DEF Carrying, WellFormed, IsCode
<1>1. \A v \in Operands(st) : U[i][v] \in SUBSET Nat /\ U[i][v] \cap (0 .. start - 1) = V[i][v]
    <2>1. Operands(st) \subseteq Variables(code)
        BY <1>0, StatementIs DEF Variables
    <2> QED BY <1>0, <2>1 DEF Agree
<1>2. CASE ~IsLong(st)
    <2>1. Remembered(st, V[i], start) = Remembered(st, U[i], start)
        BY <1>0, <1>1, RememberedAgrees
    <2> QED BY <1>2, <2>1 DEF PackedFor, Packed
<1>3. CASE IsLong(st)
    <2>0. st[1] = "adv" /\ st[4] \in Nat \ {0}
        BY <1>0, <1>3 DEF IsLong
    <2> DEFINE blocks == AdvanceBlocks(st[4])
    <2>1. x \in SUBSET Nat /\ x \cap (0 .. start - 1) = a /\ blocks \in Nat
        BY <1>1, <1>3, <2>0, LongIs DEF Operands
    <2> HIDE DEF x, a, blocks, w
    <2>2. ASSUME NEW k \in 1 .. blocks
          PROVE  BlockAt(a, start - k * w) = BlockAt(x, start - k * w)
        <3>1. k * w \in Int /\ k * w >= w
            BY <1>0, <2>1
        <3> DEFINE at == start - k * w
        <3>2. at \in Int /\ at + BlockWidth <= start
            BY <1>0, <3>1 DEF w
        <3> HIDE DEF at
        <3>3. BlockAt(a, at) = BlockAt(x, at)
            BY <2>1, <3>2, BlocksAgree
        <3> QED BY <3>3 DEF at
    <2>3. \A pack : Slots(st, a, pack, index, start) => Slots(st, x, pack, index, start)
        BY <2>2 DEF Slots, blocks, w
    <2>4. ASSUME NEW k \in 0 .. blocks - 1
          PROVE  BlockAt(a, start - (k + 1) * w) = BlockAt(x, start - (k + 1) * w)
        <3>1. k + 1 \in 1 .. blocks
            BY <2>1
        <3> QED BY <2>2, <3>1
    <2>5. Filled(st, a, start) = Filled(st, x, start)
        BY <2>4 DEF Filled, blocks, w
    <2> QED BY <1>3, <2>3, <2>5 DEF PackedFor, Packed, a, x
<1> QED BY <1>2, <1>3

-----------------------------------------------------------------------------
(* Streams that grow by a block.                                           *)

\* A stream that grows by a block.
Grown(b, x, n) == x \cup Shift(n, b * BlockWidth)

\* What a stream was before a block, and what the block added.
LEMMA GrownIs ==
    ASSUME NEW b \in Nat, NEW x \in SUBSET Positions(b), NEW n \in SUBSET Block
    PROVE  /\ Grown(b, x, n) \in SUBSET Positions(b + 1) /\ Grown(b, x, n) \in SUBSET Nat
           /\ Grown(b, x, n) \cap Positions(b) = x
           /\ BlockAt(Grown(b, x, n), b * BlockWidth) = n
<1> DEFINE w == b * BlockWidth
           y == Grown(b, x, n)
<1>1. w \in Nat /\ BlockWidth \in Nat
    BY PabloConstants
<1>2. Positions(b) = 0 .. w - 1
    BY DEF Positions
<1>3. y \subseteq Positions(b + 1)
    BY ShiftIntoBlock DEF Grown
<1>4. Positions(b + 1) \subseteq Nat
    BY DEF Positions
<1>5. y = x \cup Shift(n, w) /\ y \in SUBSET Nat
    BY <1>3, <1>4 DEF Grown
<1> HIDE DEF w, y
<1>6. \A p \in Shift(n, w) : p >= w /\ p - w \in n
    BY <1>1 DEF Shift, Block
<1>7. \A p \in n : p \in Int /\ w + p >= w /\ w + p \in Shift(n, w)
    BY <1>1 DEF Shift, Block
<1>8. y \cap (0 .. w - 1) = x
    BY <1>1, <1>2, <1>5, <1>6
<1>9. BlockAt(y, w) = {p \in Block : w + p \in y}
    BY <1>1, <1>5, BlockOf
<1>10. \A p \in Block : w + p \in y <=> p \in n
    <2> SUFFICES ASSUME NEW p \in Block PROVE w + p \in y <=> p \in n
        OBVIOUS
    <2>1. p \in Int /\ p >= 0 /\ w + p \notin x
        BY <1>1, <1>2 DEF Block
    <2>2. w + p \in Shift(n, w) => p \in n
        <3>1. (w + p) - w = p
            BY <1>1, <2>1
        <3> QED BY <1>6, <3>1
    <2> QED BY <1>5, <1>7, <2>1, <2>2
<1>11. BlockAt(y, w) = n
    BY <1>9, <1>10
<1> QED BY <1>2, <1>3, <1>5, <1>8, <1>11 DEF w, y

\* Every stream up to the end of a block is one that grew by the block.
LEMMA GrownBy ==
    ASSUME NEW b \in Nat, NEW y \in SUBSET Positions(b + 1)
    PROVE  y = Grown(b, y \cap Positions(b), BlockAt(y, b * BlockWidth))
<1> DEFINE w == b * BlockWidth
<1>1. w \in Nat /\ BlockWidth \in Nat /\ (b + 1) * BlockWidth = w + BlockWidth
    BY PabloConstants
<1>2. Positions(b + 1) = 0 .. w + BlockWidth - 1 /\ Positions(b) = 0 .. w - 1
    BY <1>1 DEF Positions
<1> HIDE DEF w
<1>3. BlockAt(y, w) = {p \in Block : w + p \in y}
    BY <1>1, <1>2, BlockOf
<1>4. ASSUME NEW p \in y PROVE p \in 0 .. w - 1 \/ p \in Shift(BlockAt(y, w), w)
    <2>1. CASE p < w
        BY <1>1, <1>2, <2>1
    <2>2. CASE ~(p < w)
        <3>1. p - w \in Block /\ w + (p - w) = p /\ (p - w) + w = p
            BY <1>1, <1>2, <2>2 DEF Block
        <3>2. p - w \in BlockAt(y, w)
            BY <1>3, <3>1
        <3> QED BY <3>1, <3>2 DEF Shift
    <2> QED BY <2>1, <2>2
<1>5. ASSUME NEW p \in Shift(BlockAt(y, w), w) PROVE p \in y
    <2>1. PICK q \in BlockAt(y, w) : p = q + w
        BY DEF Shift
    <2>2. q \in Block /\ w + q \in y
        BY <1>3, <2>1
    <2>3. w + q = q + w
        BY <1>1, <2>2 DEF Block
    <2> QED BY <2>1, <2>2, <2>3
<1> QED BY <1>2, <1>4, <1>5 DEF w, Grown

\* The streams before a block and after it.
Grows(code, b, inputs, eof, V, now, bit, more, over, U) ==
    /\ eof \in SUBSET Positions(b) /\ bit \in SUBSET Block
    /\ \A v \in Inputs(code) : inputs[v] \in SUBSET Positions(b) /\ now[v] \in SUBSET Block
    /\ \A v \in Inputs(code) : more[v] = Grown(b, inputs[v], now[v])
    /\ over = Grown(b, eof, bit)
    /\ StreamsOf(code, inputs, Positions(b), eof, V)
    /\ StreamsOf(code, more, Positions(b + 1), over, U)

\* The streams after a block are what the code means, and agree with those
\* before it.
LEMMA GrowsIs ==
    ASSUME NEW code, WellFormed(code), NEW b \in Nat,
           NEW inputs, NEW eof, NEW V, NEW now, NEW bit, NEW more, NEW over, NEW U,
           Grows(code, b, inputs, eof, V, now, bit, more, over, U)
    PROVE  /\ Meant(code, U, Positions(b + 1), over, b * BlockWidth)
           /\ Agree(code, V, U, b * BlockWidth)
           /\ BlockAt(over, b * BlockWidth) = bit
           /\ \A v \in Inputs(code) : BlockAt(U[1][v], b * BlockWidth) = now[v]
           /\ \A i \in 1 .. Len(code) + 1 : \A v \in Variables(code) : U[i][v] \in SUBSET Positions(b + 1)
<1> DEFINE w == b * BlockWidth
           n == w + BlockWidth
<1>0. Len(code) \in Nat
    BY DEF WellFormed, IsCode
<1>1. w \in Nat /\ BlockWidth \in Nat /\ (b + 1) * BlockWidth = n /\ n \in Nat /\ w <= n
    BY PabloConstants
<1>2. Positions(b) = 0 .. w - 1 /\ Positions(b + 1) = 0 .. n - 1
    BY <1>1 DEF Positions
<1>3. ASSUME NEW v \in Inputs(code)
      PROVE  /\ more[v] \in SUBSET Positions(b + 1) /\ more[v] \cap Positions(b) = inputs[v]
             /\ BlockAt(more[v], b * BlockWidth) = now[v]
    <2>1. inputs[v] \in SUBSET Positions(b) /\ now[v] \in SUBSET Block /\ more[v] = Grown(b, inputs[v], now[v])
        BY DEF Grows
    <2>2. PICK x \in SUBSET Positions(b), m \in SUBSET Block : x = inputs[v] /\ m = now[v]
        BY <2>1
    <2>3. /\ Grown(b, x, m) \in SUBSET Positions(b + 1) /\ Grown(b, x, m) \cap Positions(b) = x
          /\ BlockAt(Grown(b, x, m), b * BlockWidth) = m
        BY GrownIs
    <2> QED BY <2>1, <2>2, <2>3
<1>4. over \in SUBSET Nat /\ over \cap Positions(b) = eof /\ BlockAt(over, b * BlockWidth) = bit
    <2>1. eof \in SUBSET Positions(b) /\ bit \in SUBSET Block /\ over = Grown(b, eof, bit)
        BY DEF Grows
    <2> QED BY <2>1, GrownIs
<1>5. StreamsOf(code, inputs, Positions(b), eof, V) /\ StreamsOf(code, more, Positions(b + 1), over, U)
    BY DEF Grows
<1>6. \A i \in 1 .. Len(code) + 1 :
         DOMAIN U[i] = Variables(code) /\ \A v \in Variables(code) : U[i][v] \subseteq Positions(b + 1)
    BY <1>3, <1>5, StreamsTyped
<1>7. Positions(b + 1) \subseteq Nat
    BY DEF Positions
<1> HIDE DEF w, n
<1>8. \A i \in 1 .. Len(code) + 1 : \A v \in Variables(code) : U[i][v] \cap (0 .. w - 1) = V[i][v]
    <2>1. StreamsOf(code, inputs, 0 .. w - 1, eof, V) /\ StreamsOf(code, more, 0 .. n - 1, over, U)
        BY <1>2, <1>5
    <2>2. GoesOn(more, inputs, Inputs(code), w, n)
        BY <1>2, <1>3 DEF GoesOn
    <2>3. over \cap (0 .. w - 1) = eof
        BY <1>2, <1>4
    <2>4. StreamsGoOn(code, inputs, eof, V, more, over, U, w, n)
        BY <1>1, <2>1, <2>2, <2>3 DEF StreamsGoOn
    <2> QED BY <2>4, StreamsCausal
<1>9. Agree(code, V, U, w)
    BY <1>6, <1>7, <1>8 DEF Agree
<1>10. \A i \in Block : w + i \in Positions(b + 1)
    BY <1>1, <1>2 DEF Block, n
<1>11. Meant(code, U, Positions(b + 1), over, w)
    <2>1. \A i \in 1 .. Len(code) : U[i + 1] = StreamStep(U[i], code[i].st, Positions(b + 1), over)
        BY <1>5 DEF StreamsOf
    <2>2. \A i \in 1 .. Len(code) + 1 :
             DOMAIN U[i] = Variables(code) /\ \A v \in Variables(code) : U[i][v] \in SUBSET Nat
        BY <1>6, <1>7
    <2> QED BY <1>1, <1>4, <1>7, <1>10, <2>1, <2>2 DEF Meant
<1>12. \A v \in Inputs(code) : BlockAt(U[1][v], w) = now[v]
    <2> SUFFICES ASSUME NEW v \in Inputs(code) PROVE BlockAt(U[1][v], w) = now[v]
        OBVIOUS
    <2>1. U[1] = Initially(code, more)
        BY <1>5 DEF StreamsOf
    <2>2. v \notin Defined(code)
        <3>1. Inputs(code) \cap Defined(code) = {}
            BY DEF Inputs
        <3> QED BY <3>1
    <2>3. U[1][v] = more[v]
        BY <2>1, <2>2 DEF Initially
    <2> QED BY <1>3, <2>3 DEF w
<1> QED BY <1>4, <1>6, <1>9, <1>11, <1>12 DEF w

\* At the start of a block the machine follows, if the carry data did.
LEMMA StartFollows ==
    ASSUME NEW code, WellFormed(code), NEW b \in Nat,
           NEW inputs, NEW eof, NEW V, NEW now, NEW bit, NEW more, NEW over, NEW U,
           Grows(code, b, inputs, eof, V, now, bit, more, over, U),
           NEW data, \A i \in Carrying(code) : PackedFor(code, V, data, i, data.index, b * BlockWidth)
    PROVE  Follows(code, U, over, b * BlockWidth, Start(code, now, bit, data))
<1> DEFINE s == Start(code, now, bit, data)
           w == b * BlockWidth
<1>0. Len(code) \in Nat /\ w \in Nat
    BY PabloConstants DEF WellFormed, IsCode
<1>1. /\ s.env = Initially(code, now) /\ s.eof = bit /\ s.pack = data.pack /\ s.long = data.long
      /\ s.index = data.index /\ s.pc = 1
    BY DEF Start
<1>2. /\ Agree(code, V, U, w) /\ BlockAt(over, w) = bit
      /\ \A v \in Inputs(code) : BlockAt(U[1][v], w) = now[v]
    BY GrowsIs
<1> HIDE DEF s, w
<1>3. ASSUME NEW v \in InScope(code, s.pc - 1) PROVE s.env[v] = BlockAt(U[s.pc][v], w)
    <2>1. v \in Inputs(code)
        <3>1. s.pc - 1 = 0 /\ 1 .. 0 = {}
            BY <1>1
        <3>2. InScope(code, 0) = Inputs(code)
            BY <3>1 DEF InScope
        <3> QED BY <3>1, <3>2
    <2>2. v \notin Defined(code)
        <3>1. Inputs(code) \cap Defined(code) = {}
            BY DEF Inputs
        <3> QED BY <2>1, <3>1
    <2>3. s.env[v] = now[v]
        BY <1>1, <2>1, <2>2 DEF Initially
    <2> QED BY <1>1, <1>2, <2>1, <2>3
<1>4. ASSUME NEW i \in Carrying(code)
      PROVE  ~(i < s.pc) /\ PackedFor(code, U, s, i, s.index, w)
    <2>1. i \in 1 .. Len(code)
        BY DEF Carrying, WellFormed, IsCode
    <2>2. PackedFor(code, V, data, i, data.index, w)
        BY DEF w
    <2>3. PackedFor(code, U, data, i, data.index, w)
        BY <1>0, <1>2, <2>2, PackedAgrees
    <2> QED BY <1>1, <2>1, <2>3 DEF PackedFor
<1>5. Follows(code, U, over, w, s)
    BY <1>1, <1>2, <1>3, <1>4 DEF Follows
<1> QED BY <1>5 DEF s, w

\* A block of a kernel writes the block of what its code means, and keeps what
\* it has to remember.
LEMMA BlockIsStream ==
    ASSUME NEW code, WellFormed(code), LongAdvancesHeard(code), NoStaleSlots(code), NEW b \in Nat,
           NEW inputs, NEW eof, NEW V, NEW now, NEW bit, NEW more, NEW over, NEW U,
           Grows(code, b, inputs, eof, V, now, bit, more, over, U), Quiet(code, U, b * BlockWidth),
           NEW data, \A i \in Carrying(code) : PackedFor(code, V, data, i, data.index, b * BlockWidth),
           \A e \in Ifs(code) : Covered(code, data, e),
           NEW s, s = RunBlock(code, Start(code, now, bit, data)),
           MachineOK(code, Start(code, now, bit, data)), MachineOK(code, s), s.pc = Len(code) + 1
    PROVE  /\ s.index = data.index
           /\ \A i \in Carrying(code) : PackedFor(code, U, s, i, s.index + 1, (b + 1) * BlockWidth)
           /\ \A v \in InScope(code, Len(code)) :
                 U[Len(code) + 1][v] = Grown(b, V[Len(code) + 1][v], s.env[v])
<1> DEFINE first == Start(code, now, bit, data)
           w == b * BlockWidth
           last == Len(code) + 1
<1>0. /\ Len(code) \in Nat /\ w \in Nat /\ (b + 1) * BlockWidth = w + BlockWidth
      /\ DOMAIN code = 1 .. Len(code)
    BY PabloConstants DEF WellFormed, IsCode
<1>1. /\ first.pc = 1 /\ first.pack = data.pack /\ first.long = data.long
      /\ first.selector = data.selector /\ first.index = data.index
    BY DEF Start
<1>2. Follows(code, U, over, w, first)
    BY StartFollows
<1>3. /\ Meant(code, U, Positions(b + 1), over, w) /\ Agree(code, V, U, w)
      /\ \A v \in Variables(code) : U[last][v] \in SUBSET Positions(b + 1)
    <2>1. last \in 1 .. Len(code) + 1
        BY <1>0
    <2> QED BY <2>1, GrowsIs
<1>4. MachineOK(code, first) /\ s = RunBlock(code, first) /\ Quiet(code, U, w)
    OBVIOUS
<1> HIDE DEF first, w
<1>5. \A e \in Ifs(code) : Covered(code, first, e)
    BY <1>1, KeptSame
<1>6. Follows(code, U, over, w, s)
    BY <1>1, <1>2, <1>3, <1>4, <1>5, BlockFollows
<1>7. s.index = data.index
    BY <1>1, <1>4, IndexCounts
<1>8. ASSUME NEW i \in Carrying(code)
      PROVE  PackedFor(code, U, s, i, s.index + 1, (b + 1) * BlockWidth)
    <2>1. i \in 1 .. Len(code)
        BY <1>0 DEF Carrying
    <2>2. i < s.pc
        BY <1>0, <2>1
    <2>3. PackedFor(code, U, s, i, s.index + 1, w + BlockWidth)
        BY <1>6, <2>2 DEF Follows
    <2> QED BY <1>0, <2>3
<1>9. ASSUME NEW v \in InScope(code, Len(code))
      PROVE  U[last][v] = Grown(b, V[last][v], s.env[v])
    <2>0. s.pc - 1 = Len(code) /\ s.pc = last
        BY <1>0
    <2>1. s.env[v] = BlockAt(U[last][v], w)
        <3>1. v \in InScope(code, s.pc - 1)
            BY <2>0
        <3> QED BY <1>6, <2>0, <3>1 DEF Follows
    <2>2. v \in Variables(code)
        <3>1. Len(code) \in 0 .. Len(code)
            BY <1>0
        <3> QED BY <3>1, InScopeIsVariable DEF Variables, WellFormed
    <2>3. U[last][v] \cap (0 .. w - 1) = V[last][v]
        <3>1. last \in 1 .. Len(code) + 1
            BY <1>0
        <3> QED BY <1>3, <2>2, <3>1 DEF Agree
    <2>4. PICK y \in SUBSET Positions(b + 1) : y = U[last][v]
        BY <1>3, <2>2
    <2>5. y = Grown(b, y \cap Positions(b), BlockAt(y, b * BlockWidth))
        BY GrownBy
    <2>6. Positions(b) = 0 .. w - 1
        BY DEF Positions, w
    <2> QED BY <2>1, <2>3, <2>4, <2>5, <2>6 DEF w
<1> QED BY <1>7, <1>8, <1>9

-----------------------------------------------------------------------------
(* ResultsAreStreams.                                                      *)

\* Between blocks, a kernel has written what its code means on the blocks so
\* far, and kept what it has to remember.
SoFar(k) == Streams(Code(k), given[k], Positions(block), ended)

KernelFollows(k) ==
    /\ DOMAIN given[k] = Inputs(Code(k))
    /\ \A v \in Inputs(Code(k)) : given[k][v] \in SUBSET Positions(block)
    /\ \A i \in Carrying(Code(k)) :
          PackedFor(Code(k), SoFar(k), carries[k], i, carries[k].index, block * BlockWidth)
    /\ \A v \in Outputs(k) : results[k][v] = SoFar(k)[Len(Code(k)) + 1][v]

KernelsFollow ==
    /\ ended \in SUBSET Positions(block)
    /\ \A k \in Kernels : KernelFollows(k)

NoneStale      == \A k \in Kernels : NoStaleSlots(Code(k))
SkipsAreSilent == \A k \in Kernels : SkipsChangeNothing(k)

\* The carry data of a kernel that has read nothing remembers nothing.
LEMMA NothingRemembered ==
    ASSUME NEW code, WellFormed(code), NEW V, NEW i \in Carrying(code),
           \A v \in Operands(code[i].st) : V[i][v] = {}
    PROVE  PackedFor(code, V, NoCarries(code), i, 0, 0)
<1> DEFINE st   == code[i].st
           data == NoCarries(code)
           x    == V[i][st[3]]
<1>0. /\ i \in DOMAIN code /\ Keeps(code[i]) /\ IsCode(code) /\ st[1] \in Producers
      /\ (st[1] = "adv" => st[4] \in Nat \ {0})
    BY DEF Carrying, WellFormed, Keeps, IsCode
<1>1. At(code, st[2]) = i /\ st[2] \in Places(code)
    BY <1>0, AtIs
<1>2. /\ data.pack[st[2]] = [n \in 0 .. PackSize(st) - 1 |-> {}]
      /\ IsLong(st) => data.long[st[2]] = {}
    BY <1>1 DEF NoCarries
<1>3. PackSize(st) \in Nat \ {0}
    BY <1>0, PackSizeIs
<1> SUFFICES PackedFor(code, V, data, i, 0, 0)
    OBVIOUS
<1> HIDE DEF data
<1>4. CASE ~IsLong(st)
    <2>1. ~CarryInto({}, {}, 0)
        BY DEF CarryInto
    <2>2. Remembered(st, V[i], 0) = {}
        <3>1. CASE st[1] = "adv"
            <4>1. x = {}
                BY <3>1 DEF Operands
            <4> QED BY <3>1, <4>1 DEF Remembered
        <3>2. CASE st[1] = "scan"
            <4>1. x = {} /\ V[i][st[4]] = {}
                BY <3>2 DEF Operands
            <4> QED BY <2>1, <3>2, <4>1 DEF Remembered
        <3>3. CASE st[1] = "star"
            <4>1. x = {} /\ V[i][st[4]] = {}
                BY <3>3 DEF Operands
            <4>2. x \cap V[i][st[4]] = {}
                BY <4>1
            <4> QED BY <2>1, <3>3, <4>1, <4>2 DEF Remembered
        <3> QED BY <1>0, <3>1, <3>2, <3>3 DEF Producers
    <2>3. \A n : Shift({}, n) = {}
        BY DEF Shift
    <2>4. data.pack[st[2]][0] = {}
        BY <1>2, <1>3
    <2> QED BY <1>4, <2>2, <2>3, <2>4 DEF PackedFor, Packed
<1>5. CASE IsLong(st)
    <2>0. st[1] = "adv" /\ st[4] \in Nat \ {0}
        BY <1>0, <1>5 DEF IsLong
    <2>1. x = {}
        BY <2>0 DEF Operands
    <2>2. \A n : BlockAt({}, n) = {}
        BY DEF BlockAt
    <2>3. AdvanceBlocks(st[4]) \in Nat
        BY <2>0, AdvanceBlocksOf
    <2>4. ASSUME NEW k \in 1 .. AdvanceBlocks(st[4])
          PROVE  data.pack[st[2]][(0 - k) % PackSize(st)] = {}
        <3>1. 0 - k \in Int
            BY <2>3
        <3>2. (0 - k) % PackSize(st) \in 0 .. PackSize(st) - 1
            BY <1>3, <3>1, DivMod
        <3> QED BY <1>2, <3>2
    <2>5. Slots(st, x, data.pack[st[2]], 0, 0)
        BY <2>1, <2>2, <2>4 DEF Slots
    <2>6. Filled(st, x, 0) = {}
        BY <2>1, <2>2 DEF Filled
    <2> QED BY <1>2, <1>5, <2>5, <2>6 DEF PackedFor, Packed
<1> QED BY <1>4, <1>5

\* Every kernel follows at first,
LEMMA FollowAtFirst == KernelInit => KernelsFollow
<1> SUFFICES ASSUME KernelInit PROVE KernelsFollow
    OBVIOUS
<1>1. /\ case \in DOMAIN Pipelines /\ (\A k \in Kernels : LoopFree(Code(k))) /\ block = 0 /\ ended = {}
      /\ given = [k \in Kernels |-> [v \in Inputs(Code(k)) |-> {}]]
      /\ carries = [k \in Kernels |-> NoCarries(Code(k))]
      /\ results = [k \in Kernels |-> [v \in Outputs(k) |-> {}]]
    BY DEF KernelInit, NoBlocksYet
<1>2. BlockWidth \in Nat /\ block * BlockWidth = 0 /\ Positions(block) = {}
    <2>1. BlockWidth \in Nat
        BY PabloConstants
    <2>2. 0 * BlockWidth = 0
        BY <2>1
    <2> QED BY <1>1, <2>1, <2>2 DEF Positions
<1>3. ASSUME NEW k \in Kernels PROVE KernelFollows(k)
    <2> DEFINE code == Code(k)
               V    == SoFar(k)
    <2>1. WellFormed(code) /\ Outputs(k) \subseteq Variables(code) /\ Len(code) \in Nat
        BY <1>1, CodeWellFormed DEF Variables, WellFormed, IsCode
    <2>2. /\ given[k] = [v \in Inputs(code) |-> {}] /\ carries[k] = NoCarries(code)
          /\ results[k] = [v \in Outputs(k) |-> {}]
        BY <1>1
    <2>3. StreamsOf(code, given[k], Positions(block), ended, V)
        BY <2>1, StreamsSteps DEF SoFar
    <2>4. \A v \in Inputs(code) : given[k][v] \subseteq Positions(block)
        BY <2>2
    <2> HIDE DEF V, code
    <2>5. \A i \in 1 .. Len(code) + 1 : \A v \in Variables(code) : V[i][v] = {}
        <3>1. \A i \in 1 .. Len(code) + 1 :
                 DOMAIN V[i] = Variables(code) /\ \A v \in Variables(code) : V[i][v] \subseteq Positions(block)
            BY <2>1, <2>3, <2>4, StreamsTyped
        <3> QED BY <1>2, <3>1
    <2>6. ASSUME NEW i \in Carrying(code)
          PROVE  PackedFor(code, V, carries[k], i, carries[k].index, block * BlockWidth)
        <3>1. i \in 1 .. Len(code) /\ i \in 1 .. Len(code) + 1
            BY <2>1 DEF Carrying, WellFormed, IsCode
        <3>2. Operands(code[i].st) \subseteq Variables(code)
            BY <2>1, <3>1, StatementIs DEF Variables
        <3>3. \A v \in Operands(code[i].st) : V[i][v] = {}
            BY <2>5, <3>1, <3>2
        <3>4. PackedFor(code, V, NoCarries(code), i, 0, 0)
            BY <2>1, <3>3, NothingRemembered
        <3>5. carries[k].index = 0
            BY <2>2 DEF NoCarries
        <3> QED BY <1>2, <2>2, <3>4, <3>5
    <2>7. ASSUME NEW v \in Outputs(k) PROVE results[k][v] = V[Len(code) + 1][v]
        <3>1. Len(code) + 1 \in 1 .. Len(code) + 1
            BY <2>1
        <3> QED BY <2>1, <2>2, <2>5, <3>1
    <2>8. DOMAIN given[k] = Inputs(code) /\ \A v \in Inputs(code) : given[k][v] \in SUBSET Positions(block)
        BY <2>2
    <2> QED BY <2>6, <2>7, <2>8 DEF KernelFollows, V, code
<1> QED BY <1>1, <1>3 DEF KernelsFollow


\* and after every block.
LEMMA FollowStep ==
    ASSUME IsRunning, AdvancesHeard, NoneStale, SummaryCoversCarries, KernelsFollow, KernelNext, SkipsAreSilent'
    PROVE  NoneStale' /\ KernelsFollow'
<1>1. PICK inputs, eof, after :
          /\ ended = {} /\ eof \in SUBSET Block
          /\ \A k \in Kernels : \A v \in Inputs(Code(k)) : inputs[k][v] \in SUBSET Block
          /\ \A k \in Kernels :
                /\ after[k] = RunBlock(Code(k), Start(Code(k), inputs[k], eof, carries[k]))
                /\ MachineOK(Code(k), Start(Code(k), inputs[k], eof, carries[k]))
                /\ MachineOK(Code(k), after[k]) /\ after[k].pc = Len(Code(k)) + 1
          /\ FinishBlock(inputs, eof, after)
    BY StepIsBlocks
<1>2. Kernels' = Kernels /\ \A k : Code(k)' = Code(k) /\ Outputs(k)' = Outputs(k)
    BY <1>1, CodeStays DEF FinishBlock
<1>3. block \in Nat /\ block' = block + 1 /\ block' - 1 = block /\ block' > 0
    BY <1>1 DEF FinishBlock, IsRunning
<1>4. ended \in SUBSET Positions(block) /\ ended' = Grown(block, ended, eof)
    BY <1>1 DEF FinishBlock, KernelsFollow, Grown
<1>5. ended' \in SUBSET Positions(block')
    BY <1>1, <1>3, <1>4, GrownIs
<1>6. ASSUME NEW k \in Kernels PROVE KernelFollows(k)'
    <2> DEFINE code == Code(k)
               V    == SoFar(k)
               U    == Streams(code, given'[k], Positions(block'), ended')
               s    == after[k]
    <2>1. /\ WellFormed(code) /\ LoopFree(code) /\ Len(code) \in Nat
          /\ Outputs(k) \subseteq InScope(code, Len(code))
          /\ LongAdvancesHeard(code) /\ NoStaleSlots(code)
        BY CodeWellFormed DEF IsRunning, AdvancesHeard, NoneStale, WellFormed, IsCode
    <2>2. KernelFollows(k)
        BY DEF KernelsFollow
    <2>3. /\ given'[k] = [v \in DOMAIN given[k] |-> Grown(block, given[k][v], inputs[k][v])]
          /\ carries'[k] = NextCarries(code, s)
          /\ results'[k] = [v \in Outputs(k) |-> Grown(block, results[k][v], s.env[v])]
        BY <1>1 DEF FinishBlock, Grown
    <2>4. /\ DOMAIN given[k] = Inputs(code)
          /\ \A v \in Inputs(code) : given[k][v] \in SUBSET Positions(block)
          /\ \A i \in Carrying(code) : PackedFor(code, V, carries[k], i, carries[k].index, block * BlockWidth)
          /\ \A v \in Outputs(k) : results[k][v] = V[Len(code) + 1][v]
        BY <2>2 DEF KernelFollows
    <2>5. U = SoFar(k)' /\ Code(k)' = code /\ Outputs(k)' = Outputs(k)
        BY <1>2 DEF SoFar
    <2>6. StreamsOf(code, given[k], Positions(block), ended, V)
        BY <2>1, StreamsSteps DEF SoFar
    <2>7. StreamsOf(code, given'[k], Positions(block + 1), ended', U)
        BY <1>3, <2>1, StreamsSteps
    <2>8. Quiet(code, U, block * BlockWidth)
        <3>1. SkipsChangeNothing(k)'
            BY <1>2 DEF SkipsAreSilent
        <3> QED BY <1>2, <1>3, <3>1 DEF SkipsChangeNothing, Quiet
    <2>9. /\ s = RunBlock(code, Start(code, inputs[k], eof, carries[k]))
          /\ MachineOK(code, Start(code, inputs[k], eof, carries[k]))
          /\ MachineOK(code, s) /\ s.pc = Len(code) + 1
          /\ \A v \in Inputs(code) : inputs[k][v] \in SUBSET Block
        BY <1>1
    <2>10. \A e \in Ifs(code) : Covered(code, carries[k], e)
        BY DEF SummaryCoversCarries
    <2> HIDE DEF code, V, U, s
    <2>11. Grows(code, block, given[k], ended, V, inputs[k], eof, given'[k], ended', U)
        <3>1. \A v \in Inputs(code) : given'[k][v] = Grown(block, given[k][v], inputs[k][v])
            BY <2>3, <2>4
        <3> QED BY <1>1, <1>4, <2>4, <2>6, <2>7, <2>9, <3>1 DEF Grows
    <2>12. /\ s.index = carries[k].index
           /\ \A i \in Carrying(code) : PackedFor(code, U, s, i, s.index + 1, (block + 1) * BlockWidth)
           /\ \A v \in InScope(code, Len(code)) :
                 U[Len(code) + 1][v] = Grown(block, V[Len(code) + 1][v], s.env[v])
        BY <1>3, <2>1, <2>4, <2>8, <2>9, <2>10, <2>11, BlockIsStream
    <2>13. DOMAIN given'[k] = Inputs(code) /\ \A v \in Inputs(code) : given'[k][v] \in SUBSET Positions(block')
        <3> SUFFICES ASSUME NEW v \in Inputs(code) PROVE given'[k][v] \in SUBSET Positions(block')
            BY <2>3, <2>4
        <3>1. PICK x \in SUBSET Positions(block), n \in SUBSET Block : x = given[k][v] /\ n = inputs[k][v]
            BY <2>4, <2>9
        <3>2. given'[k][v] = Grown(block, x, n)
            BY <2>3, <2>4, <3>1
        <3>3. Grown(block, x, n) \in SUBSET Positions(block + 1)
            BY <1>3, GrownIs
        <3> QED BY <1>3, <3>2, <3>3
    <2>14. ASSUME NEW i \in Carrying(code)
           PROVE  PackedFor(code, U, carries'[k], i, carries'[k].index, block' * BlockWidth)
        <3>1. PackedFor(code, U, s, i, s.index + 1, block' * BlockWidth)
            BY <1>3, <2>12
        <3>2. carries'[k].pack = s.pack /\ carries'[k].long = s.long
            BY <2>3 DEF NextCarries
        <3>3. IsLong(code[i].st) => carries'[k].index = s.index + 1
            <4>1. i \in DOMAIN code
                BY DEF Carrying
            <4> QED BY <2>3, <4>1 DEF NextCarries
        <3> QED BY <3>1, <3>2, <3>3 DEF PackedFor, Packed
    <2>15. ASSUME NEW v \in Outputs(k) PROVE results'[k][v] = U[Len(code) + 1][v]
        BY <2>1, <2>3, <2>4, <2>12
    <2>16. Outputs(k)' = Outputs(k) /\ Code(k)' = code /\ SoFar(k)' = U
        BY <2>5
    <2> QED BY <2>13, <2>14, <2>15, <2>16 DEF KernelFollows
<1> QED BY <1>2, <1>5, <1>6 DEF NoneStale, KernelsFollow

\* What PabloCompiler and CarryManager make of a kernel is right: cutting its
\* streams into blocks, resuming every Advance, ScanThru and MatchStar from its
\* carry (getNextCarryIn, setNextCarryOut, longAdvanceCarryInCarryOut) and
\* skipping every If whose condition and summary are empty (generateSummaryTest)
\* writes what the code means on the whole streams, for kernels of any length
\* and input of any length.  It takes that an If which had nothing to do would
\* have changed nothing, which is up to who wrote the If, that an If hears of
\* the long advances in it, and that their buffers have no slot to spare.
THEOREM BlocksAreStreams ==
    KernelSpec /\ AdvancesHeard /\ NoneStale /\ []SkipsAreSilent => []ResultsAreStreams
<1> DEFINE Inv == IsRunning /\ AdvancesHeard /\ SummaryCoversCarries /\ NoneStale /\ KernelsFollow
<1>1. KernelInit /\ AdvancesHeard /\ NoneStale => Inv
    BY RunningAtFirst, CoveredAtFirst, FollowAtFirst
<1>2. Inv /\ [KernelNext]_kernelVars /\ SkipsAreSilent' => Inv'
    <2> SUFFICES ASSUME Inv, [KernelNext]_kernelVars, SkipsAreSilent' PROVE Inv'
        OBVIOUS
    <2>1. IsRunning' /\ AdvancesHeard' /\ SummaryCoversCarries'
        BY RunningStep, CoveredStep
    <2>2. CASE KernelNext
        BY <2>1, <2>2, FollowStep
    <2>3. CASE UNCHANGED kernelVars
        <3>1. NoneStale'
            BY <2>3 DEF NoneStale, kernelVars, Kernels, Code
        <3>2. KernelsFollow'
            BY <2>3 DEF KernelsFollow, KernelFollows, SoFar, kernelVars, Kernels, Code, Outputs
        <3> QED BY <2>1, <3>1, <3>2
    <2> QED BY <2>2, <2>3
<1>3. Inv => ResultsAreStreams
    BY DEF KernelsFollow, KernelFollows, SoFar, ResultsAreStreams
<1> QED BY <1>1, <1>2, <1>3, PTL DEF KernelSpec

\* Without Ifs nothing is skipped.
BranchFree == \A k \in Kernels : Ifs(Code(k)) = {}

\* Where there are no Ifs, no instruction is in one.
LEMMA NoIfsAround ==
    ASSUME NEW code, WellFormed(code), Ifs(code) = {}
    PROVE  \A i \in DOMAIN code : code[i].ifs = 0
<1>0. /\ Len(code) \in Nat /\ DOMAIN code = 1 .. Len(code)
      /\ \A i \in DOMAIN code : code[i].st[1] # "if"
    BY DEF WellFormed, IsCode, Ifs
<1> DEFINE C == {i \in 1 .. Len(code) : code[i].ifs # 0}
<1> SUFFICES ASSUME C # {} PROVE FALSE
    BY <1>0
<1>1. PICK i \in C : \A j \in C : i <= j
    <2>1. C \subseteq Nat
        BY <1>0
    <2> HIDE DEF C
    <2> QED BY <2>1, LeastNumber
<1>2. code[i].st[1] # "endif"
    BY <1>0 DEF WellFormed, Nested
<1>3. code[i].ifs = Depth(code, i - 1)
    <2>1. code[i].ifs = Depth(code, i - 1) - 0
        BY <1>0, <1>2 DEF WellFormed, Nested
    <2>2. Depth(code, i - 1) \in Nat
        BY <1>0, DepthIs
    <2> QED BY <2>1, <2>2
<1>4. CASE i = 1
    <2>1. i - 1 = 0
        BY <1>4
    <2> QED BY <1>1, <1>3, <2>1 DEF Depth
<1>5. CASE i # 1
    <2> DEFINE h == i - 1
    <2>1. h \in 1 .. Len(code) /\ h # 0 /\ ~(i <= h)
        BY <1>0, <1>5
    <2>2. code[h].ifs = 0
        <3>1. h \notin C
            BY <1>1, <2>1
        <3> QED BY <2>1, <3>1
    <2> HIDE DEF h
    <2>3. Depth(code, h) = 0
        BY <1>0, <2>1, <2>2 DEF Depth
    <2> QED BY <1>1, <1>3, <2>3 DEF h
<1> QED BY <1>4, <1>5

\* Kernels without Ifs stay so,
LEMMA BranchFreeStays == BranchFree /\ [KernelNext]_kernelVars => BranchFree'
<1> SUFFICES ASSUME BranchFree, [KernelNext]_kernelVars PROVE BranchFree'
    OBVIOUS
<1>1. UNCHANGED case
    BY DEF KernelNext, DoBlocks, FinishBlock, kernelVars
<1> QED BY <1>1, CodeStays DEF BranchFree

\* and meet what is asked of Ifs.
LEMMA BranchFreeIs ==
    IsRunning /\ BranchFree => AdvancesHeard /\ NoneStale /\ SkipsAreSilent
<1> SUFFICES ASSUME IsRunning, BranchFree, NEW k \in Kernels
             PROVE  LongAdvancesHeard(Code(k)) /\ NoStaleSlots(Code(k)) /\ SkipsChangeNothing(k)
    BY DEF AdvancesHeard, NoneStale, SkipsAreSilent
<1>1. WellFormed(Code(k)) /\ Ifs(Code(k)) = {}
    BY CodeWellFormed DEF IsRunning, BranchFree
<1>2. \A i \in DOMAIN Code(k) : Code(k)[i].ifs = 0
    BY <1>1, NoIfsAround
<1> QED BY <1>1, <1>2 DEF LongAdvancesHeard, NoStaleSlots, SkipsChangeNothing

\* Nothing has to be taken where the kernels have no Ifs: blocks and carries
\* alone change nothing of what the code means.
THEOREM BranchFreeBlocksAreStreams ==
    KernelSpec /\ BranchFree => []ResultsAreStreams
<1>1. KernelInit /\ BranchFree => IsRunning /\ BranchFree
    BY RunningAtFirst
<1>2. IsRunning /\ BranchFree /\ [KernelNext]_kernelVars => (IsRunning /\ BranchFree)'
    BY RunningStep, BranchFreeStays
<1>3. KernelSpec /\ BranchFree => [](IsRunning /\ BranchFree)
    BY <1>1, <1>2, PTL DEF KernelSpec
<1>4. KernelSpec /\ BranchFree => AdvancesHeard /\ NoneStale /\ []SkipsAreSilent
    BY <1>3, BranchFreeIs, PTL
<1> QED BY <1>4, BlocksAreStreams, PTL
=============================================================================
