------------------------ MODULE KernelSegmentsProofs ------------------------
(***************************************************************************)
(* What a doSegment call does to a kernel's item counts, for every stride, *)
(* segment size, file size and pipeline shape.  The counts never go back,  *)
(* and a kernel processes at most what it was told is available: the facts *)
(* about single calls on which the proofs about their schedules rest.      *)
(* The second part is about the calls that a schedule makes one after      *)
(* another, whichever of the two drivers makes them.                       *)
(***************************************************************************)
EXTENDS KernelSegments, WellFoundedInduction, TLAPS

\* The inputs whose produced counts bound the items a call is given.
Bounding(k) == {b \in InputSet(k) : k \in MultiBlock \/ b = Inputs[k][1]}

\* A kernel produces no item before it has processed it, and a source none
\* that is not in the file.
WithinInput(k, st) ==
    IF k \in Sources THEN st.produced <= FileSize ELSE st.produced <= st.processed

\* An input is a kernel that comes earlier in the pipeline.
LEMMA InputsAreEarlier ==
    ASSUME NEW k \in Kernels, NEW b \in InputSet(k)
    PROVE  /\ b \in Kernels
           /\ b < k
           /\ k \notin Sources
<1>1. PICK i \in DOMAIN Inputs[k] : b = Inputs[k][i]
  BY DEF InputSet
<1>2. Inputs[k] \in Seq(Kernels)
  BY InputsAssumption
<1>3. Inputs[k] # <<>>
  BY <1>1, <1>2
<1>4. k \notin Sources
  BY <1>3 DEF Sources
<1>. QED
  BY <1>1, <1>2, <1>4, InputsAssumption

\* A nonempty set of natural numbers has a least element, and Min returns it.
LEMMA MinOfNats ==
    ASSUME NEW S \in SUBSET Nat, S # {}
    PROVE  /\ Min(S) \in S
           /\ \A y \in S : Min(S) <= y
<1>. DEFINE R == {ss \in Nat \X Nat : ss[1] < ss[2]}
<1>1. IsWellFoundedOn(R, Nat)
  BY NatLessThanWellFounded DEF OpToRel
<1>. HIDE DEF R
<1>2. PICK x \in S : \A y \in S : ~(<<y, x>> \in R)
  BY <1>1, WFMin
<1>3. ASSUME NEW y \in S, y < x
      PROVE  <<y, x>> \in R
  <2>1. <<y, x>> \in Nat \X Nat
    OBVIOUS
  <2>. QED
    BY <1>3, <2>1 DEF R
<1>4. \A y \in S : ~(y < x)
  BY <1>2, <1>3, Zenon
<1>5. \A y \in S : x <= y
  BY <1>4
<1>. QED
  BY <1>5 DEF Min

\* Available returns the produced count of one of the bounding inputs, and it
\* exceeds none of theirs.
LEMMA AvailableIsBounded ==
    ASSUME NEW k \in Kernels \ Sources, NEW pos \in [Kernels -> Nat]
    PROVE  /\ Available(k, pos) \in Nat
           /\ \E b \in Bounding(k) : Available(k, pos) = pos[b]
           /\ \A b \in Bounding(k) : Available(k, pos) <= pos[b]
<1>1. /\ Inputs[k][1] \in InputSet(k)
      /\ Inputs[k][1] \in Kernels
  <2>1. Inputs[k] \in Seq(Kernels) /\ Inputs[k] # <<>>
    BY InputsAssumption DEF Sources
  <2>2. 1 \in DOMAIN Inputs[k]
    BY <2>1
  <2>. QED
    BY <2>1, <2>2 DEF InputSet
<1>2. CASE k \in MultiBlock
  <2>. DEFINE S == {pos[b] : b \in InputSet(k)}
  <2>1. S \in SUBSET Nat /\ S # {}
    BY <1>1, InputsAreEarlier
  <2>. HIDE DEF S
  <2>2. Min(S) \in S /\ \A y \in S : Min(S) <= y
    BY <2>1, MinOfNats
  <2>3. Available(k, pos) = Min(S)
    BY <1>2 DEF Available, S
  <2>. QED
    BY <1>2, <2>1, <2>2, <2>3 DEF Bounding, S
<1>3. CASE k \notin MultiBlock
  BY <1>1, <1>3 DEF Available, Bounding
<1>. QED
  BY <1>2, <1>3

\* The multiple of d at or below n.
LEMMA WholeMultiples ==
    ASSUME NEW n \in Nat, NEW d \in Nat \ {0}
    PROVE  (n \div d) * d \in Nat /\ (n \div d) * d <= n
<1>1. n = d * (n \div d) + (n % d) /\ n % d \in 0 .. d - 1 /\ n \div d \in Nat
  OBVIOUS
<1>2. d * (n \div d) = (n \div d) * d
  BY <1>1
<1>. QED
  BY <1>1, <1>2

\* A call processes whole strides among the items available.
LEMMA StrideItemsAreAvailable ==
    ASSUME NEW k \in Kernels, NEW st \in KernelState, NEW avail \in Nat,
           st.processed <= avail
    PROVE  /\ StrideItems(k, st, avail) \in Nat
           /\ st.processed + StrideItems(k, st, avail) <= avail
<1>. DEFINE n == avail - st.processed
            d == Stride[k]
<1>1. n \in Nat /\ d \in Nat \ {0}
  BY ItemsAssumption DEF KernelState
<1>2. StrideItems(k, st, avail) = (n \div d) * d
  BY DEF StrideItems
<1>. HIDE DEF d
<1>3. (n \div d) * d \in Nat /\ (n \div d) * d <= n
  BY <1>1, WholeMultiples
<1>. QED
  BY <1>1, <1>2, <1>3 DEF KernelState

\* The pages MMapSource drops hold consumed items only.
LEMMA PageFloorIsBelow ==
    ASSUME NEW n \in Nat
    PROVE  PageFloor(n) \in Nat /\ PageFloor(n) <= n
BY WholeMultiples, ItemsAssumption DEF PageFloor

\* A doSegment call that is given at least what the kernel has processed moves
\* no count back, and processes no item that was not available.
LEMMA DoSegmentMovesForward ==
    ASSUME NEW k \in Kernels, NEW st \in KernelState,
           NEW pos \in [Kernels -> Nat], NEW final \in BOOLEAN,
           WithinInput(k, st),
           k \notin Sources => st.processed <= Available(k, pos),
           NEW r \in DoSegmentResults(k, st, pos, final)
    PROVE  /\ r \in KernelState
           /\ st.processed <= r.processed
           /\ st.produced <= r.produced
           /\ WithinInput(k, r)
           /\ k \in Sources => r.processed = st.processed
           /\ k \notin Sources => r.processed <= Available(k, pos)
<1>1. CASE k \in Sources
  <2>1. r = SourceSegment(st)
    BY <1>1 DEF DoSegmentResults
  <2>. DEFINE end == st.produced + SegmentSize
  <2>2. /\ r \in KernelState
        /\ r.processed = st.processed
        /\ r.produced = IF FileSize < end THEN FileSize ELSE end
    <3>1. end \in Nat /\ FileSize \in Nat
      BY ItemsAssumption DEF KernelState
    <3>. HIDE DEF end
    <3>2. CASE FileSize < end
      <4>1. r = [st EXCEPT !.produced = FileSize, !.signal = TRUE]
        BY <2>1, <3>2 DEF SourceSegment, end
      <4>2. r \in KernelState /\ r.processed = st.processed /\ r.produced = FileSize
        BY <3>1, <4>1 DEF KernelState
      <4>. QED
        BY <3>2, <4>2
    <3>3. CASE ~(FileSize < end)
      <4>1. r = [st EXCEPT !.produced = end]
        BY <2>1, <3>3 DEF SourceSegment, end
      <4>2. r \in KernelState /\ r.processed = st.processed /\ r.produced = end
        BY <3>1, <4>1 DEF KernelState
      <4>. QED
        BY <3>3, <4>2
    <3>. QED
      BY <3>2, <3>3
  <2>. QED
    BY <1>1, <2>2, ItemsAssumption DEF KernelState, WithinInput
<1>2. CASE k \notin Sources
  <2>. DEFINE avail == Available(k, pos)
              n == Advance(k, st, avail, final)
  <2>1. avail \in Nat /\ st.processed <= avail /\ st.produced <= st.processed
    BY <1>2, AvailableIsBounded DEF WithinInput
  <2>2. r = n \/ r \in EarlyTermination(k, st, avail, final)
    BY <1>2 DEF DoSegmentResults
  <2>. HIDE DEF avail
  <2>3. /\ n \in KernelState
        /\ st.processed <= n.processed
        /\ n.produced = n.processed
        /\ n.processed <= avail
    <3>1. /\ StrideItems(k, st, avail) \in Nat
          /\ st.processed + StrideItems(k, st, avail) <= avail
      BY <2>1, StrideItemsAreAvailable
    <3>. QED
      BY <2>1, <3>1 DEF Advance, KernelState
  <2>4. CASE r = n
    BY <1>2, <2>1, <2>3, <2>4 DEF WithinInput, KernelState, avail
  <2>5. CASE r \in EarlyTermination(k, st, avail, final)
    <3>1. PICK m \in st.produced + 1 .. n.processed - 1 :
             r = [n EXCEPT !.produced = m, !.signal = TRUE]
      BY <2>5 DEF EarlyTermination
    <3>2. /\ r \in KernelState
          /\ r.processed = n.processed
          /\ r.produced = m
          /\ st.produced \in Nat /\ n.processed \in Nat
      <4>1. m \in Nat
        BY <2>3, <3>1 DEF KernelState
      <4>. HIDE DEF n
      <4>. QED
        BY <2>3, <3>1, <4>1 DEF KernelState
    <3>. QED
      BY <1>2, <2>1, <2>3, <3>1, <3>2 DEF WithinInput, avail
  <2>. QED
    BY <2>2, <2>4, <2>5
<1>. QED
  BY <1>1, <1>2

\* The counts stored as consumed stay natural numbers.
LEMMA ConsumedAfterType ==
    ASSUME NEW k \in Kernels, NEW st \in KernelState,
           NEW before \in [Kernels -> Nat]
    PROVE  ConsumedAfter(k, st, before) \in [Kernels -> Nat]
BY DEF ConsumedAfter, KernelState

\* After the call of kernel k, the count of each input of k is at most what k
\* has processed, and at most what it was before unless k is the first to
\* consume that input.
LEMMA ConsumedAfterIsLeast ==
    ASSUME NEW k \in Kernels, NEW st \in KernelState,
           NEW before \in [Kernels -> Nat], NEW b \in Kernels
    PROVE  /\ b \in InputSet(k) => ConsumedAfter(k, st, before)[b] <= st.processed
           /\ ~(b \in InputSet(k) /\ FirstConsumer(b, k)) =>
                 ConsumedAfter(k, st, before)[b] <= before[b]
BY DEF ConsumedAfter, KernelState

-----------------------------------------------------------------------------
(* Histories.  What the doSegment calls of a pipeline leave behind, for any  *)
(* order of the calls that Dataflow allows: a history h is the sequence of   *)
(* states of each kernel, h[k][n] after its n-th call.  As long as no kernel *)
(* has signalled, the n-th call of every kernel ends at exactly n segments,  *)
(* if the strides divide the segment; and a call that ends the pipeline at   *)
(* the end of the file has processed all of it.  Both drivers implement      *)
(* Dataflow, so what is proved here holds for both.  What does not depend on *)
(* why the input ends is stated for one of any size, which sources may offer *)
(* the whole of a file or what they have read of one.                        *)

\* The kernels that may be first to signal can end the pipeline: sources and
\* UntilN do not have the attribute NoTerminate.
StopsPipeline == (Sources \cup EarlyTerminators) \cap NoTerminate = {}

\* A segment is a whole number of strides for every kernel.
StridesDivide == \A k \in Kernels : \E q \in Nat : SegmentSize = q * Stride[k]

\* The items of the first n segments.
Items(n) == n * SegmentSize

\* A kernel that ended the pipeline before the end of its input.
Cut(k, st) == k \in EarlyTerminators /\ st.produced < st.processed

\* h2 is h after the n-th call of kernel k, made as Dataflow allows it but for
\* what a source offers.
Recorded(h, h2, k, n, st, pos, final, r) ==
    /\ h2 = [h EXCEPT ![k] = Append(@, r)]
    /\ n = Len(h[k]) + 1
    /\ st = IF n = 1 THEN InitKernelState ELSE h[k][n - 1]
    /\ k \notin NoTerminate => ~st.signal
    /\ \A j \in 0 .. k - 1 : Len(h[j]) >= n
    /\ \A b \in InputSet(k) : pos[b] = h[b][n].produced
    /\ final <=> \E j \in 0 .. k - 1 : j \notin NoTerminate /\ h[j][n].signal
    /\ k \notin Sources => r \in DoSegmentResults(k, st, pos, final)

\* The same with what it offers of the file.
Call(h, h2, k, n, st, pos, final, r) ==
    /\ Recorded(h, h2, k, n, st, pos, final, r)
    /\ r \in DoSegmentResults(k, st, pos, final)

\* A kernel is called for a segment after those before it.
Staggered(h) == \A k \in Kernels : \A j \in 0 .. k - 1 : Len(h[k]) <= Len(h[j])

\* A kernel that has ended the pipeline is not called again.
CalledUntilEnd(h) ==
    \A k \in Kernels \ NoTerminate : \A n \in 1 .. Len(h[k]) - 1 : ~h[k][n].signal

\* Of an input of that size, a source has offered n segments or what there is.
OffersUpTo(st, n, size) ==
    /\ st.produced = IF size < Items(n) THEN size ELSE Items(n)
    /\ st.signal <=> size < Items(n)

\* A source offers the input, and signals when it has less than a segment left.
OffersInput(h, size) ==
    \A k \in Sources : \A n \in 1 .. Len(h[k]) : OffersUpTo(h[k][n], n, size)

\* A kernel ends the pipeline at the end of the input or when one is cut short.
EndsForCause(h, size) ==
    \A k \in Kernels \ NoTerminate : \A n \in 1 .. Len(h[k]) :
        h[k][n].signal => \/ size < Items(n)
                          \/ \E j \in 0 .. k : Cut(j, h[j][n])

\* A kernel cut short ends the pipeline.
CutEnds(h) ==
    \A k \in Kernels : \A n \in 1 .. Len(h[k]) : Cut(k, h[k][n]) => h[k][n].signal

\* The call for the segment with the end of the input processes all of it.
ReachesEnd(h, size) ==
    \A k \in Kernels : \A n \in 1 .. Len(h[k]) :
        (size < Items(n) /\ \A j \in 0 .. k : ~Cut(j, h[j][n])) =>
            /\ h[k][n].produced = size
            /\ k \notin Sources => h[k][n].processed = size

InputInv(h, size) ==
    /\ h \in [Kernels -> Seq(KernelState)]
    /\ Staggered(h)
    /\ CalledUntilEnd(h)
    /\ OffersInput(h, size)
    /\ EndsForCause(h, size)
    /\ CutEnds(h)
    /\ ReachesEnd(h, size)

\* The same of the whole file.
FileInv(h) == InputInv(h, FileSize)

\* Counts of a call between the ends of the segment before and its own.
Within(k, st, lo, hi) ==
    /\ lo <= st.produced /\ st.produced <= hi
    /\ k \notin Sources => lo <= st.processed /\ st.processed <= hi

\* No kernel up to k has ended the pipeline at its n-th call.
Quiet(h, k, n) == \A j \in 0 .. k : j \notin NoTerminate => ~h[j][n].signal

\* The n-th call stays within its segment, and completes it if no kernel ends
\* the pipeline there.
InPace(h) ==
    \A k \in Kernels : \A n \in 1 .. Len(h[k]) :
        /\ Within(k, h[k][n], Items(n - 1), Items(n))
        /\ Quiet(h, k, n) => Within(k, h[k][n], Items(n), Items(n))

-----------------------------------------------------------------------------
(* Single calls *)

\* Segments follow one another.
LEMMA ItemsOfSegments ==
    /\ Items(0) = 0
    /\ \A n \in Nat : Items(n) \in Nat /\ Items(n + 1) = Items(n) + SegmentSize
    /\ \A m, n \in Nat : m <= n => Items(m) <= Items(n)
<1>. SegmentSize \in Nat \ {0}
  BY ItemsAssumption
<1>1. \A n \in Nat : Items(n) \in Nat /\ Items(n + 1) = Items(n) + SegmentSize
  BY DEF Items
<1>2. ASSUME NEW m \in Nat, NEW n \in Nat, m <= n PROVE Items(m) <= Items(n)
  <2>1. PICK d \in Nat : n = m + d
    <3>1. n - m \in Nat /\ n = m + (n - m)
      BY <1>2
    <3>. QED
      BY <3>1
  <2>2. (m + d) * SegmentSize = m * SegmentSize + d * SegmentSize
    OBVIOUS
  <2>3. d * SegmentSize \in Nat /\ m * SegmentSize \in Nat
    OBVIOUS
  <2>. QED
    BY <2>1, <2>2, <2>3 DEF Items
<1>. QED
  BY <1>1, <1>2 DEF Items

\* A source that has not signalled offers the next segment, or what is left.
LEMMA SourceCalled ==
    ASSUME NEW k \in Sources, NEW st \in KernelState, NEW pos, NEW final,
           NEW r \in DoSegmentResults(k, st, pos, final), ~st.signal
    PROVE  LET end == st.produced + SegmentSize
           IN  /\ r \in KernelState
               /\ r.produced = IF FileSize < end THEN FileSize ELSE end
               /\ r.signal <=> FileSize < end
<1>. DEFINE end == st.produced + SegmentSize
<1>1. r = SourceSegment(st) /\ end \in Nat /\ FileSize \in Nat
  BY ItemsAssumption DEF DoSegmentResults, KernelState
<1>2. r = IF FileSize < end THEN [st EXCEPT !.produced = FileSize, !.signal = TRUE]
          ELSE [st EXCEPT !.produced = end]
  BY <1>1 DEF SourceSegment
<1>. HIDE DEF end
<1>3. CASE FileSize < end
  <2>1. r = [st EXCEPT !.produced = FileSize, !.signal = TRUE]
    BY <1>2, <1>3
  <2>. QED
    BY <1>1, <1>3, <2>1 DEF KernelState, end
<1>4. CASE ~(FileSize < end)
  <2>1. r = [st EXCEPT !.produced = end]
    BY <1>2, <1>4
  <2>. QED
    BY <1>1, <1>4, <2>1 DEF KernelState, end
<1>. QED
  BY <1>3, <1>4

\* The outcomes of a call of any other kernel: whole strides or all that is
\* available, or cut short.
LEMMA KernelCalled ==
    ASSUME NEW k \in Kernels \ Sources, NEW st \in KernelState, NEW pos \in [Kernels -> Nat],
           NEW final \in BOOLEAN, NEW r \in DoSegmentResults(k, st, pos, final),
           st.processed <= Available(k, pos)
    PROVE  LET avail == Available(k, pos)
               upTo  == IF final THEN avail ELSE st.processed + StrideItems(k, st, avail)
           IN  /\ r \in KernelState
               /\ r.processed = upTo
               /\ upTo \in Nat /\ st.processed <= upTo /\ upTo <= avail
               /\ \/ r.produced = upTo /\ (r.signal <=> st.signal \/ final)
                  \/ /\ k \in EarlyTerminators /\ r.signal
                     /\ st.produced < r.produced /\ r.produced < upTo
<1>. DEFINE avail == Available(k, pos)
            upTo == IF final THEN avail ELSE st.processed + StrideItems(k, st, avail)
            normal == Advance(k, st, avail, final)
<1>1. avail \in Nat /\ st.processed \in Nat /\ st.produced \in Nat /\ st.signal \in BOOLEAN
  BY AvailableIsBounded DEF KernelState
<1>2. /\ StrideItems(k, st, avail) \in Nat
      /\ st.processed + StrideItems(k, st, avail) <= avail
  BY <1>1, StrideItemsAreAvailable
<1>3. upTo \in Nat /\ st.processed <= upTo /\ upTo <= avail
  BY <1>1, <1>2
<1>4. normal = [processed |-> upTo, produced |-> upTo, signal |-> st.signal \/ final]
  BY DEF Advance
<1>5. r = normal \/ (k \in EarlyTerminators /\ r \in EarlyTermination(k, st, avail, final))
  BY DEF DoSegmentResults
<1>. HIDE DEF avail, upTo, normal
<1>6. CASE r = normal
  BY <1>1, <1>3, <1>4, <1>6 DEF KernelState, upTo, avail
<1>7. CASE k \in EarlyTerminators /\ r \in EarlyTermination(k, st, avail, final)
  <2>1. PICK m \in st.produced + 1 .. normal.processed - 1 :
           r = [normal EXCEPT !.produced = m, !.signal = TRUE]
    BY <1>7 DEF EarlyTermination, normal
  <2>2. m \in Nat /\ st.produced < m /\ m < upTo
    BY <1>1, <1>3, <1>4, <2>1
  <2>3. r = [processed |-> upTo, produced |-> m, signal |-> TRUE]
    BY <1>4, <2>1
  <2>. QED
    BY <1>3, <1>7, <2>2, <2>3 DEF KernelState, upTo, avail
<1>. QED
  BY <1>5, <1>6, <1>7

\* A segment's strides, and no items of the next.
LEMMA SegmentOfStrides ==
    ASSUME StridesDivide, NEW k \in Kernels, NEW st \in KernelState
    PROVE  StrideItems(k, st, st.processed + SegmentSize) = SegmentSize
<1>1. PICK q \in Nat : SegmentSize = q * Stride[k]
  BY DEF StridesDivide
<1>2. /\ Stride[k] \in Nat \ {0} /\ st.processed \in Nat /\ SegmentSize \in Nat
      /\ (st.processed + SegmentSize) - st.processed = SegmentSize
  BY ItemsAssumption DEF KernelState
<1>3. (q * Stride[k]) \div Stride[k] = q
  BY <1>2
<1>. QED
  BY <1>1, <1>2, <1>3 DEF StrideItems

\* A kernel that has completed every segment so far stays within the next one
\* if its inputs do, and completes it if they do and nothing ends the pipeline.
LEMMA CalledInPace ==
    ASSUME StridesDivide, NEW k \in Kernels \ Sources, NEW st \in KernelState,
           NEW pos \in [Kernels -> Nat], NEW final \in BOOLEAN,
           NEW r \in DoSegmentResults(k, st, pos, final),
           NEW lo \in Nat, st.processed = lo, st.produced = lo,
           \A b \in InputSet(k) : lo <= pos[b] /\ pos[b] <= lo + SegmentSize
    PROVE  /\ Within(k, r, lo, lo + SegmentSize)
           /\ (~final /\ (k \in EarlyTerminators => ~r.signal)
                 /\ \A b \in InputSet(k) : pos[b] = lo + SegmentSize) =>
                 Within(k, r, lo + SegmentSize, lo + SegmentSize)
<1>. DEFINE avail == Available(k, pos)
            upTo == IF final THEN avail ELSE st.processed + StrideItems(k, st, avail)
<1>1. PICK b \in InputSet(k) : avail = pos[b]
  BY AvailableIsBounded DEF Bounding
<1>2. avail \in Nat /\ lo <= avail /\ avail <= lo + SegmentSize
  BY <1>1, AvailableIsBounded
<1>3. /\ r \in KernelState
      /\ r.processed = upTo
      /\ upTo \in Nat /\ lo <= upTo /\ upTo <= avail
      /\ \/ r.produced = upTo
         \/ /\ k \in EarlyTerminators /\ r.signal
            /\ lo < r.produced /\ r.produced < upTo
  BY <1>2, KernelCalled
<1>4. SegmentSize \in Nat
  BY ItemsAssumption
<1>5. Within(k, r, lo, lo + SegmentSize)
  <2>. HIDE DEF avail, upTo
  <2>. QED
    BY <1>2, <1>3, <1>4 DEF Within, KernelState
<1>6. ASSUME ~final, k \in EarlyTerminators => ~r.signal,
             \A c \in InputSet(k) : pos[c] = lo + SegmentSize
      PROVE  Within(k, r, lo + SegmentSize, lo + SegmentSize)
  <2>1. avail = st.processed + SegmentSize
    BY <1>1, <1>6
  <2>2. upTo = lo + SegmentSize
    BY <1>6, <2>1, SegmentOfStrides
  <2>. HIDE DEF upTo
  <2>. QED
    BY <1>3, <1>4, <1>6, <2>2 DEF Within
<1>. QED
  BY <1>5, <1>6

\* The final call of a kernel whose inputs have reached the end of the input
\* processes all of it, unless it is cut short.
LEMMA CalledAtEnd ==
    ASSUME NEW k \in Kernels \ Sources, NEW st \in KernelState,
           NEW pos \in [Kernels -> Nat], NEW size \in Nat,
           NEW r \in DoSegmentResults(k, st, pos, TRUE),
           \A b \in InputSet(k) : pos[b] = size,
           ~Cut(k, r)
    PROVE  r.processed = size /\ r.produced = size
<1>. DEFINE avail == Available(k, pos)
            normal == Advance(k, st, avail, TRUE)
<1>1. PICK b \in InputSet(k) : avail = pos[b]
  BY AvailableIsBounded DEF Bounding
<1>2. avail = size
  BY <1>1
<1>3. normal = [processed |-> size, produced |-> size, signal |-> st.signal \/ TRUE]
  BY <1>2 DEF Advance
<1>4. r = normal \/ (k \in EarlyTerminators /\ r \in EarlyTermination(k, st, avail, TRUE))
  BY DEF DoSegmentResults
<1>. HIDE DEF normal, avail
<1>5. CASE k \in EarlyTerminators /\ r \in EarlyTermination(k, st, avail, TRUE)
  <2>1. PICK m \in st.produced + 1 .. normal.processed - 1 :
           r = [normal EXCEPT !.produced = m, !.signal = TRUE]
    BY <1>5 DEF EarlyTermination, normal
  <2>2. r = [processed |-> size, produced |-> m, signal |-> TRUE]
    BY <1>3, <2>1
  <2>3. normal.processed = size /\ size \in Nat /\ st.produced \in Nat
    BY <1>3, ItemsAssumption DEF KernelState
  <2>4. m < size
    BY <2>1, <2>3
  <2>. QED
    BY <1>5, <2>2, <2>4 DEF Cut
<1>6. CASE r = normal
  <2>1. normal.processed = size /\ normal.produced = size
    BY <1>3
  <2>. QED
    BY <1>6, <2>1
<1>. QED
  BY <1>4, <1>5, <1>6

\* What a call that is not cut short signals.
LEMMA CalledForCause ==
    ASSUME NEW k \in Kernels \ Sources, NEW st \in KernelState, NEW pos \in [Kernels -> Nat],
           NEW final \in BOOLEAN, NEW r \in DoSegmentResults(k, st, pos, final)
    PROVE  /\ Cut(k, r) => r.signal
           /\ (r.signal /\ ~st.signal /\ ~final) => Cut(k, r)
<1>. DEFINE avail == Available(k, pos)
            upTo == IF final THEN avail ELSE st.processed + StrideItems(k, st, avail)
            normal == Advance(k, st, avail, final)
<1>1. upTo \in Int /\ st.produced \in Nat
  <2>1. avail \in Nat /\ st.processed \in Nat /\ st.produced \in Nat /\ Stride[k] \in Nat \ {0}
    BY AvailableIsBounded, ItemsAssumption DEF KernelState
  <2>2. (avail - st.processed) \div Stride[k] \in Int
    BY <2>1
  <2>. HIDE DEF avail
  <2>3. StrideItems(k, st, avail) \in Int
    BY <2>1, <2>2 DEF StrideItems
  <2>. QED
    BY <2>1, <2>3
<1>2. normal = [processed |-> upTo, produced |-> upTo, signal |-> st.signal \/ final]
  BY DEF Advance
<1>3. r = normal \/ (k \in EarlyTerminators /\ r \in EarlyTermination(k, st, avail, final))
  BY DEF DoSegmentResults
<1>. HIDE DEF normal, avail, upTo
<1>4. CASE r = normal
  <2>1. r.produced = upTo /\ r.processed = upTo /\ r.signal = (st.signal \/ final)
    BY <1>2, <1>4
  <2>2. ~Cut(k, r)
    BY <1>1, <2>1 DEF Cut
  <2>. QED
    BY <2>1, <2>2
<1>5. CASE k \in EarlyTerminators /\ r \in EarlyTermination(k, st, avail, final)
  <2>1. PICK m \in st.produced + 1 .. normal.processed - 1 :
           r = [normal EXCEPT !.produced = m, !.signal = TRUE]
    BY <1>5 DEF EarlyTermination, normal
  <2>2. r = [processed |-> upTo, produced |-> m, signal |-> TRUE]
    BY <1>2, <2>1
  <2>3. m < upTo
    BY <1>1, <1>2, <2>1
  <2>. QED
    BY <1>5, <2>2, <2>3 DEF Cut
<1>. QED
  BY <1>3, <1>4, <1>5

-----------------------------------------------------------------------------
(* Histories *)

\* A kernel without inputs comes first.
LEMMA FirstIsSource == 0 \in Sources
<1>1. 0 \in Kernels
  BY KernelsAssumption DEF Kernels
<1>2. Inputs[0] \in Seq(Kernels) /\ \A i \in DOMAIN Inputs[0] : Inputs[0][i] < 0
  BY <1>1, InputsAssumption
<1>3. \A i \in DOMAIN Inputs[0] : Inputs[0][i] \in Kernels
  BY <1>2
<1>4. DOMAIN Inputs[0] = {}
  BY <1>2, <1>3 DEF Kernels
<1>5. Len(Inputs[0]) = 0
  <2>1. DOMAIN Inputs[0] = 1 .. Len(Inputs[0]) /\ Len(Inputs[0]) \in Nat
    BY <1>2
  <2>. QED
    BY <1>4, <2>1
<1>6. Inputs[0] = <<>>
  BY <1>2, <1>5
<1>. QED
  BY <1>1, <1>6 DEF Sources

\* The earlier kernels.
LEMMA EarlierKernels ==
    ASSUME NEW k \in Kernels, NEW j \in 0 .. k
    PROVE  j \in Kernels /\ j \in Nat /\ k \in Nat /\ j <= k
BY KernelsAssumption DEF Kernels

\* A call adds one state to the history of its kernel.
LEMMA HistoryExtended ==
    ASSUME NEW h \in [Kernels -> Seq(KernelState)],
           NEW k \in Kernels, NEW n \in Nat \ {0}, NEW r \in KernelState,
           n = Len(h[k]) + 1,
           NEW h2 \in [Kernels -> Seq(KernelState)],
           h2 = [h EXCEPT ![k] = Append(@, r)]
    PROVE  /\ Len(h2[k]) = n /\ h2[k][n] = r
           /\ \A j \in Kernels \ {k} : h2[j] = h[j]
           /\ \A j \in Kernels : \A m \in 1 .. Len(h[j]) : h2[j][m] = h[j][m]
           /\ \A j \in Kernels : \A m \in 1 .. Len(h2[j]) :
                 m \in 1 .. Len(h[j]) \/ (j = k /\ m = n)
<1>1. h[k] \in Seq(KernelState) /\ Len(h[k]) \in Nat
  OBVIOUS
<1>2. /\ Len(Append(h[k], r)) = n
      /\ Append(h[k], r)[n] = r
      /\ \A m \in 1 .. Len(h[k]) : Append(h[k], r)[m] = h[k][m]
  BY <1>1
<1>3. h2[k] = Append(h[k], r) /\ \A j \in Kernels \ {k} : h2[j] = h[j]
  OBVIOUS
<1>4. ASSUME NEW j \in Kernels, NEW m \in 1 .. Len(h2[j])
      PROVE  m \in 1 .. Len(h[j]) \/ (j = k /\ m = n)
  BY <1>1, <1>2, <1>3
<1>. QED
  BY <1>2, <1>3, <1>4

\* The kernels before one that was called have been called as often.
LEMMA CalledBefore ==
    ASSUME NEW h \in [Kernels -> Seq(KernelState)], Staggered(h),
           NEW j \in Kernels, NEW m \in 1 .. Len(h[j]), NEW i \in 0 .. j
    PROVE  i \in Kernels /\ m \in 1 .. Len(h[i])
<1>1. i \in Kernels /\ h[i] \in Seq(KernelState) /\ h[j] \in Seq(KernelState)
  BY EarlierKernels
<1>2. Len(h[j]) <= Len(h[i])
  <2>1. CASE i = j
    BY <1>1, <2>1
  <2>2. CASE i # j
    BY <2>2, EarlierKernels DEF Staggered
  <2>. QED
    BY <2>1, <2>2
<1>. QED
  BY <1>1, <1>2

\* At first nothing has been called.
LEMMA NothingCalled ==
    ASSUME NEW h, h = [k \in Kernels |-> <<>>], NEW size
    PROVE  InputInv(h, size) /\ InPace(h)
<1>1. h \in [Kernels -> Seq(KernelState)] /\ \A k \in Kernels : Len(h[k]) = 0
  OBVIOUS
<1>2. \A k \in Kernels : 1 .. Len(h[k]) = {} /\ 1 .. Len(h[k]) - 1 = {}
  BY <1>1
<1>3. Staggered(h)
  BY <1>1, EarlierKernels DEF Staggered, Kernels
<1>4. \A k \in Sources : k \in Kernels
  BY DEF Sources
<1>. QED
  BY <1>1, <1>2, <1>3, <1>4 DEF InputInv, CalledUntilEnd, OffersInput, EndsForCause, CutEnds,
     ReachesEnd, InPace

\* h2 is h after one more call of kernel k.
Extended(h, h2, k, n, r) ==
    /\ n \in Nat \ {0} /\ n = Len(h[k]) + 1
    /\ h2 \in [Kernels -> Seq(KernelState)]
    /\ Len(h2[k]) = n /\ h2[k][n] = r
    /\ \A j \in Kernels \ {k} : h2[j] = h[j]
    /\ \A j \in 0 .. k - 1 : /\ j \in Kernels /\ n \in 1 .. Len(h[j])
                             /\ h2[j] = h[j] /\ h[j][n] \in KernelState
    /\ \A j \in Kernels : \A m \in 1 .. Len(h[j]) : \A i \in 0 .. j : h2[i][m] = h[i][m]
    /\ \A j \in Kernels : \A m \in 1 .. Len(h2[j]) : m \in 1 .. Len(h[j]) \/ (j = k /\ m = n)

\* st is the state in which the n-th call finds kernel k.
Started(h, k, n, st) ==
    /\ st \in KernelState
    /\ n = 1 => st.produced = 0 /\ st.processed = 0 /\ ~st.signal
    /\ n # 1 => n - 1 \in 1 .. Len(h[k]) /\ n - 1 \in Nat /\ st = h[k][n - 1]

\* A call extends the history of its kernel.
LEMMA CallExtends ==
    ASSUME NEW size, NEW h, InputInv(h, size),
           NEW k \in Kernels, NEW n, NEW st, NEW pos, NEW final,
           NEW r \in KernelState, NEW h2, Recorded(h, h2, k, n, st, pos, final, r)
    PROVE  Extended(h, h2, k, n, r) /\ Started(h, k, n, st)
<1>a. h2 = [h EXCEPT ![k] = Append(@, r)]
  BY DEF Recorded
<1>b. n \in Nat \ {0}
  <2>1. h[k] \in Seq(KernelState)
    BY DEF InputInv
  <2>2. Len(h[k]) \in Nat
    BY <2>1
  <2>. QED
    BY <2>2 DEF Recorded
<1>c. h2 \in [Kernels -> Seq(KernelState)]
  <2>1. Append(h[k], r) \in Seq(KernelState) /\ h \in [Kernels -> Seq(KernelState)]
    BY DEF InputInv
  <2>. QED
    BY <1>a, <2>1
<1>1. h \in [Kernels -> Seq(KernelState)] /\ Staggered(h)
  BY DEF InputInv
<1>2. n = Len(h[k]) + 1 /\ \A j \in 0 .. k - 1 : Len(h[j]) >= n
  BY DEF Recorded
<1>3. /\ h2 \in [Kernels -> Seq(KernelState)]
      /\ n \in Nat \ {0}
      /\ Len(h2[k]) = n /\ h2[k][n] = r
      /\ \A j \in Kernels \ {k} : h2[j] = h[j]
  BY <1>1, <1>2, <1>b, <1>a, <1>c, HistoryExtended
<1>4. ASSUME NEW j \in 0 .. k - 1
      PROVE  /\ j \in Kernels /\ n \in 1 .. Len(h[j])
             /\ h2[j] = h[j] /\ h[j][n] \in KernelState
  <2>1. j \in Kernels /\ j # k
    BY EarlierKernels DEF Kernels
  <2>2. h[j] \in Seq(KernelState) /\ Len(h[j]) >= n
    BY <1>1, <1>2, <2>1
  <2>. QED
    BY <1>b, <1>3, <2>1, <2>2
<1>5. ASSUME NEW j \in Kernels, NEW m \in 1 .. Len(h[j]), NEW i \in 0 .. j
      PROVE  h2[i][m] = h[i][m]
  <2>1. i \in Kernels /\ m \in 1 .. Len(h[i])
    BY <1>1, CalledBefore
  <2>. QED
    BY <1>1, <1>2, <1>b, <1>a, <1>c, <2>1, HistoryExtended
<1>6. \A j \in Kernels : \A m \in 1 .. Len(h2[j]) : m \in 1 .. Len(h[j]) \/ (j = k /\ m = n)
  BY <1>1, <1>2, <1>b, <1>a, <1>c, HistoryExtended
<1>7. /\ st \in KernelState
      /\ n = 1 => st.produced = 0 /\ st.processed = 0 /\ ~st.signal
      /\ n # 1 => n - 1 \in 1 .. Len(h[k]) /\ n - 1 \in Nat /\ st = h[k][n - 1]
  <2>1. st = IF n = 1 THEN InitKernelState ELSE h[k][n - 1]
    BY DEF Recorded
  <2>2. CASE n = 1
    BY <2>1, <2>2 DEF InitKernelState, KernelState
  <2>3. CASE n # 1
    <3>1. n - 1 \in 1 .. Len(h[k]) /\ n - 1 \in Nat
      BY <1>2, <1>b, <2>3
    <3>. QED
      BY <1>1, <2>1, <2>3, <3>1
  <2>. QED
    BY <2>2, <2>3
<1>. QED
  BY <1>b, <1>c, <1>2, <1>3, <1>4, <1>5, <1>6, <1>7 DEF Extended, Started

\* Every call keeps the promises about the end of the input, if a source keeps
\* to its size.
LEMMA InputInvKept ==
    ASSUME StopsPipeline, NEW size \in Nat, NEW h, InputInv(h, size),
           NEW k \in Kernels, NEW n, NEW st,
           NEW pos \in [Kernels -> Nat], NEW final \in BOOLEAN, NEW r \in KernelState,
           NEW h2, Recorded(h, h2, k, n, st, pos, final, r),
           k \in Sources => OffersUpTo(r, n, size)
    PROVE  InputInv(h2, size)
<1>1. h \in [Kernels -> Seq(KernelState)] /\ Staggered(h)
  BY DEF InputInv
<1>2. n = Len(h[k]) + 1 /\ \A j \in 0 .. k - 1 : Len(h[j]) >= n
  BY DEF Recorded
<1>a. Extended(h, h2, k, n, r) /\ Started(h, k, n, st)
  BY CallExtends
<1>3. /\ h2 \in [Kernels -> Seq(KernelState)]
      /\ n \in Nat \ {0}
      /\ Len(h2[k]) = n /\ h2[k][n] = r
      /\ \A j \in Kernels \ {k} : h2[j] = h[j]
  BY <1>a DEF Extended
<1>4. \A j \in 0 .. k - 1 : /\ j \in Kernels /\ n \in 1 .. Len(h[j])
                            /\ h2[j] = h[j] /\ h[j][n] \in KernelState
  BY <1>a DEF Extended
<1>5. \A j \in Kernels : \A m \in 1 .. Len(h[j]) : \A i \in 0 .. j : h2[i][m] = h[i][m]
  BY <1>a DEF Extended
<1>6. \A j \in Kernels : \A m \in 1 .. Len(h2[j]) : m \in 1 .. Len(h[j]) \/ (j = k /\ m = n)
  BY <1>a DEF Extended
<1>7. \A j \in Kernels : j \in 0 .. j
  BY DEF Kernels
<1>8. /\ st \in KernelState
      /\ n = 1 => st.produced = 0 /\ st.processed = 0 /\ ~st.signal
      /\ n # 1 => n - 1 \in 1 .. Len(h[k]) /\ n - 1 \in Nat /\ st = h[k][n - 1]
  BY <1>a DEF Started
<1>9. Staggered(h2)
  <2>. SUFFICES ASSUME NEW c \in Kernels, NEW j \in 0 .. c - 1
                PROVE  Len(h2[c]) <= Len(h2[j])
    BY DEF Staggered
  <2>1. j \in Kernels /\ j # c /\ Len(h[c]) <= Len(h[j])
    BY <1>1, EarlierKernels DEF Staggered, Kernels
  <2>2. Len(h[c]) \in Nat /\ Len(h[j]) \in Nat /\ Len(h[k]) \in Nat
    BY <1>1, <2>1
  <2>3. CASE c = k
    <3>1. j \in 0 .. k - 1 /\ h2[j] = h[j] /\ Len(h2[c]) = n
      BY <1>3, <2>1, <2>3
    <3>2. n \in 1 .. Len(h[j])
      BY <1>4, <3>1
    <3>. QED
      BY <3>1, <3>2
  <2>4. CASE c # k
    <3>1. h2[c] = h[c]
      BY <1>3, <2>4
    <3>2. Len(h[j]) <= Len(h2[j]) /\ Len(h2[j]) \in Nat
      <4>1. CASE j = k
        BY <1>2, <1>3, <2>2, <4>1
      <4>2. CASE j # k
        BY <1>3, <2>1, <2>2, <4>2
      <4>. QED
        BY <4>1, <4>2
    <3>. QED
      BY <2>1, <2>2, <3>1, <3>2
  <2>. QED
    BY <2>3, <2>4
<1>10. CalledUntilEnd(h2)
  <2>. SUFFICES ASSUME NEW c \in Kernels \ NoTerminate, NEW m \in 1 .. Len(h2[c]) - 1
                PROVE  ~h2[c][m].signal
    BY DEF CalledUntilEnd
  <2>1. CASE c # k
    BY <1>3, <2>1 DEF InputInv, CalledUntilEnd
  <2>2. CASE c = k
    <3>1. m \in 1 .. Len(h[k]) /\ h2[k][m] = h[k][m]
      BY <1>2, <1>3, <1>5, <1>7, <2>2
    <3>2. CASE m = n - 1
      BY <1>2, <1>8, <2>2, <3>1, <3>2 DEF Recorded
    <3>3. CASE m # n - 1
      <4>1. m \in 1 .. Len(h[k]) - 1
        BY <1>1, <1>2, <3>1, <3>3
      <4>. QED
        BY <2>2, <3>1, <4>1 DEF InputInv, CalledUntilEnd
    <3>. QED
      BY <3>2, <3>3
  <2>. QED
    BY <2>1, <2>2
<1>11. k \in Sources => /\ r.produced = IF size < Items(n) THEN size ELSE Items(n)
                        /\ r.signal <=> size < Items(n)
  BY DEF OffersUpTo
<1>12. OffersInput(h2, size)
  <2>. SUFFICES ASSUME NEW c \in Sources, NEW m \in 1 .. Len(h2[c])
                PROVE  /\ h2[c][m].produced = IF size < Items(m) THEN size ELSE Items(m)
                       /\ h2[c][m].signal <=> size < Items(m)
    BY DEF OffersInput, OffersUpTo
  <2>1. c \in Kernels
    BY DEF Sources
  <2>2. CASE m \in 1 .. Len(h[c])
    <3>1. h2[c][m] = h[c][m]
      BY <1>5, <1>7, <2>1, <2>2
    <3>. QED
      BY <2>2, <3>1 DEF InputInv, OffersInput, OffersUpTo
  <2>3. CASE c = k /\ m = n
    BY <1>3, <1>11, <2>3
  <2>. QED
    BY <1>6, <2>1, <2>2, <2>3
<1>13. k \notin Sources => /\ Cut(k, r) => r.signal
                           /\ (r.signal /\ ~st.signal /\ ~final) => Cut(k, r)
  BY <1>8, CalledForCause DEF Recorded
<1>14. EndsForCause(h2, size)
  <2>. SUFFICES ASSUME NEW c \in Kernels \ NoTerminate, NEW m \in 1 .. Len(h2[c]),
                       h2[c][m].signal
                PROVE  \/ size < Items(m)
                       \/ \E j \in 0 .. c : Cut(j, h2[j][m])
    BY DEF EndsForCause
  <2>1. CASE m \in 1 .. Len(h[c])
    <3>1. \A i \in 0 .. c : h2[i][m] = h[i][m]
      BY <1>5, <2>1
    <3>. QED
      BY <1>7, <2>1, <3>1 DEF InputInv, EndsForCause
  <2>2. CASE c = k /\ m = n
    <3>1. CASE k \in Sources
      BY <1>3, <1>11, <2>2, <3>1
    <3>2. CASE k \notin Sources /\ ~final
      BY <1>3, <1>7, <1>13, <2>2, <3>2 DEF Recorded
    <3>3. CASE final
      <4>1. PICK j \in 0 .. k - 1 : j \notin NoTerminate /\ h[j][n].signal
        BY <3>3 DEF Recorded
      <4>2. j \in Kernels /\ n \in 1 .. Len(h[j])
        BY <1>4, <4>1
      <4>3. size < Items(n) \/ \E i \in 0 .. j : Cut(i, h[i][n])
        BY <4>1, <4>2 DEF InputInv, EndsForCause
      <4>4. \A i \in 0 .. j : i \in 0 .. k /\ h2[i][n] = h[i][n]
        <5>1. \A i \in 0 .. j : i \in 0 .. k
          BY <4>1 DEF Kernels
        <5>. QED
          BY <1>5, <4>2, <5>1
      <4>. QED
        BY <2>2, <4>3, <4>4
    <3>. QED
      BY <3>1, <3>2, <3>3
  <2>. QED
    BY <1>6, <2>1, <2>2
<1>15. CutEnds(h2)
  <2>. SUFFICES ASSUME NEW c \in Kernels, NEW m \in 1 .. Len(h2[c]), Cut(c, h2[c][m])
                PROVE  h2[c][m].signal
    BY DEF CutEnds
  <2>1. CASE m \in 1 .. Len(h[c])
    BY <1>5, <1>7, <2>1 DEF InputInv, CutEnds
  <2>2. CASE c = k /\ m = n
    BY <1>3, <1>13, <2>2, KernelsAssumption DEF Cut
  <2>. QED
    BY <1>6, <2>1, <2>2
<1>16. ReachesEnd(h2, size)
  <2>. SUFFICES ASSUME NEW c \in Kernels, NEW m \in 1 .. Len(h2[c]),
                       size < Items(m), \A j \in 0 .. c : ~Cut(j, h2[j][m])
                PROVE  /\ h2[c][m].produced = size
                       /\ c \notin Sources => h2[c][m].processed = size
    BY DEF ReachesEnd
  <2>1. CASE m \in 1 .. Len(h[c])
    <3>1. \A i \in 0 .. c : h2[i][m] = h[i][m]
      BY <1>5, <2>1
    <3>. QED
      BY <1>7, <2>1, <3>1 DEF InputInv, ReachesEnd
  <2>2. CASE c = k /\ m = n /\ k \in Sources
    BY <1>3, <1>11, <2>2
  <2>3. CASE c = k /\ m = n /\ k \notin Sources
    <3>1. final
      <4>1. 0 \in 0 .. k - 1 /\ 0 \notin NoTerminate
        BY <2>3, FirstIsSource DEF Kernels, StopsPipeline
      <4>2. h[0][n].signal
        BY <1>4, <2>3, <4>1, FirstIsSource DEF InputInv, OffersInput, OffersUpTo
      <4>. QED
        BY <4>1, <4>2 DEF Recorded
    <3>2. ASSUME NEW b \in InputSet(k) PROVE pos[b] = size
      <4>1. b \in 0 .. k - 1 /\ b \in Kernels
        BY InputsAreEarlier DEF Kernels
      <4>2. n \in 1 .. Len(h[b])
        BY <1>4, <4>1
      <4>3. \A i \in 0 .. b : i \in 0 .. k /\ h2[i][n] = h[i][n]
        <5>1. \A i \in 0 .. b : i \in 0 .. k
          BY <4>1 DEF Kernels
        <5>. QED
          BY <1>5, <4>1, <4>2, <5>1
      <4>4. size < Items(n) /\ \A i \in 0 .. b : ~Cut(i, h[i][n])
        BY <2>3, <4>3
      <4>5. h[b][n].produced = size
        BY <4>1, <4>2, <4>4 DEF InputInv, ReachesEnd
      <4>. QED
        BY <4>5 DEF Recorded
    <3>3. r \in DoSegmentResults(k, st, pos, TRUE)
      BY <2>3, <3>1 DEF Recorded
    <3>4. ~Cut(k, r)
      BY <1>3, <1>7, <2>3
    <3>5. k \in Kernels \ Sources
      BY <2>3
    <3>6. r.processed = size /\ r.produced = size
      BY <1>8, <3>2, <3>3, <3>4, <3>5, CalledAtEnd
    <3>. QED
      BY <1>3, <2>3, <3>6
  <2>. QED
    BY <1>6, <2>1, <2>2, <2>3
<1>. QED
  BY <1>3, <1>9, <1>10, <1>12, <1>14, <1>15, <1>16 DEF InputInv

\* A call of a source that reads the file keeps to the file's size.
LEMMA FileInvKept ==
    ASSUME StopsPipeline, NEW h, FileInv(h), NEW k \in Kernels, NEW n, NEW st,
           NEW pos \in [Kernels -> Nat], NEW final \in BOOLEAN, NEW r \in KernelState,
           NEW h2, Call(h, h2, k, n, st, pos, final, r)
    PROVE  FileInv(h2)
<1>. USE DEF FileInv
<1>1. Recorded(h, h2, k, n, st, pos, final, r)
  BY DEF Call
<1>2. Extended(h, h2, k, n, r) /\ Started(h, k, n, st)
  BY <1>1, CallExtends
<1>3. /\ n \in Nat \ {0} /\ st \in KernelState
      /\ n = 1 => st.produced = 0 /\ st.processed = 0 /\ ~st.signal
      /\ n # 1 => n - 1 \in 1 .. Len(h[k]) /\ n - 1 \in Nat /\ st = h[k][n - 1]
  BY <1>2 DEF Extended, Started
<1>4. ASSUME k \in Sources PROVE OffersUpTo(r, n, FileSize)
  <2>1. ~st.signal
    BY <1>1, <1>4 DEF StopsPipeline, Recorded
  <2>2. st.produced = Items(n - 1) /\ n - 1 \in Nat
    <3>1. CASE n = 1
      BY <1>3, <3>1, ItemsOfSegments
    <3>2. CASE n # 1
      BY <1>3, <1>4, <2>1, <3>2 DEF InputInv, OffersInput, OffersUpTo
    <3>. QED
      BY <3>1, <3>2
  <2>3. Items(n) = st.produced + SegmentSize
    <3>1. (n - 1) + 1 = n
      BY <1>3
    <3>. QED
      BY <2>2, <3>1, ItemsOfSegments
  <2>4. r \in DoSegmentResults(k, st, pos, final)
    BY DEF Call
  <2>. QED
    BY <1>3, <1>4, <2>1, <2>3, <2>4, SourceCalled DEF OffersUpTo
<1>. QED
  BY <1>1, <1>4, InputInvKept, ItemsAssumption

\* Every call keeps the pace.
LEMMA InPaceKept ==
    ASSUME StopsPipeline, StridesDivide, NEW h, FileInv(h), InPace(h),
           NEW k \in Kernels, NEW n, NEW st,
           NEW pos \in [Kernels -> Nat], NEW final \in BOOLEAN, NEW r \in KernelState,
           NEW h2, Call(h, h2, k, n, st, pos, final, r), FileInv(h2)
    PROVE  InPace(h2)
<1>1. h \in [Kernels -> Seq(KernelState)] /\ Staggered(h)
  BY DEF FileInv, InputInv
<1>2. n = Len(h[k]) + 1 /\ \A j \in 0 .. k - 1 : Len(h[j]) >= n
  BY DEF Call, Recorded
<1>a. Extended(h, h2, k, n, r) /\ Started(h, k, n, st)
  BY CallExtends DEF Call, FileInv
<1>3. /\ h2 \in [Kernels -> Seq(KernelState)]
      /\ n \in Nat \ {0}
      /\ Len(h2[k]) = n /\ h2[k][n] = r
      /\ \A j \in Kernels \ {k} : h2[j] = h[j]
  BY <1>a DEF Extended
<1>4. \A j \in 0 .. k - 1 : /\ j \in Kernels /\ n \in 1 .. Len(h[j])
                            /\ h2[j] = h[j] /\ h[j][n] \in KernelState
  BY <1>a DEF Extended
<1>5. \A j \in Kernels : \A m \in 1 .. Len(h[j]) : \A i \in 0 .. j : h2[i][m] = h[i][m]
  BY <1>a DEF Extended
<1>6. \A j \in Kernels : \A m \in 1 .. Len(h2[j]) : m \in 1 .. Len(h[j]) \/ (j = k /\ m = n)
  BY <1>a DEF Extended
<1>7. \A j \in Kernels : j \in 0 .. j
  BY DEF Kernels
<1>8. /\ st \in KernelState
      /\ n = 1 => st.produced = 0 /\ st.processed = 0 /\ ~st.signal
      /\ n # 1 => n - 1 \in 1 .. Len(h[k]) /\ n - 1 \in Nat /\ st = h[k][n - 1]
  BY <1>a DEF Started
<1>9. n - 1 \in Nat /\ Items(n - 1) \in Nat /\ Items(n) = Items(n - 1) + SegmentSize
  <2>1. n - 1 \in Nat /\ (n - 1) + 1 = n
    BY <1>3
  <2>. QED
    BY <2>1, ItemsOfSegments
<1>10. Within(k, st, Items(n - 1), Items(n - 1))
  <2>1. CASE n = 1
    BY <1>8, <2>1, ItemsOfSegments DEF Within
  <2>2. CASE n # 1
    <3>1. Quiet(h, k, n - 1)
      <4>. SUFFICES ASSUME NEW j \in 0 .. k, j \notin NoTerminate PROVE ~h[j][n - 1].signal
        BY DEF Quiet
      <4>1. CASE j = k
        BY <1>8, <2>2, <4>1 DEF Call, Recorded
      <4>2. CASE j # k
        <5>1. j \in 0 .. k - 1 /\ j \in Kernels
          BY <4>2, EarlierKernels DEF Kernels
        <5>2. h[j] \in Seq(KernelState) /\ n \in 1 .. Len(h[j])
          BY <1>1, <1>4, <5>1
        <5>3. n - 1 \in 1 .. Len(h[j]) - 1
          BY <1>3, <2>2, <5>2
        <5>. QED
          BY <5>1, <5>3 DEF FileInv, InputInv, CalledUntilEnd
      <4>. QED
        BY <4>1, <4>2
    <3>. QED
      BY <1>8, <2>2, <3>1 DEF InPace
  <2>. QED
    BY <2>1, <2>2
<1>11. ASSUME k \in Sources
       PROVE  /\ Within(k, r, Items(n - 1), Items(n))
              /\ Quiet(h2, k, n) => Within(k, r, Items(n), Items(n))
  <2>1. r.produced = (IF FileSize < Items(n) THEN FileSize ELSE Items(n))
        /\ (r.signal <=> FileSize < Items(n))
    <3>1. OffersInput(h2, FileSize)
      BY DEF FileInv, InputInv
    <3>2. n \in 1 .. Len(h2[k])
      BY <1>3
    <3>. QED
      BY <1>3, <1>11, <3>1, <3>2 DEF OffersInput, OffersUpTo
  <2>2. Items(n - 1) <= FileSize
    <3>1. CASE n = 1
      BY <3>1, ItemsOfSegments, ItemsAssumption
    <3>2. CASE n # 1
      <4>1. ~st.signal
        BY <1>11 DEF StopsPipeline, Call, Recorded
      <4>2. ~(FileSize < Items(n - 1))
        BY <1>8, <1>11, <3>2, <4>1 DEF FileInv, InputInv, OffersInput, OffersUpTo
      <4>. QED
        BY <1>9, <4>2, ItemsAssumption
    <3>. QED
      BY <3>1, <3>2
  <2>3. Within(k, r, Items(n - 1), Items(n))
    BY <1>9, <1>11, <2>1, <2>2, ItemsAssumption DEF Within
  <2>4. ASSUME Quiet(h2, k, n) PROVE Within(k, r, Items(n), Items(n))
    <3>1. ~r.signal
      BY <1>3, <1>7, <1>11, <2>4 DEF Quiet, StopsPipeline
    <3>2. r.produced = Items(n)
      BY <2>1, <3>1
    <3>. QED
      BY <1>9, <1>11, <3>2, ItemsAssumption DEF Within
  <2>. QED
    BY <2>3, <2>4
<1>12. ASSUME k \notin Sources
       PROVE  /\ Within(k, r, Items(n - 1), Items(n))
              /\ Quiet(h2, k, n) => Within(k, r, Items(n), Items(n))
  <2>1. st.produced = Items(n - 1) /\ st.processed = Items(n - 1)
    BY <1>8, <1>9, <1>10, <1>12 DEF Within, KernelState
  <2>2. \A b \in InputSet(k) : /\ b \in 0 .. k - 1 /\ b \in Kernels
                               /\ n \in 1 .. Len(h[b]) /\ pos[b] = h[b][n].produced
    <3>. SUFFICES ASSUME NEW b \in InputSet(k)
                  PROVE  /\ b \in 0 .. k - 1 /\ b \in Kernels
                         /\ n \in 1 .. Len(h[b]) /\ pos[b] = h[b][n].produced
      OBVIOUS
    <3>1. b \in 0 .. k - 1 /\ b \in Kernels
      BY InputsAreEarlier DEF Kernels
    <3>. QED
      BY <1>4, <3>1 DEF Call, Recorded
  <2>3. \A b \in InputSet(k) : Items(n - 1) <= pos[b] /\ pos[b] <= Items(n - 1) + SegmentSize
    BY <1>9, <2>2 DEF InPace, Within
  <2>4. r \in DoSegmentResults(k, st, pos, final)
    BY DEF Call, Recorded
  <2>5. Within(k, r, Items(n - 1), Items(n))
    BY <1>8, <1>9, <1>12, <2>1, <2>3, <2>4, CalledInPace
  <2>6. ASSUME Quiet(h2, k, n) PROVE Within(k, r, Items(n), Items(n))
    <3>1. \A j \in 0 .. k - 1 : h2[j] = h[j] /\ j \in 0 .. k
      BY <1>4 DEF Kernels
    <3>2. ~final
      BY <2>6, <3>1 DEF Call, Recorded, Quiet
    <3>3. k \in EarlyTerminators => ~r.signal
      BY <1>3, <1>7, <2>6 DEF Quiet, StopsPipeline
    <3>4. ASSUME NEW b \in InputSet(k) PROVE pos[b] = Items(n - 1) + SegmentSize
      <4>1. \A j \in 0 .. b : j \in 0 .. k - 1
        BY <2>2 DEF Kernels
      <4>2. Quiet(h, b, n)
        BY <2>6, <3>1, <4>1 DEF Quiet
      <4>3. Within(b, h[b][n], Items(n), Items(n))
        BY <2>2, <4>2 DEF InPace
      <4>4. h[b][n] \in KernelState
        BY <1>4, <2>2
      <4>5. h[b][n].produced = Items(n)
        <5>1. h[b][n].produced \in Nat /\ Items(n) \in Nat
          BY <1>9, <4>4, ItemsAssumption DEF KernelState
        <5>. QED
          BY <4>3, <5>1 DEF Within
      <4>. QED
        BY <1>9, <2>2, <4>5
    <3>. QED
      BY <1>8, <1>9, <1>12, <2>1, <2>3, <2>4, <3>2, <3>3, <3>4, CalledInPace
  <2>. QED
    BY <2>5, <2>6
<1>13. ASSUME NEW c \in Kernels, NEW m \in 1 .. Len(h2[c])
       PROVE  /\ Within(c, h2[c][m], Items(m - 1), Items(m))
              /\ Quiet(h2, c, m) => Within(c, h2[c][m], Items(m), Items(m))
  <2>1. CASE m \in 1 .. Len(h[c])
    <3>1. \A i \in 0 .. c : h2[i][m] = h[i][m]
      BY <1>5, <2>1
    <3>2. h2[c][m] = h[c][m]
      BY <1>7, <3>1
    <3>3. Quiet(h2, c, m) => Quiet(h, c, m)
      BY <3>1 DEF Quiet
    <3>. QED
      BY <2>1, <3>2, <3>3 DEF InPace
  <2>2. CASE c = k /\ m = n
    BY <1>3, <1>11, <1>12, <2>2
  <2>. QED
    BY <1>6, <2>1, <2>2
<1>. QED
  BY <1>13 DEF InPace

-----------------------------------------------------------------------------
(* The end of the file *)

\* No kernel was cut short by its last call.
NoneCut(h) == \A j \in Kernels : h[j] # <<>> => ~Cut(j, h[j][Len(h[j])])

\* If none was, a kernel that ends the pipeline does so at the last call of
\* the first source, with the end of the input in it.
LEMMA EndsWithInput ==
    ASSUME StopsPipeline, NEW size \in Nat, NEW h, InputInv(h, size), NoneCut(h),
           NEW k \in Kernels \ NoTerminate, NEW n \in 1 .. Len(h[k]), h[k][n].signal
    PROVE  n \in Nat \ {0} /\ n = Len(h[0]) /\ n = Len(h[k]) /\ size < Items(n)
<1>1. h \in [Kernels -> Seq(KernelState)] /\ Staggered(h)
  BY DEF InputInv
<1>2. \A j \in 0 .. k : j \in Kernels /\ n \in 1 .. Len(h[j])
  BY <1>1, CalledBefore
<1>3. ASSUME NEW j \in Kernels \ NoTerminate, n \in 1 .. Len(h[j]), h[j][n].signal
      PROVE  n = Len(h[j])
  <2>1. n \notin 1 .. Len(h[j]) - 1
    BY <1>3 DEF InputInv, CalledUntilEnd
  <2>2. Len(h[j]) \in Nat
    BY <1>1
  <2>. QED
    BY <1>3, <2>1, <2>2
<1>4. ASSUME NEW j \in 0 .. k PROVE ~Cut(j, h[j][n])
  <2>. SUFFICES ASSUME Cut(j, h[j][n]) PROVE FALSE
    OBVIOUS
  <2>1. j \in Kernels /\ n \in 1 .. Len(h[j])
    BY <1>2
  <2>2. j \notin NoTerminate /\ h[j][n].signal
    BY <2>1 DEF StopsPipeline, Cut, InputInv, CutEnds
  <2>3. n = Len(h[j])
    BY <1>3, <2>1, <2>2
  <2>4. h[j] # <<>>
    BY <2>1
  <2>. QED
    BY <2>1, <2>3, <2>4 DEF NoneCut
<1>5. size < Items(n)
  BY <1>4 DEF InputInv, EndsForCause
<1>6. 0 \in 0 .. k /\ 0 \in Kernels /\ 0 \notin NoTerminate
  BY FirstIsSource DEF Kernels, StopsPipeline, Sources
<1>7. h[0][n].signal
  BY <1>2, <1>5, <1>6, FirstIsSource DEF InputInv, OffersInput, OffersUpTo
<1>8. n = Len(h[0]) /\ n = Len(h[k])
  BY <1>2, <1>3, <1>6, <1>7
<1>. QED
  BY <1>1, <1>5, <1>8

=============================================================================
