------------------------- MODULE ObjectCacheProofs -------------------------
(***************************************************************************)
(* Proofs about the cache of compiled kernels, for any number of processes *)
(* and kills, any pipelines, clock and size limit.                         *)
(***************************************************************************)
EXTENDS ObjectCache, FiniteSetTheorems, TLAPS

USE DEF Absent, Partial

-----------------------------------------------------------------------------
(* Types.                                                                  *)

LEMMA PipelineOK ==
    ASSUME NEW p \in Procs
    PROVE  /\ Len(Pipeline[p]) \in Nat \ {0}
           /\ DOMAIN Pipeline[p] = 1 .. Len(Pipeline[p])
           /\ \A i \in DOMAIN Pipeline[p] :
                 Pipeline[p][i] \in Kernels /\ ModuleId[Pipeline[p][i]] \in Ids
BY CacheConstants

LEMMA StoppedOK ==
    ASSUME NEW p \in Procs, NEW label \in Labels,
           label \notin {"finalize", "writeObject", "openSignature", "writeSignature", "evict", "evictSignature"}
    PROVE  Stopped(label) \in States /\ StateOK(p, Stopped(label))
BY PipelineOK, CacheConstants DEF Stopped, States, StateOK, Data

LEMMA BecomeOK ==
    ASSUME TypeOK, NEW p \in Procs, NEW s \in States, StateOK(p, s), Become(p, s)
    PROVE  proc' \in [Procs -> States] /\ \A q \in Procs : StateOK(q, proc'[q])
BY DEF TypeOK, Become

\* The state with another label, when what is to be handled stays the same.
LEMMA LabelOK ==
    ASSUME TypeOK, NEW p \in Procs, NEW label \in Labels,
           StateOK(p, [proc[p] EXCEPT !.pc = label])
    PROVE  GoTo(p, label) => proc' \in [Procs -> States] /\ \A q \in Procs : StateOK(q, proc'[q])
<1>1. [proc[p] EXCEPT !.pc = label] \in States
    BY DEF TypeOK, States
<1> QED BY <1>1, BecomeOK DEF GoTo

LEMMA OnwardOK ==
    ASSUME NEW p \in Procs, NEW s \in States, StateOK(p, s),
           s.pc \notin {"finalize", "writeObject", "openSignature", "writeSignature", "evict", "evictSignature"}
    PROVE  Onward(p, s) \in States /\ StateOK(p, Onward(p, s))
<1>1. CASE s.at < Len(Pipeline[p])
    <2>1. /\ s.at + 1 \in Nat /\ s.at + 1 \in DOMAIN Pipeline[p]
        BY <1>1, PipelineOK DEF StateOK
    <2> QED BY <1>1, <2>1 DEF Onward, States, StateOK, Labels
<1>2. CASE ~(s.at < Len(Pipeline[p]))
    <2>1. 1 .. Len(Pipeline[p]) \in SUBSET Nat
        BY PipelineOK
    <2> QED BY <1>2, <2>1, PipelineOK DEF Onward, States, StateOK, Labels
<1> QED BY <1>1, <1>2

LEMMA FileNames ==
    ASSUME NEW i \in Ids
    PROVE  /\ Object(i) \in Objects /\ Sig(i) \in Sigs /\ Object(i) \notin Sigs /\ Sig(i) \notin Objects
           /\ \A j \in Ids : (Object(i) = Object(j) => i = j) /\ (Sig(i) = Sig(j) => i = j)
BY DEF Object, Sig, Objects, Sigs

\* A step that changes one process only.
LEMMA LocallyOK ==
    ASSUME TypeOK, NEW p \in Procs, NEW s \in States, StateOK(p, s), Locally(p, s), now' = now
    PROVE  TypeOK'
<1>1. proc' \in [Procs -> States] /\ \A q \in Procs : StateOK(q, proc'[q])
    BY BecomeOK DEF Locally
<1> QED BY <1>1 DEF Locally, TypeOK, DiskOK, disk, history, Data, States, StateOK

LEMMA DieOK ==
    ASSUME TypeOK, NEW p \in Procs, Die(p), now' = now
    PROVE  TypeOK'
BY StoppedOK, LocallyOK DEF Die, Labels, Ended

LEMMA TypeLoad ==
    ASSUME TypeOK, NEW p \in Procs, now' = now,
           SkipLoad(p) \/ Miss(p) \/ ReadObject(p) \/ ReadSignature(p) \/ NoSignature(p)
    PROVE  TypeOK'
<1>1. proc[p] \in States /\ StateOK(p, proc[p])
    BY DEF TypeOK
<1>2. CASE SkipLoad(p)
    BY <1>1, <1>2, OnwardOK, LocallyOK DEF SkipLoad, At
<1>3. CASE Miss(p)
    <2> DEFINE s == [proc[p] EXCEPT !.cacheable = @ \cup {proc[p].at}]
    <2>1. s \in States /\ StateOK(p, s) /\ s.pc = "load"
        BY <1>1, <1>3, PipelineOK DEF Miss, At, States, StateOK
    <2> HIDE DEF s
    <2>2. Onward(p, s) \in States /\ StateOK(p, Onward(p, s))
        BY <2>1, OnwardOK
    <2> QED BY <1>3, <2>2, LocallyOK DEF Miss, s
<1>4. CASE ReadObject(p)
    <2> DEFINE s == [proc[p] EXCEPT !.buffer = file[Object(Id(p))],
                                    !.pc = IF Kernel(p) \in Signed THEN "signature" ELSE "touch"]
    <2>1. file[Object(Id(p))] \in Data
        BY <1>1, PipelineOK DEF Id, Kernel, StateOK, TypeOK, DiskOK
    <2>2. s \in States /\ StateOK(p, s)
        BY <1>1, <1>4, <2>1 DEF ReadObject, At, States, StateOK, Labels, Ended
    <2> QED BY <1>4, <2>2, LocallyOK DEF ReadObject
<1>5. CASE ReadSignature(p)
    <2> DEFINE match == [proc[p] EXCEPT !.pc = "touch"]
               miss  == [proc[p] EXCEPT !.buffer = Absent]
    <2>1. match \in States /\ StateOK(p, match)
        BY <1>1, <1>5 DEF ReadSignature, At, States, StateOK, Labels
    <2>2. miss \in States /\ StateOK(p, miss) /\ miss.pc = "signature"
        BY <1>1, <1>5 DEF ReadSignature, At, States, StateOK, Data
    <2> HIDE DEF miss
    <2>3. Onward(p, miss) \in States /\ StateOK(p, Onward(p, miss))
        BY <2>2, OnwardOK
    <2> QED BY <1>5, <2>1, <2>3, LocallyOK DEF ReadSignature, miss
<1>6. CASE NoSignature(p)
    BY <1>6, DieOK DEF NoSignature
<1> QED BY <1>2, <1>3, <1>4, <1>5, <1>6

LEMMA TypeTouch ==
    ASSUME TypeOK, NEW p \in Procs, now' = now, Touch(p) \/ TouchGone(p)
    PROVE  TypeOK'
<1>1. proc[p] \in States /\ StateOK(p, proc[p]) /\ Id(p) \in Ids
    BY PipelineOK DEF TypeOK, StateOK, Id, Kernel
<1>2. CASE Touch(p)
    <2> DEFINE s == [proc[p] EXCEPT !.loaded[Id(p)] = proc[p].buffer, !.buffer = Absent]
    <2>1. s \in States /\ StateOK(p, s) /\ s.pc = "touch"
        BY <1>1, <1>2 DEF Touch, At, States, StateOK, Data
    <2> HIDE DEF s
    <2>2. Onward(p, s) \in States /\ StateOK(p, Onward(p, s))
        BY <2>1, OnwardOK
    <2>3. proc' \in [Procs -> States] /\ \A q \in Procs : StateOK(q, proc'[q])
        BY <1>2, <2>2, BecomeOK DEF Touch, s
    <2>4. mtime' \in [Ids -> 0 .. MaxTime] /\ lastUse' \in [Ids -> 0 .. MaxTime]
        BY <1>1, <1>2 DEF Touch, DatesAfterLoad, TypeOK, DiskOK
    <2> QED BY <1>2, <2>3, <2>4 DEF Touch, TypeOK, DiskOK
<1>3. CASE TouchGone(p)
    BY <1>3, DieOK DEF TouchGone
<1> QED BY <1>2, <1>3

\* The files after a file was opened, written or removed.
LEMMA OpenOK ==
    ASSUME TypeOK, NEW p \in Procs, NEW f \in Objects \cup Sigs, Open(p, f)
    PROVE  /\ file' \in [Objects \cup Sigs -> Data \cup Signatures]
           /\ \A i \in Ids : file'[Object(i)] \in Data /\ file'[Sig(i)] \in {Absent, Partial} \cup Signatures
           /\ writers' \in [Objects \cup Sigs -> SUBSET Procs]
BY FileNames DEF Open, TypeOK, DiskOK, Data

LEMMA RemoveOK ==
    ASSUME TypeOK, NEW f \in Objects \cup Sigs, Remove(f)
    PROVE  /\ file' \in [Objects \cup Sigs -> Data \cup Signatures]
           /\ \A i \in Ids : file'[Object(i)] \in Data /\ file'[Sig(i)] \in {Absent, Partial} \cup Signatures
           /\ writers' \in [Objects \cup Sigs -> SUBSET Procs]
BY FileNames DEF Remove, TypeOK, DiskOK, Data

LEMMA WriteOK ==
    ASSUME TypeOK, NEW p \in Procs, NEW i \in Ids, NEW f, NEW data, WriteAndClose(p, f, data),
           \/ f = Object(i) /\ data \in Data
           \/ f = Sig(i) /\ data \in Signatures
    PROVE  /\ file' \in [Objects \cup Sigs -> Data \cup Signatures]
           /\ \A j \in Ids : file'[Object(j)] \in Data /\ file'[Sig(j)] \in {Absent, Partial} \cup Signatures
           /\ writers' \in [Objects \cup Sigs -> SUBSET Procs]
BY FileNames DEF WriteAndClose, TypeOK, DiskOK

LEMMA TypeFinalize ==
    ASSUME TypeOK, NEW p \in Procs, now' = now,
           \/ UseCached(p) \/ UseTruncated(p) \/ CompileUncached(p) \/ CompileAndOpen(p)
           \/ WriteObject(p) \/ OpenSignature(p) \/ WriteSignature(p)
    PROVE  TypeOK'
<1>1. /\ proc[p] \in States /\ StateOK(p, proc[p])
      /\ Kernel(p) \in Kernels /\ Id(p) \in Ids
      /\ Object(Id(p)) \in Objects /\ Sig(Id(p)) \in Sigs
    BY PipelineOK, FileNames DEF TypeOK, StateOK, Id, Kernel
<1>2. ASSUME NEW i \in proc[p].todo, At(p, "finalize")
      PROVE  Finalized(p, i) \in States /\ StateOK(p, Finalized(p, i)) /\ i \in DOMAIN Pipeline[p]
    BY <1>1, <1>2 DEF Finalized, States, StateOK, At
<1>3. CASE UseCached(p)
    BY <1>2, <1>3, LocallyOK DEF UseCached
<1>4. CASE UseTruncated(p)
    BY <1>4, DieOK DEF UseTruncated
<1>5. CASE CompileUncached(p)
    BY <1>2, <1>5, LocallyOK DEF CompileUncached
<1>6. CASE CompileAndOpen(p)
    <2> PICK i \in proc[p].todo \cap proc[p].cacheable :
            /\ Open(p, Object(ModuleId[Pipeline[p][i]]))
            /\ mtime' = [mtime EXCEPT ![ModuleId[Pipeline[p][i]]] = now]
            /\ Become(p, [Finalized(p, i) EXCEPT !.at = i, !.pc = "writeObject"])
        BY <1>6 DEF CompileAndOpen
    <2>1. Finalized(p, i) \in States /\ StateOK(p, Finalized(p, i)) /\ i \in DOMAIN Pipeline[p]
          /\ Finalized(p, i).pc = "finalize"
        BY <1>1, <1>2, <1>6 DEF CompileAndOpen, At, Finalized, States
    <2> DEFINE s == [Finalized(p, i) EXCEPT !.at = i, !.pc = "writeObject"]
    <2>2. s \in States /\ StateOK(p, s)
        <3>1. i \in Nat
            BY <2>1, PipelineOK
        <3>2. s \in States
            BY <2>1, <3>1 DEF States, Labels
        <3>3. StateOK(p, s)
            BY <2>1 DEF States, StateOK
        <3> QED BY <3>2, <3>3
    <2>3. proc' \in [Procs -> States] /\ \A q \in Procs : StateOK(q, proc'[q])
        BY <2>2, BecomeOK
    <2>4. ModuleId[Pipeline[p][i]] \in Ids /\ Object(ModuleId[Pipeline[p][i]]) \in Objects
        BY <2>1, PipelineOK, FileNames
    <2>5. mtime' \in [Ids -> 0 .. MaxTime]
        BY <2>4 DEF TypeOK, DiskOK
    <2>6. DiskOK'
        BY <2>4, <2>5, OpenOK DEF DiskOK
    <2> QED BY <1>6, <2>3, <2>6 DEF CompileAndOpen, history, TypeOK
<1>7. CASE WriteObject(p)
    <2>1. /\ AfterObject(p) \in Labels
          /\ StateOK(p, [proc[p] EXCEPT !.pc = AfterObject(p)])
        BY <1>1, <1>7 DEF WriteObject, AfterObject, At, States, StateOK, Labels
    <2>2. mtime' \in [Ids -> 0 .. MaxTime] /\ lastUse' \in [Ids -> 0 .. MaxTime]
        BY <1>1, <1>7 DEF WriteObject, TypeOK, DiskOK
    <2>3. WriteAndClose(p, Object(Id(p)), Kernel(p)) /\ Kernel(p) \in Data
        BY <1>1, <1>7 DEF WriteObject, Data
    <2> QED BY <1>1, <1>7, <2>1, <2>2, <2>3, WriteOK, LabelOK DEF WriteObject, TypeOK, DiskOK
<1>8. CASE OpenSignature(p)
    <2>1. StateOK(p, [proc[p] EXCEPT !.pc = "writeSignature"]) /\ "writeSignature" \in Labels
        BY <1>1, <1>8 DEF OpenSignature, At, States, StateOK, Labels
    <2> QED BY <1>1, <1>8, <2>1, OpenOK, LabelOK DEF OpenSignature, TypeOK, DiskOK, history
<1>9. CASE WriteSignature(p)
    <2>1. StateOK(p, [proc[p] EXCEPT !.pc = "finalize"]) /\ "finalize" \in Labels
        BY <1>1, <1>9 DEF WriteSignature, At, States, StateOK, Labels
    <2>2. Signature[Kernel(p)] \in Signatures
        BY <1>1 DEF Signatures
    <2> QED BY <1>1, <1>9, <2>1, <2>2, WriteOK, LabelOK DEF WriteSignature, TypeOK, DiskOK, history
<1> QED BY <1>3, <1>4, <1>5, <1>6, <1>7, <1>8, <1>9

LEMMA TypeCleanUp ==
    ASSUME TypeOK, NEW p \in Procs, now' = now,
           \/ List(p) \/ Date(p) \/ DateGone(p) \/ Measure(p) \/ MeasureGone(p)
           \/ EvictObject(p) \/ EvictSignature(p) \/ Finish(p)
    PROVE  TypeOK'
<1>1. proc[p] \in States /\ StateOK(p, proc[p])
    BY DEF TypeOK
<1>2. CASE List(p)
    <2> DEFINE s == [proc[p] EXCEPT !.todo = {i \in Ids : Exists(Object(i))}, !.pc = "list"]
    <2>1. s \in States /\ StateOK(p, s)
        BY <1>1, <1>2, CacheConstants DEF List, At, States, StateOK, Labels
    <2> QED BY <1>2, <2>1, LocallyOK DEF List
<1>3. CASE Date(p)
    <2> PICK i \in proc[p].todo :
            Locally(p, [proc[p] EXCEPT
               !.todo = @ \ {i},
               !.dated = IF Exists(Object(i)) THEN @ \cup {<<mtime[i], i>>} ELSE @])
        BY <1>3 DEF Date
    <2>1. i \in Ids /\ <<mtime[i], i>> \in (0 .. MaxTime) \X Ids
        BY <1>1, <1>3 DEF Date, At, StateOK, TypeOK, DiskOK
    <2> DEFINE s == [proc[p] EXCEPT
               !.todo = @ \ {i},
               !.dated = IF Exists(Object(i)) THEN @ \cup {<<mtime[i], i>>} ELSE @]
    <2>2. s \in States
        BY <1>1, <2>1 DEF States
    <2>3. StateOK(p, s)
        BY <1>1, <1>3 DEF Date, At, StateOK, States
    <2> QED BY <2>2, <2>3, LocallyOK
<1>4. CASE DateGone(p)
    BY <1>4, DieOK DEF DateGone
<1>5. CASE Measure(p)
    <2> DEFINE size(e) == FileSize(Object(e[2]))
               rest(e) == [proc[p] EXCEPT !.dated = @ \ {e}]
               s(e)    == IF ~Exists(Object(e[2])) THEN rest(e)
                          ELSE IF Fits(p, size(e)) THEN [rest(e) EXCEPT !.kept = @ + size(e)]
                          ELSE [rest(e) EXCEPT !.victim = e[2], !.pc = "evict"]
    <2> PICK e \in proc[p].dated : Locally(p, s(e))
        BY <1>5, Zenon DEF Measure
    <2>1. e[2] \in Ids
        BY <1>1 DEF States
    <2>2. size(e) \in Nat
        BY <2>1, CacheConstants DEF FileSize, TypeOK, DiskOK, Data
    <2> HIDE DEF size
    <2>3. rest(e) \in States /\ StateOK(p, rest(e))
        BY <1>1 DEF States, StateOK
    <2>4. Fits(p, size(e)) => proc[p].kept + size(e) \in 0 .. SizeLimit
        <3>1. proc[p].kept \in 0 .. SizeLimit /\ SizeLimit \in Nat
            BY <1>1, CacheConstants DEF States
        <3>2. Fits(p, size(e)) => proc[p].kept + size(e) < SizeLimit
            BY DEF Fits
        <3> HIDE DEF rest, s
        <3> QED BY <2>2, <3>1, <3>2
    <2>5. s(e) \in States
        BY <1>1, <2>1, <2>4 DEF States, Labels
    <2>6. StateOK(p, s(e))
        BY <1>1, <1>5, <2>1 DEF Measure, Walking, At, States, StateOK
    <2> HIDE DEF s
    <2> QED BY <2>5, <2>6, LocallyOK
<1>6. CASE MeasureGone(p)
    BY <1>6, DieOK DEF MeasureGone
<1>7. CASE EvictObject(p)
    <2>1. StateOK(p, [proc[p] EXCEPT !.pc = "evictSignature"]) /\ "evictSignature" \in Labels
        BY <1>1, <1>7 DEF EvictObject, At, States, StateOK, Labels
    <2>2. Object(proc[p].victim) \in Objects
        BY <1>1, <1>7, FileNames DEF EvictObject, At, StateOK
    <2> QED BY <1>7, <2>1, <2>2, RemoveOK, LabelOK DEF EvictObject, TypeOK, DiskOK
<1>8. CASE EvictSignature(p)
    <2>1. StateOK(p, [proc[p] EXCEPT !.pc = "list"]) /\ "list" \in Labels
        BY <1>1, <1>8 DEF EvictSignature, At, States, StateOK, Labels
    <2>2. Sig(proc[p].victim) \in Sigs
        BY <1>1, <1>8, FileNames DEF EvictSignature, At, StateOK
    <2> QED BY <1>8, <2>1, <2>2, RemoveOK, LabelOK DEF EvictSignature, TypeOK, DiskOK, history
<1>9. CASE Finish(p)
    BY <1>9, StoppedOK, LocallyOK DEF Finish, Labels, Ended
<1> QED BY <1>2, <1>3, <1>4, <1>5, <1>6, <1>7, <1>8, <1>9

LEMMA InitType ==
    ASSUME Init
    PROVE  TypeOK
<1>1. DiskOK
    BY FileNames, CacheConstants DEF Init, DiskOK, Data
<1>2. \A p \in Procs : Stopped("idle") \in States /\ StateOK(p, Stopped("idle"))
    BY StoppedOK DEF Labels
<1>3. proc \in [Procs -> States] /\ \A p \in Procs : StateOK(p, proc[p])
    BY <1>2 DEF Init
<1>4. lastUse \in [Ids -> 0 .. MaxTime] /\ now \in 0 .. MaxTime
    BY CacheConstants DEF Init
<1> QED BY <1>1, <1>3, <1>4 DEF Init, TypeOK

\* Every reachable state of the object cache is well typed: no index leaves
\* its pipeline, no file holds what it was not written, and a clean-up keeps no
\* more than the limit.
THEOREM CacheTypeCorrect == Spec => []TypeOK
<1>1. Init => TypeOK
    BY InitType
<1>2. TypeOK /\ [Next]_vars => TypeOK'
    <2> SUFFICES ASSUME TypeOK, [Next]_vars PROVE TypeOK'
        OBVIOUS
    <2>1. CASE UNCHANGED vars
        BY <2>1 DEF vars, disk, history, TypeOK, DiskOK
    <2>2. CASE Tick
        BY <2>2, CacheConstants DEF Tick, disk, history, TypeOK, DiskOK
    <2>3. ASSUME NEW p \in Procs, Step(p), now' = now PROVE TypeOK'
        <3>1. CASE Start(p)
            <4>1. StateOK(p, [proc[p] EXCEPT !.pc = "load"]) /\ "load" \in Labels
                BY <3>1 DEF Start, At, TypeOK, States, StateOK, Labels
            <4> QED BY <2>3, <3>1, <4>1, LabelOK DEF Start, TypeOK, DiskOK, disk
        <3>2. CASE Kill(p)
            <4>1. proc' \in [Procs -> States] /\ \A q \in Procs : StateOK(q, proc'[q])
                BY <3>2, StoppedOK, BecomeOK DEF Kill, Labels, Ended
            <4> QED BY <2>3, <3>2, <4>1 DEF Kill, TypeOK, DiskOK, history
        <3> QED BY <2>3, <3>1, <3>2, TypeLoad, TypeTouch, TypeFinalize, TypeCleanUp DEF Step
    <2> QED BY <2>1, <2>2, <2>3 DEF Next, Terminated
<1> QED BY <1>1, <1>2, PTL DEF Spec

-----------------------------------------------------------------------------
(* What holds between the steps of several processes.                      *)

\* Two processes that are active at once have been noticed.
Alone == \A p, q \in Procs : p # q /\ Active(p) /\ Active(q) => overlapped

\* A clean-up that is about to remove a signature has removed the object, which
\* is still gone unless another process is there to compile it again.
Evicting ==
    \A p \in Procs : At(p, "evictSignature") =>
        evicted /\ (overlapped \/ ~Exists(Object(proc[p].victim)))

\* A process about to write an object holds the file, unless a clean-up of
\* another process removed it.
WriterHolds ==
    \A p \in Procs : At(p, "writeObject") =>
        p \in writers[Object(Id(p))] \/ (evicted /\ overlapped)

CacheInv == TypeOK /\ Alone /\ Evicting /\ WriterHolds /\ TruncatedHasWriter /\ OrphanHasCause

\* The steps that change no file, of which one may lead to an eviction but
\* none to or from a file that is open.
Quiet(p) ==
    \/ Start(p)
    \/ SkipLoad(p) \/ Miss(p) \/ ReadObject(p) \/ ReadSignature(p) \/ NoSignature(p)
    \/ Touch(p) \/ TouchGone(p)
    \/ UseCached(p) \/ UseTruncated(p) \/ CompileUncached(p)
    \/ List(p) \/ Date(p) \/ DateGone(p) \/ Measure(p) \/ MeasureGone(p) \/ Finish(p)

FileLabels == {"writeObject", "openSignature", "writeSignature", "evictSignature"}

LEMMA OnwardPc ==
    ASSUME NEW p \in Procs, NEW s \in States
    PROVE  Onward(p, s).pc \in {"load", "finalize"}
BY DEF Onward, States

LEMMA StoppedPc == \A label : Stopped(label).pc = label
BY DEF Stopped

LEMMA BecomePc ==
    ASSUME TypeOK, NEW p \in Procs, NEW s, Become(p, s)
    PROVE  proc'[p] = s /\ \A q \in Procs \ {p} : proc'[q] = proc[q]
BY DEF TypeOK, Become

LEMMA QuietShape ==
    ASSUME TypeOK, NEW p \in Procs, Quiet(p)
    PROVE  /\ file' = file /\ writers' = writers /\ evicted' = evicted
           /\ proc[p].pc \notin FileLabels \cup Ended /\ proc'[p].pc \notin FileLabels
           /\ \A q \in Procs \ {p} : proc'[q] = proc[q]
           /\ proc[p].pc = "idle" => Start(p)
           /\ Start(p) \/ overlapped' = overlapped
<1> USE DEF FileLabels, Ended, At
<1>1. proc[p] \in States
    BY DEF TypeOK
<1>2. CASE Start(p)
    <2>1. [proc[p] EXCEPT !.pc = "load"].pc = "load"
        BY <1>1 DEF States
    <2>2. /\ proc'[p] = [proc[p] EXCEPT !.pc = "load"]
          /\ \A q \in Procs \ {p} : proc'[q] = proc[q]
        BY <1>2, BecomePc DEF Start, GoTo
    <2> QED BY <1>2, <2>1, <2>2 DEF Start, disk
<1>3. CASE SkipLoad(p)
    BY <1>1, <1>3, BecomePc, OnwardPc DEF SkipLoad, Locally, disk, history
<1>4. CASE Miss(p)
    <2> DEFINE s == [proc[p] EXCEPT !.cacheable = @ \cup {proc[p].at}]
    <2>1. s \in States
        BY <1>1 DEF States
    <2> HIDE DEF s
    <2>2. Onward(p, s).pc \in {"load", "finalize"}
        BY <2>1, OnwardPc
    <2> QED BY <1>4, <2>2, BecomePc DEF Miss, Locally, disk, history, s
<1>5. CASE ReadObject(p)
    <2> DEFINE s == [proc[p] EXCEPT !.buffer = file[Object(Id(p))],
                                    !.pc = IF Kernel(p) \in Signed THEN "signature" ELSE "touch"]
    <2>1. s.pc \in {"signature", "touch"}
        BY <1>1 DEF States
    <2> HIDE DEF s
    <2> QED BY <1>5, <2>1, BecomePc DEF ReadObject, Locally, disk, history, s
<1>6. CASE ReadSignature(p)
    <2> DEFINE s == [proc[p] EXCEPT !.buffer = Absent]
    <2>1. s \in States
        BY <1>1 DEF States, Data
    <2> HIDE DEF s
    <2>2. Onward(p, s).pc \in {"load", "finalize"}
        BY <2>1, OnwardPc
    <2>3. [proc[p] EXCEPT !.pc = "touch"].pc = "touch"
        BY <1>1 DEF States
    <2> QED BY <1>6, <2>2, <2>3, BecomePc DEF ReadSignature, Locally, disk, history, s
<1>7. CASE NoSignature(p)
    BY <1>7, BecomePc, StoppedPc DEF NoSignature, Die, Locally, disk, history
<1>8. CASE Touch(p)
    <2> DEFINE s == [proc[p] EXCEPT !.loaded[Id(p)] = proc[p].buffer, !.buffer = Absent]
    <2>1. s \in States
        BY <1>1, PipelineOK DEF States, Data, TypeOK, StateOK, Id, Kernel
    <2> HIDE DEF s
    <2>2. Onward(p, s).pc \in {"load", "finalize"}
        BY <2>1, OnwardPc
    <2> QED BY <1>8, <2>2, BecomePc DEF Touch, s
<1>9. CASE TouchGone(p)
    BY <1>9, BecomePc, StoppedPc DEF TouchGone, Die, Locally, disk, history
<1>10. CASE UseCached(p)
    <2> PICK i \in proc[p].todo : Locally(p, Finalized(p, i))
        BY <1>10 DEF UseCached
    <2>1. Finalized(p, i).pc = proc[p].pc
        BY <1>1 DEF Finalized, States
    <2> QED BY <1>10, <2>1, BecomePc DEF UseCached, Locally, disk, history
<1>11. CASE UseTruncated(p)
    BY <1>11, BecomePc, StoppedPc DEF UseTruncated, Die, Locally, disk, history
<1>12. CASE CompileUncached(p)
    <2> PICK i \in proc[p].todo : Locally(p, Finalized(p, i))
        BY <1>12 DEF CompileUncached
    <2>1. Finalized(p, i).pc = proc[p].pc
        BY <1>1 DEF Finalized, States
    <2> QED BY <1>12, <2>1, BecomePc DEF CompileUncached, Locally, disk, history
<1>13. CASE List(p)
    <2> DEFINE s == [proc[p] EXCEPT !.todo = {i \in Ids : Exists(Object(i))}, !.pc = "list"]
    <2>1. s.pc = "list"
        BY <1>1 DEF States
    <2> HIDE DEF s
    <2> QED BY <1>13, <2>1, BecomePc DEF List, Locally, disk, history, s
<1>14. CASE Date(p)
    <2> DEFINE s(i) == [proc[p] EXCEPT
               !.todo = @ \ {i},
               !.dated = IF Exists(Object(i)) THEN @ \cup {<<mtime[i], i>>} ELSE @]
    <2> PICK i \in proc[p].todo : Locally(p, s(i))
        BY <1>14 DEF Date
    <2>1. s(i).pc = proc[p].pc
        BY <1>1 DEF States
    <2> HIDE DEF s
    <2> QED BY <1>14, <2>1, BecomePc DEF Date, Locally, disk, history
<1>15. CASE DateGone(p)
    BY <1>15, BecomePc, StoppedPc DEF DateGone, Die, Locally, disk, history
<1>16. CASE Measure(p)
    <2> DEFINE size(e) == FileSize(Object(e[2]))
               rest(e) == [proc[p] EXCEPT !.dated = @ \ {e}]
               s(e)    == IF ~Exists(Object(e[2])) THEN rest(e)
                          ELSE IF Fits(p, size(e)) THEN [rest(e) EXCEPT !.kept = @ + size(e)]
                          ELSE [rest(e) EXCEPT !.victim = e[2], !.pc = "evict"]
    <2> PICK e \in proc[p].dated : Locally(p, s(e))
        BY <1>16, Zenon DEF Measure
    <2>1. s(e).pc \in {proc[p].pc, "evict"}
        BY <1>1 DEF States
    <2> HIDE DEF s
    <2> QED BY <1>16, <2>1, BecomePc DEF Measure, Walking, Locally, disk, history
<1>17. CASE MeasureGone(p)
    BY <1>17, BecomePc, StoppedPc DEF MeasureGone, Walking, Die, Locally, disk, history
<1>18. CASE Finish(p)
    BY <1>18, BecomePc, StoppedPc DEF Finish, Walking, Locally, disk, history
<1> QED
    BY <1>2, <1>3, <1>4, <1>5, <1>6, <1>7, <1>8, <1>9, <1>10, <1>11, <1>12, <1>13, <1>14, <1>15,
       <1>16, <1>17, <1>18 DEF Quiet

\* What a process that does not take the step goes on to do.
LEMMA OthersKeep ==
    ASSUME NEW p \in Procs, NEW q \in Procs, proc'[q] = proc[q]
    PROVE  /\ At(q, "writeObject")' = At(q, "writeObject")
           /\ Id(q)' = Id(q) /\ Kernel(q)' = Kernel(q)
           /\ Active(q)' = Active(q)
           /\ \A f : Writing(q, f)' = Writing(q, f)
BY DEF At, Id, Kernel, Active, Writing, Object, Sig

LEMMA KilledGrows ==
    ASSUME NEW p \in Procs, \A q \in Procs \ {p} : proc'[q] = proc[q], ~At(p, "killed")
    PROVE  Killed \subseteq Killed'
BY DEF Killed, At

LEMMA QuietKeepsInv ==
    ASSUME CacheInv, NEW p \in Procs, Quiet(p), TypeOK'
    PROVE  CacheInv'
<1> USE DEF FileLabels
<1>1. /\ file' = file /\ writers' = writers /\ evicted' = evicted
      /\ proc[p].pc \notin FileLabels \cup Ended /\ proc'[p].pc \notin FileLabels
      /\ \A q \in Procs \ {p} : proc'[q] = proc[q]
      /\ proc[p].pc = "idle" => Start(p)
      /\ Start(p) \/ overlapped' = overlapped
    BY QuietShape DEF CacheInv
<1>2. Start(p) => /\ overlapped' = (overlapped \/ \E q \in Procs : Active(q))
                  /\ overlapped \in BOOLEAN
    BY DEF Start, CacheInv, TypeOK
<1>3. overlapped => overlapped'
    BY <1>1, <1>2
<1>4. Alone'
    <2> SUFFICES ASSUME NEW q \in Procs, NEW r \in Procs, q # r, Active(q)', Active(r)' PROVE overlapped'
        BY DEF Alone
    <2>1. \A t \in Procs \ {p} : Active(t)' => Active(t)
        BY <1>1 DEF Active
    <2>2. CASE Start(p)
        <3>1. \E t \in {q, r} : t # p /\ Active(t)
            BY <2>1
        <3> QED BY <1>2, <2>2, <3>1
    <2>3. CASE ~Start(p)
        <3>1. Active(p)
            BY <1>1, <2>3 DEF Active
        <3> QED BY <1>1, <2>1, <2>3, <3>1 DEF Alone, CacheInv
    <2> QED BY <2>2, <2>3
<1>5. Evicting'
    BY <1>1, <1>3 DEF Evicting, CacheInv, At, Exists, Object
<1>6. WriterHolds'
    BY <1>1, <1>3 DEF WriterHolds, CacheInv, At, Id, Kernel, Object
<1>7. Killed \subseteq Killed'
    BY <1>1, KilledGrows DEF At, Ended
<1>8. TruncatedHasWriter'
    <2> SUFFICES ASSUME NEW f \in DOMAIN file, file[f] = Partial, Killed = {}
                 PROVE  \E q \in writers[f] : Writing(q, f)'
        BY <1>1, <1>7 DEF TruncatedHasWriter
    <2>1. PICK q \in writers[f] : Writing(q, f)
        BY DEF TruncatedHasWriter, CacheInv
    <2>2. q \in Procs \ {p}
        BY <1>1, <2>1 DEF Writing, At, CacheInv, TypeOK, DiskOK
    <2> QED BY <1>1, <2>1, <2>2, OthersKeep
<1>9. OrphanHasCause'
    <2> SUFFICES ASSUME NEW i \in Ids, file[Object(i)] \in Signed, ~Exists(Sig(i)),
                        Killed = {}, ~(evicted /\ overlapped)
                 PROVE  \E q \in Procs : proc'[q].pc \in {"writeObject", "openSignature"} /\ Id(q)' = i
        BY <1>1, <1>3, <1>7 DEF OrphanHasCause, Exists, Object, Sig
    <2>1. PICK q \in Procs : proc[q].pc \in {"writeObject", "openSignature"} /\ Id(q) = i
        BY DEF OrphanHasCause, CacheInv
    <2> QED BY <1>1, <2>1, OthersKeep
<1> QED BY <1>4, <1>5, <1>6, <1>8, <1>9 DEF CacheInv

LEMMA NoKernel == Absent \notin Kernels \cup Signatures /\ Partial \notin Kernels \cup Signatures
                  /\ Absent \notin Signed /\ Partial \notin Signed
BY KernelNames, CacheConstants

LEMMA AloneKept ==
    ASSUME Alone, NEW p \in Procs, Active(p), overlapped' = overlapped,
           \A q \in Procs \ {p} : proc'[q] = proc[q]
    PROVE  Alone'
<1> SUFFICES ASSUME NEW q \in Procs, NEW r \in Procs, q # r, Active(q)', Active(r)' PROVE overlapped
    BY DEF Alone
<1>1. \A t \in Procs \ {p} : Active(t)' => Active(t)
    BY OthersKeep
<1> QED BY <1>1 DEF Alone

LEMMA CompileAndOpenKeepsInv ==
    ASSUME CacheInv, NEW p \in Procs, CompileAndOpen(p), TypeOK'
    PROVE  CacheInv'
<1> PICK i \in proc[p].todo \cap proc[p].cacheable :
        /\ Open(p, Object(ModuleId[Pipeline[p][i]]))
        /\ Become(p, [Finalized(p, i) EXCEPT !.at = i, !.pc = "writeObject"])
    BY DEF CompileAndOpen
<1> DEFINE id == ModuleId[Pipeline[p][i]]
<1>1. At(p, "finalize") /\ UNCHANGED history /\ proc[p] \in States /\ StateOK(p, proc[p])
    BY DEF CompileAndOpen, CacheInv, TypeOK
<1>2. id \in Ids /\ Object(id) \in Objects
    BY <1>1, PipelineOK, FileNames DEF StateOK
<1>3. /\ proc'[p].pc = "writeObject" /\ proc'[p].at = i
      /\ \A q \in Procs \ {p} : proc'[q] = proc[q]
    <2>1. [Finalized(p, i) EXCEPT !.at = i, !.pc = "writeObject"].pc = "writeObject"
        BY <1>1 DEF Finalized, States
    <2>2. [Finalized(p, i) EXCEPT !.at = i, !.pc = "writeObject"].at = i
        BY <1>1 DEF Finalized, States
    <2> DEFINE s == [Finalized(p, i) EXCEPT !.at = i, !.pc = "writeObject"]
    <2> HIDE DEF s
    <2>3. proc'[p] = s /\ \A q \in Procs \ {p} : proc'[q] = proc[q]
        BY BecomePc DEF CacheInv, s
    <2> QED BY <2>1, <2>2, <2>3 DEF s
<1>4. Id(p)' = id
    BY <1>3 DEF Id, Kernel
<1>5. Active(p) /\ overlapped' = overlapped /\ evicted' = evicted
    BY <1>1 DEF Active, At, Ended, history
<1>6. /\ file' = [file EXCEPT ![Object(id)] = Partial]
      /\ writers' = [writers EXCEPT ![Object(id)] = @ \cup {p}]
      /\ DOMAIN file = Objects \cup Sigs /\ DOMAIN writers = Objects \cup Sigs
    BY DEF Open, CacheInv, TypeOK, DiskOK
<1>7. Killed \subseteq Killed'
    BY <1>1, <1>3, KilledGrows DEF At
<1>8. \A q \in Procs \ {p} : At(q, "evictSignature") => overlapped
    BY <1>5 DEF CacheInv, Alone, Active, At, Ended
<1>9. Alone'
    BY <1>3, <1>5, AloneKept DEF CacheInv
<1>10. Evicting'
    BY <1>3, <1>5, <1>8 DEF Evicting, CacheInv, At
<1>11. WriterHolds'
    <2> SUFFICES ASSUME NEW q \in Procs, At(q, "writeObject")', ~(evicted /\ overlapped)
                 PROVE  q \in writers'[Object(Id(q)')]
        BY <1>5 DEF WriterHolds, Object
    <2>1. CASE q = p
        BY <1>2, <1>4, <1>6, <2>1
    <2>2. CASE q # p
        <3>1. q \in writers[Object(Id(q))]
            BY <1>3, <2>2 DEF WriterHolds, CacheInv, At
        <3> QED BY <1>2, <1>3, <1>6, <2>2, <3>1, OthersKeep
    <2> QED BY <2>1, <2>2
<1>12. TruncatedHasWriter'
    <2> SUFFICES ASSUME NEW f \in Objects \cup Sigs, file'[f] = Partial, Killed = {}
                 PROVE  \E q \in writers'[f] : Writing(q, f)'
        BY <1>6, <1>7 DEF TruncatedHasWriter
    <2>1. CASE f = Object(id)
        BY <1>2, <1>3, <1>4, <1>6, <2>1 DEF Writing, At, Object
    <2>2. CASE f # Object(id)
        <3>1. PICK q \in writers[f] : Writing(q, f)
            BY <1>6, <2>2 DEF TruncatedHasWriter, CacheInv
        <3>2. q \in Procs \ {p}
            BY <1>1, <3>1 DEF Writing, At, CacheInv, TypeOK, DiskOK
        <3> QED BY <1>3, <1>6, <2>2, <3>1, <3>2, OthersKeep
    <2> QED BY <2>1, <2>2
<1>13. OrphanHasCause'
    <2> SUFFICES ASSUME NEW j \in Ids, file'[Object(j)] \in Signed, file'[Sig(j)] = Absent,
                        Killed = {}, ~(evicted /\ overlapped)
                 PROVE  \E q \in Procs : proc'[q].pc \in {"writeObject", "openSignature"} /\ Id(q)' = j
        BY <1>5, <1>7 DEF OrphanHasCause, Exists, Object, Sig
    <2>1. file[Object(j)] \in Signed /\ ~Exists(Sig(j))
        BY <1>2, <1>6, NoKernel, FileNames DEF Exists
    <2>2. PICK q \in Procs : proc[q].pc \in {"writeObject", "openSignature"} /\ Id(q) = j
        BY <2>1 DEF OrphanHasCause, CacheInv
    <2> QED BY <1>1, <1>3, <2>2, OthersKeep DEF At
<1> QED BY <1>9, <1>10, <1>11, <1>12, <1>13 DEF CacheInv

\* The step that leads to another label and changes nothing else of p.
LEMMA GoToShape ==
    ASSUME TypeOK, NEW p \in Procs, NEW label, GoTo(p, label)
    PROVE  /\ proc'[p].pc = label /\ Id(p)' = Id(p) /\ Kernel(p)' = Kernel(p)
           /\ proc'[p].victim = proc[p].victim
           /\ \A q \in Procs \ {p} : proc'[q] = proc[q]
           /\ Id(p) \in Ids /\ Kernel(p) \in Kernels
<1> DEFINE s == [proc[p] EXCEPT !.pc = label]
<1>1. s.pc = label /\ s.at = proc[p].at /\ s.victim = proc[p].victim
    BY DEF TypeOK, States
<1> HIDE DEF s
<1>2. proc'[p] = s /\ \A q \in Procs \ {p} : proc'[q] = proc[q]
    BY BecomePc DEF GoTo, s
<1>3. Id(p) \in Ids /\ Kernel(p) \in Kernels
    BY PipelineOK DEF TypeOK, StateOK, Id, Kernel
<1> QED BY <1>1, <1>2, <1>3 DEF Id, Kernel

\* A process that writes or removes a file is alone or has been noticed.
LEMMA OthersNoticed ==
    ASSUME CacheInv, NEW p \in Procs, Active(p)
    PROVE  \A q \in Procs \ {p} : Active(q) => overlapped
BY DEF CacheInv, Alone

LEMMA WriteObjectKeepsInv ==
    ASSUME CacheInv, NEW p \in Procs, WriteObject(p), TypeOK'
    PROVE  CacheInv'
<1> DEFINE f == Object(Id(p))
<1>1. /\ At(p, "writeObject") /\ Active(p)
      /\ overlapped' = overlapped /\ evicted' = evicted
    BY DEF WriteObject, Active, At, Ended
<1>2. /\ proc'[p].pc = AfterObject(p) /\ Id(p)' = Id(p) /\ Kernel(p)' = Kernel(p)
      /\ \A q \in Procs \ {p} : proc'[q] = proc[q]
      /\ Id(p) \in Ids /\ Kernel(p) \in Kernels
    BY GoToShape DEF WriteObject, CacheInv
<1>3. /\ file' = IF p \in writers[f] THEN [file EXCEPT ![f] = Kernel(p)] ELSE file
      /\ writers' = [writers EXCEPT ![f] = @ \ {p}]
      /\ DOMAIN file = Objects \cup Sigs /\ DOMAIN writers = Objects \cup Sigs
      /\ f \in Objects
    BY <1>2, FileNames DEF WriteObject, WriteAndClose, CacheInv, TypeOK, DiskOK
<1>4. Killed \subseteq Killed'
    BY <1>1, <1>2, KilledGrows DEF At
<1>5. Alone'
    BY <1>1, <1>2, AloneKept DEF CacheInv
<1>6. Evicting'
    <2>1. \A q \in Procs \ {p} : At(q, "evictSignature") => overlapped
        BY <1>1, OthersNoticed DEF Active, At, Ended
    <2> QED BY <1>1, <1>2, <2>1 DEF Evicting, CacheInv, At, AfterObject
<1>7. WriterHolds'
    <2> SUFFICES ASSUME NEW q \in Procs, At(q, "writeObject")', ~(evicted /\ overlapped)
                 PROVE  q \in writers'[Object(Id(q)')]
        BY <1>1 DEF WriterHolds, Object
    <2>1. q # p
        BY <1>2 DEF At, AfterObject
    <2>2. q \in writers[Object(Id(q))] /\ Id(q) \in Ids
        BY <1>2, <2>1, PipelineOK DEF WriterHolds, CacheInv, At, TypeOK, StateOK, Id, Kernel
    <2> QED BY <1>2, <1>3, <2>1, <2>2, OthersKeep, FileNames
<1>8. TruncatedHasWriter'
    <2> SUFFICES ASSUME NEW g \in Objects \cup Sigs, file'[g] = Partial, Killed = {}
                 PROVE  \E q \in writers'[g] : Writing(q, g)'
        BY <1>3, <1>4 DEF TruncatedHasWriter
    <2>1. file[g] = Partial /\ (g = f => p \notin writers[f])
        BY <1>2, <1>3, NoKernel
    <2>2. PICK q \in writers[g] : Writing(q, g)
        BY <1>3, <2>1 DEF TruncatedHasWriter, CacheInv
    <2>3. q \in Procs \ {p}
        BY <1>1, <1>3, <2>1, <2>2 DEF Writing, At, CacheInv, TypeOK, DiskOK
    <2> QED BY <1>2, <1>3, <2>2, <2>3, OthersKeep
<1>9. OrphanHasCause'
    <2> SUFFICES ASSUME NEW j \in Ids, file'[Object(j)] \in Signed, file'[Sig(j)] = Absent,
                        Killed = {}, ~(evicted /\ overlapped)
                 PROVE  \E q \in Procs : proc'[q].pc \in {"writeObject", "openSignature"} /\ Id(q)' = j
        BY <1>1, <1>4 DEF OrphanHasCause, Exists, Object, Sig
    <2>1. CASE j = Id(p)
        <3>1. p \in writers[f]
            BY <1>1 DEF WriterHolds, CacheInv
        <3>2. Kernel(p) \in Signed
            BY <1>3, <2>1, <3>1
        <3> QED BY <1>2, <2>1, <3>2 DEF AfterObject
    <2>2. CASE j # Id(p)
        <3>1. file[Object(j)] \in Signed /\ ~Exists(Sig(j))
            BY <1>2, <1>3, <2>2, FileNames DEF Exists
        <3>2. PICK q \in Procs : proc[q].pc \in {"writeObject", "openSignature"} /\ Id(q) = j
            BY <3>1 DEF OrphanHasCause, CacheInv
        <3> QED BY <1>2, <2>2, <3>2, OthersKeep
    <2> QED BY <2>1, <2>2
<1> QED BY <1>5, <1>6, <1>7, <1>8, <1>9 DEF CacheInv

LEMMA OpenSignatureKeepsInv ==
    ASSUME CacheInv, NEW p \in Procs, OpenSignature(p), TypeOK'
    PROVE  CacheInv'
<1> DEFINE f == Sig(Id(p))
<1>1. /\ At(p, "openSignature") /\ Active(p)
      /\ overlapped' = overlapped /\ evicted' = evicted
    BY DEF OpenSignature, Active, At, Ended, history
<1>2. /\ proc'[p].pc = "writeSignature" /\ Id(p)' = Id(p)
      /\ \A q \in Procs \ {p} : proc'[q] = proc[q]
      /\ Id(p) \in Ids
    BY GoToShape DEF OpenSignature, CacheInv
<1>3. /\ file' = [file EXCEPT ![f] = Partial]
      /\ writers' = [writers EXCEPT ![f] = @ \cup {p}]
      /\ DOMAIN file = Objects \cup Sigs /\ DOMAIN writers = Objects \cup Sigs
      /\ f \in Sigs
    BY <1>2, FileNames DEF OpenSignature, Open, CacheInv, TypeOK, DiskOK
<1>4. Killed \subseteq Killed'
    BY <1>1, <1>2, KilledGrows DEF At
<1>5. Alone'
    BY <1>1, <1>2, AloneKept DEF CacheInv
<1>6. Evicting'
    <2>1. \A q \in Procs \ {p} : At(q, "evictSignature") => overlapped
        BY <1>1, OthersNoticed DEF Active, At, Ended
    <2> QED BY <1>1, <1>2, <2>1 DEF Evicting, CacheInv, At
<1>7. WriterHolds'
    <2> SUFFICES ASSUME NEW q \in Procs, At(q, "writeObject")', ~(evicted /\ overlapped)
                 PROVE  q \in writers'[Object(Id(q)')]
        BY <1>1 DEF WriterHolds, Object
    <2>1. q # p
        BY <1>2 DEF At
    <2>2. q \in writers[Object(Id(q))] /\ Id(q) \in Ids
        BY <1>2, <2>1, PipelineOK DEF WriterHolds, CacheInv, At, TypeOK, StateOK, Id, Kernel
    <2> QED BY <1>2, <1>3, <2>1, <2>2, OthersKeep, FileNames
<1>8. TruncatedHasWriter'
    <2> SUFFICES ASSUME NEW g \in Objects \cup Sigs, file'[g] = Partial, Killed = {}
                 PROVE  \E q \in writers'[g] : Writing(q, g)'
        BY <1>3, <1>4 DEF TruncatedHasWriter
    <2>1. CASE g = f
        BY <1>2, <1>3, <2>1 DEF Writing, At, Sig
    <2>2. CASE g # f
        <3>1. PICK q \in writers[g] : Writing(q, g)
            BY <1>3, <2>2 DEF TruncatedHasWriter, CacheInv
        <3>2. q \in Procs \ {p}
            BY <1>1, <3>1 DEF Writing, At, CacheInv, TypeOK, DiskOK
        <3> QED BY <1>2, <1>3, <2>2, <3>1, <3>2, OthersKeep
    <2> QED BY <2>1, <2>2
<1>9. OrphanHasCause'
    <2> SUFFICES ASSUME NEW j \in Ids, file'[Object(j)] \in Signed, file'[Sig(j)] = Absent,
                        Killed = {}, ~(evicted /\ overlapped)
                 PROVE  \E q \in Procs : proc'[q].pc \in {"writeObject", "openSignature"} /\ Id(q)' = j
        BY <1>1, <1>4 DEF OrphanHasCause, Exists, Object, Sig
    <2>1. j # Id(p)
        BY <1>3
    <2>2. file[Object(j)] \in Signed /\ ~Exists(Sig(j))
        BY <1>2, <1>3, <2>1, FileNames DEF Exists
    <2>3. PICK q \in Procs : proc[q].pc \in {"writeObject", "openSignature"} /\ Id(q) = j
        BY <2>2 DEF OrphanHasCause, CacheInv
    <2> QED BY <1>2, <2>1, <2>3, OthersKeep
<1> QED BY <1>5, <1>6, <1>7, <1>8, <1>9 DEF CacheInv

LEMMA WriteSignatureKeepsInv ==
    ASSUME CacheInv, NEW p \in Procs, WriteSignature(p), TypeOK'
    PROVE  CacheInv'
<1> DEFINE f == Sig(Id(p))
<1>1. /\ At(p, "writeSignature") /\ Active(p)
      /\ overlapped' = overlapped /\ evicted' = evicted
    BY DEF WriteSignature, Active, At, Ended, history
<1>2. /\ proc'[p].pc = "finalize" /\ Id(p)' = Id(p)
      /\ \A q \in Procs \ {p} : proc'[q] = proc[q]
      /\ Id(p) \in Ids /\ Signature[Kernel(p)] \in Signatures
    BY GoToShape DEF WriteSignature, CacheInv, Signatures
<1>3. /\ file' = IF p \in writers[f] THEN [file EXCEPT ![f] = Signature[Kernel(p)]] ELSE file
      /\ writers' = [writers EXCEPT ![f] = @ \ {p}]
      /\ DOMAIN file = Objects \cup Sigs /\ DOMAIN writers = Objects \cup Sigs
      /\ f \in Sigs
    BY <1>2, FileNames DEF WriteSignature, WriteAndClose, CacheInv, TypeOK, DiskOK
<1>4. Killed \subseteq Killed'
    BY <1>1, <1>2, KilledGrows DEF At
<1>5. Alone'
    BY <1>1, <1>2, AloneKept DEF CacheInv
<1>6. Evicting'
    <2>1. \A q \in Procs \ {p} : At(q, "evictSignature") => overlapped
        BY <1>1, OthersNoticed DEF Active, At, Ended
    <2> QED BY <1>1, <1>2, <2>1 DEF Evicting, CacheInv, At
<1>7. WriterHolds'
    <2> SUFFICES ASSUME NEW q \in Procs, At(q, "writeObject")', ~(evicted /\ overlapped)
                 PROVE  q \in writers'[Object(Id(q)')]
        BY <1>1 DEF WriterHolds, Object
    <2>1. q # p
        BY <1>2 DEF At
    <2>2. q \in writers[Object(Id(q))] /\ Id(q) \in Ids
        BY <1>2, <2>1, PipelineOK DEF WriterHolds, CacheInv, At, TypeOK, StateOK, Id, Kernel
    <2> QED BY <1>2, <1>3, <2>1, <2>2, OthersKeep, FileNames
<1>8. TruncatedHasWriter'
    <2> SUFFICES ASSUME NEW g \in Objects \cup Sigs, file'[g] = Partial, Killed = {}
                 PROVE  \E q \in writers'[g] : Writing(q, g)'
        BY <1>3, <1>4 DEF TruncatedHasWriter
    <2>1. file[g] = Partial /\ (g = f => p \notin writers[f])
        BY <1>2, <1>3, NoKernel
    <2>2. PICK q \in writers[g] : Writing(q, g)
        BY <1>3, <2>1 DEF TruncatedHasWriter, CacheInv
    <2>3. q \in Procs \ {p}
        BY <1>1, <1>3, <2>1, <2>2 DEF Writing, At, CacheInv, TypeOK, DiskOK
    <2> QED BY <1>2, <1>3, <2>2, <2>3, OthersKeep
<1>9. OrphanHasCause'
    <2> SUFFICES ASSUME NEW j \in Ids, file'[Object(j)] \in Signed, file'[Sig(j)] = Absent,
                        Killed = {}, ~(evicted /\ overlapped)
                 PROVE  \E q \in Procs : proc'[q].pc \in {"writeObject", "openSignature"} /\ Id(q)' = j
        BY <1>1, <1>4 DEF OrphanHasCause, Exists, Object, Sig
    <2>1. file[Object(j)] \in Signed /\ ~Exists(Sig(j))
        BY <1>2, <1>3, NoKernel, FileNames DEF Exists
    <2>2. PICK q \in Procs : proc[q].pc \in {"writeObject", "openSignature"} /\ Id(q) = j
        BY <2>1 DEF OrphanHasCause, CacheInv
    <2> QED BY <1>1, <1>2, <2>2, OthersKeep DEF At
<1> QED BY <1>5, <1>6, <1>7, <1>8, <1>9 DEF CacheInv

LEMMA EvictObjectKeepsInv ==
    ASSUME CacheInv, NEW p \in Procs, EvictObject(p), TypeOK'
    PROVE  CacheInv'
<1> DEFINE f == Object(proc[p].victim)
<1>1. /\ At(p, "evict") /\ Active(p)
      /\ overlapped' = overlapped /\ evicted'
    BY DEF EvictObject, Active, At, Ended
<1>2. /\ proc'[p].pc = "evictSignature" /\ proc'[p].victim = proc[p].victim
      /\ \A q \in Procs \ {p} : proc'[q] = proc[q]
    BY GoToShape DEF EvictObject, CacheInv
<1>3. proc[p].victim \in Ids
    BY <1>1 DEF CacheInv, TypeOK, StateOK, At
<1>4. /\ file' = [file EXCEPT ![f] = Absent]
      /\ writers' = [writers EXCEPT ![f] = {}]
      /\ DOMAIN file = Objects \cup Sigs /\ DOMAIN writers = Objects \cup Sigs
      /\ f \in Objects
    BY <1>3, FileNames DEF EvictObject, Remove, CacheInv, TypeOK, DiskOK
<1>5. Killed \subseteq Killed'
    BY <1>1, <1>2, KilledGrows DEF At
<1>6. \A q \in Procs \ {p} : Active(q) => overlapped
    BY <1>1, OthersNoticed
<1>7. Alone'
    BY <1>1, <1>2, AloneKept DEF CacheInv
<1>8. Evicting'
    <2> SUFFICES ASSUME NEW q \in Procs, proc'[q].pc = "evictSignature", ~overlapped
                 PROVE  file'[Object(proc'[q].victim)] = Absent
        BY <1>1 DEF Evicting, At, Exists, Object
    <2>1. q = p
        BY <1>2, <1>6 DEF Active, Ended
    <2> QED BY <1>2, <1>4, <2>1
<1>9. WriterHolds'
    <2> SUFFICES ASSUME NEW q \in Procs, proc'[q].pc = "writeObject" PROVE overlapped
        BY <1>1 DEF WriterHolds, At
    <2> QED BY <1>2, <1>6 DEF Active, Ended
<1>10. TruncatedHasWriter'
    <2> SUFFICES ASSUME NEW g \in Objects \cup Sigs, file'[g] = Partial, Killed = {}
                 PROVE  \E q \in writers'[g] : Writing(q, g)'
        BY <1>4, <1>5 DEF TruncatedHasWriter
    <2>1. g # f /\ file[g] = Partial
        BY <1>4
    <2>2. PICK q \in writers[g] : Writing(q, g)
        BY <1>4, <2>1 DEF TruncatedHasWriter, CacheInv
    <2>3. q \in Procs \ {p}
        BY <1>1, <2>2 DEF Writing, At, CacheInv, TypeOK, DiskOK
    <2> QED BY <1>2, <1>4, <2>1, <2>2, <2>3, OthersKeep
<1>11. OrphanHasCause'
    <2> SUFFICES ASSUME NEW j \in Ids, file'[Object(j)] \in Signed, file'[Sig(j)] = Absent,
                        Killed = {}, ~overlapped
                 PROVE  \E q \in Procs : proc'[q].pc \in {"writeObject", "openSignature"} /\ Id(q)' = j
        BY <1>1, <1>5 DEF OrphanHasCause, Exists, Object, Sig
    <2>1. file[Object(j)] \in Signed /\ ~Exists(Sig(j))
        BY <1>3, <1>4, NoKernel, FileNames DEF Exists
    <2>2. PICK q \in Procs : proc[q].pc \in {"writeObject", "openSignature"} /\ Id(q) = j
        BY <2>1 DEF OrphanHasCause, CacheInv
    <2> QED BY <1>1, <1>2, <2>2, OthersKeep DEF At
<1> QED BY <1>7, <1>8, <1>9, <1>10, <1>11 DEF CacheInv

LEMMA EvictSignatureKeepsInv ==
    ASSUME CacheInv, NEW p \in Procs, EvictSignature(p), TypeOK'
    PROVE  CacheInv'
<1> DEFINE f == Sig(proc[p].victim)
<1>1. /\ At(p, "evictSignature") /\ Active(p)
      /\ overlapped' = overlapped /\ evicted' = evicted
    BY DEF EvictSignature, Active, At, Ended, history
<1>2. proc'[p].pc = "list" /\ \A q \in Procs \ {p} : proc'[q] = proc[q]
    BY GoToShape DEF EvictSignature, CacheInv
<1>3. proc[p].victim \in Ids
    BY <1>1 DEF CacheInv, TypeOK, StateOK, At
<1>4. /\ file' = [file EXCEPT ![f] = Absent]
      /\ writers' = [writers EXCEPT ![f] = {}]
      /\ DOMAIN file = Objects \cup Sigs /\ DOMAIN writers = Objects \cup Sigs
      /\ f \in Sigs
    BY <1>3, FileNames DEF EvictSignature, Remove, CacheInv, TypeOK, DiskOK
<1>5. Killed \subseteq Killed'
    BY <1>1, <1>2, KilledGrows DEF At
<1>6. \A q \in Procs \ {p} : Active(q) => overlapped
    BY <1>1, OthersNoticed
<1>7. evicted /\ (overlapped \/ ~Exists(Object(proc[p].victim)))
    BY <1>1 DEF Evicting, CacheInv
<1>8. Alone'
    BY <1>1, <1>2, AloneKept DEF CacheInv
<1>9. Evicting'
    BY <1>1, <1>2, <1>6, <1>7 DEF Evicting, At, Active, Ended
<1>10. WriterHolds'
    BY <1>1, <1>2, <1>6, <1>7 DEF WriterHolds, At, Active, Ended
<1>11. TruncatedHasWriter'
    <2> SUFFICES ASSUME NEW g \in Objects \cup Sigs, file'[g] = Partial, Killed = {}
                 PROVE  \E q \in writers'[g] : Writing(q, g)'
        BY <1>4, <1>5 DEF TruncatedHasWriter
    <2>1. g # f /\ file[g] = Partial
        BY <1>4
    <2>2. PICK q \in writers[g] : Writing(q, g)
        BY <1>4, <2>1 DEF TruncatedHasWriter, CacheInv
    <2>3. q \in Procs \ {p}
        BY <1>1, <2>2 DEF Writing, At, CacheInv, TypeOK, DiskOK
    <2> QED BY <1>2, <1>4, <2>1, <2>2, <2>3, OthersKeep
<1>12. OrphanHasCause'
    <2> SUFFICES ASSUME NEW j \in Ids, file'[Object(j)] \in Signed, file'[Sig(j)] = Absent,
                        Killed = {}, ~overlapped
                 PROVE  \E q \in Procs : proc'[q].pc \in {"writeObject", "openSignature"} /\ Id(q)' = j
        BY <1>1, <1>5, <1>7 DEF OrphanHasCause, Exists, Object, Sig
    <2>1. file[Object(j)] \in Signed
        BY <1>3, <1>4, FileNames
    <2>2. j # proc[p].victim
        BY <1>7, <2>1, NoKernel DEF Exists
    <2>3. ~Exists(Sig(j))
        BY <1>3, <1>4, <2>2, FileNames DEF Exists
    <2>4. PICK q \in Procs : proc[q].pc \in {"writeObject", "openSignature"} /\ Id(q) = j
        BY <2>1, <2>3 DEF OrphanHasCause, CacheInv
    <2> QED BY <1>1, <1>2, <2>4, OthersKeep DEF At
<1> QED BY <1>8, <1>9, <1>10, <1>11, <1>12 DEF CacheInv

LEMMA KillKeepsInv ==
    ASSUME CacheInv, NEW p \in Procs, Kill(p), TypeOK'
    PROVE  CacheInv'
<1>1. /\ Active(p) /\ file' = file /\ overlapped' = overlapped /\ evicted' = evicted
      /\ writers' = [f \in DOMAIN writers |-> writers[f] \ {p}]
    BY DEF Kill, history
<1>2. proc'[p].pc = "killed" /\ \A q \in Procs \ {p} : proc'[q] = proc[q]
    BY BecomePc, StoppedPc DEF Kill, CacheInv
<1>3. Killed' # {}
    BY <1>2 DEF Killed
<1>4. Alone'
    BY <1>1, <1>2, AloneKept DEF CacheInv
<1>5. Evicting'
    BY <1>1, <1>2 DEF Evicting, CacheInv, At, Exists, Object
<1>6. WriterHolds'
    <2> SUFFICES ASSUME NEW q \in Procs, At(q, "writeObject")', ~(evicted /\ overlapped)
                 PROVE  q \in writers'[Object(Id(q)')]
        BY <1>1 DEF WriterHolds, Object
    <2>1. q # p
        BY <1>2 DEF At
    <2>2. q \in writers[Object(Id(q))] /\ Id(q) \in Ids
        BY <1>2, <2>1, PipelineOK DEF WriterHolds, CacheInv, At, TypeOK, StateOK, Id, Kernel
    <2>3. Object(Id(q)) \in DOMAIN writers
        BY <2>2, FileNames DEF CacheInv, TypeOK, DiskOK
    <2> QED BY <1>1, <1>2, <2>1, <2>2, <2>3, OthersKeep
<1>7. TruncatedHasWriter' /\ OrphanHasCause'
    BY <1>3 DEF TruncatedHasWriter, OrphanHasCause
<1> QED BY <1>4, <1>5, <1>6, <1>7 DEF CacheInv

LEMMA UntouchedKeepsInv ==
    ASSUME CacheInv, UNCHANGED <<disk, proc, history>>, TypeOK'
    PROVE  CacheInv'
<1>1. /\ UNCHANGED <<file, writers, proc, overlapped, evicted>>
      /\ Killed' = Killed
    BY DEF disk, history, Killed
<1>2. \A q \in Procs : /\ Id(q)' = Id(q) /\ Active(q)' = Active(q)
                       /\ \A f : Writing(q, f)' = Writing(q, f)
    BY <1>1 DEF Id, Kernel, Active, Writing, At, Object, Sig
<1>3. Alone' /\ Evicting' /\ WriterHolds'
    BY <1>1, <1>2 DEF CacheInv, Alone, Evicting, WriterHolds, At, Exists, Object
<1>4. TruncatedHasWriter'
    BY <1>1, <1>2 DEF CacheInv, TruncatedHasWriter, TypeOK, DiskOK
<1>5. OrphanHasCause'
    BY <1>1, <1>2 DEF CacheInv, OrphanHasCause, Exists, Object, Sig
<1> QED BY <1>3, <1>4, <1>5 DEF CacheInv

\* The inductive invariant of the cache, for every run.
THEOREM CacheInvariant == Spec => []CacheInv
<1>1. Init => CacheInv
    <2> SUFFICES ASSUME Init, TypeOK PROVE Alone /\ Evicting /\ WriterHolds /\ TruncatedHasWriter /\ OrphanHasCause
        BY InitType DEF CacheInv
    <2>1. \A p \in Procs : proc[p].pc = "idle"
        BY StoppedPc DEF Init
    <2>2. Alone /\ Evicting /\ WriterHolds
        BY <2>1 DEF Alone, Evicting, WriterHolds, Active, At
    <2>3. TruncatedHasWriter
        BY DEF Init, TruncatedHasWriter
    <2>4. OrphanHasCause
        BY NoKernel, FileNames DEF Init, OrphanHasCause
    <2> QED BY <2>2, <2>3, <2>4
<1>2. CacheInv /\ TypeOK' /\ [Next]_vars => CacheInv'
    <2> SUFFICES ASSUME CacheInv, TypeOK', [Next]_vars PROVE CacheInv'
        OBVIOUS
    <2>1. CASE UNCHANGED vars
        BY <2>1, UntouchedKeepsInv DEF vars
    <2>2. CASE Tick
        BY <2>2, UntouchedKeepsInv DEF Tick
    <2>3. ASSUME NEW p \in Procs, Step(p) PROVE CacheInv'
        <3>1. CASE Quiet(p)
            BY <3>1, QuietKeepsInv
        <3> QED
            BY <2>3, <3>1, CompileAndOpenKeepsInv, WriteObjectKeepsInv, OpenSignatureKeepsInv,
               WriteSignatureKeepsInv, EvictObjectKeepsInv, EvictSignatureKeepsInv, KillKeepsInv
               DEF Step, Quiet
    <2> QED BY <2>1, <2>2, <2>3 DEF Next, Terminated
<1> QED BY <1>1, <1>2, CacheTypeCorrect, PTL DEF Spec

\* Whoever interferes, a truncated file has a writer that is about to complete
\* it, unless a process was killed (notifyObjectCompiled).
THEOREM TruncatedExplained == Spec => []TruncatedHasWriter
<1>1. CacheInv => TruncatedHasWriter
    BY DEF CacheInv
<1> QED BY <1>1, CacheInvariant, PTL

\* Whoever interferes, an object without its signature has one of the three
\* causes: a writer, a kill, or a clean-up that overlapped another run.
THEOREM OrphanExplained == Spec => []OrphanHasCause
<1>1. CacheInv => OrphanHasCause
    BY DEF CacheInv
<1> QED BY <1>1, CacheInvariant, PTL

-----------------------------------------------------------------------------
(* Runs that follow one another.                                           *)

\* An object is that of a kernel of its name.
ObjectsNamed == \A i \in Ids : file[Object(i)] \in Kernels => ModuleId[file[Object(i)]] = i

\* The clean-up of a process starts from nothing, and so does the process.
Fresh(p) ==
    /\ proc[p].pc \notin {"list", "evict", "evictSignature"} => proc[p].dated = {} /\ proc[p].kept = 0
    /\ At(p, "idle") => proc[p].cacheable = {}

\* A process that has read an object finds its files as they were.
Loading(p) ==
    /\ At(p, "signature") => Kernel(p) \in Signed
    /\ At(p, "signature") \/ At(p, "touch") =>
          Exists(Object(Id(p))) /\ proc[p].buffer = file[Object(Id(p))]
    /\ At(p, "touch") /\ Kernel(p) \in Signed => SameSignature(p)

\* An object that a process is to write has not been written by another.
Storing(p) ==
    At(p, "load") \/ At(p, "signature") \/ At(p, "touch") \/ At(p, "finalize")
        \/ At(p, "writeObject") \/ At(p, "openSignature") \/ At(p, "writeSignature") =>
        \A i \in proc[p].cacheable :
            \/ file[Object(ModuleId[Pipeline[p][i]])] \in {Absent, Pipeline[p][i]}
            \/ At(p, "writeObject") /\ ModuleId[Pipeline[p][i]] = Id(p)

\* The signature is written after the object.
Signing(p) ==
    At(p, "openSignature") \/ At(p, "writeSignature") =>
        Kernel(p) \in Signed /\ file[Object(Id(p))] = Kernel(p)

CleaningUp(p) == At(p, "list") \/ At(p, "evict") \/ At(p, "evictSignature")
Entry(i)      == <<mtime[i], i>>

\* The walk has come past an object and left it.
Left(p, i) ==
    /\ proc[p].todo = {} /\ proc[p].kept < SizeLimit
    /\ \A e \in proc[p].dated : Precedes(Entry(i), e)
    /\ At(p, "evict") => Precedes(Entry(i), Entry(proc[p].victim))

\* The objects of the directory are those yet to be dated, those yet to be walked,
\* those that are left, and the one to be removed.
Walk(p) ==
    /\ CleaningUp(p) =>
          /\ \A i \in proc[p].todo : Exists(Object(i))
          /\ \A e \in proc[p].dated :
                Exists(Object(e[2])) /\ e[1] = mtime[e[2]] /\ e[2] \notin proc[p].todo
          /\ \A i \in Ids : Exists(Object(i)) =>
                \/ i \in proc[p].todo \/ \E e \in proc[p].dated : e[2] = i
                \/ Left(p, i)
                \/ At(p, "evict") /\ i = proc[p].victim
    /\ At(p, "evict") \/ At(p, "evictSignature") =>
          proc[p].todo = {} /\ \A e \in proc[p].dated : e[2] # proc[p].victim
    /\ At(p, "evict") => ~Fits(p, FileSize(Object(proc[p].victim)))

\* An object that is complete is dated by its last use.
DatedByUse == \A i \in Ids : file[Object(i)] \in Kernels => mtime[i] = lastUse[i]

Undisturbed(p) == Loading(p) /\ Storing(p) /\ Signing(p) /\ Walk(p)

SoleInv ==
    /\ ObjectsNamed
    /\ \A p \in Procs : Fresh(p)
    /\ ~overlapped => DatedByUse /\ \A p \in Procs : Undisturbed(p)

\* A signature is that of the object, but for a process that is about to write it.
OwnSignature ==
    \A i \in Ids : file[Object(i)] \in Signed /\ file[Sig(i)] \in Signatures =>
        \/ file[Sig(i)] = Signature[file[Object(i)]]
        \/ \E p \in Procs : At(p, "openSignature") /\ Id(p) = i

\* A signature without an object was left by a process that was killed.
NoStraySignature ==
    \A i \in Ids : ~Exists(Object(i)) /\ Exists(Sig(i)) =>
        \/ Killed # {}
        \/ \E p \in Procs : At(p, "evictSignature") /\ proc[p].victim = i

\* It is there when an object is written only if a process was killed.
SignatureToWrite ==
    \A p \in Procs : At(p, "writeObject") \/ At(p, "openSignature") =>
        \/ Killed # {} \/ Kernel(p) \notin Signed
        \/ file[Sig(Id(p))] \notin Signatures \ {Signature[Kernel(p)]}

SignaturesAgree == OwnSignature /\ NoStraySignature /\ SignatureToWrite

KillsInv ==
    /\ IsFiniteSet(Killed)
    /\ ~overlapped /\ Cardinality(Killed) <= 1 =>
          SignaturesAgree
    /\ NoForeignObject

\* Nobody dies, or has read a truncated object.
NoneDies ==
    ~overlapped /\ Killed = {} =>
        \A p \in Procs : ~At(p, "dead") /\ \A i \in Ids : proc[p].loaded[i] # Partial

SequentialInv == SoleInv /\ KillsInv /\ NoneDies

\* Kernels of one name with one signature, or in one pipeline, are the same.
LEMMA OneKernel ==
    ASSUME NEW k \in Kernels, NEW l \in Kernels, ModuleId[k] = ModuleId[l]
    PROVE  k \notin Signed \/ l \notin Signed \/ Signature[k] = Signature[l] => k = l
BY KernelNames

LEMMA OneOfPipeline ==
    ASSUME NEW p \in Procs, NEW i \in DOMAIN Pipeline[p], NEW j \in DOMAIN Pipeline[p],
           ModuleId[Pipeline[p][i]] = ModuleId[Pipeline[p][j]]
    PROVE  Pipeline[p][i] = Pipeline[p][j]
BY KernelNames

\* What a process is doing, as far as the types say.
LEMMA StateTypes ==
    ASSUME TypeOK, NEW p \in Procs
    PROVE  /\ proc[p] \in States /\ StateOK(p, proc[p])
           /\ proc[p].at \in DOMAIN Pipeline[p] /\ proc[p].cacheable \subseteq DOMAIN Pipeline[p]
           /\ Kernel(p) \in Kernels /\ Id(p) \in Ids /\ ModuleId[Kernel(p)] = Id(p)
           /\ Object(Id(p)) \in Objects /\ Sig(Id(p)) \in Sigs
BY PipelineOK, FileNames DEF TypeOK, StateOK, Id, Kernel

\* Going on leaves what was loaded and what is to be written.
LEMMA OnwardFields ==
    ASSUME NEW p \in Procs, NEW s \in States
    PROVE  /\ Onward(p, s).pc \in {"load", "finalize"}
           /\ Onward(p, s).cacheable = s.cacheable /\ Onward(p, s).loaded = s.loaded
           /\ Onward(p, s).dated = s.dated /\ Onward(p, s).kept = s.kept
BY DEF Onward, States

-----------------------------------------------------------------------------
(* What a step leads to, by the label of the process after it.             *)

LEMMA UndisturbedStopped ==
    ASSUME NEW p \in Procs, proc'[p].pc \in Ended \cup {"idle"}
    PROVE  Undisturbed(p)'
BY DEF Undisturbed, Loading, Storing, Signing, Walk, CleaningUp, At, Ended

LEMMA UndisturbedAtLoad ==
    ASSUME NEW p \in Procs, proc'[p].pc \in {"load", "finalize"},
           \A i \in proc'[p].cacheable :
               file'[Object(ModuleId[Pipeline[p][i]])] \in {Absent, Pipeline[p][i]}
    PROVE  Undisturbed(p)'
BY DEF Undisturbed, Loading, Storing, Signing, Walk, CleaningUp, At

\* What a process is to write is there complete or not at all.
LEMMA StoringNow ==
    ASSUME NEW p \in Procs, Undisturbed(p),
           proc[p].pc \in {"load", "signature", "touch", "finalize", "openSignature", "writeSignature"}
    PROVE  \A i \in proc[p].cacheable :
               file[Object(ModuleId[Pipeline[p][i]])] \in {Absent, Pipeline[p][i]}
BY DEF Undisturbed, Storing, At

LEMMA UndisturbedStart ==
    ASSUME CacheInv, SoleInv, NEW p \in Procs, Start(p)
    PROVE  Undisturbed(p)'
<1>1. [proc[p] EXCEPT !.pc = "load"].pc = "load"
      /\ [proc[p] EXCEPT !.pc = "load"].cacheable = proc[p].cacheable
    BY DEF CacheInv, TypeOK, States
<1>2. proc'[p].pc = "load" /\ proc'[p].cacheable = {}
    BY <1>1, BecomePc DEF Start, GoTo, SoleInv, Fresh, CacheInv
<1> QED BY <1>2, UndisturbedAtLoad

LEMMA UndisturbedLoad ==
    ASSUME CacheInv, SoleInv, ~overlapped, NEW p \in Procs,
           SkipLoad(p) \/ Miss(p) \/ ReadObject(p) \/ ReadSignature(p)
    PROVE  Undisturbed(p)'
<1>1. /\ TypeOK /\ Undisturbed(p)
      /\ proc[p] \in States /\ proc[p].pc \in {"load", "signature"}
    BY StateTypes DEF CacheInv, SoleInv, SkipLoad, Miss, ReadObject, ReadSignature, At
<1>2. \A i \in proc[p].cacheable : file[Object(ModuleId[Pipeline[p][i]])] \in {Absent, Pipeline[p][i]}
    BY <1>1, StoringNow
<1>3. file' = file
    BY DEF SkipLoad, Miss, ReadObject, ReadSignature, Locally, disk
<1>4. ASSUME NEW s \in States, Locally(p, Onward(p, s)),
             \A i \in s.cacheable : file[Object(ModuleId[Pipeline[p][i]])] \in {Absent, Pipeline[p][i]}
      PROVE  Undisturbed(p)'
    <2>1. proc'[p] = Onward(p, s)
        BY <1>1, <1>4, BecomePc DEF Locally
    <2> QED BY <1>3, <1>4, <2>1, OnwardFields, UndisturbedAtLoad
<1>5. CASE SkipLoad(p)
    BY <1>1, <1>2, <1>4, <1>5 DEF SkipLoad
<1>6. CASE Miss(p)
    <2> DEFINE s == [proc[p] EXCEPT !.cacheable = @ \cup {proc[p].at}]
    <2>1. s \in States /\ s.cacheable = proc[p].cacheable \cup {proc[p].at}
        BY <1>1 DEF States
    <2>2. Locally(p, Onward(p, s)) /\ file[Object(Id(p))] = Absent
        BY <1>6 DEF Miss, Exists
    <2> HIDE DEF s
    <2> QED BY <1>2, <1>4, <2>1, <2>2 DEF Id, Kernel
<1>7. CASE ReadObject(p)
    <2> DEFINE s == [proc[p] EXCEPT !.buffer = file[Object(Id(p))],
                                    !.pc = IF Kernel(p) \in Signed THEN "signature" ELSE "touch"]
    <2>1. /\ s.buffer = file[Object(Id(p))] /\ s.at = proc[p].at /\ s.cacheable = proc[p].cacheable
          /\ s.pc = IF Kernel(p) \in Signed THEN "signature" ELSE "touch"
        BY <1>1 DEF States
    <2>2. Locally(p, s) /\ file[Object(Id(p))] # Absent
        BY <1>7 DEF ReadObject, Exists
    <2> HIDE DEF s
    <2>3. proc'[p] = s
        BY <1>1, <2>2, BecomePc DEF Locally
    <2>4. Id(p)' = Id(p) /\ Kernel(p)' = Kernel(p)
        BY <2>1, <2>3 DEF Id, Kernel
    <2>5. Loading(p)'
        BY <1>3, <2>1, <2>2, <2>3, <2>4 DEF Loading, At, Exists, Object
    <2>6. Storing(p)' /\ Signing(p)' /\ Walk(p)'
        BY <1>2, <1>3, <2>1, <2>3 DEF Storing, Signing, Walk, CleaningUp, At
    <2> QED BY <2>5, <2>6 DEF Undisturbed
<1>8. CASE ReadSignature(p)
    <2>1. CASE SameSignature(p)
        <3> DEFINE s == [proc[p] EXCEPT !.pc = "touch"]
        <3>1. /\ s.pc = "touch" /\ s.at = proc[p].at /\ s.cacheable = proc[p].cacheable
              /\ s.buffer = proc[p].buffer
            BY <1>1 DEF States
        <3>2. Locally(p, s)
            BY <1>8, <2>1 DEF ReadSignature
        <3> HIDE DEF s
        <3>3. proc'[p] = s
            BY <1>1, <3>2, BecomePc DEF Locally
        <3>4. Id(p)' = Id(p) /\ Kernel(p)' = Kernel(p)
            BY <3>1, <3>3 DEF Id, Kernel
        <3>5. Exists(Object(Id(p))) /\ proc[p].buffer = file[Object(Id(p))]
            BY <1>1, <1>8 DEF ReadSignature, Undisturbed, Loading
        <3>6. Loading(p)'
            BY <1>3, <2>1, <3>1, <3>3, <3>4, <3>5 DEF Loading, At, Exists, Object, SameSignature, Sig
        <3>7. Storing(p)' /\ Signing(p)' /\ Walk(p)'
            BY <1>2, <1>3, <3>1, <3>3 DEF Storing, Signing, Walk, CleaningUp, At
        <3> QED BY <3>6, <3>7 DEF Undisturbed
    <2>2. CASE ~SameSignature(p)
        <3> DEFINE s == [proc[p] EXCEPT !.buffer = Absent]
        <3>1. s \in States /\ s.cacheable = proc[p].cacheable
            BY <1>1 DEF States, Data
        <3>2. Locally(p, Onward(p, s))
            BY <1>8, <2>2 DEF ReadSignature
        <3> HIDE DEF s
        <3> QED BY <1>2, <1>4, <3>1, <3>2
    <2> QED BY <2>1, <2>2
<1> QED BY <1>5, <1>6, <1>7, <1>8

LEMMA UndisturbedTouch ==
    ASSUME CacheInv, SoleInv, ~overlapped, NEW p \in Procs, Touch(p)
    PROVE  Undisturbed(p)' /\ DatedByUse'
<1>1. /\ TypeOK /\ Undisturbed(p) /\ proc[p] \in States /\ proc[p].pc = "touch" /\ Id(p) \in Ids
    BY StateTypes DEF CacheInv, SoleInv, Touch, At
<1>2. \A i \in proc[p].cacheable : file[Object(ModuleId[Pipeline[p][i]])] \in {Absent, Pipeline[p][i]}
    BY <1>1, StoringNow
<1> DEFINE s == [proc[p] EXCEPT !.loaded[Id(p)] = proc[p].buffer, !.buffer = Absent]
<1>3. s \in States /\ s.cacheable = proc[p].cacheable
    BY <1>1 DEF States, Data
<1>4. Become(p, Onward(p, s)) /\ file' = file
    BY DEF Touch
<1> HIDE DEF s
<1>5. proc'[p] = Onward(p, s)
    BY <1>1, <1>4, BecomePc
<1>6. Undisturbed(p)'
    BY <1>2, <1>3, <1>4, <1>5, OnwardFields, UndisturbedAtLoad
<1>7. DatedByUse
    BY DEF SoleInv
<1>8. DatedByUse'
    BY <1>1, <1>4, <1>7 DEF DatedByUse, Touch, DatesAfterLoad, TypeOK, DiskOK, Object
<1> QED BY <1>6, <1>8

LEMMA UndisturbedFinalize ==
    ASSUME CacheInv, SoleInv, ~overlapped, NEW p \in Procs, UseCached(p) \/ CompileUncached(p)
    PROVE  Undisturbed(p)'
<1>1. /\ TypeOK /\ Undisturbed(p) /\ proc[p] \in States /\ proc[p].pc = "finalize"
    BY StateTypes DEF CacheInv, SoleInv, UseCached, CompileUncached, At
<1>2. PICK i \in proc[p].todo : Locally(p, Finalized(p, i))
    BY DEF UseCached, CompileUncached
<1>3. proc'[p] = Finalized(p, i) /\ file' = file
    BY <1>1, <1>2, BecomePc DEF Locally, disk
<1>4. proc'[p].pc = "finalize" /\ proc'[p].cacheable = proc[p].cacheable
    BY <1>1, <1>3 DEF Finalized, States
<1> QED BY <1>1, <1>3, <1>4, StoringNow, UndisturbedAtLoad

\* A step that changes the label only.
LEMMA GoToFields ==
    ASSUME TypeOK, NEW p \in Procs, NEW label, GoTo(p, label)
    PROVE  proc'[p] = [proc[p] EXCEPT !.pc = label] /\ proc'[p].pc = label
           /\ proc'[p].cacheable = proc[p].cacheable /\ proc'[p].todo = proc[p].todo
           /\ proc'[p].dated = proc[p].dated /\ proc'[p].kept = proc[p].kept
           /\ proc'[p].loaded = proc[p].loaded /\ proc'[p].victim = proc[p].victim
<1>1. proc'[p] = [proc[p] EXCEPT !.pc = label]
    BY BecomePc DEF GoTo
<1> QED BY <1>1 DEF TypeOK, States

LEMMA UndisturbedCompile ==
    ASSUME CacheInv, SoleInv, ~overlapped, NEW p \in Procs, CompileAndOpen(p)
    PROVE  Undisturbed(p)' /\ DatedByUse'
<1>1. /\ TypeOK /\ Undisturbed(p) /\ proc[p] \in States /\ proc[p].pc = "finalize" /\ DatedByUse
      /\ proc[p].cacheable \subseteq DOMAIN Pipeline[p]
    BY StateTypes DEF CacheInv, SoleInv, CompileAndOpen, At
<1>2. PICK i \in proc[p].todo \cap proc[p].cacheable :
            /\ Open(p, Object(ModuleId[Pipeline[p][i]]))
            /\ mtime' = [mtime EXCEPT ![ModuleId[Pipeline[p][i]]] = now]
            /\ Become(p, [Finalized(p, i) EXCEPT !.at = i, !.pc = "writeObject"])
    BY DEF CompileAndOpen
<1> DEFINE n == ModuleId[Pipeline[p][i]]
           s == [Finalized(p, i) EXCEPT !.at = i, !.pc = "writeObject"]
<1>3. s.pc = "writeObject" /\ s.at = i /\ s.cacheable = proc[p].cacheable
    BY <1>1 DEF Finalized, States
<1>4. proc'[p] = s
    BY <1>1, <1>2, BecomePc
<1>5. n \in Ids
    BY <1>1, <1>2, PipelineOK
<1>6. \A j \in Ids \ {n} : file'[Object(j)] = file[Object(j)] /\ mtime'[j] = mtime[j]
    BY <1>1, <1>2, <1>5, FileNames DEF Open, TypeOK, DiskOK
<1>7. file'[Object(n)] = Partial
    BY <1>1, <1>2, <1>5, FileNames DEF Open, TypeOK, DiskOK
<1> HIDE DEF s
<1>8. Id(p)' = n
    BY <1>3, <1>4 DEF Id, Kernel
<1>9. Storing(p)'
    <2> SUFFICES ASSUME NEW j \in proc[p].cacheable, ModuleId[Pipeline[p][j]] # n
                 PROVE  file'[Object(ModuleId[Pipeline[p][j]])] \in {Absent, Pipeline[p][j]}
        BY <1>3, <1>4, <1>8, Zenon DEF Storing, At
    <2>1. ModuleId[Pipeline[p][j]] \in Ids
        BY <1>1, PipelineOK
    <2> QED BY <1>1, <1>6, <2>1, StoringNow
<1>10. Loading(p)' /\ Signing(p)' /\ Walk(p)'
    BY <1>3, <1>4 DEF Loading, Signing, Walk, CleaningUp, At
<1>11. DatedByUse'
    <2> SUFFICES ASSUME NEW j \in Ids, file'[Object(j)] \in Kernels PROVE mtime'[j] = lastUse[j]
        BY DEF DatedByUse, CompileAndOpen, history, Object
    <2>1. j # n
        BY <1>7, NoKernel
    <2> QED BY <1>1, <1>6, <2>1 DEF DatedByUse
<1> QED BY <1>9, <1>10, <1>11 DEF Undisturbed

\* With the file open, what is written is there, and nothing else has changed.
LEMMA ObjectWritten ==
    ASSUME CacheInv, ~overlapped, NEW p \in Procs, WriteObject(p)
    PROVE  /\ \A j \in Ids \ {Id(p)} :
                 file'[Object(j)] = file[Object(j)] /\ mtime'[j] = mtime[j] /\ lastUse'[j] = lastUse[j]
           /\ file'[Object(Id(p))] = Kernel(p) /\ mtime'[Id(p)] = now /\ lastUse'[Id(p)] = now
           /\ \A j \in Ids : file'[Sig(j)] = file[Sig(j)]
<1>1. TypeOK /\ Id(p) \in Ids
    BY StateTypes DEF CacheInv
<1>2. p \in writers[Object(Id(p))]
    BY DEF CacheInv, WriterHolds, WriteObject
<1>3. /\ file' = [file EXCEPT ![Object(Id(p))] = Kernel(p)]
      /\ mtime' = [mtime EXCEPT ![Id(p)] = now] /\ lastUse' = [lastUse EXCEPT ![Id(p)] = now]
    BY <1>2 DEF WriteObject, WriteAndClose
<1> QED BY <1>1, <1>3, FileNames DEF TypeOK, DiskOK

LEMMA UndisturbedWriteObject ==
    ASSUME CacheInv, SoleInv, ~overlapped, NEW p \in Procs, WriteObject(p)
    PROVE  Undisturbed(p)' /\ DatedByUse'
<1>1. /\ TypeOK /\ Undisturbed(p) /\ proc[p] \in States /\ proc[p].pc = "writeObject" /\ DatedByUse
      /\ proc[p].cacheable \subseteq DOMAIN Pipeline[p] /\ Id(p) \in Ids
      /\ proc[p].at \in DOMAIN Pipeline[p]
    BY StateTypes DEF CacheInv, SoleInv, WriteObject, At
<1>2. /\ proc'[p].pc = AfterObject(p) /\ proc'[p].cacheable = proc[p].cacheable
      /\ Id(p)' = Id(p) /\ Kernel(p)' = Kernel(p)
    BY <1>1, GoToFields, GoToShape DEF WriteObject
<1>3. \A i \in proc[p].cacheable :
          file'[Object(ModuleId[Pipeline[p][i]])] \in {Absent, Pipeline[p][i]}
    <2> SUFFICES ASSUME NEW i \in proc[p].cacheable
                 PROVE  file'[Object(ModuleId[Pipeline[p][i]])] \in {Absent, Pipeline[p][i]}
        OBVIOUS
    <2>1. ModuleId[Pipeline[p][i]] \in Ids
        BY <1>1, PipelineOK
    <2>2. CASE ModuleId[Pipeline[p][i]] = Id(p)
        <3>1. Pipeline[p][i] = Kernel(p)
            BY <1>1, <2>2, OneOfPipeline DEF Id, Kernel
        <3> QED BY <2>2, <3>1, ObjectWritten
    <2>3. CASE ModuleId[Pipeline[p][i]] # Id(p)
        <3>1. file[Object(ModuleId[Pipeline[p][i]])] \in {Absent, Pipeline[p][i]}
            BY <1>1, <2>3 DEF Undisturbed, Storing, At
        <3> QED BY <2>1, <2>3, <3>1, ObjectWritten
    <2> QED BY <2>2, <2>3
<1>4. Undisturbed(p)'
    <2>1. CASE Kernel(p) \in Signed
        <3>1. proc'[p].pc = "openSignature"
            BY <1>2, <2>1 DEF AfterObject
        <3>2. Signing(p)'
            BY <1>2, <2>1, <3>1, ObjectWritten DEF Signing, Object
        <3>3. Loading(p)' /\ Storing(p)' /\ Walk(p)'
            BY <1>2, <1>3, <3>1 DEF Loading, Storing, Walk, CleaningUp, At
        <3> QED BY <3>2, <3>3 DEF Undisturbed
    <2>2. CASE Kernel(p) \notin Signed
        BY <1>2, <1>3, <2>2, UndisturbedAtLoad DEF AfterObject
    <2> QED BY <2>1, <2>2
<1>5. DatedByUse'
    <2> SUFFICES ASSUME NEW j \in Ids, file'[Object(j)] \in Kernels PROVE mtime'[j] = lastUse'[j]
        BY DEF DatedByUse, Object
    <2> QED BY <1>1, ObjectWritten DEF DatedByUse
<1> QED BY <1>4, <1>5

\* Writing a signature leaves the objects alone.
LEMMA UndisturbedSignature ==
    ASSUME CacheInv, SoleInv, ~overlapped, NEW p \in Procs, OpenSignature(p) \/ WriteSignature(p)
    PROVE  /\ Undisturbed(p)' /\ DatedByUse'
           /\ \A j \in Ids : file'[Object(j)] = file[Object(j)]
           /\ \A j \in Ids \ {Id(p)} : file'[Sig(j)] = file[Sig(j)]
<1>1. /\ TypeOK /\ Undisturbed(p) /\ proc[p].pc \in {"openSignature", "writeSignature"} /\ DatedByUse
      /\ proc[p].cacheable \subseteq DOMAIN Pipeline[p] /\ Id(p) \in Ids
    BY StateTypes DEF CacheInv, SoleInv, OpenSignature, WriteSignature, At
<1>2. \A j \in Ids : file'[Object(j)] = file[Object(j)]
    BY <1>1, FileNames DEF OpenSignature, WriteSignature, Open, WriteAndClose, TypeOK, DiskOK
<1>3. \A j \in Ids \ {Id(p)} : file'[Sig(j)] = file[Sig(j)]
    BY <1>1, FileNames DEF OpenSignature, WriteSignature, Open, WriteAndClose, TypeOK, DiskOK
<1>4. \A i \in proc[p].cacheable :
          file'[Object(ModuleId[Pipeline[p][i]])] \in {Absent, Pipeline[p][i]}
    <2> SUFFICES ASSUME NEW i \in proc[p].cacheable
                 PROVE  file'[Object(ModuleId[Pipeline[p][i]])] \in {Absent, Pipeline[p][i]}
        OBVIOUS
    <2>1. ModuleId[Pipeline[p][i]] \in Ids
        BY <1>1, PipelineOK
    <2>2. file[Object(ModuleId[Pipeline[p][i]])] \in {Absent, Pipeline[p][i]}
        BY <1>1, StoringNow
    <2> QED BY <1>2, <2>1, <2>2
<1>5. DatedByUse'
    BY <1>1, <1>2 DEF DatedByUse, OpenSignature, WriteSignature, history, Object
<1>6. CASE OpenSignature(p)
    <2>1. /\ proc'[p].pc = "writeSignature" /\ proc'[p].cacheable = proc[p].cacheable
          /\ Id(p)' = Id(p) /\ Kernel(p)' = Kernel(p)
        BY <1>1, <1>6, GoToFields, GoToShape DEF OpenSignature
    <2>2. Kernel(p) \in Signed /\ file[Object(Id(p))] = Kernel(p)
        BY <1>1, <1>6 DEF OpenSignature, Undisturbed, Signing
    <2>3. Signing(p)'
        BY <1>1, <1>2, <2>1, <2>2 DEF Signing, Object
    <2>4. Loading(p)' /\ Storing(p)' /\ Walk(p)'
        BY <1>4, <2>1 DEF Loading, Storing, Walk, CleaningUp, At
    <2> QED BY <1>2, <1>3, <1>5, <2>3, <2>4 DEF Undisturbed
<1>7. CASE WriteSignature(p)
    <2>1. proc'[p].pc = "finalize" /\ proc'[p].cacheable = proc[p].cacheable
        BY <1>1, <1>7, GoToFields DEF WriteSignature
    <2> QED BY <1>2, <1>3, <1>4, <1>5, <2>1, UndisturbedAtLoad
<1> QED BY <1>6, <1>7

LEMMA UndisturbedWalking ==
    ASSUME NEW p \in Procs, proc'[p].pc \in {"list", "evict", "evictSignature"}, Walk(p)'
    PROVE  Undisturbed(p)'
BY DEF Undisturbed, Loading, Storing, Signing, At

LEMMA UndisturbedList ==
    ASSUME CacheInv, SoleInv, NEW p \in Procs, List(p)
    PROVE  Undisturbed(p)'
<1> DEFINE s == [proc[p] EXCEPT !.todo = {i \in Ids : Exists(Object(i))}, !.pc = "list"]
<1>1. TypeOK /\ proc[p] \in States /\ proc[p].dated = {}
    BY StateTypes DEF CacheInv, SoleInv, Fresh, List, At
<1>2. s.pc = "list" /\ s.todo = {i \in Ids : Exists(Object(i))} /\ s.dated = {}
    BY <1>1 DEF States
<1>3. Locally(p, s)
    BY DEF List
<1> HIDE DEF s
<1>4. proc'[p] = s /\ file' = file
    BY <1>1, <1>3, BecomePc DEF Locally, disk
<1>5. Walk(p)'
    BY <1>2, <1>4 DEF Walk, CleaningUp, At, Exists, Object
<1> QED BY <1>2, <1>4, <1>5, UndisturbedWalking

\* The entries that have been dated are pairs of a date and a name.
LEMMA EntryTypes ==
    ASSUME TypeOK, NEW p \in Procs, NEW e \in proc[p].dated
    PROVE  /\ e = <<e[1], e[2]>> /\ e[1] \in 0 .. MaxTime /\ e[2] \in Ids
           /\ e[1] = mtime[e[2]] => e = Entry(e[2])
<1>1. e \in (0 .. MaxTime) \X Ids
    BY DEF TypeOK, States
<1> QED BY <1>1 DEF Entry

LEMMA UndisturbedDate ==
    ASSUME CacheInv, SoleInv, ~overlapped, NEW p \in Procs, Date(p)
    PROVE  Undisturbed(p)'
<1>1. /\ TypeOK /\ proc[p] \in States /\ proc[p].pc = "list" /\ Walk(p)
      /\ StateOK(p, proc[p])
    BY StateTypes DEF CacheInv, SoleInv, Undisturbed, Date, At
<1>2. PICK i \in proc[p].todo :
          Locally(p, [proc[p] EXCEPT
               !.todo = @ \ {i},
               !.dated = IF Exists(Object(i)) THEN @ \cup {<<mtime[i], i>>} ELSE @])
    BY DEF Date
<1>3. Exists(Object(i)) /\ i \in Ids
    BY <1>1, <1>2 DEF Walk, CleaningUp, At, StateOK
<1> DEFINE s == [proc[p] EXCEPT !.todo = @ \ {i}, !.dated = @ \cup {<<mtime[i], i>>}]
<1>4. Locally(p, s)
    BY <1>2, <1>3
<1>5. /\ s.pc = "list" /\ s.todo = proc[p].todo \ {i}
      /\ s.dated = proc[p].dated \cup {<<mtime[i], i>>}
    BY <1>1 DEF States
<1> HIDE DEF s
<1>6. proc'[p] = s /\ file' = file /\ mtime' = mtime
    BY <1>1, <1>4, BecomePc DEF Locally, disk
<1>7. /\ \A j \in proc[p].todo : Exists(Object(j))
      /\ \A e \in proc[p].dated :
            Exists(Object(e[2])) /\ e[1] = mtime[e[2]] /\ e[2] \notin proc[p].todo
      /\ \A j \in Ids : Exists(Object(j)) =>
            j \in proc[p].todo \/ \E e \in proc[p].dated : e[2] = j
    BY <1>1, <1>2 DEF Walk, CleaningUp, At, Left
<1>8. /\ \A j \in s.todo : Exists(Object(j))
      /\ \A e \in s.dated :
            Exists(Object(e[2])) /\ e[1] = mtime[e[2]] /\ e[2] \notin s.todo
      /\ \A j \in Ids : Exists(Object(j)) =>
            j \in s.todo \/ \E e \in s.dated : e[2] = j
    <2>1. \A e \in s.dated : e \in proc[p].dated \/ (e[1] = mtime[i] /\ e[2] = i)
        BY <1>5
    <2>2. \A e \in s.dated :
              Exists(Object(e[2])) /\ e[1] = mtime[e[2]] /\ e[2] \notin s.todo
        BY <1>3, <1>5, <1>7, <2>1
    <2>3. \A j \in Ids : Exists(Object(j)) =>
              j \in s.todo \/ \E e \in s.dated : e[2] = j
        <3> SUFFICES ASSUME NEW j \in Ids, Exists(Object(j)), j \notin s.todo
                     PROVE  \E e \in s.dated : e[2] = j
            OBVIOUS
        <3>1. CASE j = i
            <4>1. <<mtime[i], i>> \in s.dated /\ <<mtime[i], i>>[2] = j
                BY <1>5, <3>1
            <4> QED BY <4>1
        <3>2. CASE j # i
            BY <1>5, <1>7, <3>2
        <3> QED BY <3>1, <3>2
    <2> QED BY <1>5, <1>7, <2>2, <2>3
<1>9. Walk(p)'
    BY <1>5, <1>6, <1>8 DEF Walk, CleaningUp, At, Exists, Object
<1> QED BY <1>5, <1>6, <1>9, UndisturbedWalking

LEMMA UndisturbedMeasure ==
    ASSUME CacheInv, SoleInv, ~overlapped, NEW p \in Procs, Measure(p)
    PROVE  Undisturbed(p)'
<1>1. /\ TypeOK /\ proc[p] \in States /\ proc[p].pc = "list" /\ proc[p].todo = {} /\ Walk(p)
      /\ proc[p].kept \in 0 .. SizeLimit
    BY StateTypes DEF CacheInv, SoleInv, Undisturbed, Measure, Walking, At, States
<1>2. /\ \A e \in proc[p].dated : Exists(Object(e[2])) /\ e[1] = mtime[e[2]]
      /\ \A j \in Ids : Exists(Object(j)) =>
            (\E e \in proc[p].dated : e[2] = j) \/ Left(p, j)
    BY <1>1 DEF Walk, CleaningUp, At
<1> DEFINE size(e) == FileSize(Object(e[2]))
           rest(e) == [proc[p] EXCEPT !.dated = @ \ {e}]
           fits(e) == [rest(e) EXCEPT !.kept = @ + size(e)]
           goes(e) == [rest(e) EXCEPT !.victim = e[2], !.pc = "evict"]
           s(e)    == IF ~Exists(Object(e[2])) THEN rest(e)
                      ELSE IF Fits(p, size(e)) THEN fits(e) ELSE goes(e)
<1>3. PICK e \in proc[p].dated : IsLatest(p, e) /\ Locally(p, s(e))
    BY Zenon DEF Measure
<1>4. /\ e[2] \in Ids /\ e = Entry(e[2]) /\ Exists(Object(e[2])) /\ e[1] = mtime[e[2]]
    BY <1>1, <1>2, EntryTypes
<1>5. /\ rest(e).pc = "list" /\ rest(e).todo = {} /\ rest(e).dated = proc[p].dated \ {e}
      /\ rest(e) \in States /\ rest(e).kept = proc[p].kept
    BY <1>1 DEF States
<1>6. /\ fits(e).pc = "list" /\ fits(e).todo = {} /\ fits(e).dated = proc[p].dated \ {e}
      /\ fits(e).kept = proc[p].kept + size(e)
    <2> HIDE DEF rest, size
    <2> QED BY <1>5 DEF States
<1>7. /\ goes(e).pc = "evict" /\ goes(e).todo = {} /\ goes(e).dated = proc[p].dated \ {e}
      /\ goes(e).kept = proc[p].kept /\ goes(e).victim = e[2]
    <2> HIDE DEF rest, size
    <2> QED BY <1>5 DEF States
<1>8. \A f \in proc[p].dated \ {e} : f[2] # e[2]
    <2> SUFFICES ASSUME NEW f \in proc[p].dated, f[2] = e[2] PROVE f = e
        OBVIOUS
    <2> QED BY <1>1, <1>2, <1>4, EntryTypes
<1>9. \A f \in proc[p].dated \ {e} : Precedes(Entry(e[2]), f)
    BY <1>3, <1>4 DEF IsLatest
<1>10. file' = file /\ mtime' = mtime
    BY <1>3 DEF Locally, disk
<1>11. CASE Fits(p, size(e))
    <2>1. Locally(p, fits(e))
        BY <1>3, <1>4, <1>11
    <2>2. proc[p].kept + size(e) < SizeLimit
        BY <1>11 DEF Fits
    <2> HIDE DEF size, fits, rest
    <2>3. proc'[p] = fits(e)
        BY <1>1, <2>1, BecomePc DEF Locally
    <2>4. \A j \in Ids : Left(p, j) => Left(p, j)'
        BY <1>6, <1>10, <2>2, <2>3 DEF Left, At, Entry
    <2>5. Left(p, e[2])'
        BY <1>6, <1>9, <1>10, <2>2, <2>3 DEF Left, At, Entry
    <2>6. \A j \in Ids : Exists(Object(j)) =>
              (\E f \in proc'[p].dated : f[2] = j) \/ Left(p, j)'
        <3> SUFFICES ASSUME NEW j \in Ids, Exists(Object(j)), ~Left(p, j)'
                     PROVE  \E f \in proc'[p].dated : f[2] = j
            OBVIOUS
        <3>1. PICK f \in proc[p].dated : f[2] = j
            BY <1>2, <2>4
        <3>2. f # e
            BY <2>5, <3>1
        <3> QED BY <1>6, <2>3, <3>1, <3>2
    <2>7. Walk(p)'
        BY <1>2, <1>6, <1>10, <2>3, <2>6 DEF Walk, CleaningUp, At, Exists, Object
    <2> QED BY <1>6, <2>3, <2>7, UndisturbedWalking
<1>12. CASE ~Fits(p, size(e))
    <2>1. Locally(p, goes(e))
        BY <1>3, <1>4, <1>12
    <2>2. ~(proc[p].kept + FileSize(Object(e[2])) < SizeLimit)
        BY <1>12 DEF Fits
    <2> HIDE DEF size, goes, rest
    <2>3. proc'[p] = goes(e)
        BY <1>1, <2>1, BecomePc DEF Locally
    <2>4. \A j \in Ids : Left(p, j) => Left(p, j)'
        BY <1>4, <1>7, <1>10, <2>3 DEF Left, At, Entry
    <2>5. \A j \in Ids : Exists(Object(j)) =>
              (\E f \in proc'[p].dated : f[2] = j) \/ Left(p, j)' \/ j = proc'[p].victim
        <3> SUFFICES ASSUME NEW j \in Ids, Exists(Object(j)), ~Left(p, j)', j # e[2]
                     PROVE  \E f \in proc'[p].dated : f[2] = j
            BY <1>7, <2>3
        <3>1. PICK f \in proc[p].dated : f[2] = j
            BY <1>2, <2>4
        <3> QED BY <1>7, <2>3, <3>1
    <2>6. ~Fits(p, FileSize(Object(proc[p].victim)))'
        BY <1>7, <1>10, <2>2, <2>3 DEF Fits, FileSize, Object
    <2>7. Walk(p)'
        BY <1>2, <1>7, <1>8, <1>10, <2>3, <2>5, <2>6 DEF Walk, CleaningUp, At, Exists, Object
    <2> QED BY <1>7, <2>3, <2>7, UndisturbedWalking
<1> QED BY <1>11, <1>12

LEMMA UndisturbedEvictObject ==
    ASSUME CacheInv, SoleInv, ~overlapped, NEW p \in Procs, EvictObject(p)
    PROVE  Undisturbed(p)' /\ DatedByUse'
<1> DEFINE v == proc[p].victim
<1>1. /\ TypeOK /\ proc[p] \in States /\ proc[p].pc = "evict" /\ Walk(p) /\ DatedByUse
      /\ v \in Ids
    BY StateTypes DEF CacheInv, SoleInv, Undisturbed, EvictObject, At, StateOK
<1>2. /\ proc'[p].pc = "evictSignature" /\ proc'[p].todo = proc[p].todo /\ proc'[p].victim = v
      /\ proc'[p].dated = proc[p].dated /\ proc'[p].kept = proc[p].kept
    BY <1>1, GoToFields DEF EvictObject
<1>3. mtime' = mtime /\ lastUse' = lastUse
    BY DEF EvictObject
<1>4. \A j \in Ids : file'[Object(j)] = IF j = v THEN Absent ELSE file[Object(j)]
    BY <1>1, FileNames DEF EvictObject, Remove, TypeOK, DiskOK
<1>5. \A e \in proc[p].dated : e[2] \in Ids /\ e[2] # v
    BY <1>1, EntryTypes DEF Walk, At
<1>6. \A j \in Ids : Left(p, j) => Left(p, j)'
    BY <1>2, <1>3 DEF Left, At, Entry
<1>7. \A j \in Ids : Exists(Object(j))' =>
          (\E e \in proc[p].dated : e[2] = j) \/ Left(p, j)'
    <2> SUFFICES ASSUME NEW j \in Ids, file'[Object(j)] # Absent
                 PROVE  (\E e \in proc[p].dated : e[2] = j) \/ Left(p, j)'
        BY DEF Exists, Object
    <2>1. j # v /\ Exists(Object(j))
        BY <1>4 DEF Exists
    <2> QED BY <1>1, <1>6, <2>1 DEF Walk, CleaningUp, At
<1>8. \A e \in proc[p].dated : Exists(Object(e[2]))' /\ e[1] = mtime[e[2]]
    BY <1>1, <1>4, <1>5 DEF Walk, CleaningUp, At, Exists, Object
<1>9. proc[p].todo = {}
    BY <1>1 DEF Walk, At
<1>10. Walk(p)'
    BY <1>2, <1>3, <1>5, <1>7, <1>8, <1>9 DEF Walk, CleaningUp, At
<1>11. DatedByUse'
    BY <1>1, <1>3, <1>4, NoKernel DEF DatedByUse, Object
<1> QED BY <1>2, <1>10, <1>11, UndisturbedWalking

LEMMA UndisturbedEvictSignature ==
    ASSUME CacheInv, SoleInv, ~overlapped, NEW p \in Procs, EvictSignature(p)
    PROVE  Undisturbed(p)' /\ DatedByUse'
<1>1. /\ TypeOK /\ proc[p] \in States /\ proc[p].pc = "evictSignature" /\ Walk(p) /\ DatedByUse
      /\ proc[p].victim \in Ids
    BY StateTypes DEF CacheInv, SoleInv, Undisturbed, EvictSignature, At, StateOK
<1>2. /\ proc'[p].pc = "list" /\ proc'[p].todo = proc[p].todo
      /\ proc'[p].dated = proc[p].dated /\ proc'[p].kept = proc[p].kept
    BY <1>1, GoToFields DEF EvictSignature
<1>3. mtime' = mtime /\ lastUse' = lastUse
    BY DEF EvictSignature, history
<1>4. \A j \in Ids : file'[Object(j)] = file[Object(j)]
    BY <1>1, FileNames DEF EvictSignature, Remove, TypeOK, DiskOK
<1>5. \A j \in Ids : Left(p, j) => Left(p, j)'
    BY <1>2, <1>3 DEF Left, At, Entry
<1>6. \A j \in Ids : Exists(Object(j))' = Exists(Object(j))
    BY <1>4 DEF Exists, Object
<1>7. \A e \in proc[p].dated : e[2] \in Ids
    BY <1>1, EntryTypes
<1>8. Walk(p)'
    BY <1>1, <1>2, <1>3, <1>5, <1>6, <1>7 DEF Walk, CleaningUp, At
<1>9. DatedByUse'
    BY <1>1, <1>3, <1>4 DEF DatedByUse, Object
<1> QED BY <1>2, <1>8, <1>9, UndisturbedWalking

-----------------------------------------------------------------------------
(* One step of any process.                                                *)

LEMMA StoppedFields ==
    ASSUME NEW label
    PROVE  /\ Stopped(label).pc = label /\ Stopped(label).cacheable = {}
           /\ Stopped(label).dated = {} /\ Stopped(label).kept = 0
           /\ Stopped(label).loaded = [i \in Ids |-> Absent]
BY DEF Stopped

\* A step is of one process, and if it leaves runs apart no other is active.
LEMMA StepShape ==
    ASSUME CacheInv, NEW p \in Procs, Step(p)
    PROVE  /\ \A q \in Procs \ {p} : proc'[q] = proc[q]
           /\ ~overlapped' => ~overlapped /\ \A q \in Procs \ {p} : proc[q].pc \in Ended \cup {"idle"}
<1>1. TypeOK
    BY DEF CacheInv
<1>2. CASE Quiet(p)
    <2>1. /\ \A q \in Procs \ {p} : proc'[q] = proc[q]
          /\ Start(p) \/ (overlapped' = overlapped /\ Active(p))
        BY <1>1, <1>2, QuietShape DEF Active
    <2>2. Start(p) => overlapped' = (overlapped \/ \E q \in Procs : Active(q)) /\ overlapped \in BOOLEAN
        BY <1>1 DEF Start, TypeOK
    <2>3. CASE Start(p)
        BY <2>1, <2>2, <2>3 DEF Active
    <2>4. CASE ~Start(p)
        <3>1. overlapped' = overlapped /\ Active(p)
            BY <2>1, <2>4
        <3> QED BY <2>1, <3>1, OthersNoticed DEF Active
    <2> QED BY <2>3, <2>4
<1>3. CASE CompileAndOpen(p)
    <2>1. PICK s : Become(p, s)
        BY <1>3 DEF CompileAndOpen
    <2>2. overlapped' = overlapped /\ Active(p)
        BY <1>3 DEF CompileAndOpen, history, Active, At, Ended
    <2> QED BY <1>1, <2>1, <2>2, BecomePc, OthersNoticed DEF Active
<1>4. CASE WriteObject(p) \/ OpenSignature(p) \/ WriteSignature(p) \/ EvictObject(p) \/ EvictSignature(p)
    <2>1. PICK s : Become(p, s)
        BY <1>4 DEF WriteObject, OpenSignature, WriteSignature, EvictObject, EvictSignature, GoTo
    <2>2. overlapped' = overlapped /\ Active(p)
        BY <1>4 DEF WriteObject, OpenSignature, WriteSignature, EvictObject, EvictSignature,
                    history, Active, At, Ended
    <2> QED BY <1>1, <2>1, <2>2, BecomePc, OthersNoticed DEF Active
<1>5. CASE Kill(p)
    BY <1>1, <1>5, BecomePc, OthersNoticed DEF Kill, history, Active
<1> QED BY <1>2, <1>3, <1>4, <1>5 DEF Step, Quiet

\* The steps of a process that is not there afterwards, and those of the others:
\* only one of them changes what was loaded.
Died(p) == NoSignature(p) \/ TouchGone(p) \/ UseTruncated(p) \/ DateGone(p) \/ MeasureGone(p)
Ends(p) == Died(p) \/ Finish(p) \/ Kill(p)

LEMMA EndFields ==
    ASSUME TypeOK, NEW p \in Procs, Ends(p)
    PROVE  /\ proc'[p].pc = IF Died(p) THEN "dead" ELSE IF Finish(p) THEN "done" ELSE "killed"
           /\ proc'[p].dated = {} /\ proc'[p].kept = 0 /\ proc'[p].loaded = [i \in Ids |-> Absent]
<1>1. ASSUME NEW label, Become(p, Stopped(label))
      PROVE  /\ proc'[p].pc = label
             /\ proc'[p].dated = {} /\ proc'[p].kept = 0 /\ proc'[p].loaded = [i \in Ids |-> Absent]
    BY <1>1, StoppedFields, BecomePc
<1>2. CASE Died(p)
    BY <1>1, <1>2 DEF Died, NoSignature, TouchGone, UseTruncated, DateGone, MeasureGone, Die, Locally
<1>3. CASE ~Died(p) /\ Finish(p)
    BY <1>1, <1>3 DEF Finish, Locally
<1>4. CASE ~Died(p) /\ ~Finish(p)
    BY <1>1, <1>4 DEF Ends, Kill
<1> QED BY <1>2, <1>3, <1>4

LEMMA StepFields ==
    ASSUME CacheInv, NEW p \in Procs, Fresh(p), Step(p), ~Ends(p)
    PROVE  /\ \/ proc'[p].pc \in {"list", "evict", "evictSignature"}
              \/ proc'[p].pc # "idle" /\ proc'[p].dated = {} /\ proc'[p].kept = 0
           /\ proc[p].pc # "killed" /\ proc'[p].pc \notin {"killed", "dead"}
           /\ proc'[p].loaded = IF Touch(p) THEN [proc[p].loaded EXCEPT ![Id(p)] = proc[p].buffer]
                                ELSE proc[p].loaded
<1> DEFINE Walks == {"list", "evict", "evictSignature"}
           Moved(s) == /\ s.pc \in Walks \/ (s.pc # "idle" /\ s.dated = {} /\ s.kept = 0)
                       /\ s.pc \notin {"killed", "dead"} /\ s.loaded = proc[p].loaded
<1>1. TypeOK /\ proc[p] \in States /\ proc[p].at \in DOMAIN Pipeline[p] /\ Id(p) \in Ids
    BY StateTypes DEF CacheInv
<1>2. proc[p].pc # "killed"
    <2>1. Quiet(p) => proc[p].pc # "killed"
        BY <1>1, QuietShape DEF Ended
    <2> QED BY <2>1 DEF Step, Quiet, Ends, Died, At, CompileAndOpen, WriteObject, OpenSignature,
                        WriteSignature, EvictObject, EvictSignature
<1>3. ASSUME NEW s, Become(p, s), Moved(s) PROVE Moved(proc'[p])
    BY <1>1, <1>3, BecomePc
<1>4. ASSUME NEW s \in States, Become(p, Onward(p, s)), s.dated = {}, s.kept = 0
      PROVE  /\ proc'[p].pc \notin {"idle", "killed", "dead"} /\ proc'[p].dated = {} /\ proc'[p].kept = 0
             /\ proc'[p].loaded = s.loaded
    BY <1>1, <1>4, OnwardFields, BecomePc
<1>5. proc[p].pc \notin Walks => proc[p].dated = {} /\ proc[p].kept = 0
    BY DEF Fresh
<1>6. CASE Touch(p)
    <2> DEFINE s == [proc[p] EXCEPT !.loaded[Id(p)] = proc[p].buffer, !.buffer = Absent]
    <2>1. /\ s \in States /\ s.dated = {} /\ s.kept = 0
          /\ s.loaded = [proc[p].loaded EXCEPT ![Id(p)] = proc[p].buffer]
        BY <1>1, <1>5, <1>6 DEF States, Data, Touch, At
    <2>2. Become(p, Onward(p, s))
        BY <1>6 DEF Touch
    <2> HIDE DEF s
    <2> QED BY <1>2, <1>4, <1>6, <2>1, <2>2
<1>7. ASSUME ~Touch(p) PROVE Moved(proc'[p])
    <2>1. ASSUME NEW label, label \in Walks \/ (label # "idle" /\ proc[p].pc \notin Walks),
                 label \notin {"killed", "dead"}, GoTo(p, label)
          PROVE  Moved(proc'[p])
        <3>1. /\ proc'[p].pc = label /\ proc'[p].dated = proc[p].dated
              /\ proc'[p].kept = proc[p].kept /\ proc'[p].loaded = proc[p].loaded
            BY <1>1, <2>1, GoToFields
        <3> QED BY <1>5, <2>1, <3>1
    <2>2. CASE \/ Start(p) \/ WriteObject(p) \/ OpenSignature(p) \/ WriteSignature(p)
               \/ EvictObject(p) \/ EvictSignature(p)
        BY <2>1, <2>2 DEF Start, WriteObject, OpenSignature, WriteSignature, EvictObject, EvictSignature,
                          At, AfterObject
    <2>3. CASE SkipLoad(p)
        BY <1>1, <1>4, <1>5, <2>3 DEF SkipLoad, At, Locally
    <2>4. CASE Miss(p)
        <3> DEFINE s == [proc[p] EXCEPT !.cacheable = @ \cup {proc[p].at}]
        <3>1. s \in States /\ s.dated = {} /\ s.kept = 0 /\ s.loaded = proc[p].loaded
            BY <1>1, <1>5, <2>4, PipelineOK DEF States, Miss, At
        <3>2. Become(p, Onward(p, s))
            BY <2>4 DEF Miss, Locally
        <3> HIDE DEF s
        <3> QED BY <1>4, <3>1, <3>2
    <2>5. CASE ReadObject(p)
        <3> DEFINE s == [proc[p] EXCEPT !.buffer = file[Object(Id(p))],
                                        !.pc = IF Kernel(p) \in Signed THEN "signature" ELSE "touch"]
        <3>1. Moved(s)
            BY <1>1, <1>5, <2>5 DEF States, ReadObject, At
        <3>2. Become(p, s)
            BY <2>5 DEF ReadObject, Locally
        <3> HIDE DEF s, Moved
        <3> QED BY <1>3, <3>1, <3>2
    <2>6. CASE ReadSignature(p)
        <3> DEFINE s == [proc[p] EXCEPT !.buffer = Absent]
                   r == [proc[p] EXCEPT !.pc = "touch"]
        <3>1. s \in States /\ s.dated = {} /\ s.kept = 0 /\ s.loaded = proc[p].loaded /\ Moved(r)
            BY <1>1, <1>5, <2>6 DEF States, Data, ReadSignature, At
        <3>2. Become(p, Onward(p, s)) \/ Become(p, r)
            BY <2>6 DEF ReadSignature, Locally
        <3> HIDE DEF s, r
        <3> QED BY <1>3, <1>4, <3>1, <3>2
    <2>7. CASE UseCached(p) \/ CompileUncached(p)
        <3>1. PICK i \in proc[p].todo : Locally(p, Finalized(p, i)) /\ proc[p].pc = "finalize"
            BY <2>7 DEF UseCached, CompileUncached, At
        <3>2. Moved(Finalized(p, i))
            BY <1>1, <1>5, <3>1 DEF Finalized, States
        <3> HIDE DEF Moved
        <3> QED BY <1>3, <3>1, <3>2 DEF Locally
    <2>8. CASE CompileAndOpen(p)
        <3>1. PICK i \in proc[p].todo :
                  Become(p, [Finalized(p, i) EXCEPT !.at = i, !.pc = "writeObject"]) /\ proc[p].pc = "finalize"
            BY <2>8 DEF CompileAndOpen, At
        <3> DEFINE s == [Finalized(p, i) EXCEPT !.at = i, !.pc = "writeObject"]
        <3>2. Moved(s)
            BY <1>1, <1>5, <3>1 DEF Finalized, States
        <3> HIDE DEF Moved
        <3> QED BY <1>3, <3>1, <3>2
    <2>9. CASE List(p)
        <3> DEFINE s == [proc[p] EXCEPT !.todo = {i \in Ids : Exists(Object(i))}, !.pc = "list"]
        <3>1. Moved(s)
            BY <1>1 DEF States
        <3>2. Become(p, s)
            BY <2>9 DEF List, Locally
        <3> HIDE DEF s, Moved
        <3> QED BY <1>3, <3>1, <3>2
    <2>10. CASE Date(p)
        <3> DEFINE s(i) == [proc[p] EXCEPT
                   !.todo = @ \ {i},
                   !.dated = IF Exists(Object(i)) THEN @ \cup {<<mtime[i], i>>} ELSE @]
        <3> PICK i \in proc[p].todo : Become(p, s(i)) /\ proc[p].pc = "list"
            BY <2>10 DEF Date, Locally, At
        <3>1. Moved(s(i))
            BY <1>1 DEF States
        <3> HIDE DEF s, Moved
        <3> QED BY <1>3, <3>1
    <2>11. CASE Measure(p)
        <3> DEFINE size(e) == FileSize(Object(e[2]))
                   rest(e) == [proc[p] EXCEPT !.dated = @ \ {e}]
                   s(e)    == IF ~Exists(Object(e[2])) THEN rest(e)
                              ELSE IF Fits(p, size(e)) THEN [rest(e) EXCEPT !.kept = @ + size(e)]
                              ELSE [rest(e) EXCEPT !.victim = e[2], !.pc = "evict"]
        <3>1. PICK e \in proc[p].dated : Locally(p, s(e))
            BY <2>11, Zenon DEF Measure
        <3>2. Moved(s(e))
            BY <1>1, <2>11 DEF States, Measure, Walking, At
        <3> HIDE DEF s, Moved
        <3> QED BY <1>3, <3>1, <3>2 DEF Locally
    <2> HIDE DEF Moved
    <2> QED BY <1>7, <2>2, <2>3, <2>4, <2>5, <2>6, <2>7, <2>8, <2>9, <2>10, <2>11 DEF Step, Ends, Died
<1> QED BY <1>2, <1>6, <1>7

LEMMA FreshKept ==
    ASSUME CacheInv, \A q \in Procs : Fresh(q), NEW p \in Procs, Step(p)
    PROVE  \A q \in Procs : Fresh(q)'
<1>1. \A q \in Procs \ {p} : Fresh(q)'
    BY StepShape DEF Fresh, At
<1>2. CASE Ends(p)
    BY <1>1, <1>2, EndFields DEF Fresh, At, CacheInv
<1>3. CASE ~Ends(p)
    BY <1>1, <1>3, StepFields DEF Fresh, At
<1> QED BY <1>2, <1>3

LEMMA NamedKept ==
    ASSUME CacheInv, ObjectsNamed, NEW p \in Procs, Step(p)
    PROVE  ObjectsNamed'
<1>1. TypeOK /\ Id(p) \in Ids /\ Kernel(p) \in Kernels /\ ModuleId[Kernel(p)] = Id(p)
      /\ Sig(Id(p)) \in Sigs /\ Object(Id(p)) \in Objects
    BY StateTypes DEF CacheInv
<1>2. SUFFICES ASSUME NEW i \in Ids, file'[Object(i)] # file[Object(i)], file'[Object(i)] \in Kernels
               PROVE  ModuleId[file'[Object(i)]] = i
    BY DEF ObjectsNamed, Object
<1>3. file' # file /\ file'[Object(i)] \notin {Absent, Partial}
    BY <1>2, NoKernel
<1>4. \A f \in Objects \cup Sigs : (Open(p, f) \/ Remove(f)) => file'[Object(i)] \in {Absent, Partial, file[Object(i)]}
    BY <1>1, FileNames DEF Open, Remove, TypeOK, DiskOK
<1>5. CASE Quiet(p) \/ Kill(p)
    BY <1>1, <1>3, <1>5, QuietShape DEF Kill
<1>6. CASE CompileAndOpen(p)
    <2>1. PICK j \in proc[p].todo \cap proc[p].cacheable : Open(p, Object(ModuleId[Pipeline[p][j]]))
        BY <1>6 DEF CompileAndOpen
    <2>2. Object(ModuleId[Pipeline[p][j]]) \in Objects
        BY <1>1, <2>1, PipelineOK, FileNames, StateTypes
    <2> QED BY <1>2, <1>3, <1>4, <2>1, <2>2
<1>7. CASE OpenSignature(p)
    BY <1>1, <1>2, <1>3, <1>4, <1>7 DEF OpenSignature
<1>8. CASE EvictObject(p) \/ EvictSignature(p)
    <2>1. proc[p].victim \in Ids
        BY <1>1, <1>8 DEF EvictObject, EvictSignature, TypeOK, StateOK, At
    <2> QED BY <1>2, <1>3, <1>4, <1>8, <2>1, FileNames DEF EvictObject, EvictSignature
<1>9. CASE WriteSignature(p)
    BY <1>1, <1>2, <1>9, FileNames DEF WriteSignature, WriteAndClose, TypeOK, DiskOK
<1>10. CASE WriteObject(p)
    BY <1>1, <1>2, <1>10, FileNames DEF WriteObject, WriteAndClose, TypeOK, DiskOK
<1> QED BY <1>5, <1>6, <1>7, <1>8, <1>9, <1>10 DEF Step, Quiet

LEMMA StepKeepsSole ==
    ASSUME CacheInv, SoleInv, NEW p \in Procs, Step(p)
    PROVE  SoleInv'
<1>1. ObjectsNamed' /\ \A q \in Procs : Fresh(q)'
    BY FreshKept, NamedKept DEF SoleInv
<1>2. SUFFICES ASSUME ~overlapped' PROVE DatedByUse' /\ Undisturbed(p)'
    <2>1. ~overlapped' => \A q \in Procs \ {p} : Undisturbed(q)'
        BY StepShape, UndisturbedStopped
    <2> QED BY <1>1, <1>2, <2>1 DEF SoleInv
<1>3. ~overlapped
    BY <1>2, StepShape
<1>4. TypeOK
    BY DEF CacheInv
<1>5. ASSUME UNCHANGED <<file, mtime, lastUse>> PROVE DatedByUse'
    BY <1>3, <1>5 DEF SoleInv, DatedByUse, Object
<1>6. CASE Start(p)
    BY <1>5, <1>6, UndisturbedStart DEF Start, disk
<1>7. CASE SkipLoad(p) \/ Miss(p) \/ ReadObject(p) \/ ReadSignature(p)
    <2>1. UNCHANGED <<file, mtime, lastUse>>
        BY <1>7 DEF SkipLoad, Miss, ReadObject, ReadSignature, Locally, disk, history
    <2> QED BY <1>3, <1>5, <1>7, <2>1, UndisturbedLoad
<1>8. CASE UseCached(p) \/ CompileUncached(p)
    <2>1. UNCHANGED <<file, mtime, lastUse>>
        BY <1>8 DEF UseCached, CompileUncached, Locally, disk, history
    <2> QED BY <1>3, <1>5, <1>8, <2>1, UndisturbedFinalize
<1>9. CASE List(p) \/ Date(p) \/ Measure(p)
    <2>1. UNCHANGED <<file, mtime, lastUse>>
        BY <1>9 DEF List, Date, Measure, Locally, disk, history
    <2> QED BY <1>3, <1>5, <1>9, <2>1, UndisturbedList, UndisturbedDate, UndisturbedMeasure
<1>10. ASSUME NEW label \in Ended, Become(p, Stopped(label)) PROVE Undisturbed(p)'
    BY <1>4, <1>10, BecomePc, StoppedFields, UndisturbedStopped
<1>11. CASE NoSignature(p) \/ TouchGone(p) \/ UseTruncated(p) \/ DateGone(p) \/ MeasureGone(p)
    <2>1. Locally(p, Stopped("dead"))
        BY <1>11 DEF NoSignature, TouchGone, UseTruncated, DateGone, MeasureGone, Die
    <2> QED BY <1>5, <1>10, <2>1 DEF Locally, disk, history, Ended
<1>12. CASE Finish(p)
    BY <1>5, <1>10, <1>12 DEF Finish, Locally, disk, history, Ended
<1>13. CASE Kill(p)
    BY <1>5, <1>10, <1>13 DEF Kill, history, Ended
<1> QED
    BY <1>3, <1>6, <1>7, <1>8, <1>9, <1>11, <1>12, <1>13, UndisturbedTouch, UndisturbedCompile,
       UndisturbedWriteObject, UndisturbedSignature, UndisturbedEvictObject, UndisturbedEvictSignature
       DEF Step

-----------------------------------------------------------------------------
(* Signatures, when at most one process was killed.                        *)

LEMMA KilledAfter ==
    ASSUME CacheInv, SoleInv, NEW p \in Procs, Step(p), IsFiniteSet(Killed)
    PROVE  /\ IsFiniteSet(Killed') /\ Killed \subseteq Killed'
           /\ Cardinality(Killed') <= 1 => Cardinality(Killed) <= 1
           /\ Kill(p) /\ Cardinality(Killed') <= 1 => Killed = {}
<1>1. TypeOK /\ \A q \in Procs \ {p} : proc'[q] = proc[q]
    BY StepShape DEF CacheInv
<1>2. CASE Kill(p)
    <2>1. Killed' = Killed \cup {p} /\ p \notin Killed
        BY <1>1, <1>2, BecomePc, StoppedFields DEF Killed, Kill, Active, Ended
    <2>2. /\ IsFiniteSet(Killed') /\ Cardinality(Killed') = Cardinality(Killed) + 1
          /\ Cardinality(Killed) \in Nat
        BY <2>1, FS_AddElement, FS_CardinalityType
    <2> QED BY <2>1, <2>2, FS_EmptySet
<1>3. CASE ~Kill(p)
    <2>1. proc[p].pc # "killed" /\ proc'[p].pc # "killed"
        <3>1. CASE Ends(p)
            <4>1. Died(p) \/ Finish(p)
                BY <1>3, <3>1 DEF Ends
            <4>2. proc[p].pc # "killed"
                BY <1>1, <4>1, QuietShape DEF Died, Quiet, Ended
            <4> QED BY <1>1, <3>1, <4>1, <4>2, EndFields
        <3>2. CASE ~Ends(p)
            BY <3>2, StepFields DEF SoleInv
        <3> QED BY <3>1, <3>2
    <2>2. Killed' = Killed
        BY <1>1, <2>1 DEF Killed
    <2> QED BY <1>3, <2>2
<1> QED BY <1>2, <1>3

LEMMA QuietKeepsSignatures ==
    ASSUME CacheInv, SignaturesAgree, NEW p \in Procs, Quiet(p), Killed \subseteq Killed'
    PROVE  SignaturesAgree'
<1>1. /\ file' = file
      /\ proc[p].pc \notin FileLabels \cup Ended /\ proc'[p].pc \notin FileLabels
      /\ \A q \in Procs \ {p} : proc'[q] = proc[q]
    BY QuietShape DEF CacheInv
<1>2. \A q \in Procs : proc[q].pc \in FileLabels \/ proc'[q].pc \in FileLabels =>
          /\ proc'[q] = proc[q] /\ Id(q)' = Id(q) /\ Kernel(q)' = Kernel(q)
    BY <1>1, OthersKeep
<1>3. OwnSignature'
    BY <1>1, <1>2 DEF SignaturesAgree, OwnSignature, FileLabels, At, Object, Sig
<1>4. NoStraySignature'
    BY <1>1, <1>2 DEF SignaturesAgree, NoStraySignature, FileLabels, At, Exists, Object, Sig
<1>5. SignatureToWrite'
    BY <1>1, <1>2 DEF SignaturesAgree, SignatureToWrite, FileLabels, At, Sig
<1> QED BY <1>3, <1>4, <1>5 DEF SignaturesAgree

\* What changes when a process that is alone writes or removes files.
LEMMA AloneKeepsSignatures ==
    ASSUME CacheInv, SoleInv, SignaturesAgree, ~overlapped, NEW p \in Procs, Killed' = Killed,
           proc[p].pc \in FileLabels \cup {"finalize", "evict"}, NEW n \in Ids,
           \A q \in Procs \ {p} : proc'[q] = proc[q] /\ proc[q].pc \in Ended \cup {"idle"},
           \A j \in Ids \ {n} : file'[Object(j)] = file[Object(j)] /\ file'[Sig(j)] = file[Sig(j)],
           proc[p].pc \in {"openSignature"} => Id(p) = n,
           proc[p].pc = "evictSignature" => proc[p].victim = n,
           file'[Object(n)] \in Signed /\ file'[Sig(n)] \in Signatures =>
               file'[Sig(n)] = Signature[file'[Object(n)]] \/ (proc'[p].pc = "openSignature" /\ Id(p)' = n),
           file'[Object(n)] = Absent /\ file'[Sig(n)] # Absent =>
               Killed # {} \/ (proc'[p].pc = "evictSignature" /\ proc'[p].victim = n),
           proc'[p].pc \in {"writeObject", "openSignature"} =>
               \/ Killed # {} \/ Kernel(p)' \notin Signed
               \/ file'[Sig(Id(p)')] \notin Signatures \ {Signature[Kernel(p)']}
    PROVE  SignaturesAgree'
<1>1. OwnSignature'
    <2> SUFFICES ASSUME NEW i \in Ids, file'[Object(i)] \in Signed, file'[Sig(i)] \in Signatures,
                        file'[Sig(i)] # Signature[file'[Object(i)]]
                 PROVE  \E q \in Procs : At(q, "openSignature")' /\ Id(q)' = i
        BY DEF OwnSignature, Object, Sig
    <2>1. CASE i = n
        BY <2>1 DEF At
    <2>2. CASE i # n
        <3>1. PICK q \in Procs : At(q, "openSignature") /\ Id(q) = i
            BY <2>2 DEF SignaturesAgree, OwnSignature
        <3> QED BY <2>2, <3>1 DEF At, Ended
    <2> QED BY <2>1, <2>2
<1>2. NoStraySignature'
    <2> SUFFICES ASSUME NEW i \in Ids, file'[Object(i)] = Absent, file'[Sig(i)] # Absent, Killed = {}
                 PROVE  \E q \in Procs : At(q, "evictSignature")' /\ proc'[q].victim = i
        BY DEF NoStraySignature, Exists, Object, Sig
    <2>1. CASE i = n
        BY <2>1 DEF At
    <2>2. CASE i # n
        <3>1. PICK q \in Procs : At(q, "evictSignature") /\ proc[q].victim = i
            BY <2>2 DEF SignaturesAgree, NoStraySignature, Exists
        <3> QED BY <2>2, <3>1 DEF At, Ended
    <2> QED BY <2>1, <2>2
<1>3. SignatureToWrite'
    <2> SUFFICES ASSUME NEW q \in Procs, proc'[q].pc \in {"writeObject", "openSignature"}
                 PROVE  \/ Killed # {} \/ Kernel(q)' \notin Signed
                        \/ file'[Sig(Id(q)')] \notin Signatures \ {Signature[Kernel(q)']}
        BY DEF SignatureToWrite, At, Sig
    <2>1. q = p
        BY DEF Ended
    <2> QED BY <2>1
<1> QED BY <1>1, <1>2, <1>3 DEF SignaturesAgree

LEMMA StepKeepsSignatures ==
    ASSUME CacheInv, SoleInv, SignaturesAgree, IsFiniteSet(Killed), NEW p \in Procs, Step(p),
           ~overlapped', Cardinality(Killed') <= 1
    PROVE  SignaturesAgree'
<1> USE DEF FileLabels
<1>1. /\ TypeOK /\ ~overlapped /\ Undisturbed(p) /\ Killed \subseteq Killed'
      /\ \A q \in Procs \ {p} : proc'[q] = proc[q] /\ proc[q].pc \in Ended \cup {"idle"}
    BY StepShape, KilledAfter DEF CacheInv, SoleInv
<1>2. /\ proc[p] \in States /\ Id(p) \in Ids /\ Kernel(p) \in Kernels
      /\ proc[p].cacheable \subseteq DOMAIN Pipeline[p]
    BY <1>1, StateTypes
<1>3. CASE Quiet(p)
    BY <1>1, <1>3, QuietKeepsSignatures
<1>4. CASE Kill(p)
    <2>1. Killed = {} /\ p \in Killed'
        <3>1. Killed = {}
            BY <1>4, KilledAfter
        <3>2. proc'[p].pc = "killed"
            BY <1>1, <1>4, BecomePc, StoppedFields DEF Kill
        <3> QED BY <3>1, <3>2 DEF Killed
    <2>2. file' = file
        BY <1>4 DEF Kill
    <2>3. OwnSignature'
        <3> SUFFICES ASSUME NEW i \in Ids, file[Object(i)] \in Signed, file[Sig(i)] \in Signatures
                     PROVE  file[Sig(i)] = Signature[file[Object(i)]]
            BY <2>2 DEF OwnSignature, Object, Sig
        <3>1. CASE \E q \in Procs : At(q, "openSignature") /\ Id(q) = i
            <4>1. At(p, "openSignature") /\ Id(p) = i
                BY <1>1, <3>1 DEF At, Ended
            <4>2. file[Object(i)] = Kernel(p)
                BY <1>1, <4>1 DEF Undisturbed, Signing
            <4> QED BY <2>1, <4>1, <4>2 DEF SignaturesAgree, SignatureToWrite
        <3> QED BY <3>1 DEF SignaturesAgree, OwnSignature
    <2> QED BY <2>1, <2>3 DEF SignaturesAgree, NoStraySignature, SignatureToWrite
<1>5. ASSUME ~Quiet(p), ~Kill(p) PROVE Killed' = Killed
    <2>1. ~Ends(p)
        BY <1>5 DEF Ends, Died, Quiet
    <2>2. proc[p].pc # "killed" /\ proc'[p].pc # "killed"
        BY <2>1, StepFields DEF SoleInv
    <2> QED BY <1>1, <2>2 DEF Killed
<1>6. CASE CompileAndOpen(p) /\ ~Quiet(p) /\ ~Kill(p)
    <2>1. PICK i \in proc[p].todo \cap proc[p].cacheable :
              /\ Open(p, Object(ModuleId[Pipeline[p][i]]))
              /\ Become(p, [Finalized(p, i) EXCEPT !.at = i, !.pc = "writeObject"])
        BY <1>6 DEF CompileAndOpen
    <2> DEFINE k == Pipeline[p][i]
               n == ModuleId[k]
               s == [Finalized(p, i) EXCEPT !.at = i, !.pc = "writeObject"]
    <2>2. n \in Ids /\ k \in Kernels /\ proc[p].pc = "finalize"
        BY <1>2, <1>6, <2>1, PipelineOK DEF CompileAndOpen, At
    <2>3. s.pc = "writeObject" /\ s.at = i
        BY <1>2 DEF Finalized, States
    <2>4. proc'[p] = s
        BY <1>1, <2>1, BecomePc
    <2> HIDE DEF s
    <2>5. Id(p)' = n /\ Kernel(p)' = k /\ proc'[p].pc = "writeObject"
        BY <2>3, <2>4 DEF Id, Kernel
    <2>6. /\ file'[Object(n)] = Partial
          /\ \A j \in Ids \ {n} : file'[Object(j)] = file[Object(j)]
          /\ \A j \in Ids : file'[Sig(j)] = file[Sig(j)]
        BY <1>1, <2>1, <2>2, FileNames DEF Open, TypeOK, DiskOK
    <2>7. Killed # {} \/ k \notin Signed \/ file[Sig(n)] \notin Signatures \ {Signature[k]}
        <3> SUFFICES ASSUME Killed = {}, k \in Signed, file[Sig(n)] \in Signatures
                     PROVE  file[Sig(n)] = Signature[k]
            OBVIOUS
        <3>1. file[Object(n)] \in {Absent, k}
            BY <1>1, <2>1, <2>2, StoringNow
        <3>2. CASE file[Object(n)] = Absent
            <4>1. Exists(Sig(n))
                BY NoKernel DEF Exists
            <4>2. \E q \in Procs : At(q, "evictSignature") /\ proc[q].victim = n
                BY <2>2, <3>2, <4>1 DEF SignaturesAgree, NoStraySignature, Exists
            <4> QED BY <1>1, <2>2, <4>2 DEF At, Ended
        <3>3. CASE file[Object(n)] = k
            BY <1>1, <2>2, <3>3 DEF SignaturesAgree, OwnSignature, At, Ended
        <3> QED BY <3>1, <3>2, <3>3
    <2> HIDE DEF n, k
    <2> QED
        BY <1>1, <1>5, <1>6, <2>2, <2>5, <2>6, <2>7, NoKernel, AloneKeepsSignatures
<1>7. CASE WriteObject(p) /\ ~Quiet(p) /\ ~Kill(p)
    <2>1. /\ proc[p].pc = "writeObject" /\ proc'[p].pc = AfterObject(p)
          /\ Id(p)' = Id(p) /\ Kernel(p)' = Kernel(p)
        BY <1>1, <1>7, GoToFields, GoToShape DEF WriteObject, At
    <2>2. /\ \A j \in Ids \ {Id(p)} : file'[Object(j)] = file[Object(j)]
          /\ file'[Object(Id(p))] = Kernel(p)
          /\ \A j \in Ids : file'[Sig(j)] = file[Sig(j)]
        BY <1>1, <1>7, ObjectWritten
    <2>3. Kernel(p) \in Signed => proc'[p].pc = "openSignature"
        BY <2>1 DEF AfterObject
    <2>4. \/ Killed # {} \/ Kernel(p) \notin Signed
          \/ file[Sig(Id(p))] \notin Signatures \ {Signature[Kernel(p)]}
        BY <2>1 DEF SignaturesAgree, SignatureToWrite, At
    <2> QED
        BY <1>1, <1>2, <1>5, <1>7, <2>1, <2>2, <2>3, <2>4, NoKernel, AloneKeepsSignatures
<1>8. CASE OpenSignature(p) /\ ~Quiet(p) /\ ~Kill(p)
    <2>1. proc[p].pc = "openSignature" /\ proc'[p].pc = "writeSignature"
        BY <1>1, <1>8, GoToFields DEF OpenSignature, At
    <2>2. /\ \A j \in Ids : file'[Object(j)] = file[Object(j)]
          /\ \A j \in Ids \ {Id(p)} : file'[Sig(j)] = file[Sig(j)]
        BY <1>1, <1>8, UndisturbedSignature
    <2>3. file'[Sig(Id(p))] = Partial
        BY <1>1, <1>2, <1>8, FileNames DEF OpenSignature, Open, TypeOK, DiskOK
    <2>4. file[Object(Id(p))] = Kernel(p)
        BY <1>1, <2>1 DEF Undisturbed, Signing, At
    <2> QED
        BY <1>1, <1>2, <1>5, <1>8, <2>1, <2>2, <2>3, <2>4, NoKernel, AloneKeepsSignatures
<1>9. CASE WriteSignature(p) /\ ~Quiet(p) /\ ~Kill(p)
    <2>1. proc[p].pc = "writeSignature" /\ proc'[p].pc = "finalize"
        BY <1>1, <1>9, GoToFields DEF WriteSignature, At
    <2>2. /\ \A j \in Ids : file'[Object(j)] = file[Object(j)]
          /\ \A j \in Ids \ {Id(p)} : file'[Sig(j)] = file[Sig(j)]
        BY <1>1, <1>9, UndisturbedSignature
    <2>3. file'[Sig(Id(p))] \in {file[Sig(Id(p))], Signature[Kernel(p)]}
        BY <1>1, <1>2, <1>9, FileNames DEF WriteSignature, WriteAndClose, TypeOK, DiskOK
    <2>4. file[Object(Id(p))] = Kernel(p)
        BY <1>1, <2>1 DEF Undisturbed, Signing, At
    <2>5. file[Sig(Id(p))] \in Signatures /\ Kernel(p) \in Signed => file[Sig(Id(p))] = Signature[Kernel(p)]
        BY <1>1, <1>2, <2>1, <2>4 DEF SignaturesAgree, OwnSignature, At, Ended
    <2> QED
        BY <1>1, <1>2, <1>5, <1>9, <2>1, <2>2, <2>3, <2>4, <2>5, NoKernel, AloneKeepsSignatures
<1>10. CASE EvictObject(p) /\ ~Quiet(p) /\ ~Kill(p)
    <2>1. /\ proc[p].pc = "evict" /\ proc'[p].pc = "evictSignature"
          /\ proc'[p].victim = proc[p].victim /\ proc[p].victim \in Ids
        <3>1. At(p, "evict") /\ GoTo(p, "evictSignature")
            BY <1>10 DEF EvictObject
        <3>2. proc[p].victim \in Ids
            BY <1>1, <3>1 DEF TypeOK, StateOK, At
        <3> QED BY <1>1, <3>1, <3>2, GoToFields DEF At
    <2>2. /\ file'[Object(proc[p].victim)] = Absent
          /\ \A j \in Ids \ {proc[p].victim} : file'[Object(j)] = file[Object(j)]
          /\ \A j \in Ids : file'[Sig(j)] = file[Sig(j)]
        BY <1>1, <1>10, <2>1, FileNames DEF EvictObject, Remove, TypeOK, DiskOK
    <2> QED
        BY <1>1, <1>5, <1>10, <2>1, <2>2, NoKernel, AloneKeepsSignatures
<1>11. CASE EvictSignature(p) /\ ~Quiet(p) /\ ~Kill(p)
    <2>1. proc[p].pc = "evictSignature" /\ proc'[p].pc = "list" /\ proc[p].victim \in Ids
        <3>1. At(p, "evictSignature") /\ GoTo(p, "list")
            BY <1>11 DEF EvictSignature
        <3>2. proc[p].victim \in Ids
            BY <1>1, <3>1 DEF TypeOK, StateOK, At
        <3> QED BY <1>1, <3>1, <3>2, GoToFields DEF At
    <2>2. /\ file'[Sig(proc[p].victim)] = Absent
          /\ \A j \in Ids \ {proc[p].victim} : file'[Sig(j)] = file[Sig(j)]
          /\ \A j \in Ids : file'[Object(j)] = file[Object(j)]
        BY <1>1, <1>11, <2>1, FileNames DEF EvictSignature, Remove, TypeOK, DiskOK
    <2> QED
        BY <1>1, <1>5, <1>11, <2>1, <2>2, NoKernel, AloneKeepsSignatures
<1> QED
    BY <1>3, <1>4, <1>6, <1>7, <1>8, <1>9, <1>10, <1>11 DEF Step, Quiet

-----------------------------------------------------------------------------
(* What is loaded, and who dies.                                           *)

\* What a process that was alone has read is the object of its kernel.
LEMMA ReadIsOwn ==
    ASSUME CacheInv, SoleInv, SignaturesAgree, ~overlapped, NEW p \in Procs, At(p, "touch")
    PROVE  proc[p].buffer \in {Partial, Kernel(p)}
<1>1. /\ TypeOK /\ Undisturbed(p) /\ Id(p) \in Ids /\ Kernel(p) \in Kernels
      /\ ModuleId[Kernel(p)] = Id(p)
    BY StateTypes DEF CacheInv, SoleInv
<1>2. proc[p].buffer = file[Object(Id(p))] /\ file[Object(Id(p))] # Absent
    BY <1>1 DEF Undisturbed, Loading, Exists
<1>3. SUFFICES ASSUME file[Object(Id(p))] \in Kernels PROVE file[Object(Id(p))] = Kernel(p)
    BY <1>1, <1>2 DEF TypeOK, DiskOK, Data
<1>4. ModuleId[file[Object(Id(p))]] = ModuleId[Kernel(p)]
    BY <1>1, <1>3 DEF SoleInv, ObjectsNamed
<1>5. CASE file[Object(Id(p))] \in Signed /\ Kernel(p) \in Signed
    <2>1. file[Sig(Id(p))] = Signature[Kernel(p)]
        BY <1>1, <1>5 DEF Undisturbed, Loading, SameSignature
    <2>2. ~\E q \in Procs : At(q, "openSignature")
        BY OthersNoticed DEF Active, At, Ended
    <2>3. Signature[Kernel(p)] = Signature[file[Object(Id(p))]]
        BY <1>1, <1>5, <2>1, <2>2 DEF SignaturesAgree, OwnSignature, Signatures
    <2> QED BY <1>1, <1>3, <1>4, <2>3, OneKernel
<1> QED BY <1>1, <1>3, <1>4, <1>5, OneKernel

LEMMA StepKeepsLoaded ==
    ASSUME CacheInv, SoleInv, KillsInv, NEW p \in Procs, Step(p), TypeOK'
    PROVE  NoForeignObject'
<1> SUFFICES ASSUME ~overlapped', Cardinality(Killed') <= 1, NEW q \in Procs, NEW i \in DOMAIN Pipeline[q]
             PROVE  proc'[q].loaded[ModuleId[Pipeline[q][i]]] \in {Absent, Partial, Pipeline[q][i]}
    BY DEF NoForeignObject, Loaded
<1>1. /\ TypeOK /\ ~overlapped /\ IsFiniteSet(Killed) /\ Cardinality(Killed) <= 1
      /\ \A r \in Procs \ {p} : proc'[r] = proc[r]
    BY StepShape, KilledAfter DEF CacheInv, KillsInv
<1>2. /\ proc[q].loaded[ModuleId[Pipeline[q][i]]] \in {Absent, Partial, Pipeline[q][i]}
      /\ ModuleId[Pipeline[q][i]] \in Ids
    BY <1>1, PipelineOK DEF KillsInv, NoForeignObject, Loaded
<1>3. CASE q # p
    BY <1>1, <1>2, <1>3
<1>4. CASE q = p /\ Ends(p)
    BY <1>1, <1>2, <1>4, EndFields
<1>5. CASE q = p /\ ~Ends(p) /\ ~Touch(p)
    BY <1>2, <1>5, StepFields DEF SoleInv
<1>6. CASE q = p /\ ~Ends(p) /\ Touch(p)
    <2>1. proc'[p].loaded = [proc[p].loaded EXCEPT ![Id(p)] = proc[p].buffer]
        BY <1>6, StepFields DEF SoleInv
    <2>2. proc[p].buffer \in {Partial, Kernel(p)}
        BY <1>1, <1>6, ReadIsOwn DEF KillsInv, Touch
    <2>3. CASE ModuleId[Pipeline[p][i]] = Id(p)
        <3>1. proc[p].at \in DOMAIN Pipeline[p] /\ proc[p].loaded \in [Ids -> Data]
            BY <1>1, StateTypes DEF States
        <3>2. Pipeline[p][i] = Kernel(p)
            BY <1>6, <2>3, <3>1, OneOfPipeline DEF Id, Kernel
        <3> QED BY <1>2, <1>6, <2>1, <2>2, <2>3, <3>1, <3>2
    <2>4. CASE ModuleId[Pipeline[p][i]] # Id(p)
        <3>1. proc[p].loaded \in [Ids -> Data]
            BY <1>1, StateTypes DEF States
        <3> QED BY <1>2, <1>6, <2>1, <2>4, <3>1
    <2> QED BY <2>3, <2>4
<1> QED BY <1>3, <1>4, <1>5, <1>6

\* A process that is alone finds no truncated object if nobody was killed, unless
\* it is writing it.
LEMMA NoneTruncated ==
    ASSUME CacheInv, ~overlapped, Killed = {}, NEW p \in Procs, Active(p), ~At(p, "writeObject"),
           NEW i \in Ids
    PROVE  file[Object(i)] # Partial
<1> SUFFICES ASSUME file[Object(i)] = Partial PROVE FALSE
    OBVIOUS
<1>1. PICK q \in writers[Object(i)] : Writing(q, Object(i))
    BY FileNames DEF CacheInv, TruncatedHasWriter, TypeOK, DiskOK
<1>2. q \in Procs /\ At(q, "writeObject")
    BY <1>1, FileNames, StateTypes DEF Writing, CacheInv, TypeOK, DiskOK
<1> QED BY <1>2, OthersNoticed DEF Active, At, Ended

LEMMA NobodyDies ==
    ASSUME CacheInv, SoleInv, NoneDies, ~overlapped, Killed = {}, NEW p \in Procs
    PROVE  ~Died(p)
<1> SUFFICES ASSUME Died(p) PROVE FALSE
    OBVIOUS
<1>1. /\ TypeOK /\ Undisturbed(p) /\ proc[p] \in States /\ StateOK(p, proc[p])
      /\ Id(p) \in Ids /\ Kernel(p) \in Kernels /\ ModuleId[Kernel(p)] = Id(p)
    BY StateTypes DEF CacheInv, SoleInv
<1>2. CASE NoSignature(p)
    <2>1. /\ Kernel(p) \in Signed /\ Exists(Object(Id(p))) /\ ~Exists(Sig(Id(p))) /\ Active(p)
          /\ ~At(p, "writeObject")
        BY <1>1, <1>2 DEF NoSignature, Undisturbed, Loading, Active, At, Ended
    <2>2. file[Object(Id(p))] \in Kernels
        BY <1>1, <2>1, NoneTruncated DEF Exists, TypeOK, DiskOK, Data
    <2>3. ModuleId[file[Object(Id(p))]] = ModuleId[Kernel(p)]
        BY <1>1, <2>2 DEF SoleInv, ObjectsNamed
    <2>4. file[Object(Id(p))] \in Signed
        BY <1>1, <2>1, <2>2, <2>3, OneKernel
    <2>5. PICK q \in Procs : proc[q].pc \in {"writeObject", "openSignature"}
        BY <1>1, <2>1, <2>4 DEF CacheInv, OrphanHasCause
    <2> QED BY <1>2, <2>1, <2>5, OthersNoticed DEF NoSignature, Active, At, Ended
<1>3. CASE TouchGone(p)
    <2>1. At(p, "touch") /\ ~Exists(Touched(p))
        BY <1>3 DEF TouchGone
    <2>2. Exists(Object(Id(p))) /\ (Kernel(p) \in Signed => SameSignature(p))
        BY <1>1, <2>1 DEF Undisturbed, Loading
    <2>3. Kernel(p) \in Signed => Exists(Sig(Id(p)))
        BY <1>1, <2>2, NoKernel DEF SameSignature, Exists, Signatures
    <2> QED BY <2>1, <2>2, <2>3 DEF Touched
<1>4. CASE UseTruncated(p)
    <2>1. PICK i \in proc[p].todo : Loaded(p, i) = Partial
        BY <1>4 DEF UseTruncated
    <2>2. ModuleId[Pipeline[p][i]] \in Ids
        BY <1>1, <1>4, <2>1, PipelineOK DEF UseTruncated, At, StateOK
    <2> QED BY <2>1, <2>2 DEF Loaded, NoneDies
<1>5. CASE DateGone(p)
    BY <1>1, <1>5 DEF DateGone, Undisturbed, Walk, CleaningUp
<1>6. CASE MeasureGone(p)
    BY <1>1, <1>6 DEF MeasureGone, Walking, Undisturbed, Walk, CleaningUp
<1> QED BY <1>2, <1>3, <1>4, <1>5, <1>6 DEF Died

LEMMA StepKeepsAlive ==
    ASSUME CacheInv, SoleInv, KillsInv, NoneDies, NEW p \in Procs, Step(p)
    PROVE  NoneDies'
<1> SUFFICES ASSUME ~overlapped', Killed' = {}, NEW q \in Procs
             PROVE  proc'[q].pc # "dead" /\ \A i \in Ids : proc'[q].loaded[i] # Partial
    BY DEF NoneDies, At
<1>1. /\ TypeOK /\ ~overlapped /\ Killed = {} /\ \A r \in Procs \ {p} : proc'[r] = proc[r]
    BY StepShape, KilledAfter DEF CacheInv, KillsInv
<1>2. proc[q].pc # "dead" /\ \A i \in Ids : proc[q].loaded[i] # Partial
    BY <1>1 DEF NoneDies, At
<1>3. CASE q # p
    BY <1>1, <1>2, <1>3
<1>4. CASE q = p /\ Ends(p)
    BY <1>1, <1>4, EndFields, NobodyDies
<1>5. CASE q = p /\ ~Ends(p) /\ ~Touch(p)
    BY <1>2, <1>5, StepFields DEF SoleInv
<1>6. CASE q = p /\ ~Ends(p) /\ Touch(p)
    <2>1. /\ proc'[p].loaded = [proc[p].loaded EXCEPT ![Id(p)] = proc[p].buffer]
          /\ proc'[p].pc # "dead"
        BY <1>6, StepFields DEF SoleInv
    <2>2. Undisturbed(p) /\ Id(p) \in Ids /\ proc[p].loaded \in [Ids -> Data]
        BY <1>1, StateTypes DEF SoleInv, States
    <2>3. proc[p].buffer # Partial
        BY <1>1, <1>6, <2>2, NoneTruncated DEF Touch, Undisturbed, Loading, Active, At, Ended
    <2> QED BY <1>2, <1>6, <2>1, <2>2, <2>3
<1> QED BY <1>3, <1>4, <1>5, <1>6

\* Time passes, or all have ended.
LEMMA UntouchedKeepsSequential ==
    ASSUME CacheInv, SequentialInv, UNCHANGED <<disk, proc, history>>
    PROVE  SequentialInv'
<1>1. UNCHANGED <<file, writers, mtime, proc, overlapped, evicted, lastUse>> /\ Killed' = Killed
    BY DEF disk, history, Killed
<1>2. \A q \in Procs : /\ Id(q)' = Id(q) /\ Kernel(q)' = Kernel(q)
                       /\ \A label : At(q, label)' = At(q, label)
                       /\ \A i \in Ids : Left(q, i)' = Left(q, i)
    BY <1>1 DEF Id, Kernel, At, Left, Entry
<1>3. \A i : Exists(Object(i))' = Exists(Object(i)) /\ Exists(Sig(i))' = Exists(Sig(i))
    BY <1>1 DEF Exists, Object, Sig
<1>4. ASSUME NEW q \in Procs PROVE Undisturbed(q)' = Undisturbed(q)
    <2>1. Loading(q)' = Loading(q)
        BY <1>1, <1>2, <1>3 DEF Loading, SameSignature, Object, Sig, Exists
    <2>2. Storing(q)' = Storing(q) /\ Signing(q)' = Signing(q)
        BY <1>1, <1>2 DEF Storing, Signing, Object
    <2>3. Fits(q, FileSize(Object(proc[q].victim)))' = Fits(q, FileSize(Object(proc[q].victim)))
        BY <1>1 DEF Fits, FileSize, Object
    <2>4. Walk(q)' = Walk(q)
        BY <1>1, <1>2, <1>3, <2>3 DEF Walk, CleaningUp, Object, Exists
    <2> QED BY <2>1, <2>2, <2>4 DEF Undisturbed
<1>5. SoleInv'
    BY <1>1, <1>2, <1>4 DEF SequentialInv, SoleInv, ObjectsNamed, Fresh, DatedByUse, Object
<1>6. KillsInv'
    BY <1>1, <1>2, <1>3 DEF SequentialInv, KillsInv, SignaturesAgree, OwnSignature, NoStraySignature,
       SignatureToWrite, NoForeignObject, Loaded, Object, Sig
<1>7. NoneDies'
    BY <1>1, <1>2 DEF SequentialInv, NoneDies
<1> QED BY <1>5, <1>6, <1>7 DEF SequentialInv

LEMMA InitSequential == Init => SequentialInv
<1> SUFFICES ASSUME Init PROVE SequentialInv
    OBVIOUS
<1>1. \A p \in Procs : /\ proc[p].pc = "idle" /\ proc[p].cacheable = {} /\ proc[p].dated = {}
                       /\ proc[p].kept = 0 /\ proc[p].loaded = [i \in Ids |-> Absent]
    BY StoppedFields DEF Init
<1>2. \A i \in Ids : file[Object(i)] = Absent /\ file[Sig(i)] = Absent
    BY FileNames DEF Init
<1>3. Killed = {}
    BY <1>1 DEF Killed
<1>4. SoleInv
    BY <1>1, <1>2, NoKernel DEF SoleInv, ObjectsNamed, Fresh, DatedByUse, Undisturbed, Loading, Storing,
       Signing, Walk, CleaningUp, At
<1>5. NoForeignObject
    BY <1>1, PipelineOK DEF NoForeignObject, Loaded
<1>6. SignaturesAgree
    BY <1>1, <1>2, NoKernel DEF SignaturesAgree, OwnSignature, NoStraySignature, SignatureToWrite,
       Exists, At
<1>7. KillsInv
    BY <1>3, <1>5, <1>6, FS_EmptySet DEF KillsInv
<1>8. NoneDies
    BY <1>1 DEF NoneDies, At
<1> QED BY <1>4, <1>7, <1>8 DEF SequentialInv

\* What holds as long as runs follow one another, and no more is known of the
\* kills than each property allows.
THEOREM SequentialInvariant == Spec => [](CacheInv /\ SequentialInv)
<1>1. CacheInv /\ SequentialInv /\ CacheInv' /\ [Next]_vars => SequentialInv'
    <2> SUFFICES ASSUME CacheInv, SequentialInv, CacheInv', [Next]_vars PROVE SequentialInv'
        OBVIOUS
    <2>1. CASE UNCHANGED vars
        BY <2>1, UntouchedKeepsSequential DEF vars
    <2>2. CASE Tick
        BY <2>2, UntouchedKeepsSequential DEF Tick
    <2>3. ASSUME NEW p \in Procs, Step(p) PROVE SequentialInv'
        <3>1. SoleInv /\ KillsInv /\ NoneDies /\ TypeOK'
            BY DEF SequentialInv, CacheInv
        <3>2. SoleInv'
            BY <2>3, <3>1, StepKeepsSole
        <3>3. NoForeignObject'
            BY <2>3, <3>1, StepKeepsLoaded
        <3>4. ~overlapped' /\ Cardinality(Killed') <= 1 => SignaturesAgree'
            <4> SUFFICES ASSUME ~overlapped', Cardinality(Killed') <= 1 PROVE SignaturesAgree'
                OBVIOUS
            <4>1. ~overlapped /\ IsFiniteSet(Killed) /\ Cardinality(Killed) <= 1
                BY <2>3, <3>1, StepShape, KilledAfter DEF KillsInv
            <4> QED BY <2>3, <3>1, <4>1, StepKeepsSignatures DEF KillsInv
        <3>5. IsFiniteSet(Killed)'
            BY <2>3, <3>1, KilledAfter DEF KillsInv
        <3>6. KillsInv'
            BY <3>3, <3>4, <3>5 DEF KillsInv
        <3>7. NoneDies'
            BY <2>3, <3>1, StepKeepsAlive
        <3> QED BY <3>2, <3>6, <3>7 DEF SequentialInv
    <2> QED BY <2>1, <2>2, <2>3 DEF Next, Terminated
<1> QED BY <1>1, InitSequential, CacheInvariant, PTL DEF Spec

\* Kernels that share an identifier are told apart by their signatures: no process
\* links the object of another kernel, if runs do not overlap and at most one was
\* killed (loadCachedObjectFile, notifyObjectCompiled).
THEOREM NoneForeign == Spec => []NoForeignObject
<1>1. SequentialInv => NoForeignObject
    BY DEF SequentialInv, KillsInv
<1> QED BY <1>1, SequentialInvariant, PTL

\* Runs that follow one another, none of which is killed, never die, and each
\* leaves complete objects with their signatures, whatever the clean-ups removed
\* (object_cache.cpp).
THEOREM SequentialSafe == Spec => []SequentialRunsSafe
<1>1. CacheInv /\ SequentialInv => SequentialRunsSafe
    <2> SUFFICES ASSUME CacheInv, SequentialInv, ~overlapped, Killed = {} PROVE
            /\ \A p \in Procs : ~At(p, "dead")
            /\ (\A p \in Procs : ~Active(p)) =>
                 \A i \in Ids : Exists(Object(i)) =>
                     /\ file[Object(i)] # Partial
                     /\ file[Object(i)] \in Signed => file[Sig(i)] = Signature[file[Object(i)]]
        BY DEF SequentialRunsSafe
    <2>1. \A p \in Procs : ~At(p, "dead")
        BY DEF SequentialInv, NoneDies
    <2> SUFFICES ASSUME \A p \in Procs : ~Active(p), NEW i \in Ids, Exists(Object(i))
                 PROVE  /\ file[Object(i)] # Partial
                        /\ file[Object(i)] \in Signed => file[Sig(i)] = Signature[file[Object(i)]]
        BY <2>1
    <2>2. TypeOK
        BY DEF CacheInv
    <2>3. \A f \in Objects \cup Sigs : file[f] # Partial
        <3> SUFFICES ASSUME NEW f \in Objects \cup Sigs, file[f] = Partial PROVE FALSE
            OBVIOUS
        <3>1. PICK p \in writers[f] : Writing(p, f)
            BY <2>2 DEF CacheInv, TruncatedHasWriter, TypeOK, DiskOK
        <3>2. p \in Procs
            BY <2>2, <3>1 DEF TypeOK, DiskOK
        <3> QED BY <3>1, <3>2 DEF Writing, Active, At, Ended
    <2>4. ASSUME file[Object(i)] \in Signed PROVE file[Sig(i)] = Signature[file[Object(i)]]
        <3>1. Exists(Sig(i))
            BY <2>4 DEF CacheInv, OrphanHasCause, Active, Ended
        <3>2. file[Sig(i)] \in Signatures
            BY <2>2, <2>3, <3>1, FileNames DEF Exists, TypeOK, DiskOK
        <3>3. SignaturesAgree
            BY FS_EmptySet DEF SequentialInv, KillsInv
        <3> QED BY <2>4, <3>2, <3>3 DEF SignaturesAgree, OwnSignature, Active, At, Ended
    <2> QED BY <2>3, <2>4, FileNames
<1> QED BY <1>1, SequentialInvariant, PTL

\* The dates are numbers.
LEMMA DateTypes ==
    ASSUME TypeOK, NEW i \in Ids
    PROVE  mtime[i] \in Nat /\ lastUse[i] \in Nat /\ file[Object(i)] \in Data
<1>1. mtime[i] \in 0 .. MaxTime /\ lastUse[i] \in 0 .. MaxTime /\ file[Object(i)] \in Data
    BY DEF TypeOK, DiskOK
<1> QED BY <1>1, CacheConstants

\* A clean-up that no other run disturbs removes an object only if no object of at
\* least its size that was used earlier stays (cleanUpObjectCacheFiles).
THEOREM LeastRecentlyUsedGoes == Spec => EvictsLeastRecentlyUsed
<1>1. CacheInv /\ SequentialInv => \A p \in Procs : EvictObject(p) /\ ~overlapped =>
          \A i \in Ids \ {proc[p].victim} :
              LET gone == Object(proc[p].victim) IN
              /\ Exists(Object(i)) /\ Exists(gone)
              /\ FileSize(Object(i)) >= FileSize(gone)
              /\ lastUse[i] < lastUse[proc[p].victim]
              => \E e \in proc[p].dated : e[2] = i
    <2> SUFFICES ASSUME CacheInv, SequentialInv, ~overlapped, NEW p \in Procs, EvictObject(p),
                        NEW i \in Ids \ {proc[p].victim}, Exists(Object(i)), Exists(Object(proc[p].victim)),
                        FileSize(Object(i)) >= FileSize(Object(proc[p].victim)),
                        lastUse[i] < lastUse[proc[p].victim],
                        ~\E e \in proc[p].dated : e[2] = i
                 PROVE  FALSE
        BY Zenon
    <2> DEFINE v == proc[p].victim
    <2>1. /\ TypeOK /\ Undisturbed(p) /\ DatedByUse /\ At(p, "evict")
          /\ v \in Ids /\ proc[p].kept \in 0 .. SizeLimit
        BY StateTypes DEF CacheInv, SequentialInv, SoleInv, EvictObject, At, StateOK, States
    <2>2. Left(p, i) /\ ~Fits(p, FileSize(Object(v)))
        BY <2>1 DEF Undisturbed, Walk, CleaningUp, At
    <2>3. /\ mtime[i] \in Nat /\ mtime[v] \in Nat
          /\ lastUse[i] \in Nat /\ lastUse[v] \in Nat /\ SizeLimit \in Nat
        BY <2>1, DateTypes, CacheConstants
    <2>4. mtime[v] <= mtime[i] /\ proc[p].kept < SizeLimit
        BY <2>1, <2>2, <2>3 DEF Left, Precedes, Entry
    <2>5. ASSUME NEW j \in Ids
          PROVE  /\ FileSize(Object(j)) \in Nat
                 /\ 0 < FileSize(Object(j)) => file[Object(j)] \in Kernels
        BY <2>1, DateTypes, CacheConstants DEF FileSize, Data
    <2>6. 0 < FileSize(Object(v))
        BY <2>1, <2>2, <2>3, <2>4, <2>5 DEF Fits
    <2>7. 0 < FileSize(Object(i))
        BY <2>1, <2>5, <2>6
    <2>8. mtime[i] = lastUse[i] /\ mtime[v] = lastUse[v]
        BY <2>1, <2>5, <2>6, <2>7 DEF DatedByUse
    <2> QED BY <2>3, <2>4, <2>8
<1> QED BY <1>1, SequentialInvariant, PTL DEF EvictsLeastRecentlyUsed

-----------------------------------------------------------------------------
(* Sums over finite sets.                                                  *)

\* A set of natural numbers has a least element.
LEMMA LeastNumber ==
    ASSUME NEW T, T \subseteq Nat, T # {}
    PROVE  \E x \in T : \A y \in T : x <= y
<1> DEFINE R == OpToRel(<, Nat)
<1>1. IsWellFoundedOn(R, Nat)
    BY NatLessThanWellFounded
<1>2. \A x, y \in Nat : x < y => <<x, y>> \in R
    BY DEF OpToRel
<1> HIDE DEF R
<1>3. PICK x \in T : \A y \in T : ~ (<<y, x>> \in R)
    BY <1>1, WFMin
<1>4. \A y \in T : x <= y
    <2> SUFFICES ASSUME NEW y \in T PROVE x <= y
        OBVIOUS
    <2>1. x \in Nat /\ y \in Nat /\ ~ (y < x)
        BY <1>2, <1>3
    <2> QED BY <2>1
<1> QED BY <1>4

\* Of finite sets one has the fewest elements: what fails for some of them
\* fails for one of which every smaller one is right.
LEMMA LeastSet ==
    ASSUME NEW C, C # {}, \A s \in C : IsFiniteSet(s)
    PROVE  \E s \in C : \A t \in C : Cardinality(s) <= Cardinality(t)
<1> DEFINE T == {Cardinality(s) : s \in C}
<1>1. T \subseteq Nat /\ T # {}
    BY FS_CardinalityType
<1> HIDE DEF T
<1>2. PICK n \in T : \A m \in T : n <= m
    BY <1>1, LeastNumber
<1>3. PICK s \in C : n = Cardinality(s)
    BY DEF T
<1> QED BY <1>2, <1>3 DEF T

Picked(s)   == CHOOSE x \in s : TRUE
Rest(s)     == s \ {Picked(s)}
Sum(F, g, s) == IF s = {} THEN 0 ELSE g[Picked(s)] + F[Rest(s)]

\* F is the function by which the sum over a subset of X is computed.
Sums(F, g, X) == F = [s \in SUBSET X |-> Sum(F, g, s)]

LEMMA SumIter ==
    ASSUME NEW g, NEW X
    PROVE  SumFunctionOnSet(g, X) = (CHOOSE F : Sums(F, g, X))[X]
BY DEF SumFunctionOnSet, FoldFunctionOnSet, MapThenFoldSet, Sums, Sum, Rest, Picked

LEMMA RestSmaller ==
    ASSUME NEW s, IsFiniteSet(s), s # {}
    PROVE  /\ Picked(s) \in s /\ Rest(s) \subseteq s /\ Picked(s) \notin Rest(s)
           /\ IsFiniteSet(Rest(s))
           /\ Cardinality(s) \in Nat /\ Cardinality(Rest(s)) \in Nat
           /\ Cardinality(Rest(s)) < Cardinality(s)
<1>1. Picked(s) \in s
    BY DEF Picked
<1>2. IsFiniteSet(Rest(s)) /\ Cardinality(Rest(s)) = Cardinality(s) - 1
    BY <1>1, FS_RemoveElement DEF Rest
<1>3. Cardinality(s) \in Nat /\ Cardinality(Rest(s)) \in Nat
    BY <1>2, FS_CardinalityType
<1> QED BY <1>1, <1>2, <1>3 DEF Rest

\* Two such functions agree where both are defined.
LEMMA SumsAgree ==
    ASSUME NEW g, NEW X, NEW Y, NEW F, NEW G, IsFiniteSet(X), IsFiniteSet(Y),
           Sums(F, g, X), Sums(G, g, Y), NEW s, s \subseteq X, s \subseteq Y
    PROVE  F[s] = G[s]
<1> DEFINE C == {t \in SUBSET (X \cap Y) : F[t] # G[t]}
<1> SUFFICES ASSUME C # {} PROVE FALSE
    OBVIOUS
<1>1. PICK t \in C : \A r \in C : Cardinality(t) <= Cardinality(r)
    <2>1. \A r \in C : IsFiniteSet(r)
        BY FS_Subset
    <2> HIDE DEF C
    <2> QED BY <2>1, LeastSet
<1>2. t \subseteq X /\ t \subseteq Y /\ F[t] # G[t] /\ IsFiniteSet(t)
    BY <1>1, FS_Subset
<1>3. F[t] = Sum(F, g, t) /\ G[t] = Sum(G, g, t)
    BY <1>2 DEF Sums
<1>4. t # {}
    BY <1>2, <1>3 DEF Sum
<1>5. Rest(t) \notin C
    BY <1>1, <1>2, <1>4, RestSmaller
<1>6. F[Rest(t)] = G[Rest(t)]
    BY <1>2, <1>4, <1>5, RestSmaller
<1> QED BY <1>2, <1>3, <1>6 DEF Sum

\* There is such a function for every finite set.
LEMMA SumsExist ==
    ASSUME NEW g, NEW X, IsFiniteSet(X)
    PROVE  \E F : Sums(F, g, X)
<1> DEFINE C == {Y \in SUBSET X : ~\E F : Sums(F, g, Y)}
<1> SUFFICES ASSUME C # {} PROVE FALSE
    OBVIOUS
<1>1. PICK Y \in C : \A Z \in C : Cardinality(Y) <= Cardinality(Z)
    <2>1. \A r \in C : IsFiniteSet(r)
        BY FS_Subset
    <2> HIDE DEF C
    <2> QED BY <2>1, LeastSet
<1>2. Y \subseteq X /\ IsFiniteSet(Y) /\ ~\E F : Sums(F, g, Y)
    BY <1>1, FS_Subset
<1>3. ASSUME NEW x \in Y
      PROVE  \E F : Sums(F, g, Y \ {x})
    <2>1. /\ Cardinality(Y \ {x}) = Cardinality(Y) - 1
          /\ Cardinality(Y) \in Nat /\ Y \ {x} \subseteq X
        BY <1>2, FS_RemoveElement, FS_CardinalityType
    <2>2. Y \ {x} \notin C
        BY <1>1, <2>1
    <2> QED BY <2>1, <2>2
<1> DEFINE P(x) == CHOOSE F : Sums(F, g, Y \ {x})
           G == [s \in SUBSET Y |-> IF s = {} THEN 0 ELSE g[Picked(s)] + P(Picked(s))[Rest(s)]]
<1>4. ASSUME NEW x \in Y
      PROVE  Sums(P(x), g, Y \ {x})
    BY <1>3
<1>5. ASSUME NEW s \in SUBSET Y, s # {}
      PROVE  P(Picked(s))[Rest(s)] = G[Rest(s)]
    <2> DEFINE x == Picked(s)
               r == Rest(s)
    <2>1. /\ x \in Y /\ r \subseteq Y \ {x} /\ IsFiniteSet(r) /\ IsFiniteSet(s)
        BY <1>2, <1>5, FS_Subset, RestSmaller
    <2>2. CASE r = {}
        <3>1. Sums(P(x), g, Y \ {x})
            BY <1>4, <2>1
        <3> HIDE DEF P
        <3>2. P(x)[r] = Sum(P(x), g, r)
            BY <2>1, <3>1 DEF Sums
        <3> QED BY <2>2, <3>2 DEF Sum
    <2>3. CASE r # {}
        <3> DEFINE y == Picked(r)
        <3>1. y \in Y /\ Rest(r) \subseteq Y \ {x} /\ Rest(r) \subseteq Y \ {y}
            BY <2>1, <2>3, RestSmaller
        <3>2. Sums(P(x), g, Y \ {x}) /\ Sums(P(y), g, Y \ {y})
            BY <1>4, <2>1, <3>1
        <3>3. IsFiniteSet(Y \ {x}) /\ IsFiniteSet(Y \ {y})
            BY <1>2, FS_RemoveElement
        <3>4. G[r] = g[y] + P(y)[Rest(r)]
            BY <2>1, <2>3
        <3> HIDE DEF P, G
        <3>5. P(x)[Rest(r)] = P(y)[Rest(r)]
            BY <3>1, <3>2, <3>3, SumsAgree
        <3>6. P(x)[r] = Sum(P(x), g, r)
            BY <2>1, <3>2 DEF Sums
        <3> QED BY <2>3, <3>4, <3>5, <3>6 DEF Sum
    <2> QED BY <2>2, <2>3
<1>6. Sums(G, g, Y)
    <2>1. ASSUME NEW s \in SUBSET Y
          PROVE  G[s] = Sum(G, g, s)
        <3>1. G[s] = IF s = {} THEN 0 ELSE g[Picked(s)] + P(Picked(s))[Rest(s)]
            OBVIOUS
        <3> HIDE DEF G
        <3> QED BY <1>5, <3>1 DEF Sum
    <2>2. G = [s \in SUBSET Y |-> G[s]]
        OBVIOUS
    <2> HIDE DEF G
    <2> QED BY <2>1, <2>2 DEF Sums
<1> QED BY <1>2, <1>6

LEMMA SumIsSums ==
    ASSUME NEW g, NEW X, IsFiniteSet(X), NEW F, Sums(F, g, X), NEW S, S \subseteq X
    PROVE  SumFunctionOnSet(g, S) = F[S]
<1> DEFINE G == CHOOSE H : Sums(H, g, S)
<1>1. IsFiniteSet(S)
    BY FS_Subset
<1>2. Sums(G, g, S)
    BY <1>1, SumsExist
<1> HIDE DEF G
<1>3. G[S] = F[S]
    BY <1>1, <1>2, SumsAgree
<1> QED BY <1>3, SumIter DEF G

LEMMA SumEmpty ==
    ASSUME NEW g PROVE SumFunctionOnSet(g, {}) = 0
<1>1. PICK F : Sums(F, g, {})
    BY FS_EmptySet, SumsExist
<1>2. SumFunctionOnSet(g, {}) = F[{}]
    BY <1>1, FS_EmptySet, SumIsSums
<1> QED BY <1>1, <1>2 DEF Sums, Sum

\* The sum of natural numbers is one.
LEMMA SumNat ==
    ASSUME NEW S, IsFiniteSet(S), NEW g, \A x \in S : g[x] \in Nat
    PROVE  SumFunctionOnSet(g, S) \in Nat
<1>1. PICK F : Sums(F, g, S)
    BY SumsExist
<1> DEFINE C == {t \in SUBSET S : F[t] \notin Nat}
<1>2. C = {}
    <2> SUFFICES ASSUME C # {} PROVE FALSE
        OBVIOUS
    <2>1. PICK t \in C : \A r \in C : Cardinality(t) <= Cardinality(r)
        <3>1. \A r \in C : IsFiniteSet(r)
            BY FS_Subset
        <3> HIDE DEF C
        <3> QED BY <3>1, LeastSet
    <2>2. t \subseteq S /\ F[t] \notin Nat /\ IsFiniteSet(t)
        BY <2>1, FS_Subset
    <2>3. F[t] = Sum(F, g, t)
        BY <1>1, <2>2 DEF Sums
    <2>4. t # {}
        BY <2>2, <2>3 DEF Sum
    <2>5. Picked(t) \in S /\ Rest(t) \subseteq S /\ Rest(t) \notin C
        BY <2>1, <2>2, <2>4, RestSmaller
    <2> QED BY <2>2, <2>3, <2>5 DEF Sum
<1> QED BY <1>1, <1>2, SumIsSums

\* It is the same whichever element is added last.
LEMMA SumWithout ==
    ASSUME NEW S, IsFiniteSet(S), NEW g, \A y \in S : g[y] \in Nat, NEW x \in S
    PROVE  SumFunctionOnSet(g, S) = g[x] + SumFunctionOnSet(g, S \ {x})
<1>1. PICK F : Sums(F, g, S)
    BY SumsExist
<1>2. ASSUME NEW t \in SUBSET S
      PROVE  F[t] \in Nat
    <2>1. IsFiniteSet(t) /\ SumFunctionOnSet(g, t) = F[t]
        BY <1>1, FS_Subset, SumIsSums
    <2> QED BY <2>1, SumNat
<1> DEFINE C == {t \in SUBSET S : \E y \in t : F[t] # g[y] + F[t \ {y}]}
<1>3. C = {}
    <2> SUFFICES ASSUME C # {} PROVE FALSE
        OBVIOUS
    <2>1. PICK t \in C : \A r \in C : Cardinality(t) <= Cardinality(r)
        <3>1. \A r \in C : IsFiniteSet(r)
            BY FS_Subset
        <3> HIDE DEF C
        <3> QED BY <3>1, LeastSet
    <2>2. PICK y \in t : F[t] # g[y] + F[t \ {y}]
        BY <2>1
    <2> DEFINE c == Picked(t)
    <2>3. /\ t \subseteq S /\ IsFiniteSet(t) /\ t # {} /\ c \in t
          /\ Cardinality(t) \in Nat
        BY <2>1, <2>2, FS_Subset, RestSmaller
    <2>4. F[t] = g[c] + F[t \ {c}]
        BY <1>1, <2>3 DEF Sums, Sum, Rest
    <2>5. c # y
        BY <2>2, <2>4
    <2>6. ASSUME NEW z \in t
          PROVE  t \ {z} \notin C
        <3>1. Cardinality(t \ {z}) = Cardinality(t) - 1
            BY <2>3, FS_RemoveElement
        <3> QED BY <2>1, <2>3, <3>1
    <2>7. F[t \ {c}] = g[y] + F[(t \ {c}) \ {y}]
        <3>1. t \ {c} \notin C /\ y \in t \ {c} /\ t \ {c} \subseteq S
            BY <2>3, <2>5, <2>6
        <3> HIDE DEF c
        <3> QED BY <3>1
    <2>8. F[t \ {y}] = g[c] + F[(t \ {y}) \ {c}]
        <3>1. t \ {y} \notin C /\ c \in t \ {y} /\ t \ {y} \subseteq S
            BY <2>3, <2>5, <2>6
        <3> HIDE DEF c
        <3> QED BY <3>1
    <2>9. (t \ {c}) \ {y} = (t \ {y}) \ {c}
        OBVIOUS
    <2>10. g[c] \in Nat /\ g[y] \in Nat /\ F[(t \ {y}) \ {c}] \in Nat
        BY <1>2, <2>3
    <2> DEFINE a == F[(t \ {y}) \ {c}]
    <2>11. F[t] = g[c] + (g[y] + a) /\ F[t \ {y}] = g[c] + a
        BY <2>4, <2>7, <2>8, <2>9
    <2> HIDE DEF c, a
    <2>12. F[t] # g[y] + (g[c] + a)
        BY <2>2, <2>11
    <2>13. g[c] \in Nat /\ g[y] \in Nat /\ a \in Nat
        BY <2>10 DEF a
    <2> QED BY <2>11, <2>12, <2>13
<1>4. F[S] = g[x] + F[S \ {x}]
    BY <1>3
<1> QED BY <1>1, <1>4, SumIsSums

\* Fewer and smaller numbers have no larger sum.
LEMMA SumMonotone ==
    ASSUME NEW T, IsFiniteSet(T), NEW S, S \subseteq T, NEW g, NEW h,
           \A x \in T : g[x] \in Nat /\ h[x] \in Nat, \A x \in S : g[x] <= h[x]
    PROVE  SumFunctionOnSet(g, S) <= SumFunctionOnSet(h, T)
<1> DEFINE G(U) == SumFunctionOnSet(g, S \cap U)
           H(U) == SumFunctionOnSet(h, U)
           C == {U \in SUBSET T : ~ (G(U) <= H(U))}
<1>1. C = {}
    <2> SUFFICES ASSUME C # {} PROVE FALSE
        OBVIOUS
    <2>1. PICK U \in C : \A V \in C : Cardinality(U) <= Cardinality(V)
        <3>1. \A r \in C : IsFiniteSet(r)
            BY FS_Subset
        <3> HIDE DEF C
        <3> QED BY <3>1, LeastSet
    <2>2. U \subseteq T /\ IsFiniteSet(U) /\ ~ (G(U) <= H(U)) /\ IsFiniteSet(S \cap U)
        BY <2>1, FS_Subset
    <2>3. U # {}
        BY <2>2, SumEmpty
    <2>4. PICK x \in U : TRUE
        BY <2>3
    <2> DEFINE V == U \ {x}
    <2>5. IsFiniteSet(V) /\ V \subseteq T /\ IsFiniteSet(S \cap V) /\ G(V) <= H(V)
        <3>1. IsFiniteSet(V) /\ Cardinality(V) = Cardinality(U) - 1 /\ Cardinality(U) \in Nat
            BY <2>2, FS_RemoveElement, FS_CardinalityType
        <3>2. V \notin C /\ V \subseteq T
            BY <2>1, <2>2, <3>1
        <3>3. IsFiniteSet(S \cap V)
            BY <3>2, FS_Subset
        <3> QED BY <3>1, <3>2, <3>3
    <2>6. G(V) \in Nat /\ H(V) \in Nat /\ g[x] \in Nat /\ h[x] \in Nat
        BY <2>2, <2>5, SumNat
    <2>7. H(U) = h[x] + H(V)
        BY <2>2, SumWithout
    <2>8. CASE x \in S
        <3>1. g[x] <= h[x] /\ (S \cap U) \ {x} = S \cap V
            BY <2>8
        <3>2. G(U) = g[x] + SumFunctionOnSet(g, (S \cap U) \ {x})
            BY <2>2, <2>8, SumWithout
        <3>3. G(U) = g[x] + G(V)
            BY <3>1, <3>2
        <3> HIDE DEF G, H, V
        <3> QED BY <2>2, <2>5, <2>6, <2>7, <3>1, <3>3
    <2>9. CASE x \notin S
        <3>1. G(U) = G(V)
            <4>1. S \cap U = S \cap V
                BY <2>9
            <4> QED BY <4>1
        <3> HIDE DEF G, H, V
        <3> QED BY <2>2, <2>5, <2>6, <2>7, <3>1
    <2> QED BY <2>8, <2>9
<1>2. G(T) <= H(T) /\ S \cap T = S
    BY <1>1
<1> QED BY <1>2

\* A set to which one element is added.
LEMMA SumWith ==
    ASSUME NEW T, IsFiniteSet(T), NEW S, S \subseteq T, NEW x \in T, NEW g, \A y \in T : g[y] \in Nat,
           NEW U, U \subseteq S \cup {x}
    PROVE  SumFunctionOnSet(g, U) <= SumFunctionOnSet(g, S) + g[x]
<1>1. IsFiniteSet(S) /\ IsFiniteSet(S \cup {x}) /\ IsFiniteSet(S \ {x})
    BY FS_Subset
<1>2. SumFunctionOnSet(g, U) <= SumFunctionOnSet(g, S \cup {x})
    BY <1>1, SumMonotone
<1>3. SumFunctionOnSet(g, S \cup {x}) = g[x] + SumFunctionOnSet(g, (S \cup {x}) \ {x})
    BY <1>1, SumWithout
<1>4. (S \cup {x}) \ {x} = S \ {x}
    OBVIOUS
<1>5. SumFunctionOnSet(g, S \ {x}) <= SumFunctionOnSet(g, S)
    BY <1>1, SumMonotone
<1>6. IsFiniteSet(U)
    BY <1>1, FS_Subset
<1>7. /\ SumFunctionOnSet(g, S) \in Nat /\ SumFunctionOnSet(g, S \ {x}) \in Nat
      /\ SumFunctionOnSet(g, U) \in Nat /\ g[x] \in Nat
    BY <1>1, <1>6, SumNat
<1> QED BY <1>2, <1>3, <1>4, <1>5, <1>7

LEMMA SumZero ==
    ASSUME NEW S, IsFiniteSet(S), NEW g, \A x \in S : g[x] = 0
    PROVE  SumFunctionOnSet(g, S) = 0
<1> DEFINE C == {t \in SUBSET S : SumFunctionOnSet(g, t) # 0}
<1>1. C = {}
    <2> SUFFICES ASSUME C # {} PROVE FALSE
        OBVIOUS
    <2>1. PICK t \in C : \A r \in C : Cardinality(t) <= Cardinality(r)
        <3>1. \A r \in C : IsFiniteSet(r)
            BY FS_Subset
        <3> HIDE DEF C
        <3> QED BY <3>1, LeastSet
    <2>2. t \subseteq S /\ IsFiniteSet(t) /\ SumFunctionOnSet(g, t) # 0
        BY <2>1, FS_Subset
    <2>3. PICK x \in t : TRUE
        BY <2>2, SumEmpty
    <2>4. SumFunctionOnSet(g, t) = g[x] + SumFunctionOnSet(g, t \ {x})
        BY <2>2, SumWithout
    <2>5. Cardinality(t \ {x}) = Cardinality(t) - 1 /\ Cardinality(t) \in Nat
        BY <2>2, FS_RemoveElement, FS_CardinalityType
    <2>6. t \ {x} \notin C
        BY <2>1, <2>5
    <2> QED BY <2>2, <2>4, <2>6
<1> QED BY <1>1

-----------------------------------------------------------------------------
(* Clean-ups that overlap.                                                 *)

Files(S)    == {Object(i) : i \in S}
Total(g, S) == SumFunctionOnSet(g, Files(S))

\* The objects that the walk of a clean-up does not come to any more.
Passed(p) == {i \in Ids : /\ i \notin proc[p].todo /\ \A e \in proc[p].dated : e[2] # i
                          /\ ~ (At(p, "evict") /\ i = proc[p].victim)}

\* Once all processes are at their clean-ups no file grows, and one of them has
\* seen all: what it has passed is what it counts, or it is done.
CleanInv ==
    /\ \A p \in Procs : proc[p].kept < SizeLimit
    /\ (\A p \in Procs : CleaningUp(p) \/ At(p, "done")) =>
          \/ Total(Sizes, Ids) < SizeLimit
          \/ \E p \in Procs : CleaningUp(p) /\ Total(Sizes, Passed(p)) <= proc[p].kept

\* There are finitely many files.
LEMMA FinitelyMany ==
    ASSUME NEW S, S \subseteq Ids
    PROVE  IsFiniteSet(Files(S)) /\ Files(S) \subseteq Objects
<1>1. IsFiniteSet(S)
    BY CacheConstants, FS_Subset
<1> DEFINE f == [i \in S |-> Object(i)]
<1>2. f \in Surjection(S, Files(S))
    BY DEF Surjection, Files
<1> HIDE DEF f
<1> QED BY <1>1, <1>2, FS_Surjection DEF Files, Objects

LEMMA TotalNat ==
    ASSUME NEW S, S \subseteq Ids, NEW g, \A o \in Objects : g[o] \in Nat
    PROVE  Total(g, S) \in Nat
BY FinitelyMany, SumNat DEF Total

LEMMA TotalMonotone ==
    ASSUME NEW T, T \subseteq Ids, NEW S, S \subseteq T, NEW g, NEW h,
           \A o \in Objects : g[o] \in Nat /\ h[o] \in Nat /\ g[o] <= h[o]
    PROVE  Total(g, S) <= Total(h, T)
<1>1. IsFiniteSet(Files(T)) /\ Files(T) \subseteq Objects /\ Files(S) \subseteq Files(T)
    BY FinitelyMany DEF Files
<1> QED BY <1>1, SumMonotone DEF Total

LEMMA TotalWith ==
    ASSUME NEW S, S \subseteq Ids, NEW i \in Ids, NEW U, U \subseteq S \cup {i}, NEW g, NEW h,
           \A o \in Objects : g[o] \in Nat /\ h[o] \in Nat /\ g[o] <= h[o]
    PROVE  Total(g, U) <= Total(h, S) + g[Object(i)]
<1>1. /\ IsFiniteSet(Files(S \cup {i})) /\ Files(S \cup {i}) \subseteq Objects
      /\ Files(U) \subseteq Files(S) \cup {Object(i)} /\ Files(S) \subseteq Files(S \cup {i})
      /\ Object(i) \in Files(S \cup {i})
    BY FinitelyMany DEF Files
<1>2. Total(g, U) <= Total(g, S) + g[Object(i)]
    BY <1>1, SumWith DEF Total
<1>3. Total(g, S) <= Total(h, S)
    BY TotalMonotone
<1>4. Total(g, U) \in Nat /\ Total(g, S) \in Nat /\ Total(h, S) \in Nat /\ g[Object(i)] \in Nat
    <2>1. Object(i) \in Objects
        BY FileNames
    <2> QED BY <2>1, TotalNat
<1> QED BY <1>2, <1>3, <1>4

LEMMA TotalZero ==
    ASSUME NEW S, S \subseteq Ids, NEW g, \A i \in S : g[Object(i)] = 0
    PROVE  Total(g, S) = 0
<1>1. IsFiniteSet(Files(S)) /\ \A x \in Files(S) : g[x] = 0
    BY FinitelyMany DEF Files
<1> QED BY <1>1, SumZero DEF Total

\* The size of a file is a number, and no larger after a step that at most removes files.
LEMMA SizesShrink ==
    ASSUME TypeOK, \A f \in Objects : file'[f] \in {file[f], Absent}
    PROVE  /\ \A o \in Objects : Sizes[o] \in Nat /\ Sizes'[o] \in Nat /\ Sizes'[o] <= Sizes[o]
           /\ \A i \in Ids : Sizes'[Object(i)] = IF file'[Object(i)] = file[Object(i)]
                                                 THEN FileSize(Object(i)) ELSE 0
<1>1. ASSUME NEW o \in Objects
      PROVE  /\ FileSize(o) \in Nat /\ Sizes[o] = FileSize(o) /\ file'[o] \in {file[o], Absent}
             /\ Sizes'[o] = IF file'[o] = file[o] THEN FileSize(o) ELSE 0
    <2>1. PICK i \in Ids : o = Object(i)
        BY DEF Objects
    <2>2. FileSize(o) \in Nat
        BY <2>1, DateTypes, CacheConstants DEF FileSize, Data
    <2>3. Sizes[o] = FileSize(o)
        BY DEF Sizes
    <2>4. Sizes'[o] = IF file'[o] \in {Absent, Partial} THEN 0 ELSE Size[file'[o]]
        BY DEF Sizes, FileSize, Objects, Object
    <2>5. file'[o] \in {file[o], Absent}
        OBVIOUS
    <2> QED BY <2>2, <2>3, <2>4, <2>5 DEF FileSize
<1>2. \A i \in Ids : Object(i) \in Objects
    BY FileNames
<1> QED BY <1>1, <1>2

Cleans(p) == List(p) \/ Date(p) \/ Measure(p) \/ EvictObject(p) \/ EvictSignature(p)

\* Only the steps of a clean-up lead to one of its labels.
LEMMA OnlyCleansUp ==
    ASSUME CacheInv, NEW p \in Procs, Step(p), ~Cleans(p), ~Ends(p)
    PROVE  ~CleaningUp(p)' /\ ~At(p, "done")'
<1>1. TypeOK /\ proc[p] \in States /\ Id(p) \in Ids
    BY StateTypes DEF CacheInv
<1> DEFINE Other(label) == label \notin {"list", "evict", "evictSignature", "done"}
<1> SUFFICES Other(proc'[p].pc)
    BY DEF CleaningUp, At
<1>2. ASSUME NEW label, GoTo(p, label)
      PROVE  proc'[p].pc = label
    BY <1>1, <1>2, GoToFields
<1>3. ASSUME NEW s \in States, Become(p, Onward(p, s)) PROVE Other(proc'[p].pc)
    BY <1>1, <1>3, OnwardPc, BecomePc
<1>4. ASSUME NEW s, Become(p, s), Other(s.pc) PROVE Other(proc'[p].pc)
    BY <1>1, <1>4, BecomePc
<1>5. CASE Start(p) \/ WriteObject(p) \/ OpenSignature(p) \/ WriteSignature(p)
    BY <1>2, <1>5 DEF Start, WriteObject, OpenSignature, WriteSignature, AfterObject
<1>6. CASE SkipLoad(p)
    BY <1>1, <1>3, <1>6 DEF SkipLoad, Locally
<1>7. CASE Miss(p)
    <2> DEFINE s == [proc[p] EXCEPT !.cacheable = @ \cup {proc[p].at}]
    <2>1. s \in States
        BY <1>1 DEF States
    <2>2. Become(p, Onward(p, s))
        BY <1>7 DEF Miss, Locally
    <2> HIDE DEF s
    <2> QED BY <1>3, <2>1, <2>2
<1>8. CASE ReadObject(p)
    <2> DEFINE s == [proc[p] EXCEPT !.buffer = file[Object(Id(p))],
                                    !.pc = IF Kernel(p) \in Signed THEN "signature" ELSE "touch"]
    <2>1. Other(s.pc)
        BY <1>1 DEF States
    <2>2. Become(p, s)
        BY <1>8 DEF ReadObject, Locally
    <2> HIDE DEF s, Other
    <2> QED BY <1>4, <2>1, <2>2
<1>9. CASE ReadSignature(p)
    <2> DEFINE s == [proc[p] EXCEPT !.buffer = Absent]
               r == [proc[p] EXCEPT !.pc = "touch"]
    <2>1. s \in States /\ Other(r.pc)
        BY <1>1 DEF States, Data
    <2>2. Become(p, Onward(p, s)) \/ Become(p, r)
        BY <1>9 DEF ReadSignature, Locally
    <2> HIDE DEF s, r, Other
    <2> QED BY <1>3, <1>4, <2>1, <2>2
<1>10. CASE Touch(p)
    <2> DEFINE s == [proc[p] EXCEPT !.loaded[Id(p)] = proc[p].buffer, !.buffer = Absent]
    <2>1. s \in States
        BY <1>1 DEF States, Data
    <2>2. Become(p, Onward(p, s))
        BY <1>10 DEF Touch
    <2> HIDE DEF s, Other
    <2> QED BY <1>3, <2>1, <2>2
<1>11. CASE UseCached(p) \/ CompileUncached(p)
    <2>1. PICK i \in proc[p].todo : Become(p, Finalized(p, i)) /\ proc[p].pc = "finalize"
        BY <1>11 DEF UseCached, CompileUncached, At, Locally
    <2>2. Other(Finalized(p, i).pc)
        BY <1>1, <2>1 DEF Finalized, States
    <2> HIDE DEF Other
    <2> QED BY <1>4, <2>1, <2>2
<1>12. CASE CompileAndOpen(p)
    <2>1. PICK i \in proc[p].todo :
              Become(p, [Finalized(p, i) EXCEPT !.at = i, !.pc = "writeObject"])
        BY <1>12 DEF CompileAndOpen
    <2> DEFINE s == [Finalized(p, i) EXCEPT !.at = i, !.pc = "writeObject"]
    <2>2. Other(s.pc)
        BY <1>1 DEF Finalized, States
    <2> HIDE DEF Other
    <2> QED BY <1>4, <2>1, <2>2
<1> QED
    BY <1>5, <1>6, <1>7, <1>8, <1>9, <1>10, <1>11, <1>12 DEF Step, Cleans, Ends, Died

\* What a step of a clean-up passes, it counts, unless it is empty or removed.
Counts(p) ==
    \E i \in Ids :
        /\ Passed(p)' \subseteq Passed(p) \cup {i}
        /\ \/ Passed(p)' \subseteq Passed(p) /\ proc'[p].kept = proc[p].kept
           \/ proc'[p].kept = proc[p].kept + FileSize(Object(i))'

LEMMA DateCounts ==
    ASSUME CacheInv, NEW p \in Procs, Date(p)
    PROVE  file' = file /\ CleaningUp(p) /\ CleaningUp(p)' /\ proc'[p].kept = proc[p].kept /\ Counts(p)
<1>1. TypeOK /\ proc[p] \in States /\ proc[p].pc = "list" /\ StateOK(p, proc[p])
    BY StateTypes DEF CacheInv, Date, At
<1>2. PICK i \in proc[p].todo :
          Locally(p, [proc[p] EXCEPT
               !.todo = @ \ {i},
               !.dated = IF Exists(Object(i)) THEN @ \cup {<<mtime[i], i>>} ELSE @])
    BY DEF Date
<1> DEFINE s == [proc[p] EXCEPT
               !.todo = @ \ {i},
               !.dated = IF Exists(Object(i)) THEN @ \cup {<<mtime[i], i>>} ELSE @]
<1>3. /\ s.pc = "list" /\ s.todo = proc[p].todo \ {i} /\ s.kept = proc[p].kept
      /\ s.dated = IF Exists(Object(i)) THEN proc[p].dated \cup {<<mtime[i], i>>} ELSE proc[p].dated
    BY <1>1 DEF States
<1>4. proc'[p] = s /\ file' = file /\ i \in Ids
    BY <1>1, <1>2, BecomePc DEF Locally, disk, StateOK
<1> HIDE DEF s
<1>5. Passed(p)' \subseteq Passed(p) \cup {i}
    BY <1>3, <1>4, <1>1 DEF Passed, At
<1>6. CASE Exists(Object(i))
    <2>1. <<mtime[i], i>> \in s.dated /\ <<mtime[i], i>>[2] = i
        BY <1>3, <1>6
    <2>2. i \notin Passed(p)'
        BY <1>4, <2>1 DEF Passed
    <2> QED BY <1>1, <1>3, <1>4, <1>5, <2>2 DEF Counts, CleaningUp, At
<1>7. CASE ~Exists(Object(i))
    <2>1. FileSize(Object(i))' = 0
        BY <1>4, <1>7 DEF FileSize, Exists, Object
    <2>2. proc[p].kept \in Nat
        BY <1>1, CacheConstants DEF States
    <2> QED BY <1>1, <1>3, <1>4, <1>5, <2>1, <2>2 DEF Counts, CleaningUp, At
<1> QED BY <1>6, <1>7

LEMMA MeasureCounts ==
    ASSUME CacheInv, NEW p \in Procs, proc[p].kept < SizeLimit, Measure(p)
    PROVE  file' = file /\ CleaningUp(p) /\ CleaningUp(p)' /\ proc'[p].kept < SizeLimit /\ Counts(p)
<1>1. TypeOK /\ proc[p] \in States /\ proc[p].pc = "list" /\ proc[p].todo = {} /\ proc[p].kept \in Nat
    <2>1. TypeOK /\ proc[p] \in States
        BY StateTypes DEF CacheInv
    <2>2. proc[p].kept \in Nat
        BY <2>1, CacheConstants DEF States
    <2> QED BY <2>1, <2>2 DEF Measure, Walking, At
<1> DEFINE size(e) == FileSize(Object(e[2]))
           rest(e) == [proc[p] EXCEPT !.dated = @ \ {e}]
           s(e)    == IF ~Exists(Object(e[2])) THEN rest(e)
                      ELSE IF Fits(p, size(e)) THEN [rest(e) EXCEPT !.kept = @ + size(e)]
                      ELSE [rest(e) EXCEPT !.victim = e[2], !.pc = "evict"]
<1>2. PICK e \in proc[p].dated : Locally(p, s(e))
    BY Zenon DEF Measure
<1> DEFINE i == e[2]
<1>3. i \in Ids
    BY <1>1, EntryTypes
<1>4. /\ s(e).todo = {} /\ s(e).dated = proc[p].dated \ {e}
      /\ \/ /\ ~Exists(Object(i)) /\ s(e).pc = "list" /\ s(e).kept = proc[p].kept
         \/ /\ Exists(Object(i)) /\ Fits(p, size(e)) /\ s(e).pc = "list"
            /\ s(e).kept = proc[p].kept + size(e)
         \/ /\ s(e).pc = "evict" /\ s(e).victim = i /\ s(e).kept = proc[p].kept
    BY <1>1 DEF States
<1>5. proc'[p] = s(e) /\ file' = file
    BY <1>1, <1>2, BecomePc DEF Locally, disk
<1>6. /\ proc'[p].todo = {} /\ proc'[p].dated = proc[p].dated \ {e}
      /\ \/ /\ ~Exists(Object(i)) /\ proc'[p].pc = "list" /\ proc'[p].kept = proc[p].kept
         \/ /\ Fits(p, FileSize(Object(i))) /\ proc'[p].pc = "list"
            /\ proc'[p].kept = proc[p].kept + FileSize(Object(i))
         \/ /\ proc'[p].pc = "evict" /\ proc'[p].victim = i /\ proc'[p].kept = proc[p].kept
    BY <1>4, <1>5
<1> HIDE DEF s, i
<1>7. FileSize(Object(i))' = FileSize(Object(i))
    BY <1>5 DEF FileSize, Object
<1>8. ASSUME NEW j \in Passed(p)', j # i PROVE j \in Passed(p)
    <2>1. j \in Ids /\ \A d \in proc[p].dated \ {e} : d[2] # j
        BY <1>6, <1>8 DEF Passed
    <2>2. \A d \in proc[p].dated : d[2] # j
        BY <1>8, <2>1 DEF i
    <2> QED BY <1>1, <2>1, <2>2 DEF Passed, At
<1>9. proc'[p].pc = "evict" /\ proc'[p].victim = i => i \notin Passed(p)'
    BY DEF Passed, At
<1>10. ~Exists(Object(i)) => FileSize(Object(i)) = 0
    BY DEF Exists, FileSize
<1>11. Counts(p)
    <2>1. CASE ~Exists(Object(i)) /\ proc'[p].kept = proc[p].kept
        BY <1>1, <1>3, <1>7, <1>8, <1>10, <2>1 DEF Counts
    <2>2. CASE proc'[p].kept = proc[p].kept + FileSize(Object(i))
        BY <1>3, <1>7, <1>8, <2>2 DEF Counts
    <2>3. CASE proc'[p].pc = "evict" /\ proc'[p].victim = i /\ proc'[p].kept = proc[p].kept
        BY <1>3, <1>8, <1>9, <2>3 DEF Counts
    <2> QED BY <1>6, <2>1, <2>2, <2>3
<1> QED BY <1>1, <1>5, <1>6, <1>11 DEF CleaningUp, At, Fits

LEMMA EvictCounts ==
    ASSUME CacheInv, NEW p \in Procs, EvictObject(p) \/ EvictSignature(p)
    PROVE  /\ \A f \in Objects : file'[f] \in {file[f], Absent}
           /\ CleaningUp(p) /\ CleaningUp(p)' /\ proc'[p].kept = proc[p].kept /\ Counts(p)
<1>1. TypeOK /\ proc[p].victim \in Ids /\ proc[p].kept \in Nat
    BY StateTypes, CacheConstants DEF CacheInv, EvictObject, EvictSignature, At, StateOK, States
<1> PICK i \in Ids : i = proc[p].victim
    BY <1>1
<1>2. PICK label \in {"evictSignature", "list"} : GoTo(p, label)
    BY DEF EvictObject, EvictSignature
<1>3. /\ proc'[p].pc = label /\ proc'[p].todo = proc[p].todo /\ proc'[p].dated = proc[p].dated
      /\ proc'[p].kept = proc[p].kept /\ proc'[p].victim = i
    BY <1>1, <1>2, GoToFields
<1>4. Passed(p)' \subseteq Passed(p) \cup {i}
    BY <1>3 DEF Passed
<1>5. CASE EvictObject(p)
    <2>1. file' = [file EXCEPT ![Object(i)] = Absent]
        BY <1>5 DEF EvictObject, Remove
    <2>2. FileSize(Object(i))' = 0
        <3>1. file'[Object(i)] = Absent
            BY <1>1, <2>1, FileNames DEF TypeOK, DiskOK
        <3> QED BY <3>1 DEF FileSize, Object
    <2>3. \A f \in Objects : file'[f] \in {file[f], Absent}
        BY <1>1, <2>1 DEF TypeOK, DiskOK
    <2>4. proc[p].pc = "evict"
        BY <1>5 DEF EvictObject, At
    <2>5. proc'[p].kept = proc[p].kept + FileSize(Object(i))'
        BY <1>1, <1>3, <2>2
    <2>6. Counts(p)
        BY <1>1, <1>4, <2>5 DEF Counts
    <2> QED BY <1>2, <1>3, <2>3, <2>4, <2>6 DEF CleaningUp, At
<1>6. CASE EvictSignature(p)
    <2>1. file' = [file EXCEPT ![Sig(i)] = Absent]
        BY <1>6 DEF EvictSignature, Remove
    <2>2. \A f \in Objects : file'[f] \in {file[f], Absent}
        BY <1>1, <2>1 DEF TypeOK, DiskOK
    <2>3. proc[p].pc = "evictSignature"
        BY <1>6 DEF EvictSignature, At
    <2>4. Passed(p)' \subseteq Passed(p)
        BY <1>3, <2>3 DEF Passed, At
    <2> QED BY <1>1, <1>2, <1>3, <1>4, <2>2, <2>3, <2>4 DEF Counts, CleaningUp, At
<1> QED BY <1>5, <1>6

\* One step, whoever takes it.
LEMMA StepKeepsClean ==
    ASSUME CacheInv, CleanInv, \A q \in Procs : Fresh(q), NEW p \in Procs, Step(p), TypeOK'
    PROVE  CleanInv'
<1>1. /\ TypeOK /\ \A q \in Procs \ {p} : proc'[q] = proc[q]
      /\ \A q \in Procs : proc[q].kept \in Nat /\ proc'[q].kept \in Nat /\ proc[q].kept < SizeLimit
      /\ proc \in [Procs -> States] /\ SizeLimit \in Nat \ {0}
    <2>1. TypeOK /\ \A q \in Procs \ {p} : proc'[q] = proc[q]
        BY StepShape DEF CacheInv
    <2>2. proc \in [Procs -> States] /\ proc' \in [Procs -> States]
        BY <2>1 DEF TypeOK
    <2>3. SizeLimit \in Nat \ {0} /\ \A t \in States : t.kept \in Nat
        BY CacheConstants DEF States
    <2> QED BY <2>1, <2>2, <2>3 DEF CleanInv
<1>2. ASSUME NEW q \in Procs \ {p}
      PROVE  Passed(q)' = Passed(q) /\ CleaningUp(q)' = CleaningUp(q) /\ At(q, "done")' = At(q, "done")
             /\ proc'[q].kept = proc[q].kept
    BY <1>1 DEF Passed, CleaningUp, At
<1> DEFINE Cleaned(q) == CleaningUp(q) \/ At(q, "done")
           Covered(q) == CleaningUp(q) /\ Total(Sizes, Passed(q)) <= proc[q].kept
<1>3. ASSUME \A f \in Objects : file'[f] \in {file[f], Absent}, NEW q \in Procs \ {p}, Covered(q)
      PROVE  Covered(q)'
    <2>1. \A o \in Objects : Sizes[o] \in Nat /\ Sizes'[o] \in Nat /\ Sizes'[o] <= Sizes[o]
        BY <1>1, <1>3, SizesShrink
    <2>2. Passed(q) \subseteq Ids
        BY DEF Passed
    <2>3. Total(Sizes', Passed(q)) <= Total(Sizes, Passed(q)) /\ Total(Sizes', Passed(q)) \in Nat
          /\ Total(Sizes, Passed(q)) \in Nat
        BY <2>1, <2>2, TotalMonotone, TotalNat
    <2>4. Total(Sizes, Passed(q))' = Total(Sizes', Passed(q)')
        BY DEF Total, Files, Object
    <2> QED BY <1>1, <1>2, <1>3, <2>3, <2>4
<1>4. ASSUME \A f \in Objects : file'[f] \in {file[f], Absent}, Total(Sizes, Ids) < SizeLimit
      PROVE  Total(Sizes, Ids)' < SizeLimit
    <2>1. \A o \in Objects : Sizes[o] \in Nat /\ Sizes'[o] \in Nat /\ Sizes'[o] <= Sizes[o]
        BY <1>1, <1>4, SizesShrink
    <2>2. Total(Sizes', Ids) <= Total(Sizes, Ids) /\ Total(Sizes', Ids) \in Nat /\ Total(Sizes, Ids) \in Nat
        BY <2>1, TotalMonotone, TotalNat
    <2>3. Total(Sizes, Ids)' = Total(Sizes', Ids)
        BY DEF Total, Files, Object
    <2> QED BY <1>1, <1>4, <2>2, <2>3
<1> SUFFICES /\ proc'[p].kept < SizeLimit
             /\ (\A q \in Procs : Cleaned(q)') =>
                   Total(Sizes, Ids)' < SizeLimit \/ \E q \in Procs : Covered(q)'
    BY <1>1, <1>2 DEF CleanInv
<1>5. CASE ~Ends(p) /\ ~Cleans(p)
    <2>1. ~CleaningUp(p)' /\ ~At(p, "done")'
        BY <1>5, OnlyCleansUp
    <2>2. proc'[p].kept = 0
        BY <1>5, <2>1, StepFields DEF CleaningUp, At
    <2> QED BY <1>1, <2>1, <2>2
<1>6. CASE Ends(p)
    <2>1. proc'[p].kept = 0 /\ (Cleaned(p)' => Finish(p))
        BY <1>1, <1>6, EndFields DEF CleaningUp, At
    <2>2. SUFFICES ASSUME Finish(p), \A q \in Procs : Cleaned(q)'
                   PROVE  Total(Sizes, Ids)' < SizeLimit \/ \E q \in Procs : Covered(q)'
        BY <1>1, <2>1
    <2>3. file' = file /\ CleaningUp(p) /\ Passed(p) = Ids
        BY <2>2 DEF Finish, Locally, disk, Walking, CleaningUp, Passed, At
    <2>4. \A q \in Procs : Cleaned(q)
        BY <1>2, <2>2, <2>3
    <2>5. CASE Total(Sizes, Ids) < SizeLimit
        BY <1>4, <2>3, <2>5
    <2>6. CASE Covered(p)
        <3>1. Total(Sizes, Ids) \in Nat
            BY <1>1, <2>3, SizesShrink, TotalNat
        <3>2. Total(Sizes, Ids) < SizeLimit
            BY <1>1, <2>3, <2>6, <3>1
        <3> QED BY <1>4, <2>3, <3>2
    <2>7. CASE \E q \in Procs \ {p} : Covered(q)
        BY <1>3, <2>3, <2>7
    <2> QED BY <2>4, <2>5, <2>6, <2>7 DEF CleanInv
<1>7. CASE List(p)
    <2> DEFINE s == [proc[p] EXCEPT !.todo = {i \in Ids : Exists(Object(i))}, !.pc = "list"]
    <2>1. s.todo = {i \in Ids : Exists(Object(i))} /\ s.kept = proc[p].kept /\ s.pc = "list"
        BY <1>1 DEF States
    <2>2. proc'[p] = s /\ file' = file
        BY <1>1, <1>7, BecomePc DEF List, Locally, disk
    <2> HIDE DEF s
    <2>3. Passed(p)' \subseteq Ids /\ \A i \in Passed(p)' : ~Exists(Object(i))
        BY <2>1, <2>2 DEF Passed
    <2>4. \A i \in Passed(p)' : Sizes'[Object(i)] = 0
        <3>1. \A i \in Ids : Sizes'[Object(i)] = FileSize(Object(i))
            BY <1>1, <2>2, SizesShrink
        <3> QED BY <2>3, <3>1 DEF FileSize, Exists
    <2>5. Total(Sizes, Passed(p))' = 0
        <3>1. Total(Sizes', Passed(p)') = 0
            BY <2>3, <2>4, TotalZero
        <3> QED BY <3>1 DEF Total, Files, Object
    <2> QED BY <1>1, <2>1, <2>2, <2>5 DEF CleaningUp, At
<1>8. CASE Cleans(p) /\ ~List(p)
    <2>1. /\ \A f \in Objects : file'[f] \in {file[f], Absent}
          /\ CleaningUp(p) /\ CleaningUp(p)' /\ proc'[p].kept < SizeLimit /\ Counts(p)
        <3>1. CASE Date(p)
            BY <1>1, <3>1, DateCounts
        <3>2. CASE Measure(p)
            BY <1>1, <3>2, MeasureCounts
        <3>3. CASE EvictObject(p) \/ EvictSignature(p)
            BY <1>1, <3>3, EvictCounts
        <3> QED BY <1>8, <3>1, <3>2, <3>3 DEF Cleans
    <2> SUFFICES ASSUME \A q \in Procs : Cleaned(q)'
                 PROVE  Total(Sizes, Ids)' < SizeLimit \/ \E q \in Procs : Covered(q)'
        BY <2>1
    <2>2. \A q \in Procs : Cleaned(q)
        BY <1>2, <2>1
    <2>3. CASE Total(Sizes, Ids) < SizeLimit
        BY <1>4, <2>1, <2>3
    <2>4. CASE \E q \in Procs \ {p} : Covered(q)
        BY <1>3, <2>1, <2>4
    <2>5. CASE Covered(p)
        <3>1. PICK i \in Ids :
                  /\ Passed(p)' \subseteq Passed(p) \cup {i}
                  /\ \/ Passed(p)' \subseteq Passed(p) /\ proc'[p].kept = proc[p].kept
                     \/ proc'[p].kept = proc[p].kept + FileSize(Object(i))'
            BY <2>1 DEF Counts
        <3>2. \A o \in Objects : Sizes[o] \in Nat /\ Sizes'[o] \in Nat /\ Sizes'[o] <= Sizes[o]
            BY <1>1, <2>1, SizesShrink
        <3>3. Sizes'[Object(i)] = FileSize(Object(i))' /\ Sizes'[Object(i)] \in Nat
            <4>1. Object(i) \in Objects
                BY FileNames
            <4>2. Sizes'[Object(i)] = FileSize(Object(i))'
                BY <4>1 DEF Sizes, Objects, Object
            <4> QED BY <3>2, <4>1, <4>2
        <3>4. Passed(p) \subseteq Ids /\ Passed(p)' \subseteq Ids
            BY DEF Passed
        <3>5. Total(Sizes, Passed(p))' = Total(Sizes', Passed(p)')
            BY DEF Total, Files, Object
        <3>6. Total(Sizes, Passed(p)) \in Nat /\ Total(Sizes', Passed(p)') \in Nat
            BY <3>2, <3>4, TotalNat
        <3>7. CASE Passed(p)' \subseteq Passed(p) /\ proc'[p].kept = proc[p].kept
            <4>1. Total(Sizes', Passed(p)') <= Total(Sizes, Passed(p))
                BY <3>2, <3>4, <3>7, TotalMonotone
            <4>2. Total(Sizes', Passed(p)') <= proc'[p].kept
                BY <1>1, <2>5, <3>6, <3>7, <4>1
            <4> QED BY <2>1, <3>5, <4>2
        <3>8. CASE proc'[p].kept = proc[p].kept + FileSize(Object(i))'
            <4>1. Total(Sizes', Passed(p)') <= Total(Sizes, Passed(p)) + Sizes'[Object(i)]
                BY <3>1, <3>2, <3>4, TotalWith
            <4>2. Total(Sizes', Passed(p)') <= proc'[p].kept
                BY <1>1, <2>5, <3>3, <3>6, <3>8, <4>1
            <4> QED BY <2>1, <3>5, <4>2
        <3> QED BY <3>1, <3>7, <3>8
    <2> QED BY <2>2, <2>3, <2>4, <2>5 DEF CleanInv
<1> QED BY <1>5, <1>6, <1>7, <1>8 DEF Cleans

LEMMA UntouchedKeepsClean ==
    ASSUME CleanInv, UNCHANGED <<file, proc>>
    PROVE  CleanInv'
<1>1. /\ \A p \in Procs : /\ CleaningUp(p)' = CleaningUp(p) /\ At(p, "done")' = At(p, "done")
                            /\ Passed(p)' = Passed(p) /\ proc'[p].kept = proc[p].kept
      /\ Sizes' = Sizes
    BY DEF CleaningUp, At, Passed, Sizes, FileSize, Objects, Object
<1>2. \A S : Total(Sizes, S)' = Total(Sizes, S)
    BY <1>1 DEF Total, Files, Object
<1>3. \A p \in Procs : Total(Sizes, Passed(p))' = Total(Sizes, Passed(p))
    BY <1>1 DEF Total, Files, Object
<1> QED BY <1>1, <1>2, <1>3 DEF CleanInv

\* No process has listed the directory at first, and nothing is there.
LEMMA InitClean == Init => CleanInv
<1> SUFFICES ASSUME Init PROVE CleanInv
    OBVIOUS
<1>1. \A p \in Procs : proc[p].kept = 0 /\ ~CleaningUp(p)
    BY DEF Init, Stopped, CleaningUp, At
<1>2. \A i \in Ids : Sizes[Object(i)] = 0
    BY FileNames DEF Init, Sizes, FileSize
<1>3. Total(Sizes, Ids) = 0
    BY <1>2, TotalZero
<1> QED BY <1>1, <1>3, CacheConstants DEF CleanInv

\* However many clean-ups overlap, with each other and with writers, and whoever
\* is faster: once all processes have ended as they should, the objects that are
\* left are below the limit (cleanUpObjectCacheFiles).
THEOREM CleanedUp == Spec => []CleanAtTheEnd
<1>1. CleanInv => CleanAtTheEnd
    <2> SUFFICES ASSUME CleanInv, \A p \in Procs : At(p, "done")
                 PROVE  SumFunction(Sizes) < SizeLimit
        BY DEF CleanAtTheEnd
    <2>1. Total(Sizes, Ids) < SizeLimit
        BY DEF CleanInv, CleaningUp, At
    <2>2. Files(Ids) = DOMAIN Sizes
        BY DEF Files, Sizes, Objects
    <2> QED BY <2>1, <2>2 DEF Total, SumFunction
<1>2. CacheInv /\ SequentialInv /\ CleanInv /\ [Next]_vars /\ TypeOK' => CleanInv'
    <2> SUFFICES ASSUME CacheInv, SequentialInv, CleanInv, [Next]_vars, TypeOK'
                 PROVE  CleanInv'
        OBVIOUS
    <2>1. CASE \E p \in Procs : Step(p)
        BY <2>1, StepKeepsClean DEF SequentialInv, SoleInv
    <2>2. CASE Tick \/ Terminated \/ UNCHANGED vars
        BY <2>2, UntouchedKeepsClean DEF Tick, Terminated, vars, disk
    <2> QED BY <2>1, <2>2 DEF Next
<1> QED BY <1>1, <1>2, InitClean, SequentialInvariant, CacheTypeCorrect, PTL DEF Spec

=============================================================================
