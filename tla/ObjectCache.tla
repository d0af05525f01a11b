---------------------------- MODULE ObjectCache ----------------------------
(***************************************************************************)
(* The cache of compiled kernels (toolchain/object_cache.cpp) as the CPU   *)
(* driver uses it (toolchain/cpudriver.cpp, finalizeObject): several       *)
(* processes share a directory without a lock.  For each module id the     *)
(* directory holds an object file and, for kernels that have a signature,  *)
(* a signature file.  Each file-system call is a step of its own, and a    *)
(* process may be killed between any two of them.                          *)
(***************************************************************************)
EXTENDS Integers, Sequences, FiniteSets, Functions

CONSTANTS
    Procs,          \* processes, each of which runs one pipeline
    Kernels,        \* the kernels that occur in their pipelines
    Ids,            \* module identifiers, ordered as file names are
    ModuleId,       \* [Kernels -> Ids]
    Signature,      \* [Kernels -> the text that makeSignature returns]
    Signed,         \* the kernels for which hasSignature() holds
    Cachable,       \* the kernels for which isCachable() holds
    Pipeline,       \* [Procs -> Seq(Kernels)]
    Size,           \* [Kernels -> size of the object file]
    SizeLimit,      \* CACHE_SIZE_LIMIT
    MaxTime,        \* bound on the clock, in seconds
    MaxKills,       \* bound on the processes that are killed
    MaxActive       \* bound on the processes that run at once

ASSUME CacheConstants ==
    /\ Ids \subseteq Nat /\ IsFiniteSet(Ids)
    /\ ModuleId \in [Kernels -> Ids]
    /\ Signed \subseteq Kernels /\ Cachable \subseteq Kernels
    /\ Pipeline \in [Procs -> Seq(Kernels) \ {<<>>}]
    /\ Size \in [Kernels -> Nat \ {0}]
    /\ SizeLimit \in Nat \ {0} /\ MaxTime \in Nat

Absent  == "absent"     \* there is no such file, or nothing was loaded
Partial == "partial"    \* truncated, and not yet written

Signatures == {Signature[k] : k \in Kernels}

\* An identifier alone tells a kernel without a signature from all others, and
\* with the signature it tells any kernel (kernels/kernel.h:67-74); the
\* kernels of one pipeline have different identifiers or are the same.
ASSUME KernelNames ==
    /\ {Absent, Partial} \cap (Kernels \cup Signatures) = {}
    /\ \A k, l \in Kernels :
          ModuleId[k] = ModuleId[l] /\ (k \notin Signed \/ Signature[k] = Signature[l]) => k = l
    /\ \A p \in Procs : \A i, j \in DOMAIN Pipeline[p] :
          ModuleId[Pipeline[p][i]] = ModuleId[Pipeline[p][j]] => Pipeline[p][i] = Pipeline[p][j]

VARIABLES
    file,       \* content of each file of the directory
    writers,    \* the processes that hold the present file open for writing
    mtime,      \* time of the last change of each object file
    now,        \* time(0)
    proc,       \* the state of each process
    overlapped, \* history: two processes have been active at once
    evicted,    \* history: an object has been removed
    lastUse     \* history: when each object was last compiled, or loaded if unsigned

disk    == <<file, writers, mtime>>
history == <<overlapped, evicted, lastUse>>
vars    == <<disk, now, proc, history>>

Object(i) == <<i, ".o">>
Sig(i)    == <<i, ".sig">>
Objects   == {Object(i) : i \in Ids}
Sigs      == {Sig(i) : i \in Ids}
Exists(f) == file[f] # Absent

Ended     == {"done", "dead", "killed"}
Active(p) == proc[p].pc \notin Ended \cup {"idle"}
Killed    == {p \in Procs : proc[p].pc = "killed"}
Kernel(p) == Pipeline[p][proc[p].at]
Id(p)     == ModuleId[Kernel(p)]

\* The state of a process that is not running.
Stopped(label) ==
    [ pc        |-> label,                  \* the next step
      at        |-> 1,                      \* index of the kernel being handled
      buffer    |-> Absent,                 \* what was read from the object file
      loaded    |-> [i \in Ids |-> Absent], \* mCachedObject
      cacheable |-> {},                     \* indices of the modules marked CACHEABLE
      todo      |-> {},                     \* modules to finalize, entries to look up
      dated     |-> {},                     \* clean-up: entries listed, with their dates
      kept      |-> 0,                      \* clean-up: cacheSize
      victim    |-> 0 ]                     \* clean-up: the object being removed

Init ==
    /\ file = [f \in Objects \cup Sigs |-> Absent]
    /\ writers = [f \in Objects \cup Sigs |-> {}]
    /\ mtime = [i \in Ids |-> 0]
    /\ now = 0
    /\ proc = [p \in Procs |-> Stopped("idle")]
    /\ overlapped = FALSE
    /\ evicted = FALSE
    /\ lastUse = [i \in Ids |-> 0]

\* A step of p from a label, and the state it leads to.
At(p, label)     == proc[p].pc = label
Become(p, state) == proc' = [proc EXCEPT ![p] = state]
Locally(p, state) == Become(p, state) /\ UNCHANGED <<disk, history>>
GoTo(p, label)   == Become(p, [proc[p] EXCEPT !.pc = label])
Die(p)           == Locally(p, Stopped("dead"))

Start(p) ==
    /\ At(p, "idle")
    /\ Cardinality({q \in Procs : Active(q)}) < MaxActive
    /\ GoTo(p, "load")
    /\ overlapped' = (overlapped \/ \E q \in Procs : Active(q))
    /\ UNCHANGED <<disk, evicted, lastUse>>

-----------------------------------------------------------------------------
(* loadCachedObjectFile, called for each kernel of the pipeline in turn.   *)

\* Mutated form: the index of the last kernel is passed.
OnwardPastLast(p, state) ==
    IF state.at <= Len(Pipeline[p]) THEN [state EXCEPT !.at = @ + 1, !.pc = "load"]
    ELSE [state EXCEPT !.todo = 1 .. Len(Pipeline[p]), !.pc = "finalize"]

\* The driver goes on to the next kernel, or to the execution engine.
Onward(p, state) ==
    IF state.at < Len(Pipeline[p]) THEN [state EXCEPT !.at = @ + 1, !.pc = "load"]
    ELSE [state EXCEPT !.todo = 1 .. Len(Pipeline[p]), !.pc = "finalize"]

\* A kernel that may be cached, and whose module has not been loaded before.
Wanted(p) == Kernel(p) \in Cachable /\ proc[p].loaded[Id(p)] = Absent

SkipLoad(p) ==
    /\ At(p, "load") /\ ~Wanted(p)
    /\ Locally(p, Onward(p, proc[p]))

\* No object file: the module is to be written once it is compiled.
Miss(p) ==
    /\ At(p, "load") /\ Wanted(p) /\ ~Exists(Object(Id(p)))
    /\ Locally(p, Onward(p, [proc[p] EXCEPT !.cacheable = @ \cup {proc[p].at}]))

ReadObject(p) ==
    /\ At(p, "load") /\ Wanted(p) /\ Exists(Object(Id(p)))
    /\ Locally(p, [proc[p] EXCEPT !.buffer = file[Object(Id(p))],
                                  !.pc = IF Kernel(p) \in Signed THEN "signature" ELSE "touch"])

\* Mutated form: any signature will do.
AnySignature(p) == TRUE

SameSignature(p) == file[Sig(Id(p))] = Signature[Kernel(p)]

\* Another kernel's object is a miss, whose module is not marked for writing.
ReadSignature(p) ==
    /\ At(p, "signature") /\ Exists(Sig(Id(p)))
    /\ Locally(p, IF SameSignature(p) THEN [proc[p] EXCEPT !.pc = "touch"]
                  ELSE Onward(p, [proc[p] EXCEPT !.buffer = Absent]))

\* report_fatal_error("signature file expected but not found")
NoSignature(p) == At(p, "signature") /\ ~Exists(Sig(Id(p))) /\ Die(p)

\* last_write_time is given objectName, which by now is the name of the
\* signature file if there is one.
Touched(p) == IF Kernel(p) \in Signed THEN Sig(Id(p)) ELSE Object(Id(p))

\* Mutated form: the date of the object is left as it was.
DateUnchanged(p) == mtime

DatesAfterLoad(p) == IF Kernel(p) \in Signed THEN mtime ELSE [mtime EXCEPT ![Id(p)] = now]

Touch(p) ==
    /\ At(p, "touch") /\ Exists(Touched(p))
    /\ mtime' = DatesAfterLoad(p)
    /\ lastUse' = IF Kernel(p) \in Signed THEN lastUse ELSE [lastUse EXCEPT ![Id(p)] = now]
    /\ Become(p, Onward(p, [proc[p] EXCEPT !.loaded[Id(p)] = proc[p].buffer, !.buffer = Absent]))
    /\ UNCHANGED <<file, writers, overlapped, evicted>>

\* The file went after it was read: last_write_time throws.
TouchGone(p) == At(p, "touch") /\ ~Exists(Touched(p)) /\ Die(p)

-----------------------------------------------------------------------------
(* mEngine->finalizeObject(): each module, in whatever order the engine    *)
(* keeps them, is taken from the cache (getObject) or compiled             *)
(* (notifyObjectCompiled).                                                 *)

Loaded(p, i) == proc[p].loaded[ModuleId[Pipeline[p][i]]]
Finalized(p, i) == [proc[p] EXCEPT !.todo = @ \ {i}]

\* getObject returns the loaded object, and MCJIT links it.
UseCached(p) ==
    /\ At(p, "finalize")
    /\ \E i \in proc[p].todo : Loaded(p, i) \notin {Absent, Partial} /\ Locally(p, Finalized(p, i))

\* MCJIT cannot parse a truncated object file: a fatal error.
UseTruncated(p) ==
    /\ At(p, "finalize")
    /\ \E i \in proc[p].todo : Loaded(p, i) = Partial
    /\ Die(p)

CompileUncached(p) ==
    /\ At(p, "finalize")
    /\ \E i \in proc[p].todo \ proc[p].cacheable :
           Loaded(p, i) = Absent /\ Locally(p, Finalized(p, i))

\* raw_fd_ostream with F_None: the file is created, or truncated.
Open(p, f) ==
    /\ file' = [file EXCEPT ![f] = Partial]
    /\ writers' = [writers EXCEPT ![f] = @ \cup {p}]

\* Mutated form: closed before it was flushed.
CloseUnwritten(p, f, data) ==
    /\ UNCHANGED file
    /\ writers' = [writers EXCEPT ![f] = @ \ {p}]

\* What is written goes to the file that was opened: it is lost when that
\* file has been removed since.
WriteAndClose(p, f, data) ==
    /\ file' = IF p \in writers[f] THEN [file EXCEPT ![f] = data] ELSE file
    /\ writers' = [writers EXCEPT ![f] = @ \ {p}]

CompileAndOpen(p) ==
    /\ At(p, "finalize")
    /\ \E i \in proc[p].todo \cap proc[p].cacheable :
        /\ Loaded(p, i) = Absent
        /\ Open(p, Object(ModuleId[Pipeline[p][i]]))
        /\ mtime' = [mtime EXCEPT ![ModuleId[Pipeline[p][i]]] = now]
        /\ Become(p, [Finalized(p, i) EXCEPT !.at = i, !.pc = "writeObject"])
    /\ UNCHANGED history

\* Mutated form: the signature is never written.
NothingMore(p) == "finalize"

AfterObject(p) == IF Kernel(p) \in Signed THEN "openSignature" ELSE "finalize"

WriteObject(p) ==
    /\ At(p, "writeObject")
    /\ WriteAndClose(p, Object(Id(p)), Kernel(p))
    /\ mtime' = IF p \in writers[Object(Id(p))] THEN [mtime EXCEPT ![Id(p)] = now] ELSE mtime
    /\ lastUse' = [lastUse EXCEPT ![Id(p)] = now]
    /\ GoTo(p, AfterObject(p))
    /\ UNCHANGED <<overlapped, evicted>>

OpenSignature(p) ==
    /\ At(p, "openSignature")
    /\ Open(p, Sig(Id(p)))
    /\ GoTo(p, "writeSignature")
    /\ UNCHANGED <<mtime, history>>

WriteSignature(p) ==
    /\ At(p, "writeSignature")
    /\ WriteAndClose(p, Sig(Id(p)), Signature[Kernel(p)])
    /\ GoTo(p, "finalize")
    /\ UNCHANGED <<mtime, history>>

-----------------------------------------------------------------------------
(* cleanUpObjectCacheFiles: list and date the object files, then walk them *)
(* from the latest to the earliest and remove what exceeds the limit.      *)

List(p) ==
    /\ At(p, "finalize") /\ proc[p].todo = {}
    /\ Locally(p, [proc[p] EXCEPT !.todo = {i \in Ids : Exists(Object(i))}, !.pc = "list"])

IsFirst(p, i) == \A j \in proc[p].todo : i <= j

\* is_regular_file and last_write_time of one entry.  The directory's order
\* is left open by directory_iterator; here it is that of the names.
Date(p) ==
    /\ At(p, "list")
    /\ \E i \in proc[p].todo :
        /\ IsFirst(p, i)
        /\ Locally(p, [proc[p] EXCEPT
               !.todo = @ \ {i},
               !.dated = IF Exists(Object(i)) THEN @ \cup {<<mtime[i], i>>} ELSE @])

\* The entry went after is_regular_file: last_write_time throws.
DateGone(p) ==
    /\ At(p, "list")
    /\ \E i \in proc[p].todo : IsFirst(p, i) /\ ~Exists(Object(i))
    /\ Die(p)

\* std::greater on pairs of a date and a name
Precedes(e, f) == e[1] > f[1] \/ (e[1] = f[1] /\ e[2] > f[2])
IsLatest(p, e) == \A f \in proc[p].dated \ {e} : Precedes(e, f)
Walking(p)     == At(p, "list") /\ proc[p].todo = {}

FileSize(f) == IF file[f] \in {Absent, Partial} THEN 0 ELSE Size[file[f]]

\* Mutated form: the limit itself still fits.
FitsExactly(p, s) == proc[p].kept + s <= SizeLimit

Fits(p, s) == proc[p].kept + s < SizeLimit

\* exists and file_size of the latest entry, and what its size leads to
Measure(p) ==
    /\ Walking(p)
    /\ \E e \in proc[p].dated :
        LET size == FileSize(Object(e[2]))
            rest == [proc[p] EXCEPT !.dated = @ \ {e}]
        IN  /\ IsLatest(p, e)
            /\ Locally(p, IF ~Exists(Object(e[2])) THEN rest
                          ELSE IF Fits(p, size) THEN [rest EXCEPT !.kept = @ + size]
                          ELSE [rest EXCEPT !.victim = e[2], !.pc = "evict"])

\* The object went after exists(): file_size throws.
MeasureGone(p) ==
    /\ Walking(p)
    /\ \E e \in proc[p].dated : IsLatest(p, e) /\ ~Exists(Object(e[2]))
    /\ Die(p)

Remove(f) ==
    /\ file' = [file EXCEPT ![f] = Absent]
    /\ writers' = [writers EXCEPT ![f] = {}]

\* Mutated form: the extension is replaced before the first removal.
EvictSignatureTwice(p) ==
    /\ At(p, "evict")
    /\ Remove(Sig(proc[p].victim))
    /\ evicted' = TRUE
    /\ GoTo(p, "evictSignature")
    /\ UNCHANGED <<mtime, overlapped, lastUse>>

EvictObject(p) ==
    /\ At(p, "evict")
    /\ Remove(Object(proc[p].victim))
    /\ evicted' = TRUE
    /\ GoTo(p, "evictSignature")
    /\ UNCHANGED <<mtime, overlapped, lastUse>>

EvictSignature(p) ==
    /\ At(p, "evictSignature")
    /\ Remove(Sig(proc[p].victim))
    /\ GoTo(p, "list")
    /\ UNCHANGED <<mtime, history>>

Finish(p) == Walking(p) /\ proc[p].dated = {} /\ Locally(p, Stopped("done"))

-----------------------------------------------------------------------------
\* A process is killed (a signal, or an error outside of the cache).  The
\* files it has open stay as they are.
Kill(p) ==
    /\ Active(p)
    /\ Cardinality(Killed) < MaxKills
    /\ Become(p, Stopped("killed"))
    /\ writers' = [f \in DOMAIN writers |-> writers[f] \ {p}]
    /\ UNCHANGED <<file, mtime, history>>

\* Bound: the clock, whose unit is a second, stands still while a process runs.
Tick ==
    /\ now < MaxTime
    /\ \A p \in Procs : ~Active(p)
    /\ now' = now + 1
    /\ UNCHANGED <<disk, proc, history>>

Terminated ==
    /\ \A p \in Procs : proc[p].pc \in Ended
    /\ UNCHANGED vars

Step(p) ==
    \/ Start(p)
    \/ SkipLoad(p) \/ Miss(p) \/ ReadObject(p) \/ ReadSignature(p) \/ NoSignature(p)
    \/ Touch(p) \/ TouchGone(p)
    \/ UseCached(p) \/ UseTruncated(p) \/ CompileUncached(p)
    \/ CompileAndOpen(p) \/ WriteObject(p) \/ OpenSignature(p) \/ WriteSignature(p)
    \/ List(p) \/ Date(p) \/ DateGone(p)
    \/ Measure(p) \/ MeasureGone(p) \/ EvictObject(p) \/ EvictSignature(p)
    \/ Finish(p)
    \/ Kill(p)

Next ==
    \/ \E p \in Procs : Step(p) /\ UNCHANGED now
    \/ Tick
    \/ Terminated

Spec == Init /\ [][Next]_vars
-----------------------------------------------------------------------------
Labels == Ended \cup {"idle", "load", "signature", "touch", "finalize", "writeObject",
              "openSignature", "writeSignature", "list", "evict", "evictSignature"}
Data   == Kernels \cup {Absent, Partial}
States == [ pc : Labels, at : Nat, buffer : Data, loaded : [Ids -> Data], cacheable : SUBSET Nat,
            todo : SUBSET Nat, dated : SUBSET ((0 .. MaxTime) \X Ids), kept : 0 .. SizeLimit,
            victim : Ids \cup {0} ]

DiskOK ==
    /\ file \in [Objects \cup Sigs -> Data \cup Signatures]
    /\ \A i \in Ids : file[Object(i)] \in Data /\ file[Sig(i)] \in {Absent, Partial} \cup Signatures
    /\ writers \in [Objects \cup Sigs -> SUBSET Procs]
    /\ mtime \in [Ids -> 0 .. MaxTime]

\* What the modules and entries still to be handled are depends on the label.
StateOK(p, state) ==
    /\ state.at \in DOMAIN Pipeline[p] /\ state.cacheable \subseteq DOMAIN Pipeline[p]
    /\ IF state.pc \in {"finalize", "writeObject", "openSignature", "writeSignature"}
       THEN state.todo \subseteq DOMAIN Pipeline[p] ELSE state.todo \subseteq Ids
    /\ state.pc \in {"evict", "evictSignature"} => state.victim \in Ids

TypeOK ==
    /\ DiskOK
    /\ now \in 0 .. MaxTime /\ lastUse \in [Ids -> 0 .. MaxTime]
    /\ overlapped \in BOOLEAN /\ evicted \in BOOLEAN
    /\ proc \in [Procs -> States]
    /\ \A p \in Procs : StateOK(p, proc[p])

\* A kernel whose identifier another kernel shares is told apart by its
\* signature: no process links the object of another kernel, if runs do not
\* overlap and at most one of them was killed (loadCachedObjectFile compares
\* the signatures; notifyObjectCompiled rewrites both files).
NoForeignObject ==
    ~overlapped /\ Cardinality(Killed) <= 1 =>
        \A p \in Procs : \A i \in DOMAIN Pipeline[p] : Loaded(p, i) \in {Absent, Partial, Pipeline[p][i]}

\* As long as runs follow one another and none is killed, none dies, and each
\* leaves the directory in order: complete objects, each with the signature
\* of its kernel when that has one.
SequentialRunsSafe ==
    ~overlapped /\ Killed = {} =>
        /\ \A p \in Procs : ~At(p, "dead")
        /\ (\A p \in Procs : ~Active(p)) =>
             \A i \in Ids : Exists(Object(i)) =>
                 /\ file[Object(i)] # Partial
                 /\ file[Object(i)] \in Signed => file[Sig(i)] = Signature[file[Object(i)]]

\* Only a killed process leaves a truncated file behind; otherwise a process
\* that has the file open is about to complete it (notifyObjectCompiled).
Writing(p, f) == \/ At(p, "writeObject") /\ f = Object(Id(p))
                 \/ At(p, "writeSignature") /\ f = Sig(Id(p))
TruncatedHasWriter ==
    \A f \in DOMAIN file :
        file[f] = Partial => Killed # {} \/ \E p \in writers[f] : Writing(p, f)

\* A complete object without its signature, which is fatal to whoever looks
\* for it, is being completed by its writer, unless a process was killed or a
\* clean-up removed files of that name while a writer wrote them.
OrphanHasCause ==
    \A i \in Ids :
        file[Object(i)] \in Signed /\ ~Exists(Sig(i)) =>
            \/ \E p \in Procs : proc[p].pc \in {"writeObject", "openSignature"} /\ Id(p) = i
            \/ Killed # {}
            \/ evicted /\ overlapped

Sizes == [o \in Objects |-> FileSize(o)]

\* However the clean-ups of several processes interleave, once all have ended
\* the objects left are below the limit: the last process to list the
\* directory has seen the files of all.
CleanAtTheEnd ==
    (\A p \in Procs : At(p, "done")) =>
        SumFunction(Sizes) < SizeLimit

\* Of the objects that a clean-up walks, one goes only if no object of at
\* least its size that was used earlier stays (the order of
\* cleanUpObjectCacheFiles, by dates that loadCachedObjectFile refreshes).
\* Loading an object that has a signature is not counted as a use: the date
\* of its signature file is refreshed instead.
EvictsLeastRecentlyUsed ==
    [][\A p \in Procs : EvictObject(p) /\ ~overlapped =>
          \A i \in Ids \ {proc[p].victim} :
              LET gone == Object(proc[p].victim) IN
              /\ Exists(Object(i)) /\ Exists(gone)
              /\ FileSize(Object(i)) >= FileSize(gone)
              /\ lastUse[i] < lastUse[proc[p].victim]
              => \E e \in proc[p].dated : e[2] = i]_vars
=============================================================================
