--------------------------- MODULE BuildProcesses ---------------------------
(***************************************************************************)
(* Concurrent runs of the build script main() of build.rs on one source    *)
(* tree, as happens when several dependent builds compile zenoh-c at once: *)
(* every run writes the same files under include/ (relative to the crate). *)
(*                                                                         *)
(* A run goes through generate_opaque_types, cbindgen, create_generics_    *)
(* header, configure, split_bindings, text_replace and the copy of         *)
(* include/ to the target directory.  Every access to a shared file is a   *)
(* step of its own; a step that takes an flock, makes a single access and  *)
(* releases it is one atomic step, since the lock only excludes the other  *)
(* runs' locked sections.  Opening with truncate(true) and File::create    *)
(* truncate the file before any lock is taken.  File contents are          *)
(* abstracted to how complete they are:                                    *)
(*   "empty"     truncated, or written only in part                        *)
(*   "split"     a complete output of split_bindings                       *)
(*   "replaced"  a split output after the text_replace substitutions       *)
(*   "replaced2" the substitutions applied twice (the insertion of         *)
(*               ZENOHC_API before "extern const" is not idempotent)       *)
(* The order in which a run visits the split files is the iteration order  *)
(* of the HashMap that SplitGuide::from_yaml collects, random per process. *)
(***************************************************************************)
EXTENDS Naturals, Sequences, SequencesExt, FiniteSets

CONSTANTS
    Procs,          \* concurrent build-script runs
    SplitFiles,     \* the keys of splitguide.yaml: include/<name>
    NoProc,         \* nobody holds the lock
    SplitOutcomes   \* whether split_bindings returns Ok for this input

ASSUME NoProc \notin Procs
ASSUME SplitOutcomes \subseteq BOOLEAN /\ SplitOutcomes # {}

Contents  == {"empty", "split", "replaced", "replaced2"}
Terminal  == {"done", "failed", "crashed"}

VARIABLES
    txt,        \* .build_resources_opaque_types.txt: "absent", "empty", "full"
    gen,        \* include/zenoh-gen.h: "absent" or "present"
    macros,     \* include/zenoh_macros.h: "empty" or "full"
    conf,       \* include/zenoh_configure.h: "absent", "empty" or "full"
    content,    \* content of each split file
    holder,     \* the run holding each file's exclusive flock
    splitOk,    \* the outcome of split_bindings on this input (same for all)
    pc,         \* the step each run is at
    order,      \* each run's order of split_guide.rules
    k,          \* each run's position in its loop over the split files
    buf,        \* the content text_replace read under the lock
    copied,     \* what copy_items put in the run's target dir
    overlapped  \* (history) two runs have been in progress at the same time

vars == <<txt, gen, macros, conf, content, holder, splitOk, pc, order, k, buf, copied,
          overlapped>>

Steps ==
    {"opaque_create", "opaque_build", "opaque_read", "cbindgen",
     "generics_open", "generics_write", "configure_open", "configure_lock",
     "split_read", "split_open", "split_lock", "split_write", "split_unlock",
     "replace_read", "replace_open", "replace_write", "copy"}
    \cup Terminal

N == Cardinality(SplitFiles)

(* the split file a run's loop is at *)
Cur(p) == order[p][k[p]]

Free(f) == holder[f] = NoProc

(* the three str::replace calls of text_replace, by their effect *)
Replace(c) ==
    CASE c = "split"    -> "replaced"
      [] c = "empty"    -> "empty"
      [] OTHER          -> "replaced2"

Goto(p, s) == pc' = [pc EXCEPT ![p] = s]

(* the target dir before copy_items has run *)
Uncopied == [split |-> [f \in SplitFiles |-> "empty"], macros |-> "empty", conf |-> "absent"]

-----------------------------------------------------------------------------
(* Init: the include/ directory as earlier, possibly aborted, builds left it *)
Init ==
    /\ txt \in {"absent", "full"}
    /\ gen \in {"absent", "present"}
    /\ macros = "full"
    /\ conf \in {"absent", "full"}
    /\ content \in [SplitFiles -> {"empty", "split", "replaced"}]
    /\ holder = [f \in SplitFiles |-> NoProc]
    /\ splitOk \in SplitOutcomes
    /\ pc = [p \in Procs |-> "opaque_create"]
    /\ order \in [Procs -> {s \in [1..N -> SplitFiles] : IsInjective(s)}]
    /\ k = [p \in Procs |-> 1]
    /\ buf = [p \in Procs |-> "empty"]
    /\ copied = [p \in Procs |-> Uncopied]
    /\ overlapped = FALSE

(* generate_opaque_types: File::create truncates the shared output file *)
OpaqueCreate(p) ==
    /\ pc[p] = "opaque_create"
    /\ txt' = "empty"
    /\ Goto(p, "opaque_build")
    /\ UNCHANGED <<gen, macros, conf, content, holder, splitOk, order, k, buf, copied>>

(* cargo build of the opaque-types crate writes the type layouts to it *)
OpaqueBuild(p) ==
    /\ pc[p] = "opaque_build"
    /\ txt' = "full"
    /\ Goto(p, "opaque_read")
    /\ UNCHANGED <<gen, macros, conf, content, holder, splitOk, order, k, buf, copied>>

(* read_to_string finds the layouts; src/opaque_types/mod.rs is written *)
OpaqueRead(p) ==
    /\ pc[p] = "opaque_read"
    /\ txt = "full"
    /\ Goto(p, "cbindgen")
    /\ UNCHANGED <<txt, gen, macros, conf, content, holder, splitOk, order, k, buf, copied>>

(* the file was truncated by another run: no layout is found and the loop *)
(* over the remaining docs panics "Failed to find type information"       *)
OpaqueMissing(p) ==
    /\ pc[p] = "opaque_read"
    /\ txt # "full"
    /\ Goto(p, "crashed")
    /\ UNCHANGED <<txt, gen, macros, conf, content, holder, splitOk, order, k, buf, copied>>

(* mutant: the bindings are written to another path than GENERATION_PATH *)
CbindgenWrongPath(p) ==
    /\ pc[p] = "cbindgen"
    /\ Goto(p, "generics_open")
    /\ UNCHANGED <<txt, gen, macros, conf, content, holder, splitOk, order, k, buf, copied>>

(* cbindgen::generate(...).write_to_file(GENERATION_PATH) *)
Cbindgen(p) ==
    /\ pc[p] = "cbindgen"
    /\ gen' = "present"
    /\ Goto(p, "generics_open")
    /\ UNCHANGED <<txt, macros, conf, content, holder, splitOk, order, k, buf, copied>>

(* create_generics_header opens zenoh_macros.h with truncate, no lock *)
GenericsOpen(p) ==
    /\ pc[p] = "generics_open"
    /\ macros' = "empty"
    /\ Goto(p, "generics_write")
    /\ UNCHANGED <<txt, gen, conf, content, holder, splitOk, order, k, buf, copied>>

(* the find_*_functions read GENERATION_PATH and the macros are written *)
GenericsWrite(p) ==
    /\ pc[p] = "generics_write"
    /\ gen = "present"
    /\ macros' = "full"
    /\ Goto(p, "configure_open")
    /\ UNCHANGED <<txt, gen, conf, content, holder, splitOk, order, k, buf, copied>>

(* GENERATION_PATH was removed by another run: read_to_string(..).unwrap() *)
GenericsNoInput(p) ==
    /\ pc[p] = "generics_write"
    /\ gen = "absent"
    /\ Goto(p, "crashed")
    /\ UNCHANGED <<txt, gen, macros, conf, content, holder, splitOk, order, k, buf, copied>>

(* configure: open with truncate(true), before lock_exclusive *)
ConfigureOpen(p) ==
    /\ pc[p] = "configure_open"
    /\ conf' = "empty"
    /\ Goto(p, "configure_lock")
    /\ UNCHANGED <<txt, gen, macros, content, holder, splitOk, order, k, buf, copied>>

(* configure: lock_exclusive, write_all, unlock; every locked section on *)
(* this file is this single write, so the lock never makes a run wait    *)
ConfigureWrite(p) ==
    /\ pc[p] = "configure_lock"
    /\ conf' = "full"
    /\ Goto(p, "split_read")
    /\ UNCHANGED <<txt, gen, macros, content, holder, splitOk, order, k, buf, copied>>

(* split_bindings reads GENERATION_PATH before opening any split file *)
SplitRead(p) ==
    /\ pc[p] = "split_read"
    /\ gen = "present"
    /\ k' = [k EXCEPT ![p] = 1]
    /\ Goto(p, "split_open")
    /\ UNCHANGED <<txt, gen, macros, conf, content, holder, splitOk, order, buf, copied>>

(* read_to_string(GENERATION_PATH).unwrap() panics: another run removed it *)
SplitNoInput(p) ==
    /\ pc[p] = "split_read"
    /\ gen = "absent"
    /\ Goto(p, "crashed")
    /\ UNCHANGED <<txt, gen, macros, conf, content, holder, splitOk, order, k, buf, copied>>

(* the open of the next split file, with truncate(true), before its lock *)
SplitOpen(p) ==
    /\ pc[p] = "split_open"
    /\ content' = [content EXCEPT ![Cur(p)] = "empty"]
    /\ Goto(p, "split_lock")
    /\ UNCHANGED <<txt, gen, macros, conf, holder, splitOk, order, k, buf, copied>>

(* mutant: the loop over the split files runs one step too far *)
SplitLockOffByOne(p) ==
    /\ pc[p] = "split_lock"
    /\ Free(Cur(p))
    /\ holder' = [holder EXCEPT ![Cur(p)] = p]
    /\ content' = [content EXCEPT ![Cur(p)] = "empty"]
    /\ IF k[p] <= N
       THEN k' = [k EXCEPT ![p] = @ + 1] /\ Goto(p, "split_open")
       ELSE UNCHANGED k /\ Goto(p, "split_write")
    /\ UNCHANGED <<txt, gen, macros, conf, splitOk, order, buf, copied>>

(* lock_exclusive blocks until the file is free, then set_len(0); the lock *)
(* is kept until the end of split_bindings                                *)
SplitLock(p) ==
    /\ pc[p] = "split_lock"
    /\ Free(Cur(p))
    /\ holder' = [holder EXCEPT ![Cur(p)] = p]
    /\ content' = [content EXCEPT ![Cur(p)] = "empty"]
    /\ IF k[p] < N
       THEN k' = [k EXCEPT ![p] = @ + 1] /\ Goto(p, "split_open")
       ELSE UNCHANGED k /\ Goto(p, "split_write")
    /\ UNCHANGED <<txt, gen, macros, conf, splitOk, order, buf, copied>>

(* HEADER and the routed records go into the BufWriters; group_tokens and *)
(* the checks of split_bindings succeed                                   *)
SplitWrite(p) ==
    /\ pc[p] = "split_write"
    /\ splitOk
    /\ Goto(p, "split_unlock")
    /\ UNCHANGED <<txt, gen, macros, conf, content, holder, splitOk, order, k, buf, copied>>

(* mutant: the failed run's flocks are not released when it exits *)
SplitFailKeepsLocks(p) ==
    /\ pc[p] = "split_write"
    /\ ~splitOk
    /\ Goto(p, "failed")
    /\ UNCHANGED <<txt, gen, macros, conf, content, holder, splitOk, order, k, buf, copied>>

(* split_bindings returns Err (grammar or configuration error) and main's  *)
(* unwrap panics with it: the build fails on its invalid input ("failed",  *)
(* not a "crashed" run); the exiting process's flocks are released by the *)
(* kernel                                                                  *)
SplitFail(p) ==
    /\ pc[p] = "split_write"
    /\ ~splitOk
    /\ holder' = [f \in SplitFiles |-> IF holder[f] = p THEN NoProc ELSE holder[f]]
    /\ Goto(p, "failed")
    /\ UNCHANGED <<txt, gen, macros, conf, content, splitOk, order, k, buf, copied>>

(* the final loop over the files HashMap: into_inner flushes the file, then *)
(* unlock; the HashMap visits the files in any order                        *)
SplitUnlock(p) ==
    /\ pc[p] = "split_unlock"
    /\ \E f \in SplitFiles :
         /\ holder[f] = p
         /\ content' = [content EXCEPT ![f] = "split"]
         /\ holder' = [holder EXCEPT ![f] = NoProc]
    /\ UNCHANGED <<txt, gen, macros, conf, splitOk, pc, order, k, buf, copied>>

(* every file unlocked: std::fs::remove_file(GENERATION_PATH).unwrap() *)
SplitRemove(p) ==
    /\ pc[p] = "split_unlock"
    /\ \A f \in SplitFiles : holder[f] # p
    /\ gen = "present"
    /\ gen' = "absent"
    /\ k' = [k EXCEPT ![p] = 1]
    /\ Goto(p, "replace_read")
    /\ UNCHANGED <<txt, macros, conf, content, holder, splitOk, order, buf, copied>>

(* remove_file fails, another run already removed the file: unwrap panics *)
SplitRemoveMissing(p) ==
    /\ pc[p] = "split_unlock"
    /\ \A f \in SplitFiles : holder[f] # p
    /\ gen = "absent"
    /\ Goto(p, "crashed")
    /\ UNCHANGED <<txt, gen, macros, conf, content, holder, splitOk, order, k, buf, copied>>

(* mutant: the unlock after read_to_string is missing *)
ReplaceReadKeepsLock(p) ==
    /\ pc[p] = "replace_read"
    /\ Free(Cur(p))
    /\ buf' = [buf EXCEPT ![p] = content[Cur(p)]]
    /\ holder' = [holder EXCEPT ![Cur(p)] = p]
    /\ Goto(p, "replace_open")
    /\ UNCHANGED <<txt, gen, macros, conf, content, splitOk, order, k, copied>>

(* text_replace: lock_exclusive, read_to_string, unlock *)
ReplaceRead(p) ==
    /\ pc[p] = "replace_read"
    /\ Free(Cur(p))
    /\ buf' = [buf EXCEPT ![p] = content[Cur(p)]]
    /\ Goto(p, "replace_open")
    /\ UNCHANGED <<txt, gen, macros, conf, content, holder, splitOk, order, k, copied>>

(* text_replace reopens the file with truncate(true) before locking it *)
ReplaceOpen(p) ==
    /\ pc[p] = "replace_open"
    /\ content' = [content EXCEPT ![Cur(p)] = "empty"]
    /\ Goto(p, "replace_write")
    /\ UNCHANGED <<txt, gen, macros, conf, holder, splitOk, order, k, buf, copied>>

(* mutant: the text read is written back without the substitutions *)
ReplaceWriteUnreplaced(p) ==
    /\ pc[p] = "replace_write"
    /\ Free(Cur(p))
    /\ content' = [content EXCEPT ![Cur(p)] = buf[p]]
    /\ IF k[p] < N
       THEN k' = [k EXCEPT ![p] = @ + 1] /\ Goto(p, "replace_read")
       ELSE UNCHANGED k /\ Goto(p, "copy")
    /\ UNCHANGED <<txt, gen, macros, conf, holder, splitOk, order, buf, copied>>

(* text_replace: lock_exclusive, write_all of the replaced text, unlock *)
ReplaceWrite(p) ==
    /\ pc[p] = "replace_write"
    /\ Free(Cur(p))
    /\ content' = [content EXCEPT ![Cur(p)] = Replace(buf[p])]
    /\ IF k[p] < N
       THEN k' = [k EXCEPT ![p] = @ + 1] /\ Goto(p, "replace_read")
       ELSE UNCHANGED k /\ Goto(p, "copy")
    /\ UNCHANGED <<txt, gen, macros, conf, holder, splitOk, order, buf, copied>>

(* fs_extra::copy_items copies include/ to the target dir, taking no lock *)
CopyInclude(p) ==
    /\ pc[p] = "copy"
    /\ copied' = [copied EXCEPT ![p] =
                    [split |-> content, macros |-> macros, conf |-> conf]]
    /\ Goto(p, "done")
    /\ UNCHANGED <<txt, gen, macros, conf, content, holder, splitOk, order, k, buf>>

(* a run is in progress from its first step until it exits *)
Running(p) == pc[p] \notin {"opaque_create"} \cup Terminal
BothRunning == \E p, q \in Procs : p # q /\ Running(p) /\ Running(q)

Step(p) ==
    /\ \/ OpaqueCreate(p) \/ OpaqueBuild(p) \/ OpaqueRead(p) \/ OpaqueMissing(p)
       \/ Cbindgen(p) \/ GenericsOpen(p) \/ GenericsWrite(p) \/ GenericsNoInput(p)
       \/ ConfigureOpen(p) \/ ConfigureWrite(p)
       \/ SplitRead(p) \/ SplitNoInput(p) \/ SplitOpen(p) \/ SplitLock(p)
       \/ SplitWrite(p) \/ SplitFail(p) \/ SplitUnlock(p) \/ SplitRemove(p)
       \/ SplitRemoveMissing(p)
       \/ ReplaceRead(p) \/ ReplaceOpen(p) \/ ReplaceWrite(p)
       \/ CopyInclude(p)
    /\ overlapped' = (overlapped \/ BothRunning')

(* every run has exited *)
AllExited ==
    /\ \A p \in Procs : pc[p] \in Terminal
    /\ UNCHANGED vars

Next == (\E p \in Procs : Step(p)) \/ AllExited

(* Each run is an OS process: a runnable one is eventually scheduled, and *)
(* a blocked lock_exclusive returns once the lock is free.               *)
Fairness == \A p \in Procs : WF_vars(Step(p))

Spec == Init /\ [][Next]_vars /\ Fairness

-----------------------------------------------------------------------------
Complete == [split : [SplitFiles -> {"replaced"}], macros : {"full"}, conf : {"full"}]

TypeOK ==
    /\ txt \in {"absent", "empty", "full"}
    /\ gen \in {"absent", "present"}
    /\ macros \in {"empty", "full"}
    /\ conf \in {"absent", "empty", "full"}
    /\ content \in [SplitFiles -> Contents]
    /\ holder \in [SplitFiles -> Procs \cup {NoProc}]
    /\ pc \in [Procs -> Steps]
    /\ k \in [Procs -> 1..N]
    /\ buf \in [Procs -> Contents]
    /\ copied \in [Procs ->
                     [split : [SplitFiles -> Contents],
                      macros : {"empty", "full"}, conf : {"absent", "empty", "full"}]]
    /\ overlapped \in BOOLEAN

(* A run that exits successfully has copied to its target dir complete     *)
(* headers: every split file with the text_replace substitutions applied   *)
(* exactly once, and complete zenoh_macros.h and zenoh_configure.h (spec 5: *)
(* no reader observes a partially written file).                           *)
BuildOutputsComplete ==
    \A p \in Procs : pc[p] = "done" => copied[p] \in Complete

(* Builds one after the other, each from whatever include/ the previous   *)
(* one left, copy complete headers: as long as no two runs have been in    *)
(* progress at once, every run that exits successfully copied them.        *)
SequentialBuildsComplete == ~overlapped => BuildOutputsComplete

(* No run of the build script panics on its own valid input: the only exit *)
(* other than success is the reported Err of split_bindings ("failed").   *)
NoPanic == \A p \in Procs : pc[p] # "crashed"

(* Builds one after the other never panic, whatever state an earlier       *)
(* build left in include/ and the opaque-types file.                       *)
SequentialBuildsNoPanic == ~overlapped => NoPanic

(* Overlapping runs of the build script each either exit successfully with *)
(* complete headers copied or report split_bindings' Err: no run panics   *)
(* and none ships a truncated file, whatever the interleaving (spec 5).   *)
ConcurrentBuildsSafe == BuildOutputsComplete /\ NoPanic

(* The flocks of split_bindings are confined to it: a run holds a split   *)
(* file's lock only between split_open and the final unlock loop, and only *)
(* for a file its loop has already reached; a run that crashed, or that is *)
(* in text_replace or later, holds none (text_replace's own locks are     *)
(* released within each of its steps).                                     *)
SplitSection == {"split_open", "split_lock", "split_write", "split_unlock"}
LocksOnlyInSplitSection ==
    \A f \in SplitFiles : holder[f] # NoProc =>
        /\ pc[holder[f]] \in SplitSection
        /\ \E i \in 1..k[holder[f]] : order[holder[f]][i] = f

(* Every run eventually exits, successfully or not: no run waits forever *)
(* on an flock (spec 5: a blocked acquire simply waits).                 *)
Termination == <>(\A p \in Procs : pc[p] \in Terminal)

(* two runs each blocked in lock_exclusive on the split file the other   *)
(* holds                                                                  *)
LockCycle ==
    \E p, q \in Procs :
        /\ p # q
        /\ pc[p] = "split_lock" /\ pc[q] = "split_lock"
        /\ holder[Cur(p)] = q /\ holder[Cur(q)] = p

(* The opposite lock orders of the split files are the only way a build  *)
(* hangs: every run exits, successfully or not, unless two runs end up    *)
(* waiting on each other's flock for good.  A run that fails in           *)
(* split_bindings, or holds a lock another run waits on, never leaves     *)
(* that run blocked forever.                                              *)
HangsOnlyInLockCycle ==
    <>(\A p \in Procs : pc[p] \in Terminal) \/ <>[]LockCycle
=============================================================================
