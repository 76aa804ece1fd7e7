----------------------------- MODULE BuildCache -----------------------------
(***************************************************************************)
(* The Compiler and its ProgramCache (compiler/): processes that share one *)
(* cache directory, in which binaries and the manifest outlive them.       *)
(*                                                                         *)
(* A program is a value of Codes; its key, its C++ file and its binary go  *)
(* with it (one program_name per code).  The manifest is read once, when   *)
(* the process starts, and written as a whole.  g++ is a process of its    *)
(* own: it goes on when Python is killed, and at the timeout only its      *)
(* driver is killed, while the linker goes on.                             *)
(***************************************************************************)
EXTENDS Integers

CONSTANTS
  Procs,     \* processes with a Compiler; a process that ended may start again
  Codes,     \* C++ programs
  Configs,   \* std, opt_level, includes and flags: what a binary depends on, too
  None       \* no program

ASSUME NoneDistinct == None \notin Codes
ASSUME ConfigsApart == Configs \cap {"none", "partial"} = {}

VARIABLES
  file,      \* the binary of each program: the flags it was built with, partial, or none
  manifest,  \* the programs in .cache_manifest
  pc, code,  \* each process: its next statement, the program it works on
  config,    \* each process: its flags
  known,     \* each process: self.cache.manifest
  orphans,   \* g++ that nobody waits for any more: its program, flags and stage
  recorded,  \* history: programs in a manifest that was saved and not cleared since
  disturbed  \* history: since a process had the cache for itself and cleared it, two
             \* processes have overlapped, clear_cache() has not come to its end, or a
             \* program was asked for while an orphan was still making it

vars == <<file, manifest, pc, code, config, known, orphans, recorded, disturbed>>

Busy == {"compile", "link", "store", "save", "done"}
InClear(p) == pc[p] \in {"unlink", "forget"}
Alone == \A p, q \in Procs : pc[p] # "down" /\ pc[q] # "down" => p = q

Gcc(k, c, at) == [code |-> k, config |-> c, at |-> at]

TypeOK ==
  /\ file \in [Codes -> {"none", "partial"} \cup Configs]
  /\ manifest \subseteq Codes
  /\ pc \in [Procs -> {"down", "idle", "unlink", "forget"} \cup Busy]
  /\ code \in [Procs -> Codes \cup {None}]
  /\ \A p \in Procs : pc[p] \in Busy => code[p] \in Codes
  /\ config \in [Procs -> Configs \cup {None}]
  /\ \A p \in Procs : pc[p] # "down" => config[p] \in Configs
  /\ known \in [Procs -> SUBSET Codes]
  /\ orphans \subseteq [code : Codes, config : Configs, at : {"compile", "link"}]
  /\ recorded \subseteq Codes
  /\ disturbed \in BOOLEAN

Init ==
  /\ file = [k \in Codes |-> "none"]
  /\ manifest = {}
  /\ pc = [p \in Procs |-> "down"]
  /\ code = [p \in Procs |-> None]
  /\ config = [p \in Procs |-> None]
  /\ known = [p \in Procs |-> {}]
  /\ orphans = {}
  /\ recorded = {}
  /\ disturbed = FALSE

Goto(p, from, to) == pc[p] = from /\ pc' = [pc EXCEPT ![p] = to]

-----------------------------------------------------------------------------
(* A process.                                                              *)

\* Compiler(): the directory is made and the manifest is read.
Start(p) ==
  /\ Goto(p, "down", "idle")
  /\ \E c \in Configs : config' = [config EXCEPT ![p] = c]
  /\ known' = [known EXCEPT ![p] = manifest]
  /\ disturbed' = (disturbed \/ \E q \in Procs : pc[q] # "down")
  /\ UNCHANGED <<file, manifest, code, orphans, recorded>>

\* write_text() truncates the manifest, then writes: some of the lines, whole.
SaveBroken(p) ==
  \E saved \in SUBSET known[p] : manifest' = saved /\ recorded' = recorded \cap saved

\* The process ends or is killed, and g++ with it or not.
Crash(p) ==
  /\ pc[p] # "down"
  /\ pc' = [pc EXCEPT ![p] = "down"]
  /\ code' = [code EXCEPT ![p] = None]
  /\ \/ UNCHANGED orphans
     \/ /\ pc[p] \in {"compile", "link"}
        /\ orphans' = orphans \cup {Gcc(code[p], config[p], pc[p])}
  /\ IF pc[p] = "save" THEN SaveBroken(p) ELSE UNCHANGED <<manifest, recorded>>
  /\ disturbed' = (disturbed \/ InClear(p))
  /\ UNCHANGED <<file, config, known>>

\* A g++ that was left behind opens the binary, and completes it, removes it because
\* of an error, or is killed, too.
OrphanLinks(o) ==
  /\ o.at = "compile"
  /\ orphans' = (orphans \ {o}) \cup {[o EXCEPT !.at = "link"]}
  /\ file' = [file EXCEPT ![o.code] = "partial"]
  /\ UNCHANGED <<manifest, pc, code, config, known, recorded, disturbed>>

OrphanEnds(o) ==
  /\ orphans' = orphans \ {o}
  /\ \E left \in {o.config, "none", "partial"} :
       file' = IF o.at = "link" THEN [file EXCEPT ![o.code] = left] ELSE file
  /\ UNCHANGED <<manifest, pc, code, config, known, recorded, disturbed>>

-----------------------------------------------------------------------------
(* get_or_compile()                                                        *)

\* Mutant: the binary alone decides.
LookupFileOnly(p) ==
  /\ pc[p] = "idle"
  /\ \E k \in Codes :
       /\ code' = [code EXCEPT ![p] = k]
       /\ pc' = [pc EXCEPT ![p] = IF file[k] # "none" THEN "done" ELSE "compile"]
       /\ disturbed' = (disturbed \/ \E o \in orphans : o.code = k)
  /\ UNCHANGED <<file, manifest, config, known, orphans, recorded>>

\* lookup() and exists(); on a miss the C++ file is written and g++ is run.
Lookup(p) ==
  /\ pc[p] = "idle"
  /\ \E k \in Codes :
       /\ code' = [code EXCEPT ![p] = k]
       /\ pc' = [pc EXCEPT ![p] = IF k \in known[p] /\ file[k] # "none"
                                  THEN "done" ELSE "compile"]
       /\ disturbed' = (disturbed \/ \E o \in orphans : o.code = k)
  /\ UNCHANGED <<file, manifest, config, known, orphans, recorded>>

\* The linker of g++ opens the binary, and completes it.
LinkBegin(p) ==
  /\ Goto(p, "compile", "link")
  /\ file' = [file EXCEPT ![code[p]] = "partial"]
  /\ UNCHANGED <<manifest, code, config, known, orphans, recorded, disturbed>>

LinkEnd(p) ==
  /\ Goto(p, "link", "store")
  /\ file' = [file EXCEPT ![code[p]] = config[p]]
  /\ UNCHANGED <<manifest, code, config, known, orphans, recorded, disturbed>>

\* g++ reports errors or is killed at the timeout: CompilationError.  A linker
\* that fails removes the binary, one that is killed does not, and one whose driver
\* alone is killed goes on.
CompileFails(p) ==
  /\ pc[p] \in {"compile", "link"}
  /\ pc' = [pc EXCEPT ![p] = "idle"]
  /\ code' = [code EXCEPT ![p] = None]
  /\ \/ /\ \E left \in {"none", "partial"} :
             file' = IF pc[p] = "link" THEN [file EXCEPT ![code[p]] = left] ELSE file
        /\ UNCHANGED orphans
     \/ /\ pc[p] = "link"
        /\ orphans' = orphans \cup {Gcc(code[p], config[p], "link")}
        /\ UNCHANGED file
  /\ UNCHANGED <<manifest, config, known, recorded, disturbed>>

Store(p) ==
  /\ Goto(p, "store", "save")
  /\ known' = [known EXCEPT ![p] = @ \cup {code[p]}]
  /\ UNCHANGED <<file, manifest, code, config, orphans, recorded, disturbed>>

\* Mutant: the manifest is not written.
SaveNothing(p) ==
  /\ Goto(p, "save", "done")
  /\ recorded' = recorded \cup {code[p]}
  /\ UNCHANGED <<file, manifest, code, config, known, orphans, disturbed>>

\* Mutant: the program is dropped before its binary is returned.
SaveDrops(p) ==
  /\ Goto(p, "save", "done")
  /\ manifest' = known[p]
  /\ recorded' = recorded \cup {code[p]}
  /\ code' = [code EXCEPT ![p] = None]
  /\ UNCHANGED <<file, config, known, orphans, disturbed>>

Save(p) ==
  /\ Goto(p, "save", "done")
  /\ manifest' = known[p]
  /\ recorded' = recorded \cup {code[p]}
  /\ UNCHANGED <<file, code, config, known, orphans, disturbed>>

\* The manifest cannot be written: get_or_compile() raises, self.cache.manifest stays.
SaveRaises(p) ==
  /\ Goto(p, "save", "idle")
  /\ SaveBroken(p)
  /\ code' = [code EXCEPT ![p] = None]
  /\ UNCHANGED <<file, config, known, orphans, disturbed>>

Return(p) ==
  /\ Goto(p, "done", "idle")
  /\ code' = [code EXCEPT ![p] = None]
  /\ UNCHANGED <<file, manifest, config, known, orphans, recorded, disturbed>>

-----------------------------------------------------------------------------
(* clear_cache()                                                           *)

ClearBegin(p) ==
  /\ Goto(p, "idle", "unlink")
  /\ recorded' = {}
  /\ UNCHANGED <<file, manifest, code, config, known, orphans, disturbed>>

\* One binary after the other; the manifest stays until they are gone.
ClearFile(p) ==
  /\ pc[p] = "unlink"
  /\ \E k \in Codes : file[k] # "none" /\ file' = [file EXCEPT ![k] = "none"]
  /\ UNCHANGED <<manifest, pc, code, config, known, orphans, recorded, disturbed>>

ClearFilesDone(p) ==
  /\ Goto(p, "unlink", "forget")
  /\ \A k \in Codes : file[k] = "none"
  /\ UNCHANGED <<file, manifest, code, config, known, orphans, recorded, disturbed>>

ClearForget(p) ==
  /\ Goto(p, "forget", "idle")
  /\ known' = [known EXCEPT ![p] = {}]
  /\ manifest' = {} /\ recorded' = {}
  /\ disturbed' = (disturbed /\ ~Alone)
  /\ UNCHANGED <<file, code, config, orphans>>

\* unlink() or the writing of the manifest raises: the manifest names binaries that
\* are gone, and the process lives.
ClearRaises(p) ==
  /\ InClear(p)
  /\ pc' = [pc EXCEPT ![p] = "idle"]
  /\ known' = [known EXCEPT ![p] = IF pc[p] = "forget" THEN {} ELSE @]
  /\ disturbed' = TRUE
  /\ UNCHANGED <<file, manifest, code, config, orphans, recorded>>

Step(p) ==
  \/ Start(p) \/ Crash(p)
  \/ Lookup(p) \/ LinkBegin(p) \/ LinkEnd(p) \/ CompileFails(p)
  \/ Store(p) \/ Save(p) \/ SaveRaises(p) \/ Return(p)
  \/ ClearBegin(p) \/ ClearFile(p) \/ ClearFilesDone(p) \/ ClearForget(p) \/ ClearRaises(p)

Next ==
  \/ \E p \in Procs : Step(p)
  \/ \E o \in orphans : OrphanLinks(o) \/ OrphanEnds(o)

Spec == Init /\ [][Next]_vars

-----------------------------------------------------------------------------
(* Properties.                                                             *)

\* get_or_compile() returns the path of a complete binary of the program, built
\* with the flags of the caller, whatever was killed, failed or timed out before and
\* whatever g++ was left behind, unless the cache is disturbed.
RightBinary ==
  ~disturbed => \A p \in Procs : pc[p] = "done" => file[code[p]] = config[p]

\* A program that the manifest has recorded is not compiled again, also by a later
\* process, until clear_cache() is called, unless the cache is disturbed.
NotCompiledTwice ==
  [][\A p \in Procs :
       pc[p] = "idle" /\ pc'[p] = "compile" /\ ~disturbed' => code'[p] \notin recorded]_vars

(***************************************************************************)
(* Why both hold when all processes have the same flags: what a process    *)
(* knows is complete except while it clears the cache, and no orphan       *)
(* writes it.                                                              *)
(***************************************************************************)
Complete(ks) == \A k \in ks : file[k] \in Configs
NoOrphanOf(ks) == \A o \in orphans : o.code \notin ks

CacheOf(p) ==
  /\ manifest \subseteq known[p] /\ NoOrphanOf(known[p])
  /\ ~InClear(p) => Complete(known[p])
  /\ InClear(p) => recorded = {}
  /\ pc[p] \in Busy => NoOrphanOf({code[p]})
  /\ pc[p] \in {"compile", "link"} => code[p] \notin known[p]
  /\ pc[p] \in {"store", "save", "done"} => Complete({code[p]})
  /\ pc[p] = "save" => code[p] \in known[p]

CacheKept ==
  /\ Alone /\ recorded \subseteq manifest /\ NoOrphanOf(manifest)
  /\ (\A p \in Procs : pc[p] = "down") => Complete(manifest)
  /\ \A p \in Procs : pc[p] # "down" => CacheOf(p)

CacheInv == disturbed \/ CacheKept
=============================================================================
