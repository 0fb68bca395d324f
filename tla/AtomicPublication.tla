------------------------- MODULE AtomicPublication -------------------------
(***************************************************************************)
(* Publication of one file (artifacts/atomic.py), under every record,      *)
(* manifest and result of the benchmark.  A writer makes the directory if  *)
(* it is missing, writes a temporary file beside the target, flushes it,   *)
(* and links it to the target, which fails if the target is there          *)
(* (atomic_write_bytes), or renames it over the target                     *)
(* (atomic_replace_bytes); then it flushes the directory.  Writers are     *)
(* threads or processes, and any of them may be killed or raise at any     *)
(* step, which leaves its temporary file in place.                         *)
(*                                                                         *)
(* The file system is external.  A name refers to a file, and a file is    *)
(* known by the writer that made it.  What is on the disk is what was      *)
(* flushed or was written back by itself, and a loss of power leaves that. *)
(***************************************************************************)
EXTENDS FiniteSets

CONSTANTS
    Writers, Targets,
    Dirs,            \* directories of the targets
    TargetOf,        \* the target of each writer
    ContentOf,       \* the bytes it publishes
    DirOf,           \* the directory of each target
    Replacing,       \* writers that call atomic_replace_bytes
    Made,            \* directories that exist, durably, at the start
    Nothing, Torn

ASSUME PublicationAssumption ==
    /\ TargetOf \in [Writers -> Targets]
    /\ DirOf \in [Targets -> Dirs]
    /\ Replacing \subseteq Writers
    /\ Made \subseteq Dirs
    /\ Targets \cap Writers = {} /\ Nothing \notin Writers /\ Nothing # Torn
    /\ \A w \in Writers : ContentOf[w] \notin {Nothing, Torn}

VARIABLES
    pc,              \* the last step each writer has made
    dirs, diskDirs,  \* directories that can be seen, and those on the disk
    entry, disk,     \* the file of each name, seen and on the disk
    data,            \* the content of each file: "none", "part" or "whole"
    flushed          \* files the whole of which is on the disk

vars == <<pc, dirs, diskDirs, entry, disk, data, flushed>>

\* Targets, and one temporary name for each writer.
Names == Targets \cup Writers

DirectoryOf(n) == IF n \in Targets THEN DirOf[n] ELSE DirOf[TargetOf[n]]

MyDir(w) == DirectoryOf(w)

Steps == {"idle", "missing", "made", "ready", "writing", "written", "synced", "published",
          "settled", "cleaned", "ok", "rejected", "discarded", "collision", "dead"}

TypeOK ==
    /\ pc \in [Writers -> Steps]
    /\ diskDirs \subseteq dirs /\ dirs \subseteq Dirs
    /\ entry \in [Names -> Writers \cup {Nothing}]
    /\ disk \in [Names -> Writers \cup {Nothing}]
    /\ data \in [Writers -> {"none", "part", "whole"}]
    /\ flushed \subseteq Writers

Init ==
    /\ pc = [w \in Writers |-> "idle"]
    /\ dirs = Made /\ diskDirs = Made
    /\ entry = [n \in Names |-> Nothing]
    /\ disk = [n \in Names |-> Nothing]
    /\ data = [w \in Writers |-> "none"]
    /\ flushed = {}

-----------------------------------------------------------------------------
Goes(w, from, to) == pc[w] = from /\ pc' = [pc EXCEPT ![w] = to]

\* _ensure_durable_directory: the walk up to an existing ancestor, ...
LookForDirectory(w) ==
    /\ Goes(w, "idle", IF MyDir(w) \in dirs THEN "ready" ELSE "missing")
    /\ UNCHANGED <<dirs, diskDirs, entry, disk, data, flushed>>

\* ... mkdir, which may find that somebody else was faster, ...
MakeDirectory(w) ==
    /\ Goes(w, "missing", "made")
    /\ dirs' = dirs \cup {MyDir(w)}
    /\ UNCHANGED <<diskDirs, entry, disk, data, flushed>>

\* ... and the parent is flushed.
FlushParent(w) ==
    /\ Goes(w, "made", "ready")
    /\ diskDirs' = diskDirs \cup {MyDir(w)}
    /\ UNCHANGED <<dirs, entry, disk, data, flushed>>

\* mkstemp.
OpenTemporary(w) ==
    /\ Goes(w, "ready", "writing")
    /\ entry' = [entry EXCEPT ![w] = w]
    /\ data' = [data EXCEPT ![w] = "part"]
    /\ UNCHANGED <<dirs, diskDirs, disk, flushed>>

WriteAll(w) ==
    /\ Goes(w, "writing", "written")
    /\ data' = [data EXCEPT ![w] = "whole"]
    /\ UNCHANGED <<dirs, diskDirs, entry, disk, flushed>>

FlushFile(w) ==
    /\ Goes(w, "written", "synced")
    /\ flushed' = flushed \cup {w}
    /\ UNCHANGED <<dirs, diskDirs, entry, disk, data>>

\* What a reader of a file gets.
Content(f) == IF f = Nothing THEN Nothing
              ELSE IF data[f] = "whole" THEN ContentOf[f] ELSE Torn

\* As a bug would have it: the file is renamed to its target, not linked.
LinkOver(w) ==
    /\ w \notin Replacing
    /\ Goes(w, "synced", "published")
    /\ entry' = [entry EXCEPT ![TargetOf[w]] = w]
    /\ UNCHANGED <<dirs, diskDirs, disk, data, flushed>>

\* os.link, which a target that is there makes fail; then its bytes are compared.
Link(w) ==
    LET there == entry[TargetOf[w]] IN
    /\ w \notin Replacing
    /\ \/ /\ there = Nothing
          /\ Goes(w, "synced", "published")
          /\ entry' = [entry EXCEPT ![TargetOf[w]] = w]
       \/ /\ there # Nothing
          /\ Goes(w, "synced", IF Content(there) = ContentOf[w] THEN "published" ELSE "rejected")
          /\ UNCHANGED entry
    /\ UNCHANGED <<dirs, diskDirs, disk, data, flushed>>

\* os.replace.
Replace(w) ==
    /\ w \in Replacing
    /\ Goes(w, "synced", "published")
    /\ entry' = [entry EXCEPT ![TargetOf[w]] = w, ![w] = Nothing]
    /\ UNCHANGED <<dirs, diskDirs, disk, data, flushed>>

Unlink(w) ==
    /\ \/ w \notin Replacing /\ Goes(w, "settled", "cleaned")
       \/ Goes(w, "rejected", "discarded")
    /\ entry' = [entry EXCEPT ![w] = Nothing]
    /\ UNCHANGED <<dirs, diskDirs, disk, data, flushed>>

\* As a bug would have it: the directory is flushed only once, before cleaning.
FlushPublication(w) ==
    /\ \/ Goes(w, "published", IF w \in Replacing THEN "ok" ELSE "settled")
       \/ Goes(w, "cleaned", "ok")
       \/ Goes(w, "discarded", "collision")
    /\ disk' = [n \in Names |-> IF DirectoryOf(n) = MyDir(w) /\ pc[w] = "published"
                                THEN entry[n] ELSE disk[n]]
    /\ UNCHANGED <<dirs, diskDirs, entry, data, flushed>>

\* _fsync_directory: every name in it is on the disk as it is seen.
FlushDirectory(w) ==
    /\ \/ Goes(w, "published", IF w \in Replacing THEN "ok" ELSE "settled")
       \/ Goes(w, "cleaned", "ok")
       \/ Goes(w, "discarded", "collision")
    /\ disk' = [n \in Names |-> IF DirectoryOf(n) = MyDir(w) THEN entry[n] ELSE disk[n]]
    /\ UNCHANGED <<dirs, diskDirs, entry, data, flushed>>

Over == {"ok", "collision", "dead"}

\* The writer is killed, or a step of it raises.
Stop(w) ==
    /\ pc[w] \notin Over \cup {"idle"}
    /\ pc' = [pc EXCEPT ![w] = "dead"]
    /\ UNCHANGED <<dirs, diskDirs, entry, disk, data, flushed>>

-----------------------------------------------------------------------------
(* The file system.                                                        *)

\* It may write back a name or a directory at any time.  A file that was not
\* flushed counts as torn on the disk.
WriteBackName(n) ==
    /\ disk[n] # entry[n]
    /\ disk' = [disk EXCEPT ![n] = entry[n]]
    /\ UNCHANGED <<pc, dirs, diskDirs, entry, data, flushed>>

WriteBackDirectory(d) ==
    /\ d \in dirs \ diskDirs
    /\ diskDirs' = diskDirs \cup {d}
    /\ UNCHANGED <<pc, dirs, entry, disk, data, flushed>>

Left(n) == IF DirectoryOf(n) \in diskDirs THEN disk[n] ELSE Nothing

LeftContent(n) == IF Left(n) = Nothing THEN Nothing
                  ELSE IF Left(n) \in flushed THEN ContentOf[Left(n)] ELSE Torn

PowerLoss ==
    /\ pc' = [w \in Writers |-> IF pc[w] \in Over \cup {"idle"} THEN pc[w] ELSE "dead"]
    /\ dirs' = diskDirs
    /\ entry' = [n \in Names |-> Left(n)]
    /\ disk' = [n \in Names |-> Left(n)]
    /\ data' = [w \in Writers |-> IF w \notin flushed /\ data[w] = "whole" THEN "part" ELSE data[w]]
    /\ UNCHANGED <<diskDirs, flushed>>

Step(w) ==
    \/ LookForDirectory(w) \/ MakeDirectory(w) \/ FlushParent(w)
    \/ OpenTemporary(w) \/ WriteAll(w) \/ FlushFile(w)
    \/ Link(w) \/ Replace(w) \/ Unlink(w) \/ FlushDirectory(w)

Next ==
    \/ \E w \in Writers : Step(w) \/ Stop(w)
    \/ \E n \in Names : WriteBackName(n)
    \/ \E d \in Dirs : WriteBackDirectory(d)
    \/ PowerLoss

Spec == Init /\ [][Next]_vars

-----------------------------------------------------------------------------
\* Whoever is killed when, and whatever the disk had taken when the power went:
\* a target that is there has its whole content (the file is flushed before the
\* name is made).
PublishedIsWhole == \A t \in Targets : Content(entry[t]) # Torn

\* What atomic_write_bytes has returned is there for good, as its docstring has
\* it ("Durably publish"): no other writer, no kill and no loss of power takes
\* the bytes of w away; a writer that replaces may have put others there since.
Stays(w) ==
    pc[w] = "ok" =>
        \/ Content(entry[TargetOf[w]]) = ContentOf[w]
        \/ \E x \in Replacing : TargetOf[x] = TargetOf[w] /\ entry[TargetOf[w]] = x

\* A writer that has returned, or refused, has left no temporary file, and none
\* comes back with the power: finalize_capsule reads every file under source/.
NoLitter == \A w \in Writers : pc[w] \in {"ok", "collision"} => entry[w] = Nothing

\* How far a writer is, as its caller may know.
Stage(p) ==
    IF p = "published" THEN "visible"
    ELSE IF p \in {"settled", "cleaned"} THEN "safe"
    ELSE IF p = "ok" THEN "done"
    ELSE IF p \in {"rejected", "discarded", "collision"} THEN "refused"
    ELSE IF p = "dead" THEN "dead"
    ELSE "pending"

Register == INSTANCE DurableRegister WITH
    value <- [t \in Targets |-> Content(entry[t])],
    kept <- [t \in Targets |-> LeftContent(t)],
    result <- [w \in Writers |-> Stage(pc[w])]

\* The steps of atomic.py make a durable register of every target, read, written
\* and lost as one: a create-only file is set once or refused, a replaced one
\* has one whole content after the other, and what has returned survives.
IsRegister == Register!ASpec
=============================================================================
