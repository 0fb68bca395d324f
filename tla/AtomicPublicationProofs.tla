---------------------- MODULE AtomicPublicationProofs ----------------------
(***************************************************************************)
(* Every target is whole and nothing is left behind, for any number of     *)
(* writers, targets and directories.  A returned write stays if its        *)
(* directory was on the disk when the writer went on from it, which        *)
(* _ensure_durable_directory does not see to where another writer, alive   *)
(* or dead, has made the directory and not flushed it (atomic.py:207).     *)
(***************************************************************************)
EXTENDS AtomicPublication, TLAPS

Before == {"idle", "missing", "made", "dead"}

\* A writer past _ensure_durable_directory has its directory on the disk.
FoundOnDisk(w) == pc[w] \notin Before => MyDir(w) \in diskDirs

DirectoriesOnDisk == \A w \in Writers : FoundOnDisk(w)

\* The directory of w was there from the start, or no other writer uses it.
SoleMaker(w) == MyDir(w) \in Made \/ \A v \in Writers \ {w} : MyDir(v) # MyDir(w)

-----------------------------------------------------------------------------
\* A directory is flushed to its parent only after it was made.
TypeInv == TypeOK /\ \A w \in Writers : pc[w] = "made" => MyDir(w) \in dirs

\* A published file was flushed, and a flushed file is whole.
WholeInv ==
    /\ \A w \in flushed : data[w] = "whole" /\ pc[w] \notin {"idle", "missing", "made", "ready", "writing"}
    /\ \A w \in Writers : pc[w] = "written" => data[w] = "whole"
    /\ \A w \in Writers : pc[w] = "synced" => w \in flushed
    /\ \A t \in Targets : entry[t] \in flushed \cup {Nothing} /\ disk[t] \in flushed \cup {Nothing}

\* A temporary name goes before the directory is flushed for the last time.
LitterInv ==
    /\ \A w \in Replacing : pc[w] \notin {"settled", "cleaned", "rejected", "discarded", "collision"}
    /\ \A w \in Writers : pc[w] \in {"cleaned", "discarded", "ok", "collision"} => entry[w] = Nothing
    /\ \A w \in Replacing : pc[w] = "published" => entry[w] = Nothing
    /\ \A w \in Writers : pc[w] \in {"ok", "collision"} => disk[w] = Nothing

\* The files that keep the promise made to w.
Good(w) == {f \in Writers : ContentOf[f] = ContentOf[w]}
           \cup {x \in Replacing : TargetOf[x] = TargetOf[w]}

\* A sole maker that has yet to look finds its directory only on the disk.
DirInv(w) ==
    /\ Made \subseteq diskDirs
    /\ FoundOnDisk(w)
    /\ pc[w] = "idle" /\ MyDir(w) \in dirs => MyDir(w) \in diskDirs

AckedInv(w) ==
    /\ pc[w] \in {"published", "settled", "cleaned", "ok"} => entry[TargetOf[w]] \in Good(w)
    /\ pc[w] \in {"settled", "cleaned", "ok"} => disk[TargetOf[w]] \in Good(w)

-----------------------------------------------------------------------------
\* Every name has a directory, and a temporary name that of its target.
LEMMA NamesTyped ==
    /\ Targets \subseteq Names /\ Writers \subseteq Names
    /\ \A t \in Targets : DirectoryOf(t) = DirOf[t] /\ DirOf[t] \in Dirs
    /\ \A w \in Writers : MyDir(w) = DirOf[TargetOf[w]] /\ MyDir(w) \in Dirs /\ w \notin Targets
BY PublicationAssumption DEF Names, DirectoryOf, MyDir

\* Every step keeps the types; a directory is on the disk only if it is seen.
LEMMA TypePreserved == TypeInv /\ [Next]_vars => TypeInv'
<1> SUFFICES ASSUME TypeInv, [Next]_vars PROVE TypeInv'
  OBVIOUS
<1> USE PublicationAssumption, NamesTyped DEF TypeOK, TypeInv
<1>1. ASSUME NEW w \in Writers, Step(w) PROVE TypeInv'
  <2>1. CASE LookForDirectory(w)
    BY <2>1 DEF LookForDirectory, Goes, Steps
  <2>2. CASE MakeDirectory(w)
    BY <2>2 DEF MakeDirectory, Goes, Steps
  <2>3. CASE FlushParent(w)
    BY <2>3 DEF FlushParent, Goes, Steps
  <2>4. CASE OpenTemporary(w)
    BY <2>4 DEF OpenTemporary, Goes, Steps
  <2>5. CASE WriteAll(w)
    BY <2>5 DEF WriteAll, Goes, Steps
  <2>6. CASE FlushFile(w)
    BY <2>6 DEF FlushFile, Goes, Steps
  <2>7. CASE Link(w)
    BY <2>7 DEF Link, Goes, Steps
  <2>8. CASE Replace(w)
    BY <2>8 DEF Replace, Goes, Steps
  <2>9. CASE Unlink(w)
    BY <2>9 DEF Unlink, Goes, Steps
  <2>10. CASE FlushDirectory(w)
    BY <2>10 DEF FlushDirectory, Goes, Steps
  <2> QED BY <1>1, <2>1, <2>2, <2>3, <2>4, <2>5, <2>6, <2>7, <2>8, <2>9, <2>10 DEF Step
<1>2. ASSUME NEW w \in Writers, Stop(w) PROVE TypeInv'
  BY <1>2 DEF Stop, Steps
<1>3. ASSUME NEW n \in Names, WriteBackName(n) PROVE TypeInv'
  BY <1>3 DEF WriteBackName
<1>4. ASSUME NEW d \in Dirs, WriteBackDirectory(d) PROVE TypeInv'
  BY <1>4 DEF WriteBackDirectory
<1>5. CASE PowerLoss
  <2>1. pc' \in [Writers -> Steps] /\ \A w \in Writers : pc'[w] # "made"
    BY <1>5 DEF PowerLoss, Over, Steps
  <2>2. /\ entry' \in [Names -> Writers \cup {Nothing}]
        /\ disk' \in [Names -> Writers \cup {Nothing}]
    BY <1>5 DEF PowerLoss, Left
  <2>3. data' \in [Writers -> {"none", "part", "whole"}]
    BY <1>5 DEF PowerLoss
  <2> QED BY <1>5, <2>1, <2>2, <2>3 DEF PowerLoss
<1>6. CASE UNCHANGED vars
  BY <1>6 DEF vars
<1> QED BY <1>1, <1>2, <1>3, <1>4, <1>5, <1>6 DEF Next

-----------------------------------------------------------------------------
\* Every step keeps a published file whole: it was flushed before it got its
\* name, and no step after that writes to it.
LEMMA WholePreserved == TypeInv /\ WholeInv /\ [Next]_vars => WholeInv'
<1> SUFFICES ASSUME TypeInv, WholeInv, [Next]_vars PROVE WholeInv'
  OBVIOUS
<1> USE PublicationAssumption, NamesTyped DEF TypeInv, TypeOK, WholeInv
<1>1. ASSUME NEW w \in Writers, Step(w) PROVE WholeInv'
  <2>1. CASE LookForDirectory(w)
    BY <2>1 DEF LookForDirectory, Goes
  <2>2. CASE MakeDirectory(w)
    BY <2>2 DEF MakeDirectory, Goes
  <2>3. CASE FlushParent(w)
    BY <2>3 DEF FlushParent, Goes
  <2>4. CASE OpenTemporary(w)
    BY <2>4 DEF OpenTemporary, Goes
  <2>5. CASE WriteAll(w)
    BY <2>5 DEF WriteAll, Goes
  <2>6. CASE FlushFile(w)
    BY <2>6 DEF FlushFile, Goes
  <2>7. CASE Link(w)
    BY <2>7 DEF Link, Goes
  <2>8. CASE Replace(w)
    BY <2>8 DEF Replace, Goes
  <2>9. CASE Unlink(w)
    BY <2>9 DEF Unlink, Goes
  <2>10. CASE FlushDirectory(w)
    BY <2>10 DEF FlushDirectory, Goes
  <2> QED BY <1>1, <2>1, <2>2, <2>3, <2>4, <2>5, <2>6, <2>7, <2>8, <2>9, <2>10 DEF Step
<1>2. ASSUME NEW w \in Writers, Stop(w) PROVE WholeInv'
  BY <1>2 DEF Stop
<1>3. ASSUME NEW n \in Names, WriteBackName(n) PROVE WholeInv'
  BY <1>3 DEF WriteBackName
<1>4. ASSUME NEW d \in Dirs, WriteBackDirectory(d) PROVE WholeInv'
  BY <1>4 DEF WriteBackDirectory
<1>5. CASE PowerLoss
  <2>1. \A w \in Writers : pc'[w] \notin {"written", "synced"}
    BY <1>5 DEF PowerLoss, Over
  <2>2. \A t \in Targets : entry'[t] \in flushed \cup {Nothing} /\ disk'[t] \in flushed \cup {Nothing}
    BY <1>5 DEF PowerLoss, Left
  <2>3. \A w \in flushed : data'[w] = "whole"
                            /\ pc'[w] \notin {"idle", "missing", "made", "ready", "writing"}
    BY <1>5 DEF PowerLoss, Over
  <2> QED BY <1>5, <2>1, <2>2, <2>3 DEF PowerLoss
<1>6. CASE UNCHANGED vars
  BY <1>6 DEF vars
<1> QED BY <1>1, <1>2, <1>3, <1>4, <1>5, <1>6 DEF Next

-----------------------------------------------------------------------------
\* Every step keeps the names of the ended writers gone, on the disk too.
LEMMA LitterPreserved == TypeInv /\ LitterInv /\ [Next]_vars => LitterInv'
<1> SUFFICES ASSUME TypeInv, LitterInv, [Next]_vars PROVE LitterInv'
  OBVIOUS
<1> USE PublicationAssumption, NamesTyped DEF TypeInv, TypeOK, LitterInv
<1>1. ASSUME NEW w \in Writers, Step(w) PROVE LitterInv'
  <2>1. CASE LookForDirectory(w)
    BY <2>1 DEF LookForDirectory, Goes
  <2>2. CASE MakeDirectory(w)
    BY <2>2 DEF MakeDirectory, Goes
  <2>3. CASE FlushParent(w)
    BY <2>3 DEF FlushParent, Goes
  <2>4. CASE OpenTemporary(w)
    BY <2>4 DEF OpenTemporary, Goes
  <2>5. CASE WriteAll(w)
    BY <2>5 DEF WriteAll, Goes
  <2>6. CASE FlushFile(w)
    BY <2>6 DEF FlushFile, Goes
  <2>7. CASE Link(w)
    BY <2>7 DEF Link, Goes
  <2>8. CASE Replace(w)
    BY <2>8 DEF Replace, Goes
  <2>9. CASE Unlink(w)
    BY <2>9 DEF Unlink, Goes
  <2>10. CASE FlushDirectory(w)
    <3>1. \A v \in Writers : disk'[v] \in {disk[v], entry[v]} /\ (v = w => disk'[v] = entry[v])
      BY <2>10 DEF FlushDirectory, MyDir
    <3>2. entry' = entry /\ \A v \in Writers \ {w} : pc'[v] = pc[v]
      BY <2>10 DEF FlushDirectory, Goes
    <3>3. \/ pc[w] = "published" /\ pc'[w] = IF w \in Replacing THEN "ok" ELSE "settled"
          \/ pc[w] = "cleaned" /\ pc'[w] = "ok"
          \/ pc[w] = "discarded" /\ pc'[w] = "collision"
      BY <2>10 DEF FlushDirectory, Goes
    <3> QED BY <3>1, <3>2, <3>3
  <2> QED BY <1>1, <2>1, <2>2, <2>3, <2>4, <2>5, <2>6, <2>7, <2>8, <2>9, <2>10 DEF Step
<1>2. ASSUME NEW w \in Writers, Stop(w) PROVE LitterInv'
  BY <1>2 DEF Stop
<1>3. ASSUME NEW n \in Names, WriteBackName(n) PROVE LitterInv'
  BY <1>3 DEF WriteBackName
<1>4. ASSUME NEW d \in Dirs, WriteBackDirectory(d) PROVE LitterInv'
  BY <1>4 DEF WriteBackDirectory
<1>5. CASE PowerLoss
  BY <1>5 DEF PowerLoss, Left, Over
<1>6. CASE UNCHANGED vars
  BY <1>6 DEF vars
<1> QED BY <1>1, <1>2, <1>3, <1>4, <1>5, <1>6 DEF Next

-----------------------------------------------------------------------------
\* A sole maker past _ensure_durable_directory has its directory on the disk, and
\* no step takes it away.
LEMMA DirPreserved ==
    ASSUME NEW a \in Writers, SoleMaker(a), TypeInv, DirInv(a), [Next]_vars
    PROVE  DirInv(a)'
<1> USE PublicationAssumption, NamesTyped DEF SoleMaker, TypeInv, TypeOK, DirInv, FoundOnDisk, Before
<1>1. ASSUME NEW w \in Writers, Step(w) PROVE DirInv(a)'
  <2>1. CASE LookForDirectory(w)
    BY <2>1 DEF LookForDirectory, Goes
  <2>2. CASE MakeDirectory(w)
    BY <2>2 DEF MakeDirectory, Goes
  <2>3. CASE FlushParent(w)
    BY <2>3 DEF FlushParent, Goes
  <2>4. CASE OpenTemporary(w)
    BY <2>4 DEF OpenTemporary, Goes
  <2>5. CASE WriteAll(w)
    BY <2>5 DEF WriteAll, Goes
  <2>6. CASE FlushFile(w)
    BY <2>6 DEF FlushFile, Goes
  <2>7. CASE Link(w)
    BY <2>7 DEF Link, Goes
  <2>8. CASE Replace(w)
    BY <2>8 DEF Replace, Goes
  <2>9. CASE Unlink(w)
    BY <2>9 DEF Unlink, Goes
  <2>10. CASE FlushDirectory(w)
    BY <2>10 DEF FlushDirectory, Goes
  <2> QED BY <1>1, <2>1, <2>2, <2>3, <2>4, <2>5, <2>6, <2>7, <2>8, <2>9, <2>10 DEF Step
<1>2. ASSUME NEW w \in Writers, Stop(w) PROVE DirInv(a)'
  BY <1>2 DEF Stop
<1>3. ASSUME NEW n \in Names, WriteBackName(n) PROVE DirInv(a)'
  BY <1>3 DEF WriteBackName
<1>4. ASSUME NEW d \in Dirs, WriteBackDirectory(d) PROVE DirInv(a)'
  BY <1>4 DEF WriteBackDirectory
<1>5. CASE PowerLoss
  BY <1>5 DEF PowerLoss, Over
<1>6. CASE UNCHANGED vars
  BY <1>6 DEF vars
<1> QED BY <1>1, <1>2, <1>3, <1>4, <1>5, <1>6 DEF Next

-----------------------------------------------------------------------------
\* What a writer that found its directory on the disk has returned of stays in
\* the target, seen and on the disk.
LEMMA AckedPreserved ==
    ASSUME NEW a \in Writers \ Replacing, TypeInv, WholeInv, FoundOnDisk(a), AckedInv(a), [Next]_vars
    PROVE  AckedInv(a)'
<1> USE PublicationAssumption, NamesTyped DEF TypeInv, TypeOK, AckedInv
<1>1. ASSUME NEW w \in Writers, Step(w) PROVE AckedInv(a)'
  <2>1. CASE LookForDirectory(w)
    BY <2>1 DEF LookForDirectory, Goes
  <2>2. CASE MakeDirectory(w)
    BY <2>2 DEF MakeDirectory, Goes
  <2>3. CASE FlushParent(w)
    BY <2>3 DEF FlushParent, Goes
  <2>4. CASE OpenTemporary(w)
    BY <2>4 DEF OpenTemporary, Goes
  <2>5. CASE WriteAll(w)
    BY <2>5 DEF WriteAll, Goes
  <2>6. CASE FlushFile(w)
    BY <2>6 DEF FlushFile, Goes
  <2>7. CASE Link(w)
    <3>1. \A v \in Writers \ {w} : pc'[v] = pc[v]
      BY <2>7 DEF Link, Goes
    <3>2. CASE entry[TargetOf[w]] = Nothing
      <4>1. \A t \in Targets : entry'[t] = IF t = TargetOf[w] THEN w ELSE entry[t]
        BY <2>7, <3>2 DEF Link
      <4>2. \A v \in Writers : Nothing \notin Good(v)
        BY DEF Good
      <4>3. w \in Good(w) /\ pc'[w] \notin {"settled", "cleaned", "ok"}
        BY <2>7 DEF Good, Link, Goes
      <4> QED BY <2>7, <3>1, <3>2, <4>1, <4>2, <4>3 DEF Link
    <3>3. CASE entry[TargetOf[w]] # Nothing
      <4>1. entry' = entry /\ disk' = disk
        BY <2>7, <3>3 DEF Link
      <4>2. pc'[w] \in {"published", "rejected"}
        BY <2>7, <3>3 DEF Link, Goes
      <4>3. pc'[w] = "published" => Content(entry[TargetOf[w]]) = ContentOf[w]
        BY <2>7, <3>3 DEF Link, Goes
      <4>4. entry[TargetOf[w]] \in flushed /\ data[entry[TargetOf[w]]] = "whole"
        BY <3>3 DEF WholeInv
      <4>5. pc'[w] = "published" => entry[TargetOf[w]] \in Good(w)
        BY <4>3, <4>4, <3>3 DEF Good, Content
      <4> QED BY <3>1, <4>1, <4>2, <4>5
    <3> QED BY <3>2, <3>3
  <2>8. CASE Replace(w)
    BY <2>8 DEF Replace, Goes, Good
  <2>9. CASE Unlink(w)
    BY <2>9 DEF Unlink, Goes
  <2>10. CASE FlushDirectory(w)
    BY <2>10 DEF FlushDirectory, Goes
  <2> QED BY <1>1, <2>1, <2>2, <2>3, <2>4, <2>5, <2>6, <2>7, <2>8, <2>9, <2>10 DEF Step
<1>2. ASSUME NEW w \in Writers, Stop(w) PROVE AckedInv(a)'
  BY <1>2 DEF Stop
<1>3. ASSUME NEW n \in Names, WriteBackName(n) PROVE AckedInv(a)'
  BY <1>3 DEF WriteBackName
<1>4. ASSUME NEW d \in Dirs, WriteBackDirectory(d) PROVE AckedInv(a)'
  BY <1>4 DEF WriteBackDirectory
<1>5. CASE PowerLoss
  <2>1. pc'[a] \in {"published", "settled", "cleaned", "ok"} => pc'[a] = "ok" /\ pc[a] = "ok"
    BY <1>5 DEF PowerLoss, Over
  <2>2. pc[a] = "ok" => MyDir(a) \in diskDirs
    BY DEF FoundOnDisk, Before
  <2>3. pc[a] = "ok" => entry'[TargetOf[a]] = disk[TargetOf[a]] /\ disk'[TargetOf[a]] = disk[TargetOf[a]]
    BY <1>5, <2>2 DEF PowerLoss, Left
  <2>4. Good(a)' = Good(a)
    BY DEF Good
  <2> QED BY <2>1, <2>3, <2>4
<1>6. CASE UNCHANGED vars
  BY <1>6 DEF vars
<1> QED BY <1>1, <1>2, <1>3, <1>4, <1>5, <1>6 DEF Next

-----------------------------------------------------------------------------
\* Before the first write all parts of the invariant hold.
LEMMA InitHolds ==
    Init => TypeInv /\ WholeInv /\ LitterInv /\ \A w \in Writers : DirInv(w) /\ AckedInv(w)
<1> SUFFICES ASSUME Init
             PROVE  TypeInv /\ WholeInv /\ LitterInv /\ \A w \in Writers : DirInv(w) /\ AckedInv(w)
  OBVIOUS
<1> USE PublicationAssumption, NamesTyped DEF Init
<1>1. TypeInv
  BY DEF TypeInv, TypeOK, Steps
<1>2. WholeInv
  BY DEF WholeInv
<1>3. LitterInv
  BY DEF LitterInv
<1>4. \A w \in Writers : DirInv(w)
  BY DEF DirInv, FoundOnDisk, Before
<1>5. \A w \in Writers : AckedInv(w)
  BY DEF AckedInv
<1> QED BY <1>1, <1>2, <1>3, <1>4, <1>5

\* The state of the file system and of its writers keeps its type, and a
\* directory reaches the disk only after it was made.
THEOREM PublicationTypeCorrect == Spec => []TypeOK
<1>1. TypeInv => TypeOK
  BY DEF TypeInv
<1> QED BY <1>1, InitHolds, TypePreserved, PTL DEF Spec

\* For any writers of any targets, killed anywhere, and any loss of power: a
\* target that is there is whole (os.fsync comes before os.link or os.replace).
THEOREM PublicationWhole == Spec => []PublishedIsWhole
<1>1. TypeInv /\ WholeInv => PublishedIsWhole
  <2> SUFFICES ASSUME TypeInv, WholeInv, NEW t \in Targets PROVE Content(entry[t]) # Torn
    BY DEF PublishedIsWhole
  <2>1. CASE entry[t] = Nothing
    BY <2>1, PublicationAssumption DEF Content
  <2>2. CASE entry[t] \in flushed
    BY <2>2, PublicationAssumption DEF TypeInv, TypeOK, WholeInv, Content
  <2> QED BY <2>1, <2>2 DEF WholeInv
<1> QED BY <1>1, InitHolds, TypePreserved, WholePreserved, PTL DEF Spec

\* A writer that has returned or refused leaves no temporary name, and a loss
\* of power brings none back (the directory is flushed after the unlink).
THEOREM PublicationNoLitter == Spec => []NoLitter
<1>1. LitterInv => NoLitter
  BY DEF LitterInv, NoLitter
<1> QED BY <1>1, InitHolds, TypePreserved, LitterPreserved, PTL DEF Spec

\* The sole maker of its directory has it on the disk whenever it goes on.
LEMMA SoleMakerFinds == \A a \in Writers : SoleMaker(a) => (Spec => []FoundOnDisk(a))
<1> SUFFICES ASSUME NEW a \in Writers, SoleMaker(a) PROVE Spec => []FoundOnDisk(a)
  OBVIOUS
<1>1. Init => TypeInv /\ DirInv(a)
  BY InitHolds
<1>2. TypeInv /\ DirInv(a) /\ [Next]_vars => DirInv(a)'
  BY DirPreserved
<1>3. DirInv(a) => FoundOnDisk(a)
  BY DEF DirInv
<1> QED BY <1>1, <1>2, <1>3, TypePreserved, PTL DEF Spec

\* If a writer's directory is on the disk whenever it goes on from it, what
\* atomic_write_bytes has returned stays, whatever the other writers do, alone or
\* in its directory, and whenever the power goes.
THEOREM PublicationAckedStays ==
    \A a \in Writers \ Replacing : Spec /\ []FoundOnDisk(a) => []Stays(a)
<1> SUFFICES ASSUME NEW a \in Writers \ Replacing PROVE Spec /\ []FoundOnDisk(a) => []Stays(a)
  OBVIOUS
<1>1. TypeInv /\ WholeInv /\ AckedInv(a) => Stays(a)
  <2> SUFFICES ASSUME TypeInv, WholeInv, AckedInv(a), pc[a] = "ok"
               PROVE  \/ Content(entry[TargetOf[a]]) = ContentOf[a]
                      \/ \E x \in Replacing : TargetOf[x] = TargetOf[a] /\ entry[TargetOf[a]] = x
    BY DEF Stays
  <2>1. entry[TargetOf[a]] \in Good(a)
    BY DEF AckedInv
  <2>2. entry[TargetOf[a]] # Nothing /\ entry[TargetOf[a]] \in flushed
    BY <2>1, PublicationAssumption DEF Good, WholeInv
  <2> QED BY <2>1, <2>2 DEF Good, Content, WholeInv
<1>2. Init => TypeInv /\ WholeInv /\ AckedInv(a)
  BY InitHolds
<1>3. TypeInv /\ WholeInv /\ FoundOnDisk(a) /\ AckedInv(a) /\ [Next]_vars => AckedInv(a)'
  BY AckedPreserved
<1> QED BY <1>1, <1>2, <1>3, TypePreserved, WholePreserved, PTL DEF Spec
-----------------------------------------------------------------------------
(* The refinement.                                                         *)

\* A directory that is not on the disk is empty.
EmptyInv ==
    \A n \in Names : DirectoryOf(n) \notin diskDirs => entry[n] = Nothing /\ disk[n] = Nothing

\* A directory that is not on the disk has no published name on the disk.
LEMMA EmptyPreserved == TypeInv /\ DirectoriesOnDisk /\ EmptyInv /\ [Next]_vars => EmptyInv'
<1> SUFFICES ASSUME TypeInv, DirectoriesOnDisk, EmptyInv, [Next]_vars PROVE EmptyInv'
  OBVIOUS
<1> USE PublicationAssumption, NamesTyped DEF TypeInv, TypeOK, DirectoriesOnDisk, FoundOnDisk, EmptyInv, Before
<1>1. ASSUME NEW w \in Writers, Step(w) PROVE EmptyInv'
  <2>0. \A n \in {w, TargetOf[w]} : n \in Names /\ DirectoryOf(n) = MyDir(w)
    BY DEF MyDir
  <2> USE <2>0
  <2>1. CASE LookForDirectory(w) \/ MakeDirectory(w) \/ FlushParent(w)
    BY <2>1 DEF LookForDirectory, MakeDirectory, FlushParent
  <2>2. CASE OpenTemporary(w)
    BY <2>2 DEF OpenTemporary, Goes
  <2>3. CASE WriteAll(w) \/ FlushFile(w)
    BY <2>3 DEF WriteAll, FlushFile
  <2>4. CASE Link(w)
    BY <2>4 DEF Link, Goes
  <2>5. CASE Replace(w)
    BY <2>5 DEF Replace, Goes
  <2>6. CASE Unlink(w)
    BY <2>6 DEF Unlink
  <2>7. CASE FlushDirectory(w)
    BY <2>7 DEF FlushDirectory
  <2> QED BY <1>1, <2>1, <2>2, <2>3, <2>4, <2>5, <2>6, <2>7 DEF Step
<1>2. ASSUME NEW w \in Writers, Stop(w) PROVE EmptyInv'
  BY <1>2 DEF Stop
<1>3. ASSUME NEW n \in Names, WriteBackName(n) PROVE EmptyInv'
  BY <1>3 DEF WriteBackName
<1>4. ASSUME NEW d \in Dirs, WriteBackDirectory(d) PROVE EmptyInv'
  BY <1>4 DEF WriteBackDirectory
<1>5. CASE PowerLoss
  BY <1>5 DEF PowerLoss, Left
<1>6. CASE UNCHANGED vars
  BY <1>6 DEF vars
<1> QED BY <1>1, <1>2, <1>3, <1>4, <1>5, <1>6 DEF Next

\* The content of a file that was flushed.
Bytes(f) == IF f = Nothing THEN Nothing ELSE ContentOf[f]

\* With whole files, the value of a target is that of its writer.
LEMMA ValueOfTarget ==
    ASSUME TypeInv, WholeInv, NEW t \in Targets
    PROVE  /\ Content(entry[t]) = Bytes(entry[t])
           /\ LeftContent(t) = Bytes(Left(t))
BY PublicationAssumption DEF TypeInv, TypeOK, WholeInv, Content, LeftContent, Left, Bytes

\* The empty file system is the empty register.
LEMMA InitRefines == Init => Register!AInit
<1> SUFFICES ASSUME Init PROVE Register!AInit
  OBVIOUS
<1>1. \A t \in Targets : Content(entry[t]) = Nothing /\ LeftContent(t) = Nothing
  BY NamesTyped DEF Init, Content, LeftContent, Left
<1>2. \A w \in Writers : Stage(pc[w]) = "pending"
  BY DEF Init, Stage
<1> QED BY <1>1, <1>2 DEF Register!AInit

\* A step that changes neither a content nor a stage is a stutter.
LEMMA StutterRefines ==
    ASSUME \A t \in Targets : /\ Content(entry[t])' = Content(entry[t])
                              /\ LeftContent(t)' = LeftContent(t),
           \A w \in Writers : Stage(pc[w])' = Stage(pc[w])
    PROVE  UNCHANGED Register!abstractVars
BY DEF Register!abstractVars

\* A step that changes the stage of one writer.
LEMMA StageMoves ==
    ASSUME NEW w \in Writers, NEW r,
           \A v \in Writers \ {w} : pc'[v] = pc[v],
           Stage(pc'[w]) = r
    PROVE  [v \in Writers |-> Stage(pc[v])]' = [[v \in Writers |-> Stage(pc[v])] EXCEPT ![w] = r]
<1>1. \A v \in Writers : Stage(pc'[v]) = IF v = w THEN r ELSE Stage(pc[v])
  OBVIOUS
<1> QED BY <1>1

\* Every step of a writer, of the file system, and every loss of power is a step
\* of the register or none.
LEMMA StepRefines ==
    ASSUME TypeInv, WholeInv, LitterInv, DirectoriesOnDisk, EmptyInv, TypeInv', WholeInv', [Next]_vars
    PROVE  [Register!ANext]_(Register!abstractVars)
<1> USE PublicationAssumption, NamesTyped
<1> DEFINE value == [t \in Targets |-> Content(entry[t])]
           kept == [t \in Targets |-> LeftContent(t)]
           result == [w \in Writers |-> Stage(pc[w])]
<1>v. \A t \in Targets : /\ Content(entry[t]) = Bytes(entry[t])
                         /\ LeftContent(t) = Bytes(Left(t))
                         /\ Content(entry[t])' = Bytes(entry'[t])
                         /\ LeftContent(t)' = Bytes(Left(t)')
  <2>1. \A t \in Targets : Content(entry[t]) = Bytes(entry[t]) /\ LeftContent(t) = Bytes(Left(t))
    BY ValueOfTarget
  <2>2. \A t \in Targets : Content(entry[t])' = Bytes(entry'[t]) /\ LeftContent(t)' = Bytes(Left(t)')
    BY DEF TypeInv, TypeOK, WholeInv, Content, LeftContent, Left, Bytes
  <2> QED BY <2>1, <2>2
<1>1. ASSUME NEW w \in Writers,
             \/ LookForDirectory(w) \/ MakeDirectory(w) \/ FlushParent(w)
             \/ OpenTemporary(w) \/ WriteAll(w) \/ FlushFile(w) \/ Unlink(w)
      PROVE  UNCHANGED Register!abstractVars
  <2>1. \A t \in Targets : entry'[t] = entry[t] /\ disk'[t] = disk[t]
    BY <1>1 DEF LookForDirectory, MakeDirectory, FlushParent, OpenTemporary, WriteAll, FlushFile,
                Unlink, TypeInv, TypeOK
  <2>2. diskDirs \subseteq diskDirs'
    BY <1>1 DEF LookForDirectory, MakeDirectory, FlushParent, OpenTemporary, WriteAll, FlushFile, Unlink
  <2>3. \A t \in Targets : Left(t)' = Left(t)
    BY <2>1, <2>2, <1>1 DEF EmptyInv, Left, FlushParent, LookForDirectory, MakeDirectory,
                OpenTemporary, WriteAll, FlushFile, Unlink
  <2>4. \A v \in Writers : Stage(pc[v])' = Stage(pc[v])
    BY <1>1 DEF LookForDirectory, MakeDirectory, FlushParent, OpenTemporary, WriteAll, FlushFile,
                Unlink, Goes, Stage, TypeInv, TypeOK
  <2> QED BY <2>1, <2>3, <2>4, <1>v, StutterRefines
<1>2. ASSUME NEW w \in Writers, Link(w) \/ Replace(w) PROVE Register!ANext
  <2> DEFINE t == TargetOf[w]
  <2>0. pc[w] = "synced" /\ pc'[w] \in {"published", "rejected"} /\ w \in flushed
        /\ \A v \in Writers \ {w} : pc'[v] = pc[v]
    BY <1>2 DEF Link, Replace, Goes, TypeInv, TypeOK, WholeInv
  <2>1. \A x \in Targets \ {t} : entry'[x] = entry[x]
    BY <1>2 DEF Link, Replace, TypeInv, TypeOK
  <2>2. kept' = kept
    BY <1>2, <1>v DEF Link, Replace, Left
  <2>3. CASE pc'[w] = "published"
    <3>1. w \notin Replacing => Bytes(entry[t]) \in {Nothing, ContentOf[w]}
      BY <1>2, <2>3, <2>0, <1>v DEF Link, Replace, Goes, Bytes, TypeInv, TypeOK
    <3>2. Bytes(entry'[t]) = ContentOf[w]
      <4>1. CASE entry'[t] = w
        BY <4>1 DEF Bytes
      <4>2. CASE entry'[t] # w
        BY <1>2, <2>3, <2>0, <1>v, <4>2 DEF Link, Replace, Goes, Bytes, TypeInv, TypeOK
      <4> QED BY <4>1, <4>2
    <3>3. value' = [value EXCEPT ![t] = ContentOf[w]]
      <4>1. \A x \in Targets : Content(entry[x])' = IF x = t THEN ContentOf[w] ELSE Content(entry[x])
        BY <3>2, <2>1, <1>v
      <4> QED BY <4>1
    <3>4. result[w] = "pending" /\ result' = [result EXCEPT ![w] = "visible"]
      <4>1. Stage(pc[w]) = "pending" /\ Stage(pc'[w]) = "visible"
        BY <2>0, <2>3 DEF Stage
      <4> QED BY <4>1, <2>0, StageMoves
    <3>5. Register!Publish(w)
      BY <3>1, <3>3, <3>4, <2>2, <1>v DEF Register!Publish, Register!Becomes
    <3> QED BY <3>5 DEF Register!ANext
  <2>4. CASE pc'[w] = "rejected"
    <3>1. /\ w \notin Replacing /\ entry' = entry
          /\ entry[t] # Nothing /\ Content(entry[t]) # ContentOf[w]
      BY <1>2, <2>4 DEF Link, Replace, Goes, TypeInv, TypeOK
    <3>2. value[t] \notin {Nothing, ContentOf[w]} /\ value' = value
      BY <3>1, <1>v DEF Bytes, TypeInv, TypeOK
    <3>3. result[w] = "pending" /\ result' = [result EXCEPT ![w] = "refused"]
      <4>1. Stage(pc[w]) = "pending" /\ Stage(pc'[w]) = "refused"
        BY <2>0, <2>4 DEF Stage
      <4> QED BY <4>1, <2>0, StageMoves
    <3>4. Register!Refuse(w)
      BY <3>1, <3>2, <3>3, <2>2 DEF Register!Refuse, Register!Becomes
    <3> QED BY <3>4 DEF Register!ANext
  <2> QED BY <2>0, <2>3, <2>4
<1>3. ASSUME NEW w \in Writers, FlushDirectory(w) PROVE Register!ANext
  <2> DEFINE T == {t \in Targets : DirOf[t] = MyDir(w)}
  <2>0. \/ pc[w] = "published" /\ pc'[w] = IF w \in Replacing THEN "ok" ELSE "settled"
        \/ pc[w] = "cleaned" /\ pc'[w] = "ok"
        \/ pc[w] = "discarded" /\ pc'[w] = "collision"
    BY <1>3 DEF FlushDirectory, Goes, TypeInv, TypeOK
  <2>1. \A v \in Writers \ {w} : pc'[v] = pc[v]
    BY <1>3 DEF FlushDirectory, Goes, TypeInv, TypeOK
  <2>2. value' = value
    BY <1>3, <1>v DEF FlushDirectory
  <2>3. MyDir(w) \in diskDirs
    BY <2>0 DEF DirectoriesOnDisk, FoundOnDisk, Before
  <2>4. \A t \in Targets : Left(t)' = IF t \in T THEN entry[t] ELSE Left(t)
    BY <1>3, <2>3 DEF FlushDirectory, Left
  <2>5. kept' = [t \in Targets |-> IF t \in T THEN value[t] ELSE kept[t]]
    BY <2>4, <1>v
  <2>6. Register!WriteBack(T) /\ T \in SUBSET Targets /\ TargetOf[w] \in T
    BY <2>5 DEF Register!WriteBack
  <2>7. CASE pc[w] = "published"
    <3>1. result[w] = "visible"
      BY <2>7 DEF Stage
    <3>2. result' = [result EXCEPT ![w] = "safe"] \/ result' = [result EXCEPT ![w] = "done"]
      <4>1. Stage(pc'[w]) = "safe" \/ Stage(pc'[w]) = "done"
        BY <2>7, <2>0 DEF Stage
      <4> QED BY <4>1, <2>1, StageMoves
    <3>3. Register!Settle(w, T)
      BY <3>1, <3>2, <2>2, <2>6 DEF Register!Settle, Register!Becomes
    <3> QED BY <3>3, <2>6 DEF Register!ANext
  <2>8. CASE pc[w] = "cleaned"
    <3>1. result[w] = "safe" /\ result' = [result EXCEPT ![w] = "done"]
      <4>1. Stage(pc[w]) = "safe" /\ Stage(pc'[w]) = "done"
        BY <2>8, <2>0 DEF Stage
      <4> QED BY <4>1, <2>1, StageMoves
    <3>2. Register!Return(w, T)
      BY <3>1, <2>2, <2>6 DEF Register!Return, Register!Becomes
    <3> QED BY <3>2, <2>6 DEF Register!ANext
  <2>9. CASE pc[w] = "discarded"
    <3>1. result' = result
      BY <2>9, <2>0, <2>1 DEF Stage
    <3>2. Register!Persist(T)
      BY <3>1, <2>2, <2>6 DEF Register!Persist
    <3> QED BY <3>2, <2>6 DEF Register!ANext
  <2> QED BY <2>0, <2>7, <2>8, <2>9
<1>4. ASSUME NEW w \in Writers, Stop(w) PROVE Register!ANext
  <2>1. value' = value /\ kept' = kept
    BY <1>4, <1>v DEF Stop, Left
  <2>2. result[w] # "done" /\ result' = [result EXCEPT ![w] = "dead"]
    <3>1. Stage(pc[w]) # "done" /\ Stage(pc'[w]) = "dead"
      BY <1>4 DEF Stop, Over, Stage, TypeInv, TypeOK, Steps
    <3>2. \A v \in Writers \ {w} : pc'[v] = pc[v]
      BY <1>4 DEF Stop, TypeInv, TypeOK
    <3> QED BY <3>1, <3>2, StageMoves
  <2>3. Register!Die(w)
    BY <2>1, <2>2 DEF Register!Die, Register!Becomes
  <2> QED BY <2>3 DEF Register!ANext
<1>5. ASSUME NEW n \in Names, WriteBackName(n)
      PROVE  Register!ANext \/ UNCHANGED Register!abstractVars
  <2>1. value' = value /\ result' = result
    BY <1>5, <1>v DEF WriteBackName
  <2>2. CASE n \in Targets
    <3>1. \A t \in Targets : Left(t)' = IF t = n THEN entry[t] ELSE Left(t)
      BY <1>5, <2>2 DEF WriteBackName, Left, EmptyInv, TypeInv, TypeOK
    <3>2. kept' = [t \in Targets |-> IF t \in {n} THEN value[t] ELSE kept[t]]
      BY <3>1, <1>v
    <3>3. Register!Persist({n})
      BY <3>2, <2>1 DEF Register!Persist, Register!WriteBack
    <3> QED BY <3>3, <2>2 DEF Register!ANext
  <2>3. CASE n \notin Targets
    <3>1. \A t \in Targets : Left(t)' = Left(t)
      BY <1>5, <2>3 DEF WriteBackName, Left, TypeInv, TypeOK
    <3> QED BY <3>1, <2>1, <1>v DEF Register!abstractVars
  <2> QED BY <2>2, <2>3
<1>6. ASSUME NEW d \in Dirs, WriteBackDirectory(d) PROVE UNCHANGED Register!abstractVars
  <2>1. value' = value /\ result' = result
    BY <1>6, <1>v DEF WriteBackDirectory
  <2>2. \A t \in Targets : Left(t)' = Left(t)
    BY <1>6 DEF WriteBackDirectory, Left, EmptyInv
  <2> QED BY <2>1, <2>2, <1>v DEF Register!abstractVars
<1>7. CASE PowerLoss
  <2> DEFINE D == {w \in Writers : pc[w] \notin Over \cup {"idle"}}
  <2>1. \A t \in Targets : entry'[t] = Left(t) /\ Left(t)' = Left(t)
    BY <1>7 DEF PowerLoss, Left
  <2>2. value' = kept /\ kept' = kept
    BY <2>1, <1>v
  <2>3. D \in SUBSET {w \in Writers : result[w] # "done"}
    BY DEF Over, Stage, TypeInv, TypeOK, Steps
  <2>4. {w \in Writers : result[w] \in {"visible", "safe"}} \subseteq D
    BY DEF Over, Stage, TypeInv, TypeOK, Steps
  <2>5. result' = [w \in Writers |-> IF w \in D THEN "dead" ELSE result[w]]
    BY <1>7 DEF PowerLoss, Over, Stage
  <2>6. Register!LosePower
    BY <2>2, <2>3, <2>4, <2>5 DEF Register!LosePower
  <2> QED BY <2>6 DEF Register!ANext
<1>8. CASE UNCHANGED vars
  <2>1. UNCHANGED <<value, kept, result>>
    BY <1>8 DEF vars, Content, LeftContent, Left
  <2> QED BY <2>1 DEF Register!abstractVars
<1> QED BY <1>1, <1>2, <1>3, <1>4, <1>5, <1>6, <1>7, <1>8 DEF Next, Step

\* If every writer has its directory on the disk whenever it goes on from it, the
\* steps of atomic.py implement the durable register, for any writers, any number
\* of them in one directory, any kills and losses of power.
THEOREM PublicationIsRegister == Spec /\ []DirectoriesOnDisk => IsRegister
<1> DEFINE Inv == TypeInv /\ WholeInv /\ LitterInv /\ EmptyInv
<1>1. Init => Inv
  BY InitHolds, NamesTyped DEF Init, EmptyInv
<1>2. Inv /\ DirectoriesOnDisk /\ [Next]_vars => Inv'
  BY TypePreserved, WholePreserved, LitterPreserved, EmptyPreserved
<1>3. Inv /\ Inv' /\ DirectoriesOnDisk /\ [Next]_vars => [Register!ANext]_(Register!abstractVars)
  BY StepRefines
<1> QED BY <1>1, <1>2, <1>3, InitRefines, PTL DEF Spec, IsRegister, Register!ASpec
=============================================================================
