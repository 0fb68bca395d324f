----------------------------- MODULE StudyProofs -----------------------------
(***************************************************************************)
(* Proofs about Study: what may be relied upon of the result files, the    *)
(* selector and the published reports, however many drivers are at work    *)
(* and wherever each of them is killed.                                    *)
(***************************************************************************)
EXTENDS Study, TLAPS

DriverAts == {"idle", "init", "load", "run", "validate", "compare", "build", "analysis", "asking", "publish"}

CellAts == {"off", "built", "open", "adding", "done", "failed"}

\* The fields a cell has.
CellShape(c) ==
    c \in [at : CellAts, todo : {c.todo}, question : {c.question}, next : {c.next}, sealed : {c.sealed}]

CellsShape(cells) ==
    cells = [p \in Providers |-> cells[p]] /\ \A p \in Providers : CellShape(cells[p])

\* The fields a driver has.
DriverShape(r) ==
    /\ r \in [at : DriverAts, pid : Directories, study : Studies \cup {NoStudy}, fresh : BOOLEAN,
              cells : {r.cells}, directory : Directories, build : {r.build}, analysis : {r.analysis},
              left : {r.left}]
    /\ CellsShape(r.cells)

FileShape(f) == f \in [exists : BOOLEAN, saved : {f.saved}]

\* What the state is, apart from what the results, the reports and the stored
\* analyses say.
StudyTypeOK ==
    /\ plan \subseteq Studies /\ selector \in Studies \cup {NoStudy}
    /\ results = [s \in Studies |-> [p \in Providers |-> results[s][p]]]
    /\ \A s \in Studies, p \in Providers : FileShape(results[s][p])
    /\ owner \in [Providers -> Drivers \cup {NoOwner}]
    /\ report = [s \in Studies |-> [n \in Directories |-> report[s][n]]]
    /\ used \in [starts : 0..MaxStarts, kills : Nat, seals : Nat]
    /\ driver = [d \in Drivers |-> driver[d]] /\ \A d \in Drivers : DriverShape(driver[d])

\* The report of the study's results as they are now.
Build(s) == BuildQuestionResultsComparisonProject([p \in Providers |-> results[s][p].saved], NoLimits)

\* The cell has read the file as it still is, and adds one question to it.
Adding(c, file) ==
    /\ file.exists /\ c.question \in Questions \ DOMAIN file.saved
    /\ DOMAIN c.next = DOMAIN file.saved \cup {c.question}
    /\ \A q \in DOMAIN file.saved : c.next[q] = file.saved[q]

\* The files that are not left to publish are in the directory.
Published(left, build, a, files) ==
    /\ left \subseteq Files(a)
    /\ \A name \in Files(a) \ left : name \in DOMAIN files /\ files[name] = Content(name, build, a)

DriverInv(d) ==
    LET r == driver[d] IN
    /\ r.at # "idle" => r.study \in Studies
    /\ r.at = "init" => r.study \in plan
    /\ \A p \in Live(d) : owner[p] = d /\ r.at = "run"
    /\ \A p \in Providers : r.cells[p].at = "adding" => Adding(r.cells[p], results[r.study][p])
    /\ r.at \in {"analysis", "asking", "publish"} /\ r.directory = 0 =>
          r.build = Build(r.study) /\ r.build # {}
    /\ r.at = "publish" => Published(r.left, r.build, r.analysis, report[r.study][r.directory])

FileInv(s, p) ==
    /\ DOMAIN results[s][p].saved \subseteq Questions
    /\ results[s][p].exists \/ results[s][p].saved = <<>>

SelectorInv == selector # NoStudy => selector \in plan /\ \A p \in Providers : results[selector][p].exists

\* A directory with a marker is whole; the comparison's shows the results.
MarkedInv(s, n) ==
    LET files == report[s][n] IN
    "marker" \in DOMAIN files =>
        /\ "checksums" \in DOMAIN files
        /\ LET index == files["checksums"] IN
              /\ \A name \in Payloads(index.text) \cup {"marker"} :
                    name \in DOMAIN files /\ files[name] = Content(name, index.build, index.text)
              /\ n = 0 => index.build = Build(s) /\ index.build # {}

StudyInv ==
    /\ StudyTypeOK
    /\ \A d \in Drivers : DriverInv(d)
    /\ \A s \in Studies, p \in Providers : FileInv(s, p)
    /\ SelectorInv
    /\ \A s \in Studies, n \in Directories : MarkedInv(s, n)

-----------------------------------------------------------------------------
\* The only record of drivers that a step changes is d's.
DriversStep(d) ==
    /\ driver' = [o \in Drivers |-> driver'[o]]
    /\ \A o \in Drivers \ {d} : driver'[o] = driver[o]
    /\ DriverShape(driver'[d])

\* A step that gives one driver a new record.
LEMMA SetDriver ==
    ASSUME StudyTypeOK, NEW d \in Drivers, NEW r, DriverShape(r), driver' = [driver EXCEPT ![d] = r]
    PROVE  driver'[d] = r /\ DriversStep(d)
  BY DEF StudyTypeOK, DriversStep

\* Nothing but where the driver is.
LEMMA SetAt ==
    ASSUME StudyTypeOK, NEW d \in Drivers, NEW at \in DriverAts, Goes(d, at)
    PROVE  /\ DriversStep(d)
           /\ driver'[d].at = at /\ driver'[d].study = driver[d].study /\ driver'[d].cells = driver[d].cells
           /\ driver'[d].directory = driver[d].directory /\ driver'[d].build = driver[d].build
  <1> DEFINE r == [driver[d] EXCEPT !.at = at]
  <1>1. DriverShape(driver[d])
    BY DEF StudyTypeOK
  <1>2. /\ r \in [at : DriverAts, pid : Directories, study : Studies \cup {NoStudy}, fresh : BOOLEAN,
                  cells : {r.cells}, directory : Directories, build : {r.build}, analysis : {r.analysis},
                  left : {r.left}]
        /\ r.at = at /\ r.study = driver[d].study /\ r.cells = driver[d].cells
        /\ r.directory = driver[d].directory /\ r.build = driver[d].build
    BY <1>1 DEF DriverShape
  <1>3. DriverShape(r)
    BY <1>1, <1>2 DEF DriverShape
  <1>4. driver' = [driver EXCEPT ![d] = r]
    BY DEF Goes
  <1> HIDE DEF r
  <1> QED
    BY <1>2, <1>3, <1>4, SetDriver

\* The driver ends and is free again.
LEMMA SetIdle ==
    ASSUME StudyTypeOK, NEW d \in Drivers, Dies(d)
    PROVE  DriversStep(d) /\ driver'[d] = Idle
  <1>1. DriverShape(Idle)
    BY StudyAssumption DEF DriverShape, Idle, NoCell, CellsShape, CellShape, Directories, DriverAts, CellAts
  <1> QED
    BY <1>1, SetDriver DEF Dies

\* One cell has a new record.
LEMMA SetCell ==
    ASSUME StudyTypeOK, NEW d \in Drivers, NEW p \in Providers, NEW c, CellShape(c), Cell(d, p, c)
    PROVE  /\ DriversStep(d)
           /\ driver'[d].cells[p] = c
           /\ \A o \in Providers \ {p} : driver'[d].cells[o] = driver[d].cells[o]
           /\ driver'[d].at = driver[d].at /\ driver'[d].study = driver[d].study
           /\ driver'[d].directory = driver[d].directory /\ driver'[d].build = driver[d].build
           /\ driver'[d].left = driver[d].left /\ driver'[d].analysis = driver[d].analysis
  <1> DEFINE cells == [driver[d].cells EXCEPT ![p] = c]
             r == [driver[d] EXCEPT !.cells = cells]
  <1>1. DriverShape(driver[d])
    BY DEF StudyTypeOK
  <1>2. /\ CellsShape(cells) /\ cells[p] = c
        /\ \A o \in Providers \ {p} : cells[o] = driver[d].cells[o]
    BY <1>1 DEF DriverShape, CellsShape
  <1>3. driver' = [driver EXCEPT ![d] = r]
    BY DEF Cell
  <1> HIDE DEF cells
  <1>4. /\ r \in [at : DriverAts, pid : Directories, study : Studies \cup {NoStudy}, fresh : BOOLEAN,
                  cells : {r.cells}, directory : Directories, build : {r.build}, analysis : {r.analysis},
                  left : {r.left}]
        /\ r.cells = cells /\ r.at = driver[d].at /\ r.study = driver[d].study
        /\ r.directory = driver[d].directory /\ r.build = driver[d].build
        /\ r.left = driver[d].left /\ r.analysis = driver[d].analysis
    BY <1>1 DEF DriverShape
  <1>5. DriverShape(r)
    BY <1>2, <1>4 DEF DriverShape
  <1> HIDE DEF r
  <1>6. driver'[d] = r /\ DriversStep(d)
    BY <1>3, <1>5, SetDriver
  <1> QED
    BY <1>2, <1>4, <1>6

\* One field of a driver's record is set, the others stay.
LEMMA RecordAt ==
    ASSUME NEW r, DriverShape(r), NEW at \in DriverAts
    PROVE  LET x == [r EXCEPT !.at = at]
           IN  /\ DriverShape(x) /\ x.at = at
               /\ x.pid = r.pid /\ x.study = r.study /\ x.fresh = r.fresh /\ x.cells = r.cells
               /\ x.directory = r.directory /\ x.build = r.build /\ x.analysis = r.analysis /\ x.left = r.left
  <1> DEFINE x == [r EXCEPT !.at = at]
  <1>1. /\ x \in [at : DriverAts, pid : Directories, study : Studies \cup {NoStudy}, fresh : BOOLEAN,
                  cells : {x.cells}, directory : Directories, build : {x.build}, analysis : {x.analysis},
                  left : {x.left}]
        /\ x.at = at
        /\ x.pid = r.pid /\ x.study = r.study /\ x.fresh = r.fresh /\ x.cells = r.cells
        /\ x.directory = r.directory /\ x.build = r.build /\ x.analysis = r.analysis /\ x.left = r.left
    BY DEF DriverShape
  <1> QED
    BY <1>1 DEF DriverShape

\* The same of cells.
LEMMA RecordCells ==
    ASSUME NEW r, DriverShape(r), NEW cells, CellsShape(cells)
    PROVE  LET x == [r EXCEPT !.cells = cells]
           IN  /\ DriverShape(x) /\ x.cells = cells
               /\ x.at = r.at /\ x.pid = r.pid /\ x.study = r.study /\ x.fresh = r.fresh
               /\ x.directory = r.directory /\ x.build = r.build /\ x.analysis = r.analysis /\ x.left = r.left
  <1> DEFINE x == [r EXCEPT !.cells = cells]
  <1>1. /\ x \in [at : DriverAts, pid : Directories, study : Studies \cup {NoStudy}, fresh : BOOLEAN,
                  cells : {x.cells}, directory : Directories, build : {x.build}, analysis : {x.analysis},
                  left : {x.left}]
        /\ x.cells = cells
        /\ x.at = r.at /\ x.pid = r.pid /\ x.study = r.study /\ x.fresh = r.fresh
        /\ x.directory = r.directory /\ x.build = r.build /\ x.analysis = r.analysis /\ x.left = r.left
    BY DEF DriverShape
  <1> QED
    BY <1>1 DEF DriverShape

\* The same of directory.
LEMMA RecordDirectory ==
    ASSUME NEW r, DriverShape(r), NEW directory \in Directories
    PROVE  LET x == [r EXCEPT !.directory = directory]
           IN  /\ DriverShape(x) /\ x.directory = directory
               /\ x.at = r.at /\ x.pid = r.pid /\ x.study = r.study /\ x.fresh = r.fresh
               /\ x.cells = r.cells /\ x.build = r.build /\ x.analysis = r.analysis /\ x.left = r.left
  <1> DEFINE x == [r EXCEPT !.directory = directory]
  <1>1. /\ x \in [at : DriverAts, pid : Directories, study : Studies \cup {NoStudy}, fresh : BOOLEAN,
                  cells : {x.cells}, directory : Directories, build : {x.build}, analysis : {x.analysis},
                  left : {x.left}]
        /\ x.directory = directory
        /\ x.at = r.at /\ x.pid = r.pid /\ x.study = r.study /\ x.fresh = r.fresh
        /\ x.cells = r.cells /\ x.build = r.build /\ x.analysis = r.analysis /\ x.left = r.left
    BY DEF DriverShape
  <1> QED
    BY <1>1 DEF DriverShape

\* The same of build.
LEMMA RecordBuild ==
    ASSUME NEW r, DriverShape(r), NEW build
    PROVE  LET x == [r EXCEPT !.build = build]
           IN  /\ DriverShape(x) /\ x.build = build
               /\ x.at = r.at /\ x.pid = r.pid /\ x.study = r.study /\ x.fresh = r.fresh
               /\ x.cells = r.cells /\ x.directory = r.directory /\ x.analysis = r.analysis /\ x.left = r.left
  <1> DEFINE x == [r EXCEPT !.build = build]
  <1>1. /\ x \in [at : DriverAts, pid : Directories, study : Studies \cup {NoStudy}, fresh : BOOLEAN,
                  cells : {x.cells}, directory : Directories, build : {x.build}, analysis : {x.analysis},
                  left : {x.left}]
        /\ x.build = build
        /\ x.at = r.at /\ x.pid = r.pid /\ x.study = r.study /\ x.fresh = r.fresh
        /\ x.cells = r.cells /\ x.directory = r.directory /\ x.analysis = r.analysis /\ x.left = r.left
    BY DEF DriverShape
  <1> QED
    BY <1>1 DEF DriverShape

\* The same of analysis.
LEMMA RecordAnalysis ==
    ASSUME NEW r, DriverShape(r), NEW analysis
    PROVE  LET x == [r EXCEPT !.analysis = analysis]
           IN  /\ DriverShape(x) /\ x.analysis = analysis
               /\ x.at = r.at /\ x.pid = r.pid /\ x.study = r.study /\ x.fresh = r.fresh
               /\ x.cells = r.cells /\ x.directory = r.directory /\ x.build = r.build /\ x.left = r.left
  <1> DEFINE x == [r EXCEPT !.analysis = analysis]
  <1>1. /\ x \in [at : DriverAts, pid : Directories, study : Studies \cup {NoStudy}, fresh : BOOLEAN,
                  cells : {x.cells}, directory : Directories, build : {x.build}, analysis : {x.analysis},
                  left : {x.left}]
        /\ x.analysis = analysis
        /\ x.at = r.at /\ x.pid = r.pid /\ x.study = r.study /\ x.fresh = r.fresh
        /\ x.cells = r.cells /\ x.directory = r.directory /\ x.build = r.build /\ x.left = r.left
    BY DEF DriverShape
  <1> QED
    BY <1>1 DEF DriverShape

\* The same of left.
LEMMA RecordLeft ==
    ASSUME NEW r, DriverShape(r), NEW left
    PROVE  LET x == [r EXCEPT !.left = left]
           IN  /\ DriverShape(x) /\ x.left = left
               /\ x.at = r.at /\ x.pid = r.pid /\ x.study = r.study /\ x.fresh = r.fresh
               /\ x.cells = r.cells /\ x.directory = r.directory /\ x.build = r.build /\ x.analysis = r.analysis
  <1> DEFINE x == [r EXCEPT !.left = left]
  <1>1. /\ x \in [at : DriverAts, pid : Directories, study : Studies \cup {NoStudy}, fresh : BOOLEAN,
                  cells : {x.cells}, directory : Directories, build : {x.build}, analysis : {x.analysis},
                  left : {x.left}]
        /\ x.left = left
        /\ x.at = r.at /\ x.pid = r.pid /\ x.study = r.study /\ x.fresh = r.fresh
        /\ x.cells = r.cells /\ x.directory = r.directory /\ x.build = r.build /\ x.analysis = r.analysis
    BY DEF DriverShape
  <1> QED
    BY <1>1 DEF DriverShape

\* The same of pid.
LEMMA RecordPid ==
    ASSUME NEW r, DriverShape(r), NEW pid \in Directories
    PROVE  LET x == [r EXCEPT !.pid = pid]
           IN  /\ DriverShape(x) /\ x.pid = pid
               /\ x.at = r.at /\ x.study = r.study /\ x.fresh = r.fresh /\ x.cells = r.cells
               /\ x.directory = r.directory /\ x.build = r.build /\ x.analysis = r.analysis /\ x.left = r.left
  <1> DEFINE x == [r EXCEPT !.pid = pid]
  <1>1. /\ x \in [at : DriverAts, pid : Directories, study : Studies \cup {NoStudy}, fresh : BOOLEAN,
                  cells : {x.cells}, directory : Directories, build : {x.build}, analysis : {x.analysis},
                  left : {x.left}]
        /\ x.pid = pid
        /\ x.at = r.at /\ x.study = r.study /\ x.fresh = r.fresh /\ x.cells = r.cells
        /\ x.directory = r.directory /\ x.build = r.build /\ x.analysis = r.analysis /\ x.left = r.left
    BY DEF DriverShape
  <1> QED
    BY <1>1 DEF DriverShape

\* The same of study.
LEMMA RecordStudy ==
    ASSUME NEW r, DriverShape(r), NEW study \in Studies
    PROVE  LET x == [r EXCEPT !.study = study]
           IN  /\ DriverShape(x) /\ x.study = study
               /\ x.at = r.at /\ x.pid = r.pid /\ x.fresh = r.fresh /\ x.cells = r.cells
               /\ x.directory = r.directory /\ x.build = r.build /\ x.analysis = r.analysis /\ x.left = r.left
  <1> DEFINE x == [r EXCEPT !.study = study]
  <1>1. /\ x \in [at : DriverAts, pid : Directories, study : Studies \cup {NoStudy}, fresh : BOOLEAN,
                  cells : {x.cells}, directory : Directories, build : {x.build}, analysis : {x.analysis},
                  left : {x.left}]
        /\ x.study = study
        /\ x.at = r.at /\ x.pid = r.pid /\ x.fresh = r.fresh /\ x.cells = r.cells
        /\ x.directory = r.directory /\ x.build = r.build /\ x.analysis = r.analysis /\ x.left = r.left
    BY DEF DriverShape
  <1> QED
    BY <1>1 DEF DriverShape

\* The same of fresh.
LEMMA RecordFresh ==
    ASSUME NEW r, DriverShape(r), NEW fresh \in BOOLEAN
    PROVE  LET x == [r EXCEPT !.fresh = fresh]
           IN  /\ DriverShape(x) /\ x.fresh = fresh
               /\ x.at = r.at /\ x.pid = r.pid /\ x.study = r.study /\ x.cells = r.cells
               /\ x.directory = r.directory /\ x.build = r.build /\ x.analysis = r.analysis /\ x.left = r.left
  <1> DEFINE x == [r EXCEPT !.fresh = fresh]
  <1>1. /\ x \in [at : DriverAts, pid : Directories, study : Studies \cup {NoStudy}, fresh : BOOLEAN,
                  cells : {x.cells}, directory : Directories, build : {x.build}, analysis : {x.analysis},
                  left : {x.left}]
        /\ x.fresh = fresh
        /\ x.at = r.at /\ x.pid = r.pid /\ x.study = r.study /\ x.cells = r.cells
        /\ x.directory = r.directory /\ x.build = r.build /\ x.analysis = r.analysis /\ x.left = r.left
    BY DEF DriverShape
  <1> QED
    BY <1>1 DEF DriverShape

\* Where the driver is, and all its cells.
LEMMA SetCells ==
    ASSUME StudyTypeOK, NEW d \in Drivers, NEW cells, CellsShape(cells),
           driver' = [driver EXCEPT ![d].at = "run", ![d].cells = cells]
    PROVE  /\ DriversStep(d)
           /\ driver'[d].at = "run"
           /\ driver'[d].cells = cells
           /\ driver'[d].study = driver[d].study
  <1> DEFINE r1 == [driver[d] EXCEPT !.at = "run"]
             r == [r1 EXCEPT !.cells = cells]
  <1>1. DriverShape(driver[d])
    BY DEF StudyTypeOK
  <1>2. driver' = [driver EXCEPT ![d] = r]
    BY DEF StudyTypeOK
  <1>3. /\ DriverShape(r1)
        /\ r1.at = "run" /\ r1.study = driver[d].study
    BY <1>1, RecordAt DEF DriverAts
  <1> HIDE DEF r1
  <1>4. /\ DriverShape(r)
        /\ r.at = "run" /\ r.cells = cells /\ r.study = driver[d].study
    BY <1>3, RecordCells DEF DriverAts
  <1> HIDE DEF r
  <1> QED
    BY <1>2, <1>4, SetDriver

\* The directory of its report.
LEMMA SetDirectory ==
    ASSUME StudyTypeOK, NEW d \in Drivers, NEW n \in Directories,
           driver' = [driver EXCEPT ![d].at = "build", ![d].directory = n]
    PROVE  /\ DriversStep(d)
           /\ driver'[d].at = "build"
           /\ driver'[d].directory = n
           /\ driver'[d].study = driver[d].study /\ driver'[d].cells = driver[d].cells
  <1> DEFINE r1 == [driver[d] EXCEPT !.at = "build"]
             r == [r1 EXCEPT !.directory = n]
  <1>1. DriverShape(driver[d])
    BY DEF StudyTypeOK
  <1>2. driver' = [driver EXCEPT ![d] = r]
    BY DEF StudyTypeOK
  <1>3. /\ DriverShape(r1)
        /\ r1.at = "build" /\ r1.study = driver[d].study /\ r1.cells = driver[d].cells
    BY <1>1, RecordAt DEF DriverAts
  <1> HIDE DEF r1
  <1>4. /\ DriverShape(r)
        /\ r.at = "build" /\ r.directory = n /\ r.study = driver[d].study /\ r.cells =
           driver[d].cells
    BY <1>3, RecordDirectory DEF DriverAts
  <1> HIDE DEF r
  <1> QED
    BY <1>2, <1>4, SetDriver

\* The report it has built.
LEMMA SetBuild ==
    ASSUME StudyTypeOK, NEW d \in Drivers, NEW build,
           driver' = [driver EXCEPT ![d].at = "analysis", ![d].build = build]
    PROVE  /\ DriversStep(d)
           /\ driver'[d].at = "analysis"
           /\ driver'[d].build = build
           /\ driver'[d].study = driver[d].study /\ driver'[d].cells = driver[d].cells /\ driver'[d].directory = driver[d].directory
  <1> DEFINE r1 == [driver[d] EXCEPT !.at = "analysis"]
             r == [r1 EXCEPT !.build = build]
  <1>1. DriverShape(driver[d])
    BY DEF StudyTypeOK
  <1>2. driver' = [driver EXCEPT ![d] = r]
    BY DEF StudyTypeOK
  <1>3. /\ DriverShape(r1)
        /\ r1.at = "analysis" /\ r1.study = driver[d].study /\ r1.cells = driver[d].cells /\
           r1.directory = driver[d].directory
    BY <1>1, RecordAt DEF DriverAts
  <1> HIDE DEF r1
  <1>4. /\ DriverShape(r)
        /\ r.at = "analysis" /\ r.build = build /\ r.study = driver[d].study /\ r.cells =
           driver[d].cells /\ r.directory = driver[d].directory
    BY <1>3, RecordBuild DEF DriverAts
  <1> HIDE DEF r
  <1> QED
    BY <1>2, <1>4, SetDriver

\* The report is complete and its files are to be published.
LEMMA SetPublishes ==
    ASSUME StudyTypeOK, NEW d \in Drivers, NEW a, Publishes(d, a)
    PROVE  /\ DriversStep(d)
           /\ driver'[d].at = "publish"
           /\ driver'[d].analysis = a
           /\ driver'[d].left = Files(a)
           /\ driver'[d].study = driver[d].study /\ driver'[d].cells = driver[d].cells /\ driver'[d].directory = driver[d].directory /\ driver'[d].build = driver[d].build
  <1> DEFINE r1 == [driver[d] EXCEPT !.at = "publish"]
             r2 == [r1 EXCEPT !.analysis = a]
             r == [r2 EXCEPT !.left = Files(a)]
  <1>1. DriverShape(driver[d])
    BY DEF StudyTypeOK
  <1>2. driver' = [driver EXCEPT ![d] = r]
    BY DEF StudyTypeOK, Publishes, Files
  <1>3. /\ DriverShape(r1)
        /\ r1.at = "publish" /\ r1.study = driver[d].study /\ r1.cells = driver[d].cells /\
           r1.directory = driver[d].directory /\ r1.build = driver[d].build
    BY <1>1, RecordAt DEF DriverAts
  <1> HIDE DEF r1
  <1>4. /\ DriverShape(r2)
        /\ r2.at = "publish" /\ r2.analysis = a /\ r2.study = driver[d].study /\ r2.cells =
           driver[d].cells /\ r2.directory = driver[d].directory /\ r2.build = driver[d].build
    BY <1>3, RecordAnalysis DEF DriverAts
  <1> HIDE DEF r2
  <1>5. /\ DriverShape(r)
        /\ r.at = "publish" /\ r.analysis = a /\ r.left = Files(a) /\ r.study = driver[d].study /\
           r.cells = driver[d].cells /\ r.directory = driver[d].directory /\ r.build =
           driver[d].build
    BY <1>4, RecordLeft DEF DriverAts
  <1> HIDE DEF r
  <1> QED
    BY <1>2, <1>5, SetDriver

\* What is left to publish.
LEMMA SetLeft ==
    ASSUME StudyTypeOK, NEW d \in Drivers, NEW left,
           driver' = [driver EXCEPT ![d].left = left]
    PROVE  /\ DriversStep(d)
           /\ driver'[d].left = left
           /\ driver'[d].at = driver[d].at /\ driver'[d].study = driver[d].study /\ driver'[d].cells = driver[d].cells /\ driver'[d].directory = driver[d].directory /\ driver'[d].build = driver[d].build /\ driver'[d].analysis = driver[d].analysis
  <1> DEFINE r == [driver[d] EXCEPT !.left = left]
  <1>1. DriverShape(driver[d])
    BY DEF StudyTypeOK
  <1>2. driver' = [driver EXCEPT ![d] = r]
    BY DEF StudyTypeOK
  <1>3. /\ DriverShape(r)
        /\ r.left = left /\ r.at = driver[d].at /\ r.study = driver[d].study /\ r.cells =
           driver[d].cells /\ r.directory = driver[d].directory /\ r.build = driver[d].build /\
           r.analysis = driver[d].analysis
    BY <1>1, RecordLeft DEF DriverAts
  <1> HIDE DEF r
  <1> QED
    BY <1>2, <1>3, SetDriver

\* What a driver that has nothing to do looks like.
LEMMA IdleShape ==
    /\ DriverShape(Idle) /\ Idle.at = "idle" /\ Idle.directory = 0
    /\ \A p \in Providers : Idle.cells[p].at = "off"
  BY StudyAssumption DEF DriverShape, Idle, NoCell, CellsShape, CellShape, Directories, DriverAts, CellAts

\* A command starts: the bound is used up, and its number is a new directory's.
LEMMA SetStarts ==
    ASSUME StudyTypeOK, NEW d \in Drivers, NEW c, DriverShape(c), Starts(d, c)
    PROVE  /\ DriversStep(d) /\ driver[d].at = "idle"
           /\ driver'[d].at = c.at /\ driver'[d].study = c.study /\ driver'[d].cells = c.cells
           /\ driver'[d].directory = c.directory /\ driver'[d].build = c.build
           /\ driver'[d].analysis = c.analysis /\ driver'[d].left = c.left
           /\ used' \in [starts : 0..MaxStarts, kills : Nat, seals : Nat]
           /\ used.starts + 1 \in Directories /\ used.starts + 1 # 0
  <1> DEFINE n == used.starts + 1
             r == [c EXCEPT !.pid = n]
  <1>1. used \in [starts : 0..MaxStarts, kills : Nat, seals : Nat] /\ used.starts < MaxStarts
    BY DEF StudyTypeOK, Starts
  <1>2. n \in Directories /\ n # 0 /\ n \in 0..MaxStarts
    BY <1>1, StudyAssumption DEF Directories
  <1>3. used' = [used EXCEPT !.starts = n] /\ driver' = [driver EXCEPT ![d] = r] /\ driver[d].at = "idle"
    BY DEF Starts
  <1> HIDE DEF n
  <1>4. /\ DriverShape(r) /\ r.at = c.at /\ r.study = c.study /\ r.cells = c.cells
        /\ r.directory = c.directory /\ r.build = c.build /\ r.analysis = c.analysis /\ r.left = c.left
    BY <1>2, RecordPid
  <1> HIDE DEF r
  <1>5. driver'[d] = r /\ DriversStep(d)
    BY <1>3, <1>4, SetDriver
  <1>6. used' \in [starts : 0..MaxStarts, kills : Nat, seals : Nat]
    BY <1>1, <1>2, <1>3
  <1> QED
    BY <1>2, <1>3, <1>4, <1>5, <1>6 DEF n

\* The record of a fresh start.
LEMMA FreshCommand ==
    ASSUME NEW s \in Studies
    PROVE  LET x == [Idle EXCEPT !.at = "init", !.study = s, !.fresh = TRUE]
           IN  /\ DriverShape(x)
               /\ x.at = "init" /\ x.study = s /\ x.fresh = TRUE
               /\ \A p \in Providers : x.cells[p].at = "off"
  <1> DEFINE x1 == [Idle EXCEPT !.at = "init"]
             x2 == [x1 EXCEPT !.study = s]
             x == [x2 EXCEPT !.fresh = TRUE]
  <1>1. DriverShape(x1) /\ x1.at = "init" /\ x1.cells = Idle.cells
    BY IdleShape, RecordAt DEF DriverAts
  <1> HIDE DEF x1
  <1>2. DriverShape(x2) /\ x2.at = "init" /\ x2.study = s /\ x2.cells = Idle.cells
    BY <1>1, RecordStudy DEF DriverAts
  <1> HIDE DEF x2
  <1>3. DriverShape(x) /\ x.at = "init" /\ x.study = s /\ x.fresh = TRUE /\ x.cells = Idle.cells
    BY <1>2, RecordFresh DEF DriverAts
  <1> HIDE DEF x
  <1> QED
    BY <1>3, IdleShape DEF x1, x2, x

\* The record of a resumed study.
LEMMA ResumeCommand ==
    ASSUME NEW s \in Studies
    PROVE  LET x == [Idle EXCEPT !.at = "load", !.study = s]
           IN  /\ DriverShape(x)
               /\ x.at = "load" /\ x.study = s
               /\ \A p \in Providers : x.cells[p].at = "off"
  <1> DEFINE x1 == [Idle EXCEPT !.at = "load"]
             x == [x1 EXCEPT !.study = s]
  <1>1. DriverShape(x1) /\ x1.at = "load" /\ x1.cells = Idle.cells
    BY IdleShape, RecordAt DEF DriverAts
  <1> HIDE DEF x1
  <1>2. DriverShape(x) /\ x.at = "load" /\ x.study = s /\ x.cells = Idle.cells
    BY <1>1, RecordStudy DEF DriverAts
  <1> HIDE DEF x
  <1> QED
    BY <1>2, IdleShape DEF x1, x

\* The record of a report of its own.
ReportRecord(s, n, build) ==
    [Idle EXCEPT !.at = "analysis", !.study = s, !.build = build, !.directory = n]

\* What that record is.
LEMMA ReportCommand ==
    ASSUME NEW s \in Studies, NEW n \in Directories, NEW build
    PROVE  LET x == ReportRecord(s, n, build)
           IN  /\ DriverShape(x)
               /\ x.at = "analysis" /\ x.study = s /\ x.directory = n
               /\ \A p \in Providers : x.cells[p].at = "off"
  <1> DEFINE x1 == [Idle EXCEPT !.at = "analysis"]
             x2 == [x1 EXCEPT !.study = s]
             x3 == [x2 EXCEPT !.build = build]
             x4 == [x3 EXCEPT !.directory = n]
  <1>0. ReportRecord(s, n, build) = x4
    BY DEF ReportRecord
  <1>1. DriverShape(x1) /\ x1.at = "analysis" /\ x1.cells = Idle.cells
    BY IdleShape, RecordAt DEF DriverAts
  <1> HIDE DEF x1
  <1>2. DriverShape(x2) /\ x2.at = "analysis" /\ x2.study = s /\ x2.cells = Idle.cells
    BY <1>1, RecordStudy
  <1> HIDE DEF x2
  <1>3. DriverShape(x3) /\ x3.at = "analysis" /\ x3.study = s /\ x3.cells = Idle.cells
    BY <1>2, RecordBuild
  <1> HIDE DEF x3
  <1>4. DriverShape(x4) /\ x4.at = "analysis" /\ x4.study = s /\ x4.directory = n /\ x4.cells = Idle.cells
    BY <1>3, RecordDirectory
  <1> HIDE DEF x4
  <1> QED
    BY <1>0, <1>4, IdleShape

-----------------------------------------------------------------------------
\* What a step does to a result file: it stays, and so does all that is in it;
\* a complete one is never written again.
FileGrows(s, p) ==
    LET f == results[s][p]
        g == results'[s][p]
    IN  /\ f.exists => g.exists
        /\ \A q \in DOMAIN f.saved : q \in DOMAIN g.saved /\ g.saved[q] = f.saved[q]
        /\ DOMAIN f.saved = Questions => g.saved = f.saved

\* What a step does to a report directory: a file in it stays as it is.
ReportGrows(s, n) ==
    \A name \in DOMAIN report[s][n] :
        name \in DOMAIN report'[s][n] /\ report'[s][n][name] = report[s][n][name]

Grows ==
    /\ plan \subseteq plan'
    /\ \A s \in Studies, p \in Providers : FileGrows(s, p)
    /\ \A s \in Studies, n \in Directories : ReportGrows(s, n)

\* A report can be built of complete results only, so it stays what it is.
LEMMA BuildStays ==
    ASSUME NEW s \in Studies, \A p \in Providers : FileGrows(s, p), Build(s) # {}
    PROVE  Build(s)' = Build(s)
  <1> DEFINE rs == [p \in Providers |-> results[s][p].saved]
  <1>1. \A p \in Providers : RequireCompleteQuestionResults(rs[p])
    BY DEF Build, BuildQuestionResultsComparisonProject
  <1>2. \A p \in Providers : DOMAIN results[s][p].saved = Questions
    BY <1>1 DEF RequireCompleteQuestionResults
  <1>3. \A p \in Providers : results'[s][p].saved = results[s][p].saved
    BY <1>2 DEF FileGrows
  <1>4. [p \in Providers |-> results'[s][p].saved] = rs
    BY <1>3
  <1> QED
    BY <1>4 DEF Build

\* What a step of another driver leaves true of this one.
LEMMA OtherKeeps ==
    ASSUME StudyTypeOK, NEW o \in Drivers, DriverInv(o), driver'[o] = driver[o], Grows,
           \A p \in Live(o) : /\ owner'[p] = owner[p]
                              /\ driver[o].cells[p].at = "adding" =>
                                    results'[driver[o].study][p] = results[driver[o].study][p]
    PROVE  DriverInv(o)'
  <1> DEFINE r == driver[o]
  <1>1. /\ r.at # "idle" => r.study \in Studies
        /\ r.at = "init" => r.study \in plan
        /\ \A p \in Live(o) : owner[p] = o /\ r.at = "run"
        /\ \A p \in Providers : r.cells[p].at = "adding" => Adding(r.cells[p], results[r.study][p])
        /\ r.at \in {"analysis", "asking", "publish"} /\ r.directory = 0 =>
              r.build = Build(r.study) /\ r.build # {}
        /\ r.at = "publish" => Published(r.left, r.build, r.analysis, report[r.study][r.directory])
    BY DEF DriverInv
  <1>2. r.directory \in Directories
    BY DEF StudyTypeOK, DriverShape
  <1>3. Live(o)' = Live(o)
    BY DEF Live
  <1>4. \A p \in Live(o) : owner'[p] = o /\ r.at = "run"
    BY <1>1
  <1>5. ASSUME NEW p \in Providers, r.cells[p].at = "adding"
        PROVE  Adding(r.cells[p], results'[r.study][p])
    <2>1. p \in Live(o)
      BY <1>5 DEF Live
    <2> QED
      BY <1>1, <1>5, <2>1
  <1>6. ASSUME r.at \in {"analysis", "asking", "publish"}, r.directory = 0
        PROVE  r.build = Build(r.study)' /\ r.build # {}
    <2>1. r.study \in Studies /\ r.build = Build(r.study) /\ r.build # {}
      BY <1>1, <1>6
    <2> HIDE DEF r
    <2>2. ASSUME NEW s \in Studies, Build(s) # {}
          PROVE  Build(s)' = Build(s)
      BY <2>2, BuildStays DEF Grows
    <2>3. PICK s \in Studies : s = r.study
      BY <2>1
    <2>4. r' = r
      BY DEF r
    <2> QED
      BY <2>1, <2>2, <2>3, <2>4
  <1>7. ASSUME r.at = "publish"
        PROVE  Published(r.left, r.build, r.analysis, report'[r.study][r.directory])
    <2>1. ReportGrows(r.study, r.directory)
      BY <1>1, <1>2, <1>7 DEF Grows
    <2> QED
      BY <1>1, <1>7, <2>1 DEF Published, ReportGrows
  <1> QED
    BY <1>1, <1>3, <1>4, <1>5, <1>6, <1>7 DEF DriverInv, Grows

\* A driver that ended has nothing to answer for.
LEMMA IdleKeeps ==
    ASSUME NEW d \in Drivers, driver'[d] = Idle
    PROVE  DriverInv(d)'
  BY IdleShape DEF DriverInv, Live

\* A report that was marked stays marked and stays what it was.
LEMMA MarkedKeeps ==
    ASSUME Grows, NEW s \in Studies, NEW n \in Directories, MarkedInv(s, n),
           report'[s][n] = report[s][n]
    PROVE  MarkedInv(s, n)'
  <1>1. n = 0 /\ Build(s) # {} => Build(s)' = Build(s)
    BY BuildStays DEF Grows
  <1> QED
    BY <1>1 DEF MarkedInv

-----------------------------------------------------------------------------
Usage == [starts : 0..MaxStarts, kills : Nat, seals : Nat]

\* What the steps of one driver must respect, put together: its own part, the
\* files only grow, and what another driver's cell holds is left alone.
LEMMA StepKeeps ==
    ASSUME StudyInv, NEW d \in Drivers, DriversStep(d), Grows,
           plan' \subseteq Studies, selector' \in Studies \cup {NoStudy}, used' \in Usage,
           results' = [s \in Studies |-> [p \in Providers |-> results'[s][p]]],
           \A s \in Studies, p \in Providers : FileShape(results'[s][p]) /\ FileInv(s, p)',
           owner' \in [Providers -> Drivers \cup {NoOwner}],
           report' = [s \in Studies |-> [n \in Directories |-> report'[s][n]]],
           \A s \in Studies, n \in Directories : MarkedInv(s, n)',
           SelectorInv', DriverInv(d)',
           \A o \in Drivers \ {d} : \A p \in Live(o) :
              /\ owner'[p] = owner[p]
              /\ driver[o].cells[p].at = "adding" =>
                    results'[driver[o].study][p] = results[driver[o].study][p]
    PROVE  StudyInv'
  <1>1. StudyTypeOK
    BY DEF StudyInv
  <1>2. ASSUME NEW o \in Drivers
        PROVE  DriverInv(o)' /\ DriverShape(driver'[o])
    <2>1. CASE o = d
      BY <2>1 DEF DriversStep
    <2>2. CASE o # d
      <3>1. driver'[o] = driver[o] /\ DriverInv(o)
        BY <2>2 DEF DriversStep, StudyInv
      <3>2. DriverShape(driver[o])
        BY <1>1 DEF StudyTypeOK
      <3> QED
        BY <1>1, <2>2, <3>1, <3>2, OtherKeeps
    <2> QED
      BY <2>1, <2>2
  <1>3. driver' = [o \in Drivers |-> driver'[o]]
    BY DEF DriversStep
  <1>4. StudyTypeOK'
    BY <1>2, <1>3 DEF StudyTypeOK, FileShape, Usage, DriverShape, CellsShape, CellShape
  <1> QED
    BY <1>2, <1>4 DEF StudyInv

\* A step that leaves the files alone.
LEMMA QuietKeeps ==
    ASSUME StudyInv, NEW d \in Drivers, DriversStep(d),
           UNCHANGED <<plan, results, selector, report>>, used' \in Usage,
           owner' \in [Providers -> Drivers \cup {NoOwner}],
           \A o \in Drivers \ {d} : \A p \in Live(o) : owner'[p] = owner[p],
           DriverInv(d)'
    PROVE  StudyInv' /\ Grows
  <1>1. Grows
    BY DEF Grows, FileGrows, ReportGrows
  <1>2. /\ plan \subseteq Studies /\ selector \in Studies \cup {NoStudy}
        /\ results = [s \in Studies |-> [p \in Providers |-> results[s][p]]]
        /\ report = [s \in Studies |-> [n \in Directories |-> report[s][n]]]
        /\ \A s \in Studies, p \in Providers : FileShape(results[s][p]) /\ FileInv(s, p)
        /\ \A s \in Studies, n \in Directories : MarkedInv(s, n)
        /\ SelectorInv
    BY DEF StudyInv, StudyTypeOK
  <1>3. ASSUME NEW s \in Studies, NEW p \in Providers
        PROVE  FileShape(results'[s][p]) /\ FileInv(s, p)'
    BY <1>2 DEF FileInv
  <1>4. ASSUME NEW s \in Studies, NEW n \in Directories
        PROVE  MarkedInv(s, n)'
    BY <1>1, <1>2, MarkedKeeps
  <1>5. SelectorInv'
    BY <1>2 DEF SelectorInv
  <1>6. StudyInv'
    BY <1>1, <1>2, <1>3, <1>4, <1>5, StepKeeps
  <1> QED
    BY <1>1, <1>6

\* A driver whose record says only where it is going.
LEMMA GoesKeeps ==
    ASSUME StudyInv, NEW d \in Drivers, DriversStep(d),
           UNCHANGED <<plan, results, selector, report, owner, used>>,
           driver[d].at # "idle", driver'[d].at \in {"load", "run", "validate", "compare", "build"},
           driver'[d].study = driver[d].study,
           \A p \in Providers : driver'[d].cells[p].at \notin {"open", "adding"}
    PROVE  StudyInv' /\ Grows
  <1>1. driver[d].study \in Studies
    BY DEF StudyInv, DriverInv
  <1>2. DriverInv(d)'
    BY <1>1 DEF DriverInv, Live
  <1>3. used' \in Usage /\ owner' \in [Providers -> Drivers \cup {NoOwner}]
    BY DEF StudyInv, StudyTypeOK, Usage
  <1> QED
    BY <1>2, <1>3, QuietKeeps

\* The driver ends and leaves the files as they are.
LEMMA DiesKeeps ==
    ASSUME StudyInv, NEW d \in Drivers, Dies(d),
           UNCHANGED <<plan, results, selector, report, owner, used>>
    PROVE  StudyInv' /\ Grows
  <1>1. DriversStep(d) /\ driver'[d] = Idle
    BY SetIdle DEF StudyInv
  <1>2. DriverInv(d)'
    BY <1>1, IdleKeeps
  <1>3. used' \in Usage /\ owner' \in [Providers -> Drivers \cup {NoOwner}]
    BY DEF StudyInv, StudyTypeOK, Usage
  <1> QED
    BY <1>1, <1>2, <1>3, QuietKeeps

\* Only a driver that runs has cells at work.
LEMMA NoneLive ==
    ASSUME StudyInv, NEW d \in Drivers, driver[d].at # "run"
    PROVE  \A p \in Providers : driver[d].cells[p].at \notin {"open", "adding"}
  BY DEF StudyInv, DriverInv, Live

-----------------------------------------------------------------------------
\* What every step must show.
Kept == StudyInv' /\ Grows

\* At first all files are left.
LEMMA NothingPublished ==
    ASSUME NEW build, NEW a, NEW files
    PROVE  Published(Files(a), build, a, files)
  BY DEF Published

\* Of two files that are left the marker is not the first.
LEMMA MarkerIsLast ==
    ASSUME NEW a, NEW left \in SUBSET Files(a), "marker" \in Foremost(left)
    PROVE  left = {"marker"}
  <1>1. \A name \in Files(a) : name # "marker" => PublicationOrder[name] < PublicationOrder["marker"]
    BY DEF Files, Payloads, PublicationOrder
  <1>2. \A name \in Files(a) : PublicationOrder[name] \in Nat
    BY DEF Files, Payloads, PublicationOrder
  <1>3. "marker" \in Files(a)
    BY DEF Files
  <1> QED
    BY <1>1, <1>2, <1>3 DEF Foremost

\* A resumed study is the selected one, whose plan and files are there.
LEMMA ResumeKeeps ==
    ASSUME StudyInv, NEW d \in Drivers, Resume(d)
    PROVE  Kept
  <1> DEFINE c == [Idle EXCEPT !.at = "load", !.study = selector]
  <1>1. StudyTypeOK
    BY DEF StudyInv
  <1>2. selector \in Studies /\ Starts(d, c) /\ UNCHANGED <<plan, results, selector, report, owner>>
    BY <1>1 DEF Resume, disk, StudyTypeOK
  <1>3. DriverShape(c) /\ c.at = "load" /\ c.study = selector /\ \A p \in Providers : c.cells[p].at = "off"
    BY <1>2, ResumeCommand
  <1> HIDE DEF c
  <1>4. /\ DriversStep(d) /\ driver'[d].at = c.at /\ driver'[d].study = c.study /\ driver'[d].cells = c.cells
        /\ used' \in Usage
    BY <1>1, <1>2, <1>3, SetStarts DEF Usage
  <1>5. DriverInv(d)'
    BY <1>2, <1>3, <1>4 DEF DriverInv, Live
  <1>6. owner' \in [Providers -> Drivers \cup {NoOwner}]
    BY <1>1, <1>2 DEF StudyTypeOK
  <1> QED
    BY <1>2, <1>4, <1>5, <1>6, QuietKeeps DEF Kept

\* The new study has its plan, and no results yet.
LEMMA FreshKeeps ==
    ASSUME StudyInv, NEW d \in Drivers, NEW s \in Studies, Fresh(d, s)
    PROVE  Kept
  <1> DEFINE c == [Idle EXCEPT !.at = "init", !.study = s, !.fresh = TRUE]
  <1>1. StudyTypeOK
    BY DEF StudyInv
  <1>2. Starts(d, c) /\ UNCHANGED <<results, selector, report, owner>> /\ plan' = plan \cup {s}
    BY DEF Fresh
  <1>3. DriverShape(c) /\ c.at = "init" /\ c.study = s /\ \A p \in Providers : c.cells[p].at = "off"
    BY FreshCommand
  <1> HIDE DEF c
  <1>4. /\ DriversStep(d) /\ driver'[d].at = c.at /\ driver'[d].study = c.study /\ driver'[d].cells = c.cells
        /\ used' \in Usage
    BY <1>1, <1>2, <1>3, SetStarts DEF Usage
  <1>5. DriverInv(d)'
    BY <1>2, <1>3, <1>4 DEF DriverInv, Live
  <1>6. Grows
    BY <1>2 DEF Grows, FileGrows, ReportGrows
  <1>7. /\ plan' \subseteq Studies /\ selector' \in Studies \cup {NoStudy}
        /\ results' = [x \in Studies |-> [p \in Providers |-> results'[x][p]]]
        /\ report' = [x \in Studies |-> [n \in Directories |-> report'[x][n]]]
        /\ owner' \in [Providers -> Drivers \cup {NoOwner}]
    BY <1>1, <1>2 DEF StudyTypeOK
  <1>8. ASSUME NEW x \in Studies, NEW p \in Providers
        PROVE  FileShape(results'[x][p]) /\ FileInv(x, p)'
    BY <1>2 DEF FileInv, StudyInv, StudyTypeOK
  <1>9. ASSUME NEW x \in Studies, NEW n \in Directories
        PROVE  MarkedInv(x, n)'
    BY <1>2, <1>6, MarkedKeeps DEF StudyInv
  <1>10. SelectorInv'
    BY <1>2 DEF SelectorInv, StudyInv
  <1>11. StudyInv'
    BY <1>2, <1>4, <1>5, <1>6, <1>7, <1>8, <1>9, <1>10, StepKeeps
  <1> QED
    BY <1>6, <1>11 DEF Kept

\* A report of its own goes to another directory than the study's comparison.
LEMMA ReportKeeps ==
    ASSUME StudyInv, NEW d \in Drivers, NEW s \in Studies, NEW builds,
           NEW usual \in {CapsuleComparison, SavedReport}, ReportDirectly(d, s, builds, usual),
           UNCHANGED <<disk, owner>>
    PROVE  Kept
  <1>1. StudyTypeOK /\ UNCHANGED <<plan, results, selector, report, owner>>
    BY DEF StudyInv, disk
  <1> DEFINE n == IF report[s][usual] = <<>> THEN usual ELSE used.starts + 1
  <1>2. PICK build \in builds : Starts(d, ReportRecord(s, n, {build}))
    BY Zenon DEF ReportDirectly, ReportRecord
  <1>3. n \in Directories /\ n # 0
    <2>1. used.starts + 1 \in Directories /\ used.starts + 1 # 0
      BY <1>1, <1>2, StudyAssumption DEF Starts, StudyTypeOK, Directories
    <2>2. usual \in Directories /\ usual # 0
      BY StudyAssumption DEF Directories, CapsuleComparison, SavedReport
    <2> QED
      BY <2>1, <2>2
  <1> DEFINE c == ReportRecord(s, n, {build})
  <1> HIDE DEF n
  <1>4. /\ DriverShape(c) /\ c.at = "analysis" /\ c.study = s /\ c.directory = n
        /\ \A p \in Providers : c.cells[p].at = "off"
    BY <1>3, ReportCommand
  <1>5. Starts(d, c)
    BY <1>2 DEF n
  <1> HIDE DEF c
  <1>6. /\ DriversStep(d) /\ driver'[d].at = c.at /\ driver'[d].study = c.study /\ driver'[d].cells = c.cells
        /\ driver'[d].directory = c.directory
        /\ used' \in Usage
    BY <1>1, <1>4, <1>5, SetStarts DEF Usage
  <1>7. DriverInv(d)'
    BY <1>3, <1>4, <1>6 DEF DriverInv, Live
  <1>8. owner' \in [Providers -> Drivers \cup {NoOwner}]
    BY <1>1 DEF StudyTypeOK
  <1> QED
    BY <1>1, <1>6, <1>7, <1>8, QuietKeeps DEF Kept

\* One result file has a new content.
Writes(s, p, f) == results' = [results EXCEPT ![s][p] = f]

\* The file has it, the others stay.
LEMMA SetFile ==
    ASSUME StudyTypeOK, NEW s \in Studies, NEW p \in Providers, NEW f, FileShape(f),
           Writes(s, p, f)
    PROVE  /\ results' = [x \in Studies |-> [y \in Providers |-> results'[x][y]]]
           /\ results'[s][p] = f
           /\ \A x \in Studies, y \in Providers :
                 /\ FileShape(results'[x][y])
                 /\ x # s \/ y # p => results'[x][y] = results[x][y]
  <1> DEFINE files == [results[s] EXCEPT ![p] = f]
  <1>1. results = [x \in Studies |-> [y \in Providers |-> results[x][y]]]
    BY DEF StudyTypeOK
  <1>2. results' = [results EXCEPT ![s] = files]
    BY DEF Writes
  <1>3. /\ files = [y \in Providers |-> files[y]] /\ files[p] = f
        /\ \A y \in Providers \ {p} : files[y] = results[s][y]
    BY <1>1
  <1> HIDE DEF files
  <1>4. results'[s] = files /\ \A x \in Studies \ {s} : results'[x] = results[x]
    BY <1>1, <1>2
  <1>5. ASSUME NEW x \in Studies, NEW y \in Providers
        PROVE  /\ FileShape(results'[x][y])
               /\ x # s \/ y # p => results'[x][y] = results[x][y]
    <2>1. FileShape(results[x][y])
      BY DEF StudyTypeOK
    <2> QED
      BY <1>3, <1>4, <2>1
  <1>6. results' = [x \in Studies |-> results'[x]]
    BY <1>1, <1>2
  <1>7. \A x \in Studies : results'[x] = [y \in Providers |-> results'[x][y]]
    BY <1>1, <1>3, <1>4
  <1> QED
    BY <1>3, <1>4, <1>5, <1>6, <1>7

\* A step that writes a result file no other cell is adding to.
LEMMA WriteKeeps ==
    ASSUME StudyInv, NEW d \in Drivers, DriversStep(d), NEW s \in Studies, NEW p \in Providers, NEW f,
           FileShape(f), f.exists, DOMAIN f.saved \subseteq Questions,
           Writes(s, p, f), FileGrows(s, p),
           UNCHANGED <<plan, selector, report, owner, used>>, DriverInv(d)',
           \A o \in Drivers \ {d} : driver[o].cells[p].at = "adding" => driver[o].study # s
    PROVE  Kept
  <1>1. StudyTypeOK
    BY DEF StudyInv
  <1>2. /\ results' = [x \in Studies |-> [y \in Providers |-> results'[x][y]]]
        /\ results'[s][p] = f
        /\ \A x \in Studies, y \in Providers :
              /\ FileShape(results'[x][y])
              /\ x # s \/ y # p => results'[x][y] = results[x][y]
    BY <1>1, SetFile
  <1>3. ASSUME NEW x \in Studies, NEW y \in Providers
        PROVE  FileGrows(x, y)
    BY <1>2 DEF FileGrows
  <1>4. Grows
    BY <1>3 DEF Grows, ReportGrows
  <1>5. /\ plan' \subseteq Studies /\ selector' \in Studies \cup {NoStudy} /\ used' \in Usage
        /\ owner' \in [Providers -> Drivers \cup {NoOwner}]
        /\ report' = [x \in Studies |-> [n \in Directories |-> report'[x][n]]]
    BY <1>1 DEF StudyTypeOK, Usage
  <1>6. ASSUME NEW x \in Studies, NEW y \in Providers
        PROVE  FileShape(results'[x][y]) /\ FileInv(x, y)'
    <2>1. FileInv(x, y)
      BY DEF StudyInv
    <2> QED
      BY <1>2, <2>1 DEF FileInv
  <1>7. ASSUME NEW x \in Studies, NEW n \in Directories
        PROVE  MarkedInv(x, n)'
    BY <1>4, MarkedKeeps DEF StudyInv
  <1>8. SelectorInv'
    BY <1>1, <1>3 DEF SelectorInv, StudyInv, FileGrows, StudyTypeOK
  <1>9. ASSUME NEW o \in Drivers \ {d}, NEW y \in Live(o), driver[o].cells[y].at = "adding"
        PROVE  results'[driver[o].study][y] = results[driver[o].study][y]
    <2>1. y \in Providers /\ driver[o].at = "run"
      BY <1>9 DEF StudyInv, DriverInv, Live
    <2>2. driver[o].study \in Studies
      BY <2>1 DEF StudyInv, DriverInv
    <2> QED
      BY <1>2, <1>9, <2>1, <2>2
  <1>10. StudyInv'
    BY <1>2, <1>4, <1>5, <1>6, <1>7, <1>8, <1>9, StepKeeps
  <1> QED
    BY <1>4, <1>10 DEF Kept

\* The files of a fresh study are made where none is.
LEMMA InitializeResultsKeeps ==
    ASSUME StudyInv, NEW d \in Drivers, InitializeResults(d)
    PROVE  Kept
  <1> DEFINE s == driver[d].study
             f == File(<<>>)
  <1>1. StudyTypeOK /\ driver[d].at = "init" /\ s \in Studies /\ s \in plan
    BY DEF StudyInv, DriverInv, InitializeResults
  <1>2. PICK i \in DOMAIN ProviderSeq :
           /\ ~results[s][ProviderSeq[i]].exists
           /\ Writes(s, ProviderSeq[i], f)
    BY DEF InitializeResults, InitializeQuestionResults, Writes
  <1> DEFINE p == ProviderSeq[i]
  <1>3. p \in Providers
    BY DEF Providers, ToSet
  <1> HIDE DEF s, p
  <1>4. FileShape(f) /\ f.exists /\ DOMAIN f.saved \subseteq Questions
    BY DEF File, FileShape
  <1>5. UNCHANGED <<plan, selector, report, owner, used, driver>>
    BY DEF InitializeResults
  <1>6. DriversStep(d)
    BY <1>1, <1>5 DEF StudyTypeOK, DriversStep
  <1>7. FileGrows(s, p)
    <2>1. FileInv(s, p) /\ ~results[s][p].exists
      BY <1>1, <1>2, <1>3 DEF StudyInv, p
    <2>2. results[s][p].saved = <<>> /\ results'[s][p] = f
      BY <1>1, <1>2, <1>3, <1>4, <2>1, SetFile DEF FileInv, p
    <2> QED
      BY <2>1, <2>2 DEF FileGrows, File
  <1>8. \A o \in Drivers : driver[o].cells[p].at = "adding" => driver[o].study # s
    BY <1>2, <1>3 DEF StudyInv, DriverInv, Adding, p
  <1>9. DriverInv(d)'
    BY <1>1, <1>5 DEF DriverInv, Live, StudyInv, s
  <1> HIDE DEF f
  <1>10. Writes(s, p, f)
    BY <1>2 DEF p
  <1> QED
    BY <1>1, <1>3, <1>4, <1>5, <1>6, <1>7, <1>8, <1>9, <1>10, WriteKeeps

\* The selector names a study that is whole.
LEMMA SelectKeeps ==
    ASSUME StudyInv, NEW d \in Drivers, Select(d)
    PROVE  Kept
  <1> DEFINE s == driver[d].study
  <1>1. StudyTypeOK /\ driver[d].at = "init" /\ s \in Studies /\ s \in plan
    BY DEF StudyInv, DriverInv, Select
  <1>2. /\ \A p \in Providers : results[s][p].exists
        /\ selector' = s /\ Goes(d, "load") /\ UNCHANGED <<plan, results, owner, report, used>>
    BY DEF Select
  <1>3. DriversStep(d) /\ driver'[d].at = "load" /\ driver'[d].study = s /\ driver'[d].cells = driver[d].cells
    BY <1>1, <1>2, SetAt DEF DriverAts
  <1>4. \A p \in Providers : driver[d].cells[p].at \notin {"open", "adding"}
    BY <1>1, NoneLive
  <1> HIDE DEF s
  <1>5. DriverInv(d)'
    BY <1>1, <1>3, <1>4 DEF DriverInv, Live
  <1>6. Grows
    BY <1>2 DEF Grows, FileGrows, ReportGrows
  <1>7. /\ plan' \subseteq Studies /\ selector' \in Studies \cup {NoStudy} /\ used' \in Usage
        /\ results' = [x \in Studies |-> [p \in Providers |-> results'[x][p]]]
        /\ report' = [x \in Studies |-> [n \in Directories |-> report'[x][n]]]
        /\ owner' \in [Providers -> Drivers \cup {NoOwner}]
    BY <1>1, <1>2 DEF StudyTypeOK, Usage
  <1>8. ASSUME NEW x \in Studies, NEW p \in Providers
        PROVE  FileShape(results'[x][p]) /\ FileInv(x, p)'
    BY <1>2 DEF FileInv, StudyInv, StudyTypeOK
  <1>9. ASSUME NEW x \in Studies, NEW n \in Directories
        PROVE  MarkedInv(x, n)'
    BY <1>2, <1>6, MarkedKeeps DEF StudyInv
  <1>10. SelectorInv'
    BY <1>1, <1>2 DEF SelectorInv
  <1>11. StudyInv'
    BY <1>2, <1>3, <1>5, <1>6, <1>7, <1>8, <1>9, <1>10, StepKeeps
  <1> QED
    BY <1>6, <1>11 DEF Kept

-----------------------------------------------------------------------------
\* Only where the cell is has changed.
LEMMA CellAt ==
    ASSUME NEW c, CellShape(c), NEW at \in CellAts
    PROVE  LET x == [c EXCEPT !.at = at]
           IN  CellShape(x) /\ x.at = at /\ x.question = c.question /\ x.next = c.next
  <1> DEFINE x == [c EXCEPT !.at = at]
  <1>1. /\ x \in [at : CellAts, todo : {x.todo}, question : {x.question}, next : {x.next},
                  sealed : {x.sealed}]
        /\ x.at = at /\ x.question = c.question /\ x.next = c.next
    BY DEF CellShape
  <1> QED
    BY <1>1 DEF CellShape

\* The cell is to add a question.
AddingCell(c, q, next, sealed) ==
    [c EXCEPT !.at = "adding", !.question = q, !.next = next, !.sealed = sealed]

\* What it is then.
LEMMA CellAdding ==
    ASSUME NEW c, CellShape(c), NEW q, NEW next, NEW sealed
    PROVE  LET x == AddingCell(c, q, next, sealed)
           IN  CellShape(x) /\ x.at = "adding" /\ x.question = q /\ x.next = next
  <1> DEFINE x == AddingCell(c, q, next, sealed)
  <1>1. /\ x \in [at : CellAts, todo : {x.todo}, question : {x.question}, next : {x.next},
                  sealed : {x.sealed}]
        /\ x.at = "adding" /\ x.question = q /\ x.next = next
    BY DEF CellShape, CellAts, AddingCell
  <1> QED
    BY <1>1 DEF CellShape

\* The cell has added it.
LEMMA CellAdded ==
    ASSUME NEW c, CellShape(c), NEW todo, NEW next
    PROVE  LET x == [c EXCEPT !.at = "open", !.todo = todo, !.next = next]
           IN  CellShape(x) /\ x.at = "open"
  <1> DEFINE x == [c EXCEPT !.at = "open", !.todo = todo, !.next = next]
  <1>1. /\ x \in [at : CellAts, todo : {x.todo}, question : {x.question}, next : {x.next},
                  sealed : {x.sealed}]
        /\ x.at = "open"
    BY DEF CellShape, CellAts
  <1> QED
    BY <1>1 DEF CellShape

\* The cells of a run that starts: those of the providers that lack some question.
LEMMA CellsBuilt ==
    ASSUME NEW Q, NEW rs
    PROVE  LET cells == [p \in Providers |->
                        IF p \in Q THEN [NoCell EXCEPT !.at = "built", !.todo = RemainingQuestionIds(rs[p])]
                        ELSE NoCell]
           IN  CellsShape(cells) /\ \A p \in Providers : cells[p].at \notin {"open", "adding"}
  <1> DEFINE built(p) == [NoCell EXCEPT !.at = "built", !.todo = RemainingQuestionIds(rs[p])]
             cells == [p \in Providers |-> IF p \in Q THEN built(p) ELSE NoCell]
  <1>1. CellShape(NoCell) /\ NoCell.at = "off"
    BY DEF CellShape, NoCell, CellAts
  <1>2. ASSUME NEW p \in Providers
        PROVE  CellShape(built(p)) /\ built(p).at = "built"
    BY DEF CellShape, NoCell, CellAts
  <1> HIDE DEF built
  <1>3. \A p \in Providers : cells[p] = IF p \in Q THEN built(p) ELSE NoCell
    OBVIOUS
  <1>4. CellsShape(cells)
    BY <1>1, <1>2, <1>3 DEF CellsShape
  <1>5. \A p \in Providers : cells[p].at \notin {"open", "adding"}
    BY <1>1, <1>2, <1>3
  <1> QED
    BY <1>4, <1>5 DEF built

Owns(p, w) == owner' = [owner EXCEPT ![p] = w]

\* A step that gives one cell a new record, and its provider's domain to it or
\* back, and leaves the files alone.
LEMMA CellKeeps ==
    ASSUME StudyInv, NEW d \in Drivers, NEW p \in Providers, NEW c, CellShape(c), Cell(d, p, c),
           driver[d].at = "run", UNCHANGED <<plan, results, selector, report>>, used' \in Usage,
           NEW w \in Drivers \cup {NoOwner}, Owns(p, w),
           \A o \in Drivers \ {d} : owner[p] = o => w = o,
           c.at \in {"open", "adding"} => w = d,
           c.at = "adding" => Adding(c, results[driver[d].study][p])
    PROVE  Kept
  <1>1. StudyTypeOK /\ DriverInv(d)
    BY DEF StudyInv
  <1>2. /\ DriversStep(d)
        /\ driver'[d].cells[p] = c
        /\ \A o \in Providers \ {p} : driver'[d].cells[o] = driver[d].cells[o]
        /\ driver'[d].at = driver[d].at /\ driver'[d].study = driver[d].study
    BY <1>1, SetCell
  <1>3. /\ owner' \in [Providers -> Drivers \cup {NoOwner}]
        /\ owner'[p] = w /\ \A o \in Providers \ {p} : owner'[o] = owner[o]
    BY <1>1 DEF StudyTypeOK, Owns
  <1>4. ASSUME NEW o \in Drivers \ {d}, NEW y \in Live(o)
        PROVE  owner'[y] = owner[y]
    <2>1. y \in Providers /\ owner[y] = o
      BY <1>4 DEF StudyInv, DriverInv, Live
    <2> QED
      BY <1>3, <2>1
  <1>5. ASSUME NEW y \in Live(d)'
        PROVE  owner'[y] = d
    <2>1. y \in Providers /\ driver'[d].cells[y].at \in {"open", "adding"}
      BY <1>5 DEF Live
    <2>2. CASE y = p
      BY <1>2, <1>3, <2>1, <2>2
    <2>3. CASE y # p
      <3>1. y \in Live(d)
        BY <1>2, <2>1, <2>3 DEF Live
      <3> QED
        BY <1>1, <1>3, <2>1, <2>3, <3>1 DEF DriverInv
    <2> QED
      BY <2>2, <2>3
  <1>6. ASSUME NEW y \in Providers, driver'[d].cells[y].at = "adding"
        PROVE  Adding(driver'[d].cells[y], results'[driver'[d].study][y])
    BY <1>1, <1>2, <1>6 DEF DriverInv
  <1>7. DriverInv(d)'
    BY <1>1, <1>2, <1>5, <1>6 DEF DriverInv
  <1> QED
    BY <1>2, <1>3, <1>4, <1>7, QuietKeeps DEF Kept

\* The cells of the run are those that lack some question.
LEMMA LoadSelectionKeeps ==
    ASSUME StudyInv, NEW d \in Drivers, LoadSelection(d)
    PROVE  Kept
  <1>1. /\ StudyTypeOK /\ driver[d].at = "load"
        /\ UNCHANGED <<plan, results, selector, report, owner, used>>
    BY DEF StudyInv, LoadSelection, disk
  <1>2. CASE Dies(d)
    BY <1>1, <1>2, DiesKeeps DEF Kept
  <1>3. CASE Goes(d, "compare")
    <2>1. /\ DriversStep(d) /\ driver'[d].at = "compare" /\ driver'[d].study = driver[d].study
          /\ driver'[d].cells = driver[d].cells
      BY <1>1, <1>3, SetAt DEF DriverAts
    <2>2. \A p \in Providers : driver[d].cells[p].at \notin {"open", "adding"}
      BY <1>1, NoneLive
    <2> QED
      BY <1>1, <2>1, <2>2, GoesKeeps DEF Kept
  <1>4. CASE \E rs \in Loaded(driver[d].study) :
                driver' = [driver EXCEPT ![d].at = "run",
                        ![d].cells = [p \in Providers |->
                            IF p \in {x \in Providers : RemainingQuestionIds(rs[x]) # {}}
                            THEN [NoCell EXCEPT !.at = "built", !.todo = RemainingQuestionIds(rs[p])]
                            ELSE NoCell]]
    <2>1. PICK rs \in Loaded(driver[d].study) :
                driver' = [driver EXCEPT ![d].at = "run",
                        ![d].cells = [p \in Providers |->
                            IF p \in {x \in Providers : RemainingQuestionIds(rs[x]) # {}}
                            THEN [NoCell EXCEPT !.at = "built", !.todo = RemainingQuestionIds(rs[p])]
                            ELSE NoCell]]
      BY <1>4
    <2> DEFINE Q == {x \in Providers : RemainingQuestionIds(rs[x]) # {}}
               cells == [p \in Providers |->
                            IF p \in Q THEN [NoCell EXCEPT !.at = "built", !.todo = RemainingQuestionIds(rs[p])]
                            ELSE NoCell]
    <2>2. driver' = [driver EXCEPT ![d].at = "run", ![d].cells = cells]
      BY <2>1
    <2> HIDE DEF Q
    <2>3. CellsShape(cells) /\ \A p \in Providers : cells[p].at \notin {"open", "adding"}
      BY CellsBuilt
    <2> HIDE DEF cells
    <2>4. DriversStep(d) /\ driver'[d].at = "run" /\ driver'[d].cells = cells /\ driver'[d].study = driver[d].study
      BY <1>1, <2>2, <2>3, SetCells
    <2> QED
      BY <1>1, <2>3, <2>4, GoesKeeps DEF Kept
  <1> QED
    BY <1>2, <1>3, <1>4 DEF LoadSelection

\* A cell at work holds its provider's domain, in a driver that runs.
LEMMA AtWork ==
    ASSUME StudyInv, NEW d \in Drivers, NEW p \in Providers, driver[d].cells[p].at \in {"open", "adding"}
    PROVE  /\ owner[p] = d /\ driver[d].at = "run" /\ driver[d].study \in Studies
           /\ d \in Drivers \cup {NoOwner} /\ NoOwner \in Drivers \cup {NoOwner}
           /\ \A o \in Drivers \ {d} : owner[p] # o /\ driver[o].cells[p].at \notin {"open", "adding"}
  BY DEF StudyInv, DriverInv, Live

\* What a cell of a driver is made of.
LEMMA CellParts ==
    ASSUME StudyInv, NEW d \in Drivers, NEW p \in Providers
    PROVE  CellShape(driver[d].cells[p]) /\ StudyTypeOK /\ used \in Usage
  BY DEF StudyInv, StudyTypeOK, DriverShape, CellsShape, Usage

\* The cell takes a free domain, or fails.
LEMMA OpenCellKeeps ==
    ASSUME StudyInv, NEW d \in Drivers, NEW p \in Providers, OpenCell(d, p)
    PROVE  Kept
  <1> DEFINE c == driver[d].cells[p]
             open == [c EXCEPT !.at = "open"]
             failed == [c EXCEPT !.at = "failed"]
  <1>1. /\ StudyTypeOK /\ driver[d].at = "run" /\ UNCHANGED <<plan, results, selector, report>>
        /\ used' \in Usage /\ NoOwner \notin Drivers
    BY CellParts, StudyAssumption DEF OpenCell, disk
  <1>2. \/ owner[p] = NoOwner /\ Owns(p, d) /\ Cell(d, p, open)
        \/ Owns(p, owner[p]) /\ Cell(d, p, failed)
    BY CellParts DEF OpenCell, Owns, StudyTypeOK
  <1>3. CellShape(open) /\ open.at = "open" /\ CellShape(failed) /\ failed.at = "failed"
    BY CellParts, CellAt DEF CellAts
  <1> HIDE DEF open, failed
  <1>4. CASE owner[p] = NoOwner /\ Owns(p, d) /\ Cell(d, p, open)
    <2>1. d \in Drivers \cup {NoOwner} /\ \A o \in Drivers \ {d} : owner[p] = o => d = o
      BY <1>1, <1>4
    <2> QED
      BY <1>1, <1>3, <1>4, <2>1, CellKeeps
  <1>5. CASE Owns(p, owner[p]) /\ Cell(d, p, failed)
    <2>1. owner[p] \in Drivers \cup {NoOwner}
      BY <1>1 DEF StudyTypeOK
    <2> QED
      BY <1>1, <1>3, <1>5, <2>1, CellKeeps
  <1> QED
    BY <1>2, <1>4, <1>5

\* The cell has read the file and prepares what will replace it.
LEMMA SealCaseKeeps ==
    ASSUME StudyInv, NEW d \in Drivers, NEW p \in Providers, NEW q \in Questions, NEW e,
           SealCase(d, p, q, e)
    PROVE  Kept
  <1> DEFINE c == driver[d].cells[p]
             s == driver[d].study
             failed == [c EXCEPT !.at = "failed"]
             sealed == Put(c.sealed, q, e)
             adding(next) == AddingCell(c, q, next, sealed)
  <1>1. c.at = "open" /\ UNCHANGED <<plan, results, selector, report>> /\ used' = [used EXCEPT !.seals = @ + 1]
    BY DEF SealCase, disk
  <1>2. used' \in Usage /\ StudyTypeOK /\ CellShape(c)
    BY <1>1, CellParts DEF Usage
  <1>3. \/ Cell(d, p, failed) /\ Owns(p, NoOwner)
        \/ /\ UNCHANGED owner
           /\ \E r \in ProjectNativeQuestionResult(e) : \E next \in AddQuestionResult(results[s][p], q, r) :
                 Cell(d, p, adding(next))
    BY DEF SealCase, AddingCell, Owns
  <1>4. /\ owner[p] = d /\ driver[d].at = "run" /\ s \in Studies
        /\ d \in Drivers \cup {NoOwner} /\ NoOwner \in Drivers \cup {NoOwner}
        /\ \A o \in Drivers \ {d} : owner[p] # o
    BY <1>1, AtWork
  <1>5. CellShape(failed) /\ failed.at = "failed"
    BY <1>2, CellAt DEF CellAts
  <1>6. CASE Cell(d, p, failed) /\ Owns(p, NoOwner)
    <2> HIDE DEF failed
    <2> QED
      BY <1>1, <1>2, <1>4, <1>5, <1>6, CellKeeps
  <1>7. CASE /\ UNCHANGED owner
             /\ \E r \in ProjectNativeQuestionResult(e) : \E next \in AddQuestionResult(results[s][p], q, r) :
                   Cell(d, p, adding(next))
    <2>1. PICK r \in ProjectNativeQuestionResult(e) :
             \E next \in AddQuestionResult(results[s][p], q, r) : Cell(d, p, adding(next))
      BY <1>7
    <2>2. PICK next \in AddQuestionResult(results[s][p], q, r) : Cell(d, p, adding(next))
      BY <2>1
    <2> DEFINE a == adding(next)
               file == results[s][p]
    <2> HIDE DEF sealed
    <2>3. CellShape(a) /\ a.at = "adding" /\ a.question = q /\ a.next = next
      BY <1>2, CellAdding
    <2> HIDE DEF adding
    <2>4. /\ file.exists /\ q \notin DOMAIN file.saved
          /\ next = [x \in DOMAIN file.saved \cup {q} |-> IF x = q THEN r ELSE file.saved[x]]
      BY <2>2 DEF AddQuestionResult, LoadQuestionResults
    <2>5. Adding(a, file)
      BY <2>3, <2>4 DEF Adding
    <2>6. Owns(p, d) /\ Cell(d, p, a)
      BY <1>2, <1>4, <1>7, <2>2 DEF StudyTypeOK, Owns
    <2> HIDE DEF a
    <2> QED
      BY <1>1, <1>2, <1>4, <2>3, <2>5, <2>6, CellKeeps
  <1> QED
    BY <1>3, <1>6, <1>7

\* The file grows by the cell's question: nobody has written it in between.
LEMMA SaveResultKeeps ==
    ASSUME StudyInv, NEW d \in Drivers, NEW p \in Providers, SaveResult(d, p)
    PROVE  Kept
  <1> DEFINE c == driver[d].cells[p]
             s == driver[d].study
             f == File(c.next)
             g == results[s][p]
             todo == c.todo \ {c.question}
             added == [c EXCEPT !.at = "open", !.todo = todo, !.next = <<>>]
  <1>1. /\ c.at = "adding" /\ Writes(s, p, f) /\ UNCHANGED <<plan, selector, owner, report, used>>
        /\ Cell(d, p, added)
    BY DEF SaveResult, Writes
  <1>2. StudyTypeOK /\ CellShape(c) /\ DriverInv(d)
    BY CellParts DEF StudyInv
  <1>3. /\ owner[p] = d /\ driver[d].at = "run" /\ s \in Studies
        /\ \A o \in Drivers \ {d} : driver[o].cells[p].at \notin {"open", "adding"}
    BY <1>1, AtWork
  <1>4. /\ g.exists /\ c.question \in Questions \ DOMAIN g.saved
        /\ DOMAIN c.next = DOMAIN g.saved \cup {c.question}
        /\ \A q \in DOMAIN g.saved : c.next[q] = g.saved[q]
    BY <1>1, <1>2 DEF DriverInv, Adding
  <1>5. DOMAIN g.saved \subseteq Questions
    BY <1>3 DEF StudyInv, FileInv
  <1>6. FileShape(f) /\ f.exists /\ f.saved = c.next /\ DOMAIN f.saved \subseteq Questions
    BY <1>4, <1>5 DEF File, FileShape
  <1> HIDE DEF todo
  <1>7. CellShape(added) /\ added.at = "open"
    BY <1>2, CellAdded
  <1> HIDE DEF added, f
  <1>8. /\ results'[s][p] = f
        /\ \A x \in Studies, y \in Providers : x # s \/ y # p => results'[x][y] = results[x][y]
    BY <1>1, <1>2, <1>3, <1>6, SetFile
  <1>9. FileGrows(s, p)
    BY <1>4, <1>6, <1>8 DEF FileGrows
  <1>10. /\ DriversStep(d)
         /\ driver'[d].cells[p] = added
         /\ \A o \in Providers \ {p} : driver'[d].cells[o] = driver[d].cells[o]
         /\ driver'[d].at = "run" /\ driver'[d].study = s
    BY <1>1, <1>2, <1>3, <1>7, SetCell
  <1>11. ASSUME NEW y \in Live(d)'
         PROVE  owner'[y] = d
    <2>1. y \in Live(d)
      BY <1>1, <1>10, <1>11 DEF Live
    <2> QED
      BY <1>1, <1>2, <2>1 DEF DriverInv
  <1>12. ASSUME NEW y \in Providers, driver'[d].cells[y].at = "adding"
         PROVE  Adding(driver'[d].cells[y], results'[s][y])
    <2>1. y # p
      BY <1>7, <1>10, <1>12
    <2> QED
      BY <1>2, <1>3, <1>8, <1>10, <1>12, <2>1 DEF DriverInv
  <1>13. DriverInv(d)'
    BY <1>3, <1>10, <1>11, <1>12 DEF DriverInv
  <1> HIDE DEF s
  <1> QED
    BY <1>1, <1>3, <1>6, <1>9, <1>10, <1>13, WriteKeeps

\* The cell gives its domain back.
LEMMA EndedCellKeeps ==
    ASSUME StudyInv, NEW d \in Drivers, NEW p \in Providers, NEW at \in {"done", "failed"},
           NEW c, c = [driver[d].cells[p] EXCEPT !.at = at],
           driver[d].cells[p].at = "open", Cell(d, p, c), Owns(p, NoOwner),
           UNCHANGED <<plan, results, selector, report, used>>
    PROVE  Kept
  <1>1. CellShape(c) /\ c.at \notin {"open", "adding"}
    BY CellParts, CellAt DEF CellAts
  <1>2. /\ driver[d].at = "run" /\ NoOwner \in Drivers \cup {NoOwner}
        /\ \A o \in Drivers \ {d} : owner[p] = o => NoOwner = o
    BY AtWork
  <1>3. c.at = "adding" => Adding(c, results[driver[d].study][p])
    BY <1>1
  <1>4. c.at \in {"open", "adding"} => NoOwner = d
    BY <1>1
  <1>5. used' \in Usage
    BY CellParts
  <1> QED
    BY <1>1, <1>2, <1>3, <1>4, <1>5, CellKeeps

\* Also when its work is done.
LEMMA FinishCellKeeps ==
    ASSUME StudyInv, NEW d \in Drivers, NEW p \in Providers, FinishCell(d, p) \/ FailCell(d, p)
    PROVE  Kept
  <1>1. CASE FinishCell(d, p)
    BY <1>1, EndedCellKeeps DEF FinishCell, Owns
  <1>2. CASE FailCell(d, p)
    BY <1>2, EndedCellKeeps DEF FailCell, disk, Owns
  <1> QED
    BY <1>1, <1>2

\* The driver goes on, without cells at work.
LEMMA GoesOnKeeps ==
    ASSUME StudyInv, NEW d \in Drivers, NEW at \in {"validate", "compare"}, Goes(d, at),
           driver[d].at # "idle", UNCHANGED <<plan, results, selector, report, owner, used>>,
           \A p \in Providers : driver[d].cells[p].at \notin {"open", "adding"}
    PROVE  Kept
  <1>1. StudyTypeOK /\ at \in DriverAts
    BY DEF StudyInv, DriverAts
  <1>2. /\ DriversStep(d) /\ driver'[d].at = at /\ driver'[d].study = driver[d].study
        /\ driver'[d].cells = driver[d].cells
    BY <1>1, SetAt
  <1> QED
    BY <1>2, GoesKeeps DEF Kept

\* All cells have ended.
LEMMA EndRunKeeps ==
    ASSUME StudyInv, NEW d \in Drivers, EndRun(d)
    PROVE  Kept
  <1>1. /\ driver[d].at = "run" /\ UNCHANGED <<plan, results, selector, report, owner, used>>
        /\ \A p \in Providers : driver[d].cells[p].at \notin {"open", "adding"}
        /\ \/ Dies(d)
           \/ \E at \in {"validate", "compare"} : Goes(d, at)
    BY DEF EndRun, disk
  <1>2. CASE Dies(d)
    BY <1>1, <1>2, DiesKeeps DEF Kept
  <1>3. CASE \E at \in {"validate", "compare"} : Goes(d, at)
    BY <1>1, <1>3, GoesOnKeeps
  <1> QED
    BY <1>1, <1>2, <1>3

\* The capsules are valid or the study ends.
LEMMA ValidateCapsulesKeeps ==
    ASSUME StudyInv, NEW d \in Drivers, ValidateCapsules(d)
    PROVE  Kept
  <1>1. /\ driver[d].at = "validate" /\ UNCHANGED <<plan, results, selector, report, owner, used>>
        /\ Dies(d) \/ Goes(d, "compare")
    BY DEF ValidateCapsules, disk
  <1>2. CASE Dies(d)
    BY <1>1, <1>2, DiesKeeps DEF Kept
  <1>3. CASE Goes(d, "compare")
    BY <1>1, <1>3, NoneLive, GoesOnKeeps
  <1> QED
    BY <1>1, <1>2, <1>3

-----------------------------------------------------------------------------
\* The directory the report goes to.
LEMMA ChooseDirectoryKeeps ==
    ASSUME StudyInv, NEW d \in Drivers, ChooseDirectory(d)
    PROVE  Kept
  <1> DEFINE n == IF report[driver[d].study][0] = <<>> THEN 0 ELSE driver[d].pid
  <1>1. /\ StudyTypeOK /\ driver[d].at = "compare"
        /\ UNCHANGED <<plan, results, selector, report, owner, used>>
        /\ driver' = [driver EXCEPT ![d].at = "build", ![d].directory = n]
    BY DEF StudyInv, ChooseDirectory, disk
  <1>2. n \in Directories
    <2>1. DriverShape(driver[d])
      BY <1>1 DEF StudyTypeOK
    <2>2. driver[d].pid \in Directories
      BY <2>1 DEF DriverShape
    <2>3. 0 \in Directories
      BY StudyAssumption DEF Directories
    <2> QED
      BY <2>2, <2>3
  <1> HIDE DEF n
  <1>3. /\ DriversStep(d) /\ driver'[d].at = "build" /\ driver'[d].study = driver[d].study
        /\ driver'[d].cells = driver[d].cells
    BY <1>1, <1>2, SetDirectory
  <1>4. \A p \in Providers : driver[d].cells[p].at \notin {"open", "adding"}
    BY <1>1, NoneLive
  <1> QED
    BY <1>1, <1>3, <1>4, GoesKeeps DEF Kept

\* The driver works at a report that is the study's, or one of its own.
LEMMA WritingKeeps ==
    ASSUME StudyInv, NEW d \in Drivers, DriversStep(d),
           UNCHANGED <<plan, results, selector, report, owner, used>>,
           driver[d].at \in {"build", "analysis", "asking"}, driver'[d].study = driver[d].study,
           driver'[d].cells = driver[d].cells, driver'[d].at \in {"analysis", "asking", "publish"},
           driver'[d].directory = 0 => driver'[d].build = Build(driver[d].study) /\ driver'[d].build # {},
           driver'[d].at = "publish" => driver'[d].left = Files(driver'[d].analysis)
    PROVE  Kept
  <1>1. driver[d].study \in Studies /\ used' \in Usage /\ owner' \in [Providers -> Drivers \cup {NoOwner}]
    BY DEF StudyInv, DriverInv, StudyTypeOK, Usage
  <1>2. \A p \in Providers : driver[d].cells[p].at \notin {"open", "adding"}
    BY NoneLive
  <1>3. Build(driver[d].study)' = Build(driver'[d].study)
    BY DEF Build
  <1>4. /\ driver'[d].at # "idle" => driver'[d].study \in Studies
        /\ driver'[d].at = "init" => driver'[d].study \in plan'
        /\ \A p \in Live(d)' : owner'[p] = d /\ driver'[d].at = "run"
        /\ \A p \in Providers : driver'[d].cells[p].at = "adding" => FALSE
    BY <1>1, <1>2 DEF Live
  <1>5. driver'[d].directory = 0 =>
           driver'[d].build = Build(driver[d].study)' /\ driver'[d].build # {}
    BY DEF Build
  <1>6. driver'[d].at = "publish" =>
           Published(driver'[d].left, driver'[d].build, driver'[d].analysis,
                     report'[driver'[d].study][driver'[d].directory])
    BY NothingPublished
  <1>7. DriverInv(d)'
    BY <1>4, <1>5, <1>6 DEF DriverInv
  <1> QED
    BY <1>1, <1>7, QuietKeeps DEF Kept

\* A report is built of what the files hold, if they are complete.
LEMMA BuildReportKeeps ==
    ASSUME StudyInv, NEW d \in Drivers, BuildReport(d)
    PROVE  Kept
  <1> DEFINE s == driver[d].study
             builds == UNION {BuildQuestionResultsComparisonProject(rs, NoLimits) : rs \in Loaded(s)}
  <1>1. /\ StudyTypeOK /\ driver[d].at = "build"
        /\ UNCHANGED <<plan, results, selector, report, owner, used>>
        /\ \/ Dies(d)
           \/ builds # {} /\ driver' = [driver EXCEPT ![d].at = "analysis", ![d].build = builds]
    BY DEF StudyInv, BuildReport, disk
  <1>2. CASE Dies(d)
    BY <1>1, <1>2, DiesKeeps DEF Kept
  <1>3. CASE builds # {} /\ driver' = [driver EXCEPT ![d].at = "analysis", ![d].build = builds]
    <2>1. \A rs \in Loaded(s) : rs = [p \in Providers |-> results[s][p].saved]
      BY DEF Loaded
    <2>2. builds = Build(s)
      BY <1>3, <2>1 DEF Build
    <2> HIDE DEF builds
    <2>3. /\ DriversStep(d) /\ driver'[d].at = "analysis" /\ driver'[d].build = builds
          /\ driver'[d].study = driver[d].study /\ driver'[d].cells = driver[d].cells
      BY <1>1, <1>3, SetBuild
    <2> QED
      BY <1>1, <1>3, <2>2, <2>3, WritingKeeps
  <1> QED
    BY <1>1, <1>2, <1>3

\* The report is complete, with an analysis or without.
LEMMA PublishesKeeps ==
    ASSUME StudyInv, NEW d \in Drivers, NEW a, Publishes(d, a), driver[d].at \in {"analysis", "asking"},
           UNCHANGED <<plan, results, selector, report, owner, used>>
    PROVE  Kept
  <1>1. /\ StudyTypeOK
        /\ driver[d].directory = 0 => driver[d].build = Build(driver[d].study) /\ driver[d].build # {}
    BY DEF StudyInv, DriverInv
  <1>2. /\ DriversStep(d) /\ driver'[d].at = "publish" /\ driver'[d].analysis = a
        /\ driver'[d].left = Files(a) /\ driver'[d].study = driver[d].study
        /\ driver'[d].cells = driver[d].cells /\ driver'[d].build = driver[d].build
        /\ driver'[d].directory = driver[d].directory
    BY <1>1, SetPublishes
  <1> QED
    BY <1>1, <1>2, WritingKeeps

\* The analysis is found, or the model is asked.
LEMMA FindAnalysisKeeps ==
    ASSUME StudyInv, NEW d \in Drivers, FindAnalysis(d)
    PROVE  Kept
  <1>1. /\ StudyTypeOK /\ driver[d].at = "analysis"
        /\ UNCHANGED <<plan, results, selector, report, owner, used>>
        /\ Goes(d, "asking") \/ \E a \in {x.text : x \in Stored(driver[d].study, driver[d].build)} : Publishes(d, a)
    BY DEF StudyInv, FindAnalysis, disk
  <1>2. CASE Goes(d, "asking")
    <2>1. driver[d].directory = 0 => driver[d].build = Build(driver[d].study) /\ driver[d].build # {}
      BY <1>1 DEF StudyInv, DriverInv
    <2>2. /\ DriversStep(d) /\ driver'[d].at = "asking" /\ driver'[d].study = driver[d].study
          /\ driver'[d].cells = driver[d].cells /\ driver'[d].build = driver[d].build
          /\ driver'[d].directory = driver[d].directory
      BY <1>1, <1>2, SetAt DEF DriverAts
    <2> QED
      BY <1>1, <2>1, <2>2, WritingKeeps
  <1>3. ASSUME NEW a, Publishes(d, a)
        PROVE  Kept
    BY <1>1, <1>3, PublishesKeeps
  <1> QED
    BY <1>1, <1>2, <1>3

\* The model has answered or failed.
LEMMA AnswerAnalysisKeeps ==
    ASSUME StudyInv, NEW d \in Drivers, AnswerAnalysis(d)
    PROVE  Kept
  <1>1. /\ driver[d].at = "asking" /\ UNCHANGED <<plan, results, selector, report, owner, used>>
        /\ Publishes(d, 0) \/ Publishes(d, driver[d].pid)
    BY DEF AnswerAnalysis
  <1> QED
    BY <1>1, PublishesKeeps

-----------------------------------------------------------------------------
\* One report directory has new content.
WritesReport(s, n, files) == report' = [report EXCEPT ![s][n] = files]

\* The directory has it, the others stay.
LEMMA SetReport ==
    ASSUME StudyTypeOK, NEW s \in Studies, NEW n \in Directories, NEW files, WritesReport(s, n, files)
    PROVE  /\ report' = [x \in Studies |-> [y \in Directories |-> report'[x][y]]]
           /\ report'[s][n] = files
           /\ \A x \in Studies, y \in Directories : x # s \/ y # n => report'[x][y] = report[x][y]
  <1> DEFINE all == [report[s] EXCEPT ![n] = files]
  <1>1. report = [x \in Studies |-> [y \in Directories |-> report[x][y]]]
    BY DEF StudyTypeOK
  <1>2. report' = [report EXCEPT ![s] = all]
    BY DEF WritesReport
  <1>3. /\ all = [y \in Directories |-> all[y]] /\ all[n] = files
        /\ \A y \in Directories \ {n} : all[y] = report[s][y]
    BY <1>1
  <1> HIDE DEF all
  <1>4. report'[s] = all /\ \A x \in Studies \ {s} : report'[x] = report[x]
    BY <1>1, <1>2
  <1>5. \A x \in Studies, y \in Directories : x # s \/ y # n => report'[x][y] = report[x][y]
    BY <1>3, <1>4
  <1>6. report' = [x \in Studies |-> report'[x]]
    BY <1>1, <1>2
  <1>7. \A x \in Studies : report'[x] = [y \in Directories |-> report'[x][y]]
    BY <1>1, <1>3, <1>4
  <1> QED
    BY <1>3, <1>4, <1>5, <1>6, <1>7

\* A marked report keeps its files and its marker.
LEMMA MarkedGrows ==
    ASSUME Grows, NEW s \in Studies, NEW n \in Directories, MarkedInv(s, n),
           "marker" \in DOMAIN report'[s][n] => "marker" \in DOMAIN report[s][n]
    PROVE  MarkedInv(s, n)'
  <1>1. n = 0 /\ Build(s) # {} => Build(s)' = Build(s)
    BY BuildStays DEF Grows
  <1>2. \A name \in DOMAIN report[s][n] :
           name \in DOMAIN report'[s][n] /\ report'[s][n][name] = report[s][n][name]
    BY DEF Grows, ReportGrows
  <1>3. SUFFICES ASSUME "marker" \in DOMAIN report[s][n]
                 PROVE  MarkedInv(s, n)'
    BY DEF MarkedInv
  <1> DEFINE index == report[s][n]["checksums"]
  <1>4. /\ "checksums" \in DOMAIN report[s][n]
        /\ \A name \in Payloads(index.text) \cup {"marker"} :
              name \in DOMAIN report[s][n] /\ report[s][n][name] = Content(name, index.build, index.text)
        /\ n = 0 => index.build = Build(s) /\ index.build # {}
    BY <1>3 DEF MarkedInv
  <1>5. "checksums" \in DOMAIN report'[s][n] /\ report'[s][n]["checksums"] = index
    BY <1>2, <1>4
  <1> HIDE DEF index
  <1>6. \A name \in Payloads(index.text) \cup {"marker"} :
           name \in DOMAIN report'[s][n] /\ report'[s][n][name] = Content(name, index.build, index.text)
    BY <1>2, <1>4
  <1>7. n = 0 => index.build = Build(s)' /\ index.build # {}
    BY <1>1, <1>4
  <1> QED
    BY <1>5, <1>6, <1>7 DEF MarkedInv

\* The marker is published when every other file is.
LEMMA MarkerPublished ==
    ASSUME NEW a, NEW build, NEW files, NEW left, Published(left, build, a, files),
           "marker" \in Foremost(left), NEW next,
           \A name \in DOMAIN files : name \in DOMAIN next /\ next[name] = files[name],
           "marker" \in DOMAIN next, next["marker"] = Content("marker", build, a)
    PROVE  /\ "checksums" \in DOMAIN next
           /\ next["checksums"].build = build /\ next["checksums"].text = a
           /\ \A name \in Payloads(a) \cup {"marker"} :
                 name \in DOMAIN next /\ next[name] = Content(name, build, a)
  <1>1. left = {"marker"}
    BY MarkerIsLast DEF Published
  <1>2. \A name \in Files(a) \ {"marker"} : name \in DOMAIN files /\ files[name] = Content(name, build, a)
    BY <1>1 DEF Published
  <1>3. \A name \in Files(a) : name \in DOMAIN next /\ next[name] = Content(name, build, a)
    BY <1>2
  <1>4. Payloads(a) \cup {"marker"} \subseteq Files(a) /\ "checksums" \in Files(a)
    BY DEF Files
  <1>5. next["checksums"] = Content("checksums", build, a)
    BY <1>3, <1>4
  <1>6. next["checksums"].build = build /\ next["checksums"].text = a
    BY <1>5 DEF Content
  <1> QED
    BY <1>3, <1>4, <1>6

Leaves(d, name) == driver' = [driver EXCEPT ![d].left = driver[d].left \ {name}]

\* A directory has one more file: the foremost of those that were left.
LEMMA FilePublished ==
    ASSUME StudyInv, NEW d \in Drivers, driver[d].at = "publish",
           NEW s \in Studies, NEW n \in Directories, s = driver[d].study, n = driver[d].directory,
           NEW name \in Foremost(driver[d].left), NEW next, WritesReport(s, n, next),
           \A z \in DOMAIN report[s][n] : z \in DOMAIN next /\ next[z] = report[s][n][z],
           \A z \in DOMAIN next : z \in DOMAIN report[s][n] \/ z = name, name \in DOMAIN next,
           next[name] = Content(name, driver[d].build, driver[d].analysis),
           Leaves(d, name), UNCHANGED <<plan, results, selector, owner, used>>
    PROVE  Kept
  <1> DEFINE r == driver[d]
             files == report[s][n]
  <1>1. StudyTypeOK /\ DriverInv(d)
    BY DEF StudyInv
  <1>2. /\ Published(r.left, r.build, r.analysis, files)
        /\ n = 0 => r.build = Build(s) /\ r.build # {}
    BY <1>1 DEF DriverInv
  <1>3. /\ report' = [x \in Studies |-> [y \in Directories |-> report'[x][y]]]
        /\ report'[s][n] = next
        /\ \A x \in Studies, y \in Directories : x # s \/ y # n => report'[x][y] = report[x][y]
    BY <1>1, SetReport
  <1>4. /\ DriversStep(d) /\ driver'[d].left = r.left \ {name}
        /\ driver'[d].at = r.at /\ driver'[d].study = r.study /\ driver'[d].cells = r.cells
        /\ driver'[d].directory = r.directory /\ driver'[d].build = r.build
        /\ driver'[d].analysis = r.analysis
    BY <1>1, SetLeft DEF Leaves
  <1>5. Grows
    <2>1. ASSUME NEW x \in Studies, NEW y \in Directories
          PROVE  ReportGrows(x, y)
      <3>1. CASE x = s /\ y = n
        BY <1>3, <3>1 DEF ReportGrows
      <3>2. CASE x # s \/ y # n
        BY <1>3, <3>2 DEF ReportGrows
      <3> QED
        BY <3>1, <3>2
    <2> QED
      BY <2>1 DEF Grows, FileGrows
  <1>6. n = 0 => r.build = Build(s)' /\ r.build # {}
    BY <1>2 DEF Build
  <1>7. ASSUME NEW x \in Studies, NEW y \in Directories
        PROVE  MarkedInv(x, y)'
    <2>1. MarkedInv(x, y)
      BY DEF StudyInv
    <2>2. CASE x # s \/ y # n
      BY <1>3, <1>5, <2>1, <2>2, MarkedKeeps
    <2>3. CASE x = s /\ y = n /\ name # "marker"
      <3>1. "marker" \in DOMAIN report'[x][y] => "marker" \in DOMAIN report[x][y]
        BY <1>3, <2>3
      <3> QED
        BY <1>5, <2>1, <3>1, MarkedGrows
    <2>4. CASE x = s /\ y = n /\ name = "marker"
      <3>1. "marker" \in DOMAIN next /\ next["marker"] = Content("marker", r.build, r.analysis)
        BY <2>4
      <3>2. /\ "checksums" \in DOMAIN next
            /\ next["checksums"].build = r.build /\ next["checksums"].text = r.analysis
            /\ \A z \in Payloads(r.analysis) \cup {"marker"} :
                  z \in DOMAIN next /\ next[z] = Content(z, r.build, r.analysis)
        BY <1>2, <2>4, <3>1, MarkerPublished
      <3> HIDE DEF r
      <3>3. MarkedInv(s, n)'
        BY <1>3, <1>6, <3>2 DEF MarkedInv
      <3> QED
        BY <2>4, <3>3
    <2> QED
      BY <2>2, <2>3, <2>4
  <1>8. Published(r.left \ {name}, r.build, r.analysis, next)
    BY <1>2 DEF Published
  <1>9. DriverInv(d)'
    <2>1. \A p \in Providers : r.cells[p].at \notin {"open", "adding"}
      BY NoneLive
    <2>2. /\ driver'[d].study = s /\ driver'[d].directory = n /\ driver'[d].at = "publish"
          /\ \A p \in Providers : driver'[d].cells[p].at \notin {"open", "adding"}
      BY <1>4, <2>1
    <2>3. driver'[d].directory = 0 => driver'[d].build = Build(driver[d].study)' /\ driver'[d].build # {}
      BY <1>4, <1>6, <2>2 DEF Build
    <2>4. Published(driver'[d].left, driver'[d].build, driver'[d].analysis,
                    report'[driver'[d].study][driver'[d].directory])
      BY <1>3, <1>4, <1>8, <2>2
    <2> QED
      BY <2>2, <2>3, <2>4 DEF DriverInv, Live
  <1>10. /\ plan' \subseteq Studies /\ selector' \in Studies \cup {NoStudy} /\ used' \in Usage
         /\ results' = [x \in Studies |-> [p \in Providers |-> results'[x][p]]]
         /\ owner' \in [Providers -> Drivers \cup {NoOwner}]
    BY <1>1 DEF StudyTypeOK, Usage
  <1>11. ASSUME NEW x \in Studies, NEW p \in Providers
         PROVE  FileShape(results'[x][p]) /\ FileInv(x, p)'
    BY DEF FileInv, StudyInv, StudyTypeOK
  <1>12. SelectorInv'
    BY DEF SelectorInv, StudyInv
  <1>13. StudyInv'
    BY <1>3, <1>4, <1>5, <1>7, <1>9, <1>10, <1>11, <1>12, StepKeeps
  <1> QED
    BY <1>5, <1>13 DEF Kept

\* A file is published create-only; the marker when all others are there.
LEMMA PublishFileKeeps ==
    ASSUME StudyInv, NEW d \in Drivers, PublishFile(d)
    PROVE  Kept
  <1> DEFINE r == driver[d]
             s == r.study
             n == r.directory
             files == report[s][n]
             content(name) == Content(name, r.build, r.analysis)
  <1>1. /\ StudyTypeOK /\ r.at = "publish" /\ DriverInv(d)
        /\ UNCHANGED <<plan, results, selector, owner, used>>
    BY DEF StudyInv, PublishFile
  <1>2. PICK name \in Foremost(r.left) :
           \/ UNCHANGED report /\ Dies(d)
           \/ /\ name \in DOMAIN files => files[name] = content(name)
              /\ WritesReport(s, n, Put(files, name, content(name)))
              /\ Leaves(d, name)
    BY DEF PublishFile, WritesReport, Leaves
  <1>3. CASE UNCHANGED report /\ Dies(d)
    BY <1>1, <1>3, DiesKeeps DEF Kept
  <1>4. CASE /\ name \in DOMAIN files => files[name] = content(name)
             /\ WritesReport(s, n, Put(files, name, content(name)))
             /\ Leaves(d, name)
    <2> DEFINE c == content(name)
               next == Put(files, name, c)
    <2>1. s \in Studies /\ n \in Directories
      <3>1. DriverShape(r)
        BY <1>1 DEF StudyTypeOK
      <3>2. n \in Directories
        BY <3>1 DEF DriverShape
      <3> QED
        BY <1>1, <3>2 DEF DriverInv
    <2>2. c = Content(name, r.build, r.analysis) /\ WritesReport(s, n, next)
      BY <1>4
    <2> HIDE DEF c, files
    <2>3. /\ DOMAIN next = DOMAIN files \cup {name} /\ next[name] = c
          /\ \A z \in DOMAIN files : z # name => next[z] = files[z]
      BY DEF Put
    <2> HIDE DEF next
    <2>4. name \in DOMAIN files => files[name] = c
      BY <1>4 DEF c, files
    <2>5. \A z \in DOMAIN files : z \in DOMAIN next /\ next[z] = files[z]
      BY <2>3, <2>4
    <2>6. /\ \A z \in DOMAIN next : z \in DOMAIN report[s][n] \/ z = name
          /\ name \in DOMAIN next /\ next[name] = Content(name, r.build, r.analysis)
          /\ \A z \in DOMAIN report[s][n] : z \in DOMAIN next /\ next[z] = report[s][n][z]
      BY <2>2, <2>3, <2>5 DEF files
    <2>7. s = driver[d].study /\ n = driver[d].directory
      OBVIOUS
    <2> HIDE DEF s, n
    <2> QED
      BY <1>1, <1>4, <2>1, <2>2, <2>6, <2>7, FilePublished
  <1> QED
    BY <1>2, <1>3, <1>4

\* The command that verified its report ends.
LEMMA VerifyReportKeeps ==
    ASSUME StudyInv, NEW d \in Drivers, VerifyReport(d)
    PROVE  Kept
  BY DiesKeeps DEF VerifyReport, disk, Kept

\* The driver is gone, and with it its cells' domains, or all stay as they were.
LEMMA KillKeeps ==
    ASSUME StudyInv, NEW d \in Drivers, Kill(d)
    PROVE  Kept
  <1>1. /\ \A o \in Drivers \ {d} : Live(o) = {}
        /\ used' = [used EXCEPT !.kills = @ + 1] /\ Dies(d)
        /\ UNCHANGED <<plan, results, selector, report>>
        /\ UNCHANGED owner \/ owner' = [p \in Providers |-> NoOwner]
    BY DEF Kill, disk
  <1>2. StudyTypeOK
    BY DEF StudyInv
  <1>3. DriversStep(d) /\ driver'[d] = Idle
    BY <1>1, <1>2, SetIdle
  <1>4. DriverInv(d)'
    BY <1>3, IdleKeeps
  <1>5. used' \in Usage /\ owner' \in [Providers -> Drivers \cup {NoOwner}]
    BY <1>1, <1>2 DEF StudyTypeOK, Usage
  <1> QED
    BY <1>1, <1>3, <1>4, <1>5, QuietKeeps DEF Kept

-----------------------------------------------------------------------------
\* Nothing was started: the invariant holds.
LEMMA StudyInvInit == Init => StudyInv
  <1> SUFFICES ASSUME Init PROVE StudyInv
    OBVIOUS
  <1>1. \A d \in Drivers : driver[d] = Idle
    BY DEF Init
  <1>2. /\ \A s \in Studies, p \in Providers : results[s][p] = NoFile
        /\ \A s \in Studies, n \in Directories : report[s][n] = <<>>
    BY DEF Init
  <1>3. FileShape(NoFile) /\ NoFile.saved = <<>> /\ ~NoFile.exists
    BY DEF FileShape, NoFile
  <1>4. DOMAIN <<>> = {}
    OBVIOUS
  <1>5. used \in Usage
    BY StudyAssumption DEF Init, Usage
  <1>6. StudyTypeOK
    BY <1>1, <1>2, <1>3, <1>5, IdleShape DEF Init, StudyTypeOK, Usage
  <1>7. \A d \in Drivers : DriverInv(d)
    BY <1>1, IdleShape DEF DriverInv, Live
  <1>8. \A s \in Studies, p \in Providers : FileInv(s, p)
    BY <1>2, <1>3, <1>4 DEF FileInv
  <1>9. SelectorInv
    BY DEF Init, SelectorInv
  <1>10. \A s \in Studies, n \in Directories : MarkedInv(s, n)
    BY <1>2, <1>4 DEF MarkedInv
  <1> QED
    BY <1>6, <1>7, <1>8, <1>9, <1>10 DEF StudyInv

\* Every step keeps the invariant, and results and reports only grow.
LEMMA StudyInvNext ==
    ASSUME StudyInv, [Next]_vars
    PROVE  Kept
  <1>1. CASE UNCHANGED vars
    <2>1. UNCHANGED <<plan, results, selector, owner, report, driver, used>>
      BY <1>1 DEF vars
    <2>2. Grows
      BY <2>1 DEF Grows, FileGrows, ReportGrows
    <2>3. StudyTypeOK'
      BY <2>1 DEF StudyInv, StudyTypeOK
    <2>4. \A d \in Drivers : DriverInv(d)'
      BY <2>1 DEF StudyInv, DriverInv, Live, Build
    <2>5. \A s \in Studies, p \in Providers : FileInv(s, p)'
      BY <2>1 DEF StudyInv, FileInv
    <2>6. SelectorInv'
      BY <2>1 DEF StudyInv, SelectorInv
    <2>7. \A s \in Studies, n \in Directories : MarkedInv(s, n)'
      BY <2>1, <2>2, MarkedKeeps DEF StudyInv
    <2> QED
      BY <2>2, <2>3, <2>4, <2>5, <2>6, <2>7 DEF StudyInv, Kept
  <1>2. ASSUME NEW d \in Drivers, NEW s \in Studies, Fresh(d, s) \/ GenerateReport(d, s)
        PROVE  Kept
    BY <1>2, FreshKeeps, ReportKeeps DEF GenerateReport
  <1>3. ASSUME NEW d \in Drivers, NEW s \in Studies, NEW diagnostic \in BOOLEAN,
               CompareCapsules(d, s, diagnostic)
        PROVE  Kept
    BY <1>3, ReportKeeps DEF CompareCapsules
  <1>4. ASSUME NEW d \in Drivers, InitializeResults(d) \/ Select(d) \/ Resume(d)
        PROVE  Kept
    BY <1>4, InitializeResultsKeeps, SelectKeeps, ResumeKeeps
  <1>5. ASSUME NEW d \in Drivers, LoadSelection(d) \/ EndRun(d) \/ ValidateCapsules(d)
        PROVE  Kept
    BY <1>5, LoadSelectionKeeps, EndRunKeeps, ValidateCapsulesKeeps
  <1>6. ASSUME NEW d \in Drivers, NEW p \in Providers, CellStep(d, p)
        PROVE  Kept
    BY <1>6, OpenCellKeeps, SealCaseKeeps, SaveResultKeeps, FinishCellKeeps DEF CellStep
  <1>7. ASSUME NEW d \in Drivers,
               ChooseDirectory(d) \/ BuildReport(d) \/ FindAnalysis(d) \/ AnswerAnalysis(d)
        PROVE  Kept
    BY <1>7, ChooseDirectoryKeeps, BuildReportKeeps, FindAnalysisKeeps, AnswerAnalysisKeeps
  <1>8. ASSUME NEW d \in Drivers, PublishFile(d) \/ VerifyReport(d) \/ Kill(d)
        PROVE  Kept
    BY <1>8, PublishFileKeeps, VerifyReportKeeps, KillKeeps
  <1> QED
    BY <1>1, <1>2, <1>3, <1>4, <1>5, <1>6, <1>7, <1>8 DEF Next

-----------------------------------------------------------------------------
\* The types of what run.sh, the cells and the report share, and the invariant
\* the results below rest on: a cell at work alone holds its provider's domain
\* (runtime/provider_lifecycle.py), has read the file as it still is, and a report that
\* is being published is the one of the study's complete files.
THEOREM StudyInvariant == Spec => []StudyInv
  <1>1. Init => StudyInv
    BY StudyInvInit
  <1>2. StudyInv /\ [Next]_vars => StudyInv'
    BY StudyInvNext DEF Kept
  <1> QED
    BY <1>1, <1>2, PTL DEF Spec

\* The study the selector names has its plan and every provider's result file,
\* each of which loads, wherever a start of run.sh was killed: run.sh writes
\* the selector last.
THEOREM SelectorSound == Spec => []SelectorNamesWhole
  <1>1. StudyInv => SelectorNamesWhole
    <2> SUFFICES ASSUME StudyInv, selector # NoStudy
                 PROVE  /\ selector \in plan /\ Loaded(selector) # {}
                        /\ \A p \in Providers : results[selector][p].exists
      BY DEF SelectorNamesWhole
    <2>1. selector \in Studies /\ selector \in plan /\ \A o \in Providers : results[selector][o].exists
      BY DEF StudyInv, StudyTypeOK, SelectorInv
    <2>2. \A o \in Providers : LoadQuestionResults(results[selector][o]) # {}
      BY <2>1 DEF StudyInv, FileInv, LoadQuestionResults
    <2> QED
      BY <2>1, <2>2 DEF Loaded
  <1> QED
    BY <1>1, StudyInvariant, PTL

\* A report directory that has a marker has the checksums and every file they
\* name, all of one build, and the comparison's is what the result files give
\* now: the files are published create-only and the marker last
\* (_publish_comparison_documents), and complete result files are never written again.
THEOREM MarkedReportSound == Spec => []MarkedReportStands
  <1>1. StudyInv => MarkedReportStands
    BY DEF StudyInv, MarkedInv, MarkedReportStands, Build
  <1> QED
    BY <1>1, StudyInvariant, PTL

\* No result that is in a provider's file is changed or dropped, although
\* add_question_result writes a whole file from the copy it read before, and
\* any number of drivers may be at work.
THEOREM SavedSound == Spec => SavedStays
  <1>1. StudyInv /\ [Next]_vars =>
           [\A s \in Studies, p \in Providers : \A q \in DOMAIN results[s][p].saved :
               /\ q \in DOMAIN results'[s][p].saved
               /\ results'[s][p].saved[q] = results[s][p].saved[q]]_vars
    BY StudyInvNext DEF Kept, Grows, FileGrows
  <1> QED
    BY <1>1, StudyInvariant, PTL DEF Spec, SavedStays

\* A published file of a report stays there and stays what it is, whatever else
\* is published into the same directory (publish_with_last_marker).
PublishedStays ==
    [][\A s \in Studies, n \in Directories : \A name \in DOMAIN report[s][n] :
          name \in DOMAIN report'[s][n] /\ report'[s][n][name] = report[s][n][name]]_vars

\* Create-only publication, for any number of commands and directories.
THEOREM PublishedSound == Spec => PublishedStays
  <1>1. StudyInv /\ [Next]_vars =>
           [\A s \in Studies, n \in Directories : \A name \in DOMAIN report[s][n] :
               name \in DOMAIN report'[s][n] /\ report'[s][n][name] = report[s][n][name]]_vars
    BY StudyInvNext DEF Kept, Grows, ReportGrows
  <1> QED
    BY <1>1, StudyInvariant, PTL DEF Spec, PublishedStays
=============================================================================
