---------------------------- MODULE Tasks_proofs ----------------------------
(***************************************************************************)
(* Proofs about the task store for any number of windows, names, commands  *)
(* and mishaps: records stay whole, no command changes the pointer of      *)
(* another window, pointers move as module Sessions lets them and resolve, *)
(* every task that one command at a time changed is in one place, no       *)
(* commit records it in two, and the archive holds what was checked.       *)
(***************************************************************************)
EXTENDS Tasks, FiniteSetTheorems, TLAPS

-----------------------------------------------------------------------------
(* The inductive invariant.  A command only writes back what it has read:  *)
(* which records a window must have read is said by the step it is at.     *)

Pcs == {"idle", "new", "activate", "hook", "issue", "parent", "child", "own", "jsonl",
        "backrefs", "sessions", "kids", "kid", "shelve", "add", "rm", "commit",
        "gate", "point", "load", "flip", "clear", "field"}

Window == [pc : Pcs, cmd : Command, read : [Names -> Task \cup {None}],
           todo : SUBSET Names]

ReadA(q) == q.cmd.a \in Names /\ q.read[q.cmd.a] \in Task
ReadB(q) == q.cmd.b \in Names /\ q.read[q.cmd.b] \in Task
ReadAll(q) == q.cmd.b \in Names /\ \A n \in q.todo : q.read[n] \in Task

WindowOK(q) ==
    /\ q \in Window
    /\ q.pc \notin {"idle", "clear"} => q.cmd.a \in Names
    /\ q.pc \in {"issue", "parent", "child", "own", "jsonl", "flip", "field"} => ReadA(q)
    /\ q.pc = "new" => q.cmd.b = None \/ ReadB(q)
    /\ q.pc = "parent" => ReadB(q)
    /\ q.pc \in {"jsonl", "backrefs", "sessions"} => ReadAll(q)
    /\ q.pc = "own" /\ q.cmd.op = "rename" => ReadAll(q)

Record == Task \cup {None, Bare}
Blame == [id : Ids, by : Command]

StoreOK == active \in [Names -> Record] /\ archived \in [Names -> Record]
GitOK == /\ index \in [act : SUBSET Names, arc : SUBSET Names]
         /\ head \in [act : SUBSET Names, arc : SUBSET Names]
PointersOK == /\ ptr \in [Windows -> Names \cup {None}]
              /\ tickets \subseteq UNION {S!TicketsOf(k) : k \in Hooked}
WindowsOK == win \in [Windows -> Window] /\ \A w \in Windows : WindowOK(win[w])
BoundsOK == ran \in 0..MaxCommands /\ mishaps \in 0..MaxMishaps
HistoryOK == /\ made \in SUBSET Ids /\ IsFiniteSet(made)
             /\ crossed \subseteq Ids /\ broken \subseteq Blame
             /\ adrift \subseteq Windows /\ owed \subseteq Names

IInv == StoreOK /\ GitOK /\ PointersOK /\ WindowsOK /\ BoundsOK /\ HistoryOK

-----------------------------------------------------------------------------
(* Records.                                                                *)

LEMMA RecordIs ==
    ASSUME StoreOK, NEW n, HasRecord(n)
    PROVE  n \in Names /\ active[n] \in Task
  BY DEF StoreOK, HasRecord, Record

LEMMA IdsAreIds ==
    ASSUME StoreOK, NEW N
    PROVE  IdsAt(N) \subseteq Ids
  <1> SUFFICES ASSUME NEW i \in IdsAt(N)
               PROVE  i \in Ids
    OBVIOUS
  <1>1. PICK n \in N : HasRecord(n) /\ i = active[n].id
    BY DEF IdsAt
  <1>2. active[n] \in Task
    BY <1>1, RecordIs
  <1> QED
    BY <1>1, <1>2 DEF Task

LEMMA MarksAreBlame ==
    ASSUME StoreOK, NEW N, NEW c \in Command
    PROVE  Mark(N, c) \subseteq Blame
  <1> SUFFICES ASSUME NEW m \in Mark(N, c)
               PROVE  m \in Blame
    OBVIOUS
  <1>1. PICK i \in IdsAt(N) : m = [id |-> i, by |-> c]
    BY DEF Mark
  <1>2. i \in Ids
    BY IdsAreIds
  <1> QED
    BY <1>1, <1>2 DEF Blame

LEMMA AstrayAreBlame ==
    ASSUME StoreOK, NEW o, NEW c \in Command
    PROVE  Astray(o, c) \subseteq Blame
  <1>1. [c EXCEPT !.op = "link"] \in Command
    BY DEF Command, Ops
  <1> QED
    BY <1>1, MarksAreBlame DEF Astray

LEMMA ReadNowIs ==
    ASSUME StoreOK, NEW N
    PROVE  /\ ReadNow(N) \in [Names -> Task \cup {None}]
           /\ \A n \in N : HasRecord(n) => ReadNow(N)[n] \in Task
  <1>1. \A n \in Names : HasRecord(n) => active[n] \in Task
    BY RecordIs
  <1>2. \A n \in Names : ReadNow(N)[n] = IF n \in N /\ HasRecord(n) THEN active[n] ELSE None
    BY DEF ReadNow
  <1>3. ReadNow(N) \in [Names -> Task \cup {None}]
    BY <1>1 DEF ReadNow
  <1>4. ASSUME NEW n \in N, HasRecord(n)
        PROVE  ReadNow(N)[n] \in Task
    BY <1>1, <1>2, <1>4, RecordIs
  <1> QED
    BY <1>3, <1>4

LEMMA StoredIsTask ==
    ASSUME StoreOK, NEW n \in Names, NEW t \in Task
    PROVE  Stored(n, t) \in Task
  <1>1. CASE HasRecord(n)
    <2>1. active[n] \in Task
      BY <1>1, RecordIs
    <2>2. active[n].manifest \in Names \cup {None}
      BY <2>1 DEF Task
    <2> QED
      BY <1>1, <2>2 DEF Stored, Task
  <1>2. CASE ~HasRecord(n)
    BY <1>2 DEF Stored
  <1> QED
    BY <1>1, <1>2

\* The commands write whole records.
LEMMA WriteKeeps ==
    ASSUME StoreOK, NEW n \in Names, NEW t \in Task, Write(n, t)
    PROVE  StoreOK'
  <1>1. Stored(n, t) \in Record
    BY StoredIsTask DEF Record
  <1>2. active' = [active EXCEPT ![n] = Stored(n, t)] /\ archived' = archived
    BY DEF Write
  <1> HIDE DEF Record
  <1> QED
    BY <1>1, <1>2 DEF StoreOK

LEMMA NewIsTask ==
    ASSUME NEW i \in Ids, NEW n \in Names
    PROVE  NewTask(i, n) \in Task
  BY DEF NewTask, Task, Branches

LEMMA UpdatesAreTasks ==
    ASSUME NEW t \in Task
    PROVE  /\ \A x \in Names \cup {None} : [t EXCEPT !.parent = x] \in Task
           /\ \A x \in Names : [t EXCEPT !.name = x] \in Task
           /\ \A x \in SUBSET Names : [t EXCEPT !.kids = x] \in Task
           /\ \A x \in Names \cup {None} : [t EXCEPT !.manifest = x] \in Task
           /\ \A x \in Branches \cup {None} : [t EXCEPT !.branch = x] \in Task
           /\ \A x \in Branches : [t EXCEPT !.base = x] \in Task
           /\ [t EXCEPT !.status = "completed"] \in Task
           /\ [t EXCEPT !.status = "in_progress"] \in Task
           /\ t.kids \in SUBSET Names /\ t.parent \in Names \cup {None}
           /\ t.branch \in Branches \cup {None} /\ t.base \in Branches
  BY DEF Task

LEMMA RenamedIsTask ==
    ASSUME NEW t \in Task, NEW o \in Names, NEW n \in Names
    PROVE  Renamed(t, o, n) \in Task
  BY DEF Task, Renamed

LEMMA StartedIsTask ==
    ASSUME NEW t \in Task, NEW b \in Branches
    PROVE  Started(t, b) \in Task
  BY DEF Task, Started

-----------------------------------------------------------------------------
(* Windows.                                                                *)

LEMMA IdleOK == WindowOK(Idle)
  <1>1. [op |-> "finish", a |-> None, b |-> None] \in Command
    BY DEF Command, Ops
  <1>2. NothingRead \in [Names -> Task \cup {None}]
    BY DEF NothingRead
  <1> QED
    BY <1>1, <1>2 DEF Idle, WindowOK, Window, Pcs

LEMMA SetKeeps ==
    ASSUME WindowsOK, NEW w \in Windows, NEW q, WindowOK(q),
           win' = [win EXCEPT ![w] = q]
    PROVE  WindowsOK'
  <1>1. q \in Window /\ win \in [Windows -> Window]
    BY DEF WindowOK, WindowsOK
  <1>2. win' \in [Windows -> Window]
    BY <1>1
  <1>3. \A v \in Windows : win'[v] = IF v = w THEN q ELSE win[v]
    BY <1>1
  <1>4. \A v \in Windows : WindowOK(win'[v])
    BY <1>3 DEF WindowsOK
  <1> QED
    BY <1>2, <1>4 DEF WindowsOK

LEMMA LeaveKeeps ==
    ASSUME WindowsOK, NEW w \in Windows, Leave(w)
    PROVE  WindowsOK'
  BY IdleOK, SetKeeps DEF Leave

\* A step that goes on, or also forgets or reads something.
At2(q, pc) == [q EXCEPT !.pc = pc]

LEMMA MovedIs ==
    ASSUME NEW q \in Window, NEW pc \in Pcs
    PROVE  /\ At2(q, pc) \in Window
           /\ At2(q, pc).pc = pc /\ At2(q, pc).cmd = q.cmd
           /\ At2(q, pc).read = q.read /\ At2(q, pc).todo = q.todo
  BY DEF Window, At2

LEMMA GoIs ==
    ASSUME WindowsOK, NEW w \in Windows, NEW pc \in Pcs, Go(w, pc)
    PROVE  win' = [win EXCEPT ![w] = At2(win[w], pc)]
  BY DEF Go, At2

\* The step that also stores what it read.
Reads(q, pc, n, t) == [q EXCEPT !.pc = pc, !.read[n] = t]

LEMMA ReadsIs ==
    ASSUME NEW q \in Window, NEW pc \in Pcs, NEW n \in Names, NEW t \in Task
    PROVE  /\ Reads(q, pc, n, t) \in Window
           /\ Reads(q, pc, n, t).pc = pc /\ Reads(q, pc, n, t).cmd = q.cmd
           /\ Reads(q, pc, n, t).todo = q.todo
           /\ Reads(q, pc, n, t).read[n] = t
           /\ \A m \in Names : q.read[m] \in Task => Reads(q, pc, n, t).read[m] \in Task
  <1> DEFINE r == [q.read EXCEPT ![n] = t]
  <1>1. q.read \in [Names -> Task \cup {None}]
    BY DEF Window
  <1>2. r \in [Names -> Task \cup {None}] /\ r[n] = t
        /\ \A m \in Names : q.read[m] \in Task => r[m] \in Task
    BY <1>1
  <1>3. Reads(q, pc, n, t) = [q EXCEPT !.pc = pc, !.read = r]
    BY DEF Reads
  <1> HIDE DEF r
  <1>4. [q EXCEPT !.pc = pc, !.read = r] \in Window
    BY <1>2 DEF Window
  <1>5. /\ [q EXCEPT !.pc = pc, !.read = r].pc = pc
        /\ [q EXCEPT !.pc = pc, !.read = r].cmd = q.cmd
        /\ [q EXCEPT !.pc = pc, !.read = r].todo = q.todo
        /\ [q EXCEPT !.pc = pc, !.read = r].read = r
    BY DEF Window
  <1> QED
    BY <1>2, <1>3, <1>4, <1>5

\* ... and the one that forgets it.
LEMMA ForgetsIs ==
    ASSUME NEW q \in Window, NEW pc \in Pcs, NEW n \in Names
    PROVE  /\ Reads(q, pc, n, None) \in Window
           /\ Reads(q, pc, n, None).pc = pc /\ Reads(q, pc, n, None).cmd = q.cmd
           /\ Reads(q, pc, n, None).todo = q.todo
           /\ Reads(q, pc, n, None).read[n] = None
           /\ \A m \in Names \ {n} : Reads(q, pc, n, None).read[m] = q.read[m]
  <1> DEFINE r == [q.read EXCEPT ![n] = None]
  <1>1. q.read \in [Names -> Task \cup {None}]
    BY DEF Window
  <1>2. r \in [Names -> Task \cup {None}] /\ r[n] = None
        /\ \A m \in Names \ {n} : r[m] = q.read[m]
    BY <1>1
  <1>3. Reads(q, pc, n, None) = [q EXCEPT !.pc = pc, !.read = r]
    BY DEF Reads
  <1> HIDE DEF r
  <1>4. [q EXCEPT !.pc = pc, !.read = r] \in Window
    BY <1>2 DEF Window
  <1>5. /\ [q EXCEPT !.pc = pc, !.read = r].pc = pc
        /\ [q EXCEPT !.pc = pc, !.read = r].cmd = q.cmd
        /\ [q EXCEPT !.pc = pc, !.read = r].todo = q.todo
        /\ [q EXCEPT !.pc = pc, !.read = r].read = r
    BY DEF Window
  <1> QED
    BY <1>2, <1>3, <1>4, <1>5

\* A step that handles one of the names still to do.
Drops(q, n) == [q EXCEPT !.todo = @ \ {n}]

LEMMA DropsIs ==
    ASSUME NEW q \in Window, NEW n
    PROVE  /\ Drops(q, n) \in Window
           /\ Drops(q, n).pc = q.pc /\ Drops(q, n).cmd = q.cmd
           /\ Drops(q, n).read = q.read /\ Drops(q, n).todo = q.todo \ {n}
  BY DEF Window, Drops

LEMMA WindowFacts ==
    ASSUME WindowsOK, NEW w \in Windows
    PROVE  /\ win \in [Windows -> Window] /\ win[w] \in Window /\ WindowOK(win[w])
           /\ win[w].cmd \in Command
  BY DEF WindowsOK, WindowOK, Window

\* What a window may go on as.
LEMMA GoKeeps ==
    ASSUME WindowsOK, NEW w \in Windows, NEW pc \in Pcs, Go(w, pc),
           pc \notin {"issue", "parent", "child", "own", "flip", "field", "jsonl",
                      "backrefs", "sessions", "new"},
           pc # "idle" => win[w].cmd.a \in Names
    PROVE  WindowsOK'
  <1> DEFINE q == At2(win[w], pc)
  <1>1. win[w] \in Window
    BY WindowFacts
  <1>2. q \in Window /\ q.pc = pc /\ q.cmd = win[w].cmd
    BY <1>1, MovedIs
  <1>3. win' = [win EXCEPT ![w] = q]
    BY GoIs
  <1> HIDE DEF q
  <1>4. WindowOK(q)
    BY <1>2 DEF WindowOK
  <1> QED
    BY <1>3, <1>4, SetKeeps

LEMMA GoOnKeeps ==
    ASSUME WindowsOK, NEW w \in Windows, NEW pc \in Pcs, Go(w, pc),
           \/ pc \in {"backrefs", "sessions"} /\ ReadAll(win[w])
           \/ pc = "jsonl" /\ ReadAll(win[w]) /\ ReadA(win[w])
           \/ pc = "child" /\ ReadA(win[w]),
           win[w].cmd.a \in Names
    PROVE  WindowsOK'
  <1> DEFINE q == At2(win[w], pc)
  <1>1. win[w] \in Window
    BY WindowFacts
  <1>2. q \in Window /\ q.pc = pc /\ q.cmd = win[w].cmd /\ q.read = win[w].read
        /\ q.todo = win[w].todo
    BY <1>1, MovedIs
  <1>3. win' = [win EXCEPT ![w] = q]
    BY GoIs
  <1> HIDE DEF q
  <1>4. WindowOK(q)
    BY <1>2 DEF WindowOK, ReadAll, ReadA
  <1> QED
    BY <1>3, <1>4, SetKeeps

LEMMA GiveUpKeeps ==
    ASSUME IInv, NEW w \in Windows, GiveUp(w)
    PROVE  WindowsOK' /\ broken' \subseteq Blame
  <1>1. WindowsOK'
    BY LeaveKeeps DEF GiveUp, IInv
  <1>2. Mark(Handled(win[w]), win[w].cmd) \subseteq Blame
    BY WindowFacts, MarksAreBlame DEF IInv
  <1>3. broken' \subseteq Blame
    BY <1>2 DEF GiveUp, IInv, HistoryOK
  <1> QED
    BY <1>1, <1>3

LEMMA CompleteKeeps ==
    ASSUME IInv, NEW w \in Windows, Complete(w)
    PROVE  WindowsOK' /\ broken' \subseteq Blame
  BY LeaveKeeps DEF Complete, IInv, HistoryOK

LEMMA MishapKeeps ==
    ASSUME IInv, Mishap, ran' = ran
    PROVE  BoundsOK'
  BY TasksAssumption DEF TasksAssumption, IInv, BoundsOK, Mishap

LEMMA StrandedAre ==
    ASSUME NEW c
    PROVE  \E N : Stranded(c) \subseteq IdsAt(N)
  <1> DEFINE N == {n \in Records : [id |-> active[n].id, by |-> c] \in broken}
  <1>1. Stranded(c) \subseteq IdsAt(N)
    BY DEF Stranded
  <1> QED
    BY <1>1

LEMMA EnterKeeps ==
    ASSUME IInv, NEW w \in Windows, NEW q, WindowOK(q), ran < MaxCommands, Enter(w, q)
    PROVE  WindowsOK' /\ BoundsOK' /\ crossed' \subseteq Ids
  <1>1. WindowsOK'
    BY SetKeeps DEF Enter, IInv
  <1>2. BoundsOK'
    BY TasksAssumption DEF TasksAssumption, Enter, IInv, BoundsOK
  <1>3. crossed' \subseteq Ids
    <2>1. \A N : IdsAt(N) \subseteq Ids
      BY IdsAreIds DEF IInv
    <2>2. Stranded(q.cmd) \subseteq Ids
      BY <2>1, StrandedAre
    <2> QED
      BY <2>1, <2>2, Zenon DEF Enter, IInv, HistoryOK
  <1> QED
    BY <1>1, <1>2, <1>3

LEMMA Frames ==
    ASSUME IInv
    PROVE  /\ UNCHANGED taskVars => StoreOK'
           /\ UNCHANGED gitVars => GitOK'
           /\ UNCHANGED sessionVars => PointersOK'
           /\ UNCHANGED win => WindowsOK'
           /\ UNCHANGED boundVars => BoundsOK'
           /\ UNCHANGED <<made, crossed, broken, adrift, owed>> => HistoryOK'
  <1>1. UNCHANGED taskVars => StoreOK'
    BY DEF IInv, StoreOK, taskVars
  <1>2. UNCHANGED gitVars => GitOK'
    BY DEF IInv, GitOK, gitVars
  <1>3. UNCHANGED sessionVars => PointersOK'
    BY DEF IInv, PointersOK, sessionVars
  <1>4. UNCHANGED win => WindowsOK'
    BY DEF IInv, WindowsOK
  <1>5. UNCHANGED boundVars => BoundsOK'
    BY DEF IInv, BoundsOK, boundVars
  <1>6. UNCHANGED <<made, crossed, broken, adrift, owed>> => HistoryOK'
    BY DEF IInv, HistoryOK
  <1> QED
    BY <1>1, <1>2, <1>3, <1>4, <1>5, <1>6

-----------------------------------------------------------------------------
(* Commands that begin.                                                    *)

LEMMA AtIs ==
    ASSUME NEW pc \in Pcs, NEW c \in Command, NEW read \in [Names -> Task \cup {None}],
           NEW todo \in SUBSET Names
    PROVE  /\ At(pc, c, read, todo) \in Window
           /\ At(pc, c, read, todo).pc = pc /\ At(pc, c, read, todo).cmd = c
           /\ At(pc, c, read, todo).read = read /\ At(pc, c, read, todo).todo = todo
  BY DEF At, Window

LEMMA NothingReadIs == NothingRead \in [Names -> Task \cup {None}]
  BY DEF NothingRead

LEMMA CreateDirKeeps ==
    ASSUME IInv, NEW w \in Windows, NEW c, WellFormed(c), ran < MaxCommands, CreateDir(w, c)
    PROVE  IInv'
  <1> DEFINE q == At("new", c, ReadNow({c.b}), {})
  <1>1. c \in Command /\ c.a \in Names
    BY DEF CreateDir, WellFormed
  <1>2. ReadNow({c.b}) \in [Names -> Task \cup {None}]
        /\ (HasRecord(c.b) => ReadNow({c.b})[c.b] \in Task)
    BY ReadNowIs DEF IInv
  <1>3. c.b = None \/ (c.b \in Names /\ ReadNow({c.b})[c.b] \in Task)
    BY <1>2 DEF CreateDir, MayCreate, HasRecord
  <1>4. q \in Window /\ q.pc = "new" /\ q.cmd = c /\ q.read = ReadNow({c.b})
    <2>1. "new" \in Pcs /\ {} \in SUBSET Names
      BY DEF Pcs
    <2> QED
      BY <1>1, <1>2, <2>1, AtIs
  <1>5. Enter(w, q)
    BY DEF CreateDir
  <1> HIDE DEF q
  <1>6. WindowOK(q)
    BY <1>1, <1>3, <1>4 DEF WindowOK, ReadB
  <1>7. WindowsOK' /\ BoundsOK' /\ crossed' \subseteq Ids
    BY <1>5, <1>6, EnterKeeps DEF CreateDir
  <1>8. StoreOK'
    BY <1>1 DEF CreateDir, IInv, StoreOK, Record
  <1>9. HistoryOK'
    BY <1>7 DEF CreateDir, IInv, HistoryOK
  <1> QED
    BY <1>7, <1>8, <1>9, Frames DEF CreateDir, IInv

LEMMA LinkReadKeeps ==
    ASSUME IInv, NEW w \in Windows, NEW c, WellFormed(c), ran < MaxCommands, LinkRead(w, c)
    PROVE  IInv'
  <1> DEFINE q == At("parent", c, ReadNow({c.a, c.b}), {})
  <1>1. c \in Command /\ c.a \in Names /\ c.b \in Names
    BY DEF LinkRead, WellFormed
  <1>2. ReadNow({c.a, c.b}) \in [Names -> Task \cup {None}]
        /\ ReadNow({c.a, c.b})[c.a] \in Task /\ ReadNow({c.a, c.b})[c.b] \in Task
    BY ReadNowIs DEF IInv, LinkRead
  <1>3. q \in Window /\ q.pc = "parent" /\ q.cmd = c /\ q.read = ReadNow({c.a, c.b})
    <2>1. "parent" \in Pcs /\ {} \in SUBSET Names
      BY DEF Pcs
    <2> QED
      BY <1>1, <1>2, <2>1, AtIs
  <1>4. Enter(w, q)
    BY DEF LinkRead
  <1> HIDE DEF q
  <1>5. WindowOK(q)
    BY <1>1, <1>2, <1>3 DEF WindowOK, ReadA, ReadB
  <1>6. WindowsOK' /\ BoundsOK' /\ crossed' \subseteq Ids
    BY <1>4, <1>5, EnterKeeps
  <1>7. HistoryOK'
    BY <1>6 DEF LinkRead, IInv, HistoryOK
  <1> QED
    BY <1>6, <1>7, Frames DEF LinkRead, IInv

LEMMA BackrefsAre ==
    ASSUME NEW o
    PROVE  Backrefs(o) \in SUBSET Names /\ \A n \in Backrefs(o) : HasRecord(n)
  BY DEF Backrefs, Records

LEMMA RenamePlanKeeps ==
    ASSUME IInv, NEW w \in Windows, NEW c, WellFormed(c), ran < MaxCommands, RenamePlan(w, c)
    PROVE  IInv'
  <1> DEFINE N == {c.a} \cup Backrefs(c.a)
             q == At("own", c, ReadNow(N), Backrefs(c.a))
  <1>1. c \in Command /\ c.a \in Names /\ c.b \in Names /\ HasRecord(c.a) /\ c.op = "rename"
    BY DEF RenamePlan, MayRename, WellFormed
  <1>2. ReadNow(N) \in [Names -> Task \cup {None}]
        /\ \A n \in N : HasRecord(n) => ReadNow(N)[n] \in Task
    <2> HIDE DEF N
    <2> QED
      BY ReadNowIs DEF IInv
  <1>3. ReadNow(N)[c.a] \in Task /\ \A n \in Backrefs(c.a) : ReadNow(N)[n] \in Task
    BY <1>1, <1>2, BackrefsAre
  <1>4. q \in Window /\ q.pc = "own" /\ q.cmd = c /\ q.read = ReadNow(N)
        /\ q.todo = Backrefs(c.a)
    <2> HIDE DEF N
    <2> QED
      BY <1>1, <1>2, AtIs, BackrefsAre DEF Pcs
  <1>5. Enter(w, q)
    BY DEF RenamePlan
  <1> HIDE DEF q, N
  <1>6. WindowOK(q)
    BY <1>1, <1>3, <1>4 DEF WindowOK, ReadA, ReadAll
  <1>7. WindowsOK' /\ BoundsOK' /\ crossed' \subseteq Ids
    BY <1>5, <1>6, EnterKeeps
  <1>8. HistoryOK'
    BY <1>7 DEF RenamePlan, IInv, HistoryOK
  <1> QED
    BY <1>7, <1>8, Frames DEF RenamePlan, IInv

LEMMA ArchiveReadKeeps ==
    ASSUME IInv, NEW w \in Windows, NEW c, WellFormed(c), ran < MaxCommands, ArchiveRead(w, c)
    PROVE  IInv'
  <1>1. c \in Command /\ c.a \in Names /\ c.op # "rename"
    BY DEF ArchiveRead, WellFormed
  <1>2. \E q : WindowOK(q) /\ Enter(w, q)
    <2>1. CASE HasRecord(c.a)
      <3> DEFINE q == At("own", c, ReadNow({c.a}), active[c.a].kids)
      <3>1. active[c.a].kids \in SUBSET Names
        <4>1. active[c.a] \in Task
          BY <2>1, RecordIs DEF IInv
        <4> QED
          BY <4>1 DEF Task
      <3>2. ReadNow({c.a}) \in [Names -> Task \cup {None}] /\ ReadNow({c.a})[c.a] \in Task
        BY <2>1, ReadNowIs DEF IInv
      <3>3. q \in Window /\ q.pc = "own" /\ q.cmd = c /\ q.read = ReadNow({c.a})
        <4>1. "own" \in Pcs
          BY DEF Pcs
        <4> QED
          BY <1>1, <3>1, <3>2, <4>1, AtIs
      <3>4. Enter(w, q)
        BY <2>1 DEF ArchiveRead
      <3> HIDE DEF q
      <3>5. WindowOK(q)
        BY <1>1, <3>2, <3>3 DEF WindowOK, ReadA
      <3> QED
        BY <3>4, <3>5
    <2>2. CASE ~HasRecord(c.a)
      <3> DEFINE q == At("kids", c, NothingRead, {})
      <3>1. q \in Window /\ q.pc = "kids" /\ q.cmd = c
        BY <1>1, AtIs, NothingReadIs DEF Pcs
      <3>2. Enter(w, q)
        BY <2>2 DEF ArchiveRead
      <3> HIDE DEF q
      <3>3. WindowOK(q)
        BY <1>1, <3>1 DEF WindowOK
      <3> QED
        BY <3>2, <3>3
    <2> QED
      BY <2>1, <2>2
  <1>3. WindowsOK' /\ BoundsOK' /\ crossed' \subseteq Ids
    BY <1>2, EnterKeeps
  <1>4. HistoryOK'
    BY <1>3 DEF ArchiveRead, IInv, HistoryOK
  <1> QED
    BY <1>3, <1>4, Frames DEF ArchiveRead, IInv

LEMMA RecordSessionKeeps ==
    ASSUME IInv, NEW w \in Windows, NEW c, ran < MaxCommands, RecordSession(w, c)
    PROVE  IInv'
  <1>1. PICK n \in Names : /\ index' = [index EXCEPT !.act = @ \cup {n}]
                           /\ head' = [head EXCEPT !.act = @ \cup {n}]
    BY DEF RecordSession, HasRecord
  <1>2. GitOK'
    BY <1>1 DEF IInv, GitOK
  <1>3. BoundsOK'
    BY TasksAssumption DEF TasksAssumption, RecordSession, IInv, BoundsOK
  <1> QED
    BY <1>2, <1>3, Frames DEF RecordSession, IInv

LEMMA TicketKeeps ==
    ASSUME IInv, NEW w, NEW c \in S!SessionCommands, NEW r \in Names \cup {None},
           S!WriteTicket(w, c, r)
    PROVE  PointersOK'
  <1>1. w \in Hooked => S!Ticket(w, c, r) \in S!TicketsOf(w)
    BY DEF S!Ticket, S!TicketsOf
  <1> QED
    BY <1>1 DEF S!WriteTicket, IInv, PointersOK

LEMMA StartCalledKeeps ==
    ASSUME IInv, NEW w \in Windows, NEW c, WellFormed(c), ran < MaxCommands, StartCalled(w, c)
    PROVE  IInv'
  <1> DEFINE q == At("gate", c, NothingRead, {})
  <1>1. c \in Command /\ c.a \in Names
    BY DEF StartCalled, WellFormed
  <1>2. q \in Window /\ q.pc = "gate" /\ q.cmd = c
    BY <1>1, AtIs, NothingReadIs DEF Pcs
  <1>3. Enter(w, q)
    BY DEF StartCalled
  <1> HIDE DEF q
  <1>4. WindowOK(q)
    BY <1>1, <1>2 DEF WindowOK
  <1>5. WindowsOK' /\ BoundsOK' /\ crossed' \subseteq Ids
    BY <1>3, <1>4, EnterKeeps
  <1>6. PointersOK'
    BY <1>1, TicketKeeps DEF StartCalled, S!SessionCommands
  <1>7. HistoryOK'
    BY <1>5 DEF StartCalled, IInv, HistoryOK
  <1> QED
    BY <1>5, <1>6, <1>7, Frames DEF StartCalled, IInv

LEMMA FinishCalledKeeps ==
    ASSUME IInv, NEW w \in Windows, NEW c, WellFormed(c), ran < MaxCommands, FinishCalled(w, c)
    PROVE  IInv'
  <1> DEFINE q == At("clear", c, NothingRead, {})
  <1>1. c \in Command
    BY DEF WellFormed
  <1>2. q \in Window /\ q.pc = "clear" /\ q.cmd = c
    BY <1>1, AtIs, NothingReadIs DEF Pcs
  <1>3. Enter(w, q)
    BY DEF FinishCalled
  <1> HIDE DEF q
  <1>4. WindowOK(q)
    BY <1>1, <1>2 DEF WindowOK
  <1>5. WindowsOK' /\ BoundsOK' /\ crossed' \subseteq Ids
    BY <1>3, <1>4, EnterKeeps
  <1>6. PointersOK'
    BY TicketKeeps DEF FinishCalled, S!SessionCommands
  <1>7. HistoryOK'
    BY <1>5 DEF FinishCalled, IInv, HistoryOK
  <1> QED
    BY <1>5, <1>6, <1>7, Frames DEF FinishCalled, IInv

LEMMA FieldReadKeeps ==
    ASSUME IInv, NEW w \in Windows, NEW c, WellFormed(c), ran < MaxCommands, FieldRead(w, c)
    PROVE  IInv'
  <1> DEFINE q == At("field", c, ReadNow({c.a}), {})
  <1>1. c \in Command /\ c.a \in Names
    BY DEF FieldRead, WellFormed
  <1>2. ReadNow({c.a}) \in [Names -> Task \cup {None}] /\ ReadNow({c.a})[c.a] \in Task
    BY ReadNowIs DEF IInv, FieldRead
  <1>3. q \in Window /\ q.pc = "field" /\ q.cmd = c /\ q.read = ReadNow({c.a})
    <2>1. "field" \in Pcs /\ {} \in SUBSET Names
      BY DEF Pcs
    <2> QED
      BY <1>1, <1>2, <2>1, AtIs
  <1>4. Enter(w, q)
    BY DEF FieldRead
  <1> HIDE DEF q
  <1>5. WindowOK(q)
    BY <1>1, <1>2, <1>3 DEF WindowOK, ReadA
  <1>6. WindowsOK' /\ BoundsOK' /\ crossed' \subseteq Ids
    BY <1>4, <1>5, EnterKeeps
  <1>7. HistoryOK'
    BY <1>6 DEF FieldRead, IInv, HistoryOK
  <1> QED
    BY <1>6, <1>7, Frames DEF FieldRead, IInv

LEMMA CurateKeeps ==
    ASSUME IInv, NEW w \in Windows, NEW c, ran < MaxCommands, Curate(w, c)
    PROVE  IInv'
  <1> DEFINE t == [active[c.a] EXCEPT !.manifest = c.a]
  <1>1. c.a \in Names /\ active[c.a] \in Task
    BY RecordIs DEF Curate, IInv
  <1>2. t \in Record
    BY <1>1, UpdatesAreTasks DEF Record
  <1>3. active' = [active EXCEPT ![c.a] = t] /\ archived' = archived
    BY DEF Curate
  <1> HIDE DEF t
  <1>4. StoreOK'
    BY <1>1, <1>2, <1>3 DEF IInv, StoreOK
  <1>5. BoundsOK'
    BY TasksAssumption DEF TasksAssumption, Curate, IInv, BoundsOK
  <1>6. HistoryOK'
    <2>1. IdsAt({c.a} \cap HandledByOthers(w)) \subseteq Ids
      BY IdsAreIds DEF IInv
    <2> QED
      BY <2>1 DEF Curate, IInv, HistoryOK
  <1> QED
    BY <1>4, <1>5, <1>6, Frames DEF Curate, IInv

-----------------------------------------------------------------------------
(* create.                                                                 *)

LEMMA CreateRecordKeeps ==
    ASSUME IInv, NEW w \in Windows, CreateRecord(w)
    PROVE  IInv'
  <1> DEFINE c == win[w].cmd
             t == NewTask(Cardinality(made) + 1, c.a)
             pc == IF c.b = None THEN "activate" ELSE "parent"
             q == Reads(win[w], pc, c.a, t)
             over == HasRecord(c.a) \/ c.op = "force"
             friends == {n \in Records : (over /\ Mentions(n, c.a))
                                \/ (HasRecord(c.a) /\ Mentions(c.a, n))}
  <1>1. /\ win[w] \in Window /\ WindowOK(win[w]) /\ c \in Command
        /\ win[w].pc = "new" /\ win \in [Windows -> Window]
    BY WindowFacts DEF IInv, CreateRecord, Step
  <1>2. c.a \in Names /\ (c.b = None \/ ReadB(win[w]))
    BY <1>1 DEF WindowOK
  <1>3. t \in Task /\ t.id = Cardinality(made) + 1 /\ t.id \in Ids
    <2>1. Cardinality(made) \in Nat
      BY FS_CardinalityType DEF IInv, HistoryOK
    <2>2. Cardinality(made) + 1 \in Ids
      BY <2>1 DEF Ids
    <2> QED
      BY <1>2, <2>2, NewIsTask DEF NewTask
  <1>4. /\ Write(c.a, t)
        /\ made' = made \cup {t.id}
        /\ crossed' = crossed \cup (IF c.op = "create" THEN IdsAt(friends) ELSE IdsAt({c.a}))
                              \cup (IF c.a \in HandledByOthers(w) \/ Doubtful(win[w]) THEN {t.id} ELSE {})
        /\ broken' = broken \cup (IF c.op = "force" THEN Mark(friends, c) ELSE {})
                            \cup Inherited(c, t)
        /\ win' = [win EXCEPT ![w].pc = pc, ![w].read[c.a] = t]
        /\ UNCHANGED <<gitVars, sessionVars, boundVars, adrift, owed>>
    BY DEF CreateRecord
  <1> HIDE DEF t, friends
  <1>5. StoreOK'
    BY <1>2, <1>3, <1>4, WriteKeeps DEF IInv
  <1>6. pc \in Pcs
    BY DEF Pcs
  <1>7. q \in Window /\ q.pc = pc /\ q.cmd = c /\ q.read[c.a] = t
        /\ (ReadB(win[w]) => q.read[c.b] \in Task)
    <2> HIDE DEF pc
    <2> QED
      BY <1>1, <1>2, <1>3, <1>6, ReadsIs DEF ReadB
  <1>8. WindowOK(q)
    <2> HIDE DEF q, c
    <2>1. q.cmd.a \in Names /\ ReadA(q)
      BY <1>2, <1>3, <1>7 DEF ReadA
    <2>2. pc = "parent" => ReadB(q)
      BY <1>2, <1>7 DEF ReadB, c
    <2> QED
      BY <1>7, <2>1, <2>2 DEF WindowOK
  <1>9. win' = [win EXCEPT ![w] = q]
    BY <1>4 DEF Reads
  <1>10. WindowsOK'
    <2> HIDE DEF q
    <2> QED
      BY <1>8, <1>9, SetKeeps DEF IInv
  <1>11. HistoryOK'
    <2>1. IdsAt(friends) \subseteq Ids /\ IdsAt({c.a}) \subseteq Ids
      BY IdsAreIds DEF IInv
    <2>2. Mark(friends, c) \subseteq Blame
      BY <1>1, MarksAreBlame DEF IInv
    <2>3. Inherited(c, t) \subseteq Blame
      BY <1>1, <1>3 DEF Inherited, Blame
    <2>4. made' \in SUBSET Ids /\ IsFiniteSet(made')
      BY <1>3, <1>4, FS_AddElement DEF IInv, HistoryOK
    <2>5. crossed' \subseteq Ids
      BY <1>3, <1>4, <2>1 DEF IInv, HistoryOK
    <2>6. broken' \subseteq Blame
      BY <1>4, <2>2, <2>3 DEF IInv, HistoryOK
    <2> QED
      BY <1>4, <2>4, <2>5, <2>6 DEF IInv, HistoryOK
  <1> QED
    BY <1>4, <1>5, <1>10, <1>11, Frames DEF IInv

LEMMA CreateFailsKeeps ==
    ASSUME IInv, NEW w \in Windows, CreateFails(w)
    PROVE  IInv'
  <1> DEFINE c == win[w].cmd
  <1>1. /\ active' = [active EXCEPT ![c.a] = None] \/ active' = active
        /\ archived' = archived
        /\ adrift' = adrift \cup {k \in Windows : ptr[k] = c.a} \/ adrift' = adrift
        /\ UNCHANGED mishaps \/ Mishap
        /\ GiveUp(w)
        /\ UNCHANGED <<gitVars, sessionVars, ran, made, crossed, owed>>
    BY DEF CreateFails
  <1>2. StoreOK'
    BY <1>1 DEF IInv, StoreOK, Record
  <1>3. BoundsOK'
    BY <1>1, MishapKeeps, Frames DEF boundVars
  <1>4. WindowsOK' /\ broken' \subseteq Blame
    BY <1>1, GiveUpKeeps
  <1>5. HistoryOK'
    BY <1>1, <1>4 DEF IInv, HistoryOK
  <1> QED
    BY <1>1, <1>2, <1>3, <1>4, <1>5, Frames DEF IInv

\* A pointer is set to a task that is there.
LEMMA PointsKeeps ==
    ASSUME IInv, NEW k, NEW n, Points(k, n)
    PROVE  PointersOK' /\ adrift' \subseteq Windows
  BY DEF Points, S!SetActive, Dirs, IInv, PointersOK, HistoryOK

LEMMA CreateActivateKeeps ==
    ASSUME IInv, NEW w \in Windows, CreateActivate(w)
    PROVE  IInv'
  <1>1. /\ win[w].pc = "activate"
        /\ (\E k, n : Points(k, n)) \/ UNCHANGED <<sessionVars, adrift>>
        /\ Go(w, "hook") \/ Leave(w)
        /\ UNCHANGED <<taskVars, gitVars, boundVars, made, crossed, broken, owed>>
    BY DEF CreateActivate, Step
  <1>2. PointersOK' /\ adrift' \subseteq Windows
    BY <1>1, PointsKeeps, Frames DEF IInv, HistoryOK
  <1>3. win[w].cmd.a \in Names
    BY <1>1, WindowFacts DEF IInv, WindowOK
  <1>4. WindowsOK'
    <2>1. "hook" \in Pcs
      BY DEF Pcs
    <2> QED
      BY <1>1, <1>3, <2>1, GoKeeps, LeaveKeeps DEF IInv
  <1>5. HistoryOK'
    BY <1>1, <1>2 DEF IInv, HistoryOK
  <1> QED
    BY <1>1, <1>2, <1>4, <1>5, Frames DEF IInv

\* A step that reads the record of its task, or ends when it is gone.
LEMMA ReadingKeeps ==
    ASSUME IInv, NEW w \in Windows, NEW n \in Names, NEW pc \in {"issue", "flip"},
           n = win[w].cmd.a,
           IF HasRecord(n)
           THEN win' = [win EXCEPT ![w].pc = pc, ![w].read[n] = active[n]]
           ELSE Leave(w)
    PROVE  WindowsOK'
  <1>1. win[w] \in Window /\ win \in [Windows -> Window]
    BY WindowFacts DEF IInv
  <1>2. CASE HasRecord(n)
    <2> DEFINE q == Reads(win[w], pc, n, active[n])
    <2>1. active[n] \in Task
      BY <1>2, RecordIs DEF IInv
    <2>2. pc \in Pcs
      BY DEF Pcs
    <2>3. q \in Window /\ q.pc = pc /\ q.cmd = win[w].cmd /\ q.read[n] = active[n]
      BY <1>1, <2>1, <2>2, ReadsIs
    <2>4. win' = [win EXCEPT ![w] = q]
      BY <1>1, <1>2 DEF Reads
    <2> HIDE DEF q
    <2>5. WindowOK(q)
      BY <2>1, <2>3 DEF WindowOK, ReadA
    <2> QED
      BY <2>4, <2>5, SetKeeps DEF IInv
  <1>3. CASE ~HasRecord(n)
    BY <1>3, LeaveKeeps DEF IInv
  <1> QED
    BY <1>2, <1>3

LEMMA HookReadKeeps ==
    ASSUME IInv, NEW w \in Windows, HookRead(w)
    PROVE  IInv'
  <1> DEFINE n == win[w].cmd.a
  <1>1. n \in Names
    BY WindowFacts DEF IInv, WindowOK, HookRead, Step
  <1>2. WindowsOK'
    BY <1>1, ReadingKeeps DEF HookRead
  <1> QED
    BY <1>2, Frames DEF HookRead, IInv

LEMMA HookWriteKeeps ==
    ASSUME IInv, NEW w \in Windows, HookWrite(w)
    PROVE  IInv'
  <1> DEFINE c == win[w].cmd
             t == win[w].read[c.a]
             x == Stored(c.a, t)
  <1>1. c.a \in Names /\ t \in Task /\ c \in Command
    BY WindowFacts DEF IInv, WindowOK, HookWrite, Step, ReadA
  <1>2. /\ \/ active' = [active EXCEPT ![c.a] = IF @ = None THEN None ELSE x]
              /\ UNCHANGED <<broken, mishaps>>
           \/ Mishap /\ active' = [active EXCEPT ![c.a] = Bare]
              /\ broken' = broken \cup Mark(Handled(win[w]), [c EXCEPT !.op = "sync"])
                                  \cup Astray(c.a, c)
        /\ Leave(w)
        /\ UNCHANGED <<archived, gitVars, sessionVars, ran, made, crossed, adrift, owed>>
    BY DEF HookWrite
  <1>3. x \in Record
    BY <1>1, StoredIsTask DEF IInv, Record
  <1>4. StoreOK'
    <2> HIDE DEF x, c
    <2>1. None \in Record /\ Bare \in Record
      BY DEF Record
    <2> QED
      BY <1>1, <1>2, <1>3, <2>1 DEF IInv, StoreOK
  <1>5. WindowsOK'
    BY <1>2, LeaveKeeps DEF IInv
  <1>6. BoundsOK'
    BY <1>2, MishapKeeps, Frames DEF boundVars
  <1>7. HistoryOK'
    <2>1. [c EXCEPT !.op = "sync"] \in Command
      BY <1>1 DEF Command, Ops
    <2>2. Mark(Handled(win[w]), [c EXCEPT !.op = "sync"]) \subseteq Blame
      BY <2>1, MarksAreBlame DEF IInv
    <2>3. Astray(c.a, c) \subseteq Blame
      BY <1>1, AstrayAreBlame DEF IInv
    <2> QED
      BY <1>2, <2>2, <2>3 DEF IInv, HistoryOK
  <1> QED
    BY <1>2, <1>4, <1>5, <1>6, <1>7, Frames DEF IInv

-----------------------------------------------------------------------------
(* add-subtask and remove-subtask.                                         *)

LEMMA ParentIsTask ==
    ASSUME NEW q \in Window, ReadB(q), q.cmd.a \in Names
    PROVE  ParentRecord(q) \in Task
  <1> DEFINE t == q.read[q.cmd.b]
  <1>1. t \in Task /\ t.kids \in SUBSET Names
    BY UpdatesAreTasks DEF ReadB
  <1>2. t.kids \ {q.cmd.a} \in SUBSET Names /\ t.kids \cup {q.cmd.a} \in SUBSET Names
    BY <1>1
  <1> HIDE DEF t
  <1>3. [t EXCEPT !.kids = @ \ {q.cmd.a}] \in Task /\ [t EXCEPT !.kids = @ \cup {q.cmd.a}] \in Task
    BY <1>1, <1>2, UpdatesAreTasks
  <1> QED
    BY <1>3 DEF ParentRecord, t

LEMMA ChildIsTask ==
    ASSUME NEW q \in Window, ReadA(q)
    PROVE  ChildRecord(q) \in Task
  <1>1. q.cmd.b \in Names \cup {None}
    BY DEF Window, Command
  <1> QED
    BY <1>1, UpdatesAreTasks DEF ReadA, ChildRecord

LEMMA WriteParentKeeps ==
    ASSUME IInv, NEW w \in Windows, WriteParent(w)
    PROVE  IInv'
  <1> DEFINE q == win[w]
  <1>1. q \in Window /\ ReadA(q) /\ ReadB(q) /\ q.cmd.a \in Names /\ q.cmd.b \in Names
    BY WindowFacts DEF IInv, WindowOK, WriteParent, Step, ReadA, ReadB
  <1>2. /\ UNCHANGED taskVars \/ Write(q.cmd.b, ParentRecord(q))
        /\ Go(w, "child")
        /\ UNCHANGED <<gitVars, sessionVars, boundVars, made, crossed, broken, adrift, owed>>
    BY DEF WriteParent
  <1>3. StoreOK'
    BY <1>1, <1>2, ParentIsTask, WriteKeeps, Frames DEF IInv
  <1>4. WindowsOK'
    <2>1. "child" \in Pcs
      BY DEF Pcs
    <2> QED
      BY <1>1, <1>2, <2>1, GoOnKeeps DEF IInv
  <1> QED
    BY <1>2, <1>3, <1>4, Frames DEF IInv

LEMMA SeveredIsBlame ==
    ASSUME StoreOK, NEW q, NEW n, NEW p, NEW c \in Command
    PROVE  Severed(q, n, p, c) \subseteq Blame
  BY MarksAreBlame DEF Severed

LEMMA WriteChildKeeps ==
    ASSUME IInv, NEW w \in Windows, WriteChild(w)
    PROVE  IInv'
  <1> DEFINE q == win[w]
  <1>1. q \in Window /\ ReadA(q) /\ q.cmd.a \in Names /\ q.cmd \in Command
    BY WindowFacts DEF IInv, WindowOK, WriteChild, Step
  <1>2. /\ Write(q.cmd.a, ChildRecord(q))
        /\ Go(w, "activate") \/ Leave(w)
        /\ \/ broken' = broken
           \/ broken' = broken \cup Severed(q, q.cmd.a, q.cmd.b, q.cmd)
        /\ UNCHANGED <<gitVars, sessionVars, boundVars, made, crossed, adrift, owed>>
    BY DEF WriteChild
  <1>3. StoreOK'
    BY <1>1, <1>2, ChildIsTask, WriteKeeps DEF IInv
  <1>4. WindowsOK'
    <2>1. "activate" \in Pcs
      BY DEF Pcs
    <2> QED
      BY <1>1, <1>2, <2>1, GoKeeps, LeaveKeeps DEF IInv
  <1>5. broken' \subseteq Blame
    <2>1. Severed(q, q.cmd.a, q.cmd.b, q.cmd) \subseteq Blame
      BY <1>1, SeveredIsBlame DEF IInv
    <2> QED
      BY <1>2, <2>1 DEF IInv, HistoryOK
  <1>6. HistoryOK'
    BY <1>2, <1>5 DEF IInv, HistoryOK
  <1> QED
    BY <1>2, <1>3, <1>4, <1>6, Frames DEF IInv

\* A step that ends a command and changes nothing else.
LEMMA EndingKeeps ==
    ASSUME IInv, NEW w \in Windows, GiveUp(w),
           UNCHANGED <<gitVars, made, crossed, owed>>,
           StoreOK', PointersOK', BoundsOK', adrift' \subseteq Windows
    PROVE  IInv'
  <1>1. WindowsOK' /\ broken' \subseteq Blame
    BY GiveUpKeeps
  <1>2. HistoryOK'
    BY <1>1 DEF IInv, HistoryOK
  <1> QED
    BY <1>1, <1>2, Frames DEF IInv

LEMMA FailingKeeps ==
    ASSUME IInv, NEW w \in Windows, GiveUp(w),
           UNCHANGED <<taskVars, gitVars, sessionVars, boundVars, made, crossed, adrift, owed>>
    PROVE  IInv'
  BY EndingKeeps, Frames DEF IInv, HistoryOK

-----------------------------------------------------------------------------
(* rename.                                                                 *)

LEMMA RenameOwnKeeps ==
    ASSUME IInv, NEW w \in Windows, RenameOwn(w)
    PROVE  IInv'
  <1> DEFINE q == win[w]
             t == q.read[q.cmd.a]
  <1>1. q \in Window /\ ReadA(q) /\ ReadAll(q) /\ q.cmd.a \in Names /\ q.cmd.b \in Names
    BY WindowFacts DEF IInv, WindowOK, RenameOwn, Step, ReadA, ReadAll
  <1>2. /\ UNCHANGED taskVars \/ Write(q.cmd.a, [t EXCEPT !.name = q.cmd.b])
        /\ Go(w, "jsonl")
        /\ UNCHANGED <<gitVars, sessionVars, boundVars, made, crossed, broken, adrift, owed>>
    BY DEF RenameOwn
  <1>3. [t EXCEPT !.name = q.cmd.b] \in Task
    BY <1>1, UpdatesAreTasks DEF ReadA
  <1>4. StoreOK'
    <2> HIDE DEF t
    <2> QED
      BY <1>1, <1>2, <1>3, WriteKeeps, Frames DEF IInv
  <1>5. WindowsOK'
    <2>1. "jsonl" \in Pcs
      BY DEF Pcs
    <2> QED
      BY <1>1, <1>2, <2>1, GoOnKeeps DEF IInv
  <1> QED
    BY <1>2, <1>4, <1>5, Frames DEF IInv

\* The manifest of a record is another file than the record.
LEMMA ManifestKeeps ==
    ASSUME IInv, NEW o, HasRecord(o), NEW m \in Names \cup {None},
           active' = [active EXCEPT ![o].manifest = m], archived' = archived
    PROVE  StoreOK'
  <1> DEFINE t == [active[o] EXCEPT !.manifest = m]
  <1>1. o \in Names /\ active[o] \in Task
    BY RecordIs DEF IInv
  <1>2. t \in Record
    BY <1>1, UpdatesAreTasks DEF Record
  <1>3. active' = [active EXCEPT ![o] = t]
    OBVIOUS
  <1> HIDE DEF t
  <1> QED
    BY <1>1, <1>2, <1>3 DEF IInv, StoreOK

LEMMA RenameManifestKeeps ==
    ASSUME IInv, NEW w \in Windows, RenameManifest(w)
    PROVE  IInv'
  <1> DEFINE q == win[w]
             o == q.cmd.a
  <1>1. q \in Window /\ ReadAll(q) /\ o \in Names /\ q.cmd.b \in Names
    BY WindowFacts DEF IInv, WindowOK, RenameManifest, Step, ReadAll
  <1>2. /\ \/ /\ HasRecord(o)
              /\ active' = [active EXCEPT ![o].manifest = q.cmd.b]
              /\ archived' = archived
           \/ UNCHANGED taskVars
        /\ Go(w, "backrefs")
        /\ UNCHANGED <<gitVars, sessionVars, boundVars, made, crossed, broken, adrift, owed>>
    BY DEF RenameManifest
  <1>3. StoreOK'
    <2> HIDE DEF q, o
    <2> QED
      BY <1>1, <1>2, ManifestKeeps, Frames
  <1>4. WindowsOK'
    <2>1. "backrefs" \in Pcs
      BY DEF Pcs
    <2> QED
      BY <1>1, <1>2, <2>1, GoOnKeeps DEF IInv
  <1> QED
    BY <1>2, <1>3, <1>4, Frames DEF IInv

LEMMA RenameTornKeeps ==
    ASSUME IInv, NEW w \in Windows, RenameTorn(w)
    PROVE  IInv'
  <1> DEFINE o == win[w].cmd.a
  <1>1. /\ HasRecord(o) /\ active' = [active EXCEPT ![o].manifest = None]
        /\ Mishap /\ GiveUp(w)
        /\ UNCHANGED <<archived, gitVars, sessionVars, ran, made, crossed, adrift, owed>>
    BY DEF RenameTorn
  <1>2. StoreOK'
    <2> HIDE DEF o
    <2> QED
      BY <1>1, ManifestKeeps
  <1>3. BoundsOK'
    BY <1>1, MishapKeeps
  <1> QED
    BY <1>1, <1>2, <1>3, EndingKeeps, Frames DEF IInv, HistoryOK

LEMMA RenameBackrefKeeps ==
    ASSUME IInv, NEW w \in Windows, RenameBackref(w)
    PROVE  IInv'
  <1> DEFINE q == win[w]
  <1>1. /\ q \in Window /\ ReadAll(q) /\ q.cmd.a \in Names /\ q.cmd.b \in Names
        /\ q.todo \in SUBSET Names /\ q.pc = "backrefs" /\ win \in [Windows -> Window]
    BY WindowFacts DEF IInv, WindowOK, RenameBackref, Step, ReadAll, Window
  <1>2. PICK n \in q.todo : /\ Write(n, Renamed(q.read[n], q.cmd.a, q.cmd.b))
                            /\ win' = [win EXCEPT ![w].todo = @ \ {n}]
    BY DEF RenameBackref
  <1>3. n \in Names /\ Renamed(q.read[n], q.cmd.a, q.cmd.b) \in Task
    BY <1>1, RenamedIsTask DEF ReadAll
  <1>4. StoreOK'
    BY <1>2, <1>3, WriteKeeps DEF IInv
  <1>5. WindowsOK'
    <2> DEFINE r == Drops(q, n)
    <2>1. r \in Window /\ r.pc = "backrefs" /\ r.cmd = q.cmd /\ r.read = q.read
          /\ r.todo = q.todo \ {n}
      BY <1>1, DropsIs
    <2>2. win' = [win EXCEPT ![w] = r]
      BY <1>1, <1>2 DEF Drops
    <2> HIDE DEF r
    <2>3. WindowOK(r)
      BY <1>1, <2>1 DEF WindowOK, ReadAll
    <2> QED
      BY <2>2, <2>3, SetKeeps DEF IInv
  <1> QED
    BY <1>4, <1>5, Frames DEF RenameBackref, IInv

LEMMA RenameMoveKeeps ==
    ASSUME IInv, NEW w \in Windows, RenameMove(w)
    PROVE  IInv'
  <1> DEFINE q == win[w]
  <1>1. q \in Window /\ ReadAll(q) /\ q.cmd.a \in Names /\ q.cmd.b \in Names
    BY WindowFacts DEF IInv, WindowOK, RenameMove, MayMove, ReadAll
  <1>2. /\ active' = [active EXCEPT ![q.cmd.a] = None, ![q.cmd.b] = active[q.cmd.a]]
        /\ Go(w, "sessions")
        /\ UNCHANGED <<archived, gitVars, sessionVars, boundVars, made, crossed,
                       adrift, owed>>
    BY DEF RenameMove
  <1>3. StoreOK'
    BY <1>1, <1>2 DEF IInv, StoreOK, Record
  <1>4. WindowsOK'
    <2>1. "sessions" \in Pcs
      BY DEF Pcs
    <2> QED
      BY <1>1, <1>2, <2>1, GoOnKeeps DEF IInv
  <1>5. HistoryOK'
    <2> DEFINE c == [q.cmd EXCEPT !.op = "unlink"]
    <2>1. c \in Command
      BY <1>1 DEF Window, Command, Ops
    <2> DEFINE M == {m \in {q.cmd.a} : HasRecord(q.cmd.a) /\ Mentions(q.cmd.a, q.cmd.a)}
    <2>2. broken' \subseteq broken \cup Mark(M, c) \cup Astray(q.cmd.b, q.cmd)
      BY DEF RenameMove
    <2>3. q.cmd \in Command
      BY <1>1 DEF Window
    <2> HIDE DEF c, q, M
    <2>4. Mark(M, c) \subseteq Blame /\ Astray(q.cmd.b, q.cmd) \subseteq Blame
      BY <2>1, <2>3, MarksAreBlame, AstrayAreBlame DEF IInv
    <2> QED
      BY <1>2, <2>2, <2>4 DEF IInv, HistoryOK
  <1> QED
    BY <1>2, <1>3, <1>4, <1>5, Frames DEF IInv

LEMMA RenameSessionsKeeps ==
    ASSUME IInv, NEW w \in Windows, RenameSessions(w)
    PROVE  IInv'
  <1> DEFINE c == win[w].cmd
  <1>1. c.a \in Names /\ c.b \in Names
    BY WindowFacts DEF IInv, WindowOK, RenameSessions, Step, ReadAll
  <1>2. PICK kept \in SUBSET Windows :
               /\ UNCHANGED mishaps \/ Mishap
               /\ S!RepointTask(c.a, c.b, kept)
               /\ \/ adrift' = adrift \cup kept
                  \/ adrift' = adrift \cup {k \in Windows : ptr[k] = c.a}
    BY DEF RenameSessions
  <1>3. PointersOK'
    BY <1>1, <1>2 DEF S!RepointTask, IInv, PointersOK
  <1>4. WindowsOK' /\ broken' \subseteq Blame
    <2>1. CASE Complete(w)
      BY <2>1, CompleteKeeps
    <2>2. CASE Leave(w) /\ broken' = broken
      BY <2>2, LeaveKeeps DEF IInv, HistoryOK
    <2> QED
      BY <2>1, <2>2 DEF RenameSessions
  <1>5. BoundsOK'
    BY <1>2, MishapKeeps, Frames DEF RenameSessions, boundVars
  <1>6. HistoryOK'
    BY <1>2, <1>4 DEF RenameSessions, IInv, HistoryOK
  <1> QED
    BY <1>3, <1>4, <1>5, <1>6, Frames DEF RenameSessions, IInv

-----------------------------------------------------------------------------
(* archive and its commit.                                                 *)

LEMMA ArchiveOwnKeeps ==
    ASSUME IInv, NEW w \in Windows, ArchiveOwn(w)
    PROVE  IInv'
  <1> DEFINE q == win[w]
             t == q.read[q.cmd.a]
  <1>1. ReadA(q) /\ q.cmd.a \in Names
    BY WindowFacts DEF IInv, WindowOK, ArchiveOwn, Step, ReadA
  <1>2. [t EXCEPT !.status = "completed"] \in Task
    BY <1>1, UpdatesAreTasks DEF ReadA
  <1>3. StoreOK'
    <2>1. Write(q.cmd.a, [t EXCEPT !.status = "completed"])
      BY DEF ArchiveOwn
    <2> HIDE DEF t
    <2> QED
      BY <1>1, <1>2, <2>1, WriteKeeps DEF IInv
  <1>4. WindowsOK'
    <2> DEFINE p == Reads(q, "kids", q.cmd.a, None)
    <2>1. win' = [win EXCEPT ![w] = p]
      BY DEF ArchiveOwn, Reads
    <2>2. "kids" \in Pcs
      BY DEF Pcs
    <2>3. p \in Window /\ p.pc = "kids" /\ p.cmd = q.cmd
      BY <1>1, <2>2, WindowFacts, ForgetsIs DEF IInv
    <2> HIDE DEF p
    <2>4. WindowOK(p)
      BY <1>1, <2>3 DEF WindowOK
    <2> QED
      BY <2>1, <2>3, <2>4, WindowFacts DEF IInv, WindowsOK
  <1> QED
    BY <1>3, <1>4, Frames DEF IInv, ArchiveOwn

LEMMA ArchiveReadKidKeeps ==
    ASSUME IInv, NEW w \in Windows, ArchiveReadKid(w)
    PROVE  IInv'
  <1>1. win[w] \in Window /\ win \in [Windows -> Window] /\ win[w].cmd.a \in Names
    BY WindowFacts DEF IInv, WindowOK, ArchiveReadKid, Step
  <1>2. PICK n \in KidsLeft(win[w]) :
               win' = [win EXCEPT ![w].pc = "kid", ![w].read[n] = active[n]]
    BY DEF ArchiveReadKid
  <1>3. n \in Names /\ active[n] \in Task
    BY RecordIs DEF KidsLeft, IInv
  <1> DEFINE q == Reads(win[w], "kid", n, active[n])
  <1>4. "kid" \in Pcs
    BY DEF Pcs
  <1>5. q \in Window /\ q.pc = "kid" /\ q.cmd = win[w].cmd
    BY <1>1, <1>3, <1>4, ReadsIs
  <1>6. win' = [win EXCEPT ![w] = q]
    BY <1>1, <1>2 DEF Reads
  <1> HIDE DEF q
  <1>7. WindowOK(q)
    BY <1>1, <1>5 DEF WindowOK
  <1>8. WindowsOK'
    BY <1>6, <1>7, SetKeeps DEF IInv
  <1> QED
    BY <1>8, Frames DEF ArchiveReadKid, IInv

LEMMA ArchiveUnlinkKeeps ==
    ASSUME IInv, NEW w \in Windows, ArchiveUnlink(w)
    PROVE  IInv'
  <1> DEFINE q == win[w]
  <1>1. /\ q \in Window /\ win \in [Windows -> Window] /\ q.cmd.a \in Names
        /\ q.todo \in SUBSET Names /\ q.read \in [Names -> Task \cup {None}]
    BY WindowFacts DEF IInv, WindowOK, ArchiveUnlink, Step, Window
  <1>2. PICK n \in q.todo :
               /\ q.read[n] # None
               /\ Write(n, [q.read[n] EXCEPT !.parent = None])
               /\ win' = [win EXCEPT ![w].pc = "kids", ![w].todo = @ \ {n}]
               /\ broken' = broken \cup
                      Severed(q, n, q.cmd.a, [q.cmd EXCEPT !.op = "unlink"])
    BY DEF ArchiveUnlink
  <1>3. n \in Names /\ [q.read[n] EXCEPT !.parent = None] \in Task
    BY <1>1, <1>2, UpdatesAreTasks
  <1>4. StoreOK'
    BY <1>2, <1>3, WriteKeeps DEF IInv
  <1>5. WindowsOK'
    <2> DEFINE p == At2(q, "kids")
               r == Drops(p, n)
    <2>1. "kids" \in Pcs
      BY DEF Pcs
    <2>2. p \in Window /\ p.pc = "kids" /\ p.cmd = q.cmd
      BY <1>1, <2>1, MovedIs
    <2>3. win' = [win EXCEPT ![w] = r]
      BY <1>1, <1>2 DEF Drops, At2
    <2> HIDE DEF p
    <2>4. r \in Window /\ r.pc = "kids" /\ r.cmd = q.cmd
      BY <2>2, DropsIs
    <2> HIDE DEF r
    <2>5. WindowOK(r)
      BY <1>1, <2>4 DEF WindowOK
    <2> QED
      BY <2>3, <2>5, SetKeeps DEF IInv
  <1>6. HistoryOK'
    <2>1. [q.cmd EXCEPT !.op = "unlink"] \in Command
      BY <1>1 DEF Window, Command, Ops
    <2>2. broken' \subseteq Blame
      BY <1>2, <2>1, SeveredIsBlame DEF IInv, HistoryOK
    <2> QED
      BY <2>2 DEF ArchiveUnlink, IInv, HistoryOK
  <1> QED
    BY <1>4, <1>5, <1>6, Frames DEF ArchiveUnlink, IInv

LEMMA ArchiveSessionsKeeps ==
    ASSUME IInv, NEW w \in Windows, ArchiveSessions(w)
    PROVE  IInv'
  <1> DEFINE n == win[w].cmd.a
  <1>1. n \in Names
    BY WindowFacts DEF IInv, WindowOK, ArchiveSessions, Step
  <1>2. PICK kept \in SUBSET Windows :
               /\ UNCHANGED mishaps \/ Mishap
               /\ S!ClearTask(n, kept)
               /\ adrift' = adrift \cup kept
    BY DEF ArchiveSessions
  <1>3. PointersOK'
    BY <1>2 DEF S!ClearTask, IInv, PointersOK
  <1>4. WindowsOK'
    <2>1. "shelve" \in Pcs
      BY DEF Pcs
    <2> QED
      BY <1>1, <2>1, GoKeeps DEF IInv, ArchiveSessions
  <1>5. BoundsOK'
    BY <1>2, MishapKeeps, Frames DEF ArchiveSessions, boundVars
  <1>6. HistoryOK'
    BY <1>2 DEF ArchiveSessions, IInv, HistoryOK
  <1> QED
    BY <1>3, <1>4, <1>5, <1>6, Frames DEF ArchiveSessions, IInv

LEMMA ArchiveMoveKeeps ==
    ASSUME IInv, NEW w \in Windows, ArchiveMove(w)
    PROVE  IInv'
  <1> DEFINE c == win[w].cmd
  <1>1. c.a \in Names
    BY WindowFacts DEF IInv, WindowOK, ArchiveMove, Step
  <1>2. /\ active' = [active EXCEPT ![c.a] = None]
        /\ archived' = [archived EXCEPT ![c.a] = active[c.a]]
        /\ owed' = owed \cup {c.a}
        /\ (Go(w, "add") /\ UNCHANGED broken) \/ Complete(w)
        /\ UNCHANGED <<gitVars, sessionVars, boundVars, made, crossed, adrift>>
    BY DEF ArchiveMove
  <1>3. StoreOK'
    BY <1>1, <1>2 DEF IInv, StoreOK, Record
  <1>4. WindowsOK' /\ broken' \subseteq Blame
    <2>1. "add" \in Pcs
      BY DEF Pcs
    <2> QED
      BY <1>1, <1>2, <2>1, GoKeeps, CompleteKeeps DEF IInv, HistoryOK
  <1>5. HistoryOK'
    BY <1>1, <1>2, <1>4 DEF IInv, HistoryOK
  <1> QED
    BY <1>2, <1>3, <1>4, <1>5, Frames DEF IInv

LEMMA CommitAddKeeps ==
    ASSUME IInv, NEW w \in Windows, CommitAdd(w)
    PROVE  IInv'
  <1> DEFINE kids == ChangedKids(win[w])
  <1>1. kids \subseteq Names /\ OnShelf \subseteq Names /\ win[w].cmd.a \in Names
    BY WindowFacts DEF IInv, WindowOK, CommitAdd, Step, ChangedKids, OnShelf
  <1>2. /\ \/ /\ index' = [act |-> index.act \cup kids, arc |-> index.arc \cup OnShelf]
              /\ Go(w, "rm")
           \/ Leave(w) /\ UNCHANGED index
        /\ UNCHANGED <<taskVars, head, sessionVars, boundVars, made, crossed,
                       broken, adrift, owed>>
    BY DEF CommitAdd
  <1>3. GitOK'
    <2> HIDE DEF kids
    <2> QED
      BY <1>1, <1>2 DEF IInv, GitOK
  <1>4. WindowsOK'
    <2>1. "rm" \in Pcs
      BY DEF Pcs
    <2> QED
      BY <1>1, <1>2, <2>1, GoKeeps, LeaveKeeps DEF IInv
  <1> QED
    BY <1>2, <1>3, <1>4, Frames DEF IInv

LEMMA CommitRmKeeps ==
    ASSUME IInv, NEW w \in Windows, CommitRm(w)
    PROVE  IInv'
  <1>1. win[w].cmd.a \in Names
    BY WindowFacts DEF IInv, WindowOK, CommitRm, Step
  <1>2. GitOK'
    BY DEF IInv, GitOK, CommitRm
  <1>3. WindowsOK'
    <2>1. "commit" \in Pcs
      BY DEF Pcs
    <2> QED
      BY <1>1, <2>1, GoKeeps DEF IInv, CommitRm
  <1> QED
    BY <1>2, <1>3, Frames DEF IInv, CommitRm

LEMMA CommitArchiveKeeps ==
    ASSUME IInv, NEW w \in Windows, CommitArchive(w)
    PROVE  IInv'
  <1> DEFINE q == win[w]
  <1>1. /\ \/ head' = CommittedArchive(q) /\ owed' = owed \ {q.cmd.a}
           \/ UNCHANGED <<head, owed>>
        /\ Complete(w)
        /\ UNCHANGED <<taskVars, index, sessionVars, boundVars, made, crossed, adrift>>
    BY DEF CommitArchive
  <1>2. CommittedArchive(q) \in [act : SUBSET Names, arc : SUBSET Names]
    BY DEF CommittedArchive, IInv, GitOK
  <1>3. GitOK'
    BY <1>1, <1>2 DEF IInv, GitOK
  <1>4. WindowsOK' /\ broken' \subseteq Blame
    BY <1>1, CompleteKeeps
  <1>5. HistoryOK'
    BY <1>1, <1>4 DEF IInv, HistoryOK
  <1> QED
    BY <1>1, <1>3, <1>4, <1>5, Frames DEF IInv

-----------------------------------------------------------------------------
(* start, finish and the set- commands.                                    *)

LEMMA StartGateKeeps ==
    ASSUME IInv, NEW w \in Windows, StartGate(w)
    PROVE  IInv'
  <1>1. win[w].cmd.a \in Names
    BY WindowFacts DEF IInv, WindowOK, StartGate, Step
  <1>2. Go(w, "load") \/ Go(w, "point") \/ Leave(w)
    BY DEF StartGate
  <1>3. WindowsOK'
    <2>1. "load" \in Pcs /\ "point" \in Pcs
      BY DEF Pcs
    <2> QED
      BY <1>1, <1>2, <2>1, GoKeeps, LeaveKeeps DEF IInv
  <1> QED
    BY <1>3, Frames DEF IInv, StartGate

LEMMA StartPointKeeps ==
    ASSUME IInv, NEW w \in Windows, StartPoint(w)
    PROVE  IInv'
  <1>1. win[w].cmd.a \in Names
    BY WindowFacts DEF IInv, WindowOK, StartPoint, Step
  <1>2. /\ \/ (\E k, n : Points(k, n)) /\ Go(w, "load")
           \/ Leave(w) /\ UNCHANGED <<sessionVars, adrift>>
        /\ UNCHANGED <<taskVars, gitVars, boundVars, made, crossed, broken, owed>>
    BY DEF StartPoint
  <1>3. PointersOK' /\ adrift' \subseteq Windows
    BY <1>2, PointsKeeps, Frames DEF IInv, HistoryOK
  <1>4. WindowsOK'
    <2>1. "load" \in Pcs
      BY DEF Pcs
    <2> QED
      BY <1>1, <1>2, <2>1, GoKeeps, LeaveKeeps DEF IInv
  <1>5. HistoryOK'
    BY <1>2, <1>3 DEF IInv, HistoryOK
  <1> QED
    BY <1>2, <1>3, <1>4, <1>5, Frames DEF IInv

LEMMA ReadOwnKeeps ==
    ASSUME IInv, NEW w \in Windows, ReadOwn(w)
    PROVE  IInv'
  <1> DEFINE n == win[w].cmd.a
  <1>1. n \in Names
    BY WindowFacts DEF IInv, WindowOK, ReadOwn, Step
  <1>2. WindowsOK'
    BY <1>1, ReadingKeeps DEF ReadOwn
  <1> QED
    BY <1>2, Frames DEF ReadOwn, IInv

LEMMA StartFlipKeeps ==
    ASSUME IInv, NEW w \in Windows, StartFlip(w)
    PROVE  IInv'
  <1> DEFINE n == win[w].cmd.a
             t == win[w].read[n]
  <1>1. n \in Names /\ t \in Task
    BY WindowFacts DEF IInv, WindowOK, StartFlip, Step, ReadA
  <1>2. PICK b \in Branches : UNCHANGED taskVars \/ Write(n, Started(t, b))
    BY DEF StartFlip
  <1>3. StoreOK'
    BY <1>1, <1>2, StartedIsTask, WriteKeeps, Frames DEF IInv
  <1>4. WindowsOK'
    BY LeaveKeeps DEF IInv, StartFlip
  <1> QED
    BY <1>3, <1>4, Frames DEF IInv, StartFlip

LEMMA FinishClearKeeps ==
    ASSUME IInv, NEW w \in Windows, FinishClear(w)
    PROVE  IInv'
  <1>1. /\ \/ /\ \E k : S!ClearActive(k)
              /\ \E x : adrift' = adrift \ {x}
           \/ UNCHANGED <<sessionVars, adrift>>
        /\ Leave(w)
        /\ UNCHANGED <<taskVars, gitVars, boundVars, made, crossed, broken, owed>>
    BY DEF FinishClear
  <1>2. PointersOK'
    <2>1. ASSUME NEW k, S!ClearActive(k)
          PROVE  PointersOK'
      <3>1. PICK x : ptr' = [ptr EXCEPT ![x] = None] /\ tickets' = tickets
        BY <2>1 DEF S!ClearActive
      <3> QED
        BY <3>1 DEF IInv, PointersOK
    <2> QED
      BY <1>1, <2>1, Frames
  <1>3. adrift' \subseteq Windows
    BY <1>1 DEF IInv, HistoryOK
  <1>4. WindowsOK'
    BY <1>1, LeaveKeeps DEF IInv
  <1>5. HistoryOK'
    BY <1>1, <1>3 DEF IInv, HistoryOK
  <1> QED
    BY <1>1, <1>2, <1>4, <1>5, Frames DEF IInv

LEMMA FieldIsTask ==
    ASSUME NEW q \in Window, ReadA(q)
    PROVE  WithField(q) \in Task
  <1>1. q.read[q.cmd.a] \in Task /\ q.read[q.cmd.a].base \in Branches
    BY UpdatesAreTasks DEF ReadA
  <1>2. "feature" \in Branches
    BY DEF Branches
  <1>3. WithBase(q) \in Task /\ WithBase(q).branch \in Branches \cup {None}
    BY <1>1, <1>2, UpdatesAreTasks DEF WithBase
  <1> QED
    BY <1>2, <1>3, UpdatesAreTasks DEF WithField

LEMMA FieldWriteKeeps ==
    ASSUME IInv, NEW w \in Windows, FieldWrite(w)
    PROVE  IInv'
  <1> DEFINE q == win[w]
  <1>1. q \in Window /\ ReadA(q) /\ q.cmd.a \in Names
    BY WindowFacts DEF IInv, WindowOK, FieldWrite, Step
  <1>2. StoreOK'
    BY <1>1, FieldIsTask, WriteKeeps DEF IInv, FieldWrite
  <1>3. WindowsOK'
    BY LeaveKeeps DEF IInv, FieldWrite
  <1> QED
    BY <1>2, <1>3, Frames DEF IInv, FieldWrite

LEMMA StopKeeps ==
    ASSUME IInv, NEW w \in Windows, Stop(w)
    PROVE  IInv'
  <1>1. adrift' \subseteq Windows
    BY DEF Stop, IInv, HistoryOK
  <1>2. BoundsOK'
    BY MishapKeeps DEF Stop
  <1> QED
    BY <1>1, <1>2, EndingKeeps, Frames DEF Stop

LEMMA ExpireKeeps ==
    ASSUME IInv, Expire
    PROVE  IInv'
  <1>1. PointersOK'
    BY DEF Expire, S!ExpireTicket, IInv, PointersOK
  <1> QED
    BY <1>1, Frames DEF Expire, IInv

-----------------------------------------------------------------------------
(* All steps.                                                              *)

LEMMA CalledKeeps ==
    ASSUME IInv, NEW w \in Windows, NEW c \in Menu[w], Called(w, c)
    PROVE  IInv'
  <1>1. WellFormed(c) /\ ran < MaxCommands
    BY MenuAssumption DEF MenuAssumption, Called
  <1> QED
    BY <1>1, CreateDirKeeps, LinkReadKeeps, RenamePlanKeeps, ArchiveReadKeeps,
       RecordSessionKeeps, StartCalledKeeps, FinishCalledKeeps, FieldReadKeeps,
       CurateKeeps DEF Called

LEMMA ContinueKeeps ==
    ASSUME IInv, NEW w \in Windows, Continue(w)
    PROVE  IInv'
  <1>1. CASE CreateRecord(w) \/ CreateFails(w) \/ CreateActivate(w)
             \/ HookRead(w) \/ HookWrite(w)
    BY <1>1, CreateRecordKeeps, CreateFailsKeeps, CreateActivateKeeps, HookReadKeeps,
       HookWriteKeeps
  <1>2. CASE WriteParent(w) \/ WriteChild(w) \/ WriteFails(w)
    <2>1. WriteFails(w) => IInv'
      BY FailingKeeps DEF WriteFails
    <2> QED
      BY <1>2, <2>1, WriteParentKeeps, WriteChildKeeps
  <1>3. CASE RenameOwn(w) \/ RenameManifest(w) \/ RenameTorn(w) \/ RenameBackref(w)
             \/ RenameMove(w) \/ RenameBlocked(w) \/ RenameSessions(w)
    <2>1. RenameBlocked(w) => IInv'
      BY FailingKeeps DEF RenameBlocked
    <2> QED
      BY <1>3, <2>1, RenameOwnKeeps, RenameManifestKeeps, RenameTornKeeps,
         RenameBackrefKeeps, RenameMoveKeeps, RenameSessionsKeeps
  <1>4. CASE ArchiveOwn(w) \/ ArchiveReadKid(w) \/ ArchiveUnlink(w)
             \/ ArchiveSessions(w) \/ ArchiveMove(w) \/ ArchiveBlocked(w)
    <2>1. ArchiveBlocked(w) => IInv'
      BY FailingKeeps DEF ArchiveBlocked
    <2> QED
      BY <1>4, <2>1, ArchiveOwnKeeps, ArchiveReadKidKeeps, ArchiveUnlinkKeeps,
         ArchiveSessionsKeeps, ArchiveMoveKeeps
  <1>5. CASE CommitAdd(w) \/ CommitRm(w) \/ CommitArchive(w)
    BY <1>5, CommitAddKeeps, CommitRmKeeps, CommitArchiveKeeps
  <1>6. CASE StartGate(w) \/ StartPoint(w) \/ ReadOwn(w) \/ StartFlip(w)
             \/ FinishClear(w) \/ FieldWrite(w) \/ Stop(w)
    BY <1>6, StartGateKeeps, StartPointKeeps, ReadOwnKeeps, StartFlipKeeps,
       FinishClearKeeps, FieldWriteKeeps, StopKeeps
  <1> QED
    BY <1>1, <1>2, <1>3, <1>4, <1>5, <1>6 DEF Continue

LEMMA InitKeeps == Init => IInv
  <1> SUFFICES ASSUME Init
               PROVE  IInv
    OBVIOUS
  <1> USE TasksAssumption DEF TasksAssumption
  <1>1. StoreOK
    BY DEF Init, StoreOK, Record
  <1>2. GitOK
    BY DEF Init, GitOK, Records
  <1>3. PointersOK
    BY DEF Init, PointersOK
  <1>4. WindowsOK
    <2>1. WindowOK(Idle) /\ Idle \in Window
      BY IdleOK DEF WindowOK
    <2> QED
      BY <2>1 DEF Init, WindowsOK
  <1>5. BoundsOK
    BY DEF Init, BoundsOK
  <1>6. HistoryOK
    <2>1. IdsAt(Names) \in SUBSET Ids
      BY <1>1, IdsAreIds
    <2>2. IsFiniteSet(IdsAt(Names))
      <3>1. IsFiniteSet({m \in Names : HasRecord(m)})
        BY FS_Subset
      <3> DEFINE N == {m \in Names : HasRecord(m)}
                 f == [n \in N |-> active[n].id]
      <3>2. f \in Surjection(N, IdsAt(Names))
        BY DEF Surjection, IdsAt
      <3> QED
        BY <3>1, <3>2, FS_Surjection
    <2> QED
      BY <2>1, <2>2 DEF Init, HistoryOK
  <1> QED
    BY <1>1, <1>2, <1>3, <1>4, <1>5, <1>6 DEF IInv

LEMMA NextKeeps == IInv /\ [Next]_vars => IInv'
  <1> SUFFICES ASSUME IInv, [Next]_vars
               PROVE  IInv'
    OBVIOUS
  <1>1. CASE UNCHANGED vars
    BY <1>1, Frames DEF IInv, vars, taskVars, gitVars, sessionVars, boundVars
  <1>2. CASE Next
    BY <1>2, CalledKeeps, ContinueKeeps, ExpireKeeps DEF Next
  <1> QED
    BY <1>1, <1>2

LEMMA IInvTypes == IInv => TypeOK
  BY DEF IInv, TypeOK, StoreOK, Record, GitOK, PointersOK, WindowsOK, Window, BoundsOK,
         HistoryOK, Blame

(* No command ever writes anything but a whole record, whatever the        *)
(* commands of the other windows wrote in between and wherever it is cut   *)
(* off, except for a hook that leaves the file unreadable (Bare).          *)
THEOREM TypeCorrect == Spec => []TypeOK
  <1> QED
    BY InitKeeps, NextKeeps, IInvTypes, PTL DEF Spec

-----------------------------------------------------------------------------
(* Whose pointer a command may change.                                     *)

\* A command that goes on or ends is seen to.
LEMMA GoShows ==
    ASSUME WindowsOK, NEW w \in Windows, NEW pc \in Pcs, Go(w, pc), win[w].pc # pc
    PROVE  win'[w] # win[w]
  <1>1. win[w] \in Window /\ win \in [Windows -> Window]
    BY WindowFacts
  <1>2. At2(win[w], pc).pc = pc
    BY <1>1, MovedIs
  <1>3. win'[w] = At2(win[w], pc)
    BY <1>1, GoIs
  <1> QED
    BY <1>2, <1>3

LEMMA LeaveShows ==
    ASSUME WindowsOK, NEW w \in Windows, Leave(w), win[w].pc # "idle"
    PROVE  win'[w] # win[w]
  <1>1. win'[w] = Idle
    BY WindowFacts DEF Leave
  <1> QED
    BY <1>1 DEF Idle

\* A window that is given the key of another one had no identity.
LEMMA KeyIs ==
    ASSUME NEW w \in Windows, NEW c, NEW r, S!ContextKey(w, c, r) \in Windows
    PROVE  S!ContextKey(w, c, r) = w \/ Mistaken(w, c, r)
  <1>1. CASE w \in Native
    BY <1>1 DEF S!ContextKey, S!EnvKey
  <1>2. CASE w \notin Native /\ S!Ticket(w, c, r) \in tickets
    <2>1. w \in S!Candidates(c, r)
      <3> DEFINE t == S!Ticket(w, c, r)
      <3>1. t \in {u \in tickets : S!TicketMatches(u, c, r)} /\ t.key = w
        BY <1>2 DEF S!Ticket, S!TicketMatches
      <3> HIDE DEF t
      <3> QED
        BY <3>1 DEF S!Candidates
    <2>2. S!ContextKey(w, c, r) = S!TicketKey(c, r)
      BY <1>2 DEF S!ContextKey
    <2>3. \E k \in Windows : S!Candidates(c, r) = {k}
      BY <2>2, TasksAssumption DEF TasksAssumption, S!TicketKey
    <2>4. S!Candidates(c, r) = {w}
      BY <2>1, <2>3
    <2>5. S!TicketKey(c, r) = w
      BY <2>4 DEF S!TicketKey
    <2> QED
      BY <2>2, <2>5
  <1>3. CASE w \notin Native /\ S!Ticket(w, c, r) \notin tickets
    BY <1>3 DEF Mistaken
  <1> QED
    BY <1>1, <1>2, <1>3

LEMMA SetTouches ==
    ASSUME IInv, NEW x, NEW n, S!SetActive(x, n), NEW k \in Windows, ptr'[k] # ptr[k]
    PROVE  x \in Windows /\ k = x
  BY DEF IInv, PointersOK, S!SetActive

LEMMA ActivateTouches ==
    ASSUME IInv, NEW w \in Windows, CreateActivate(w), NEW k \in Windows, ptr'[k] # ptr[k]
    PROVE  win'[w] # win[w] /\ MayTouch(w, k)
  <1>1. win[w].pc = "activate"
    BY DEF CreateActivate, Step
  <1>2. S!SetActive(S!EnvKey(w), win[w].cmd.a)
    BY DEF CreateActivate, Points, sessionVars
  <1>3. S!EnvKey(w) \in Windows /\ k = S!EnvKey(w)
    BY <1>2, SetTouches
  <1>4. k = w
    BY <1>3, TasksAssumption DEF TasksAssumption, S!EnvKey
  <1>5. win'[w] # win[w]
    <2>1. "hook" \in Pcs
      BY DEF Pcs
    <2> QED
      BY <1>1, <2>1, GoShows, LeaveShows DEF CreateActivate, IInv
  <1> QED
    BY <1>1, <1>4, <1>5 DEF MayTouch

LEMMA PointTouches ==
    ASSUME IInv, NEW w \in Windows, StartPoint(w), NEW k \in Windows, ptr'[k] # ptr[k]
    PROVE  win'[w] # win[w] /\ MayTouch(w, k)
  <1> DEFINE n == win[w].cmd.a
             x == S!ContextKey(w, "start", n)
  <1>1. win[w].pc = "point"
    BY DEF StartPoint, Step
  <1>2. S!SetActive(x, n) /\ Go(w, "load")
    BY DEF StartPoint, Points, sessionVars
  <1>3. x \in Windows /\ k = x
    BY <1>2, SetTouches
  <1>4. k = w \/ Mistaken(w, "start", n)
    BY <1>3, KeyIs
  <1>5. win'[w] # win[w]
    <2>1. "load" \in Pcs
      BY DEF Pcs
    <2> QED
      BY <1>1, <1>2, <2>1, GoShows DEF IInv
  <1> QED
    BY <1>1, <1>4, <1>5 DEF MayTouch

\* What finish resolves is the window's own task or the only one there is.
LEMMA ResolvedIs ==
    ASSUME NEW x \in Windows, S!ResolveActive(x, TRUE).task # None
    PROVE  \/ S!ResolveActive(x, TRUE).key = x
           \/ ptr[x] = None /\ S!SessionFiles = {S!ResolveActive(x, TRUE).key}
  <1>1. CASE x \in S!SessionFiles
    BY <1>1 DEF S!ResolveActive, S!Active
  <1>2. CASE x \notin S!SessionFiles
    <2>1. S!ResolveActive(x, TRUE) = S!SingleSession /\ ptr[x] = None
      BY <1>2 DEF S!ResolveActive, S!SessionFiles
    <2>2. \E y \in Windows : S!SessionFiles = {y}
      <3> SUFFICES ASSUME ~\E y \in Windows : S!SessionFiles = {y}
                   PROVE  FALSE
        OBVIOUS
      <3>1. S!SingleSession = S!NoTask
        BY Zenon DEF S!SingleSession
      <3>2. S!NoTask.task = None
        BY DEF S!NoTask
      <3> QED
        BY <2>1, <3>1, <3>2
    <2> DEFINE y == CHOOSE z \in Windows : S!SessionFiles = {z}
    <2>3. S!SessionFiles = {y}
      BY <2>2
    <2>4. S!SingleSession.key = y
      BY <2>2 DEF S!SingleSession, S!Active
    <2> QED
      BY <2>1, <2>3, <2>4
  <1> QED
    BY <1>1, <1>2

LEMMA ClearTouches ==
    ASSUME IInv, NEW w \in Windows, FinishClear(w), NEW k \in Windows, ptr'[k] # ptr[k]
    PROVE  win'[w] # win[w] /\ MayTouch(w, k)
  <1> DEFINE x == S!ContextKey(w, "finish", None)
             r == S!ResolveActive(x, TRUE)
  <1>1. win[w].pc = "clear" /\ win'[w] # win[w]
    BY LeaveShows DEF FinishClear, Step, IInv
  <1>2. S!ClearActive(x)
    BY DEF FinishClear, sessionVars
  <1>3. x \in Windows /\ r.task # None /\ ptr' = [ptr EXCEPT ![r.key] = None]
    BY <1>2 DEF S!ClearActive
  <1>4. k = r.key
    BY <1>3 DEF IInv, PointersOK
  <1>5. x = w \/ Mistaken(w, "finish", None)
    BY <1>3, KeyIs
  <1>6. k = x \/ (ptr[x] = None /\ S!SessionFiles = {k})
    BY <1>3, <1>4, ResolvedIs
  <1> QED
    BY <1>1, <1>5, <1>6 DEF MayTouch

LEMMA MoveTouches ==
    ASSUME IInv, NEW w \in Windows, RenameSessions(w) \/ ArchiveSessions(w),
           NEW k \in Windows, ptr'[k] # ptr[k]
    PROVE  win'[w] # win[w] /\ MayTouch(w, k)
  <1>1. CASE RenameSessions(w)
    <2>1. win[w].pc = "sessions" /\ win'[w] # win[w]
      BY <1>1, LeaveShows DEF RenameSessions, Complete, Step, IInv
    <2>2. ptr[k] = win[w].cmd.a
      BY <1>1 DEF RenameSessions, S!RepointTask
    <2> QED
      BY <2>1, <2>2 DEF MayTouch
  <1>2. CASE ArchiveSessions(w)
    <2>1. win[w].pc = "kids" /\ win'[w] # win[w]
      <3>1. "shelve" \in Pcs
        BY DEF Pcs
      <3> QED
        BY <1>2, <3>1, GoShows DEF ArchiveSessions, Step, IInv
    <2>2. ptr[k] = win[w].cmd.a
      BY <1>2 DEF ArchiveSessions, S!ClearTask
    <2> QED
      BY <2>1, <2>2 DEF MayTouch
  <1> QED
    BY <1>1, <1>2

\* The other steps change no pointer.
LEMMA OthersKeepPointers ==
    ASSUME NEW w \in Windows, Continue(w), ptr' # ptr
    PROVE  CreateActivate(w) \/ StartPoint(w) \/ FinishClear(w)
           \/ RenameSessions(w) \/ ArchiveSessions(w)
  <1> USE DEF sessionVars
  <1>1. ~(CreateRecord(w) \/ CreateFails(w) \/ HookRead(w) \/ HookWrite(w)
          \/ WriteParent(w) \/ WriteChild(w) \/ WriteFails(w))
    BY DEF CreateRecord, CreateFails, HookRead, HookWrite, WriteParent, WriteChild,
           WriteFails
  <1>2. ~(RenameOwn(w) \/ RenameManifest(w) \/ RenameTorn(w) \/ RenameBackref(w)
          \/ RenameMove(w) \/ RenameBlocked(w))
    BY DEF RenameOwn, RenameManifest, RenameTorn, RenameBackref, RenameMove,
           RenameBlocked
  <1>3. ~(ArchiveOwn(w) \/ ArchiveReadKid(w) \/ ArchiveUnlink(w)
          \/ ArchiveMove(w) \/ ArchiveBlocked(w)
          \/ CommitAdd(w) \/ CommitRm(w) \/ CommitArchive(w))
    BY DEF ArchiveOwn, ArchiveReadKid, ArchiveUnlink, ArchiveMove, ArchiveBlocked,
           CommitAdd, CommitRm, CommitArchive
  <1>4. ~(StartGate(w) \/ ReadOwn(w) \/ StartFlip(w) \/ FieldWrite(w) \/ Stop(w))
    BY DEF StartGate, ReadOwn, StartFlip, FieldWrite, Stop
  <1> QED
    BY <1>1, <1>2, <1>3, <1>4 DEF Continue

LEMMA CallsKeepPointers ==
    ASSUME NEW w \in Windows, NEW c, Called(w, c)
    PROVE  ptr' = ptr
  BY DEF Called, CreateDir, LinkRead, RenamePlan, ArchiveRead, RecordSession, StartCalled,
         FinishCalled, FieldRead, Curate, sessionVars, S!WriteTicket

Isolated ==
    \A k \in Windows : ptr'[k] # ptr[k] =>
        \E w \in Windows : win'[w] # win[w] /\ MayTouch(w, k)

LEMMA IsolatedSteps == IInv /\ [Next]_vars => [Isolated]_vars
  <1> SUFFICES ASSUME IInv, [Next]_vars, ~UNCHANGED vars,
                      NEW k \in Windows, ptr'[k] # ptr[k]
               PROVE  \E w \in Windows : win'[w] # win[w] /\ MayTouch(w, k)
    BY DEF Isolated
  <1>1. ptr' # ptr
    OBVIOUS
  <1>2. ~Expire
    BY <1>1 DEF Expire, S!ExpireTicket
  <1>3. PICK w \in Windows : Continue(w)
    BY <1>1, <1>2, CallsKeepPointers DEF Next
  <1>4. win'[w] # win[w] /\ MayTouch(w, k)
    BY <1>1, <1>3, OthersKeepPointers, ActivateTouches, PointTouches, ClearTouches,
       MoveTouches
  <1> QED
    BY <1>4

(* A command of a window with an identity changes no pointer but its own,  *)
(* for any number of windows, whatever their hooks and hosts are given.    *)
THEOREM IsolationHolds == Spec => SessionsIsolated
  <1>1. Spec => [][Isolated]_vars
    BY IsolatedSteps, InitKeeps, NextKeeps, PTL DEF Spec
  <1> QED
    BY <1>1 DEF SessionsIsolated, Isolated

-----------------------------------------------------------------------------
(* The session layer.                                                      *)

LEMMA DirsStay ==
    ASSUME UNCHANGED taskVars
    PROVE  Dirs' = Dirs
  BY DEF Dirs, taskVars

\* A step that moves neither pointers nor tickets is one of the store.
LEMMA StoreSteps ==
    ASSUME UNCHANGED sessionVars
    PROVE  S!Next
  BY DEF S!Next, S!ChangeDirs, S!sessionVars, sessionVars, Dirs

LEMMA SessionSteps ==
    ASSUME IInv, Next, ~UNCHANGED sessionVars
    PROVE  S!Next
  <1>1. CASE Expire
    BY <1>1, DirsStay DEF Expire, S!Next
  <1>2. ASSUME NEW w \in Windows, NEW c \in Menu[w], Called(w, c)
        PROVE  S!Next
    <2>1. StartCalled(w, c) \/ FinishCalled(w, c)
      BY <1>2 DEF Called, CreateDir, LinkRead, RenamePlan, ArchiveRead, RecordSession,
                  FieldRead, Curate, sessionVars
    <2>2. Dirs' = Dirs
      BY <2>1, DirsStay DEF StartCalled, FinishCalled
    <2>3. c.op = "start" => c.a \in Names
      BY MenuAssumption DEF MenuAssumption, WellFormed
    <2>4. \E cc \in S!SessionCommands, r \in Names \cup {None} : S!WriteTicket(w, cc, r)
      BY <2>1, <2>3 DEF StartCalled, FinishCalled, S!SessionCommands
    <2> QED
      BY <2>2, <2>4 DEF S!Next
  <1>3. ASSUME NEW w \in Windows, Continue(w)
        PROVE  S!Next
    <2>1. CASE CreateActivate(w)
      <3>1. S!SetActive(S!EnvKey(w), win[w].cmd.a) /\ Dirs' = Dirs
        BY <2>1, DirsStay DEF CreateActivate, Points
      <3>2. w \in Native /\ win[w].cmd.a \in Names
        BY <3>1, TasksAssumption DEF TasksAssumption, S!SetActive, S!EnvKey, Dirs
      <3> QED
        BY <3>1, <3>2 DEF S!Next
    <2>2. CASE StartPoint(w)
      <3>1. /\ S!SetActive(S!ContextKey(w, "start", win[w].cmd.a), win[w].cmd.a)
            /\ Dirs' = Dirs
        BY <2>2, DirsStay DEF StartPoint, Points
      <3>2. win[w].cmd.a \in Names
        BY <3>1 DEF S!SetActive, Dirs
      <3> QED
        BY <3>1, <3>2 DEF S!Next
    <2>3. CASE FinishClear(w)
      <3>1. S!ClearActive(S!ContextKey(w, "finish", None)) /\ Dirs' = Dirs
        BY <2>3, DirsStay DEF FinishClear
      <3> QED
        BY <3>1 DEF S!Next
    <2>4. CASE RenameSessions(w)
      <3>1. win[w].cmd.a \in Names /\ win[w].cmd.b \in Names
        BY <2>4, WindowFacts DEF RenameSessions, Step, IInv, WindowOK, ReadAll
      <3>2. \E kept \in SUBSET Windows : S!RepointTask(win[w].cmd.a, win[w].cmd.b, kept)
        BY <2>4 DEF RenameSessions
      <3>3. Dirs' = Dirs
        BY <2>4, DirsStay DEF RenameSessions
      <3> QED
        BY <3>1, <3>2, <3>3 DEF S!Next
    <2>5. CASE ArchiveSessions(w)
      <3>1. win[w].cmd.a \in Names
        BY <2>5, WindowFacts DEF ArchiveSessions, Step, IInv, WindowOK
      <3>2. \E kept \in SUBSET Windows : S!ClearTask(win[w].cmd.a, kept)
        BY <2>5 DEF ArchiveSessions
      <3>3. Dirs' = Dirs
        BY <2>5, DirsStay DEF ArchiveSessions
      <3> QED
        BY <3>1, <3>2, <3>3 DEF S!Next
    <2>6. CASE ptr' = ptr
      <3>1. tickets' = tickets
        BY <1>3, <2>6 DEF Continue, sessionVars, CreateRecord, CreateFails, CreateActivate,
           HookRead, HookWrite, WriteParent, WriteChild, WriteFails, RenameOwn,
           RenameManifest, RenameTorn, RenameBackref, RenameMove, RenameBlocked,
           RenameSessions, ArchiveOwn, ArchiveReadKid, ArchiveUnlink, ArchiveSessions,
           ArchiveMove, ArchiveBlocked, CommitAdd, CommitRm, CommitArchive, StartGate,
           StartPoint, ReadOwn, StartFlip, FinishClear, FieldWrite, Stop, Points,
           S!SetActive, S!RepointTask, S!ClearTask, S!ClearActive
      <3> QED
        BY <2>6, <3>1 DEF sessionVars
    <2> QED
      BY <1>3, <2>1, <2>2, <2>3, <2>4, <2>5, <2>6, OthersKeepPointers
  <1> QED
    BY <1>1, <1>2, <1>3 DEF Next

LEMMA SessionsStart == Init => S!Init
  <1> SUFFICES ASSUME Init
               PROVE  S!Init
    OBVIOUS
  <1>1. Dirs = {n \in Names : First[n] # None}
    BY DEF Init, Dirs
  <1> QED
    BY <1>1, TasksAssumption DEF TasksAssumption, Init, S!Init

LEMMA SessionsFollow == IInv /\ [Next]_vars => [S!Next]_<<ptr, tickets, Dirs>>
  <1> SUFFICES ASSUME IInv, [Next]_vars
               PROVE  S!Next \/ UNCHANGED <<ptr, tickets, Dirs>>
    OBVIOUS
  <1>1. CASE UNCHANGED vars
    BY <1>1, StoreSteps DEF vars, sessionVars
  <1>2. CASE Next
    BY <1>2, StoreSteps, SessionSteps
  <1> QED
    BY <1>1, <1>2

(* The task commands implement the session layer: whatever they do to the  *)
(* store, a pointer is set only to a directory that is there, under the    *)
(* key of the command's environment or ticket, and tickets come only from  *)
(* the pre-shell hook.                                                     *)
THEOREM ImplementsSessions == Spec => SessionsSpec
  <1> QED
    BY SessionsStart, SessionsFollow, InitKeeps, NextKeeps, PTL
    DEF Spec, SessionsSpec, S!Spec

-----------------------------------------------------------------------------
(* The course of a command.                                                *)

Alone(w) == \A v \in Windows \ {w} : win'[v] = win[v]

\* The step r may come after the one q is at.
Follows(q, r) ==
    \/ q.pc = "new" /\ r \in {"activate", "parent"}
    \/ q.pc = "activate" /\ r = "hook"
    \/ q.pc = "hook" /\ r = "issue"
    \/ q.pc = "parent" /\ r = "child"
    \/ q.pc = "child" /\ r = "activate" /\ q.cmd.op \in {"create", "force"}
    \/ q.pc = "own" /\ r = "jsonl" /\ q.cmd.op = "rename"
    \/ q.pc = "own" /\ r = "kids" /\ q.cmd.op \in {"archive", "hurried"}
    \/ q.pc \in {"jsonl", "backrefs"} /\ r = "backrefs"
    \/ q.pc = "backrefs" /\ r = "sessions" /\ q.todo = {}
    \/ q.pc = "kids" /\ r = "kid"
    \/ q.pc = "kids" /\ r = "shelve" /\ KidsLeft(q) = {}
    \/ q.pc = "kid" /\ r = "kids"
    \/ q.pc = "shelve" /\ r = "add" /\ q.cmd.op = "archive"
    \/ q.pc = "add" /\ r = "rm"
    \/ q.pc = "rm" /\ r = "commit"
    \/ q.pc = "gate" /\ r \in {"load", "point"}
    \/ q.pc = "point" /\ r = "load"
    \/ q.pc = "load" /\ r = "flip"

\* The command of window q reads task n now.
Looks(q, n) ==
    \/ q.pc \in {"hook", "load"} /\ n = q.cmd.a
    \/ q.pc = "kids" /\ n \in q.todo

\* Window w's command ends or goes on to its next step.
Proceeds(w) ==
    /\ win'[w].cmd = win[w].cmd /\ Follows(win[w], win'[w].pc)
    /\ win'[w].todo \subseteq win[w].todo
    /\ \A n \in Names :
          \/ win'[w].read[n] = win[w].read[n]
          \/ win[w].pc = "new" /\ n = win[w].cmd.a
          \/ win[w].pc = "own" /\ win'[w].pc = "kids" /\ win'[w].read[n] = None
          \/ /\ Looks(win[w], n) /\ HasRecord(n) /\ win'[w].read[n] = active[n]
             /\ UNCHANGED taskVars
Turn(w) == Alone(w) /\ (win'[w] = Idle \/ Proceeds(w))

LEMMA LeaveTurns ==
    ASSUME WindowsOK, NEW w \in Windows, Leave(w)
    PROVE  Alone(w) /\ win'[w] = Idle
  BY WindowFacts DEF Leave, Alone

LEMMA GoTurns ==
    ASSUME WindowsOK, NEW w \in Windows, NEW pc \in Pcs, Go(w, pc)
    PROVE  /\ Alone(w) /\ win'[w].pc = pc /\ win'[w].cmd = win[w].cmd
           /\ win'[w].read = win[w].read /\ win'[w].todo = win[w].todo
  <1>1. win' = [win EXCEPT ![w] = At2(win[w], pc)]
    BY GoIs
  <1>2. win'[w] = At2(win[w], pc) /\ Alone(w)
    BY <1>1, WindowFacts DEF Alone
  <1> QED
    BY <1>2, WindowFacts, MovedIs

LEMMA GoProceeds ==
    ASSUME WindowsOK, NEW w \in Windows, NEW pc \in Pcs, Go(w, pc), Follows(win[w], pc)
    PROVE  Turn(w)
  BY GoTurns DEF Turn, Proceeds

LEMMA LeaveProceeds ==
    ASSUME WindowsOK, NEW w \in Windows, Leave(w)
    PROVE  Turn(w)
  BY LeaveTurns DEF Turn

\* Window w is at step pc and has read t, and no other task, as n.
ReadsBut(w, n) == \A m \in Names \ {n} : win'[w].read[m] = win[w].read[m]
HasRead(w, pc, n, t) ==
    /\ Alone(w) /\ win'[w].pc = pc /\ win'[w].cmd = win[w].cmd
    /\ win'[w].todo = win[w].todo /\ win'[w].read[n] = t
    /\ ReadsBut(w, n)

LEMMA ReadsTurns ==
    ASSUME IInv, NEW w \in Windows, NEW pc \in Pcs, NEW n \in Names, NEW t \in Task,
           win' = [win EXCEPT ![w].pc = pc, ![w].read[n] = t]
    PROVE  HasRead(w, pc, n, t)
  <1>1. win[w] \in Window /\ win \in [Windows -> Window]
    BY WindowFacts DEF IInv
  <1>2. win' = [win EXCEPT ![w] = Reads(win[w], pc, n, t)]
    BY <1>1 DEF Reads
  <1>3. win'[w] = Reads(win[w], pc, n, t) /\ Alone(w)
    BY <1>1, <1>2 DEF Alone
  <1>4. \A m \in Names \ {n} : Reads(win[w], pc, n, t).read[m] = win[w].read[m]
    <2> DEFINE r == [win[w].read EXCEPT ![n] = t]
    <2>1. win[w].read \in [Names -> Task \cup {None}]
      BY <1>1 DEF Window
    <2>2. \A m \in Names \ {n} : r[m] = win[w].read[m]
      BY <2>1
    <2>3. Reads(win[w], pc, n, t) = [win[w] EXCEPT !.pc = pc, !.read = r]
      BY DEF Reads
    <2> HIDE DEF r
    <2>4. [win[w] EXCEPT !.pc = pc, !.read = r].read = r
      BY <1>1 DEF Window
    <2> QED
      BY <2>2, <2>3, <2>4 DEF ReadsBut
  <1> DEFINE r == Reads(win[w], pc, n, t)
  <1>5. r.pc = pc /\ r.cmd = win[w].cmd /\ r.todo = win[w].todo /\ r.read[n] = t
    BY <1>1, ReadsIs
  <1> HIDE DEF r
  <1>6. win'[w] = r /\ \A m \in Names \ {n} : r.read[m] = win[w].read[m]
    BY <1>3, <1>4 DEF r
  <1> QED
    BY <1>3, <1>5, <1>6 DEF ReadsBut, HasRead

\* Window w reads task n and is at step pc then.
LooksAt(w, pc, n) == win' = [win EXCEPT ![w].pc = pc, ![w].read[n] = active[n]]

LEMMA ReadsGo ==
    ASSUME IInv, NEW w \in Windows, NEW pc \in Pcs, NEW n \in Names, HasRecord(n),
           LooksAt(w, pc, n)
    PROVE  HasRead(w, pc, n, active[n])
  <1>1. active[n] \in Task
    BY RecordIs DEF IInv
  <1> QED
    BY <1>1, ReadsTurns DEF LooksAt

LEMMA LooksTurns ==
    ASSUME IInv, NEW w \in Windows, NEW pc \in Pcs, NEW n \in Names, HasRecord(n),
           LooksAt(w, pc, n), UNCHANGED taskVars, Looks(win[w], n), Follows(win[w], pc)
    PROVE  Turn(w)
  <1>1. HasRead(w, pc, n, active[n])
    BY ReadsGo
  <1> QED
    BY <1>1 DEF HasRead, Turn, Proceeds, ReadsBut

LEMMA ForgetsTurns ==
    ASSUME IInv, NEW w \in Windows, NEW pc \in Pcs, NEW n \in Names,
           win' = [win EXCEPT ![w].pc = pc, ![w].read[n] = None]
    PROVE  HasRead(w, pc, n, None)
  <1> DEFINE r == Reads(win[w], pc, n, None)
  <1>1. win[w] \in Window /\ win \in [Windows -> Window]
    BY WindowFacts DEF IInv
  <1>2. win' = [win EXCEPT ![w] = r]
    BY <1>1 DEF Reads
  <1>3. /\ r.pc = pc /\ r.cmd = win[w].cmd /\ r.todo = win[w].todo /\ r.read[n] = None
        /\ \A m \in Names \ {n} : r.read[m] = win[w].read[m]
    BY <1>1, ForgetsIs
  <1> HIDE DEF r
  <1>4. win'[w] = r /\ Alone(w)
    BY <1>1, <1>2 DEF Alone
  <1> QED
    BY <1>3, <1>4 DEF ReadsBut, HasRead

LEMMA DropTurns ==
    ASSUME IInv, NEW w \in Windows, NEW pc \in Pcs, NEW n,
           win' = [win EXCEPT ![w].pc = pc, ![w].todo = @ \ {n}]
    PROVE  /\ Alone(w) /\ win'[w].pc = pc /\ win'[w].cmd = win[w].cmd
           /\ win'[w].read = win[w].read /\ win'[w].todo = win[w].todo \ {n}
  <1> DEFINE p == At2(win[w], pc)
  <1>1. win[w] \in Window /\ win \in [Windows -> Window]
    BY WindowFacts DEF IInv
  <1>2. p \in Window /\ p.pc = pc /\ p.cmd = win[w].cmd /\ p.read = win[w].read
        /\ p.todo = win[w].todo
    BY <1>1, MovedIs
  <1>3. win' = [win EXCEPT ![w] = Drops(p, n)]
    BY <1>1 DEF Drops, At2
  <1>4. win'[w] = Drops(p, n) /\ Alone(w)
    BY <1>1, <1>3 DEF Alone
  <1> HIDE DEF p
  <1>5. /\ Drops(p, n).pc = p.pc /\ Drops(p, n).cmd = p.cmd
        /\ Drops(p, n).read = p.read /\ Drops(p, n).todo = p.todo \ {n}
    BY <1>2, DropsIs
  <1> QED
    BY <1>2, <1>4, <1>5

LEMMA BackrefTurns ==
    ASSUME IInv, NEW w \in Windows, NEW n, win[w].pc = "backrefs",
           win' = [win EXCEPT ![w].todo = @ \ {n}]
    PROVE  /\ Alone(w) /\ win'[w].pc = "backrefs" /\ win'[w].cmd = win[w].cmd
           /\ win'[w].read = win[w].read /\ win'[w].todo = win[w].todo \ {n}
  <1>1. win[w] \in Window /\ win \in [Windows -> Window]
    BY WindowFacts DEF IInv
  <1>3. win' = [win EXCEPT ![w] = Drops(win[w], n)]
    BY <1>1 DEF Drops
  <1>4. win'[w] = Drops(win[w], n) /\ Alone(w)
    BY <1>1, <1>3 DEF Alone
  <1> QED
    BY <1>1, <1>4, DropsIs

LEMMA PcsAre == \A x \in {"activate", "hook", "issue", "parent", "child", "own", "jsonl",
        "backrefs", "sessions", "kids", "kid", "shelve", "add", "rm", "commit",
        "gate", "point", "load", "flip"} : x \in Pcs
  BY DEF Pcs

\* The steps of a command come in their order.
LEMMA Turns ==
    ASSUME IInv, NEW w \in Windows, Continue(w)
    PROVE  Turn(w)
  <1> USE DEF Step, IInv
  <1>1. CASE CreateRecord(w)
    <2> DEFINE c == win[w].cmd
               t == NewTask(Cardinality(made) + 1, c.a)
               pc == IF c.b = None THEN "activate" ELSE "parent"
    <2>1. c.a \in Names /\ win[w].pc = "new"
      BY <1>1, WindowFacts DEF CreateRecord, WindowOK
    <2>2. t \in Task
      <3>1. Cardinality(made) + 1 \in Ids
        BY FS_CardinalityType DEF HistoryOK, Ids
      <3> QED
        BY <2>1, <3>1, NewIsTask
    <2>3. win' = [win EXCEPT ![w].pc = pc, ![w].read[c.a] = t]
      BY <1>1 DEF CreateRecord
    <2>4. pc \in Pcs /\ Follows(win[w], pc)
      BY <2>1, PcsAre DEF Follows
    <2> HIDE DEF t, pc
    <2>5. HasRead(w, pc, c.a, t)
      <3> HIDE DEF c
      <3> QED
        BY <2>1, <2>2, <2>3, <2>4, ReadsTurns
    <2> QED
      BY <2>1, <2>4, <2>5 DEF HasRead, Turn, Proceeds, ReadsBut
  <1>2. CASE CreateFails(w) \/ WriteFails(w) \/ RenameTorn(w) \/ RenameBlocked(w)
             \/ ArchiveBlocked(w) \/ Stop(w)
    <2>1. Leave(w)
      BY <1>2 DEF CreateFails, WriteFails, RenameTorn, RenameBlocked, ArchiveBlocked,
                  Stop, GiveUp
    <2> QED
      BY <2>1, LeaveProceeds
  <1>3. CASE HookWrite(w) \/ RenameSessions(w) \/ CommitArchive(w) \/ StartFlip(w)
             \/ FinishClear(w) \/ FieldWrite(w)
    <2>1. Leave(w)
      BY <1>3 DEF HookWrite, RenameSessions, CommitArchive, StartFlip, FinishClear,
                  FieldWrite, Complete
    <2> QED
      BY <2>1, LeaveProceeds
  <1>4. CASE CreateActivate(w)
    <2>1. win[w].pc = "activate" /\ (Go(w, "hook") \/ Leave(w))
      BY <1>4 DEF CreateActivate
    <2> QED
      BY <2>1, PcsAre, GoProceeds, LeaveProceeds DEF Follows
  <1>5. CASE HookRead(w) \/ ReadOwn(w)
    <2> DEFINE n == win[w].cmd.a
    <2>1. \/ Leave(w)
          \/ HasRecord(n) /\ win[w].pc = "hook" /\ LooksAt(w, "issue", n)
          \/ HasRecord(n) /\ win[w].pc = "load" /\ LooksAt(w, "flip", n)
      BY <1>5 DEF HookRead, ReadOwn, LooksAt
    <2>2. UNCHANGED taskVars
      BY <1>5 DEF HookRead, ReadOwn
    <2>3. HasRecord(n) => n \in Names
      BY RecordIs
    <2>4. /\ win[w].pc = "hook" => Looks(win[w], n) /\ Follows(win[w], "issue")
          /\ win[w].pc = "load" => Looks(win[w], n) /\ Follows(win[w], "flip")
      BY DEF Looks, Follows
    <2> QED
      BY <2>1, <2>2, <2>3, <2>4, PcsAre, LooksTurns, LeaveProceeds
  <1>6. CASE WriteParent(w) \/ WriteChild(w)
    <2>1. \/ Leave(w)
          \/ win[w].pc = "parent" /\ Go(w, "child")
          \/ /\ win[w].pc = "child" /\ Go(w, "activate")
             /\ win[w].cmd.op \in {"create", "force"}
      BY <1>6 DEF WriteParent, WriteChild
    <2> QED
      BY <2>1, PcsAre, GoProceeds, LeaveProceeds DEF Follows
  <1>7. CASE RenameOwn(w) \/ RenameManifest(w) \/ RenameMove(w)
    <2>1. \/ win[w].pc = "own" /\ Go(w, "jsonl") /\ win[w].cmd.op = "rename"
          \/ win[w].pc = "jsonl" /\ Go(w, "backrefs")
          \/ win[w].pc = "backrefs" /\ Go(w, "sessions") /\ win[w].todo = {}
      BY <1>7 DEF RenameOwn, RenameManifest, RenameMove, MayMove
    <2> QED
      BY <2>1, PcsAre, GoProceeds DEF Follows
  <1>8. CASE RenameBackref(w)
    <2>1. PICK n : win[w].pc = "backrefs" /\ win' = [win EXCEPT ![w].todo = @ \ {n}]
      BY <1>8 DEF RenameBackref
    <2> QED
      BY <2>1, BackrefTurns DEF Turn, Proceeds, Follows
  <1>9. CASE ArchiveReadKid(w)
    <2>1. PICK n \in KidsLeft(win[w]) : LooksAt(w, "kid", n)
      BY <1>9 DEF ArchiveReadKid, LooksAt
    <2>2. win[w].pc = "kids" /\ UNCHANGED taskVars
      BY <1>9 DEF ArchiveReadKid
    <2>3. n \in Names /\ HasRecord(n) /\ n \in win[w].todo
      BY RecordIs DEF KidsLeft
    <2>4. Looks(win[w], n) /\ Follows(win[w], "kid")
      BY <2>2, <2>3 DEF Looks, Follows
    <2> QED
      BY <2>1, <2>2, <2>3, <2>4, PcsAre, LooksTurns
  <1>10. CASE ArchiveUnlink(w)
    <2>1. PICK n : win[w].pc = "kid" /\
               win' = [win EXCEPT ![w].pc = "kids", ![w].todo = @ \ {n}]
      BY <1>10 DEF ArchiveUnlink
    <2>2. /\ Alone(w) /\ win'[w].pc = "kids" /\ win'[w].cmd = win[w].cmd
          /\ win'[w].read = win[w].read /\ win'[w].todo = win[w].todo \ {n}
      BY <2>1, PcsAre, DropTurns
    <2>3. Follows(win[w], win'[w].pc)
      BY <2>1, <2>2 DEF Follows
    <2> QED
      BY <2>2, <2>3 DEF Turn, Proceeds
  <1>11. CASE ArchiveSessions(w) \/ ArchiveMove(w) \/ CommitAdd(w) \/ CommitRm(w)
    <2>1. \/ Leave(w)
          \/ win[w].pc = "kids" /\ Go(w, "shelve") /\ KidsLeft(win[w]) = {}
          \/ win[w].pc = "shelve" /\ Go(w, "add") /\ win[w].cmd.op = "archive"
          \/ win[w].pc = "add" /\ Go(w, "rm")
          \/ win[w].pc = "rm" /\ Go(w, "commit")
      BY <1>11 DEF ArchiveSessions, ArchiveMove, CommitAdd, CommitRm, Complete
    <2> QED
      BY <2>1, PcsAre, GoProceeds, LeaveProceeds DEF Follows
  <1>12. CASE StartGate(w) \/ StartPoint(w)
    <2>1. \/ Leave(w)
          \/ win[w].pc = "gate" /\ (Go(w, "load") \/ Go(w, "point"))
          \/ win[w].pc = "point" /\ Go(w, "load")
      BY <1>12 DEF StartGate, StartPoint
    <2> QED
      BY <2>1, PcsAre, GoProceeds, LeaveProceeds DEF Follows
  <1>13. CASE ArchiveOwn(w)
    <2>1. PICK n \in Names : n = win[w].cmd.a
      BY <1>13, WindowFacts DEF ArchiveOwn, WindowOK, ReadA
    <2>2. /\ win[w].pc = "own" /\ win[w].cmd.op \in {"archive", "hurried"}
          /\ win' = [win EXCEPT ![w].pc = "kids", ![w].read[n] = None]
      BY <1>13, <2>1 DEF ArchiveOwn
    <2>3. Follows(win[w], "kids")
      BY <2>2 DEF Follows
    <2>4. HasRead(w, "kids", n, None)
      BY <2>2, PcsAre, ForgetsTurns
    <2> QED
      BY <2>2, <2>3, <2>4 DEF HasRead, Turn, Proceeds, ReadsBut
  <1> QED
    BY <1>1, <1>2, <1>3, <1>4, <1>5, <1>6, <1>7, <1>8, <1>9, <1>10, <1>11, <1>12,
       <1>13 DEF Continue

\* A command that begins has touched nothing but its own directory, and the
\* pointers not at all.
LEMMA Beginnings ==
    ASSUME IInv, NEW w \in Windows, NEW c, WellFormed(c), Called(w, c)
    PROVE  /\ Alone(w) /\ win[w].pc = "idle"
           /\ \/ win'[w] = win[w]
              \/ win'[w].pc \in {"new", "parent", "own", "kids", "gate", "clear", "field"}
           /\ UNCHANGED <<ptr, adrift, archived, made, broken, owed>>
           /\ Dirs \subseteq Dirs'
  <1> USE DEF sessionVars
  <1>1. ASSUME NEW q, Enter(w, q), UNCHANGED taskVars
        PROVE  Alone(w) /\ win'[w] = q /\ Dirs' = Dirs /\ archived' = archived
    BY <1>1, WindowFacts, DirsStay DEF IInv, Enter, Alone, taskVars
  <1>2. CASE CreateDir(w, c)
    <2>1. c.a \in Names
      BY <1>2 DEF CreateDir, WellFormed
    <2>2. Dirs \subseteq Dirs'
      BY <1>2, <2>1, TasksAssumption DEF TasksAssumption, CreateDir, Dirs, IInv, StoreOK
    <2>3. Alone(w) /\ win'[w].pc = "new"
      BY <1>2, WindowFacts DEF IInv, CreateDir, Enter, Alone, At
    <2> QED
      BY <1>2, <2>2, <2>3 DEF CreateDir, Called, Step
  <1>3. CASE LinkRead(w, c) \/ RenamePlan(w, c) \/ FieldRead(w, c)
    <2>1. PICK q : Enter(w, q) /\ q.pc \in {"parent", "own", "field"} /\ UNCHANGED taskVars
      BY <1>3 DEF LinkRead, RenamePlan, FieldRead, At
    <2> QED
      BY <1>1, <1>3, <2>1 DEF LinkRead, RenamePlan, FieldRead, Called, Step
  <1>4. CASE ArchiveRead(w, c)
    <2>1. PICK q : Enter(w, q) /\ q.pc \in {"own", "kids"} /\ UNCHANGED taskVars
      BY <1>4 DEF ArchiveRead, At
    <2> QED
      BY <1>1, <1>4, <2>1 DEF ArchiveRead, Called, Step
  <1>5. CASE StartCalled(w, c) \/ FinishCalled(w, c)
    <2>1. PICK q : Enter(w, q) /\ q.pc \in {"gate", "clear"} /\ UNCHANGED taskVars
      BY <1>5 DEF StartCalled, FinishCalled, At
    <2> QED
      BY <1>1, <1>5, <2>1 DEF StartCalled, FinishCalled, S!WriteTicket, Called, Step
  <1>6. CASE RecordSession(w, c)
    <2>1. UNCHANGED taskVars /\ UNCHANGED win
      BY <1>6 DEF RecordSession
    <2> QED
      BY <1>6, <2>1, DirsStay DEF RecordSession, Called, Step, Alone, taskVars
  <1>7. CASE Curate(w, c)
    <2>1. c.a \in Names /\ active[c.a] \in Task /\ active' = [active EXCEPT ![c.a].manifest = c.a]
      BY <1>7, RecordIs DEF Curate, IInv
    <2>2. [active[c.a] EXCEPT !.manifest = c.a] \in Task
      BY <2>1, UpdatesAreTasks
    <2>3. Dirs \subseteq Dirs'
      BY <2>1, <2>2, TasksAssumption DEF TasksAssumption, Dirs, IInv, StoreOK
    <2> QED
      BY <1>7, <2>3 DEF Curate, Called, Step, Alone
  <1> QED
    BY <1>2, <1>3, <1>4, <1>5, <1>6, <1>7 DEF Called

\* The record a step of window w's command writes to task n, over a record
\* with its id or from one it has read.  Its manifest stays, but for one step
\* of a rename.
Rewrite(w, n, x) ==
    /\ n \in Names /\ x \in Task
    /\ active' = [active EXCEPT ![n] = x] /\ UNCHANGED archived
    /\ active[n] # None /\ n \in Handled(win[w])
    /\ win[w].pc \notin {"idle", "new", "sessions", "add", "rm", "commit"}
    /\ \/ HasRecord(n) /\ x.id = active[n].id
       \/ win[w].read[n] # None /\ x.id = win[w].read[n].id
    /\ \/ HasRecord(n) => x.manifest = active[n].manifest
       \/ win[w].pc = "jsonl" /\ n = win[w].cmd.a

LEMMA StoredId ==
    ASSUME StoreOK, NEW n \in Names, NEW t \in Task
    PROVE  Stored(n, t).id = t.id
  <1>1. CASE HasRecord(n)
    <2> DEFINE x == active[n].manifest
    <2>1. Stored(n, t) = [t EXCEPT !.manifest = x]
      BY <1>1 DEF Stored
    <2> HIDE DEF x
    <2> QED
      BY <2>1 DEF Task
  <1>2. CASE ~HasRecord(n)
    BY <1>2 DEF Stored
  <1> QED
    BY <1>1, <1>2

LEMMA StoredManifest ==
    ASSUME NEW n \in Names, NEW t \in Task, HasRecord(n)
    PROVE  Stored(n, t).manifest = active[n].manifest
  <1> DEFINE x == active[n].manifest
  <1>1. Stored(n, t) = [t EXCEPT !.manifest = x]
    BY DEF Stored
  <1> HIDE DEF x
  <1>2. [t EXCEPT !.manifest = x].manifest = x
    BY DEF Task
  <1> QED
    BY <1>1, <1>2 DEF x

LEMMA SameIds ==
    ASSUME NEW t \in Task
    PROVE  /\ \A x : [t EXCEPT !.parent = x].id = t.id
           /\ \A x : [t EXCEPT !.name = x].id = t.id
           /\ \A x : [t EXCEPT !.kids = x].id = t.id
           /\ \A x : [t EXCEPT !.manifest = x].id = t.id
           /\ \A x : [t EXCEPT !.branch = x].id = t.id
           /\ \A x : [t EXCEPT !.base = x].id = t.id
           /\ \A x : [t EXCEPT !.status = x].id = t.id
  BY DEF Task

LEMMA RenamedId ==
    ASSUME NEW t \in Task, NEW o \in Names, NEW n \in Names
    PROVE  Renamed(t, o, n).id = t.id
  BY DEF Task, Renamed

LEMMA StartedId ==
    ASSUME NEW t \in Task, NEW b \in Branches
    PROVE  Started(t, b).id = t.id
  BY DEF Task, Started

LEMMA WriteRewrites ==
    ASSUME IInv, NEW w \in Windows, NEW n \in Names, NEW t \in Task, Write(n, t),
           win[w].read[n] \in Task, t.id = win[w].read[n].id,
           n \in Handled(win[w]),
           win[w].pc \notin {"idle", "new", "sessions", "add", "rm", "commit"}
    PROVE  \E x : Rewrite(w, n, x)
  <1>1. Stored(n, t) \in Task /\ Stored(n, t).id = t.id
    BY StoredIsTask, StoredId DEF IInv
  <1>2. win[w].read[n] # None
    BY TasksAssumption DEF TasksAssumption
  <1>3. Rewrite(w, n, Stored(n, t))
    BY <1>1, <1>2, StoredManifest DEF Write, Rewrite
  <1> QED
    BY <1>3

LEMMA IsHandled ==
    ASSUME NEW q, q.pc # "idle"
    PROVE  /\ q.cmd.a # None => q.cmd.a \in Handled(q)
           /\ q.cmd.b # None => q.cmd.b \in Handled(q)
           /\ q.todo \subseteq Handled(q)
           /\ \A n \in Names : q.read[n] # None => n \in Handled(q)
  BY DEF Handled

\* The steps of a command but a few rewrite one record at most.
LEMMA Rewrites ==
    ASSUME IInv, NEW w \in Windows, Continue(w),
           ~CreateRecord(w), ~CreateFails(w), ~HookWrite(w), ~RenameMove(w), ~ArchiveMove(w)
    PROVE  UNCHANGED taskVars \/ \E n, x : Rewrite(w, n, x)
  <1> USE DEF IInv, Step
  <1> DEFINE q == win[w]
             a == q.cmd.a
             b == q.cmd.b
  <1>1. WindowOK(q) /\ q \in Window
    BY WindowFacts
  <1>2. \A n \in Names : n # None
    BY TasksAssumption DEF TasksAssumption
  <1>3. q.pc # "idle" =>
            /\ a \in Names => a \in Handled(q)
            /\ b \in Names => b \in Handled(q)
            /\ \A n \in q.todo : n \in Handled(q)
    BY <1>2, IsHandled
  <1>6. CASE WriteParent(w)
    <2>1. ReadB(q) /\ q.pc = "parent"
      BY <1>1, <1>6 DEF WriteParent, WindowOK
    <2>2. ParentRecord(q) \in Task /\ ParentRecord(q).id = q.read[b].id
      <3>1. ParentRecord(q) \in Task
        BY <1>1, <2>1, ParentIsTask DEF WindowOK
      <3> QED
        BY <2>1, <3>1, SameIds DEF ParentRecord, ReadB
    <2>3. UNCHANGED taskVars \/ Write(b, ParentRecord(q))
      BY <1>6 DEF WriteParent
    <2> QED
      BY <1>3, <2>1, <2>2, <2>3, WriteRewrites DEF ReadB
  <1>7. CASE WriteChild(w)
    <2>1. q.pc = "child" /\ a \in Names /\ q.read[a] \in Task
      BY <1>1, <1>7 DEF WriteChild, WindowOK, ReadA
    <2>2. ChildRecord(q) \in Task /\ ChildRecord(q).id = q.read[a].id
      <3>1. ChildRecord(q) \in Task
        BY <1>1, <1>7, <2>1, ChildIsTask DEF WriteChild, WindowOK, ReadA
      <3> QED
        BY <2>1, <3>1, SameIds DEF ChildRecord
    <2>3. Write(a, ChildRecord(q))
      BY <1>7 DEF WriteChild
    <2> QED
      BY <1>3, <2>1, <2>2, <2>3, WriteRewrites
  <1>8. CASE RenameOwn(w)
    <2> DEFINE t == q.read[a]
    <2>1. q.pc = "own" /\ a \in Names /\ b \in Names /\ t \in Task
      BY <1>1, <1>8 DEF RenameOwn, WindowOK, ReadA, ReadAll
    <2>2. [t EXCEPT !.name = b] \in Task /\ [t EXCEPT !.name = b].id = t.id
      BY <2>1, UpdatesAreTasks, SameIds
    <2>3. UNCHANGED taskVars \/ Write(a, [t EXCEPT !.name = b])
      BY <1>8 DEF RenameOwn
    <2> QED
      BY <1>3, <2>1, <2>2, <2>3, WriteRewrites
  <1>9. CASE RenameManifest(w) \/ RenameTorn(w)
    <2>1. q.pc = "jsonl" /\ a \in Names /\ b \in Names
      BY <1>1, <1>9 DEF RenameManifest, RenameTorn, WindowOK, ReadA, ReadAll
    <2>2. \/ UNCHANGED taskVars
          \/ /\ HasRecord(a) /\ UNCHANGED archived
             /\ \E x \in {b, None} : active' = [active EXCEPT ![a].manifest = x]
      BY <1>9 DEF RenameManifest, RenameTorn
    <2>3. ASSUME NEW x \in {b, None}, HasRecord(a), UNCHANGED archived,
                 active' = [active EXCEPT ![a].manifest = x]
          PROVE  \E n, y : Rewrite(w, n, y)
      <3>1. active[a] \in Task
        BY <2>3, RecordIs
      <3> DEFINE y == [active[a] EXCEPT !.manifest = x]
      <3>2. y \in Task /\ y.id = active[a].id
        BY <2>1, <3>1, UpdatesAreTasks, SameIds
      <3>3. active' = [active EXCEPT ![a] = y] /\ active[a] # None
        BY <2>3, <3>1, TasksAssumption DEF TasksAssumption, StoreOK
      <3> HIDE DEF y
      <3>4. Rewrite(w, a, y)
        BY <1>3, <2>1, <2>3, <3>2, <3>3 DEF Rewrite
      <3> QED
        BY <3>4
    <2> QED
      BY <2>2, <2>3
  <1>10. CASE RenameBackref(w)
    <2>1. ReadAll(q) /\ a \in Names /\ q.todo \subseteq Names /\ q.pc = "backrefs"
      BY <1>1, <1>10 DEF RenameBackref, WindowOK, Window
    <2>2. PICK n \in q.todo : Write(n, Renamed(q.read[n], a, b))
      BY <1>10 DEF RenameBackref
    <2>3. Renamed(q.read[n], a, b) \in Task /\ q.read[n] \in Task
          /\ Renamed(q.read[n], a, b).id = q.read[n].id
      BY <2>1, RenamedIsTask, RenamedId DEF ReadAll
    <2> QED
      BY <1>3, <2>1, <2>2, <2>3, WriteRewrites
  <1>11. CASE ArchiveOwn(w)
    <2>1. a \in Names /\ q.read[a] \in Task /\ q.pc = "own"
      BY <1>1, <1>11 DEF ArchiveOwn, WindowOK, ReadA
    <2>2. [q.read[a] EXCEPT !.status = "completed"] \in Task
          /\ [q.read[a] EXCEPT !.status = "completed"].id = q.read[a].id
      BY <2>1, UpdatesAreTasks, SameIds
    <2>3. Write(a, [q.read[a] EXCEPT !.status = "completed"])
      BY <1>11 DEF ArchiveOwn
    <2> QED
      BY <1>3, <2>1, <2>2, <2>3, WriteRewrites
  <1>12. CASE ArchiveUnlink(w)
    <2>1. PICK n \in q.todo : q.read[n] # None /\ Write(n, [q.read[n] EXCEPT !.parent = None])
      BY <1>12 DEF ArchiveUnlink
    <2>2. n \in Names /\ q.read[n] \in Task /\ q.pc = "kid"
      BY <1>1, <1>12, <2>1 DEF Window, ArchiveUnlink
    <2>3. [q.read[n] EXCEPT !.parent = None] \in Task
          /\ [q.read[n] EXCEPT !.parent = None].id = q.read[n].id
      BY <2>2, UpdatesAreTasks, SameIds
    <2> QED
      BY <1>3, <2>1, <2>2, <2>3, WriteRewrites
  <1>13. CASE StartFlip(w)
    <2> DEFINE t == q.read[a]
    <2>1. a \in Names /\ t \in Task /\ q.pc = "flip"
      BY <1>1, <1>13 DEF StartFlip, WindowOK, ReadA
    <2>2. PICK bb \in Branches : UNCHANGED taskVars \/ Write(a, Started(t, bb))
      BY <1>13 DEF StartFlip
    <2>3. Started(t, bb) \in Task /\ Started(t, bb).id = t.id
      BY <2>1, StartedIsTask, StartedId
    <2> QED
      BY <1>3, <2>1, <2>2, <2>3, WriteRewrites
  <1>14. CASE FieldWrite(w)
    <2>1. a \in Names /\ q.read[a] \in Task /\ WithField(q) \in Task /\ q.pc = "field"
      BY <1>1, <1>14, FieldIsTask DEF FieldWrite, WindowOK, ReadA
    <2>2. WithField(q).id = q.read[a].id
      <3>1. WithBase(q) \in Task /\ WithBase(q).id = q.read[a].id
        <4>1. q.read[a].base \in Branches /\ "feature" \in Branches
          BY <2>1, UpdatesAreTasks DEF Branches
        <4> DEFINE v == IF q.cmd.op = "base" THEN "feature" ELSE q.read[a].base
        <4>2. WithBase(q) = [q.read[a] EXCEPT !.base = v] /\ v \in Branches
          BY <4>1 DEF WithBase
        <4> HIDE DEF v
        <4>3. [q.read[a] EXCEPT !.base = v] \in Task
          BY <2>1, <4>2, UpdatesAreTasks
        <4>4. [q.read[a] EXCEPT !.base = v].id = q.read[a].id
          BY <2>1, SameIds
        <4> QED
          BY <4>2, <4>3, <4>4
      <3> QED
        BY <3>1, SameIds DEF WithField
    <2>3. Write(a, WithField(q))
      BY <1>14 DEF FieldWrite
    <2> QED
      BY <1>3, <2>1, <2>2, <2>3, WriteRewrites
  <1>15. CASE CreateActivate(w) \/ HookRead(w) \/ WriteFails(w) \/ RenameBlocked(w)
              \/ RenameSessions(w) \/ ArchiveReadKid(w) \/ ArchiveSessions(w)
              \/ ArchiveBlocked(w)
    BY <1>15 DEF CreateActivate, HookRead, WriteFails, RenameBlocked,
       RenameSessions, ArchiveReadKid, ArchiveSessions, ArchiveBlocked
  <1>16. CASE CommitAdd(w) \/ CommitRm(w) \/ CommitArchive(w) \/ StartGate(w)
              \/ StartPoint(w) \/ ReadOwn(w) \/ FinishClear(w) \/ Stop(w)
    BY <1>16 DEF CommitAdd, CommitRm, CommitArchive, StartGate, StartPoint,
       ReadOwn, FinishClear, Stop
  <1> QED
    BY <1>6, <1>7, <1>8, <1>9, <1>10, <1>11, <1>12, <1>13, <1>14, <1>15,
       <1>16 DEF Continue

\* What the hook writes, and what it leaves when it is killed.
LEMMA HookWrites ==
    ASSUME IInv, NEW w \in Windows, HookWrite(w)
    PROVE  LET n == win[w].cmd.a
           IN  /\ n \in Names /\ n \in Handled(win[w]) /\ UNCHANGED archived
               /\ \/ UNCHANGED taskVars
                  \/ \E x : Rewrite(w, n, x)
                  \/ /\ active[n] # None /\ active' = [active EXCEPT ![n] = Bare]
                     /\ Mark(Handled(win[w]), [win[w].cmd EXCEPT !.op = "sync"]) \subseteq broken'
  <1> USE DEF IInv, Step
  <1> DEFINE n == win[w].cmd.a
             t == win[w].read[n]
  <1>1. n \in Names /\ t \in Task /\ win[w].pc = "issue" /\ UNCHANGED archived
    BY WindowFacts DEF HookWrite, WindowOK, ReadA
  <1>2. n \in Handled(win[w])
    BY <1>1, IsHandled, TasksAssumption DEF TasksAssumption
  <1>3. Stored(n, t) \in Task /\ Stored(n, t).id = t.id /\ t # None
    BY <1>1, StoredIsTask, StoredId, TasksAssumption DEF TasksAssumption
  <1>4. \/ active' = [active EXCEPT ![n] = IF @ = None THEN None ELSE Stored(n, t)]
        \/ /\ active[n] # None /\ active' = [active EXCEPT ![n] = Bare]
           /\ Mark(Handled(win[w]), [win[w].cmd EXCEPT !.op = "sync"]) \subseteq broken'
    BY DEF HookWrite
  <1>5. ASSUME active' = [active EXCEPT ![n] = IF @ = None THEN None ELSE Stored(n, t)]
        PROVE  UNCHANGED taskVars \/ \E x : Rewrite(w, n, x)
    <2>1. CASE active[n] = None
      BY <1>1, <1>5, <2>1 DEF StoreOK, taskVars
    <2>2. CASE active[n] # None
      <3> DEFINE y == Stored(n, t)
      <3>1. active' = [active EXCEPT ![n] = y]
        BY <1>1, <1>5, <2>2 DEF StoreOK
      <3>2. /\ y \in Task /\ y.id = win[w].read[n].id /\ win[w].read[n] # None
            /\ HasRecord(n) => y.manifest = active[n].manifest
        BY <1>1, <1>3, StoredManifest
      <3> HIDE DEF y
      <3>3. Rewrite(w, n, y)
        BY <1>1, <1>2, <2>2, <3>1, <3>2 DEF Rewrite
      <3> QED
        BY <3>3
    <2> QED
      BY <2>1, <2>2
  <1> QED
    BY <1>1, <1>2, <1>4, <1>5

\* The new record.
LEMMA NewRecord ==
    ASSUME IInv, NEW w \in Windows, CreateRecord(w)
    PROVE  LET c == win[w].cmd
               t == NewTask(Cardinality(made) + 1, c.a)
           IN  /\ c.a \in Names /\ c.a \in Handled(win[w]) /\ win[w].pc = "new"
               /\ t \in Task /\ t.id = Cardinality(made) + 1 /\ t.id \in Ids
               /\ Stored(c.a, t) \in Task /\ Stored(c.a, t).id = t.id
               /\ active[c.a] # None /\ active' = [active EXCEPT ![c.a] = Stored(c.a, t)]
               /\ UNCHANGED archived
  <1> DEFINE c == win[w].cmd
             t == NewTask(Cardinality(made) + 1, c.a)
  <1>1. c.a \in Names /\ win[w].pc = "new"
    BY WindowFacts DEF CreateRecord, WindowOK, IInv, Step
  <1>2. c.a \in Handled(win[w])
    BY <1>1, IsHandled, TasksAssumption DEF TasksAssumption
  <1>3. Cardinality(made) + 1 \in Ids
    BY FS_CardinalityType DEF HistoryOK, Ids, IInv
  <1>4. t \in Task /\ t.id = Cardinality(made) + 1
    BY <1>1, <1>3, NewIsTask DEF NewTask
  <1>5. Write(c.a, t)
    BY DEF CreateRecord
  <1> HIDE DEF t
  <1>6. Stored(c.a, t) \in Task /\ Stored(c.a, t).id = t.id
    BY <1>1, <1>4, StoredIsTask, StoredId DEF IInv
  <1>7. active[c.a] # None /\ active' = [active EXCEPT ![c.a] = Stored(c.a, t)]
        /\ UNCHANGED archived
    BY <1>5 DEF Write
  <1> QED
    BY <1>1, <1>2, <1>3, <1>4, <1>6, <1>7 DEF t

\* The steps of a command that may take a directory away.
LEMMA DirsKept ==
    ASSUME IInv, NEW w \in Windows, Continue(w),
           ~CreateFails(w), ~RenameMove(w), ~ArchiveMove(w)
    PROVE  Dirs' = Dirs
  <1>0. active \in [Names -> Record] /\ None \notin Task /\ Bare # None
    BY TasksAssumption DEF TasksAssumption, IInv, StoreOK
  <1>1. ASSUME NEW n, NEW x, Rewrite(w, n, x)
        PROVE  Dirs' = Dirs
    BY <1>0, <1>1 DEF Rewrite, Dirs
  <1>2. CASE UNCHANGED taskVars
    BY <1>2, DirsStay
  <1>3. CASE CreateRecord(w)
    <2> DEFINE n == win[w].cmd.a
               x == Stored(n, NewTask(Cardinality(made) + 1, n))
    <2>1. n \in Names /\ x \in Task /\ active[n] # None /\ active' = [active EXCEPT ![n] = x]
      BY <1>3, NewRecord
    <2> HIDE DEF x
    <2> QED
      BY <1>0, <2>1 DEF Dirs
  <1>4. CASE HookWrite(w)
    <2>1. ASSUME active[win[w].cmd.a] # None,
                 active' = [active EXCEPT ![win[w].cmd.a] = Bare]
          PROVE  Dirs' = Dirs
      BY <1>0, <2>1 DEF Dirs
    <2> QED
      BY <1>1, <1>2, <1>4, <2>1, HookWrites
  <1> QED
    BY <1>1, <1>2, <1>3, <1>4, Rewrites

-----------------------------------------------------------------------------
(* Pointers and directories.  A pointer names no directory only if a step  *)
(* could not bring it along, or a rename is on its way to it: an archive   *)
(* that is past clearing the pointers of its task leaves none behind that  *)
(* is not adrift.                                                          *)

Warned ==
    \A w, k \in Windows : Step(w, "shelve") /\ ptr[k] = win[w].cmd.a => k \in adrift

Reached(k) ==
    \/ ptr[k] \in Dirs \cup {None} \/ k \in adrift
    \/ \E w \in Windows : Step(w, "sessions") /\ win[w].cmd.a = ptr[k]

PtrInv == Warned /\ \A k \in Windows : Reached(k)

LEMMA PtrStart == Init => PtrInv
  <1> SUFFICES ASSUME Init
               PROVE  PtrInv
    OBVIOUS
  <1>1. \A w \in Windows : win[w].pc = "idle"
    BY DEF Init, Idle
  <1>2. \A k \in Windows : ptr[k] \in Dirs \cup {None}
    BY TasksAssumption DEF TasksAssumption, Init, Dirs
  <1> QED
    BY <1>1, <1>2 DEF PtrInv, Warned, Reached, Step

\* A step of window w that leaves the pointers where they are and the
\* directories there.
LEMMA PtrStays ==
    ASSUME PtrInv, NEW w \in Windows, Alone(w), ptr' = ptr, adrift \subseteq adrift',
           Dirs \subseteq Dirs', win'[w].pc # "shelve",
           win[w].pc = "sessions" => \A k \in Windows : ptr[k] = win[w].cmd.a => k \in adrift'
    PROVE  PtrInv'
  <1>1. ASSUME NEW v \in Windows, NEW k \in Windows, win'[v].pc = "shelve",
               ptr'[k] = win'[v].cmd.a
        PROVE  k \in adrift'
    BY <1>1 DEF PtrInv, Warned, Step, Alone
  <1>2. ASSUME NEW k \in Windows
        PROVE  Reached(k)'
    <2>1. Reached(k)
      BY DEF PtrInv
    <2>2. ASSUME NEW v \in Windows, win[v].pc = "sessions", win[v].cmd.a = ptr[k]
          PROVE  k \in adrift' \/ (win'[v].pc = "sessions" /\ win'[v].cmd.a = ptr'[k])
      BY <2>2 DEF Alone
    <2> QED
      BY <2>1, <2>2 DEF Reached, Step
  <1> QED
    BY <1>1, <1>2 DEF PtrInv, Warned, Step

LEMMA PtrCalled ==
    ASSUME IInv, PtrInv, NEW w \in Windows, NEW c, WellFormed(c), Called(w, c)
    PROVE  PtrInv'
  BY Beginnings, PtrStays

\* A window that is not in the way of another one's pointers.
LEMMA PtrTurns ==
    ASSUME IInv, PtrInv, NEW w \in Windows, Turn(w), win[w].pc \notin {"kids", "sessions"},
           ptr' = ptr, adrift \subseteq adrift', Dirs \subseteq Dirs'
    PROVE  PtrInv'
  <1>1. win'[w].pc # "shelve"
    BY DEF Turn, Proceeds, Follows, Idle
  <1> QED
    BY <1>1, PtrStays DEF Turn

LEMMA PtrCreateFails ==
    ASSUME IInv, PtrInv, NEW w \in Windows, CreateFails(w)
    PROVE  PtrInv'
  <1> DEFINE n == win[w].cmd.a
             gone == win[w].cmd.op = "create" /\ active[n] = Bare
  <1>1. Turn(w) /\ win[w].pc = "new" /\ ptr' = ptr
    BY Turns DEF Continue, CreateFails, Step, sessionVars
  <1>2. adrift \subseteq adrift'
    BY DEF CreateFails
  <1>3. CASE ~gone
    <2>1. Dirs' = Dirs
      BY <1>3 DEF CreateFails, Dirs
    <2> QED
      BY <1>1, <1>2, <2>1, PtrTurns
  <1>4. CASE gone
    <2>1. active' = [active EXCEPT ![n] = None]
          /\ adrift' = adrift \cup {k \in Windows : ptr[k] = n}
      BY <1>4 DEF CreateFails
    <2>2. Dirs \ {n} \subseteq Dirs'
      BY <2>1 DEF Dirs, IInv, StoreOK
    <2>3. win'[w].pc # "shelve" /\ Alone(w) /\ win'[w].pc # "sessions"
      BY <1>1 DEF Turn, Proceeds, Follows, Idle
    <2>4. ASSUME NEW v \in Windows, NEW k \in Windows, win'[v].pc = "shelve",
                 ptr'[k] = win'[v].cmd.a
          PROVE  k \in adrift'
      BY <1>1, <1>2, <2>3, <2>4 DEF PtrInv, Warned, Step, Alone
    <2>5. ASSUME NEW k \in Windows
          PROVE  Reached(k)'
      <3>1. Reached(k)
        BY DEF PtrInv
      <3>2. CASE ptr[k] = n
        BY <2>1, <3>2 DEF Reached
      <3>3. CASE ptr[k] # n
        BY <1>1, <1>2, <2>2, <2>3, <3>1, <3>3 DEF Reached, Step, Alone
      <3> QED
        BY <3>2, <3>3
    <2> QED
      BY <2>4, <2>5 DEF PtrInv, Warned, Step
  <1> QED
    BY <1>3, <1>4

\* A pointer is set to a directory that is there; it is adrift if an
\* archive of the task has cleared the pointers already.
LEMMA PtrPoints ==
    ASSUME IInv, PtrInv, NEW w \in Windows, Turn(w), NEW x, NEW n, Points(x, n),
           win[w].pc \in {"activate", "point"}, Dirs' = Dirs
    PROVE  PtrInv'
  <1>1. x \in Windows /\ n \in Dirs /\ ptr' = [ptr EXCEPT ![x] = n]
    BY DEF Points, S!SetActive
  <1>2. adrift' = IF PastClearing(n) THEN adrift \cup {x} ELSE adrift \ {x}
    BY DEF Points
  <1>3. /\ ptr'[x] = n /\ \A k \in Windows \ {x} : ptr'[k] = ptr[k]
        /\ \A k \in Windows \ {x} : k \in adrift => k \in adrift'
    BY <1>1, <1>2 DEF IInv, PointersOK
  <1>4. win'[w].pc \notin {"shelve", "sessions"} /\ Alone(w)
    BY DEF Turn, Proceeds, Follows, Idle
  <1>5. ASSUME NEW v \in Windows, NEW k \in Windows, win'[v].pc = "shelve",
               ptr'[k] = win'[v].cmd.a
        PROVE  k \in adrift'
    <2>1. v # w /\ win[v].pc = "shelve" /\ win[v].cmd.a = ptr'[k]
      BY <1>4, <1>5 DEF Alone
    <2>2. CASE k = x
      <3>1. PastClearing(n)
        BY <1>3, <2>1, <2>2 DEF PastClearing, Step
      <3> QED
        BY <1>2, <2>2, <3>1
    <2>3. CASE k # x
      BY <1>3, <2>1, <2>3 DEF PtrInv, Warned, Step
    <2> QED
      BY <2>2, <2>3
  <1>6. ASSUME NEW k \in Windows
        PROVE  Reached(k)'
    <2>1. CASE k = x
      BY <1>1, <1>3, <2>1 DEF Reached
    <2>2. CASE k # x
      <3>1. Reached(k)
        BY DEF PtrInv
      <3> QED
        BY <1>3, <1>4, <2>2, <3>1 DEF Reached, Step, Alone
    <2> QED
      BY <2>1, <2>2
  <1> QED
    BY <1>5, <1>6 DEF PtrInv, Warned, Step

LEMMA PtrActivate ==
    ASSUME IInv, PtrInv, NEW w \in Windows, CreateActivate(w) \/ StartPoint(w)
    PROVE  PtrInv'
  <1>1. Turn(w) /\ win[w].pc \in {"activate", "point"}
    BY Turns DEF Continue, CreateActivate, StartPoint, Step
  <1>2. Dirs' = Dirs
    BY DirsStay DEF CreateActivate, StartPoint
  <1>3. \/ \E x, n : Points(x, n)
        \/ UNCHANGED <<sessionVars, adrift>>
    BY DEF CreateActivate, StartPoint
  <1>4. CASE UNCHANGED <<sessionVars, adrift>>
    BY <1>1, <1>2, <1>4, PtrTurns DEF sessionVars
  <1> QED
    BY <1>1, <1>2, <1>3, <1>4, PtrPoints

LEMMA PtrRenameMove ==
    ASSUME IInv, PtrInv, NEW w \in Windows, RenameMove(w)
    PROVE  PtrInv'
  <1> DEFINE o == win[w].cmd.a
             n == win[w].cmd.b
  <1>1. /\ active' = [active EXCEPT ![o] = None, ![n] = active[o]]
        /\ active[o] # None /\ ptr' = ptr /\ adrift' = adrift
        /\ Go(w, "sessions") /\ win[w].pc = "backrefs"
    BY DEF RenameMove, MayMove, sessionVars
  <1>2. Alone(w) /\ win'[w].pc = "sessions" /\ win'[w].cmd = win[w].cmd
    <2>1. "sessions" \in Pcs
      BY DEF Pcs
    <2> QED
      BY <1>1, <2>1, GoTurns DEF IInv
  <1>3. Dirs \ {o} \subseteq Dirs'
    BY <1>1 DEF Dirs, IInv, StoreOK
  <1>4. ASSUME NEW v \in Windows, NEW k \in Windows, win'[v].pc = "shelve",
               ptr'[k] = win'[v].cmd.a
        PROVE  k \in adrift'
    BY <1>1, <1>2, <1>4 DEF PtrInv, Warned, Step, Alone
  <1>5. ASSUME NEW k \in Windows
        PROVE  Reached(k)'
    <2>1. CASE ptr[k] = o
      BY <1>1, <1>2, <2>1 DEF Reached, Step
    <2>2. CASE ptr[k] # o
      <3>1. Reached(k)
        BY DEF PtrInv
      <3> QED
        BY <1>1, <1>2, <1>3, <2>2, <3>1 DEF Reached, Step, Alone
    <2> QED
      BY <2>1, <2>2
  <1> QED
    BY <1>4, <1>5 DEF PtrInv, Warned, Step

LEMMA PtrRenameSessions ==
    ASSUME IInv, PtrInv, NEW w \in Windows, RenameSessions(w)
    PROVE  PtrInv'
  <1> DEFINE o == win[w].cmd.a
             n == win[w].cmd.b
             at == {k \in Windows : ptr[k] = o}
             lost == PastClearing(n) \/ n \notin Dirs
  <1>1. PICK kept \in SUBSET at :
             /\ ptr' = [k \in Windows |-> IF ptr[k] = o /\ k \notin kept THEN n ELSE ptr[k]]
             /\ adrift' = adrift \cup (IF lost THEN at ELSE kept)
    BY DEF RenameSessions, S!RepointTask
  <1>2. win[w].pc = "sessions" /\ win'[w].pc = "idle" /\ Alone(w) /\ Dirs' = Dirs
    BY LeaveTurns, DirsStay DEF RenameSessions, Complete, Step, IInv, Idle
  <1>3. \A k \in Windows :
           \/ k \in at /\ k \notin kept /\ ptr'[k] = n
           \/ k \in kept /\ ptr'[k] = ptr[k]
           \/ k \notin at /\ ptr'[k] = ptr[k]
    BY <1>1
  <1>4. kept \subseteq adrift' /\ adrift \subseteq adrift' /\ (lost => at \subseteq adrift')
    BY <1>1
  <1>5. \A k \in Windows : ptr[k] = o <=> k \in at
    OBVIOUS
  <1> HIDE DEF at
  <1>6. ASSUME NEW v \in Windows, NEW k \in Windows, win'[v].pc = "shelve",
               ptr'[k] = win'[v].cmd.a
        PROVE  k \in adrift'
    <2>1. win[v].pc = "shelve" /\ ptr'[k] = win[v].cmd.a
      BY <1>2, <1>6 DEF Alone
    <2>2. CASE k \in at /\ k \notin kept /\ ptr'[k] = n
      <3>1. PastClearing(n)
        BY <2>1, <2>2 DEF PastClearing, Step
      <3> QED
        BY <1>4, <2>2, <3>1
    <2>3. CASE ptr'[k] = ptr[k]
      BY <1>4, <2>1, <2>3 DEF PtrInv, Warned, Step
    <2> QED
      BY <1>3, <2>2, <2>3
  <1>7. ASSUME NEW k \in Windows
        PROVE  Reached(k)'
    <2>1. Reached(k)
      BY DEF PtrInv
    <2>2. CASE k \in at /\ k \notin kept /\ ptr'[k] = n
      BY <1>2, <1>4, <2>2 DEF Reached
    <2>3. CASE k \in kept
      BY <1>4, <2>3 DEF Reached
    <2>4. CASE k \notin at /\ ptr'[k] = ptr[k]
      BY <1>2, <1>4, <1>5, <2>1, <2>4 DEF Reached, Step, Alone
    <2> QED
      BY <1>3, <2>2, <2>3, <2>4
  <1> QED
    BY <1>6, <1>7 DEF PtrInv, Warned, Step

LEMMA PtrArchiveSessions ==
    ASSUME IInv, PtrInv, NEW w \in Windows, ArchiveSessions(w)
    PROVE  PtrInv'
  <1> DEFINE n == win[w].cmd.a
  <1>1. PICK kept :
             /\ ptr' = [k \in Windows |-> IF ptr[k] = n /\ k \notin kept THEN None ELSE ptr[k]]
             /\ adrift' = adrift \cup kept
    BY DEF ArchiveSessions, S!ClearTask
  <1>2. /\ Alone(w) /\ win[w].pc = "kids" /\ win'[w].pc = "shelve"
        /\ win'[w].cmd = win[w].cmd /\ Dirs' = Dirs
    BY GoTurns, PcsAre, DirsStay DEF ArchiveSessions, Step, IInv
  <1>3. n \in Names /\ \A v \in Windows : win[v].pc = "shelve" => win[v].cmd.a \in Names
    BY <1>2, WindowFacts DEF IInv, WindowOK
  <1>4. ASSUME NEW v \in Windows, NEW k \in Windows, win'[v].pc = "shelve",
               ptr'[k] = win'[v].cmd.a
        PROVE  k \in adrift'
    <2>1. ptr'[k] # None
      BY <1>2, <1>3, <1>4, TasksAssumption DEF TasksAssumption, Alone
    <2>2. ptr'[k] = ptr[k] /\ (ptr[k] # n \/ k \in kept)
      BY <1>1, <2>1
    <2>3. CASE v = w
      BY <1>1, <1>2, <1>4, <2>2, <2>3
    <2>4. CASE v # w
      BY <1>1, <1>4, <2>2, <2>4, <1>2 DEF PtrInv, Warned, Step, Alone
    <2> QED
      BY <2>3, <2>4
  <1>5. ASSUME NEW k \in Windows
        PROVE  Reached(k)'
    <2>1. Reached(k)
      BY DEF PtrInv
    <2>2. CASE ptr'[k] = None
      BY <2>2 DEF Reached
    <2>3. CASE ptr'[k] = ptr[k]
      BY <1>1, <1>2, <2>1, <2>3 DEF Reached, Step, Alone
    <2> QED
      BY <1>1, <2>2, <2>3
  <1> QED
    BY <1>4, <1>5 DEF PtrInv, Warned, Step

LEMMA PtrArchiveMove ==
    ASSUME IInv, PtrInv, NEW w \in Windows, ArchiveMove(w)
    PROVE  PtrInv'
  <1> DEFINE n == win[w].cmd.a
  <1>1. /\ active' = [active EXCEPT ![n] = None] /\ ptr' = ptr /\ adrift' = adrift
        /\ win[w].pc = "shelve"
    BY DEF ArchiveMove, Step, sessionVars
  <1>2. Alone(w) /\ win'[w].pc \notin {"shelve", "sessions"}
    BY <1>1, Turns DEF Continue, Turn, Proceeds, Follows, Idle
  <1>3. Dirs \ {n} \subseteq Dirs'
    BY <1>1 DEF Dirs, IInv, StoreOK
  <1>4. ASSUME NEW v \in Windows, NEW k \in Windows, win'[v].pc = "shelve",
               ptr'[k] = win'[v].cmd.a
        PROVE  k \in adrift'
    BY <1>1, <1>2, <1>4 DEF PtrInv, Warned, Step, Alone
  <1>5. ASSUME NEW k \in Windows
        PROVE  Reached(k)'
    <2>1. CASE ptr[k] = n
      BY <1>1, <2>1 DEF PtrInv, Warned, Step, Reached
    <2>2. CASE ptr[k] # n
      <3>1. Reached(k)
        BY DEF PtrInv
      <3> QED
        BY <1>1, <1>2, <1>3, <2>2, <3>1 DEF Reached, Step, Alone
    <2> QED
      BY <2>1, <2>2
  <1> QED
    BY <1>4, <1>5 DEF PtrInv, Warned, Step

LEMMA PtrFinishClear ==
    ASSUME IInv, PtrInv, NEW w \in Windows, FinishClear(w)
    PROVE  PtrInv'
  <1>1. /\ win[w].pc = "clear" /\ win'[w].pc = "idle" /\ Alone(w) /\ Dirs' = Dirs
    BY LeaveTurns, DirsStay DEF FinishClear, Step, IInv, Idle
  <1>2. CASE UNCHANGED <<sessionVars, adrift>>
    BY <1>1, <1>2, PtrStays DEF sessionVars
  <1>3. CASE ~UNCHANGED <<sessionVars, adrift>>
    <2>1. PICK x : ptr' = [ptr EXCEPT ![x] = None] /\ adrift' = adrift \ {x}
      BY <1>3 DEF FinishClear, S!ClearActive
    <2>2. \A k \in Windows : \/ ptr'[k] = None
                             \/ ptr'[k] = ptr[k] /\ (k \in adrift => k \in adrift')
      BY <2>1 DEF IInv, PointersOK
    <2>3. \A v \in Windows : win[v].pc = "shelve" => win[v].cmd.a # None
      BY WindowFacts, TasksAssumption DEF TasksAssumption, IInv, WindowOK
    <2>4. ASSUME NEW v \in Windows, NEW k \in Windows, win'[v].pc = "shelve",
                 ptr'[k] = win'[v].cmd.a
          PROVE  k \in adrift'
      BY <1>1, <2>2, <2>3, <2>4 DEF PtrInv, Warned, Step, Alone
    <2>5. ASSUME NEW k \in Windows
          PROVE  Reached(k)'
      <3>1. Reached(k)
        BY DEF PtrInv
      <3> QED
        BY <1>1, <2>2, <3>1 DEF Reached, Step, Alone
    <2> QED
      BY <2>4, <2>5 DEF PtrInv, Warned, Step
  <1> QED
    BY <1>2, <1>3

LEMMA PtrStop ==
    ASSUME IInv, PtrInv, NEW w \in Windows, Stop(w)
    PROVE  PtrInv'
  <1>1. win'[w].pc = "idle" /\ Alone(w) /\ Dirs' = Dirs /\ ptr' = ptr
    BY LeaveTurns, DirsStay DEF Stop, GiveUp, IInv, Idle, sessionVars
  <1>2. adrift \subseteq adrift'
        /\ (win[w].pc = "sessions" => \A k \in Windows : ptr[k] = win[w].cmd.a => k \in adrift')
    BY DEF Stop, Step
  <1> QED
    BY <1>1, <1>2, PtrStays

\* The other steps leave the pointers alone.
LEMMA OthersKeepAdrift ==
    ASSUME NEW w \in Windows, Continue(w), ~CreateFails(w), ~CreateActivate(w),
           ~RenameSessions(w), ~ArchiveSessions(w), ~StartPoint(w), ~FinishClear(w), ~Stop(w)
    PROVE  adrift' = adrift
  BY DEF Continue, CreateRecord, HookRead, HookWrite, WriteParent, WriteChild, WriteFails,
     RenameOwn, RenameManifest, RenameTorn, RenameBackref, RenameMove, RenameBlocked,
     ArchiveOwn, ArchiveReadKid, ArchiveUnlink, ArchiveMove, ArchiveBlocked,
     CommitAdd, CommitRm, CommitArchive, StartGate, ReadOwn, StartFlip, FieldWrite

\* Who leaves the steps that deal with the pointers.
LEMMA LeavesClearing ==
    ASSUME IInv, NEW w \in Windows, Continue(w), win[w].pc = "sessions"
    PROVE  RenameSessions(w) \/ Stop(w)
  BY DEF Continue, Step, MayMove, CreateRecord, CreateFails, CreateActivate, HookRead, HookWrite,
     WriteParent, WriteChild, WriteFails, RenameOwn, RenameManifest, RenameTorn,
     RenameBackref, RenameMove, RenameBlocked, ArchiveOwn, ArchiveReadKid, ArchiveUnlink,
     ArchiveSessions, ArchiveMove, ArchiveBlocked, CommitAdd, CommitRm, CommitArchive,
     StartGate, StartPoint, ReadOwn, StartFlip, FinishClear, FieldWrite

LEMMA EntersShelve ==
    ASSUME IInv, NEW w \in Windows, Continue(w), win[w].pc = "kids"
    PROVE  ArchiveSessions(w) \/ Stop(w) \/ win'[w].pc # "shelve"
  <1>1. ArchiveSessions(w) \/ Stop(w) \/ ArchiveReadKid(w)
    BY DEF Continue, Step, MayMove, CreateRecord, CreateFails, CreateActivate, HookRead, HookWrite,
     WriteParent, WriteChild, WriteFails, RenameOwn, RenameManifest, RenameTorn,
     RenameBackref, RenameMove, RenameBlocked, RenameSessions, ArchiveOwn, ArchiveUnlink,
     ArchiveMove, ArchiveBlocked, CommitAdd, CommitRm, CommitArchive,
     StartGate, StartPoint, ReadOwn, StartFlip, FinishClear, FieldWrite
  <1>2. CASE ArchiveReadKid(w)
    <2>1. PICK n \in KidsLeft(win[w]) :
               win' = [win EXCEPT ![w].pc = "kid", ![w].read[n] = active[n]]
      BY <1>2 DEF ArchiveReadKid
    <2>2. n \in Names /\ HasRecord(n)
      BY RecordIs DEF KidsLeft, IInv
    <2>3. "kid" \in Pcs /\ "kid" # "shelve"
      BY DEF Pcs
    <2>4. win'[w].pc = "kid"
      BY <2>1, <2>2, <2>3, ReadsGo DEF LooksAt, HasRead
    <2> QED
      BY <2>3, <2>4
  <1> QED
    BY <1>1, <1>2

LEMMA PtrContinue ==
    ASSUME IInv, PtrInv, NEW w \in Windows, Continue(w)
    PROVE  PtrInv'
  <1>1. CASE CreateFails(w) \/ CreateActivate(w) \/ StartPoint(w) \/ RenameMove(w)
             \/ RenameSessions(w) \/ ArchiveSessions(w) \/ ArchiveMove(w)
             \/ FinishClear(w) \/ Stop(w)
    BY <1>1, PtrCreateFails, PtrActivate, PtrRenameMove, PtrRenameSessions,
       PtrArchiveSessions, PtrArchiveMove, PtrFinishClear, PtrStop
  <1>2. CASE ~(CreateFails(w) \/ CreateActivate(w) \/ StartPoint(w) \/ RenameMove(w)
               \/ RenameSessions(w) \/ ArchiveSessions(w) \/ ArchiveMove(w)
               \/ FinishClear(w) \/ Stop(w))
    <2>1. Turn(w) /\ ptr' = ptr /\ adrift' = adrift /\ Dirs' = Dirs
      BY <1>2, Turns, OthersKeepPointers, OthersKeepAdrift, DirsKept
    <2>2. win[w].pc # "sessions" /\ win'[w].pc # "shelve"
      BY <1>2, <2>1, LeavesClearing, EntersShelve DEF Turn, Proceeds, Follows, Idle
    <2> QED
      BY <2>1, <2>2, PtrStays DEF Turn
  <1> QED
    BY <1>1, <1>2

LEMMA PtrKeeps == IInv /\ PtrInv /\ [Next]_vars => PtrInv'
  <1> SUFFICES ASSUME IInv, PtrInv, [Next]_vars
               PROVE  PtrInv'
    OBVIOUS
  <1>1. CASE UNCHANGED vars
    BY <1>1, DirsStay DEF vars, taskVars, PtrInv, Warned, Reached, Step
  <1>2. CASE Expire
    <2>1. UNCHANGED <<win, ptr, adrift>> /\ Dirs' = Dirs
      BY <1>2, DirsStay DEF Expire, S!ExpireTicket
    <2> QED
      BY <2>1 DEF PtrInv, Warned, Reached, Step
  <1>3. ASSUME NEW w \in Windows, NEW c \in Menu[w], Called(w, c)
        PROVE  PtrInv'
    BY <1>3, PtrCalled, MenuAssumption DEF MenuAssumption
  <1> QED
    BY <1>1, <1>2, <1>3, PtrContinue DEF Next

\* What the per-turn hook resolves for a window with a pointer.
LEMMA ToldIs ==
    ASSUME NEW k \in S!SessionFiles \cap Hooked, NEW heard \in BOOLEAN
    PROVE  LET r == S!ResolveActive(S!TurnKey(k, heard), TRUE).task
           IN  r = ptr[k] \/ (~heard /\ r = None)
  <1> DEFINE x == S!TurnKey(k, heard)
             r == S!ResolveActive(x, TRUE)
  <1>1. k \in Windows
    BY DEF S!SessionFiles
  <1>2. CASE x = k
    BY <1>2 DEF S!ResolveActive, S!Active
  <1>3. CASE x # k
    <2>1. ~heard /\ x = None
      BY <1>3 DEF S!TurnKey, S!HookKey, S!EnvKey
    <2>2. r = S!SingleSession
      BY <2>1, TasksAssumption DEF TasksAssumption, S!ResolveActive, S!SessionFiles
    <2>3. CASE \E y \in Windows : S!SessionFiles = {y}
      <3> DEFINE y == CHOOSE z \in Windows : S!SessionFiles = {z}
      <3>1. S!SessionFiles = {y}
        BY <2>3
      <3>2. S!SingleSession.task = ptr[y]
        BY <2>3 DEF S!SingleSession, S!Active
      <3> HIDE DEF y
      <3>3. y = k
        BY <3>1
      <3> QED
        BY <2>2, <3>2, <3>3
    <2>4. CASE ~\E y \in Windows : S!SessionFiles = {y}
      <3>1. S!SingleSession = S!NoTask
        BY <2>4, Zenon DEF S!SingleSession
      <3>2. S!NoTask.task = None
        BY DEF S!NoTask
      <3>3. r.task = None
        BY <2>2, <3>1, <3>2
      <3> QED
        BY <2>1, <3>3
    <2> QED
      BY <2>3, <2>4
  <1> QED
    BY <1>2, <1>3

LEMMA StatusIs ==
    ASSUME IInv, NEW n \in Names
    PROVE  Status[n] \in {"planning", "in_progress", "completed", "task_error"}
  <1>1. HasRecord(n) => active[n].status \in {"planning", "in_progress", "completed"}
    BY RecordIs DEF IInv, Task
  <1> QED
    BY <1>1 DEF Status

\* Every state but a stale pointer has a block of its own.
LEMMA AdviceIs ==
    ASSUME NEW s \in {"no_task", "planning", "in_progress", "completed", "task_error"}
    PROVE  S!Advice(s, "inline") # <<"generic">>
  <1>1. <<s, "inline">> # <<"generic">> /\ <<s, "auto">> # <<"generic">>
    OBVIOUS
  <1>2. <<s, "inline">> \in S!Templates \/ <<s, "auto">> \in S!Templates
    BY DEF S!Templates
  <1> QED
    BY <1>1, <1>2 DEF S!Advice

LEMMA PtrResolves == IInv /\ PtrInv => PointersResolve
  <1> SUFFICES ASSUME IInv, PtrInv,
                      NEW k \in S!SessionFiles \cap Hooked, NEW heard \in BOOLEAN
               PROVE  LET told == S!Breadcrumb(k, heard, Status)
                      IN  /\ told.task = ptr[k] \/ (~heard /\ told.task = None)
                          /\ told.state = "stale" =>
                                \/ k \in adrift
                                \/ \E w \in Windows :
                                       Step(w, "sessions") /\ win[w].cmd.a = ptr[k]
                          /\ told.state # "stale" =>
                                S!Advice(told.state, "inline") # <<"generic">>
    BY DEF PointersResolve
  <1> DEFINE r == S!ResolveActive(S!TurnKey(k, heard), TRUE)
             told == S!Breadcrumb(k, heard, Status)
  <1>1. k \in Windows /\ ptr[k] \in Names
    BY DEF S!SessionFiles, IInv, PointersOK
  <1>2. r.task = ptr[k] \/ (~heard /\ r.task = None)
    BY ToldIs
  <1>3. r.task \in Names \/ r.task = None
    BY <1>1, <1>2
  <1>4. /\ told.task = r.task
        /\ told.state = IF r.task = None THEN "no_task"
                        ELSE IF r.task # None /\ r.task \notin Dirs THEN "stale"
                        ELSE Status[r.task]
    BY DEF S!Breadcrumb, S!Stale
  <1> HIDE DEF r, told
  <1>5. ASSUME told.state = "stale"
        PROVE  k \in adrift \/ \E w \in Windows : Step(w, "sessions") /\ win[w].cmd.a = ptr[k]
    <2>1. r.task # None
      BY <1>4, <1>5
    <2>2. r.task \in Names /\ r.task = ptr[k]
      BY <1>2, <1>3, <2>1
    <2>3. r.task \notin Dirs
      <3> SUFFICES ASSUME r.task \in Dirs
                   PROVE  FALSE
        OBVIOUS
      <3>1. Status[r.task] = "stale"
        BY <1>4, <1>5, <2>1
      <3> QED
        BY <2>2, <3>1, StatusIs
    <2> QED
      BY <1>1, <2>1, <2>2, <2>3 DEF PtrInv, Reached
  <1>6. ASSUME told.state # "stale"
        PROVE  S!Advice(told.state, "inline") # <<"generic">>
    <2>1. told.state \in {"no_task", "planning", "in_progress", "completed", "task_error"}
      BY <1>3, <1>4, <1>6, StatusIs
    <2> QED
      BY <2>1, AdviceIs
  <1> QED
    BY <1>2, <1>4, <1>5, <1>6 DEF told

(* A session with a pointer hears of its own task, and that the task is    *)
(* gone only after a step that failed or raced, or until a rename gets to  *)
(* the pointers; an archive that is past clearing them leaves no other.    *)
THEOREM PointersHold == Spec => []PointersResolve
  <1> QED
    BY InitKeeps, NextKeeps, PtrStart, PtrKeeps, PtrResolves, PTL DEF Spec

-----------------------------------------------------------------------------
(* Which task is where.  What the proofs below need to know of a record is *)
(* its creation: Id, Kept and Seen give it for the record among the active *)
(* tasks, the one in the archive and the one a window has read, 0 for none.*)

Id(n) == IF HasRecord(n) THEN active[n].id ELSE 0
Kept(n) == IF n \in OnShelf THEN archived[n].id ELSE 0
Seen(w, n) == IF win[w].read[n] = None THEN 0 ELSE win[w].read[n].id
Free == crossed \cup {0}

\* The course of a command, by its name.
Flow(q) ==
    /\ q.pc = "idle" => q = Idle
    /\ q.pc \in {"new", "activate", "hook", "issue"} => q.cmd.op \in {"create", "force"}
    /\ q.pc \in {"parent", "child"} => q.cmd.op \in {"create", "force", "link", "unlink"}
    /\ q.pc = "own" => q.cmd.op \in {"rename", "archive", "hurried"}
    /\ q.pc \in {"jsonl", "backrefs", "sessions"} => q.cmd.op = "rename"
    /\ q.pc \in {"kids", "kid", "shelve"} => q.cmd.op \in {"archive", "hurried"}
    /\ q.pc \in {"add", "rm", "commit"} => q.cmd.op = "archive"
    /\ q.pc \in {"gate", "point", "load", "flip"} => q.cmd.op = "start"
    /\ q.pc = "clear" => q.cmd.op = "finish" /\ q.read = NothingRead /\ q.todo = {}
    /\ q.pc = "field" => q.cmd.op \in {"branch", "base", "note"}
    /\ q.pc # "idle" => WellFormed(q.cmd)

\* A rename reads the record of the new name never.
RenameFlow(q) ==
    q.cmd.op = "rename" =>
        /\ q.pc \in {"own", "jsonl", "backrefs", "sessions"}
        /\ q.cmd.b # q.cmd.a /\ q.read[q.cmd.b] = None /\ q.cmd.b \notin q.todo

Flows == \A w \in Windows : Flow(win[w]) /\ RenameFlow(win[w])

LEMMA IdIs ==
    ASSUME StoreOK, NEW n
    PROVE  /\ Id(n) \in Nat
           /\ HasRecord(n) => Id(n) = active[n].id /\ Id(n) \in Ids /\ Id(n) # 0
           /\ ~HasRecord(n) => Id(n) = 0
  <1>1. HasRecord(n) => active[n].id \in Nat \ {0}
    BY RecordIs DEF Task, Ids
  <1> QED
    BY <1>1 DEF Id, Ids

LEMMA KeptIs ==
    ASSUME StoreOK, NEW n
    PROVE  /\ Kept(n) \in Nat
           /\ n \in OnShelf => Kept(n) = archived[n].id /\ Kept(n) # 0
           /\ n \notin OnShelf => Kept(n) = 0
  <1>1. n \in OnShelf => archived[n] \in Task
    BY DEF OnShelf, StoreOK, Record
  <1>2. n \in OnShelf => archived[n].id \in Nat \ {0}
    BY <1>1 DEF Task, Ids
  <1> QED
    BY <1>2 DEF Kept

LEMMA SeenIs ==
    ASSUME WindowsOK, NEW w \in Windows, NEW n \in Names
    PROVE  /\ Seen(w, n) \in Nat
           /\ Seen(w, n) = 0 <=> win[w].read[n] = None
           /\ win[w].read[n] # None => Seen(w, n) = win[w].read[n].id
  <1>1. win[w].read[n] \in Task \cup {None}
    BY WindowFacts DEF Window
  <1>2. win[w].read[n] # None => win[w].read[n].id \in Nat \ {0}
    BY <1>1 DEF Task, Ids
  <1> QED
    BY <1>2 DEF Seen

LEMMA IdleIs ==
    /\ Idle.pc = "idle" /\ Idle.cmd.op = "finish" /\ Handled(Idle) = {}
    /\ Idle.todo = {} /\ Idle.cmd.a = None
    /\ \A n \in Names : Idle.read[n] = None
    /\ Flow(Idle) /\ RenameFlow(Idle)
  <1>1. /\ Idle.pc = "idle" /\ Idle.cmd.op = "finish" /\ Idle.todo = {}
        /\ Idle.cmd.a = None /\ \A n \in Names : Idle.read[n] = None
    BY DEF Idle, NothingRead
  <1>2. Handled(Idle) = {}
    BY <1>1 DEF Handled
  <1> QED
    BY <1>1, <1>2 DEF Flow, RenameFlow

\* A command stays on its course.
LEMMA TurnFlows ==
    ASSUME IInv, Flows, NEW w \in Windows, Turn(w)
    PROVE  Flows'
  <1>1. CASE win'[w] = Idle
    BY <1>1, IdleIs DEF Turn, Alone, Flows
  <1>2. CASE Proceeds(w)
    <2> DEFINE q == win[w]
               p == win'[w]
    <2>1. p.cmd = q.cmd /\ Follows(q, p.pc) /\ p.todo \subseteq q.todo
      BY <1>2 DEF Proceeds
    <2>2. Flow(q) /\ RenameFlow(q)
      BY DEF Flows
    <2>3. q.pc # "idle" /\ p.pc \notin {"idle", "clear", "new"}
      BY <2>1 DEF Follows
    <2>4. Flow(p)
      BY <2>1, <2>2, <2>3 DEF Flow, Follows
    <2>5. RenameFlow(p)
      <3> SUFFICES ASSUME q.cmd.op = "rename"
                   PROVE  RenameFlow(p)
        BY <2>1 DEF RenameFlow
      <3>1. q.pc \in {"own", "jsonl", "backrefs", "sessions"}
            /\ q.cmd.b # q.cmd.a /\ q.read[q.cmd.b] = None /\ q.cmd.b \notin q.todo
        BY <2>2 DEF RenameFlow
      <3>2. p.pc \in {"own", "jsonl", "backrefs", "sessions"}
        BY <2>1, <3>1 DEF Follows
      <3>3. q.cmd.b \in Names
        BY <2>2, <2>3 DEF Flow, WellFormed
      <3>4. p.read[q.cmd.b] = q.read[q.cmd.b]
        BY <1>2, <3>1, <3>3 DEF Proceeds, Looks
      <3> QED
        BY <2>1, <3>1, <3>2, <3>4 DEF RenameFlow
    <2> QED
      BY <1>2, <2>4, <2>5 DEF Turn, Alone, Flows
  <1> QED
    BY <1>1, <1>2 DEF Turn

\* The task has left the name the command knows it by.
Moved(q, n) == q.pc \in {"sessions", "add", "rm", "commit"} /\ n = q.cmd.a

\* What a step of a command does to the windows.
LEMMA TurnShows ==
    ASSUME IInv, NEW w \in Windows, Turn(w)
    PROVE  /\ \A v \in Windows : Handled(win'[v]) \subseteq Handled(win[v])
           /\ \A v \in Windows :
                \/ win'[v] = win[v] \/ win'[v] = Idle
                \/ /\ v = w /\ win'[v].cmd = win[v].cmd /\ win'[v].pc # "new"
                   /\ win'[v].pc # "sessions" => win[v].pc # "sessions"
                   /\ \A n : Moved(win[v], n) => Moved(win'[v], n)
  <1>1. CASE win'[w] = Idle
    BY <1>1, IdleIs DEF Turn, Alone
  <1>2. CASE Proceeds(w)
    <2>1. win'[w].cmd = win[w].cmd /\ Follows(win[w], win'[w].pc) /\ win'[w].todo \subseteq win[w].todo
      BY <1>2 DEF Proceeds
    <2>2. /\ win'[w].pc # "new"
          /\ win'[w].pc # "sessions" => win[w].pc # "sessions"
          /\ \A n : Moved(win[w], n) => Moved(win'[w], n)
      BY <2>1 DEF Follows, Moved
    <2>3. Handled(win'[w]) \subseteq Handled(win[w])
      <3>1. win[w].pc # "idle" /\ win'[w].pc # "idle"
        BY <2>1 DEF Follows
      <3>2. ASSUME NEW n \in Names, win'[w].read[n] # None
            PROVE  n \in Handled(win[w])
        <4>1. CASE win'[w].read[n] = win[w].read[n]
          BY <3>1, <3>2, <4>1 DEF Handled
        <4>2. CASE win'[w].read[n] # win[w].read[n]
          <5>1. n = win[w].cmd.a \/ n \in win[w].todo
            BY <1>2, <3>2, <4>2 DEF Proceeds, Looks
          <5> QED
            BY <3>1, <5>1, TasksAssumption DEF TasksAssumption, Handled
        <4> QED
          BY <4>1, <4>2
      <3> QED
        BY <2>1, <3>1, <3>2 DEF Handled
    <2>4. \A v \in Windows \ {w} : win'[v] = win[v]
      BY DEF Turn, Alone
    <2>5. ASSUME NEW v \in Windows
          PROVE  /\ Handled(win'[v]) \subseteq Handled(win[v])
                 /\ \/ win'[v] = win[v] \/ win'[v] = Idle
                    \/ /\ v = w /\ win'[v].cmd = win[v].cmd /\ win'[v].pc # "new"
                       /\ win'[v].pc # "sessions" => win[v].pc # "sessions"
                       /\ \A n : Moved(win[v], n) => Moved(win'[v], n)
      <3>1. CASE v = w
        BY <2>1, <2>2, <2>3, <3>1
      <3>2. CASE v # w
        BY <2>4, <3>2
      <3> QED
        BY <3>1, <3>2
    <2> QED
      BY <2>5
  <1> QED
    BY <1>1, <1>2 DEF Turn

-----------------------------------------------------------------------------
(* The inductive invariant about creations.                                *)

\* A task that two commands handle is crossed, and so is one that is on its
\* way to a name another command handles.
Crossing ==
    \A w, v \in Windows : \A n \in Handled(win[w]) \cap Handled(win[v]) :
        w # v =>
            /\ Id(n) \in Free
            /\ \A a \in Names :
                  win[w].cmd.op = "rename" /\ win[w].cmd.b = n /\ win[w].cmd.a = a
                      => Id(a) \in Free

\* What a window has read is still there...
Reading ==
    \A w \in Windows, n \in Names :
        Seen(w, n) \in Free \/ Id(n) = Seen(w, n) \/ Moved(win[w], n)

\* ... and nothing else is in its place.
Recent == \A w \in Windows, n \in Names :
              Seen(w, n) # 0 => Id(n) \in Free \cup {Seen(w, n)}

\* No task is in the way of a rename or a create.
Target ==
    \A w \in Windows, n \in Names :
        win[w].cmd.op = "rename" /\ win[w].pc # "sessions" /\ win[w].cmd.b = n
            => Kept(n) \in Free
Fresh ==
    \A w \in Windows, n \in Names :
        win[w].pc = "new" /\ win[w].cmd.op = "create" /\ win[w].cmd.a = n
            => Id(n) \in Free

\* The name of an archived task is used by no other command.
Apart ==
    \A n \in Names : Kept(n) \notin Free =>
        active[n] = None /\ \A w \in Windows : Seen(w, n) = 0 \/ n = win[w].cmd.a

\* Creations are numbered.
Known ==
    /\ made = 1..Cardinality(made) /\ crossed \subseteq made
    /\ \A n \in Names : Id(n) \in made \cup {0} /\ Kept(n) \in made \cup {0}
    /\ \A w \in Windows, n \in Names : Seen(w, n) \in made \cup {0}

\* No task is in two places, and each is in one.
Unique ==
    /\ \A n, m \in Names : n # m /\ Id(n) = Id(m) => Id(n) \in Free
    /\ \A n, m \in Names : n # m /\ Kept(n) = Kept(m) => Kept(n) \in Free
    /\ \A n, m \in Names : Id(n) = Kept(m) => Id(n) \in Free
Placed ==
    \A i \in made \ (crossed \cup Torn) : \E n \in Names : Id(n) = i \/ Kept(n) = i

IdsOK == Crossing /\ Reading /\ Recent /\ Target /\ Fresh /\ Apart /\ Known /\ Unique /\ Placed

-----------------------------------------------------------------------------

\* The parts of the store the invariant is about besides the records.
Backdrop ==
    /\ made' = made /\ crossed \subseteq crossed' /\ crossed' \subseteq made
    /\ \A n \in Names : Kept(n)' = Kept(n)
    /\ Torn \subseteq Torn'

\* Steps that change no record's creation.
LEMMA IdsStay ==
    ASSUME IInv, IdsOK, win' = win, Backdrop,
           \A n \in Names : Id(n)' = Id(n) /\ (active[n] = None => active'[n] = None)
    PROVE  IdsOK'
  <1>0. \A w \in Windows, n \in Names : Seen(w, n)' = Seen(w, n)
    BY DEF Seen
  <1>1. Free \subseteq Free'
    BY DEF Free, Backdrop
  <1>2. Crossing'
    <2> SUFFICES ASSUME NEW w \in Windows, NEW v \in Windows, w # v,
                        NEW n \in Handled(win[w]) \cap Handled(win[v])
                 PROVE  /\ Id(n)' \in Free'
                        /\ \A a \in Names :
                              win[w].cmd.op = "rename" /\ win[w].cmd.b = n /\ win[w].cmd.a = a
                                  => Id(a)' \in Free'
      BY DEF Crossing
    <2>1. n \in Names
      BY WindowFacts DEF IInv, Handled, Window, Command
    <2> QED
      BY <1>1, <2>1 DEF IdsOK, Crossing
  <1>3. Reading'
    BY <1>0, <1>1 DEF IdsOK, Reading, Moved
  <1>4. Recent'
    BY <1>0, <1>1 DEF IdsOK, Recent
  <1>5. Target'
    BY <1>1 DEF IdsOK, Target, Backdrop
  <1>6. Fresh'
    BY <1>1 DEF IdsOK, Fresh
  <1>7. Apart'
    BY <1>0, <1>1 DEF IdsOK, Apart, Backdrop
  <1>8. Known'
    BY <1>0 DEF IdsOK, Known, Backdrop
  <1>9. Unique'
    BY <1>1 DEF IdsOK, Unique, Backdrop
  <1>10. Placed'
    BY <1>1 DEF IdsOK, Placed, Backdrop
  <1> QED
    BY <1>2, <1>3, <1>4, <1>5, <1>6, <1>7, <1>8, <1>9, <1>10 DEF IdsOK

LEMMA HandledAre ==
    ASSUME WindowsOK, NEW w \in Windows
    PROVE  Handled(win[w]) \subseteq Names
  BY WindowFacts DEF Handled, Window, Command

LEMMA SeenIsHandled ==
    ASSUME WindowsOK, NEW w \in Windows, Flow(win[w]), NEW n \in Names, Seen(w, n) # 0
    PROVE  n \in Handled(win[w])
  <1>1. win[w].read[n] # None
    BY SeenIs
  <1>2. win[w].pc # "idle"
    BY <1>1, IdleIs DEF Flow
  <1> QED
    BY <1>1, <1>2 DEF Handled

\* What a window has read changes by reading an active record, or is
\* forgotten with the command.
LEMMA TurnSees ==
    ASSUME IInv, NEW w \in Windows, Turn(w), win[w].pc # "new"
    PROVE  \A v \in Windows, n \in Names :
              \/ Seen(v, n)' = Seen(v, n)
              \/ Seen(v, n)' = 0
              \/ v = w /\ Seen(v, n)' = Id(n) /\ HasRecord(n) /\ Id(n)' = Id(n)
  <1> SUFFICES ASSUME NEW v \in Windows, NEW n \in Names
               PROVE  \/ Seen(v, n)' = Seen(v, n)
                      \/ Seen(v, n)' = 0
                      \/ v = w /\ Seen(v, n)' = Id(n) /\ HasRecord(n) /\ Id(n)' = Id(n)
    OBVIOUS
  <1>1. CASE v # w
    BY <1>1 DEF Turn, Alone, Seen
  <1>2. CASE v = w /\ win'[w] = Idle
    BY <1>2, IdleIs DEF Seen
  <1>3. CASE v = w /\ Proceeds(w)
    <2>1. CASE win'[w].read[n] = win[w].read[n]
      BY <1>3, <2>1 DEF Seen
    <2>2. CASE HasRecord(n) /\ win'[w].read[n] = active[n] /\ UNCHANGED taskVars
      <3>1. active[n] # None
        BY <2>2 DEF HasRecord
      <3>2. Seen(w, n)' = Id(n)
        BY <2>2, <3>1 DEF Seen, Id
      <3>3. Id(n)' = Id(n)
        BY <2>2 DEF Id, HasRecord, taskVars
      <3> QED
        BY <1>3, <2>2, <3>2, <3>3
    <2>3. CASE win'[w].read[n] = None
      BY <1>3, <2>3 DEF Seen
    <2> QED
      BY <1>3, <2>1, <2>2, <2>3 DEF Proceeds
  <1> QED
    BY <1>1, <1>2, <1>3 DEF Turn

\* A step of window w's command that puts no new task anywhere and takes
\* none away that is not crossed or torn.
Tame(w) ==
    \A n \in Names :
        /\ active[n] = None => active'[n] = None
        /\ \/ Id(n)' = Id(n)
           \/ /\ n \in Handled(win[w])
              /\ Id(n)' \in Free \cap {0, Seen(w, n)}
              /\ Id(n) \in Free \cup Torn'
              /\ Id(n)' = Seen(w, n) \/ win'[w] = Idle

LEMMA TameKeeps ==
    ASSUME IInv, Flows, IdsOK, NEW w \in Windows, Turn(w), Tame(w), Backdrop,
           win[w].pc = "new" => win'[w] = Idle
    PROVE  IdsOK'
  <1>1. Free \subseteq Free' /\ 0 \in Free
    BY DEF Free, Backdrop
  <1>2. \A v \in Windows, n \in Names :
              \/ Seen(v, n)' = Seen(v, n)
              \/ Seen(v, n)' = 0
              \/ v = w /\ Seen(v, n)' = Id(n) /\ HasRecord(n) /\ Id(n)' = Id(n)
    <2>1. CASE win[w].pc # "new"
      BY <2>1, TurnSees
    <2>2. CASE win'[w] = Idle
      <3>1. \A n \in Names : Seen(w, n)' = 0
        BY <2>2, IdleIs DEF Seen
      <3>2. \A v \in Windows \ {w}, n \in Names : Seen(v, n)' = Seen(v, n)
        BY DEF Turn, Alone, Seen
      <3> QED
        BY <3>1, <3>2
    <2> QED
      BY <2>1, <2>2
  <1>3. \A n \in Names :
           /\ active[n] = None => active'[n] = None
           /\ \/ Id(n)' = Id(n)
              \/ /\ n \in Handled(win[w])
                 /\ Id(n)' \in Free \cap {0, Seen(w, n)}
                 /\ Id(n) \in Free \cup Torn'
                 /\ Id(n)' = Seen(w, n) \/ win'[w] = Idle
    BY DEF Tame
  <1>4. /\ \A v \in Windows : Handled(win'[v]) \subseteq Handled(win[v])
        /\ \A v \in Windows :
                \/ win'[v] = win[v] \/ win'[v] = Idle
                \/ /\ v = w /\ win'[v].cmd = win[v].cmd /\ win'[v].pc # "new"
                   /\ win'[v].pc # "sessions" => win[v].pc # "sessions"
                   /\ \A n : Moved(win[v], n) => Moved(win'[v], n)
    BY TurnShows
  <1>5. \A v \in Windows \ {w} : win'[v] = win[v]
    BY DEF Turn, Alone
  <1>6. /\ Idle.pc = "idle" /\ Idle.cmd.op = "finish" /\ Handled(Idle) = {}
    BY IdleIs
  <1>7. \A v \in Windows : win'[v] = Idle => \A n \in Names : Seen(v, n)' = 0
    BY IdleIs DEF Seen
  <1>10. Crossing'
    <2> SUFFICES ASSUME NEW u \in Windows, NEW v \in Windows, u # v,
                        NEW n \in Handled(win'[u]) \cap Handled(win'[v])
                 PROVE  /\ Id(n)' \in Free'
                        /\ \A a \in Names :
                              win'[u].cmd.op = "rename" /\ win'[u].cmd.b = n /\ win'[u].cmd.a = a
                                  => Id(a)' \in Free'
      BY DEF Crossing
    <2>1. n \in Handled(win[u]) \cap Handled(win[v]) /\ n \in Names
      BY <1>4, HandledAre DEF IInv
    <2>2. win'[u].cmd = win[u].cmd
      BY <1>4, <1>6
    <2>3. /\ Id(n) \in Free
          /\ \A a \in Names :
               win[u].cmd.op = "rename" /\ win[u].cmd.b = n /\ win[u].cmd.a = a
                   => Id(a) \in Free
      BY <2>1 DEF IdsOK, Crossing
    <2> QED
      BY <1>1, <1>3, <2>1, <2>2, <2>3
  <1>11. Reading'
    <2> SUFFICES ASSUME NEW v \in Windows, NEW n \in Names
                 PROVE  Seen(v, n)' \in Free' \/ Id(n)' = Seen(v, n)' \/ Moved(win'[v], n)
      BY DEF Reading
    <2>1. Seen(v, n) \in Free \/ Id(n) = Seen(v, n) \/ Moved(win[v], n)
      BY DEF IdsOK, Reading
    <2>2. CASE Seen(v, n)' = Seen(v, n) /\ win'[v] # Idle
      <3>1. Moved(win[v], n) => Moved(win'[v], n)
        BY <1>4, <2>2
      <3>2. CASE Id(n)' = Id(n)
        BY <1>1, <2>1, <2>2, <3>1, <3>2
      <3>3. CASE v = w /\ Id(n)' = Seen(w, n)
        BY <2>2, <3>3
      <3>4. CASE v # w /\ n \in Handled(win[w]) /\ Seen(v, n) # 0
        <4>1. n \in Handled(win[v])
          BY <3>4, SeenIsHandled DEF Flows, IInv
        <4>2. Id(n) \in Free
          BY <3>4, <4>1 DEF IdsOK, Crossing
        <4> QED
          BY <1>1, <2>1, <2>2, <3>1, <4>2
      <3>5. CASE Seen(v, n) = 0
        BY <1>1, <2>2, <3>5
      <3> QED
        BY <1>3, <2>2, <3>2, <3>3, <3>4, <3>5
    <2> QED
      BY <1>1, <1>2, <1>7, <2>2
  <1>12. Recent'
    BY <1>1, <1>2, <1>3 DEF IdsOK, Recent
  <1>13. Target'
    BY <1>1, <1>4, <1>6 DEF IdsOK, Target, Backdrop
  <1>14. Fresh'
    BY <1>1, <1>3, <1>4, <1>6 DEF IdsOK, Fresh
  <1>15. Apart'
    <2> SUFFICES ASSUME NEW n \in Names, Kept(n)' \notin Free', NEW v \in Windows
                 PROVE  active'[n] = None /\ (Seen(v, n)' = 0 \/ n = win'[v].cmd.a)
      BY DEF Apart
    <2>1. Kept(n) \notin Free
      BY <1>1 DEF Backdrop
    <2>2. active[n] = None /\ (Seen(v, n) = 0 \/ n = win[v].cmd.a)
      BY <2>1 DEF IdsOK, Apart
    <2>3. ~HasRecord(n)
      BY <2>2 DEF HasRecord
    <2> QED
      BY <1>2, <1>3, <1>4, <1>7, <2>2, <2>3
  <1>16. Known'
    BY <1>1, <1>2, <1>3 DEF IdsOK, Known, Backdrop
  <1>17. Unique'
    BY <1>1, <1>3 DEF IdsOK, Unique, Backdrop
  <1>18. Placed'
    <2> SUFFICES ASSUME NEW i \in made, i \notin crossed', i \notin Torn'
                 PROVE  \E n \in Names : Id(n)' = i \/ Kept(n)' = i
      BY DEF Placed, Backdrop
    <2>1. i \notin Free
      BY DEF Free, Backdrop, IInv, HistoryOK, Ids
    <2>2. PICK n \in Names : Id(n) = i \/ Kept(n) = i
      BY DEF IdsOK, Placed, Backdrop
    <2> QED
      BY <1>3, <2>1, <2>2 DEF Backdrop
  <1> QED
    BY <1>10, <1>11, <1>12, <1>13, <1>14, <1>15, <1>16, <1>17, <1>18 DEF IdsOK

LEMMA RewriteTame ==
    ASSUME IInv, IdsOK, NEW w \in Windows, NEW n, NEW x, Rewrite(w, n, x)
    PROVE  Tame(w)
  <1>1. /\ n \in Names /\ x \in Task /\ active' = [active EXCEPT ![n] = x]
        /\ active[n] # None /\ n \in Handled(win[w])
        /\ win[w].pc \notin {"idle", "new", "sessions", "add", "rm", "commit"}
        /\ \/ HasRecord(n) /\ x.id = active[n].id
           \/ win[w].read[n] # None /\ x.id = win[w].read[n].id
    BY DEF Rewrite
  <1>2. /\ x # None /\ x # Bare
        /\ active' \in [Names -> Record] /\ active'[n] = x
        /\ \A m \in Names \ {n} : active'[m] = active[m]
    BY <1>1, TasksAssumption DEF TasksAssumption, IInv, StoreOK, Record
  <1>3. /\ \A m \in Names : active[m] = None => active'[m] = None
        /\ \A m \in Names \ {n} : Id(m)' = Id(m)
    BY <1>1, <1>2 DEF Id, HasRecord
  <1>4. Id(n)' = x.id
    BY <1>1, <1>2 DEF Id, HasRecord
  <1>5. CASE HasRecord(n) /\ x.id = active[n].id
    <2>1. Id(n)' = Id(n)
      BY <1>4, <1>5 DEF Id
    <2> QED
      BY <1>3, <2>1 DEF Tame
  <1>6. CASE win[w].read[n] # None /\ x.id = win[w].read[n].id
    <2>1. Id(n)' = Seen(w, n) /\ Seen(w, n) # 0
      BY <1>1, <1>4, <1>6, SeenIs DEF IInv
    <2>2. Seen(w, n) \in Free \/ Id(n) = Seen(w, n)
      BY <1>1 DEF IdsOK, Reading, Moved
    <2>3. Id(n) \in Free \cup {Seen(w, n)}
      BY <1>1, <2>1 DEF IdsOK, Recent
    <2>4. \/ Id(n)' = Id(n)
          \/ Id(n)' \in Free \cap {0, Seen(w, n)} /\ Id(n) \in Free
      BY <2>1, <2>2, <2>3
    <2> QED
      BY <1>1, <1>3, <2>1, <2>4 DEF Tame
  <1> QED
    BY <1>1, <1>5, <1>6

LEMMA StillTame ==
    ASSUME NEW w \in Windows, UNCHANGED taskVars
    PROVE  Tame(w)
  BY DEF Tame, Id, HasRecord, taskVars

\* A command forgets of the tasks it left half handled, but a hook's.
LEMMA TornGrows ==
    ASSUME IInv, Flows, NEW w \in Windows, Continue(w)
    PROVE  Torn \subseteq Torn'
  <1>1. win[w].pc \in {"sessions", "shelve", "commit"} => win[w].cmd.op # "sync"
    BY DEF Flows, Flow
  <1>2. \/ broken \subseteq broken'
        \/ /\ broken' = {m \in broken : m.by # win[w].cmd}
           /\ win[w].pc \in {"sessions", "shelve", "commit"}
    BY DEF Continue, Step, MayMove, CreateRecord, CreateFails, CreateActivate, HookRead, HookWrite,
     WriteParent, WriteChild, WriteFails, RenameOwn, RenameManifest, RenameTorn,
     RenameBackref, RenameMove, RenameBlocked, RenameSessions, ArchiveOwn, ArchiveReadKid,
     ArchiveUnlink, ArchiveSessions, ArchiveMove, ArchiveBlocked, CommitAdd, CommitRm,
     CommitArchive, StartGate, StartPoint, ReadOwn, StartFlip, FinishClear, FieldWrite,
     Stop, GiveUp, Complete
  <1>3. \A m \in broken : m.by.op = "sync" => m \in broken'
    BY <1>1, <1>2
  <1> QED
    BY <1>3 DEF Torn

LEMMA ArchiveStays ==
    ASSUME NEW w \in Windows, Continue(w), ~ArchiveMove(w)
    PROVE  archived' = archived
  BY DEF Continue, CreateRecord, CreateFails, CreateActivate, HookRead, HookWrite, Write,
     WriteParent, WriteChild, WriteFails, RenameOwn, RenameManifest, RenameTorn,
     RenameBackref, RenameMove, RenameBlocked, RenameSessions, ArchiveOwn, ArchiveReadKid,
     ArchiveUnlink, ArchiveSessions, ArchiveBlocked, CommitAdd, CommitRm,
     CommitArchive, StartGate, StartPoint, ReadOwn, StartFlip, FinishClear, FieldWrite,
     Stop, taskVars

LEMMA HistoryStays ==
    ASSUME NEW w \in Windows, Continue(w), ~CreateRecord(w)
    PROVE  made' = made /\ crossed' = crossed
  BY DEF Continue, CreateFails, CreateActivate, HookRead, HookWrite,
     WriteParent, WriteChild, WriteFails, RenameOwn, RenameManifest, RenameTorn,
     RenameBackref, RenameMove, RenameBlocked, RenameSessions, ArchiveOwn, ArchiveReadKid,
     ArchiveUnlink, ArchiveSessions, ArchiveMove, ArchiveBlocked, CommitAdd, CommitRm,
     CommitArchive, StartGate, StartPoint, ReadOwn, StartFlip, FinishClear, FieldWrite,
     Stop

LEMMA BackdropStays ==
    ASSUME IInv, Flows, IdsOK, NEW w \in Windows, Continue(w), ~CreateRecord(w), ~ArchiveMove(w)
    PROVE  Backdrop
  <1>1. archived' = archived /\ made' = made /\ crossed' = crossed
    BY ArchiveStays, HistoryStays
  <1>2. \A n \in Names : Kept(n)' = Kept(n)
    BY <1>1 DEF Kept, OnShelf
  <1>3. crossed \subseteq made
    BY DEF IdsOK, Known
  <1> QED
    BY <1>1, <1>2, <1>3, TornGrows DEF Backdrop

LEMMA TearTame ==
    ASSUME IInv, NEW w \in Windows, HookWrite(w), NEW n \in Names, n = win[w].cmd.a,
           active[n] # None, active' = [active EXCEPT ![n] = Bare],
           Mark(Handled(win[w]), [win[w].cmd EXCEPT !.op = "sync"]) \subseteq broken'
    PROVE  Tame(w)
  <1> DEFINE c == [win[w].cmd EXCEPT !.op = "sync"]
  <1>1. n \in Names /\ n \in Handled(win[w])
    BY HookWrites
  <1>2. win'[w] = Idle
    BY LeaveTurns DEF HookWrite, IInv
  <1>3. /\ active'[n] = Bare /\ \A m \in Names \ {n} : active'[m] = active[m]
    BY <1>1 DEF IInv, StoreOK
  <1>4. /\ \A m \in Names : active[m] = None => active'[m] = None
        /\ \A m \in Names \ {n} : Id(m)' = Id(m)
        /\ Id(n)' = 0
    BY <1>1, <1>3 DEF Id, HasRecord
  <1>5. Id(n) \in Free \cup Torn'
    <2>1. CASE ~HasRecord(n)
      BY <2>1 DEF Id, Free
    <2>2. CASE HasRecord(n)
      <3> DEFINE m == [id |-> active[n].id, by |-> c]
      <3>1. active[n].id \in IdsAt(Handled(win[w]))
        BY <1>1, <2>2 DEF IdsAt
      <3>2. m \in broken'
        BY <3>1 DEF Mark
      <3>3. win[w].cmd \in Command
        BY WindowFacts DEF IInv, Window
      <3>4. m.by.op = "sync" /\ m.id = active[n].id
        BY <3>3 DEF Command
      <3> HIDE DEF m
      <3>5. active[n].id \in Torn'
        BY <3>2, <3>4 DEF Torn
      <3> QED
        BY <2>2, <3>5 DEF Id
    <2> QED
      BY <2>1, <2>2
  <1>6. 0 \in Free
    BY DEF Free
  <1> QED
    BY <1>1, <1>2, <1>4, <1>5, <1>6 DEF Tame

\* All steps of a command but three are tame.
LEMMA TameSteps ==
    ASSUME IInv, Flows, IdsOK, NEW w \in Windows, Continue(w),
           ~CreateRecord(w), ~RenameMove(w), ~ArchiveMove(w)
    PROVE  Tame(w)
  <1>1. CASE CreateFails(w)
    <2> DEFINE n == win[w].cmd.a
    <2>1. \/ active' = active
          \/ active[n] = Bare /\ active' = [active EXCEPT ![n] = None]
      BY <1>1 DEF CreateFails
    <2>2. \A m \in Names : active'[m] = active[m] \/ (active[m] = Bare /\ active'[m] = None)
      BY <2>1 DEF IInv, StoreOK
    <2>3. \A m \in Names : /\ Id(m)' = Id(m)
                           /\ active[m] = None => active'[m] = None
      BY <2>2 DEF Id, HasRecord
    <2> QED
      BY <2>3 DEF Tame
  <1>2. CASE HookWrite(w)
    <2>1. PICK n \in Names : n = win[w].cmd.a
      BY <1>2, HookWrites
    <2> QED
      BY <1>2, <2>1, HookWrites, RewriteTame, StillTame, TearTame
  <1> QED
    BY <1>1, <1>2, Rewrites, RewriteTame, StillTame

LEMMA NewGoes ==
    ASSUME IInv, NEW w \in Windows, Continue(w), win[w].pc = "new", ~CreateRecord(w)
    PROVE  win'[w] = Idle
  <1>1. CreateFails(w) \/ Stop(w)
    BY DEF Continue, Step, MayMove, CreateActivate, HookRead, HookWrite,
     WriteParent, WriteChild, WriteFails, RenameOwn, RenameManifest, RenameTorn,
     RenameBackref, RenameMove, RenameBlocked, RenameSessions, ArchiveOwn, ArchiveReadKid,
     ArchiveUnlink, ArchiveSessions, ArchiveMove, ArchiveBlocked, CommitAdd, CommitRm,
     CommitArchive, StartGate, StartPoint, ReadOwn, StartFlip, FinishClear, FieldWrite
  <1> QED
    BY <1>1, LeaveTurns DEF CreateFails, Stop, GiveUp, IInv

\* A window has nothing to do with a name it does not handle.
LEMMA CommandIsHandled ==
    ASSUME IInv, Flows, NEW w \in Windows
    PROVE  /\ win[w].cmd.a \in Names => win[w].cmd.a \in Handled(win[w])
           /\ win[w].cmd.op = "rename" =>
                 /\ win[w].cmd.b \in Names /\ win[w].cmd.b \in Handled(win[w])
                 /\ win[w].cmd.a \in Names /\ win[w].cmd.a # win[w].cmd.b
                 /\ win[w].read[win[w].cmd.b] = None
  <1>1. win[w].pc = "idle" => win[w].cmd.a = None
    BY IdleIs DEF Flows, Flow
  <1>2. win[w].cmd.a \in Names => win[w].cmd.a \in Handled(win[w])
    BY <1>1, IsHandled, TasksAssumption DEF TasksAssumption
  <1>3. ASSUME win[w].cmd.op = "rename"
        PROVE  /\ win[w].cmd.b \in Names /\ win[w].cmd.b \in Handled(win[w])
               /\ win[w].cmd.a \in Names /\ win[w].cmd.a # win[w].cmd.b
               /\ win[w].read[win[w].cmd.b] = None
    <2>1. /\ win[w].pc # "idle" /\ win[w].cmd.a # win[w].cmd.b
          /\ win[w].read[win[w].cmd.b] = None
      BY <1>3 DEF Flows, RenameFlow
    <2>2. win[w].cmd.a \in Names /\ win[w].cmd.b \in Names
      BY <1>3, <2>1 DEF Flows, Flow, WellFormed
    <2> QED
      BY <2>1, <2>2, IsHandled, TasksAssumption DEF TasksAssumption
  <1> QED
    BY <1>2, <1>3

\* A task two windows handle is crossed.
LEMMA Both ==
    ASSUME IInv, Flows, IdsOK, NEW w \in Windows, NEW v \in Windows \ {w}, NEW n \in Names,
           n \in Handled(win[w]), n \in Handled(win[v]) \/ Seen(v, n) # 0
    PROVE  /\ Id(n) \in Free
           /\ \A a \in Names :
                 win[w].cmd.op = "rename" /\ win[w].cmd.b = n /\ win[w].cmd.a = a => Id(a) \in Free
  <1>1. n \in Handled(win[v])
    BY SeenIsHandled DEF Flows, IInv
  <1> QED
    BY <1>1 DEF IdsOK, Crossing

\* An archive takes its task, and nothing else, to the archive.
LEMMA Shelves ==
    ASSUME IInv, Flows, NEW w \in Windows, ArchiveMove(w)
    PROVE  \E a \in Names :
             /\ a = win[w].cmd.a /\ a \in Handled(win[w]) /\ win[w].pc = "shelve"
             /\ active[a] # None /\ active'[a] = None
             /\ archived[a] = None /\ archived'[a] = active[a]
             /\ \A n \in Names \ {a} : /\ active'[n] = active[n] /\ archived'[n] = archived[n]
                                      /\ Id(n)' = Id(n) /\ Kept(n)' = Kept(n)
             /\ Id(a)' = 0 /\ Kept(a)' = Id(a) /\ Kept(a) = 0
  <1>1. PICK a \in Names : a = win[w].cmd.a /\ a \in Handled(win[w])
    BY WindowFacts, CommandIsHandled DEF ArchiveMove, Step, IInv, WindowOK
  <1>2. /\ active' = [active EXCEPT ![a] = None] /\ active[a] # None
        /\ archived' = [archived EXCEPT ![a] = active[a]]
        /\ archived[a] = None /\ win[w].pc = "shelve"
    BY <1>1 DEF ArchiveMove, Step
  <1>3. /\ active'[a] = None /\ archived'[a] = active[a]
        /\ \A n \in Names \ {a} : active'[n] = active[n] /\ archived'[n] = archived[n]
    BY <1>2 DEF IInv, StoreOK
  <1>4. /\ \A n \in Names \ {a} : Id(n)' = Id(n) /\ Kept(n)' = Kept(n)
        /\ Id(a)' = 0 /\ Kept(a)' = Id(a) /\ Kept(a) = 0
    BY <1>1, <1>2, <1>3 DEF Id, HasRecord, Kept, OnShelf
  <1> QED
    BY <1>1, <1>2, <1>3, <1>4

LEMMA ShelveIds ==
    ASSUME IInv, Flows, IdsOK, NEW w \in Windows, ArchiveMove(w)
    PROVE  IdsOK'
  <1>0. PICK a \in Names :
             /\ a = win[w].cmd.a /\ a \in Handled(win[w]) /\ win[w].pc = "shelve"
             /\ active[a] # None /\ active'[a] = None
             /\ archived[a] = None /\ archived'[a] = active[a]
             /\ \A n \in Names \ {a} : /\ active'[n] = active[n] /\ archived'[n] = archived[n]
                                      /\ Id(n)' = Id(n) /\ Kept(n)' = Kept(n)
             /\ Id(a)' = 0 /\ Kept(a)' = Id(a) /\ Kept(a) = 0
    BY Shelves
  <1>1. a = win[w].cmd.a /\ a \in Handled(win[w])
    BY <1>0
  <1>2. archived[a] = None /\ win[w].pc = "shelve"
    BY <1>0
  <1>3. made' = made /\ crossed' = crossed /\ Torn \subseteq Torn' /\ Free' = Free
    BY HistoryStays, TornGrows DEF Continue, ArchiveMove, CreateRecord, Step, Free
  <1>4. /\ active'[a] = None /\ archived'[a] = active[a]
        /\ \A n \in Names \ {a} : active'[n] = active[n] /\ archived'[n] = archived[n]
    BY <1>0
  <1>5. /\ \A n \in Names : active[n] = None => active'[n] = None
        /\ \A n \in Names \ {a} : Id(n)' = Id(n) /\ Kept(n)' = Kept(n)
        /\ Id(a)' = 0 /\ Kept(a)' = Id(a) /\ Kept(a) = 0
    BY <1>0
  <1>6. Turn(w) /\ win[w].pc # "new"
    BY <1>2, Turns DEF Continue
  <1>7. \A v \in Windows, n \in Names :
           Seen(v, n)' = Seen(v, n) \/ (v = w /\ win'[w] = Idle /\ Seen(v, n)' = 0)
    <2>1. CASE win'[w] = Idle
      <3>1. \A n \in Names : Seen(w, n)' = 0
        BY <2>1, IdleIs DEF Seen
      <3>2. \A v \in Windows \ {w}, n \in Names : Seen(v, n)' = Seen(v, n)
        BY <1>6 DEF Turn, Alone, Seen
      <3> QED
        BY <2>1, <3>1, <3>2
    <2>2. CASE Proceeds(w)
      <3>1. \A n \in Names : win'[w].read[n] = win[w].read[n]
        BY <1>2, <2>2 DEF Proceeds, Looks
      <3>2. \A v \in Windows \ {w}, n \in Names : Seen(v, n)' = Seen(v, n)
        BY <1>6 DEF Turn, Alone, Seen
      <3> QED
        BY <3>1, <3>2 DEF Seen
    <2> QED
      BY <1>6, <2>1, <2>2 DEF Turn
  <1>8. win'[w] = Idle \/ (win'[w].pc = "add" /\ win'[w].cmd = win[w].cmd)
    BY <1>2, <1>6 DEF Turn, Proceeds, Follows
  <1>19. win'[w] = Idle => \A n \in Names : Seen(w, n)' = 0
    BY IdleIs DEF Seen
  <1>9. /\ \A v \in Windows : Handled(win'[v]) \subseteq Handled(win[v])
        /\ \A v \in Windows \ {w} : win'[v] = win[v]
        /\ 0 \in Free /\ Idle.cmd.op = "finish"
    BY <1>6, TurnShows, IdleIs DEF Turn, Alone, Free
  <1>10. Crossing'
    <2> SUFFICES ASSUME NEW u \in Windows, NEW v \in Windows, u # v,
                        NEW n \in Handled(win'[u]) \cap Handled(win'[v])
                 PROVE  /\ Id(n)' \in Free'
                        /\ \A x \in Names :
                              win'[u].cmd.op = "rename" /\ win'[u].cmd.b = n /\ win'[u].cmd.a = x
                                  => Id(x)' \in Free'
      BY DEF Crossing
    <2>1. n \in Handled(win[u]) \cap Handled(win[v]) /\ n \in Names
      BY <1>9, HandledAre DEF IInv
    <2>2. win'[u].cmd = win[u].cmd \/ win'[u].cmd.op # "rename"
      BY <1>8, <1>9
    <2> QED
      BY <1>3, <1>5, <1>9, <2>1, <2>2 DEF IdsOK, Crossing
  <1>11. Reading'
    <2> SUFFICES ASSUME NEW v \in Windows, NEW n \in Names
                 PROVE  Seen(v, n)' \in Free' \/ Id(n)' = Seen(v, n)' \/ Moved(win'[v], n)
      BY DEF Reading
    <2>1. Seen(v, n) \in Free \/ Id(n) = Seen(v, n) \/ Moved(win[v], n)
      BY DEF IdsOK, Reading
    <2>2. CASE v = w /\ n = a
      BY <1>1, <1>8, <1>9, <1>19, <1>3, <2>2 DEF Moved
    <2>3. CASE v = w /\ n # a
      BY <1>1, <1>2, <1>3, <1>5, <1>7, <1>9, <2>1, <2>3 DEF Moved
    <2>4. CASE v # w /\ n # a
      BY <1>3, <1>5, <1>7, <1>9, <2>1, <2>4
    <2>5. CASE v # w /\ n = a
      <3>1. Seen(v, n) # 0 => Id(n) \in Free
        BY <1>1, <2>5, Both
      <3> QED
        BY <1>3, <1>7, <1>9, <2>1, <2>5, <3>1
    <2> QED
      BY <2>2, <2>3, <2>4, <2>5
  <1>12. Recent'
    BY <1>3, <1>5, <1>7, <1>9 DEF IdsOK, Recent
  <1>13. Target'
    <2> SUFFICES ASSUME NEW v \in Windows, NEW n \in Names,
                        win'[v].cmd.op = "rename", win'[v].pc # "sessions", win'[v].cmd.b = n
                 PROVE  Kept(n)' \in Free'
      BY DEF Target
    <2>1. v # w
      BY <1>2, <1>8, <1>9 DEF Flows, Flow
    <2>2. win'[v] = win[v] /\ n \in Handled(win[v])
      BY <1>9, <2>1, CommandIsHandled
    <2>3. n = a => Id(a) \in Free
      BY <1>1, <2>1, <2>2, Both
    <2> QED
      BY <1>3, <1>5, <2>2, <2>3 DEF IdsOK, Target
  <1>14. Fresh'
    BY <1>2, <1>3, <1>5, <1>8, <1>9 DEF IdsOK, Fresh
  <1>15. Apart'
    <2> SUFFICES ASSUME NEW n \in Names, Kept(n)' \notin Free', NEW v \in Windows
                 PROVE  active'[n] = None /\ (Seen(v, n)' = 0 \/ n = win'[v].cmd.a)
      BY DEF Apart
    <2>1. CASE n = a
      <3>1. Id(a) \notin Free
        BY <1>3, <1>5, <2>1
      <3>2. v # w => Seen(v, a) = 0
        BY <1>1, <3>1, Both
      <3> QED
        BY <1>1, <1>4, <1>7, <1>8, <1>19, <2>1, <3>2
    <2>2. CASE n # a
      <3>1. active[n] = None /\ (Seen(v, n) = 0 \/ n = win[v].cmd.a)
        BY <1>3, <1>5, <2>2 DEF IdsOK, Apart
      <3> QED
        BY <1>1, <1>5, <1>7, <1>9, <2>2, <3>1
    <2> QED
      BY <2>1, <2>2
  <1>16. Known'
    BY <1>3, <1>5, <1>7 DEF IdsOK, Known
  <1>17. Unique'
    BY <1>3, <1>5, <1>9 DEF IdsOK, Unique
  <1>18. Placed'
    BY <1>3, <1>5 DEF IdsOK, Placed
  <1> QED
    BY <1>10, <1>11, <1>12, <1>13, <1>14, <1>15, <1>16, <1>17, <1>18 DEF IdsOK

\* A rename brings the task, and nothing else, to its new name.
LEMMA Moves ==
    ASSUME IInv, Flows, NEW w \in Windows, RenameMove(w)
    PROVE  \E o, b \in Names :
              /\ o = win[w].cmd.a /\ b = win[w].cmd.b /\ o # b
              /\ o \in Handled(win[w]) /\ b \in Handled(win[w]) /\ win[w].read[b] = None
              /\ win[w].pc = "backrefs" /\ win[w].cmd.op = "rename" /\ archived' = archived
              /\ active'[o] = None /\ active'[b] = active[o]
              /\ \A n \in Names \ {o, b} : active'[n] = active[n] /\ Id(n)' = Id(n)
              /\ \A n \in Names \ {b} : active[n] = None => active'[n] = None
              /\ \A n \in Names : Kept(n)' = Kept(n)
              /\ Id(o)' = 0 /\ Id(b)' = Id(o) /\ Id(b) = 0
  <1>0. win[w].pc = "backrefs" /\ win[w].cmd.op = "rename"
    BY DEF RenameMove, MayMove, Flows, Flow
  <1>1. PICK o \in Names, b \in Names :
             /\ o = win[w].cmd.a /\ b = win[w].cmd.b /\ o # b
             /\ o \in Handled(win[w]) /\ b \in Handled(win[w]) /\ win[w].read[b] = None
    BY <1>0, CommandIsHandled
  <1>2. /\ active' = [active EXCEPT ![o] = None, ![b] = active[o]]
        /\ archived' = archived /\ active[b] \in {None, Bare}
    BY <1>1 DEF RenameMove
  <1>4. /\ active'[o] = None /\ active'[b] = active[o]
        /\ \A n \in Names \ {o, b} : active'[n] = active[n]
    BY <1>1, <1>2 DEF IInv, StoreOK
  <1>5. /\ \A n \in Names \ {b} : active[n] = None => active'[n] = None
        /\ \A n \in Names : Kept(n)' = Kept(n)
        /\ \A n \in Names \ {o, b} : Id(n)' = Id(n)
        /\ Id(o)' = 0 /\ Id(b)' = Id(o) /\ Id(b) = 0
    <2>1. \A n \in Names : Kept(n)' = Kept(n)
      BY <1>2 DEF Kept, OnShelf
    <2>2. \A n \in Names \ {o, b} : Id(n)' = Id(n)
      BY <1>4 DEF Id, HasRecord
    <2>3. Id(o)' = 0
      BY <1>4 DEF Id, HasRecord
    <2>4. Id(b) = 0
      BY <1>2 DEF Id, HasRecord
    <2>5. Id(b)' = Id(o)
      BY <1>1, <1>4 DEF Id, HasRecord
    <2>6. \A n \in Names \ {b} : active[n] = None => active'[n] = None
      BY <1>4
    <2> QED
      BY <2>1, <2>2, <2>3, <2>4, <2>5, <2>6
  <1> QED
    BY <1>0, <1>1, <1>2, <1>4, <1>5

LEMMA MoveIds ==
    ASSUME IInv, Flows, IdsOK, NEW w \in Windows, RenameMove(w)
    PROVE  IdsOK'
  <1>1. PICK o \in Names, b \in Names :
             /\ o = win[w].cmd.a /\ b = win[w].cmd.b /\ o # b
             /\ o \in Handled(win[w]) /\ b \in Handled(win[w]) /\ win[w].read[b] = None
             /\ win[w].pc = "backrefs" /\ win[w].cmd.op = "rename" /\ archived' = archived
             /\ active'[o] = None /\ active'[b] = active[o]
             /\ \A n \in Names \ {o, b} : active'[n] = active[n] /\ Id(n)' = Id(n)
             /\ \A n \in Names \ {b} : active[n] = None => active'[n] = None
             /\ \A n \in Names : Kept(n)' = Kept(n)
             /\ Id(o)' = 0 /\ Id(b)' = Id(o) /\ Id(b) = 0
    BY Moves
  <1>0. win[w].pc = "backrefs" /\ win[w].cmd.op = "rename"
    BY <1>1
  <1>3. made' = made /\ crossed' = crossed /\ Torn \subseteq Torn' /\ Free' = Free
    BY HistoryStays, TornGrows DEF Continue, RenameMove, CreateRecord, MayMove, Step, Free
  <1>5. /\ \A n \in Names \ {b} : active[n] = None => active'[n] = None
        /\ \A n \in Names : Kept(n)' = Kept(n)
        /\ \A n \in Names \ {o, b} : Id(n)' = Id(n)
        /\ Id(o)' = 0 /\ Id(b)' = Id(o) /\ Id(b) = 0
    BY <1>1
  <1>6. /\ Turn(w) /\ win'[w].pc = "sessions" /\ win'[w].cmd = win[w].cmd
        /\ win'[w].read = win[w].read
    BY PcsAre, GoTurns, Turns DEF Continue, RenameMove, IInv
  <1>7. \A v \in Windows, n \in Names : Seen(v, n)' = Seen(v, n)
    BY <1>6 DEF Turn, Alone, Seen
  <1>9. /\ \A v \in Windows : Handled(win'[v]) \subseteq Handled(win[v])
        /\ \A v \in Windows \ {w} : win'[v] = win[v]
        /\ 0 \in Free /\ Seen(w, b) = 0
    BY <1>1, <1>6, TurnShows DEF Turn, Alone, Free, Seen
  <1>8. \A v \in Windows \ {w} : b \in Handled(win[v]) => Id(o) \in Free
    BY <1>0, <1>1, Both
  <1>10. Crossing'
    <2> SUFFICES ASSUME NEW u \in Windows, NEW v \in Windows, u # v,
                        NEW n \in Handled(win'[u]) \cap Handled(win'[v])
                 PROVE  /\ Id(n)' \in Free'
                        /\ \A x \in Names :
                              win'[u].cmd.op = "rename" /\ win'[u].cmd.b = n /\ win'[u].cmd.a = x
                                  => Id(x)' \in Free'
      BY DEF Crossing
    <2>1. n \in Handled(win[u]) \cap Handled(win[v]) /\ n \in Names
      BY <1>9, HandledAre DEF IInv
    <2>2. win'[u].cmd = win[u].cmd
      BY <1>6, <1>9
    <2>3. n = b => Id(o) \in Free
      BY <1>8, <2>1
    <2>4. /\ Id(n) \in Free
          /\ \A x \in Names :
                win[u].cmd.op = "rename" /\ win[u].cmd.b = n /\ win[u].cmd.a = x => Id(x) \in Free
      BY <2>1 DEF IdsOK, Crossing
    <2>5. Id(n)' \in Free
      BY <1>5, <1>9, <2>1, <2>3, <2>4
    <2>6. ASSUME NEW x \in Names, win[u].cmd.op = "rename", win[u].cmd.b = n, win[u].cmd.a = x
          PROVE  Id(x)' \in Free
      <3>1. CASE x = b
        <4>1. u # w /\ b \in Handled(win[u])
          BY <1>1, <2>6, <3>1, CommandIsHandled
        <4> QED
          BY <1>5, <1>8, <3>1, <4>1
      <3>2. CASE x # b
        BY <1>5, <1>9, <2>4, <2>6, <3>2
      <3> QED
        BY <3>1, <3>2
    <2> QED
      BY <1>3, <2>2, <2>5, <2>6
  <1>11. Reading'
    <2> SUFFICES ASSUME NEW v \in Windows, NEW n \in Names
                 PROVE  Seen(v, n) \in Free \/ Id(n)' = Seen(v, n) \/ Moved(win'[v], n)
      BY <1>3, <1>7 DEF Reading
    <2>1. Seen(v, n) \in Free \/ Id(n) = Seen(v, n) \/ Moved(win[v], n)
      BY DEF IdsOK, Reading
    <2>2. Moved(win[v], n) => Moved(win'[v], n)
      BY <1>6, <1>9 DEF Moved
    <2>3. CASE n = o /\ v = w
      BY <1>1, <1>6, <2>3 DEF Moved
    <2>4. CASE n = o /\ v # w
      <3>1. Seen(v, n) # 0 => Id(n) \in Free
        BY <1>1, <2>4, Both
      <3> QED
        BY <1>9, <2>1, <2>2, <3>1
    <2>5. CASE n = b
      BY <1>5, <1>9, <2>1, <2>2, <2>5
    <2>6. CASE n \notin {o, b}
      BY <1>5, <2>1, <2>2, <2>6
    <2> QED
      BY <2>3, <2>4, <2>5, <2>6
  <1>12. Recent'
    <2> SUFFICES ASSUME NEW v \in Windows, NEW n \in Names, Seen(v, n) # 0
                 PROVE  Id(n)' \in Free \cup {Seen(v, n)}
      BY <1>3, <1>7 DEF Recent
    <2>1. CASE n = b
      <3>1. v # w /\ b \in Handled(win[v])
        BY <1>9, <2>1, SeenIsHandled DEF IInv, Flows
      <3> QED
        BY <1>5, <1>8, <2>1, <3>1
    <2>2. CASE n # b
      BY <1>5, <1>9, <2>2 DEF IdsOK, Recent
    <2> QED
      BY <2>1, <2>2
  <1>13. Target'
    BY <1>3, <1>5, <1>6, <1>9 DEF IdsOK, Target
  <1>14. Fresh'
    <2> SUFFICES ASSUME NEW v \in Windows, NEW n \in Names,
                        win'[v].pc = "new", win'[v].cmd.op = "create", win'[v].cmd.a = n
                 PROVE  Id(n)' \in Free
      BY <1>3 DEF Fresh
    <2>1. v # w /\ win'[v] = win[v]
      BY <1>6, <1>9
    <2>2. Id(n) \in Free /\ n \in Handled(win[v])
      BY <2>1, CommandIsHandled DEF IdsOK, Fresh
    <2> QED
      BY <1>5, <1>8, <1>9, <2>1, <2>2
  <1>15. Apart'
    <2> SUFFICES ASSUME NEW n \in Names, Kept(n) \notin Free, NEW v \in Windows
                 PROVE  active'[n] = None /\ (Seen(v, n) = 0 \/ n = win'[v].cmd.a)
      BY <1>3, <1>5, <1>7 DEF Apart
    <2>1. active[n] = None /\ (Seen(v, n) = 0 \/ n = win[v].cmd.a)
      BY DEF IdsOK, Apart
    <2>2. n # b
      BY <1>0, <1>1 DEF IdsOK, Target
    <2> QED
      BY <1>5, <1>6, <1>9, <2>1, <2>2
  <1>16. Known'
    BY <1>3, <1>5, <1>7 DEF IdsOK, Known
  <1>17. Unique'
    BY <1>1, <1>3, <1>5, <1>9 DEF IdsOK, Unique
  <1>18. Placed'
    <2> SUFFICES ASSUME NEW i \in made, i \notin crossed, i \notin Torn'
                 PROVE  \E n \in Names : Id(n)' = i \/ Kept(n)' = i
      BY <1>3 DEF Placed
    <2>1. PICK n \in Names : Id(n) = i \/ Kept(n) = i
      BY <1>3 DEF IdsOK, Placed
    <2>2. i # 0
      BY DEF IInv, HistoryOK, Ids
    <2>3. n = o \/ n = b \/ n \notin {o, b}
      OBVIOUS
    <2> QED
      BY <1>1, <1>5, <2>1, <2>2, <2>3
  <1> QED
    BY <1>10, <1>11, <1>12, <1>13, <1>14, <1>15, <1>16, <1>17, <1>18 DEF IdsOK

LEMMA IdsAtKnown ==
    ASSUME IInv, IdsOK, NEW N
    PROVE  IdsAt(N) \subseteq made
  <1> SUFFICES ASSUME NEW i \in IdsAt(N)
               PROVE  i \in made
    OBVIOUS
  <1>1. PICK n : HasRecord(n) /\ i = active[n].id
    BY DEF IdsAt
  <1>2. n \in Names /\ Id(n) = i /\ i # 0
    BY <1>1, RecordIs, IdIs DEF IInv
  <1> QED
    BY <1>2 DEF IdsOK, Known

LEMMA IdIn ==
    ASSUME IInv, NEW N, NEW n \in N
    PROVE  Id(n) \in IdsAt(N) \cup {0}
  BY DEF Id, IdsAt

\* A create makes a new task; one it overwrites is crossed.
LEMMA Births ==
    ASSUME IInv, Flows, IdsOK, NEW w \in Windows, CreateRecord(w), NEW k, k = Cardinality(made) + 1
    PROVE  \E a \in Names :
             /\ a = win[w].cmd.a /\ a \in Handled(win[w]) /\ win[w].pc = "new"
             /\ k \in Ids /\ archived' = archived
             /\ active[a] # None /\ HasRecord(a)' /\ Id(a)' = k
             /\ \A n \in Names : active[n] = None => active'[n] = None
             /\ \A n \in Names \ {a} : active'[n] = active[n] /\ Id(n)' = Id(n)
             /\ \A n \in Names : Kept(n)' = Kept(n)
             /\ made' = made \cup {k} /\ k \notin made /\ made' = 1..Cardinality(made')
             /\ crossed \subseteq crossed' /\ crossed' \subseteq made'
             /\ \A v \in Windows \ {w} : a \in Handled(win[v]) => k \in crossed'
             /\ Id(a) \in crossed' \cup {0}
  <1>1. PICK a \in Names : a = win[w].cmd.a /\ a \in Handled(win[w])
    BY NewRecord
  <1>2. /\ k \in Ids /\ win[w].pc = "new" /\ archived' = archived
        /\ \E x \in Task : x.id = k /\ active[a] # None /\ active' = [active EXCEPT ![a] = x]
    BY <1>1, NewRecord
  <1>3. /\ active[a] # None /\ HasRecord(a)' /\ Id(a)' = k
        /\ \A n \in Names : active[n] = None => active'[n] = None
        /\ \A n \in Names \ {a} : active'[n] = active[n] /\ Id(n)' = Id(n)
        /\ \A n \in Names : Kept(n)' = Kept(n)
    <2>1. PICK x \in Task : x.id = k /\ active[a] # None /\ active' = [active EXCEPT ![a] = x]
      BY <1>2
    <2>2. active'[a] = x /\ \A n \in Names \ {a} : active'[n] = active[n]
      BY <2>1 DEF IInv, StoreOK
    <2>3. x # None /\ x # Bare
      BY TasksAssumption DEF TasksAssumption
    <2> QED
      BY <1>2, <2>1, <2>2, <2>3 DEF Id, HasRecord, Kept, OnShelf
  <1>4. /\ made' = made \cup {k} /\ k \notin made /\ made' = 1..Cardinality(made')
    <2>1. made = 1..Cardinality(made) /\ Cardinality(made) \in Nat
      BY FS_CardinalityType DEF IdsOK, Known, IInv, HistoryOK
    <2>2. k \notin made /\ IsFiniteSet(made)
      BY <2>1 DEF IInv, HistoryOK
    <2>3. made' = made \cup {k}
      BY <1>1 DEF CreateRecord, NewTask
    <2>4. Cardinality(made \cup {k}) = k
      BY <2>1, <2>2, FS_AddElement
    <2>5. made \cup {k} = 1..k
      BY <2>1
    <2> QED
      BY <2>2, <2>3, <2>4, <2>5
  <1>5. /\ crossed \subseteq crossed' /\ crossed' \subseteq made'
        /\ \A v \in Windows \ {w} : a \in Handled(win[v]) => k \in crossed'
        /\ Id(a) \in crossed' \cup {0}
    <2> DEFINE c == win[w].cmd
               over == HasRecord(c.a) \/ c.op = "force"
               friends == {n \in Records : (over /\ Mentions(n, c.a))
                                \/ (HasRecord(c.a) /\ Mentions(c.a, n))}
    <2>1. crossed' = crossed \cup (IF c.op = "create" THEN IdsAt(friends) ELSE IdsAt({c.a}))
                             \cup (IF c.a \in HandledByOthers(w) \/ Doubtful(win[w]) THEN {k} ELSE {})
      BY DEF CreateRecord, NewTask
    <2>2. IdsAt(friends) \subseteq made /\ IdsAt({c.a}) \subseteq made
      BY IdsAtKnown
    <2>3. crossed' \subseteq made' /\ crossed \subseteq crossed'
      BY <1>4, <2>1, <2>2 DEF IdsOK, Known
    <2>4. ASSUME NEW v \in Windows \ {w}, a \in Handled(win[v])
          PROVE  k \in crossed'
      <3>1. a \in HandledByOthers(w)
        BY <2>4 DEF HandledByOthers
      <3> QED
        BY <1>1, <2>1, <3>1
    <2>5. c.op \in {"create", "force"}
      BY <1>2 DEF Flows, Flow
    <2>6. Id(a) \in crossed' \cup {0}
      <3>1. CASE win[w].cmd.op = "create"
        <4>1. Id(a) \in Free
          BY <1>1, <1>2, <3>1 DEF IdsOK, Fresh
        <4> QED
          BY <2>3, <4>1 DEF Free
      <3>2. CASE win[w].cmd.op # "create"
        <4>1. Id(a) \in IdsAt({a}) \cup {0}
          BY IdIn
        <4>2. IdsAt({a}) \subseteq crossed'
          BY <1>1, <2>1, <3>2
        <4> QED
          BY <4>1, <4>2
      <3> QED
        BY <3>1, <3>2
    <2> QED
      BY <2>3, <2>4, <2>6
  <1> QED
    BY <1>1, <1>2, <1>3, <1>4, <1>5

LEMMA CreateIds ==
    ASSUME IInv, Flows, IdsOK, NEW w \in Windows, CreateRecord(w)
    PROVE  IdsOK'
  <1> DEFINE k == Cardinality(made) + 1
  <1>0. PICK a \in Names :
             /\ a = win[w].cmd.a /\ a \in Handled(win[w]) /\ win[w].pc = "new"
             /\ k \in Ids /\ archived' = archived
             /\ active[a] # None /\ HasRecord(a)' /\ Id(a)' = k
             /\ \A n \in Names : active[n] = None => active'[n] = None
             /\ \A n \in Names \ {a} : active'[n] = active[n] /\ Id(n)' = Id(n)
             /\ \A n \in Names : Kept(n)' = Kept(n)
             /\ made' = made \cup {k} /\ k \notin made /\ made' = 1..Cardinality(made')
             /\ crossed \subseteq crossed' /\ crossed' \subseteq made'
             /\ \A v \in Windows \ {w} : a \in Handled(win[v]) => k \in crossed'
             /\ Id(a) \in crossed' \cup {0}
    BY Births
  <1>1. a = win[w].cmd.a /\ a \in Handled(win[w])
    BY <1>0
  <1>2. k \in Ids /\ win[w].pc = "new" /\ archived' = archived
    BY <1>0
  <1>3. /\ active[a] # None /\ HasRecord(a)' /\ Id(a)' = k
        /\ \A n \in Names : active[n] = None => active'[n] = None
        /\ \A n \in Names \ {a} : Id(n)' = Id(n)
        /\ \A n \in Names : Kept(n)' = Kept(n)
    BY <1>0
  <1>4. /\ made' = made \cup {k} /\ k \notin made /\ made' = 1..Cardinality(made')
    BY <1>0
  <1>5. /\ crossed \subseteq crossed' /\ crossed' \subseteq made'
        /\ \A v \in Windows \ {w} : a \in Handled(win[v]) => k \in crossed'
        /\ Id(a) \in crossed' \cup {0}
    BY <1>0
  <1>6. Free \subseteq Free' /\ 0 \in Free /\ k # 0 /\ Id(a) \in Free'
    BY <1>2, <1>5 DEF Free, Ids
  <1>7. /\ Turn(w) /\ win'[w].pc # "new" /\ win'[w].cmd = win[w].cmd
        /\ Seen(w, a)' = k /\ \A n \in Names \ {a} : Seen(w, n)' = Seen(w, n)
    <2> DEFINE t == NewTask(k, win[w].cmd.a)
               pc == IF win[w].cmd.b = None THEN "activate" ELSE "parent"
    <2>1. t \in Task /\ t.id = k
      BY <1>1, NewRecord
    <2>2. pc \in Pcs /\ pc # "new"
      BY PcsAre
    <2>3. win' = [win EXCEPT ![w].pc = pc, ![w].read[a] = t]
      BY <1>1 DEF CreateRecord
    <2> HIDE DEF t, pc, k
    <2>4. HasRead(w, pc, a, t)
      BY <2>1, <2>2, <2>3, ReadsTurns
    <2>5. t # None
      BY <2>1, TasksAssumption DEF TasksAssumption
    <2>6. Turn(w)
      BY Turns DEF Continue
    <2> QED
      BY <2>1, <2>2, <2>4, <2>5, <2>6 DEF HasRead, ReadsBut, Seen
  <1>8. \A v \in Windows, n \in Names :
            Seen(v, n)' = Seen(v, n) \/ (v = w /\ n = a /\ Seen(v, n)' = k)
    <2>1. \A v \in Windows \ {w}, n \in Names : Seen(v, n)' = Seen(v, n)
      BY <1>7 DEF Turn, Alone, Seen
    <2> QED
      BY <1>7, <2>1
  <1>9. /\ \A v \in Windows : Handled(win'[v]) \subseteq Handled(win[v])
        /\ \A v \in Windows \ {w} : win'[v] = win[v]
    BY <1>7, TurnShows DEF Turn, Alone
  <1> HIDE DEF k
  <1>10. Crossing'
    <2> SUFFICES ASSUME NEW u \in Windows, NEW v \in Windows, u # v,
                        NEW n \in Handled(win'[u]) \cap Handled(win'[v])
                 PROVE  /\ Id(n)' \in Free'
                        /\ \A x \in Names :
                              win'[u].cmd.op = "rename" /\ win'[u].cmd.b = n /\ win'[u].cmd.a = x
                                  => Id(x)' \in Free'
      BY DEF Crossing
    <2>1. n \in Handled(win[u]) \cap Handled(win[v]) /\ n \in Names
      BY <1>9, HandledAre DEF IInv
    <2>2. win'[u].cmd = win[u].cmd
      BY <1>7, <1>9
    <2>3. n = a => k \in Free'
      BY <1>5, <2>1 DEF Free
    <2>4. /\ Id(n) \in Free
          /\ \A x \in Names :
                win[u].cmd.op = "rename" /\ win[u].cmd.b = n /\ win[u].cmd.a = x => Id(x) \in Free
      BY <2>1 DEF IdsOK, Crossing
    <2>5. Id(n)' \in Free'
      BY <1>3, <1>6, <2>1, <2>3, <2>4
    <2>6. ASSUME NEW x \in Names, win[u].cmd.op = "rename", win[u].cmd.b = n, win[u].cmd.a = x
          PROVE  Id(x)' \in Free'
      <3>1. CASE x = a
        <4>1. u # w /\ a \in Handled(win[u])
          BY <1>2, <2>6, <3>1, CommandIsHandled DEF Flows, Flow
        <4> QED
          BY <1>3, <1>5, <3>1, <4>1 DEF Free
      <3>2. CASE x # a
        BY <1>3, <1>6, <2>4, <2>6, <3>2
      <3> QED
        BY <3>1, <3>2
    <2> QED
      BY <2>2, <2>5, <2>6
  <1>11. Reading'
    <2> SUFFICES ASSUME NEW v \in Windows, NEW n \in Names
                 PROVE  Seen(v, n)' \in Free' \/ Id(n)' = Seen(v, n)' \/ Moved(win'[v], n)
      BY DEF Reading
    <2>1. Seen(v, n) \in Free \/ Id(n) = Seen(v, n) \/ Moved(win[v], n)
      BY DEF IdsOK, Reading
    <2>2. Moved(win[v], n) => v # w /\ Moved(win'[v], n)
      BY <1>2, <1>9 DEF Moved
    <2>3. CASE n = a /\ v = w
      BY <1>3, <1>7, <2>3
    <2>4. CASE n = a /\ v # w
      <3>1. Seen(v, n) # 0 => Id(n) \in Free
        BY <1>1, <2>4, Both
      <3> QED
        BY <1>6, <1>8, <2>1, <2>2, <2>4, <3>1
    <2>5. CASE n # a
      BY <1>3, <1>6, <1>8, <2>1, <2>2, <2>5
    <2> QED
      BY <2>3, <2>4, <2>5
  <1>12. Recent'
    <2> SUFFICES ASSUME NEW v \in Windows, NEW n \in Names, Seen(v, n)' # 0
                 PROVE  Id(n)' \in Free' \cup {Seen(v, n)'}
      BY DEF Recent
    <2>1. CASE n = a /\ v = w
      BY <1>3, <1>7, <2>1
    <2>2. CASE n = a /\ v # w
      <3>1. a \in Handled(win[v])
        BY <1>8, <2>2, SeenIsHandled DEF IInv, Flows
      <3> QED
        BY <1>3, <1>5, <2>2, <3>1 DEF Free
    <2>3. CASE n # a
      BY <1>3, <1>6, <1>8, <2>3 DEF IdsOK, Recent
    <2> QED
      BY <2>1, <2>2, <2>3
  <1>13. Target'
    <2>1. win[w].cmd.op # "rename"
      BY <1>2 DEF Flows, Flow
    <2> QED
      BY <1>3, <1>6, <1>7, <1>9, <2>1 DEF IdsOK, Target
  <1>14. Fresh'
    <2> SUFFICES ASSUME NEW v \in Windows, NEW n \in Names,
                        win'[v].pc = "new", win'[v].cmd.op = "create", win'[v].cmd.a = n
                 PROVE  Id(n)' \in Free'
      BY DEF Fresh
    <2>1. v # w /\ win'[v] = win[v]
      BY <1>7, <1>9
    <2>2. Id(n) \in Free /\ n \in Handled(win[v])
      BY <2>1, CommandIsHandled DEF IdsOK, Fresh
    <2> QED
      BY <1>3, <1>5, <1>6, <2>1, <2>2 DEF Free
  <1>15. Apart'
    <2> SUFFICES ASSUME NEW n \in Names, Kept(n)' \notin Free', NEW v \in Windows
                 PROVE  active'[n] = None /\ (Seen(v, n)' = 0 \/ n = win'[v].cmd.a)
      BY DEF Apart
    <2>1. active[n] = None /\ (Seen(v, n) = 0 \/ n = win[v].cmd.a)
      BY <1>3, <1>6 DEF IdsOK, Apart
    <2> QED
      BY <1>1, <1>3, <1>7, <1>8, <1>9, <2>1
  <1>16. Known'
    <2>1. \A n \in Names : Id(n)' \in made' \cup {0} /\ Kept(n)' \in made' \cup {0}
      BY <1>3, <1>4 DEF IdsOK, Known
    <2>2. \A v \in Windows, n \in Names : Seen(v, n)' \in made' \cup {0}
      BY <1>4, <1>8 DEF IdsOK, Known
    <2> QED
      BY <1>4, <1>5, <2>1, <2>2 DEF Known
  <1>17. Unique'
    <2>1. \A n \in Names : Id(n) # k /\ Kept(n) # k
      BY <1>4, <1>6 DEF IdsOK, Known
    <2> QED
      BY <1>3, <1>6, <2>1 DEF IdsOK, Unique
  <1>18. Placed'
    <2> SUFFICES ASSUME NEW i \in made', i \notin crossed', i \notin Torn'
                 PROVE  \E n \in Names : Id(n)' = i \/ Kept(n)' = i
      BY DEF Placed
    <2>1. CASE i = k
      BY <1>3, <2>1
    <2>2. CASE i # k
      <3>1. i \in made /\ i \notin crossed /\ i # 0
        BY <1>4, <1>5, <2>2 DEF IInv, HistoryOK, Ids
      <3>2. i \notin Torn
        BY TornGrows DEF Continue
      <3>3. PICK n \in Names : Id(n) = i \/ Kept(n) = i
        BY <3>1, <3>2 DEF IdsOK, Placed
      <3> QED
        BY <1>3, <1>5, <3>1, <3>3
    <2> QED
      BY <2>1, <2>2
  <1> QED
    BY <1>10, <1>11, <1>12, <1>13, <1>14, <1>15, <1>16, <1>17, <1>18 DEF IdsOK

\* A command is called: it has read what is there, and is on its course.
Entered(w, q) ==
    /\ win' = [win EXCEPT ![w] = q]
    /\ crossed' = crossed \cup IdsAt(UNION {Shared(q, win[v]) : v \in Windows \ {w}})
                          \cup (IdsAt(Handled(q)) \cap Unfinished(q.cmd))
                          \cup Stranded(q.cmd)
    /\ archived' = archived /\ made' = made /\ broken' = broken
    /\ \A n \in Names : /\ Id(n)' = Id(n)
                        /\ active[n] = None => active'[n] = None \/ archived[n] = None
                        /\ q.read[n] # None => HasRecord(n) /\ q.read[n] = active[n]
    /\ Flow(q) /\ RenameFlow(q) /\ \A n \in Names : ~Moved(q, n)
    /\ \A n \in Names :
          /\ q.cmd.op = "rename" /\ q.cmd.b = n => archived[n] = None
          /\ q.pc = "new" /\ q.cmd.op = "create" /\ q.cmd.a = n => ~HasRecord(n)

\* Of a rename to a name that another command is about, all is shared.
LEMMA RenamesShare ==
    ASSUME NEW q, NEW r, NEW n \in Handled(q) \cap Handled(r)
    PROVE  /\ q.cmd.op = "rename" /\ q.cmd.b = n => Handled(q) \subseteq Shared(q, r)
           /\ r.cmd.op = "rename" /\ r.cmd.b = n => Handled(r) \subseteq Shared(q, r)
           /\ \A x \in Names : q.cmd.op = "rename" /\ q.cmd.b = n /\ q.cmd.a = x
                                  => x \in Shared(q, r)
           /\ \A x \in Names : r.cmd.op = "rename" /\ r.cmd.b = n /\ r.cmd.a = x
                                  => x \in Shared(q, r)
  <1>1. q.pc # "idle" /\ r.pc # "idle"
    BY DEF Handled
  <1>2. /\ \A x \in Names : q.cmd.a = x => x \in Handled(q)
        /\ \A x \in Names : r.cmd.a = x => x \in Handled(r)
    BY <1>1, IsHandled, TasksAssumption DEF TasksAssumption
  <1>3. /\ q.cmd.op = "rename" /\ q.cmd.b = n => Handled(q) \subseteq Shared(q, r)
        /\ r.cmd.op = "rename" /\ r.cmd.b = n => Handled(r) \subseteq Shared(q, r)
    BY DEF Shared
  <1> QED
    BY <1>2, <1>3

LEMMA EnteredIds ==
    ASSUME IInv, Flows, IdsOK, NEW w \in Windows, NEW q, Entered(w, q)
    PROVE  Flows' /\ IdsOK'
  <1>1. win'[w] = q /\ \A v \in Windows \ {w} : win'[v] = win[v]
    BY DEF Entered, IInv, WindowsOK
  <1>2. Flows'
    BY <1>1 DEF Flows, Entered
  <1>3. crossed \subseteq crossed' /\ Free \subseteq Free' /\ crossed' \subseteq made /\ 0 \in Free'
    <2>1. crossed \subseteq crossed'
      BY DEF Entered
    <2>2. crossed' \subseteq made
      <3>1. /\ IdsAt(UNION {Shared(q, win[v]) : v \in Windows \ {w}}) \subseteq made
            /\ IdsAt(Handled(q)) \subseteq made
        BY IdsAtKnown
      <3>2. Stranded(q.cmd) \subseteq made
        BY StrandedAre, IdsAtKnown
      <3> QED
        BY <3>1, <3>2 DEF Entered, IdsOK, Known
    <2> QED
      BY <2>1, <2>2 DEF Free
  <1>4. /\ \A n \in Names : Id(n)' = Id(n) /\ Kept(n)' = Kept(n)
        /\ Torn' = Torn /\ made' = made
    BY DEF Entered, Kept, OnShelf, Torn
  <1>5. \A v \in Windows \ {w}, n \in Names : Seen(v, n)' = Seen(v, n)
    BY <1>1 DEF Seen
  <1>6. \A n \in Names : Seen(w, n)' \in {0, Id(n)}
    BY <1>1 DEF Seen, Entered, Id
  <1>7. ASSUME NEW v \in Windows \ {w}, NEW n \in Names, n \in Shared(q, win[v])
        PROVE  Id(n)' \in Free'
    <2> DEFINE N == UNION {Shared(q, win[u]) : u \in Windows \ {w}}
    <2>1. n \in N
      BY <1>7
    <2>2. IdsAt(N) \subseteq crossed'
      BY DEF Entered
    <2>3. Id(n) \in IdsAt(N) \cup {0}
      BY <2>1, IdIn
    <2> HIDE DEF N
    <2> QED
      BY <1>4, <2>2, <2>3 DEF Free
  <1>8. Crossing'
    <2> SUFFICES ASSUME NEW u \in Windows, NEW v \in Windows, u # v,
                        NEW n \in Handled(win'[u]) \cap Handled(win'[v])
                 PROVE  /\ Id(n)' \in Free'
                        /\ \A x \in Names :
                              win'[u].cmd.op = "rename" /\ win'[u].cmd.b = n /\ win'[u].cmd.a = x
                                  => Id(x)' \in Free'
      BY DEF Crossing
    <2>0. n \in Names
      <3>1. CASE u # w
        BY <1>1, <3>1, HandledAre DEF IInv
      <3>2. CASE v # w
        BY <1>1, <3>2, HandledAre DEF IInv
      <3> QED
        BY <3>1, <3>2
    <2>1. CASE u = w
      <3>1. n \in Shared(q, win[v])
        BY <1>1, <2>1 DEF Shared
      <3>2. \A x \in Names : q.cmd.op = "rename" /\ q.cmd.b = n /\ q.cmd.a = x
                                 => x \in Shared(q, win[v])
        BY <1>1, <2>1, RenamesShare
      <3> QED
        BY <1>1, <1>7, <2>0, <2>1, <3>1, <3>2
    <2>2. CASE v = w
      <3>1. n \in Shared(q, win[u])
        BY <1>1, <2>2 DEF Shared
      <3>2. \A x \in Names : win[u].cmd.op = "rename" /\ win[u].cmd.b = n /\ win[u].cmd.a = x
                                 => x \in Shared(q, win[u])
        BY <1>1, <2>2, RenamesShare
      <3> QED
        BY <1>1, <1>7, <2>0, <2>2, <3>1, <3>2
    <2>3. CASE u # w /\ v # w
      BY <1>1, <1>3, <1>4, <2>0, <2>3 DEF IdsOK, Crossing
    <2> QED
      BY <2>1, <2>2, <2>3
  <1>9. Reading'
    <2> SUFFICES ASSUME NEW v \in Windows, NEW n \in Names
                 PROVE  Seen(v, n)' \in Free' \/ Id(n)' = Seen(v, n)' \/ Moved(win'[v], n)
      BY DEF Reading
    <2>1. CASE v = w
      BY <1>3, <1>4, <1>6, <2>1
    <2>2. CASE v # w
      <3>1. Seen(v, n) \in Free \/ Id(n) = Seen(v, n) \/ Moved(win[v], n)
        BY DEF IdsOK, Reading
      <3> QED
        BY <1>1, <1>3, <1>4, <1>5, <2>2, <3>1
    <2> QED
      BY <2>1, <2>2
  <1>10. Recent'
    <2> SUFFICES ASSUME NEW v \in Windows, NEW n \in Names, Seen(v, n)' # 0
                 PROVE  Id(n)' \in Free' \cup {Seen(v, n)'}
      BY DEF Recent
    <2>1. CASE v = w
      BY <1>4, <1>6, <2>1
    <2>2. CASE v # w
      <3>1. Id(n) \in Free \cup {Seen(v, n)}
        BY <1>5, <2>2 DEF IdsOK, Recent
      <3> QED
        BY <1>3, <1>4, <1>5, <2>2, <3>1
    <2> QED
      BY <2>1, <2>2
  <1>11. Target'
    <2> SUFFICES ASSUME NEW v \in Windows, NEW n \in Names, win'[v].cmd.op = "rename",
                        win'[v].pc # "sessions", win'[v].cmd.b = n
                 PROVE  Kept(n)' \in Free'
      BY DEF Target
    <2>1. CASE v = w
      <3>1. archived[n] = None
        BY <1>1, <2>1 DEF Entered
      <3> QED
        BY <1>3, <1>4, <3>1 DEF Kept, OnShelf
    <2>2. CASE v # w
      BY <1>1, <1>3, <1>4, <2>2 DEF IdsOK, Target
    <2> QED
      BY <2>1, <2>2
  <1>12. Fresh'
    <2> SUFFICES ASSUME NEW v \in Windows, NEW n \in Names,
                        win'[v].pc = "new", win'[v].cmd.op = "create", win'[v].cmd.a = n
                 PROVE  Id(n)' \in Free'
      BY DEF Fresh
    <2>1. CASE v = w
      <3>1. ~HasRecord(n)
        BY <1>1, <2>1 DEF Entered
      <3> QED
        BY <1>3, <1>4, <3>1 DEF Id
    <2>2. CASE v # w
      BY <1>1, <1>3, <1>4, <2>2 DEF IdsOK, Fresh
    <2> QED
      BY <2>1, <2>2
  <1>13. Apart'
    <2> SUFFICES ASSUME NEW n \in Names, Kept(n)' \notin Free', NEW v \in Windows
                 PROVE  active'[n] = None /\ (Seen(v, n)' = 0 \/ n = win'[v].cmd.a)
      BY DEF Apart
    <2>1. /\ Kept(n) \notin Free /\ active[n] = None
          /\ (Seen(v, n) = 0 \/ n = win[v].cmd.a)
      BY <1>3, <1>4 DEF IdsOK, Apart
    <2>2. Kept(n) # 0
      BY <2>1 DEF Free
    <2>3. archived[n] # None
      BY <2>2 DEF Kept, OnShelf
    <2>4. active'[n] = None
      BY <2>1, <2>3 DEF Entered
    <2>5. Id(n) = 0
      BY <2>1 DEF Id, HasRecord
    <2> QED
      BY <1>1, <1>5, <1>6, <2>1, <2>4, <2>5
  <1>14. Known'
    <2>1. \A v \in Windows, n \in Names : Seen(v, n)' \in made' \cup {0}
      BY <1>4, <1>5, <1>6 DEF IdsOK, Known
    <2>2. \A n \in Names : Id(n)' \in made' \cup {0} /\ Kept(n)' \in made' \cup {0}
      BY <1>4 DEF IdsOK, Known
    <2> QED
      BY <1>3, <1>4, <2>1, <2>2 DEF IdsOK, Known
  <1>15. Unique'
    BY <1>3, <1>4 DEF IdsOK, Unique
  <1>16. Placed'
    BY <1>3, <1>4 DEF IdsOK, Placed
  <1> QED
    BY <1>2, <1>8, <1>9, <1>10, <1>11, <1>12, <1>13, <1>14, <1>15, <1>16 DEF IdsOK

\* The commands that read something first.
LEMMA CallEnters ==
    ASSUME IInv, NEW w \in Windows, NEW c \in Menu[w],
           CreateDir(w, c) \/ LinkRead(w, c) \/ RenamePlan(w, c) \/ ArchiveRead(w, c)
               \/ StartCalled(w, c) \/ FinishCalled(w, c) \/ FieldRead(w, c)
    PROVE  \E q : Entered(w, q)
  <1>0. WellFormed(c)
    BY MenuAssumption
  <1>1. /\ \A N : \A n \in Names : ReadNow(N)[n] # None =>
                /\ n \in N /\ HasRecord(n) /\ ReadNow(N)[n] = active[n]
        /\ \A n \in Names : NothingRead[n] = None
    BY DEF ReadNow, NothingRead
  <1>2. ASSUME NEW pc, NEW read, NEW todo, Enter(w, At(pc, c, read, todo)),
               archived' = archived, made' = made, broken' = broken,
               \A n \in Names : /\ Id(n)' = Id(n)
                                /\ active[n] = None => active'[n] = None \/ archived[n] = None
                                /\ read[n] # None => HasRecord(n) /\ read[n] = active[n],
               Flow(At(pc, c, read, todo)), RenameFlow(At(pc, c, read, todo)),
               pc \notin {"sessions", "add", "rm", "commit"},
               \A n \in Names :
                  /\ c.op = "rename" /\ c.b = n => archived[n] = None
                  /\ pc = "new" /\ c.op = "create" /\ c.a = n => ~HasRecord(n)
        PROVE  \E q : Entered(w, q)
    <2> DEFINE q == At(pc, c, read, todo)
    <2>1. q.pc = pc /\ q.cmd = c /\ q.read = read /\ q.todo = todo
      BY DEF At
    <2> HIDE DEF q
    <2>2. \A n \in Names : ~Moved(q, n)
      BY <1>2, <2>1 DEF Moved
    <2>3. Flow(q) /\ RenameFlow(q)
      BY <1>2 DEF q
    <2>4. /\ win' = [win EXCEPT ![w] = q]
          /\ crossed' = crossed \cup IdsAt(UNION {Shared(q, win[v]) : v \in Windows \ {w}})
                                \cup (IdsAt(Handled(q)) \cap Unfinished(q.cmd))
                                \cup Stranded(q.cmd)
      BY <1>2 DEF Enter, q
    <2>5. Entered(w, q)
      BY <1>2, <2>1, <2>2, <2>3, <2>4 DEF Entered
    <2> QED
      BY <2>5
  <1>3. active' = active => \A n \in Names : Id(n)' = Id(n)
    BY DEF Id, HasRecord
  <1>4. CASE CreateDir(w, c)
    <2>1. /\ c.op \in {"create", "force"} /\ Enter(w, At("new", c, ReadNow({c.b}), {}))
          /\ archived[c.a] = None /\ ((active[c.a] # None) <=> (c.op = "force"))
          /\ active' = IF HasRecord(c.a) THEN active ELSE [active EXCEPT ![c.a] = Bare]
          /\ archived' = archived /\ made' = made /\ broken' = broken
      BY <1>4 DEF CreateDir, MayCreate, taskVars
    <2>2. PICK a \in Names : a = c.a
      BY <1>0, <2>1 DEF WellFormed
    <2>3. \A n \in Names : /\ Id(n)' = Id(n)
                           /\ active[n] = None => active'[n] = None \/ archived[n] = None
      <3>1. CASE HasRecord(a)
        BY <1>3, <2>1, <2>2, <3>1
      <3>2. CASE ~HasRecord(a)
        <4>1. active'[a] = Bare /\ \A n \in Names \ {a} : active'[n] = active[n]
          BY <2>1, <2>2, <3>2 DEF IInv, StoreOK
        <4>2. Id(a)' = 0 /\ Id(a) = 0
          BY <3>2, <4>1 DEF Id, HasRecord
        <4>3. \A n \in Names \ {a} : Id(n)' = Id(n)
          BY <4>1 DEF Id, HasRecord
        <4> QED
          BY <2>1, <2>2, <4>1, <4>2, <4>3
      <3> QED
        BY <3>1, <3>2
    <2>4. Flow(At("new", c, ReadNow({c.b}), {})) /\ RenameFlow(At("new", c, ReadNow({c.b}), {}))
      BY <1>0, <2>1 DEF Flow, RenameFlow, At
    <2>5. c.op = "create" => ~HasRecord(a)
      BY <2>1, <2>2 DEF HasRecord
    <2> QED
      BY <1>1, <1>2, <2>1, <2>2, <2>3, <2>4, <2>5
  <1>5. CASE LinkRead(w, c)
    <2>1. /\ c.op \in {"link", "unlink"} /\ Enter(w, At("parent", c, ReadNow({c.a, c.b}), {}))
          /\ active' = active /\ archived' = archived /\ made' = made /\ broken' = broken
      BY <1>5 DEF LinkRead, taskVars
    <2>2. /\ Flow(At("parent", c, ReadNow({c.a, c.b}), {}))
          /\ RenameFlow(At("parent", c, ReadNow({c.a, c.b}), {}))
      BY <1>0, <2>1 DEF Flow, RenameFlow, At
    <2> QED
      BY <1>1, <1>2, <1>3, <2>1, <2>2
  <1>6. CASE RenamePlan(w, c)
    <2> DEFINE N == {c.a} \cup Backrefs(c.a)
    <2>1. /\ c.op = "rename" /\ Enter(w, At("own", c, ReadNow(N), Backrefs(c.a)))
          /\ active[c.b] = None /\ archived[c.b] = None /\ c.b # c.a
          /\ active' = active /\ archived' = archived /\ made' = made /\ broken' = broken
      BY <1>6 DEF RenamePlan, MayRename, Unused, taskVars
    <2>2. PICK b \in Names : b = c.b
      BY <1>0, <2>1 DEF WellFormed
    <2>3. ~HasRecord(b) /\ b \notin Backrefs(c.a)
      BY <2>1, <2>2 DEF HasRecord, Backrefs, Records
    <2>4. ReadNow(N)[b] = None
      BY <1>1, <2>3
    <2> HIDE DEF N
    <2>5. Flow(At("own", c, ReadNow(N), Backrefs(c.a)))
      BY <1>0, <2>1 DEF Flow, At
    <2>6. RenameFlow(At("own", c, ReadNow(N), Backrefs(c.a)))
      BY <2>1, <2>2, <2>3, <2>4 DEF RenameFlow, At
    <2> QED
      BY <1>1, <1>2, <1>3, <2>1, <2>2, <2>5, <2>6
  <1>7. CASE ArchiveRead(w, c)
    <2>1. /\ c.op \in {"archive", "hurried"}
          /\ active' = active /\ archived' = archived /\ made' = made /\ broken' = broken
      BY <1>7 DEF ArchiveRead, taskVars
    <2>2. \/ Enter(w, At("own", c, ReadNow({c.a}), active[c.a].kids))
          \/ Enter(w, At("kids", c, NothingRead, {}))
      BY <1>7 DEF ArchiveRead
    <2>3. ASSUME NEW read, NEW todo, NEW pc \in {"own", "kids"}
          PROVE  Flow(At(pc, c, read, todo)) /\ RenameFlow(At(pc, c, read, todo))
      BY <1>0, <2>1 DEF Flow, RenameFlow, At
    <2>4. CASE Enter(w, At("own", c, ReadNow({c.a}), active[c.a].kids))
      BY <1>1, <1>2, <1>3, <2>1, <2>3, <2>4
    <2>5. CASE Enter(w, At("kids", c, NothingRead, {}))
      BY <1>1, <1>2, <1>3, <2>1, <2>3, <2>5
    <2> QED
      BY <2>2, <2>4, <2>5
  <1>8. CASE StartCalled(w, c)
    <2>1. /\ c.op = "start" /\ Enter(w, At("gate", c, NothingRead, {}))
          /\ active' = active /\ archived' = archived /\ made' = made /\ broken' = broken
      BY <1>8 DEF StartCalled, taskVars
    <2>2. Flow(At("gate", c, NothingRead, {})) /\ RenameFlow(At("gate", c, NothingRead, {}))
      BY <1>0, <2>1 DEF Flow, RenameFlow, At
    <2> QED
      BY <1>1, <1>2, <1>3, <2>1, <2>2
  <1>9. CASE FinishCalled(w, c)
    <2>1. /\ c.op = "finish" /\ Enter(w, At("clear", c, NothingRead, {}))
          /\ active' = active /\ archived' = archived /\ made' = made /\ broken' = broken
      BY <1>9 DEF FinishCalled, taskVars
    <2>2. Flow(At("clear", c, NothingRead, {})) /\ RenameFlow(At("clear", c, NothingRead, {}))
      BY <1>0, <2>1 DEF Flow, RenameFlow, At
    <2> QED
      BY <1>1, <1>2, <1>3, <2>1, <2>2
  <1>10. CASE FieldRead(w, c)
    <2>1. /\ c.op \in {"branch", "base", "note"} /\ Enter(w, At("field", c, ReadNow({c.a}), {}))
          /\ active' = active /\ archived' = archived /\ made' = made /\ broken' = broken
      BY <1>10 DEF FieldRead, taskVars
    <2>2. Flow(At("field", c, ReadNow({c.a}), {})) /\ RenameFlow(At("field", c, ReadNow({c.a}), {}))
      BY <1>0, <2>1 DEF Flow, RenameFlow, At
    <2> QED
      BY <1>1, <1>2, <1>3, <2>1, <2>2
  <1> QED
    BY <1>4, <1>5, <1>6, <1>7, <1>8, <1>9, <1>10

LEMMA IdsStart ==
    ASSUME Init
    PROVE  Flows /\ IdsOK
  <1> DEFINE here == {n \in Names : First[n] # None}
  <1>1. /\ \A w \in Windows : win[w] = Idle
        /\ crossed = {} /\ broken = {} /\ active = First /\ made = IdsAt(Names)
        /\ \A n \in Names : archived[n] = None
    BY DEF Init
  <1>2. \A n \in Names : First[n] \in Task \cup {None}
    BY TasksAssumption DEF TasksAssumption
  <1>3. \A n \in Names : HasRecord(n) <=> n \in here
    BY <1>1, <1>2, TasksAssumption DEF TasksAssumption, HasRecord
  <1>4. \A n \in Names : IF n \in here THEN Id(n) = First[n].id /\ Id(n) \in Ids ELSE Id(n) = 0
    <2>1. \A n \in here : First[n].id \in Ids
      BY <1>2 DEF Task
    <2> QED
      BY <1>1, <1>3, <2>1 DEF Id
  <1>5. made = 1..Cardinality(here)
    <2>1. IdsAt(Names) = {First[n].id : n \in here}
      BY <1>1, <1>3 DEF IdsAt
    <2> QED
      BY <1>1, <2>1, FirstIds
  <1>6. Cardinality(here) \in Nat /\ Cardinality(made) = Cardinality(here)
    <2>1. IsFiniteSet(here)
      BY TasksAssumption, FS_Subset DEF TasksAssumption
    <2>2. Cardinality(here) \in Nat
      BY <2>1, FS_CardinalityType
    <2>3. Cardinality(1..Cardinality(here)) = Cardinality(here)
      BY <2>2, FS_Interval
    <2> QED
      BY <1>5, <2>2, <2>3
  <1>7. \A n \in here : First[n].id \in made
    <2>1. {First[n].id : n \in here} = made
      BY <1>5, FirstIds
    <2> QED
      BY <2>1
  <1>8. /\ \A n \in Names : Kept(n) = 0
        /\ \A w \in Windows, n \in Names : Seen(w, n) = 0
        /\ \A w \in Windows : Handled(win[w]) = {} /\ win[w].cmd.op = "finish" /\ win[w].pc = "idle"
    BY <1>1, IdleIs DEF Kept, OnShelf, Seen
  <1>9. Flows
    BY <1>1, IdleIs DEF Flows
  <1>10. 0 \in Free
    BY DEF Free
  <1>11. \A n, m \in here : First[n].id = First[m].id => n = m
    BY FirstIds
  <1> HIDE DEF here
  <1>12. Crossing /\ Target /\ Fresh /\ Apart /\ Reading /\ Recent
    BY <1>8, <1>10 DEF Crossing, Target, Fresh, Apart, Reading, Recent
  <1>13. Known
    BY <1>1, <1>4, <1>5, <1>6, <1>7, <1>8 DEF Known
  <1>14. \A n \in Names : Id(n) = 0 => Id(n) \in Free
    BY <1>10
  <1>15. Unique
    <2>1. ASSUME NEW n \in Names, NEW m \in Names, n # m, Id(n) = Id(m)
          PROVE  Id(n) \in Free
      <3>1. CASE n \in here /\ m \in here
        BY <1>4, <1>11, <2>1, <3>1
      <3>2. CASE n \notin here \/ m \notin here
        BY <1>4, <1>10, <2>1, <3>2
      <3> QED
        BY <3>1, <3>2
    <2> QED
      BY <1>8, <1>10, <2>1 DEF Unique
  <1>16. Placed
    <2> SUFFICES ASSUME NEW i \in made
                 PROVE  \E n \in Names : Id(n) = i
      BY DEF Placed
    <2>1. made = {First[n].id : n \in here}
      BY <1>5, FirstIds DEF here
    <2>2. PICK n \in here : First[n].id = i
      BY <2>1
    <2>3. n \in Names
      BY DEF here
    <2> QED
      BY <1>4, <2>2, <2>3
  <1> QED
    BY <1>9, <1>12, <1>13, <1>15, <1>16 DEF IdsOK

LEMMA CurateStays ==
    ASSUME IInv, NEW w \in Windows, NEW c \in Menu[w], Curate(w, c)
    PROVE  \A n \in Names : Id(n)' = Id(n) /\ (active[n] = None => active'[n] = None)
  <1>1. HasRecord(c.a) /\ active' = [active EXCEPT ![c.a].manifest = c.a]
    BY DEF Curate
  <1>2. PICK a \in Names : a = c.a /\ active[a] \in Task
    BY <1>1, RecordIs DEF IInv
  <1>3. /\ active'[a] = [active[a] EXCEPT !.manifest = a]
        /\ \A n \in Names \ {a} : active'[n] = active[n]
    BY <1>1, <1>2 DEF IInv, StoreOK
  <1>4. active'[a] \in Task /\ active'[a].id = active[a].id
    BY <1>2, <1>3 DEF Task
  <1>5. active'[a] # None /\ active'[a] # Bare /\ active[a] # None /\ active[a] # Bare
    BY <1>2, <1>4, TasksAssumption DEF TasksAssumption
  <1> QED
    BY <1>3, <1>4, <1>5 DEF Id, HasRecord

LEMMA CurateIds ==
    ASSUME IInv, IdsOK, NEW w \in Windows, NEW c \in Menu[w], Curate(w, c)
    PROVE  IdsOK'
  <1>1. /\ crossed' = crossed \cup IdsAt({c.a} \cap HandledByOthers(w))
        /\ archived' = archived /\ win' = win /\ made' = made /\ broken' = broken
    BY DEF Curate
  <1>2. crossed' \subseteq made
    BY <1>1, IdsAtKnown DEF IdsOK, Known
  <1>3. Backdrop
    BY <1>1, <1>2 DEF Backdrop, Kept, OnShelf, Torn
  <1> QED
    BY <1>1, <1>3, CurateStays, IdsStay

LEMMA SameIdsStay ==
    ASSUME IInv, Flows, IdsOK,
           UNCHANGED <<active, archived, win, made, crossed, broken>>
    PROVE  Flows' /\ IdsOK'
  <1>1. Backdrop
    BY DEF Backdrop, Kept, OnShelf, Torn, IdsOK, Known
  <1>2. \A n \in Names : Id(n)' = Id(n)
    BY DEF Id, HasRecord
  <1> QED
    BY <1>1, <1>2, IdsStay DEF Flows

LEMMA IdsKeep ==
    ASSUME IInv, Flows, IdsOK, [Next]_vars
    PROVE  Flows' /\ IdsOK'
  <1>1. ASSUME NEW w \in Windows, ~Step(w, "idle"), Continue(w)
        PROVE  Flows' /\ IdsOK'
    <2>1. Turn(w)
      BY <1>1, Turns DEF IInv
    <2>2. Flows'
      BY <2>1, TurnFlows
    <2>3. CASE CreateRecord(w) \/ RenameMove(w) \/ ArchiveMove(w)
      BY <2>2, <2>3, CreateIds, MoveIds, ShelveIds
    <2>4. CASE ~CreateRecord(w) /\ ~RenameMove(w) /\ ~ArchiveMove(w)
      <3>1. Tame(w) /\ Backdrop
        BY <1>1, <2>4, TameSteps, BackdropStays
      <3>2. win[w].pc = "new" => win'[w] = Idle
        BY <1>1, <2>4, NewGoes
      <3> QED
        BY <2>1, <2>2, <3>1, <3>2, TameKeeps
    <2> QED
      BY <2>3, <2>4
  <1>2. ASSUME NEW w \in Windows, NEW c \in Menu[w], Called(w, c)
        PROVE  Flows' /\ IdsOK'
    <2>1. CASE RecordSession(w, c)
      BY <2>1, SameIdsStay DEF RecordSession, taskVars
    <2>2. CASE Curate(w, c)
      <3>1. win' = win
        BY <2>2 DEF Curate
      <3> QED
        BY <2>2, <3>1, CurateIds DEF Flows
    <2>3. CASE ~RecordSession(w, c) /\ ~Curate(w, c)
      <3>1. PICK q : Entered(w, q)
        BY <1>2, <2>3, CallEnters DEF Called
      <3> QED
        BY <3>1, EnteredIds
    <2> QED
      BY <2>1, <2>2, <2>3
  <1>3. CASE Expire
    BY <1>3, SameIdsStay DEF Expire, taskVars
  <1>4. CASE UNCHANGED vars
    BY <1>4, SameIdsStay DEF vars
  <1> QED
    BY <1>1, <1>2, <1>3, <1>4 DEF Next

(* The first part of TasksKept: a task that only one command at a time     *)
(* changed is in exactly one place, active or archived, under one name.    *)
OnePlaceEach == \A i \in made \ (crossed \cup Torn) : Cardinality(PlacesOf(i)) = 1

\* What git has of the archive is there, and an archived task whose commit
\* has been made is not among HEAD's active tasks.
GitIds ==
    /\ head.arc \cup index.arc \subseteq OnShelf
    /\ \A n \in Names : Kept(n) \notin Free /\ n \in head.act => n \in owed

LEMMA GitStays ==
    ASSUME NEW w \in Windows, Continue(w),
           ~CommitAdd(w), ~CommitRm(w), ~CommitArchive(w), ~ArchiveMove(w)
    PROVE  index' = index /\ head' = head /\ owed' = owed
  BY DEF Continue, CreateRecord, CreateFails, CreateActivate, HookRead, HookWrite,
     WriteParent, WriteChild, WriteFails, RenameOwn, RenameManifest, RenameTorn,
     RenameBackref, RenameMove, RenameBlocked, RenameSessions, ArchiveOwn, ArchiveReadKid,
     ArchiveUnlink, ArchiveSessions, ArchiveBlocked,
     StartGate, StartPoint, ReadOwn, StartFlip, FinishClear, FieldWrite, Stop, gitVars

LEMMA GitRests ==
    ASSUME GitIds, index' = index, head' = head, owed' = owed,
           archived' = archived, crossed \subseteq crossed'
    PROVE  GitIds'
  BY DEF GitIds, Kept, OnShelf, Free

\* A commit leaves out the tasks that have been archived.
LEMMA CommitGit ==
    ASSUME IInv, IdsOK, GitIds, NEW w \in Windows, CommitArchive(w)
    PROVE  GitIds'
  <1>1. archived' = archived /\ crossed' = crossed /\ index' = index
    BY DEF CommitArchive, taskVars
  <1>2. CASE win[w].cmd.a \notin head.act
    <2>1. head' = head /\ owed' = owed
      BY <1>2 DEF CommitArchive
    <2> QED
      BY <1>1, <2>1, GitRests
  <1>3. CASE win[w].cmd.a \in head.act
    <2>1. PICK a \in Names : a = win[w].cmd.a
      BY <1>3 DEF IInv, GitOK
    <2>2. /\ head' = CommittedArchive(win[w]) /\ owed' = owed \ {a}
      BY <1>3, <2>1 DEF CommitArchive
    <2>3. /\ head'.act = (head.act \ {a}) \cup (ChangedKids(win[w]) \cap index.act)
          /\ head'.arc = head.arc \cup (index.arc \cap OnShelf)
      BY <2>1, <2>2 DEF CommittedArchive
    <2>4. ASSUME NEW n \in Names, Kept(n) \notin Free, n \in head'.act
          PROVE  n \in owed'
      <3>1. n \notin ChangedKids(win[w])
        <4>1. Seen(w, n) = 0 \/ n = a
          BY <2>1, <2>4 DEF IdsOK, Apart
        <4> QED
          BY <2>1, <4>1, SeenIs DEF ChangedKids, IInv
      <3> QED
        BY <2>2, <2>3, <2>4, <3>1 DEF GitIds
    <2>5. /\ \A n \in Names : Kept(n)' = Kept(n)
          /\ Free' = Free /\ OnShelf' = OnShelf
      BY <1>1 DEF Kept, OnShelf, Free
    <2> QED
      BY <1>1, <2>3, <2>4, <2>5 DEF GitIds
  <1> QED
    BY <1>2, <1>3

LEMMA ShelveGit ==
    ASSUME IInv, Flows, GitIds, NEW w \in Windows, ArchiveMove(w)
    PROVE  GitIds'
  <1>1. PICK a \in Names : a = win[w].cmd.a
    BY WindowFacts, CommandIsHandled DEF ArchiveMove, Step, IInv, WindowOK
  <1>2. /\ archived' = [archived EXCEPT ![a] = active[a]] /\ archived[a] = None
        /\ owed' = owed \cup {a} /\ index' = index /\ head' = head /\ crossed' = crossed
    BY <1>1 DEF ArchiveMove, gitVars
  <1>3. \A n \in Names \ {a} : archived'[n] = archived[n]
    BY <1>2 DEF IInv, StoreOK
  <1>4. /\ OnShelf \subseteq OnShelf' /\ \A n \in Names \ {a} : Kept(n)' = Kept(n)
    BY <1>2, <1>3 DEF Kept, OnShelf
  <1> QED
    BY <1>2, <1>4 DEF GitIds, Free

LEMMA GitKeeps ==
    ASSUME IInv, Flows, IdsOK, GitIds, [Next]_vars
    PROVE  GitIds'
  <1>1. ASSUME NEW w \in Windows, ~Step(w, "idle"), Continue(w)
        PROVE  GitIds'
    <2>0. archived' = archived \/ ArchiveMove(w)
      BY <1>1, ArchiveStays
    <2>1. crossed \subseteq crossed'
      BY <1>1, HistoryStays DEF CreateRecord
    <2>2. CASE ArchiveMove(w)
      BY <2>2, ShelveGit
    <2>3. CASE CommitArchive(w)
      BY <2>3, CommitGit
    <2>4. CASE CommitAdd(w)
      <3>1. /\ archived' = archived /\ head' = head /\ owed' = owed /\ crossed' = crossed
            /\ index'.arc \in {index.arc, index.arc \cup OnShelf}
        BY <2>4 DEF CommitAdd, taskVars
      <3> QED
        BY <3>1 DEF GitIds, Kept, OnShelf, Free
    <2>5. CASE CommitRm(w)
      <3>1. /\ archived' = archived /\ head' = head /\ owed' = owed /\ crossed' = crossed
            /\ index'.arc = index.arc
        BY <2>5 DEF CommitRm, taskVars, IInv, GitOK
      <3> QED
        BY <3>1 DEF GitIds, Kept, OnShelf, Free
    <2> QED
      BY <1>1, <2>0, <2>1, <2>2, <2>3, <2>4, <2>5, GitStays, GitRests
  <1>2. ASSUME NEW w \in Windows, NEW c \in Menu[w], Called(w, c)
        PROVE  GitIds'
    <2>1. CASE RecordSession(w, c)
      <3> DEFINE n == S!ResolveActive(S!EnvKey(w), TRUE).task
      <3>1. /\ HasRecord(n) /\ archived' = archived /\ owed' = owed /\ crossed' = crossed
            /\ index' = [index EXCEPT !.act = @ \cup {n}]
            /\ head' = [head EXCEPT !.act = @ \cup {n}]
        BY <2>1 DEF RecordSession, taskVars
      <3> HIDE DEF n
      <3>2. /\ index'.arc = index.arc /\ head'.arc = head.arc
            /\ head'.act = head.act \cup {n}
        BY <3>1 DEF IInv, GitOK
      <3>3. n \in Names /\ active[n] # None
        BY <3>1 DEF HasRecord
      <3>4. Kept(n) \in Free
        BY <3>3 DEF IdsOK, Apart
      <3> QED
        BY <3>1, <3>2, <3>4 DEF GitIds, Kept, OnShelf, Free
    <2>2. CASE ~RecordSession(w, c)
      <3>1. /\ index' = index /\ head' = head /\ owed' = owed /\ archived' = archived
            /\ crossed \subseteq crossed'
        BY <1>2, <2>2 DEF Called, CreateDir, LinkRead, RenamePlan, ArchiveRead, StartCalled,
           FinishCalled, FieldRead, Curate, gitVars, taskVars, Enter
      <3> QED
        BY <3>1, GitRests
    <2> QED
      BY <2>1, <2>2
  <1>3. CASE Expire
    BY <1>3, GitRests DEF Expire, taskVars, gitVars
  <1>4. CASE UNCHANGED vars
    BY <1>4, GitRests DEF vars
  <1> QED
    BY <1>1, <1>2, <1>3, <1>4 DEF Next

-----------------------------------------------------------------------------

\* All of it.
Whereabouts == Flows /\ IdsOK /\ GitIds

LEMMA WhereaboutsStart == Init => Whereabouts
  BY IdsStart DEF Whereabouts, GitIds, Init, OnShelf, Kept, Free

LEMMA WhereaboutsKeep == IInv /\ Whereabouts /\ [Next]_vars => Whereabouts'
  BY IdsKeep, GitKeeps DEF Whereabouts

LEMMA OnePlace == IInv /\ Whereabouts => OnePlaceEach
  <1> SUFFICES ASSUME IInv, IdsOK, NEW i \in made \ (crossed \cup Torn)
               PROVE  Cardinality(PlacesOf(i)) = 1
    BY DEF Whereabouts, OnePlaceEach
  <1>1. i \notin Free
    BY DEF Free, IInv, HistoryOK, Ids
  <1>2. \A n \in Names : /\ Id(n) = i <=> n \in Records /\ active[n].id = i
                         /\ Kept(n) = i <=> n \in OnShelf /\ archived[n].id = i
    BY <1>1 DEF Id, Kept, Free, Records
  <1>3. PlacesOf(i) = {<<"active", n>> : n \in {m \in Names : Id(m) = i}}
                          \cup {<<"archived", n>> : n \in {m \in Names : Kept(m) = i}}
    BY <1>2 DEF PlacesOf, Records, OnShelf
  <1>4. PICK n \in Names : Id(n) = i \/ Kept(n) = i
    BY DEF IdsOK, Placed
  <1>5. CASE Id(n) = i
    <2>1. \A m \in Names : (Id(m) = i => m = n) /\ Kept(m) # i
      BY <1>1, <1>5 DEF IdsOK, Unique
    <2>2. PlacesOf(i) = {<<"active", n>>}
      BY <1>3, <1>5, <2>1
    <2> QED
      BY <2>2, FS_Singleton
  <1>6. CASE Kept(n) = i
    <2>1. \A m \in Names : (Kept(m) = i => m = n) /\ Id(m) # i
      BY <1>1, <1>6 DEF IdsOK, Unique
    <2>2. PlacesOf(i) = {<<"archived", n>>}
      BY <1>3, <1>6, <2>1
    <2> QED
      BY <2>2, FS_Singleton
  <1> QED
    BY <1>4, <1>5, <1>6

LEMMA WholeArchive == IInv /\ Whereabouts => NoHalfArchive
  <1> SUFFICES ASSUME IInv, GitIds, NEW n \in head.act \cap head.arc
               PROVE  n \in owed \/ (n \in OnShelf /\ archived[n].id \in crossed)
    BY DEF Whereabouts, NoHalfArchive
  <1>1. n \in OnShelf /\ n \in Names
    BY DEF GitIds, OnShelf
  <1>2. Kept(n) = archived[n].id /\ Kept(n) # 0
    BY <1>1, KeptIs DEF IInv
  <1> QED
    BY <1>1, <1>2 DEF GitIds, Free

(* No commit records a name as an active and as an archived task at once,  *)
(* unless its archive commit is outstanding or another command was at work *)
(* on it: not for any number of windows, however often they are cut off.   *)
THEOREM ArchivesWhole == Spec => []NoHalfArchive
  <1>1. Init => IInv /\ Whereabouts
    BY InitKeeps, WhereaboutsStart
  <1>2. IInv /\ Whereabouts /\ [Next]_vars => IInv' /\ Whereabouts'
    BY NextKeeps, WhereaboutsKeep
  <1>3. IInv /\ Whereabouts => NoHalfArchive
    BY WholeArchive
  <1> QED
    BY <1>1, <1>2, <1>3, PTL DEF Spec

-----------------------------------------------------------------------------
(* What the archive keeps.  An archive checks and completes a record some  *)
(* steps before it moves it, and a rename repoints the entries of a task   *)
(* some steps before the task is there: in between, only what no other     *)
(* command is about has kept its contents.                                 *)

\* The record is as command c leaves it in the archive.
Sound(c, t) == t.status = "completed" /\ (c.op = "archive" => MayArchive(t))

Planned ==
    \A w \in Windows, n \in Names :
        win[w].pc = "own" /\ win[w].cmd.op = "archive" /\ win[w].cmd.a = n
            => MayArchive(win[w].read[n])

\* What an archive has completed stays so until the move...
Completing ==
    \A w \in Windows, n \in Names :
        win[w].pc \in {"kids", "kid", "shelve"} /\ win[w].cmd.a = n =>
            /\ Id(n) \in Free \/ Sound(win[w].cmd, active[n])
            /\ Seen(w, n) \in Free \/ Sound(win[w].cmd, win[w].read[n])

\* ... and what it will commit is in the archive.
Committing ==
    \A w \in Windows, n \in Names :
        win[w].pc \in {"add", "rm", "commit"} /\ win[w].cmd.a = n
            => Kept(n) \in Free \/ MayArchive(archived[n])

\* Tasks created over another one, or whose creation was cut off.
Over == {m.id : m \in {x \in broken : x.by.op \in {"create", "force"}}}

Shelved ==
    \A n \in Names : Kept(n) \notin Free =>
        /\ archived[n].status = "completed"
        /\ n \in owed \/ MayArchive(archived[n])
        /\ archived[n].manifest \in {None, n} \/ Kept(n) \in Over

\* A rename of task n has repointed its entries and not moved it yet.
Pending(n, c) ==
    /\ c.op = "rename" /\ c.a = n
    /\ \/ \E w \in Windows : win[w].pc = "backrefs" /\ win[w].cmd = c
       \/ [id |-> Id(n), by |-> c] \in broken

OwnEntries ==
    \A n \in Names : Id(n) \notin Free =>
        \/ active[n].manifest \in {None, n} \/ Id(n) \in Over
        \/ \E c \in Command : c.b = active[n].manifest /\ Pending(n, c)

\* A rename knows what entries there are...
SameEntries ==
    \A w \in Windows, n \in Names :
        win[w].pc \in {"own", "jsonl"} /\ win[w].cmd.op = "rename" /\ win[w].cmd.a = n
            => Id(n) \in Free \/ win[w].read[n].manifest = active[n].manifest

\* ... and has repointed them when it gets to the references.
Repointed ==
    \A w \in Windows, n \in Names :
        win[w].pc = "backrefs" /\ win[w].cmd.a = n
            => \/ Id(n) \in Free \cup Over
               \/ active[n].manifest \in {None, win[w].cmd.b}

\* A task that an earlier rename or archive left halfway is not handled by
\* another command than that one, which makes up for it.
Retryable == {"rename", "archive", "hurried"}
Unmarked ==
    \A w \in Windows, n \in Names : n \in Handled(win[w]) =>
        \/ Id(n) \in Free
        \/ \A m \in broken : m.id = Id(n) /\ m.by.op \in Retryable => m.by = win[w].cmd

\* Nothing new is where a rename has taken a task away.
Gone ==
    \A w \in Windows, n \in Names :
        win[w].pc = "sessions" /\ win[w].cmd.a = n => Id(n) \in Free

MarksKnown == \A m \in broken : m.id \in made

MarksOK == MarksKnown /\ Unmarked /\ Gone
EntriesOK == OwnEntries /\ SameEntries /\ Repointed
ShelfOK == Planned /\ Completing /\ Committing /\ Shelved

-----------------------------------------------------------------------------

LEMMA MarkIs ==
    ASSUME NEW N, NEW c, NEW m \in Mark(N, c)
    PROVE  m.by = c /\ m.id \in IdsAt(N)
  BY DEF Mark

LEMMA SeveredIs ==
    ASSUME NEW q, NEW n, NEW p, NEW c, NEW m \in Severed(q, n, p, c)
    PROVE  m.by = c /\ m.id \in IdsAt({q.read[n].parent} \cup {n})
  <1>1. m \in Mark(({q.read[n].parent} \ {p}) \cup {n}, c)
    BY DEF Severed
  <1>2. m.by = c /\ m.id \in IdsAt(({q.read[n].parent} \ {p}) \cup {n})
    BY <1>1, MarkIs
  <1> QED
    BY <1>2 DEF IdsAt

LEMMA AstrayIs ==
    ASSUME NEW o, NEW c \in Command, NEW m \in Astray(o, c)
    PROVE  m.by.op = "link" /\ m.id \in IdsAt(Namers(o))
  <1> DEFINE u == [c EXCEPT !.op = "link"]
  <1>1. u.op = "link"
    BY DEF Command
  <1> HIDE DEF u
  <1>2. m \in Mark(Namers(o), u)
    BY DEF Astray, u
  <1> QED
    BY <1>1, <1>2, MarkIs

\* A move marks a task that keeps its old name, or those that name one without
\* a record.
LEMMA MoveMarks ==
    ASSUME IInv, NEW w \in Windows, RenameMove(w), NEW m \in broken', m \notin broken
    PROVE  m.by.op \in {"unlink", "link"} /\ \E N : m.id \in IdsAt(N)
  <1> DEFINE c == [win[w].cmd EXCEPT !.op = "unlink"]
             a == win[w].cmd.a
             M == {k \in {a} : HasRecord(a) /\ Mentions(a, a)}
  <1>1. m \in Mark(M, c) \/ m \in Astray(win[w].cmd.b, win[w].cmd)
    BY DEF RenameMove
  <1>2. c.op = "unlink" /\ win[w].cmd \in Command
    BY WindowFacts DEF IInv, Command, Window
  <1> HIDE DEF c, M
  <1> QED
    BY <1>1, <1>2, MarkIs, AstrayIs

\* The marks a step makes: those of a command that gives up, and others than
\* those of a rename or an archive.
LEMMA NewMarks ==
    ASSUME IInv, Flows, NEW w \in Windows, Continue(w), NEW m \in broken'
    PROVE  \/ m \in broken
           \/ /\ win'[w] = Idle /\ m.id \in IdsAt(Handled(win[w])) /\ m.by = win[w].cmd
           \/ m.by.op \notin Retryable /\ \E N : m.id \in IdsAt(N)
           \/ /\ CreateRecord(w) /\ m.id = Cardinality(made) + 1
              /\ m.by.op \in {"create", "force"}
  <1>1. CASE \/ CreateFails(w) \/ WriteFails(w) \/ RenameTorn(w) \/ RenameBlocked(w)
             \/ ArchiveBlocked(w) \/ Stop(w)
    <2>1. GiveUp(w)
      BY <1>1 DEF CreateFails, WriteFails, RenameTorn, RenameBlocked, ArchiveBlocked, Stop
    <2>2. win'[w] = Idle
      BY <2>1, LeaveTurns DEF GiveUp, IInv
    <2>3. m \in broken \/ m \in Mark(Handled(win[w]), win[w].cmd)
      BY <2>1 DEF GiveUp
    <2> QED
      BY <2>2, <2>3, MarkIs
  <1>2. CASE CreateRecord(w)
    <2> DEFINE c == win[w].cmd
               t == NewTask(Cardinality(made) + 1, c.a)
               over == HasRecord(c.a) \/ c.op = "force"
               friends == {n \in Records : (over /\ Mentions(n, c.a))
                                \/ (HasRecord(c.a) /\ Mentions(c.a, n))}
    <2>1. \/ m \in broken \/ m \in Inherited(c, t)
          \/ c.op = "force" /\ m \in Mark(friends, c)
      BY <1>2 DEF CreateRecord
    <2>2. c.op \in {"create", "force"}
      BY <1>2 DEF CreateRecord, Step, Flows, Flow
    <2>3. t.id = Cardinality(made) + 1
      BY <1>2, NewRecord
    <2> HIDE DEF t, friends
    <2>4. m \in Inherited(c, t) => m.id = t.id /\ m.by = c
      BY DEF Inherited
    <2>5. m \in Mark(friends, c) => m.by = c /\ m.id \in IdsAt(friends)
      BY MarkIs
    <2> QED
      BY <1>2, <2>1, <2>2, <2>3, <2>4, <2>5 DEF Retryable
  <1>3. CASE HookWrite(w)
    <2> DEFINE c == [win[w].cmd EXCEPT !.op = "sync"]
    <2>1. m \in broken \/ m \in Mark(Handled(win[w]), c) \/ m \in Astray(win[w].cmd.a, win[w].cmd)
      BY <1>3 DEF HookWrite
    <2>2. c.op = "sync" /\ win[w].cmd \in Command
      BY WindowFacts DEF IInv, Command, Window
    <2> HIDE DEF c
    <2> QED
      BY <2>1, <2>2, MarkIs, AstrayIs DEF Retryable
  <1>4. CASE WriteChild(w)
    <2> DEFINE q == win[w]
    <2>1. \/ m \in broken
          \/ q.cmd.op = "unlink" /\ m \in Severed(q, q.cmd.a, q.cmd.b, q.cmd)
      BY <1>4 DEF WriteChild
    <2>2. m \in Severed(q, q.cmd.a, q.cmd.b, q.cmd) =>
             m.by = q.cmd /\ m.id \in IdsAt({q.read[q.cmd.a].parent} \cup {q.cmd.a})
      BY SeveredIs
    <2>3. q.cmd.op = "unlink" /\ m.by = q.cmd => m.by.op \notin Retryable
      BY DEF Retryable
    <2> HIDE DEF q
    <2> QED
      BY <2>1, <2>2, <2>3
  <1>5. CASE ArchiveUnlink(w)
    <2> DEFINE q == win[w]
               c == [q.cmd EXCEPT !.op = "unlink"]
    <2>1. PICK n : m \in broken \/ m \in Severed(q, n, q.cmd.a, c)
      BY <1>5 DEF ArchiveUnlink
    <2>2. c.op = "unlink"
      BY WindowFacts DEF IInv, Command
    <2> HIDE DEF c
    <2>3. m \in Severed(q, n, q.cmd.a, c) =>
             m.by = c /\ m.id \in IdsAt({q.read[n].parent} \cup {n})
      BY SeveredIs
    <2>4. m.by = c => m.by.op \notin Retryable
      BY <2>2 DEF Retryable
    <2> HIDE DEF q
    <2> QED
      BY <2>1, <2>3, <2>4
  <1>6. CASE \/ CreateActivate(w) \/ HookRead(w) \/ WriteParent(w) \/ RenameOwn(w)
             \/ RenameManifest(w) \/ RenameBackref(w) \/ RenameSessions(w)
             \/ ArchiveOwn(w) \/ ArchiveReadKid(w) \/ ArchiveSessions(w) \/ ArchiveMove(w)
             \/ CommitAdd(w) \/ CommitRm(w) \/ CommitArchive(w) \/ StartGate(w)
             \/ StartPoint(w) \/ ReadOwn(w) \/ StartFlip(w) \/ FinishClear(w) \/ FieldWrite(w)
    <2>1. broken' \subseteq broken
      BY <1>6 DEF CreateActivate, HookRead, WriteParent, RenameOwn, RenameManifest,
         RenameBackref, RenameSessions, ArchiveOwn, ArchiveReadKid,
         ArchiveSessions, ArchiveMove, CommitAdd, CommitRm, CommitArchive, StartGate,
         StartPoint, ReadOwn, StartFlip, FinishClear, FieldWrite, Complete
    <2> QED
      BY <2>1
  <1>7. CASE RenameMove(w)
    BY <1>7, MoveMarks DEF Retryable
  <1> QED
    BY <1>1, <1>2, <1>3, <1>4, <1>5, <1>6, <1>7 DEF Continue

\* The marks a step takes away: those of a command that completes.
LEMMA OldMarks ==
    ASSUME IInv, Flows, NEW w \in Windows, Continue(w), NEW m \in broken, m \notin broken'
    PROVE  m.by = win[w].cmd /\ win[w].pc \in {"sessions", "shelve", "commit"}
  <1>1. \/ broken \subseteq broken'
        \/ /\ broken' = {x \in broken : x.by # win[w].cmd}
           /\ win[w].pc \in {"sessions", "shelve", "commit"}
    BY DEF Continue, Step, MayMove, CreateRecord, CreateFails, CreateActivate, HookRead, HookWrite,
     WriteParent, WriteChild, WriteFails, RenameOwn, RenameManifest, RenameTorn,
     RenameBackref, RenameMove, RenameBlocked, RenameSessions, ArchiveOwn, ArchiveReadKid,
     ArchiveUnlink, ArchiveSessions, ArchiveMove, ArchiveBlocked, CommitAdd, CommitRm,
     CommitArchive, StartGate, StartPoint, ReadOwn, StartFlip, FinishClear, FieldWrite,
     Stop, GiveUp, Complete
  <1> QED
    BY <1>1

LEMMA OverGrows ==
    ASSUME IInv, Flows, NEW w \in Windows, Continue(w)
    PROVE  Over \subseteq Over'
  <1>1. win[w].pc \in {"sessions", "shelve", "commit"} => win[w].cmd.op \notin {"create", "force"}
    BY DEF Flows, Flow
  <1>2. \A m \in broken : m.by.op \in {"create", "force"} => m \in broken'
    BY <1>1, OldMarks
  <1> QED
    BY <1>2 DEF Over

\* A rename that ends before the move marks the task.
LEMMA GivesUpMarked ==
    ASSUME IInv, NEW w \in Windows, Continue(w), win[w].pc = "backrefs", win'[w] = Idle,
           NEW n \in Names, win[w].cmd.a = n, HasRecord(n)
    PROVE  [id |-> Id(n), by |-> win[w].cmd] \in broken'
  <1>1. \/ WriteFails(w) \/ RenameBlocked(w) \/ Stop(w) \/ RenameBackref(w) \/ RenameMove(w)
    BY DEF Continue, Step, CreateRecord, CreateFails, CreateActivate, HookRead, HookWrite,
     WriteParent, WriteChild, RenameOwn, RenameManifest, RenameTorn,
     RenameSessions, ArchiveOwn, ArchiveReadKid,
     ArchiveUnlink, ArchiveSessions, ArchiveMove, ArchiveBlocked, CommitAdd, CommitRm,
     CommitArchive, StartGate, StartPoint, ReadOwn, StartFlip, FinishClear, FieldWrite
  <1>2. ~RenameBackref(w) /\ ~RenameMove(w)
    <2>1. Idle.pc = "idle"
      BY IdleIs
    <2>2. RenameMove(w) => win'[w].pc = "sessions"
      BY PcsAre, GoTurns DEF RenameMove, IInv
    <2>3. RenameBackref(w) => win'[w].pc = "backrefs"
      BY BackrefTurns DEF RenameBackref
    <2> QED
      BY <2>1, <2>2, <2>3
  <1>3. GiveUp(w)
    BY <1>1, <1>2 DEF WriteFails, RenameBlocked, Stop
  <1>4. Mark(Handled(win[w]), win[w].cmd) \subseteq broken'
    BY <1>3 DEF GiveUp, Halfway
  <1>5. n \in Handled(win[w])
    BY IsHandled, TasksAssumption DEF TasksAssumption
  <1>6. Id(n) \in IdsAt(Handled(win[w]))
    BY <1>5 DEF Id, IdsAt
  <1> QED
    BY <1>4, <1>6 DEF Mark

\* What becomes of the active records in most steps of a command.
Kind(w, n) ==
    \/ Id(n)' \in Free
    \/ Id(n)' = Id(n) /\ active'[n] = active[n]
    \/ /\ Id(n)' = Id(n) /\ n \in Handled(win[w]) /\ HasRecord(n)
       /\ \/ active'[n].manifest = active[n].manifest
          \/ win[w].pc = "jsonl" /\ n = win[w].cmd.a

LEMMA RewriteKinds ==
    ASSUME IInv, IdsOK, NEW w \in Windows, NEW m, NEW x, Rewrite(w, m, x)
    PROVE  \A n \in Names : Kind(w, n)
  <1>1. /\ m \in Names /\ x \in Task /\ active' = [active EXCEPT ![m] = x]
        /\ m \in Handled(win[w])
        /\ \/ HasRecord(m) => x.manifest = active[m].manifest
           \/ win[w].pc = "jsonl" /\ m = win[w].cmd.a
    BY DEF Rewrite
  <1>2. active'[m] = x /\ \A n \in Names \ {m} : active'[n] = active[n]
    BY <1>1 DEF IInv, StoreOK
  <1>3. x # None /\ x # Bare
    BY <1>1, TasksAssumption DEF TasksAssumption
  <1>4. \A n \in Names \ {m} : Id(n)' = Id(n)
    BY <1>2 DEF Id, HasRecord
  <1>5. Tame(w)
    BY RewriteTame
  <1>6. CASE Id(m)' \in Free
    BY <1>2, <1>4, <1>6 DEF Kind
  <1>7. CASE Id(m)' \notin Free
    <2>1. Id(m)' = Id(m) /\ Id(m) # 0
      BY <1>1, <1>5, <1>7 DEF Tame, Free
    <2>2. HasRecord(m)
      BY <2>1 DEF Id
    <2> QED
      BY <1>1, <1>2, <1>4, <2>1, <2>2 DEF Kind
  <1> QED
    BY <1>6, <1>7

LEMMA Kinds ==
    ASSUME IInv, Flows, IdsOK, NEW w \in Windows, Continue(w),
           ~CreateRecord(w), ~RenameMove(w), ~ArchiveMove(w)
    PROVE  \A n \in Names : Kind(w, n)
  <1>1. UNCHANGED taskVars => \A n \in Names : Kind(w, n)
    BY DEF Kind, taskVars, Id, HasRecord
  <1>2. CASE CreateFails(w)
    <2> DEFINE a == win[w].cmd.a
    <2>1. \/ active' = active
          \/ active[a] = Bare /\ active' = [active EXCEPT ![a] = None]
      BY <1>2 DEF CreateFails
    <2>2. \A m \in Names : active'[m] = active[m] \/ active'[m] = None
      BY <2>1 DEF IInv, StoreOK
    <2>3. \A m \in Names : active'[m] = None => Id(m)' = 0
      BY DEF Id, HasRecord
    <2>4. \A m \in Names : active'[m] = active[m] => Id(m)' = Id(m)
      BY DEF Id, HasRecord
    <2> QED
      BY <2>2, <2>3, <2>4 DEF Kind, Free
  <1>3. CASE HookWrite(w)
    <2>1. PICK a \in Names : a = win[w].cmd.a
      BY <1>3, HookWrites
    <2>2. CASE active' = [active EXCEPT ![a] = Bare]
      <3>1. active'[a] = Bare /\ \A n \in Names \ {a} : active'[n] = active[n]
        BY <2>2 DEF IInv, StoreOK
      <3>2. Id(a)' = 0 /\ \A n \in Names \ {a} : Id(n)' = Id(n)
        BY <3>1 DEF Id, HasRecord
      <3> QED
        BY <3>1, <3>2 DEF Kind, Free
    <2> QED
      BY <1>1, <1>3, <2>1, <2>2, HookWrites, RewriteKinds
  <1> QED
    BY <1>1, <1>2, <1>3, Rewrites, RewriteKinds

\* Which record is where after a step of a command: most stay, a rename and
\* a create bring one, and what else is new is crossed.
LEMMA IdsMove ==
    ASSUME IInv, Flows, IdsOK, NEW w \in Windows, Continue(w), NEW n \in Names
    PROVE  \/ Id(n)' = Id(n) \/ Id(n)' \in Free'
           \/ RenameMove(w) /\ win[w].cmd.b = n
                /\ \E o \in Names : win[w].cmd.a = o /\ Id(n)' = Id(o)
           \/ CreateRecord(w) /\ win[w].cmd.a = n /\ Id(n)' = Cardinality(made) + 1
  <1>1. CASE CreateRecord(w)
    <2> DEFINE k == Cardinality(made) + 1
    <2> HIDE DEF k
    <2>1. PICK a \in Names : /\ a = win[w].cmd.a /\ Id(a)' = k
                             /\ \A m \in Names \ {a} : Id(m)' = Id(m)
      BY <1>1, Births DEF k
    <2> QED
      BY <1>1, <2>1 DEF k
  <1>2. CASE RenameMove(w)
    <2>1. PICK o \in Names, b \in Names :
             /\ o = win[w].cmd.a /\ b = win[w].cmd.b /\ Id(o)' = 0 /\ Id(b)' = Id(o)
             /\ \A m \in Names \ {o, b} : Id(m)' = Id(m)
      BY <1>2, Moves
    <2> QED
      BY <1>2, <2>1 DEF Free
  <1>3. CASE ArchiveMove(w)
    <2>1. PICK a \in Names : Id(a)' = 0 /\ \A m \in Names \ {a} : Id(m)' = Id(m)
      BY <1>3, Shelves
    <2> QED
      BY <2>1 DEF Free
  <1>4. CASE ~CreateRecord(w) /\ ~RenameMove(w) /\ ~ArchiveMove(w)
    <2>1. Id(n)' = Id(n) \/ Id(n)' \in Free
      BY <1>4, TameSteps DEF Tame
    <2>2. Free \subseteq Free'
      BY <1>4, BackdropStays DEF Backdrop, Free
    <2> QED
      BY <2>1, <2>2
  <1> QED
    BY <1>1, <1>2, <1>3, <1>4

\* What another window's task has been replaced by is crossed.
LEMMA OthersMove ==
    ASSUME IInv, Flows, IdsOK, NEW w \in Windows, Continue(w), NEW v \in Windows \ {w},
           NEW n \in Names, n \in Handled(win[v])
    PROVE  Id(n)' = Id(n) \/ Id(n)' \in Free'
  <1>0. Free \subseteq Free'
    <2>1. CASE CreateRecord(w)
      BY <2>1, Births DEF Free
    <2>2. CASE ~CreateRecord(w)
      BY <2>2, HistoryStays DEF Free
    <2> QED
      BY <2>1, <2>2
  <1>1. CASE RenameMove(w) /\ win[w].cmd.b = n
    <2>1. PICK o \in Names, b \in Names :
             /\ o = win[w].cmd.a /\ b = win[w].cmd.b /\ b \in Handled(win[w])
             /\ win[w].cmd.op = "rename" /\ Id(b)' = Id(o)
      BY <1>1, Moves
    <2>2. Id(o) \in Free
      BY <1>1, <2>1, Both
    <2> QED
      BY <1>0, <1>1, <2>1, <2>2
  <1>2. CASE CreateRecord(w) /\ win[w].cmd.a = n
    <2> DEFINE k == Cardinality(made) + 1
    <2> HIDE DEF k
    <2>1. PICK a \in Names : /\ a = win[w].cmd.a /\ Id(a)' = k
                             /\ \A u \in Windows \ {w} : a \in Handled(win[u]) => k \in crossed'
      BY <1>2, Births DEF k
    <2> QED
      BY <1>2, <2>1 DEF Free
  <1> QED
    BY <1>1, <1>2, IdsMove

\* What is crossed stays so.
LEMMA HistoryGrows ==
    ASSUME IInv, Flows, IdsOK, NEW w \in Windows, Continue(w)
    PROVE  Free \subseteq Free' /\ made \subseteq made'
  <1>1. CASE CreateRecord(w)
    BY <1>1, Births DEF Free
  <1>2. CASE ~CreateRecord(w)
    BY <1>2, HistoryStays DEF Free
  <1> QED
    BY <1>1, <1>2

LEMMA EntersSessions ==
    ASSUME IInv, NEW w \in Windows, Continue(w), win'[w].pc = "sessions"
    PROVE  RenameMove(w)
  <1>1. Turn(w)
    BY Turns
  <1>2. win'[w] # Idle /\ win[w].pc = "backrefs"
    BY <1>1, IdleIs DEF Turn, Proceeds, Follows
  <1>3. WriteFails(w) \/ RenameBackref(w) \/ RenameMove(w) \/ RenameBlocked(w) \/ Stop(w)
    BY <1>2 DEF Continue, Step, CreateRecord, CreateFails, CreateActivate, HookRead, HookWrite,
     WriteParent, WriteChild, RenameOwn, RenameManifest, RenameTorn,
     RenameSessions, ArchiveOwn, ArchiveReadKid,
     ArchiveUnlink, ArchiveSessions, ArchiveMove, ArchiveBlocked, CommitAdd, CommitRm,
     CommitArchive, StartGate, StartPoint, ReadOwn, StartFlip, FinishClear, FieldWrite
  <1>4. GiveUp(w) => win'[w] = Idle
    BY LeaveTurns DEF GiveUp, IInv
  <1>5. RenameBackref(w) => win'[w].pc = "backrefs"
    BY <1>2, BackrefTurns DEF RenameBackref
  <1> QED
    BY <1>2, <1>3, <1>4, <1>5 DEF WriteFails, RenameBlocked, Stop

LEMMA MarksContinue ==
    ASSUME IInv, Flows, IdsOK, MarksOK, NEW w \in Windows, Continue(w)
    PROVE  MarksOK'
  <1>0. /\ Free \subseteq Free' /\ made \subseteq made' /\ Turn(w)
        /\ \A v \in Windows \ {w} : win'[v] = win[v]
    BY HistoryGrows, Turns DEF Turn, Alone
  <1>1. /\ \A v \in Windows : Handled(win'[v]) \subseteq Handled(win[v])
        /\ \A v \in Windows : win'[v] = Idle \/ win'[v].cmd = win[v].cmd
        /\ Handled(Idle) = {} /\ Idle.pc = "idle"
    BY <1>0, TurnShows, IdleIs
  <1> DEFINE k == Cardinality(made) + 1
  <1> HIDE DEF k
  <1>2. ASSUME NEW m \in broken', m \notin broken
        PROVE  \/ win'[w] = Idle /\ m.id \in IdsAt(Handled(win[w])) /\ m.by = win[w].cmd
               \/ m.by.op \notin Retryable /\ \E N : m.id \in IdsAt(N)
               \/ CreateRecord(w) /\ m.id = k /\ m.by.op \in {"create", "force"}
    BY <1>2, NewMarks DEF k
  <1>3. CreateRecord(w) => k \in made' /\ k \notin made
    BY Births DEF k
  <1>4. MarksKnown'
    <2> SUFFICES ASSUME NEW m \in broken'
                 PROVE  m.id \in made'
      BY DEF MarksKnown
    <2>1. CASE m \in broken
      BY <1>0, <2>1 DEF MarksOK, MarksKnown
    <2>2. CASE m \notin broken
      <3>1. (CreateRecord(w) /\ m.id = k) \/ \E N : m.id \in IdsAt(N)
        BY <1>2, <2>2
      <3> QED
        BY <1>0, <1>3, <3>1, IdsAtKnown
    <2> QED
      BY <2>1, <2>2
  <1>5. Unmarked'
    <2> SUFFICES ASSUME NEW v \in Windows, NEW n \in Names, n \in Handled(win'[v]),
                        Id(n)' \notin Free', NEW m \in broken', m.id = Id(n)', m.by.op \in Retryable
                 PROVE  m.by = win'[v].cmd
      BY DEF Unmarked
    <2>1. n \in Handled(win[v]) /\ win'[v] # Idle /\ win'[v].cmd = win[v].cmd
      BY <1>1
    <2>2. \A o \in Names, u \in Windows :
             /\ o \in Handled(win[u]) /\ Id(o) \notin Free /\ m \in broken /\ m.id = Id(o)
             => m.by = win[u].cmd
      BY <2>1 DEF MarksOK, Unmarked
    <2>3. CASE Id(n)' = Id(n)
      <3>1. Id(n) \notin Free /\ Id(n) # 0
        BY <1>0, <2>3 DEF Free
      <3>2. m \in broken
        <4> SUFFICES ASSUME m \notin broken
                     PROVE  FALSE
          OBVIOUS
        <4>1. Id(n) \in made
          BY <3>1 DEF IdsOK, Known
        <4>2. win'[w] = Idle /\ m.id \in IdsAt(Handled(win[w]))
          BY <1>2, <1>3, <2>3, <4>1
        <4>3. PICK p \in Handled(win[w]) : HasRecord(p) /\ active[p].id = m.id
          BY <4>2 DEF IdsAt
        <4>4. p \in Names /\ Id(p) = Id(n)
          BY <2>3, <4>3, RecordIs DEF Id, IInv
        <4>5. p = n
          BY <3>1, <4>4 DEF IdsOK, Unique
        <4>6. v # w
          BY <2>1, <4>2
        <4> QED
          BY <2>1, <3>1, <4>3, <4>5, <4>6, Both
      <3> QED
        BY <2>1, <2>2, <2>3, <3>1, <3>2
    <2>4. CASE Id(n)' # Id(n)
      <3>1. v = w
        BY <2>1, <2>4, OthersMove
      <3>2. CASE CreateRecord(w) /\ Id(n)' = k
        <4>1. m \notin broken
          BY <1>3, <3>2 DEF MarksOK, MarksKnown
        <4>2. \A N : IdsAt(N) \subseteq made
          BY IdsAtKnown
        <4> QED
          BY <1>2, <1>3, <3>2, <4>1, <4>2 DEF Retryable
      <3>3. CASE RenameMove(w) /\ win[w].cmd.b = n
        <4>1. PICK o \in Names, b \in Names :
             /\ o = win[w].cmd.a /\ b = win[w].cmd.b /\ Id(b)' = Id(o)
             /\ o \in Handled(win[w])
          BY <3>3, Moves
        <4>2. Id(o) \notin Free /\ Id(n)' = Id(o)
          BY <1>0, <3>3, <4>1
        <4>3. m \in broken
          BY <3>3, MoveMarks DEF Retryable
        <4> QED
          BY <2>1, <2>2, <3>1, <4>1, <4>2, <4>3
      <3> QED
        BY <2>4, <3>2, <3>3, IdsMove DEF k
    <2> QED
      BY <2>3, <2>4
  <1>6. Gone'
    <2> SUFFICES ASSUME NEW v \in Windows, NEW n \in Names, win'[v].pc = "sessions", win'[v].cmd.a = n
                 PROVE  Id(n)' \in Free'
      BY DEF Gone
    <2>1. CASE v = w
      <3>1. RenameMove(w)
        BY <2>1, EntersSessions
      <3>2. win'[w].cmd = win[w].cmd
        BY <1>1, <2>1
      <3>3. Id(n)' = 0
        BY <2>1, <3>1, <3>2, Moves
      <3> QED
        BY <3>3 DEF Free
    <2>2. CASE v # w
      <3>1. win[v].pc = "sessions" /\ win[v].cmd.a = n /\ Id(n) \in Free
        BY <1>0, <2>2 DEF MarksOK, Gone
      <3>2. n \in Handled(win[v])
        BY <3>1, CommandIsHandled
      <3> QED
        BY <1>0, <2>2, <3>1, <3>2, OthersMove
    <2> QED
      BY <2>1, <2>2
  <1> QED
    BY <1>4, <1>5, <1>6 DEF MarksOK

LEMMA MarksEnter ==
    ASSUME IInv, Flows, IdsOK, MarksOK, NEW w \in Windows, NEW q, Entered(w, q)
    PROVE  MarksOK'
  <1>1. /\ win'[w] = q /\ \A v \in Windows \ {w} : win'[v] = win[v]
        /\ made' = made /\ broken' = broken /\ crossed \subseteq crossed'
        /\ \A n \in Names : Id(n)' = Id(n)
        /\ q.pc # "sessions" \/ q.cmd.a \notin Names
        /\ IdsAt(Handled(q)) \cap Unfinished(q.cmd) \subseteq crossed'
    BY DEF Entered, IInv, WindowsOK, Moved
  <1>2. Free \subseteq Free'
    BY <1>1 DEF Free
  <1>3. MarksKnown'
    BY <1>1 DEF MarksOK, MarksKnown
  <1>4. Gone'
    <2> SUFFICES ASSUME NEW v \in Windows, NEW n \in Names, win'[v].pc = "sessions", win'[v].cmd.a = n
                 PROVE  Id(n)' \in Free'
      BY DEF Gone
    <2>1. v # w
      BY <1>1
    <2> QED
      BY <1>1, <1>2, <2>1 DEF MarksOK, Gone
  <1>5. Unmarked'
    <2> SUFFICES ASSUME NEW v \in Windows, NEW n \in Names, n \in Handled(win'[v]),
                        Id(n)' \notin Free', NEW m \in broken, m.id = Id(n)', m.by.op \in Retryable
                 PROVE  m.by = win'[v].cmd
      BY <1>1 DEF Unmarked
    <2>1. CASE v # w
      <3>1. n \in Handled(win[v]) /\ Id(n) \notin Free /\ m.id = Id(n)
        BY <1>1, <1>2, <2>1
      <3> QED
        BY <1>1, <2>1, <3>1 DEF MarksOK, Unmarked
    <2>2. CASE v = w
      <3>1. Id(n) # 0 /\ Id(n) \notin crossed' /\ m.id = Id(n)
        BY <1>1 DEF Free
      <3>2. Id(n) \in IdsAt(Handled(q))
        BY <1>1, <2>2, <3>1, IdIn
      <3>3. m.by # q.cmd => m.id \in Unfinished(q.cmd)
        BY DEF Unfinished
      <3> QED
        BY <1>1, <2>2, <3>1, <3>2, <3>3
    <2> QED
      BY <2>1, <2>2
  <1> QED
    BY <1>3, <1>4, <1>5 DEF MarksOK

LEMMA MarksRest ==
    ASSUME MarksOK, UNCHANGED <<win, made, broken>>, Free \subseteq Free',
           \A n \in Names : Id(n)' = Id(n)
    PROVE  MarksOK'
  <1>1. MarksKnown'
    BY DEF MarksOK, MarksKnown
  <1>2. Unmarked'
    <2> SUFFICES ASSUME NEW w \in Windows, NEW n \in Names, n \in Handled(win[w]), Id(n)' \notin Free'
                 PROVE  \A m \in broken : m.id = Id(n)' /\ m.by.op \in Retryable => m.by = win[w].cmd
      BY DEF Unmarked
    <2>1. Id(n) \notin Free /\ Id(n)' = Id(n)
      OBVIOUS
    <2> QED
      BY <2>1 DEF MarksOK, Unmarked
  <1>3. Gone'
    BY DEF MarksOK, Gone
  <1> QED
    BY <1>1, <1>2, <1>3 DEF MarksOK

\* Where the record comes from that a step of a command leaves at n.
Source(w, n) ==
    \/ Id(n)' \in Free'
    \/ Id(n)' = Id(n) /\ active'[n] = active[n]
    \/ /\ Id(n)' = Id(n) /\ n \in Handled(win[w])
       /\ \/ active'[n].manifest = active[n].manifest
          \/ win[w].pc = "jsonl" /\ n = win[w].cmd.a
    \/ RenameMove(w) /\ win[w].cmd.b = n /\ n \in Handled(win[w])
    \/ CreateRecord(w) /\ win[w].cmd.a = n /\ n \in Handled(win[w])

LEMMA SourcesKeep ==
    ASSUME IInv, Flows, IdsOK, NEW w \in Windows, Continue(w), NEW n \in Names
    PROVE  Source(w, n)
  <1>1. CASE CreateRecord(w)
    <2> DEFINE k == Cardinality(made) + 1
    <2> HIDE DEF k
    <2>1. PICK a \in Names :
             /\ a = win[w].cmd.a /\ a \in Handled(win[w])
             /\ \A m \in Names \ {a} : active'[m] = active[m] /\ Id(m)' = Id(m)
      BY <1>1, Births DEF k
    <2> QED
      BY <1>1, <2>1 DEF Source
  <1>2. CASE RenameMove(w)
    <2>1. PICK o \in Names, b \in Names :
             /\ b = win[w].cmd.b /\ b \in Handled(win[w]) /\ Id(o)' = 0
             /\ \A m \in Names \ {o, b} : active'[m] = active[m] /\ Id(m)' = Id(m)
      BY <1>2, Moves
    <2> QED
      BY <1>2, <2>1 DEF Source, Free
  <1>3. CASE ArchiveMove(w)
    <2>1. PICK a \in Names :
             Id(a)' = 0 /\ \A m \in Names \ {a} : active'[m] = active[m] /\ Id(m)' = Id(m)
      BY <1>3, Shelves
    <2> QED
      BY <2>1 DEF Source, Free
  <1>4. CASE ~CreateRecord(w) /\ ~RenameMove(w) /\ ~ArchiveMove(w)
    <2>1. Kind(w, n)
      BY <1>4, Kinds
    <2>2. Free \subseteq Free'
      BY HistoryGrows
    <2> QED
      BY <2>1, <2>2 DEF Kind, Source
  <1> QED
    BY <1>1, <1>2, <1>3, <1>4

\* The task of another window is not written, unless it is crossed.
LEMMA OthersStay ==
    ASSUME IInv, Flows, IdsOK, NEW w \in Windows, Continue(w), NEW v \in Windows \ {w},
           NEW n \in Names, n \in Handled(win[v]), Id(n)' \notin Free'
    PROVE  Id(n)' = Id(n) /\ Id(n) \notin Free /\ active'[n] = active[n]
  <1>1. Id(n)' = Id(n) /\ Free \subseteq Free'
    BY OthersMove, HistoryGrows
  <1>2. n \notin Handled(win[w])
    BY <1>1, Both
  <1> QED
    BY <1>1, <1>2, SourcesKeep DEF Source

\* A rename of n that was under way, or cut off, is still known of.
LEMMA PendingStays ==
    ASSUME IInv, Flows, IdsOK, MarksOK, NEW w \in Windows, Continue(w), NEW n \in Names,
           NEW c \in Command, Pending(n, c), Id(n)' = Id(n), Id(n) \notin Free
    PROVE  Pending(n, c)'
  <1>0. HasRecord(n) /\ Id(n) # 0
    BY DEF Free, Id
  <1>1. c.op = "rename" /\ c.a = n
    BY DEF Pending
  <1>2. Turn(w)
    BY Turns
  <1>3. CASE \E v \in Windows : win[v].pc = "backrefs" /\ win[v].cmd = c
    <2>1. PICK v \in Windows : win[v].pc = "backrefs" /\ win[v].cmd = c
      BY <1>3
    <2>2. CASE v # w
      <3>1. win'[v] = win[v]
        BY <1>2, <2>2 DEF Turn, Alone
      <3> QED
        BY <1>1, <2>1, <3>1 DEF Pending
    <2>3. CASE v = w /\ win'[w] = Idle
      <3>1. [id |-> Id(n), by |-> c] \in broken'
        BY <1>0, <1>1, <2>1, <2>3, GivesUpMarked
      <3> QED
        BY <1>1, <3>1 DEF Pending
    <2>4. CASE v = w /\ win'[w] # Idle
      <3>1. Proceeds(w)
        BY <1>2, <2>4 DEF Turn
      <3>2. win'[w].cmd = c /\ win'[w].pc \in {"backrefs", "sessions"}
        BY <2>1, <2>4, <3>1 DEF Proceeds, Follows
      <3>3. CASE win'[w].pc = "sessions"
        <4>1. RenameMove(w)
          BY <3>3, EntersSessions
        <4>2. Id(n)' = 0
          BY <1>1, <2>1, <2>4, <4>1, Moves
        <4> QED
          BY <1>0, <4>2
      <3>4. CASE win'[w].pc = "backrefs"
        BY <1>1, <3>2, <3>4 DEF Pending
      <3> QED
        BY <3>2, <3>3, <3>4
    <2> QED
      BY <2>2, <2>3, <2>4
  <1>4. CASE [id |-> Id(n), by |-> c] \in broken
    <2> DEFINE m == [id |-> Id(n), by |-> c]
    <2>1. m.by = c
      OBVIOUS
    <2> HIDE DEF m
    <2>2. CASE m \in broken'
      <3>1. [id |-> Id(n)', by |-> c] \in broken'
        BY <2>2 DEF m
      <3> QED
        BY <1>1, <3>1 DEF Pending
    <2>3. CASE m \notin broken'
      <3>1. c = win[w].cmd /\ win[w].pc \in {"sessions", "shelve", "commit"}
        BY <1>4, <2>1, <2>3, OldMarks DEF m
      <3>2. win[w].pc = "sessions"
        BY <1>1, <3>1 DEF Flows, Flow
      <3>3. Id(n) \in Free
        BY <1>1, <3>1, <3>2 DEF MarksOK, Gone
      <3> QED
        BY <3>3
    <2> QED
      BY <2>2, <2>3
  <1> QED
    BY <1>3, <1>4 DEF Pending

\* The step of a rename that repoints the entries.
LEMMA Repoints ==
    ASSUME IInv, Flows, NEW w \in Windows, Continue(w), win[w].pc = "jsonl",
           NEW o \in Names, win[w].cmd.a = o, HasRecord(o)
    PROVE  \/ active' = active /\ (win'[w] # Idle => win[w].read[o].manifest # o)
           \/ active'[o].manifest = None /\ win'[w] = Idle
           \/ /\ active'[o].manifest = win[w].cmd.b
              /\ win'[w].pc = "backrefs" /\ win'[w].cmd = win[w].cmd
  <1>1. RenameManifest(w) \/ RenameTorn(w) \/ WriteFails(w) \/ Stop(w)
    BY DEF Continue, Step, MayMove, CreateRecord, CreateFails, CreateActivate, HookRead, HookWrite,
     WriteParent, WriteChild, RenameOwn, RenameBackref, RenameMove, RenameBlocked, RenameSessions,
     ArchiveOwn, ArchiveReadKid, ArchiveUnlink, ArchiveSessions, ArchiveMove, ArchiveBlocked,
     CommitAdd, CommitRm, CommitArchive, StartGate, StartPoint, ReadOwn, StartFlip,
     FinishClear, FieldWrite
  <1>2. active[o] \in Task
    BY RecordIs DEF IInv
  <1>3. \A x : [active[o] EXCEPT !.manifest = x].manifest = x
    BY <1>2 DEF Task
  <1>4. GiveUp(w) => win'[w] = Idle
    BY LeaveTurns DEF GiveUp, IInv
  <1>5. CASE WriteFails(w) \/ Stop(w)
    BY <1>4, <1>5 DEF WriteFails, Stop, taskVars
  <1>6. CASE RenameTorn(w)
    <2>1. active' = [active EXCEPT ![o].manifest = None]
      BY <1>6 DEF RenameTorn
    <2>2. active'[o] = [active[o] EXCEPT !.manifest = None]
      BY <2>1 DEF IInv, StoreOK
    <2> QED
      BY <1>3, <1>4, <1>6, <2>2 DEF RenameTorn
  <1>7. CASE RenameManifest(w)
    <2> DEFINE b == win[w].cmd.b
    <2>1. win'[w].pc = "backrefs" /\ win'[w].cmd = win[w].cmd
      BY <1>7, PcsAre, GoTurns DEF RenameManifest, IInv
    <2>2. CASE win[w].read[o].manifest = o
      <3>1. active' = [active EXCEPT ![o].manifest = b]
        BY <1>7, <2>2 DEF RenameManifest
      <3>2. active'[o] = [active[o] EXCEPT !.manifest = b]
        BY <3>1 DEF IInv, StoreOK
      <3> QED
        BY <1>3, <2>1, <3>2
    <2>3. CASE win[w].read[o].manifest # o
      BY <1>7, <2>3 DEF RenameManifest, taskVars
    <2> QED
      BY <2>2, <2>3
  <1> QED
    BY <1>1, <1>5, <1>6, <1>7

\* An overwriting create leaves the entries of the task that was there.
LEMMA NewEntries ==
    ASSUME IInv, Flows, NEW w \in Windows, CreateRecord(w), NEW a \in Names, win[w].cmd.a = a,
           NEW k, k = Cardinality(made) + 1
    PROVE  \/ active'[a].manifest = None
           \/ /\ HasRecord(a) /\ active'[a].manifest = active[a].manifest
              /\ Id(a) \in crossed \cup {m.id : m \in broken} => k \in Over'
  <1> DEFINE c == win[w].cmd
             t == NewTask(k, a)
  <1>1. /\ active' = [active EXCEPT ![a] = Stored(a, t)]
        /\ Inherited(c, t) \subseteq broken' /\ c.op \in {"create", "force"}
    BY DEF CreateRecord, Write, Step, Flows, Flow
  <1>2. active'[a] = Stored(a, t)
    BY <1>1 DEF IInv, StoreOK
  <1>3. t \in Task /\ t.manifest = None /\ t.id = k
    BY NewRecord DEF NewTask
  <1> HIDE DEF t
  <1>4. CASE ~HasRecord(a)
    BY <1>2, <1>3, <1>4 DEF Stored
  <1>5. CASE HasRecord(a)
    <2>1. active'[a].manifest = active[a].manifest
      BY <1>2, <1>3, <1>5, StoredManifest
    <2>2. ASSUME Id(a) \in crossed \cup {m.id : m \in broken}
          PROVE  k \in Over'
      <3>1. Id(a) \in IdsAt({a})
        BY <1>5 DEF Id, IdsAt
      <3>2. [id |-> k, by |-> c] \in broken'
        BY <1>1, <1>3, <2>2, <3>1 DEF Inherited
      <3> DEFINE m == [id |-> k, by |-> c]
      <3>3. m.id = k /\ m.by.op \in {"create", "force"}
        BY <1>1
      <3> HIDE DEF m
      <3>4. m \in broken'
        BY <3>2 DEF m
      <3> QED
        BY <3>3, <3>4 DEF Over
    <2> QED
      BY <1>5, <2>1, <2>2
  <1> QED
    BY <1>4, <1>5

LEMMA OwnContinue ==
    ASSUME IInv, Flows, IdsOK, MarksOK, EntriesOK, NEW w \in Windows, Continue(w)
    PROVE  OwnEntries'
  <1>1. Free \subseteq Free' /\ Over \subseteq Over'
    BY HistoryGrows, OverGrows
  <1> SUFFICES ASSUME NEW n \in Names, Id(n)' \notin Free'
               PROVE  \/ active'[n].manifest \in {None, n} \/ Id(n)' \in Over'
                      \/ \E c \in Command : c.b = active'[n].manifest /\ Pending(n, c)'
    BY DEF OwnEntries
  <1>2. CASE Id(n)' = Id(n) /\ active'[n].manifest = active[n].manifest
    <2>1. Id(n) \notin Free
      BY <1>1, <1>2
    <2>2. \/ active[n].manifest \in {None, n} \/ Id(n) \in Over
          \/ \E c \in Command : c.b = active[n].manifest /\ Pending(n, c)
      BY <2>1 DEF EntriesOK, OwnEntries
    <2> QED
      BY <1>1, <1>2, <2>1, <2>2, PendingStays
  <1>3. CASE Id(n)' = Id(n) /\ win[w].pc = "jsonl" /\ n = win[w].cmd.a
    <2>1. HasRecord(n)
      BY <1>1, <1>3 DEF Free, Id
    <2>2. CASE active' = active
      BY <1>2, <1>3, <2>2
    <2>3. CASE active'[n].manifest = None
      BY <2>3
    <2>4. CASE /\ active'[n].manifest = win[w].cmd.b
               /\ win'[w].pc = "backrefs" /\ win'[w].cmd = win[w].cmd
      <3>1. win[w].cmd \in Command /\ win[w].cmd.op = "rename"
        BY <1>3, WindowFacts DEF IInv, Flows, Flow
      <3>2. Pending(n, win[w].cmd)'
        BY <1>3, <2>4, <3>1 DEF Pending
      <3> QED
        BY <2>4, <3>1, <3>2
    <2> QED
      BY <1>3, <2>1, <2>2, <2>3, <2>4, Repoints
  <1>4. CASE RenameMove(w) /\ win[w].cmd.b = n
    <2>1. PICK o \in Names :
             /\ o = win[w].cmd.a /\ win[w].pc = "backrefs"
             /\ active'[n] = active[o] /\ Id(n)' = Id(o)
      BY <1>4, Moves
    <2>2. Id(o) \in Free \cup Over \/ active[o].manifest \in {None, n}
      BY <1>4, <2>1 DEF EntriesOK, Repointed
    <2> QED
      BY <1>1, <2>1, <2>2
  <1>5. CASE CreateRecord(w) /\ win[w].cmd.a = n
    <2> DEFINE k == Cardinality(made) + 1
    <2> HIDE DEF k
    <2>1. PICK a \in Names : /\ a = win[w].cmd.a /\ Id(a)' = k /\ win[w].pc = "new"
                             /\ \A u \in Windows \ {w} : a \in Handled(win[u]) => k \in crossed'
      BY <1>5, Births DEF k
    <2>2. a = n /\ Id(n)' = k
      BY <1>5, <2>1
    <2>3. CASE active'[n].manifest = None
      BY <2>3
    <2>4. CASE /\ HasRecord(n) /\ active'[n].manifest = active[n].manifest
               /\ Id(n) \in crossed \cup {m.id : m \in broken} => k \in Over'
      <3>1. ASSUME NEW c \in Command, Pending(n, c)
            PROVE  Id(n)' \in Over'
        <4>1. CASE \E v \in Windows : win[v].pc = "backrefs" /\ win[v].cmd = c
          <5>1. PICK v \in Windows : win[v].pc = "backrefs" /\ win[v].cmd.a = n
            BY <3>1, <4>1 DEF Pending
          <5>2. v # w /\ n \in Handled(win[v])
            BY <2>1, <5>1, CommandIsHandled
          <5>3. k \in crossed'
            BY <2>1, <2>2, <5>2
          <5> QED
            BY <2>2, <5>3 DEF Free
        <4>2. CASE [id |-> Id(n), by |-> c] \in broken
          BY <2>2, <2>4, <4>2
        <4> QED
          BY <3>1, <4>1, <4>2 DEF Pending
      <3>2. Id(n) \in Free => Id(n) \in crossed
        BY <2>4, IdIs DEF Free, IInv
      <3>3. Id(n) \in Over => Id(n) \in {m.id : m \in broken}
        BY DEF Over
      <3>4. Id(n) \notin Free =>
               \/ active[n].manifest \in {None, n} \/ Id(n) \in Over
               \/ \E c \in Command : c.b = active[n].manifest /\ Pending(n, c)
        BY DEF EntriesOK, OwnEntries
      <3> QED
        BY <2>2, <2>4, <3>1, <3>2, <3>3, <3>4
    <2> QED
      BY <1>5, <2>3, <2>4, NewEntries DEF k
  <1> QED
    BY <1>2, <1>3, <1>4, <1>5, SourcesKeep DEF Source

LEMMA SameContinue ==
    ASSUME IInv, Flows, IdsOK, EntriesOK, NEW w \in Windows, Continue(w)
    PROVE  SameEntries'
  <1>1. Free \subseteq Free' /\ Turn(w)
    BY HistoryGrows, Turns
  <1> SUFFICES ASSUME NEW v \in Windows, NEW n \in Names, win'[v].pc \in {"own", "jsonl"},
                      win'[v].cmd.op = "rename", win'[v].cmd.a = n, Id(n)' \notin Free'
               PROVE  win'[v].read[n].manifest = active'[n].manifest
    BY DEF SameEntries
  <1>2. CASE v # w
    <2>1. win'[v] = win[v]
      BY <1>1, <1>2 DEF Turn, Alone
    <2>2. n \in Handled(win[v])
      BY <2>1, CommandIsHandled
    <2>3. Id(n) \notin Free /\ active'[n] = active[n]
      BY <1>2, <2>2, OthersStay
    <2> QED
      BY <2>1, <2>3 DEF EntriesOK, SameEntries
  <1>3. CASE v = w
    <2>1. Proceeds(w)
      BY <1>1, <1>3, IdleIs DEF Turn
    <2>2. /\ win[w].pc = "own" /\ win'[w].pc = "jsonl"
          /\ win[w].cmd.op = "rename" /\ win[w].cmd.a = n
      BY <1>3, <2>1 DEF Proceeds, Follows
    <2>3. win'[w].read[n] = win[w].read[n]
      BY <2>1, <2>2 DEF Proceeds, Looks
    <2>4. Id(n)' = Id(n) /\ active'[n].manifest = active[n].manifest
      BY <2>2, SourcesKeep DEF Source, RenameMove, MayMove, CreateRecord, Step
    <2>5. Id(n) \notin Free
      BY <1>1, <2>4
    <2> QED
      BY <1>3, <2>2, <2>3, <2>4, <2>5 DEF EntriesOK, SameEntries
  <1> QED
    BY <1>2, <1>3

LEMMA RepointedContinue ==
    ASSUME IInv, Flows, IdsOK, MarksOK, EntriesOK, NEW w \in Windows, Continue(w)
    PROVE  Repointed'
  <1>1. Free \subseteq Free' /\ Over \subseteq Over' /\ Turn(w)
    BY HistoryGrows, OverGrows, Turns
  <1> SUFFICES ASSUME NEW v \in Windows, NEW n \in Names, win'[v].pc = "backrefs",
                      win'[v].cmd.a = n, Id(n)' \notin Free' \cup Over'
               PROVE  active'[n].manifest \in {None, win'[v].cmd.b}
    BY DEF Repointed
  <1>2. CASE v # w
    <2>1. win'[v] = win[v]
      BY <1>1, <1>2 DEF Turn, Alone
    <2>2. n \in Handled(win[v])
      BY <2>1, CommandIsHandled
    <2>3. Id(n) \notin Free /\ Id(n)' = Id(n) /\ active'[n] = active[n]
      BY <1>2, <2>2, OthersStay
    <2> QED
      BY <1>1, <2>1, <2>3 DEF EntriesOK, Repointed
  <1>3. CASE v = w
    <2>1. win'[w] # Idle /\ Proceeds(w)
      BY <1>1, <1>3, IdleIs DEF Turn
    <2>2. /\ win[w].pc \in {"jsonl", "backrefs"} /\ win'[w].cmd = win[w].cmd
          /\ win[w].cmd.a = n
      BY <1>3, <2>1 DEF Proceeds, Follows
    <2>3. win[w].cmd.op = "rename" /\ win[w].cmd.a # win[w].cmd.b
      BY <2>2, CommandIsHandled DEF Flows, Flow
    <2>4. Id(n)' = Id(n)
      BY <2>2, <2>3, SourcesKeep DEF Source, CreateRecord, Step
    <2>5. Id(n) \notin Free \cup Over /\ HasRecord(n)
      BY <1>1, <2>4 DEF Free, Id
    <2>6. CASE win[w].pc = "backrefs"
      <3>1. active'[n].manifest = active[n].manifest
        BY <2>2, <2>3, <2>6, SourcesKeep DEF Source, CreateRecord, Step
      <3> QED
        BY <1>3, <2>2, <2>5, <2>6, <3>1 DEF EntriesOK, Repointed
    <2>7. CASE win[w].pc = "jsonl"
      <3>1. CASE active' = active /\ win[w].read[n].manifest # n
        <4>1. active[n].manifest # n
          BY <2>2, <2>3, <2>5, <2>7, <3>1 DEF EntriesOK, SameEntries
        <4>2. ASSUME NEW c \in Command, c.b = active[n].manifest, Pending(n, c)
              PROVE  c = win[w].cmd
          <5>1. CASE \E u \in Windows : win[u].pc = "backrefs" /\ win[u].cmd = c
            <6>1. PICK u \in Windows : win[u].pc = "backrefs" /\ win[u].cmd = c
              BY <5>1
            <6>2. u # w /\ win[u].cmd.a = n
              BY <2>7, <4>2, <6>1 DEF Pending
            <6>3. n \in Handled(win[u]) /\ n \in Handled(win[w])
              BY <2>2, <6>2, CommandIsHandled
            <6> QED
              BY <2>5, <6>2, <6>3, Both
          <5>2. CASE [id |-> Id(n), by |-> c] \in broken
            <6> DEFINE m == [id |-> Id(n), by |-> c]
            <6>1. m.id = Id(n) /\ m.by = c /\ m.by.op = "rename"
              BY <4>2 DEF Pending
            <6>2. n \in Handled(win[w])
              BY <2>2, CommandIsHandled
            <6> HIDE DEF m
            <6>3. m \in broken
              BY <5>2 DEF m
            <6>4. m.by = win[w].cmd
              BY <2>5, <6>1, <6>2, <6>3 DEF MarksOK, Unmarked, Retryable
            <6> QED
              BY <6>1, <6>4
          <5> QED
            BY <4>2, <5>1, <5>2 DEF Pending
        <4>3. \/ active[n].manifest \in {None, n}
              \/ \E c \in Command : c.b = active[n].manifest /\ Pending(n, c)
          BY <2>5 DEF EntriesOK, OwnEntries
        <4> QED
          BY <1>3, <2>2, <3>1, <4>1, <4>2, <4>3
      <3>2. CASE active'[n].manifest = win[w].cmd.b
        BY <1>3, <2>2, <3>2
      <3> QED
        BY <2>1, <2>2, <2>5, <2>7, <3>1, <3>2, Repoints
    <2> QED
      BY <2>2, <2>6, <2>7
  <1> QED
    BY <1>2, <1>3

LEMMA EntriesContinue ==
    ASSUME IInv, Flows, IdsOK, MarksOK, EntriesOK, NEW w \in Windows, Continue(w)
    PROVE  EntriesOK'
  BY OwnContinue, SameContinue, RepointedContinue DEF EntriesOK

\* What an archive writes: only the fields Sound is not about change.
LEMMA StoredSound ==
    ASSUME NEW n \in Names, NEW t \in Task, NEW c
    PROVE  Sound(c, Stored(n, t)) <=> Sound(c, t)
  <1>1. CASE HasRecord(n)
    <2> DEFINE x == active[n].manifest
    <2>1. Stored(n, t) = [t EXCEPT !.manifest = x]
      BY <1>1 DEF Stored
    <2> HIDE DEF x
    <2>2. /\ [t EXCEPT !.manifest = x].status = t.status
          /\ [t EXCEPT !.manifest = x].branch = t.branch
          /\ [t EXCEPT !.manifest = x].base = t.base
      BY DEF Task
    <2> QED
      BY <2>1, <2>2 DEF Sound, MayArchive
  <1>2. CASE ~HasRecord(n)
    BY <1>2 DEF Stored
  <1> QED
    BY <1>1, <1>2

LEMMA CompletedSound ==
    ASSUME NEW t \in Task, NEW c, c.op = "archive" => MayArchive(t)
    PROVE  [t EXCEPT !.status = "completed"] \in Task /\ Sound(c, [t EXCEPT !.status = "completed"])
  BY DEF Task, Sound, MayArchive

LEMMA UnlinkedSound ==
    ASSUME NEW t \in Task, NEW c
    PROVE  /\ [t EXCEPT !.parent = None] \in Task /\ [t EXCEPT !.parent = None].id = t.id
           /\ Sound(c, t) => Sound(c, [t EXCEPT !.parent = None])
  BY DEF Task, Sound, MayArchive

\* The steps of an archive on the records.
LEMMA CompletesOwn ==
    ASSUME IInv, Flows, ShelfOK, NEW w \in Windows, Continue(w),
           win[w].pc = "own", win'[w].pc = "kids", NEW n \in Names, win[w].cmd.a = n
    PROVE  Sound(win[w].cmd, active'[n]) /\ win'[w].read[n] = None
  <1>1. win'[w] # Idle /\ win'[w].pc # "jsonl"
    BY IdleIs
  <1>2. ~Leave(w) /\ ~Go(w, "jsonl")
    BY <1>1, LeaveTurns, GoTurns, PcsAre DEF IInv
  <1>3. ArchiveOwn(w)
    BY <1>2 DEF Continue, Step, MayMove, CreateRecord, CreateFails, CreateActivate, HookRead,
     HookWrite, WriteParent, WriteChild, WriteFails, RenameOwn, RenameManifest, RenameTorn,
     RenameBackref, RenameMove, RenameBlocked, RenameSessions, ArchiveReadKid,
     ArchiveUnlink, ArchiveSessions, ArchiveMove, ArchiveBlocked, CommitAdd, CommitRm,
     CommitArchive, StartGate, StartPoint, ReadOwn, StartFlip, FinishClear, FieldWrite,
     Stop, GiveUp
  <1> DEFINE t == win[w].read[n]
             x == [t EXCEPT !.status = "completed"]
  <1>4. active' = [active EXCEPT ![n] = Stored(n, x)]
    BY <1>3 DEF ArchiveOwn, Write
  <1>5. active'[n] = Stored(n, x)
    BY <1>4 DEF IInv, StoreOK
  <1>6. t \in Task
    BY WindowFacts DEF IInv, WindowOK, ReadA
  <1>7. win[w].cmd.op = "archive" => MayArchive(t)
    BY DEF ShelfOK, Planned
  <1> HIDE DEF t
  <1>8. x \in Task /\ Sound(win[w].cmd, x)
    BY <1>6, <1>7, CompletedSound
  <1> HIDE DEF x
  <1>9. win'[w].read[n] = None
    <2>1. win' = [win EXCEPT ![w].pc = "kids", ![w].read[n] = None]
      BY <1>3 DEF ArchiveOwn
    <2>2. HasRead(w, "kids", n, None)
      BY <2>1, PcsAre, ForgetsTurns
    <2> QED
      BY <2>2 DEF HasRead
  <1> QED
    BY <1>5, <1>8, <1>9, StoredSound

LEMMA UnlinksKid ==
    ASSUME IInv, Flows, IdsOK, ShelfOK, NEW w \in Windows, Continue(w),
           win[w].pc = "kid", win'[w].pc = "kids", NEW n \in Names, win[w].cmd.a = n,
           Id(n)' \notin Free'
    PROVE  Sound(win[w].cmd, active'[n]) /\ win'[w].read[n] = win[w].read[n]
  <1>1. win'[w] # Idle
    BY IdleIs
  <1>2. ~Leave(w)
    BY <1>1, LeaveTurns DEF IInv
  <1>3. ArchiveUnlink(w)
    BY <1>2 DEF Continue, Step, MayMove, CreateRecord, CreateFails, CreateActivate, HookRead,
     HookWrite, WriteParent, WriteChild, WriteFails, RenameOwn, RenameManifest, RenameTorn,
     RenameBackref, RenameMove, RenameBlocked, RenameSessions, ArchiveOwn, ArchiveReadKid,
     ArchiveSessions, ArchiveMove, ArchiveBlocked, CommitAdd, CommitRm,
     CommitArchive, StartGate, StartPoint, ReadOwn, StartFlip, FinishClear, FieldWrite,
     Stop, GiveUp
  <1>4. Proceeds(w) /\ Free \subseteq Free'
    BY <1>1, Turns, HistoryGrows DEF Turn
  <1>5. win'[w].read[n] = win[w].read[n]
    BY <1>4 DEF Proceeds, Looks
  <1>6. PICK m \in Names : /\ win[w].read[m] # None
                           /\ Write(m, [win[w].read[m] EXCEPT !.parent = None])
    BY <1>3, WindowFacts DEF ArchiveUnlink, IInv, Window
  <1> DEFINE t == win[w].read[m]
             x == [t EXCEPT !.parent = None]
  <1>7. active' = [active EXCEPT ![m] = Stored(m, x)]
    BY <1>6 DEF Write
  <1>8. t \in Task /\ Seen(w, m) = t.id
    BY <1>6, WindowFacts, SeenIs DEF IInv, Window
  <1> HIDE DEF t
  <1>9. x \in Task /\ x.id = t.id /\ (Sound(win[w].cmd, t) => Sound(win[w].cmd, x))
    BY <1>8, UnlinkedSound
  <1> HIDE DEF x
  <1>10. active'[m] = Stored(m, x) /\ \A p \in Names \ {m} : active'[p] = active[p]
    BY <1>7 DEF IInv, StoreOK
  <1>11. /\ Id(n) \in Free \/ Sound(win[w].cmd, active[n])
         /\ Seen(w, n) \in Free \/ Sound(win[w].cmd, win[w].read[n])
    BY DEF ShelfOK, Completing
  <1>12. CASE m = n
    <2>1. Stored(m, x).id = Seen(w, n)
      BY <1>8, <1>9, <1>12, StoredId DEF IInv
    <2>2. Id(n)' = Seen(w, n)
      BY <1>10, <1>12, <2>1 DEF Id, HasRecord, Free
    <2>3. Seen(w, n) \notin Free
      BY <1>4, <2>2
    <2>4. Sound(win[w].cmd, x)
      BY <1>9, <1>11, <1>12, <2>3 DEF t
    <2> QED
      BY <1>5, <1>9, <1>10, <1>12, <2>4, StoredSound
  <1>13. CASE m # n
    <2>1. active'[n] = active[n]
      BY <1>10, <1>13
    <2>2. Id(n)' = Id(n)
      BY <2>1 DEF Id, HasRecord
    <2> QED
      BY <1>4, <1>5, <1>11, <2>1, <2>2
  <1> QED
    BY <1>12, <1>13

LEMMA KidsRest ==
    ASSUME NEW w \in Windows, Continue(w), win[w].pc = "kids"
    PROVE  active' = active
  BY DEF Continue, Step, MayMove, CreateRecord, CreateFails, CreateActivate, HookRead, HookWrite,
     WriteParent, WriteChild, WriteFails, RenameOwn, RenameManifest, RenameTorn,
     RenameBackref, RenameMove, RenameBlocked, RenameSessions, ArchiveOwn, ArchiveReadKid,
     ArchiveUnlink, ArchiveSessions, ArchiveMove, ArchiveBlocked, CommitAdd, CommitRm,
     CommitArchive, StartGate, StartPoint, ReadOwn, StartFlip, FinishClear, FieldWrite,
     Stop, taskVars

LEMMA CompletingContinue ==
    ASSUME IInv, Flows, IdsOK, ShelfOK, NEW w \in Windows, Continue(w)
    PROVE  Completing'
  <1>1. Free \subseteq Free' /\ Turn(w) /\ 0 \in Free'
    BY HistoryGrows, Turns DEF Free
  <1> SUFFICES ASSUME NEW v \in Windows, NEW n \in Names,
                      win'[v].pc \in {"kids", "kid", "shelve"}, win'[v].cmd.a = n
               PROVE  /\ Id(n)' \in Free' \/ Sound(win'[v].cmd, active'[n])
                      /\ Seen(v, n)' \in Free' \/ Sound(win'[v].cmd, win'[v].read[n])
    BY DEF Completing, Sound, MayArchive
  <1>2. CASE v # w
    <2>1. win'[v] = win[v]
      BY <1>1, <1>2 DEF Turn, Alone
    <2>2. n \in Handled(win[v]) /\ Seen(v, n)' = Seen(v, n)
      BY <2>1, CommandIsHandled DEF Seen
    <2>3. Id(n)' \notin Free' => Id(n) \notin Free /\ active'[n] = active[n]
      BY <1>2, <2>2, OthersStay
    <2>4. /\ Id(n) \in Free \/ Sound(win[v].cmd, active[n])
          /\ Seen(v, n) \in Free \/ Sound(win[v].cmd, win[v].read[n])
      BY <2>1 DEF ShelfOK, Completing
    <2> QED
      BY <1>1, <2>1, <2>2, <2>3, <2>4
  <1>3. CASE v = w
    <2>1. Proceeds(w)
      BY <1>1, <1>3, IdleIs DEF Turn
    <2>2. win'[w].cmd = win[w].cmd /\ win[w].cmd.a = n
      BY <1>3, <2>1 DEF Proceeds
    <2>3. \/ win[w].pc = "own" /\ win'[w].pc = "kids"
          \/ win[w].pc = "kids"
          \/ win[w].pc = "kid" /\ win'[w].pc = "kids"
      BY <1>3, <2>1 DEF Proceeds, Follows
    <2>4. CASE win[w].pc = "own" /\ win'[w].pc = "kids"
      <3>1. Sound(win[w].cmd, active'[n]) /\ win'[w].read[n] = None
        BY <2>2, <2>4, CompletesOwn
      <3>2. Seen(w, n)' = 0
        BY <3>1 DEF Seen
      <3> QED
        BY <1>1, <1>3, <2>2, <3>1, <3>2
    <2>5. CASE win[w].pc = "kids"
      <3>1. active' = active /\ Id(n)' = Id(n)
        BY <2>5, KidsRest DEF Id, HasRecord
      <3>2. win'[w].read[n] = win[w].read[n] \/ win'[w].read[n] = active[n]
        BY <2>1, <2>5 DEF Proceeds
      <3>3. /\ Id(n) \in Free \/ Sound(win[w].cmd, active[n])
            /\ Seen(w, n) \in Free \/ Sound(win[w].cmd, win[w].read[n])
        BY <2>2, <2>5 DEF ShelfOK, Completing
      <3>4. Seen(w, n)' \in Free' \/ Sound(win[w].cmd, win'[w].read[n])
        <4>1. CASE win'[w].read[n] = win[w].read[n]
          <5>1. Seen(w, n)' = Seen(w, n)
            BY <4>1 DEF Seen
          <5> QED
            BY <1>1, <3>3, <4>1, <5>1
        <4>2. CASE win'[w].read[n] # win[w].read[n]
          <5>1. HasRecord(n) /\ win'[w].read[n] = active[n]
            BY <2>1, <2>5, <4>2 DEF Proceeds
          <5>2. Seen(w, n)' = Id(n)
            BY <5>1 DEF Seen, Id, HasRecord
          <5> QED
            BY <1>1, <3>3, <5>1, <5>2
        <4> QED
          BY <4>1, <4>2
      <3> QED
        BY <1>1, <1>3, <2>2, <3>1, <3>3, <3>4
    <2>6. CASE win[w].pc = "kid" /\ win'[w].pc = "kids"
      <3>1. Id(n)' \notin Free' => Sound(win[w].cmd, active'[n])
        BY <2>2, <2>6, UnlinksKid
      <3>2. win'[w].read[n] = win[w].read[n]
        BY <2>1, <2>6 DEF Proceeds, Looks
      <3>3. Seen(w, n)' = Seen(w, n)
        BY <3>2 DEF Seen
      <3>4. Seen(w, n) \in Free \/ Sound(win[w].cmd, win[w].read[n])
        BY <2>2, <2>6 DEF ShelfOK, Completing
      <3> QED
        BY <1>1, <1>3, <2>2, <3>1, <3>2, <3>3, <3>4
    <2> QED
      BY <2>3, <2>4, <2>5, <2>6
  <1> QED
    BY <1>2, <1>3

LEMMA PlannedContinue ==
    ASSUME IInv, ShelfOK, NEW w \in Windows, Continue(w)
    PROVE  Planned'
  <1> SUFFICES ASSUME NEW v \in Windows, NEW n \in Names, win'[v].pc = "own",
                      win'[v].cmd.op = "archive", win'[v].cmd.a = n
               PROVE  MayArchive(win'[v].read[n])
    BY DEF Planned, MayArchive
  <1>1. Turn(w)
    BY Turns
  <1>2. v # w
    BY <1>1, IdleIs DEF Turn, Proceeds, Follows
  <1>3. win'[v] = win[v]
    BY <1>1, <1>2 DEF Turn, Alone
  <1> QED
    BY <1>3 DEF ShelfOK, Planned

LEMMA CommittingContinue ==
    ASSUME IInv, Flows, IdsOK, ShelfOK, NEW w \in Windows, Continue(w)
    PROVE  Committing'
  <1>1. Free \subseteq Free' /\ Turn(w)
    BY HistoryGrows, Turns
  <1> SUFFICES ASSUME NEW v \in Windows, NEW n \in Names,
                      win'[v].pc \in {"add", "rm", "commit"}, win'[v].cmd.a = n,
                      Kept(n)' \notin Free'
               PROVE  MayArchive(archived'[n])
    BY DEF Committing, MayArchive
  <1>2. CASE ArchiveMove(w) /\ win[w].cmd.a = n
    <2>1. /\ n \in Handled(win[w]) /\ win[w].pc = "shelve"
          /\ archived'[n] = active[n] /\ Kept(n)' = Id(n)
      BY <1>2, Shelves
    <2>2. v = w
      <3> SUFFICES ASSUME v # w
                   PROVE  FALSE
        OBVIOUS
      <3>1. win'[v] = win[v]
        BY <1>1 DEF Turn, Alone
      <3>2. n \in Handled(win[v])
        BY <3>1, CommandIsHandled
      <3> QED
        BY <1>1, <2>1, <3>2, Both
    <2>3. Proceeds(w)
      BY <1>1, <2>2, IdleIs DEF Turn
    <2>4. win[w].cmd.op = "archive"
      BY <2>1, <2>2, <2>3 DEF Proceeds, Follows
    <2>5. Sound(win[w].cmd, active[n])
      BY <1>1, <1>2, <2>1 DEF ShelfOK, Completing
    <2> QED
      BY <2>1, <2>4, <2>5 DEF Sound
  <1>3. CASE ~(ArchiveMove(w) /\ win[w].cmd.a = n)
    <2>1. archived'[n] = archived[n] /\ Kept(n)' = Kept(n)
      <3>1. CASE ArchiveMove(w)
        BY <1>3, <3>1, Shelves
      <3>2. CASE ~ArchiveMove(w)
        BY <3>2, ArchiveStays DEF Kept, OnShelf
      <3> QED
        BY <3>1, <3>2
    <2>2. win[v].pc \in {"add", "rm", "commit"} /\ win[v].cmd.a = n
      <3>1. CASE v # w
        BY <1>1, <3>1 DEF Turn, Alone
      <3>2. CASE v = w
        <4>1. Proceeds(w) /\ ~Leave(w)
          BY <1>1, <3>2, IdleIs, LeaveTurns DEF Turn, IInv
        <4>2. win[w].pc # "shelve"
          <5> SUFFICES ASSUME win[w].pc = "shelve"
                       PROVE  FALSE
            OBVIOUS
          <5>1. ArchiveMove(w)
            BY <4>1 DEF Continue, Step, MayMove, CreateRecord, CreateFails, CreateActivate,
     HookRead, HookWrite, WriteParent, WriteChild, WriteFails, RenameOwn, RenameManifest,
     RenameTorn, RenameBackref, RenameMove, RenameBlocked, RenameSessions, ArchiveOwn,
     ArchiveReadKid, ArchiveUnlink, ArchiveSessions, ArchiveBlocked, CommitAdd, CommitRm,
     CommitArchive, StartGate, StartPoint, ReadOwn, StartFlip, FinishClear, FieldWrite,
     Stop, GiveUp
          <5>2. win[w].cmd.a = n
            BY <3>2, <4>1 DEF Proceeds
          <5> QED
            BY <1>3, <5>1, <5>2
        <4> QED
          BY <3>2, <4>1, <4>2 DEF Proceeds, Follows
      <3> QED
        BY <3>1, <3>2
    <2> QED
      BY <1>1, <2>1, <2>2 DEF ShelfOK, Committing
  <1> QED
    BY <1>2, <1>3

\* What is owed of an archive is paid by its commit only.
LEMMA OwedStays ==
    ASSUME NEW w \in Windows, Continue(w), NEW n, n \in owed
    PROVE  n \in owed' \/ (win[w].pc = "commit" /\ win[w].cmd.a = n)
  <1>1. CASE ArchiveMove(w)
    BY <1>1 DEF ArchiveMove
  <1>2. CASE CommitArchive(w)
    <2>1. owed' = owed \/ owed' = owed \ {win[w].cmd.a}
      BY <1>2 DEF CommitArchive
    <2> QED
      BY <1>2, <2>1 DEF CommitArchive, Step
  <1>3. CASE ~ArchiveMove(w) /\ ~CommitArchive(w)
    <2>1. owed' = owed
      BY <1>3 DEF Continue, CreateRecord, CreateFails, CreateActivate, HookRead, HookWrite,
     WriteParent, WriteChild, WriteFails, RenameOwn, RenameManifest, RenameTorn,
     RenameBackref, RenameMove, RenameBlocked, RenameSessions, ArchiveOwn, ArchiveReadKid,
     ArchiveUnlink, ArchiveSessions, ArchiveBlocked, CommitAdd, CommitRm,
     StartGate, StartPoint, ReadOwn, StartFlip, FinishClear, FieldWrite, Stop
    <2> QED
      BY <2>1
  <1> QED
    BY <1>1, <1>2, <1>3

LEMMA ShelvedContinue ==
    ASSUME IInv, Flows, IdsOK, MarksOK, EntriesOK, ShelfOK, NEW w \in Windows, Continue(w)
    PROVE  Shelved'
  <1>1. Free \subseteq Free' /\ Over \subseteq Over'
    BY HistoryGrows, OverGrows
  <1> SUFFICES ASSUME NEW n \in Names, Kept(n)' \notin Free'
               PROVE  /\ archived'[n].status = "completed"
                      /\ n \in owed' \/ MayArchive(archived'[n])
                      /\ archived'[n].manifest \in {None, n} \/ Kept(n)' \in Over'
    BY DEF Shelved, MayArchive
  <1>2. CASE ArchiveMove(w) /\ win[w].cmd.a = n
    <2>1. /\ n \in Handled(win[w]) /\ win[w].pc = "shelve"
          /\ archived'[n] = active[n] /\ Kept(n)' = Id(n)
      BY <1>2, Shelves
    <2>2. Id(n) \notin Free
      BY <1>1, <2>1
    <2>3. archived'[n].status = "completed"
      BY <1>2, <2>1, <2>2 DEF ShelfOK, Completing, Sound
    <2>4. n \in owed'
      BY <1>2 DEF ArchiveMove
    <2>5. win[w].cmd.op # "rename"
      BY <2>1 DEF Flows, Flow
    <2>6. ASSUME NEW c \in Command, Pending(n, c)
          PROVE  FALSE
      <3>1. CASE \E v \in Windows : win[v].pc = "backrefs" /\ win[v].cmd = c
        <4>1. PICK v \in Windows : win[v].pc = "backrefs" /\ win[v].cmd.a = n
          BY <2>6, <3>1 DEF Pending
        <4>2. v # w /\ n \in Handled(win[v])
          BY <2>1, <4>1, CommandIsHandled
        <4> QED
          BY <2>1, <2>2, <4>2, Both
      <3>2. CASE [id |-> Id(n), by |-> c] \in broken
        <4> DEFINE m == [id |-> Id(n), by |-> c]
        <4>1. m.id = Id(n) /\ m.by = c /\ m.by.op = "rename"
          BY <2>6 DEF Pending
        <4> HIDE DEF m
        <4>2. m \in broken
          BY <3>2 DEF m
        <4>3. m.by = win[w].cmd
          BY <2>1, <2>2, <4>1, <4>2 DEF MarksOK, Unmarked, Retryable
        <4> QED
          BY <2>5, <4>1, <4>3
      <3> QED
        BY <2>6, <3>1, <3>2 DEF Pending
    <2>7. active[n].manifest \in {None, n} \/ Id(n) \in Over
      BY <2>2, <2>6 DEF EntriesOK, OwnEntries
    <2> QED
      BY <1>1, <2>1, <2>3, <2>4, <2>7
  <1>3. CASE ~(ArchiveMove(w) /\ win[w].cmd.a = n)
    <2>1. archived'[n] = archived[n] /\ Kept(n)' = Kept(n)
      <3>1. CASE ArchiveMove(w)
        BY <1>3, <3>1, Shelves
      <3>2. CASE ~ArchiveMove(w)
        BY <3>2, ArchiveStays DEF Kept, OnShelf
      <3> QED
        BY <3>1, <3>2
    <2>2. /\ archived[n].status = "completed"
          /\ n \in owed \/ MayArchive(archived[n])
          /\ archived[n].manifest \in {None, n} \/ Kept(n) \in Over
      BY <1>1, <2>1 DEF ShelfOK, Shelved
    <2>3. n \in owed' \/ MayArchive(archived[n])
      <3>1. CASE win[w].pc = "commit" /\ win[w].cmd.a = n
        BY <1>1, <2>1, <3>1 DEF ShelfOK, Committing
      <3>2. CASE ~(win[w].pc = "commit" /\ win[w].cmd.a = n)
        BY <2>2, <3>2, OwedStays
      <3> QED
        BY <3>1, <3>2
    <2> QED
      BY <1>1, <2>1, <2>2, <2>3
  <1> QED
    BY <1>2, <1>3

LEMMA ShelfContinue ==
    ASSUME IInv, Flows, IdsOK, MarksOK, EntriesOK, ShelfOK, NEW w \in Windows, Continue(w)
    PROVE  ShelfOK'
  BY PlannedContinue, CompletingContinue, CommittingContinue, ShelvedContinue DEF ShelfOK

\* What a command that is called reads is what is there.
Opened(w) ==
    /\ Alone(w) /\ broken' = broken /\ archived' = archived /\ owed' = owed
    /\ \A n \in Names : HasRecord(n) => active'[n] = active[n]
    /\ win'[w].pc \in {"new", "parent", "own", "kids", "gate", "clear", "field"}
    /\ \A n \in Names : win'[w].pc = "own" /\ win'[w].cmd.a = n =>
          /\ win'[w].read[n] = active[n]
          /\ win'[w].cmd.op = "archive" => MayArchive(active[n])
    /\ \A n \in Names : win'[w].pc = "kids" /\ win'[w].cmd.a = n =>
          win'[w].read[n] = None /\ ~HasRecord(n)

LEMMA CallOpens ==
    ASSUME IInv, NEW w \in Windows, NEW c \in Menu[w],
           CreateDir(w, c) \/ LinkRead(w, c) \/ RenamePlan(w, c) \/ ArchiveRead(w, c)
               \/ StartCalled(w, c) \/ FinishCalled(w, c) \/ FieldRead(w, c)
    PROVE  Opened(w)
  <1>0. WellFormed(c)
    BY MenuAssumption
  <1>1. ASSUME NEW pc, NEW read, NEW todo, Enter(w, At(pc, c, read, todo))
        PROVE  Alone(w) /\ win'[w].pc = pc /\ win'[w].cmd = c /\ win'[w].read = read
    <2>1. win' = [win EXCEPT ![w] = At(pc, c, read, todo)]
      BY <1>1 DEF Enter
    <2>2. win'[w] = At(pc, c, read, todo) /\ Alone(w)
      BY <2>1, WindowFacts DEF IInv, Alone
    <2> QED
      BY <2>2 DEF At
  <1>2. CASE CreateDir(w, c)
    <2>1. Alone(w) /\ win'[w].pc = "new"
      BY <1>1, <1>2 DEF CreateDir
    <2>2. /\ broken' = broken /\ archived' = archived /\ owed' = owed /\ c.op \in {"create", "force"}
          /\ active' = IF HasRecord(c.a) THEN active ELSE [active EXCEPT ![c.a] = Bare]
      BY <1>2 DEF CreateDir
    <2>3. ASSUME NEW n \in Names, HasRecord(n)
          PROVE  active'[n] = active[n]
      <3>1. CASE HasRecord(c.a)
        BY <2>2, <3>1
      <3>2. CASE ~HasRecord(c.a)
        <4>1. active' = [active EXCEPT ![c.a] = Bare] /\ n # c.a
          BY <2>2, <2>3, <3>2
        <4> QED
          BY <4>1 DEF IInv, StoreOK
      <3> QED
        BY <3>1, <3>2
    <2> QED
      BY <2>1, <2>2, <2>3 DEF Opened
  <1>3. CASE LinkRead(w, c) \/ FieldRead(w, c) \/ StartCalled(w, c) \/ FinishCalled(w, c)
    <2>1. Alone(w) /\ win'[w].pc \in {"parent", "field", "gate", "clear"}
      BY <1>1, <1>3 DEF LinkRead, FieldRead, StartCalled, FinishCalled
    <2>2. broken' = broken /\ archived' = archived /\ owed' = owed /\ active' = active
      BY <1>3 DEF LinkRead, FieldRead, StartCalled, FinishCalled, taskVars
    <2> QED
      BY <2>1, <2>2 DEF Opened
  <1>4. CASE RenamePlan(w, c)
    <2> DEFINE N == {c.a} \cup Backrefs(c.a)
    <2>1. /\ Alone(w) /\ win'[w].pc = "own" /\ win'[w].cmd = c /\ win'[w].read = ReadNow(N)
      BY <1>1, <1>4 DEF RenamePlan
    <2>2. /\ broken' = broken /\ archived' = archived /\ owed' = owed /\ active' = active
          /\ HasRecord(c.a) /\ c.op = "rename"
      BY <1>4 DEF RenamePlan, taskVars, MayRename
    <2>3. c.a \in Names => ReadNow(N)[c.a] = active[c.a]
      BY <2>2 DEF ReadNow
    <2> HIDE DEF N
    <2> QED
      BY <2>1, <2>2, <2>3 DEF Opened
  <1>5. CASE ArchiveRead(w, c)
    <2>1. broken' = broken /\ archived' = archived /\ owed' = owed /\ active' = active
      BY <1>5 DEF ArchiveRead, taskVars
    <2>2. CASE HasRecord(c.a)
      <3>1. /\ Alone(w) /\ win'[w].pc = "own" /\ win'[w].cmd = c /\ win'[w].read = ReadNow({c.a})
        BY <1>1, <1>5, <2>2 DEF ArchiveRead
      <3>2. c.op = "archive" => MayArchive(active[c.a])
        BY <1>5, <2>2 DEF ArchiveRead
      <3>3. c.a \in Names => ReadNow({c.a})[c.a] = active[c.a]
        BY <2>2 DEF ReadNow
      <3> QED
        BY <2>1, <3>1, <3>2, <3>3 DEF Opened
    <2>3. CASE ~HasRecord(c.a)
      <3>1. /\ Alone(w) /\ win'[w].pc = "kids" /\ win'[w].cmd = c /\ win'[w].read = NothingRead
        BY <1>1, <1>5, <2>3 DEF ArchiveRead
      <3>2. \A n \in Names : NothingRead[n] = None
        BY DEF NothingRead
      <3> QED
        BY <2>1, <2>3, <3>1, <3>2 DEF Opened
    <2> QED
      BY <2>2, <2>3
  <1> QED
    BY <1>2, <1>3, <1>4, <1>5

LEMMA ShelfEnter ==
    ASSUME IInv, Flows, IdsOK, EntriesOK, ShelfOK, NEW w \in Windows, Step(w, "idle"),
           NEW q, Entered(w, q), Opened(w)
    PROVE  EntriesOK' /\ ShelfOK'
  <1>1. /\ Free \subseteq Free' /\ 0 \in Free' /\ \A n \in Names : Id(n)' = Id(n) /\ Kept(n)' = Kept(n)
        /\ \A v \in Windows \ {w} : win'[v] = win[v]
    BY DEF Entered, Opened, Alone, Free, Kept, OnShelf
  <1>2. \A n \in Names : Id(n)' \notin Free' => Id(n) \notin Free /\ active'[n] = active[n]
    BY <1>1 DEF Opened, Id
  <1>3. \A v \in Windows \ {w}, n \in Names : Seen(v, n)' = Seen(v, n)
    BY <1>1 DEF Seen
  <1>4. Over' = Over
    BY DEF Opened, Over
  <1>5. ASSUME NEW n \in Names, NEW c \in Command, Pending(n, c)
        PROVE  Pending(n, c)'
    <2>1. ASSUME NEW v \in Windows, win[v].pc = "backrefs", win[v].cmd = c
          PROVE  win'[v].pc = "backrefs" /\ win'[v].cmd = c
      BY <1>1, <2>1 DEF Step
    <2>2. broken' = broken /\ Id(n)' = Id(n)
      BY <1>1 DEF Opened
    <2> QED
      BY <1>5, <2>1, <2>2 DEF Pending
  <1>6. OwnEntries'
    <2> SUFFICES ASSUME NEW n \in Names, Id(n)' \notin Free'
                 PROVE  \/ active'[n].manifest \in {None, n} \/ Id(n)' \in Over'
                        \/ \E c \in Command : c.b = active'[n].manifest /\ Pending(n, c)'
      BY DEF OwnEntries
    <2> QED
      BY <1>1, <1>2, <1>4, <1>5 DEF EntriesOK, OwnEntries
  <1>7. SameEntries'
    <2> SUFFICES ASSUME NEW v \in Windows, NEW n \in Names, win'[v].pc \in {"own", "jsonl"},
                        win'[v].cmd.op = "rename", win'[v].cmd.a = n, Id(n)' \notin Free'
                 PROVE  win'[v].read[n].manifest = active'[n].manifest
      BY DEF SameEntries
    <2>1. CASE v = w
      BY <1>2, <2>1 DEF Opened
    <2>2. CASE v # w
      BY <1>1, <1>2, <2>2 DEF EntriesOK, SameEntries
    <2> QED
      BY <2>1, <2>2
  <1>8. Repointed'
    <2> SUFFICES ASSUME NEW v \in Windows, NEW n \in Names, win'[v].pc = "backrefs",
                        win'[v].cmd.a = n, Id(n)' \notin Free' \cup Over'
                 PROVE  active'[n].manifest \in {None, win'[v].cmd.b}
      BY DEF Repointed
    <2>1. v # w
      BY DEF Opened
    <2> QED
      BY <1>1, <1>2, <1>4, <2>1 DEF EntriesOK, Repointed
  <1>9. Planned'
    <2> SUFFICES ASSUME NEW v \in Windows, NEW n \in Names, win'[v].pc = "own",
                        win'[v].cmd.op = "archive", win'[v].cmd.a = n
                 PROVE  MayArchive(win'[v].read[n])
      BY DEF Planned, MayArchive
    <2>1. CASE v = w
      BY <2>1 DEF Opened
    <2>2. CASE v # w
      BY <1>1, <2>2 DEF ShelfOK, Planned
    <2> QED
      BY <2>1, <2>2
  <1>10. Completing'
    <2> SUFFICES ASSUME NEW v \in Windows, NEW n \in Names,
                        win'[v].pc \in {"kids", "kid", "shelve"}, win'[v].cmd.a = n
                 PROVE  /\ Id(n)' \in Free' \/ Sound(win'[v].cmd, active'[n])
                        /\ Seen(v, n)' \in Free' \/ Sound(win'[v].cmd, win'[v].read[n])
      BY DEF Completing, Sound, MayArchive
    <2>1. CASE v = w
      <3>1. win'[w].read[n] = None /\ Id(n) = 0
        BY <2>1 DEF Opened, Id
      <3>2. Seen(w, n)' = 0
        BY <3>1 DEF Seen
      <3> QED
        BY <1>1, <2>1, <3>1, <3>2
    <2>2. CASE v # w
      <3>1. /\ Id(n) \in Free \/ Sound(win[v].cmd, active[n])
            /\ Seen(v, n) \in Free \/ Sound(win[v].cmd, win[v].read[n])
        BY <1>1, <2>2 DEF ShelfOK, Completing
      <3> QED
        BY <1>1, <1>2, <1>3, <2>2, <3>1
    <2> QED
      BY <2>1, <2>2
  <1>11. Committing'
    <2> SUFFICES ASSUME NEW v \in Windows, NEW n \in Names,
                        win'[v].pc \in {"add", "rm", "commit"}, win'[v].cmd.a = n,
                        Kept(n)' \notin Free'
                 PROVE  MayArchive(archived'[n])
      BY DEF Committing, MayArchive
    <2>1. v # w /\ archived' = archived
      BY DEF Opened
    <2> QED
      BY <1>1, <2>1 DEF ShelfOK, Committing
  <1>12. Shelved'
    <2> SUFFICES ASSUME NEW n \in Names, Kept(n)' \notin Free'
                 PROVE  /\ archived'[n].status = "completed"
                        /\ n \in owed' \/ MayArchive(archived'[n])
                        /\ archived'[n].manifest \in {None, n} \/ Kept(n)' \in Over'
      BY DEF Shelved, MayArchive
    <2>1. archived' = archived /\ owed' = owed
      BY DEF Opened
    <2> QED
      BY <1>1, <1>4, <2>1 DEF ShelfOK, Shelved
  <1> QED
    BY <1>6, <1>7, <1>8, <1>9, <1>10, <1>11, <1>12 DEF EntriesOK, ShelfOK

LEMMA ShelfRests ==
    ASSUME EntriesOK, ShelfOK, UNCHANGED <<active, archived, win, crossed, broken, owed>>
    PROVE  EntriesOK' /\ ShelfOK'
  <1>1. /\ Free' = Free /\ Over' = Over /\ \A n \in Names : Id(n)' = Id(n) /\ Kept(n)' = Kept(n)
        /\ \A w \in Windows, n \in Names : Seen(w, n)' = Seen(w, n)
    BY DEF Free, Over, Id, Kept, OnShelf, HasRecord, Seen
  <1>2. OwnEntries'
    BY <1>1 DEF EntriesOK, OwnEntries, Pending
  <1>3. SameEntries' /\ Repointed'
    BY <1>1 DEF EntriesOK, SameEntries, Repointed
  <1>4. Planned' /\ Completing'
    BY <1>1 DEF ShelfOK, Planned, Completing, Sound, MayArchive
  <1>5. Committing' /\ Shelved'
    BY <1>1 DEF ShelfOK, Committing, Shelved, MayArchive
  <1> QED
    BY <1>2, <1>3, <1>4, <1>5 DEF EntriesOK, ShelfOK

LEMMA ShelfCurates ==
    ASSUME IInv, Flows, IdsOK, EntriesOK, ShelfOK, NEW w \in Windows, Step(w, "idle"),
           NEW c \in Menu[w], Curate(w, c)
    PROVE  EntriesOK' /\ ShelfOK'
  <1>1. /\ HasRecord(c.a) /\ active' = [active EXCEPT ![c.a].manifest = c.a]
        /\ active[c.a].manifest = None
        /\ crossed' = crossed \cup IdsAt({c.a} \cap HandledByOthers(w))
        /\ archived' = archived /\ win' = win /\ broken' = broken /\ owed' = owed
    BY DEF Curate
  <1>2. PICK a \in Names : a = c.a /\ active[a] \in Task
    BY <1>1, RecordIs DEF IInv
  <1>3. /\ active'[a] = [active[a] EXCEPT !.manifest = a]
        /\ \A n \in Names \ {a} : active'[n] = active[n]
    BY <1>1, <1>2 DEF IInv, StoreOK
  <1>4. /\ active'[a] \in Task /\ active'[a].id = active[a].id /\ active'[a].manifest = a
    BY <1>2, <1>3 DEF Task
  <1>5. active'[a] # None /\ active'[a] # Bare /\ active[a] # None /\ active[a] # Bare
    BY <1>2, <1>4, TasksAssumption DEF TasksAssumption
  <1>6. /\ \A n \in Names : Id(n)' = Id(n) /\ Kept(n)' = Kept(n)
        /\ Free \subseteq Free' /\ Over' = Over
    BY <1>1, <1>3, <1>4, <1>5 DEF Id, HasRecord, Kept, OnShelf, Free, Over
  <1>7. ASSUME NEW v \in Windows, a \in Handled(win[v])
        PROVE  Id(a)' \in Free'
    <2>1. v # w
      BY <1>7, IdleIs DEF Step, Flows, Flow
    <2>2. a \in {a} \cap HandledByOthers(w)
      BY <1>7, <2>1 DEF HandledByOthers
    <2>3. Id(a) \in IdsAt({a} \cap HandledByOthers(w))
      BY <1>1, <1>2, <2>2 DEF Id, IdsAt
    <2> QED
      BY <1>1, <1>2, <1>6, <2>3 DEF Free
  <1>8. ASSUME NEW v \in Windows, NEW n \in Names, n \in Handled(win[v]), Id(n)' \notin Free'
        PROVE  Id(n) \notin Free /\ active'[n] = active[n]
    BY <1>3, <1>6, <1>7, <1>8
  <1>9. \A v \in Windows : win[v].cmd.a \in Names => win[v].cmd.a \in Handled(win[v])
    BY CommandIsHandled
  <1>10. \A v \in Windows, n \in Names : Seen(v, n)' = Seen(v, n)
    BY <1>1 DEF Seen
  <1>11. OwnEntries'
    <2> SUFFICES ASSUME NEW n \in Names, Id(n)' \notin Free'
                 PROVE  \/ active'[n].manifest \in {None, n} \/ Id(n)' \in Over'
                        \/ \E d \in Command : d.b = active'[n].manifest /\ Pending(n, d)'
      BY DEF OwnEntries
    <2>1. CASE n = a
      BY <1>4, <2>1
    <2>2. CASE n # a
      <3>1. \A d \in Command : Pending(n, d) => Pending(n, d)'
        BY <1>1, <1>6 DEF Pending
      <3>2. Id(n) \notin Free /\ active'[n] = active[n]
        BY <1>3, <1>6, <2>2
      <3> QED
        BY <1>6, <3>1, <3>2 DEF EntriesOK, OwnEntries
    <2> QED
      BY <2>1, <2>2
  <1>12. SameEntries'
    <2> SUFFICES ASSUME NEW v \in Windows, NEW n \in Names, win[v].pc \in {"own", "jsonl"},
                        win[v].cmd.op = "rename", win[v].cmd.a = n, Id(n)' \notin Free'
                 PROVE  win[v].read[n].manifest = active'[n].manifest
      BY <1>1 DEF SameEntries
    <2> QED
      BY <1>8, <1>9 DEF EntriesOK, SameEntries
  <1>13. Repointed'
    <2> SUFFICES ASSUME NEW v \in Windows, NEW n \in Names, win[v].pc = "backrefs",
                        win[v].cmd.a = n, Id(n)' \notin Free' \cup Over'
                 PROVE  active'[n].manifest \in {None, win[v].cmd.b}
      BY <1>1 DEF Repointed
    <2>1. Id(n) \notin Free \cup Over /\ active'[n] = active[n]
      BY <1>6, <1>8, <1>9
    <2> QED
      BY <2>1 DEF EntriesOK, Repointed
  <1>14. Planned'
    BY <1>1 DEF ShelfOK, Planned, MayArchive
  <1>15. Completing'
    <2> SUFFICES ASSUME NEW v \in Windows, NEW n \in Names,
                        win[v].pc \in {"kids", "kid", "shelve"}, win[v].cmd.a = n
                 PROVE  /\ Id(n)' \in Free' \/ Sound(win[v].cmd, active'[n])
                        /\ Seen(v, n)' \in Free' \/ Sound(win[v].cmd, win[v].read[n])
      BY <1>1 DEF Completing, Sound, MayArchive
    <2>1. /\ Id(n) \in Free \/ Sound(win[v].cmd, active[n])
          /\ Seen(v, n) \in Free \/ Sound(win[v].cmd, win[v].read[n])
      BY DEF ShelfOK, Completing
    <2>2. Id(n)' \notin Free' => Id(n) \notin Free /\ active'[n] = active[n]
      BY <1>8, <1>9
    <2> QED
      BY <1>6, <1>10, <2>1, <2>2
  <1>16. Committing'
    <2> SUFFICES ASSUME NEW v \in Windows, NEW n \in Names,
                        win[v].pc \in {"add", "rm", "commit"}, win[v].cmd.a = n, Kept(n)' \notin Free'
                 PROVE  MayArchive(archived[n])
      BY <1>1 DEF Committing, MayArchive
    <2> QED
      BY <1>6 DEF ShelfOK, Committing
  <1>17. Shelved'
    <2> SUFFICES ASSUME NEW n \in Names, Kept(n)' \notin Free'
                 PROVE  /\ archived[n].status = "completed"
                        /\ n \in owed \/ MayArchive(archived[n])
                        /\ archived[n].manifest \in {None, n} \/ Kept(n)' \in Over'
      BY <1>1 DEF Shelved, MayArchive
    <2> QED
      BY <1>6 DEF ShelfOK, Shelved
  <1> QED
    BY <1>11, <1>12, <1>13, <1>14, <1>15, <1>16, <1>17 DEF EntriesOK, ShelfOK

-----------------------------------------------------------------------------
(* The inductive invariant, and what it shows.                             *)

Upkeep == MarksOK /\ EntriesOK /\ ShelfOK

LEMMA UpkeepStart == Init => Upkeep
  <1> SUFFICES ASSUME Init
               PROVE  Upkeep
    OBVIOUS
  <1>1. /\ \A w \in Windows : win[w] = Idle
        /\ broken = {} /\ active = First /\ \A n \in Names : archived[n] = None
        /\ crossed = {}
    BY DEF Init
  <1>2. \A w \in Windows : win[w].pc = "idle" /\ Handled(win[w]) = {}
    BY <1>1, IdleIs
  <1>3. MarksOK
    BY <1>1, <1>2 DEF MarksOK, MarksKnown, Unmarked, Gone
  <1>4. OwnEntries
    <2> SUFFICES ASSUME NEW n \in Names, Id(n) \notin Free
                 PROVE  active[n].manifest \in {None, n}
      BY DEF OwnEntries
    <2>1. HasRecord(n)
      BY DEF Free, Id
    <2> QED
      BY <1>1, <2>1, FirstEntries DEF HasRecord
  <1>5. EntriesOK
    BY <1>2, <1>4 DEF EntriesOK, SameEntries, Repointed
  <1>6. \A n \in Names : Kept(n) \in Free
    BY <1>1 DEF Kept, OnShelf, Free
  <1>7. ShelfOK
    BY <1>2, <1>6 DEF ShelfOK, Planned, Completing, Committing, Shelved
  <1> QED
    BY <1>3, <1>5, <1>7 DEF Upkeep

LEMMA UpkeepKeeps ==
    ASSUME IInv, Whereabouts, Upkeep, [Next]_vars
    PROVE  Upkeep'
  <1>1. Flows /\ IdsOK /\ MarksOK /\ EntriesOK /\ ShelfOK
    BY DEF Whereabouts, Upkeep
  <1>2. ASSUME NEW w \in Windows, ~Step(w, "idle"), Continue(w)
        PROVE  Upkeep'
    BY <1>1, <1>2, MarksContinue, EntriesContinue, ShelfContinue DEF Upkeep
  <1>3. ASSUME NEW w \in Windows, NEW c \in Menu[w], Called(w, c)
        PROVE  Upkeep'
    <2>1. CASE RecordSession(w, c)
      <3>1. UNCHANGED <<active, archived, win, crossed, broken, made, owed>>
        BY <2>1 DEF RecordSession, taskVars
      <3>2. Free' = Free /\ \A n \in Names : Id(n)' = Id(n)
        BY <3>1 DEF Free, Id, HasRecord
      <3> QED
        BY <1>1, <3>1, <3>2, MarksRest, ShelfRests DEF Upkeep
    <2>2. CASE Curate(w, c)
      <3>1. Step(w, "idle")
        BY <1>3 DEF Called
      <3>2. EntriesOK' /\ ShelfOK'
        BY <1>1, <2>2, <3>1, ShelfCurates
      <3>3. UNCHANGED <<win, made, broken>> /\ Free \subseteq Free'
        BY <2>2 DEF Curate, Free
      <3>4. \A n \in Names : Id(n)' = Id(n)
        BY <1>1, <2>2, CurateStays
      <3> QED
        BY <1>1, <3>2, <3>3, <3>4, MarksRest DEF Upkeep
    <2>3. CASE ~RecordSession(w, c) /\ ~Curate(w, c)
      <3>1. Step(w, "idle")
        BY <1>3 DEF Called
      <3>2. PICK q : Entered(w, q)
        BY <1>3, <2>3, CallEnters DEF Called
      <3>3. Opened(w)
        BY <1>3, <2>3, CallOpens DEF Called
      <3> QED
        BY <1>1, <3>1, <3>2, <3>3, MarksEnter, ShelfEnter DEF Upkeep
    <2> QED
      BY <2>1, <2>2, <2>3
  <1>4. CASE Expire \/ UNCHANGED vars
    <2>1. UNCHANGED <<active, archived, win, crossed, broken, made, owed>>
      BY <1>4 DEF Expire, vars, taskVars
    <2>2. Free' = Free /\ \A n \in Names : Id(n)' = Id(n)
      BY <2>1 DEF Free, Id, HasRecord
    <2> QED
      BY <1>1, <2>1, <2>2, MarksRest, ShelfRests DEF Upkeep
  <1> QED
    BY <1>2, <1>3, <1>4 DEF Next

LEMMA UpkeepShows ==
    ASSUME IInv, Whereabouts, Upkeep
    PROVE  TasksKept
  <1>1. ASSUME NEW n \in OnShelf, archived[n].id \notin Blamed
        PROVE  /\ archived[n].status = "completed"
               /\ n \notin owed => MayArchive(archived[n])
               /\ archived[n].manifest # None => Validates(n, archived[n], TRUE)
    <2>1. n \in Names /\ Kept(n) = archived[n].id /\ Kept(n) # 0
      BY <1>1, KeptIs DEF IInv, OnShelf
    <2>2. Kept(n) \notin Free
      BY <1>1, <2>1 DEF Free, Blamed
    <2>3. Kept(n) \notin Over
      BY <1>1, <2>1 DEF Over, Blamed
    <2>4. /\ archived[n].status = "completed"
          /\ n \in owed \/ MayArchive(archived[n])
          /\ archived[n].manifest \in {None, n}
      BY <2>1, <2>2, <2>3 DEF Upkeep, ShelfOK, Shelved
    <2> QED
      BY <2>4 DEF Validates, EntryResolves
  <1>2. \A i \in made \ (crossed \cup Torn) : Cardinality(PlacesOf(i)) = 1
    BY OnePlace DEF OnePlaceEach
  <1> QED
    BY <1>1, <1>2 DEF TasksKept

(* A task that only one command at a time changed is in exactly one place, *)
(* and one in the archive that nothing else interfered with is completed,  *)
(* had its branch recorded before it was committed, and its manifest still *)
(* validates there.                                                        *)
THEOREM TasksKeptHolds == Spec => []TasksKept
  <1>1. Init => IInv /\ Whereabouts /\ Upkeep
    BY InitKeeps, WhereaboutsStart, UpkeepStart
  <1>2. IInv /\ Whereabouts /\ Upkeep /\ [Next]_vars => IInv' /\ Whereabouts' /\ Upkeep'
    BY NextKeeps, WhereaboutsKeep, UpkeepKeeps
  <1>3. IInv /\ Whereabouts /\ Upkeep => TasksKept
    BY UpkeepShows
  <1> QED
    BY <1>1, <1>2, <1>3, PTL DEF Spec

=============================================================================
