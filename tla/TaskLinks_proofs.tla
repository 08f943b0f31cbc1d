-------------------------- MODULE TaskLinks_proofs --------------------------
(***************************************************************************)
(* Proofs about the links of the tasks, for any number of windows, names,  *)
(* commands and mishaps: a task is in the list of its parent at every step *)
(* of every command, so that no task drops out of what is listed; and the  *)
(* records of tasks that are at rest agree with each other.                *)
(***************************************************************************)
EXTENDS Tasks_proofs, WellFoundedInduction

-----------------------------------------------------------------------------
(* The links of the records, and the commands that are changing them.      *)

Parent(n) == active[n].parent
HasKid(n, x) == x \in active[n].kids

\* Tasks that an unlink or an overwriting create may have taken out of sight.
Hidden == {m.id : m \in {x \in broken : x.by.op \in {"unlink", "force"}}}
Clear(n) == Id(n) \notin Free \cup Hidden

Renames == [op : {"rename"}, a : Names, b : Names]

\* An attempt of rename c has begun to write, and task n is one it handles.
Marked(n, c) == [id |-> Id(n), by |-> c] \in broken
Writing(w, c) == win[w].cmd = c /\ win[w].pc \in {"jsonl", "backrefs"}
Underway(n, c) ==
    \/ Marked(n, c)
    \/ \E w \in Windows : Writing(w, c) /\ n \in Handled(win[w])

\* A rename that has not moved the task yet.
Moving(w) == win[w].cmd.op = "rename" /\ win[w].pc \in {"own", "jsonl", "backrefs"}

\* The records that command q is still going to write back as it read them.
ToWrite(q) ==
    {n \in Names :
        /\ q.read[n] # None
        /\ \/ n = q.cmd.a /\ q.pc \in {"parent", "child", "issue", "flip", "field", "own"}
           \/ n = q.cmd.b /\ q.pc \in {"new", "parent"}
           \/ n \in q.todo /\ q.pc \in {"own", "jsonl", "backrefs", "kids", "kid"}}

\* Record t has the links of task n, but for a link to itself.
Agree(t, n) ==
    /\ t.parent = Parent(n)
    /\ \A x \in Names \ {n} : x \in t.kids <=> HasKid(n, x)

-----------------------------------------------------------------------------
(* The inductive invariant about links.                                    *)

\* A link, and a rename to a name in use, ties its tasks together.
Tied ==
    \A w, v \in Windows : \A n \in Handled(win[w]) \cap Handled(win[v]) :
        w # v /\ (Links(win[w].cmd) \/ (win[w].cmd.op = "rename" /\ win[w].cmd.b = n))
            => \A x \in Handled(win[w]) : Id(x) \in Free

\* A create begins with the task and its parent.
Begun ==
    \A w \in Windows :
        win[w].pc = "new" => Handled(win[w]) \subseteq {win[w].cmd.a, win[w].cmd.b}

\* What a command is going to write back has the links it had when read.
LinksRead ==
    \A w \in Windows : \A n \in ToWrite(win[w]) : Id(n) \in Free \/ Agree(win[w].read[n], n)

\* The window is about to take task n from parent p.
Unlinking(w, n, p) ==
    win[w].pc = "child" /\ win[w].cmd.op = "unlink" /\ win[w].cmd.a = n /\ win[w].cmd.b = p

\* The rename of n is under way: p lists it by the new name already...
ListedAnew(n, p, c) ==
    c.a = n /\ c.b # p /\ HasKid(p, c.b) /\ Underway(n, c) /\ Underway(p, c)

\* ... or that of p is: n names it by the new name before it is there.
NamesAnew(n, p, c) ==
    c.b = p /\ Underway(n, c) /\ \A w \in Windows : ~(win[w].pc = "sessions" /\ win[w].cmd = c)

\* A task is in the list of its parent.
Matched ==
    \A n, p \in Names : n # p /\ Clear(n) /\ Clear(p) /\ Parent(n) = p =>
        \/ HasKid(p, n)
        \/ \E w \in Windows : Unlinking(w, n, p)
        \/ \E c \in Renames : ListedAnew(n, p, c) \/ NamesAnew(n, p, c)

\* What names the new name of a task under rename is in its list.
Inherits ==
    \A c \in Renames : \A n \in Names \ {c.a, c.b} :
        Clear(n) /\ Clear(c.a) /\ Underway(c.a, c) /\ Underway(n, c) /\ Parent(n) = c.b
            => HasKid(c.a, n)

\* A rename that is tried again is one of the task that was left half renamed.
Retried ==
    \A w \in Windows : win[w].pc = "own" /\ win[w].cmd.op = "rename" /\ Clear(win[w].cmd.a) =>
        \A n \in Names : Clear(n) /\ Marked(n, win[w].cmd) => Marked(win[w].cmd.a, win[w].cmd)

\* A name that is going to be that of another task.
Expected(p) ==
    \E w \in Windows :
        \/ Moving(w) /\ Clear(win[w].cmd.a) /\ win[w].cmd.b = p
        \/ win[w].pc = "new" /\ win[w].cmd.op = "create" /\ win[w].cmd.a = p
Open(p) == Unused(p) \/ Expected(p)

\* Only a rename to a name makes tasks name it before it is there.
Awaited ==
    \A n, p \in Names : n # p /\ Clear(n) /\ Parent(n) = p /\ Open(p)
        => \E c \in Renames : c.b = p /\ Underway(n, c)

\* A rename has planned every task that names the old name.
Covered ==
    \A w \in Windows, n \in Names :
        Moving(w) /\ Clear(n) /\ n # win[w].cmd.a /\ Mentions(n, win[w].cmd.a)
            => n \in win[w].todo

\* A link is written in the parent first, and the parent is there.
ParentFirst ==
    \A w \in Windows, p \in Names :
        win[w].pc = "child" /\ Links(win[w].cmd) /\ win[w].cmd.b = p /\ win[w].cmd.a # p /\ Clear(p)
            => HasKid(p, win[w].cmd.a)
ParentThere ==
    \A w \in Windows :
        win[w].pc \in {"parent", "child"} /\ Links(win[w].cmd) /\ Clear(win[w].cmd.a)
            => HasRecord(win[w].cmd.b)

LinksInv ==
    /\ Tied /\ Begun /\ LinksRead /\ Matched /\ Inherits /\ Retried /\ Awaited
    /\ Covered /\ ParentFirst /\ ParentThere

-----------------------------------------------------------------------------
(* What a step of a command does to other tasks, to what is crossed or     *)
(* hidden, and to the marks of renames.                                    *)

\* What a command does not handle stays.
LEMMA Untouched ==
    ASSUME IInv, Flows, IdsOK, NEW w \in Windows, Continue(w), NEW n \in Names,
           n \notin Handled(win[w])
    PROVE  active'[n] = active[n]
  <1>1. CASE CreateRecord(w)
    <2> DEFINE k == Cardinality(made) + 1
    <2> HIDE DEF k
    <2> QED
      BY <1>1, Births DEF k
  <1>2. CASE CreateFails(w)
    <2>1. win[w].cmd.a \in Names /\ win[w].pc = "new"
      BY <1>2, WindowFacts DEF CreateFails, Step, WindowOK, IInv
    <2>2. win[w].cmd.a # n
      BY <2>1, CommandIsHandled
    <2>3. active' = active \/ active' = [active EXCEPT ![win[w].cmd.a] = None]
      BY <1>2 DEF CreateFails
    <2> QED
      BY <2>2, <2>3 DEF IInv, StoreOK
  <1>3. CASE HookWrite(w)
    <2>1. PICK a \in Names : a = win[w].cmd.a /\ a \in Handled(win[w])
      BY <1>3, HookWrites
    <2>2. \/ active' = active
          \/ \E x : active' = [active EXCEPT ![a] = x]
      BY <1>3, <2>1 DEF HookWrite
    <2>3. a # n
      BY <2>1
    <2> QED
      BY <2>2, <2>3 DEF IInv, StoreOK
  <1>4. CASE RenameMove(w)
    BY <1>4, Moves
  <1>5. CASE ArchiveMove(w)
    BY <1>5, Shelves
  <1>6. CASE ~CreateRecord(w) /\ ~CreateFails(w) /\ ~HookWrite(w) /\ ~RenameMove(w) /\ ~ArchiveMove(w)
    <2>1. UNCHANGED taskVars \/ \E m, x : Rewrite(w, m, x)
      BY <1>6, Rewrites
    <2>2. ASSUME NEW m, NEW x, Rewrite(w, m, x)
          PROVE  active'[n] = active[n]
      <3>1. active' = [active EXCEPT ![m] = x] /\ m # n
        BY <2>2 DEF Rewrite
      <3> QED
        BY <3>1 DEF IInv, StoreOK
    <2> QED
      BY <2>1, <2>2 DEF taskVars
  <1> QED
    BY <1>1, <1>2, <1>3, <1>4, <1>5, <1>6

LEMMA SameRecord ==
    ASSUME NEW n, active'[n] = active[n]
    PROVE  /\ Id(n)' = Id(n) /\ Parent(n)' = Parent(n) /\ HasRecord(n)' = HasRecord(n)
           /\ \A x : HasKid(n, x)' <=> HasKid(n, x)
  BY DEF Id, HasRecord, Parent, HasKid

\* A rename marks nothing before it has written, nor when it is through.
LEMMA OwnMarks ==
    ASSUME NEW w \in Windows, Continue(w), win[w].pc \in {"own", "sessions"}
    PROVE  broken' \subseteq broken
  BY DEF Continue, Step, MayMove, Halfway, GiveUp, Complete, CreateRecord, CreateFails,
     CreateActivate, HookRead, HookWrite,
     WriteParent, WriteChild, WriteFails, RenameOwn, RenameManifest, RenameTorn,
     RenameBackref, RenameMove, RenameBlocked, RenameSessions, ArchiveOwn, ArchiveReadKid,
     ArchiveUnlink, ArchiveSessions, ArchiveMove, ArchiveBlocked, CommitAdd, CommitRm,
     CommitArchive, StartGate, StartPoint, ReadOwn, StartFlip, FinishClear, FieldWrite,
     Stop

\* What a rename makes up for, it makes up for at its last step.
LEMMA ForgetsMarks ==
    ASSUME IInv, Flows, NEW w \in Windows, Continue(w), NEW m \in broken, m \notin broken',
           m.by \in Renames
    PROVE  /\ RenameSessions(w) /\ m.by = win[w].cmd /\ win[w].pc = "sessions"
           /\ ~(IdsAt({win[w].cmd.b}) \subseteq crossed)
  <1>1. m.by = win[w].cmd /\ win[w].pc \in {"sessions", "shelve", "commit"}
    BY OldMarks
  <1>2. win[w].pc = "sessions"
    BY <1>1 DEF Flows, Flow, Renames
  <1>3. RenameSessions(w) \/ Stop(w)
    BY <1>2 DEF Continue, Step, MayMove, CreateRecord, CreateFails, CreateActivate, HookRead, HookWrite,
     WriteParent, WriteChild, WriteFails, RenameOwn, RenameManifest, RenameTorn,
     RenameBackref, RenameMove, RenameBlocked, ArchiveOwn, ArchiveReadKid,
     ArchiveUnlink, ArchiveSessions, ArchiveMove, ArchiveBlocked, CommitAdd, CommitRm,
     CommitArchive, StartGate, StartPoint, ReadOwn, StartFlip, FinishClear, FieldWrite
  <1>4. ~Stop(w)
    BY DEF Stop, GiveUp
  <1>5. ~(IdsAt({win[w].cmd.b}) \subseteq crossed)
    BY <1>3, <1>4 DEF RenameSessions
  <1> QED
    BY <1>1, <1>2, <1>3, <1>4, <1>5

LEMMA HiddenGrows ==
    ASSUME IInv, Flows, NEW w \in Windows, Continue(w)
    PROVE  Hidden \subseteq Hidden'
  <1>1. win[w].pc \in {"sessions", "shelve", "commit"} => win[w].cmd.op \notin {"unlink", "force"}
    BY DEF Flows, Flow
  <1>2. \A m \in broken : m.by.op \in {"unlink", "force"} => m \in broken'
    BY <1>1, OldMarks
  <1> QED
    BY <1>2 DEF Hidden

\* A clear task was clear before, unless it is new.
LEMMA ClearBack ==
    ASSUME IInv, Flows, IdsOK, NEW w \in Windows, Continue(w), NEW n \in Names, Clear(n)'
    PROVE  \/ Id(n)' = Id(n) /\ Clear(n)
           \/ /\ RenameMove(w) /\ win[w].cmd.b = n
              /\ \E o \in Names : win[w].cmd.a = o /\ Id(n)' = Id(o) /\ Clear(o)
           \/ CreateRecord(w) /\ win[w].cmd.a = n /\ Id(n)' = Cardinality(made) + 1
  <1>1. Free \subseteq Free' /\ Hidden \subseteq Hidden'
    BY HistoryGrows, HiddenGrows
  <1>2. Id(n)' \notin Free' /\ Id(n)' \notin Hidden'
    BY DEF Clear
  <1> QED
    BY <1>1, <1>2, IdsMove DEF Clear

\* The tasks of other windows stay clear tasks only if they are left alone.
LEMMA OthersClear ==
    ASSUME IInv, Flows, IdsOK, NEW w \in Windows, Continue(w), NEW v \in Windows \ {w},
           NEW n \in Names, n \in Handled(win[v]), Clear(n)'
    PROVE  /\ Id(n)' = Id(n) /\ Clear(n) /\ active'[n] = active[n]
           /\ n \notin Handled(win[w])
  <1>1. Free \subseteq Free' /\ Hidden \subseteq Hidden'
    BY HistoryGrows, HiddenGrows
  <1>2. Id(n)' \notin Free' /\ Id(n)' \notin Hidden'
    BY DEF Clear
  <1>3. Id(n)' = Id(n) /\ Id(n) \notin Free /\ active'[n] = active[n]
    BY <1>2, OthersStay
  <1>4. n \notin Handled(win[w])
    BY <1>3, Both
  <1> QED
    BY <1>1, <1>2, <1>3, <1>4 DEF Clear

\* A window that is not at its first step, or that moves on, was at work before.
LEMMA WindowBack ==
    ASSUME IInv, NEW w \in Windows, Continue(w), NEW v \in Windows, win'[v].pc # "idle"
    PROVE  /\ win'[v].cmd = win[v].cmd /\ Handled(win'[v]) \subseteq Handled(win[v])
           /\ \/ v # w /\ win'[v] = win[v]
              \/ v = w /\ Proceeds(w) /\ Follows(win[w], win'[w].pc)
  <1>1. Turn(w)
    BY Turns
  <1>2. Handled(win'[v]) \subseteq Handled(win[v])
    BY <1>1, TurnShows
  <1>3. CASE v # w
    BY <1>1, <1>2, <1>3 DEF Turn, Alone
  <1>4. CASE v = w
    <2>1. Proceeds(w)
      BY <1>1, <1>4, IdleIs DEF Turn
    <2> QED
      BY <1>2, <1>4, <2>1 DEF Proceeds
  <1> QED
    BY <1>3, <1>4

-----------------------------------------------------------------------------
(* Renames under way.                                                      *)

LEMMA RenamesAre ==
    ASSUME NEW c \in Renames
    PROVE  c.op = "rename" /\ c.a \in Names /\ c.b \in Names /\ c \in Command
  BY DEF Renames, Command, Ops

LEMMA RenameOf ==
    ASSUME IInv, Flows, NEW w \in Windows, win[w].cmd.op = "rename"
    PROVE  /\ win[w].cmd \in Renames /\ win[w].cmd.a # win[w].cmd.b
           /\ win[w].cmd.a \in Handled(win[w]) /\ win[w].cmd.b \in Handled(win[w])
           /\ win[w].pc \in {"own", "jsonl", "backrefs", "sessions"}
  <1>1. /\ win[w].cmd.b \in Names /\ win[w].cmd.b \in Handled(win[w])
        /\ win[w].cmd.a \in Names /\ win[w].cmd.a \in Handled(win[w])
        /\ win[w].cmd.a # win[w].cmd.b
    BY CommandIsHandled
  <1>2. win[w].cmd \in Renames
    BY <1>1, WindowFacts DEF IInv, Command, Renames
  <1>3. win[w].pc \in {"own", "jsonl", "backrefs", "sessions"}
    BY DEF Flows, RenameFlow
  <1> QED
    BY <1>1, <1>2, <1>3

LEMMA WritingRename ==
    ASSUME Flows, NEW w \in Windows, NEW c, Writing(w, c)
    PROVE  win[w].cmd = c /\ win[w].cmd.op = "rename" /\ win[w].pc \in {"jsonl", "backrefs"}
  BY DEF Flows, Flow, Writing

\* A task has one creation, if it is not crossed.
LEMMA SameTask ==
    ASSUME IInv, IdsOK, NEW N \in SUBSET Names, NEW n \in Names, Id(n) \notin Free, Id(n) \in IdsAt(N)
    PROVE  n \in N
  <1>1. PICK m \in N : HasRecord(m) /\ Id(n) = active[m].id
    BY DEF IdsAt
  <1>2. Id(m) = Id(n)
    BY <1>1 DEF Id
  <1> QED
    BY <1>1, <1>2 DEF IdsOK, Unique

\* The rename that a task under rename is handled by is that one.
LEMMA Owner ==
    ASSUME IInv, Flows, IdsOK, MarksOK, NEW w \in Windows, NEW n \in Names, n \in Handled(win[w]),
           Id(n) \notin Free, NEW c \in Renames, Underway(n, c)
    PROVE  win[w].cmd = c
  <1>1. CASE Marked(n, c)
    <2> DEFINE m == [id |-> Id(n), by |-> c]
    <2>1. m \in broken /\ m.id = Id(n) /\ m.by = c
      BY <1>1 DEF Marked
    <2> HIDE DEF m
    <2>2. m.by.op = "rename"
      BY <2>1, RenamesAre
    <2> QED
      BY <2>1, <2>2 DEF MarksOK, Unmarked, Retryable
  <1>2. CASE \E v \in Windows : Writing(v, c) /\ n \in Handled(win[v])
    <2>1. PICK v \in Windows : Writing(v, c) /\ n \in Handled(win[v])
      BY <1>2
    <2>2. v = w
      BY <2>1, Both
    <2> QED
      BY <2>1, <2>2 DEF Writing
  <1> QED
    BY <1>1, <1>2 DEF Underway

LEMMA MarkedBack ==
    ASSUME IInv, Flows, IdsOK, NEW w \in Windows, Continue(w), NEW n \in Names,
           Id(n) \notin Free, NEW c \in Renames, [id |-> Id(n), by |-> c] \in broken'
    PROVE  Marked(n, c) \/ (Writing(w, c) /\ n \in Handled(win[w]))
  <1> DEFINE m == [id |-> Id(n), by |-> c]
  <1>1. m \in broken' /\ m.id = Id(n) /\ m.by = c
    OBVIOUS
  <1>2. m \in broken => Marked(n, c)
    BY DEF Marked
  <1> HIDE DEF m
  <1>3. m.by.op = "rename"
    BY <1>1, RenamesAre
  <1>4. CASE m \notin broken
    <2>1. m.id \in IdsAt(Handled(win[w])) /\ m.by = win[w].cmd
      BY <1>1, <1>3, <1>4, NewMarks DEF Retryable
    <2>2. n \in Handled(win[w])
      BY <1>1, <2>1, HandledAre, SameTask DEF IInv
    <2>3. win[w].pc \in {"jsonl", "backrefs"}
      BY <1>1, <1>3, <1>4, <2>1, OwnMarks, RenameOf
    <2> QED
      BY <1>1, <2>1, <2>2, <2>3 DEF Writing
  <1> QED
    BY <1>2, <1>4

\* A task is under rename if it was, or if the rename begins to write.
LEMMA UnderwayBack ==
    ASSUME IInv, Flows, IdsOK, NEW w \in Windows, Continue(w), NEW n \in Names, Id(n)' = Id(n),
           Id(n) \notin Free, NEW c \in Renames, Underway(n, c)'
    PROVE  \/ Underway(n, c)
           \/ win[w].cmd = c /\ win[w].pc = "own" /\ n \in Handled(win[w])
  <1>1. CASE Marked(n, c)'
    <2>1. [id |-> Id(n), by |-> c] \in broken'
      BY <1>1 DEF Marked
    <2> QED
      BY <2>1, MarkedBack DEF Underway
  <1>2. CASE \E v \in Windows : Writing(v, c)' /\ n \in Handled(win'[v])
    <2>1. PICK v \in Windows : Writing(v, c)' /\ n \in Handled(win'[v])
      BY <1>2
    <2>2. win'[v].cmd = c /\ win'[v].pc \in {"jsonl", "backrefs"}
      BY <2>1 DEF Writing
    <2>3. /\ win'[v].cmd = win[v].cmd /\ Handled(win'[v]) \subseteq Handled(win[v])
          /\ \/ v # w /\ win'[v] = win[v]
             \/ v = w /\ Proceeds(w) /\ Follows(win[w], win'[w].pc)
      BY <2>2, WindowBack
    <2>4. win[v].pc \in {"jsonl", "backrefs"} \/ (v = w /\ win[w].pc = "own")
      BY <2>2, <2>3 DEF Follows
    <2> QED
      BY <2>1, <2>2, <2>3, <2>4 DEF Underway, Writing
  <1> QED
    BY <1>1, <1>2 DEF Underway

\* A task that is moved was under rename by its old name.
LEMMA UnderwayMoved ==
    ASSUME IInv, Flows, IdsOK, NEW w \in Windows, Continue(w), RenameMove(w),
           NEW o \in Names, NEW n \in Names, win[w].cmd.a = o, win[w].cmd.b = n,
           Id(n)' = Id(o), Id(o) \notin Free, NEW c \in Renames, Underway(n, c)'
    PROVE  Underway(o, c)
  <1>1. CASE Marked(n, c)'
    <2>1. [id |-> Id(o), by |-> c] \in broken'
      BY <1>1 DEF Marked
    <2> QED
      BY <2>1, MarkedBack DEF Underway
  <1>2. CASE \E v \in Windows : Writing(v, c)' /\ n \in Handled(win'[v])
    <2>1. PICK v \in Windows : Writing(v, c)' /\ n \in Handled(win'[v])
      BY <1>2
    <2>2. win'[v].cmd = c /\ win'[v].pc \in {"jsonl", "backrefs"}
      BY <2>1 DEF Writing
    <2>3. v # w
      BY <2>2, PcsAre, GoTurns DEF RenameMove, IInv
    <2>4. n \in Handled(win[v])
      BY <2>1, <2>2, WindowBack
    <2>5. n \in Handled(win[w]) /\ win[w].cmd.op = "rename"
      BY Moves
    <2>6. Id(o) \in Free
      BY <2>3, <2>4, <2>5, Both
    <2> QED
      BY <2>6
  <1> QED
    BY <1>1, <1>2 DEF Underway

\* A task that is created is under no rename.
LEMMA UnderwayBorn ==
    ASSUME IInv, Flows, IdsOK, MarksOK, NEW w \in Windows, Continue(w), CreateRecord(w),
           NEW n \in Names, win[w].cmd.a = n, Id(n)' \notin Free', NEW c \in Renames
    PROVE  ~Underway(n, c)'
  <1> DEFINE k == Cardinality(made) + 1
  <1> HIDE DEF k
  <1>1. /\ Id(n)' = k /\ k \notin made /\ win[w].pc = "new"
        /\ \A v \in Windows \ {w} : n \in Handled(win[v]) => k \in crossed'
    BY Births DEF k
  <1>2. ~Marked(n, c)'
    <2> SUFFICES ASSUME Marked(n, c)'
                 PROVE  FALSE
      OBVIOUS
    <2> DEFINE m == [id |-> k, by |-> c]
    <2>1. m \in broken' /\ m.id = k /\ m.by = c
      BY <1>1 DEF Marked
    <2> HIDE DEF m
    <2>2. m.by.op = "rename"
      BY <2>1, RenamesAre
    <2>3. m \notin broken
      BY <1>1, <2>1 DEF MarksOK, MarksKnown
    <2>4. win'[w] = Idle
      BY <2>1, <2>2, <2>3, NewMarks DEF Retryable
    <2>5. win[w].cmd.op = "rename"
      BY <2>1, <2>2, <2>3, NewMarks DEF Retryable
    <2> QED
      BY <1>1, <2>5, RenameOf
  <1>3. ASSUME NEW v \in Windows, Writing(v, c)', n \in Handled(win'[v])
        PROVE  FALSE
    <2>1. win'[v].cmd = c /\ win'[v].pc \in {"jsonl", "backrefs"}
      BY <1>3 DEF Writing
    <2>2. /\ Handled(win'[v]) \subseteq Handled(win[v])
          /\ \/ v # w /\ win'[v] = win[v]
             \/ v = w /\ Follows(win[w], win'[w].pc)
      BY <2>1, WindowBack
    <2>3. v # w
      BY <1>1, <2>1, <2>2 DEF Follows
    <2>4. k \in crossed'
      BY <1>1, <1>3, <2>2, <2>3
    <2> QED
      BY <1>1, <2>4 DEF Free
  <1> QED
    BY <1>2, <1>3 DEF Underway

\* A rename that ends before the move marks the tasks it handles.
LEMMA LeavesMarks ==
    ASSUME IInv, NEW w \in Windows, Continue(w), win[w].pc \in {"jsonl", "backrefs"}, win'[w] = Idle,
           NEW n \in Names, n \in Handled(win[w]), HasRecord(n)
    PROVE  [id |-> Id(n), by |-> win[w].cmd] \in broken'
  <1>1. \/ WriteFails(w) \/ RenameBlocked(w) \/ Stop(w) \/ RenameTorn(w)
        \/ RenameManifest(w) \/ RenameBackref(w) \/ RenameMove(w)
    BY DEF Continue, Step, CreateRecord, CreateFails, CreateActivate, HookRead, HookWrite,
     WriteParent, WriteChild, RenameOwn, RenameSessions, ArchiveOwn, ArchiveReadKid,
     ArchiveUnlink, ArchiveSessions, ArchiveMove, ArchiveBlocked, CommitAdd, CommitRm,
     CommitArchive, StartGate, StartPoint, ReadOwn, StartFlip, FinishClear, FieldWrite
  <1>2. ~RenameManifest(w) /\ ~RenameBackref(w) /\ ~RenameMove(w)
    <2>1. Idle.pc = "idle"
      BY IdleIs
    <2>2. RenameMove(w) => win'[w].pc = "sessions"
      BY PcsAre, GoTurns DEF RenameMove, IInv
    <2>3. RenameManifest(w) => win'[w].pc = "backrefs"
      BY PcsAre, GoTurns DEF RenameManifest, IInv
    <2>4. RenameBackref(w) => win'[w].pc = "backrefs"
      BY BackrefTurns DEF RenameBackref, Step
    <2> QED
      BY <2>1, <2>2, <2>3, <2>4
  <1>3. GiveUp(w)
    BY <1>1, <1>2 DEF WriteFails, RenameBlocked, Stop, RenameTorn
  <1>4. Mark(Handled(win[w]), win[w].cmd) \subseteq broken'
    BY <1>3 DEF GiveUp, Halfway
  <1>6. Id(n) \in IdsAt(Handled(win[w]))
    BY DEF Id, IdsAt
  <1> QED
    BY <1>4, <1>6 DEF Mark

\* A rename handles the tasks it has planned to the end.
LEMMA HandlesOn ==
    ASSUME IInv, Flows, NEW w \in Windows, Continue(w), win[w].pc \in {"jsonl", "backrefs"},
           win'[w] # Idle
    PROVE  Handled(win[w]) \subseteq Handled(win'[w])
  <1>1. Proceeds(w)
    BY Turns DEF Turn
  <1>2. /\ win'[w].pc # "idle" /\ win[w].pc # "idle" /\ win'[w].cmd = win[w].cmd
        /\ \A n \in Names : win'[w].read[n] = win[w].read[n]
    BY <1>1 DEF Proceeds, Follows, Looks
  <1>3. \A n \in win[w].todo : n \in Names /\ win[w].read[n] # None
    <2>1. WindowOK(win[w]) /\ win[w].todo \subseteq Names
      BY WindowFacts DEF IInv, Window
    <2> QED
      BY <2>1, TasksAssumption DEF WindowOK, ReadAll, TasksAssumption
  <1> QED
    BY <1>2, <1>3 DEF Handled

\* A task stays under rename until it is moved or the rename is through.
LEMMA UnderwayStays ==
    ASSUME IInv, Flows, NEW w \in Windows, Continue(w), NEW n \in Names, Id(n)' = Id(n),
           Id(n) \notin Free, NEW c \in Renames, Underway(n, c)
    PROVE  \/ Underway(n, c)'
           \/ RenameMove(w) /\ c = win[w].cmd /\ n \in Handled(win[w])
           \/ /\ RenameSessions(w) /\ c = win[w].cmd /\ win[w].pc = "sessions"
              /\ ~(IdsAt({c.b}) \subseteq crossed)
  <1>0. HasRecord(n)
    BY DEF Free, Id
  <1>1. CASE Marked(n, c)
    <2> DEFINE m == [id |-> Id(n), by |-> c]
    <2>1. m.by = c
      OBVIOUS
    <2>2. m \in broken
      BY <1>1 DEF Marked
    <2>3. m \in broken' => Marked(n, c)'
      BY DEF Marked
    <2> HIDE DEF m
    <2> QED
      BY <2>1, <2>2, <2>3, ForgetsMarks DEF Underway
  <1>2. CASE \E v \in Windows : Writing(v, c) /\ n \in Handled(win[v])
    <2>1. PICK v \in Windows : Writing(v, c) /\ n \in Handled(win[v])
      BY <1>2
    <2>2. Turn(w)
      BY Turns
    <2>3. CASE v # w
      <3>1. win'[v] = win[v]
        BY <2>2, <2>3 DEF Turn, Alone
      <3> QED
        BY <2>1, <3>1 DEF Underway, Writing
    <2>4. CASE v = w /\ win'[w] = Idle
      <3>1. [id |-> Id(n), by |-> c] \in broken'
        BY <1>0, <2>1, <2>4, LeavesMarks DEF Writing
      <3> QED
        BY <3>1 DEF Underway, Marked
    <2>5. CASE v = w /\ win'[w] # Idle
      <3>1. Proceeds(w)
        BY <2>2, <2>5 DEF Turn
      <3>2. win'[w].cmd = c /\ win'[w].pc \in {"backrefs", "sessions"}
        BY <2>1, <2>5, <3>1 DEF Proceeds, Follows, Writing
      <3>3. CASE win'[w].pc = "sessions"
        BY <2>1, <2>5, <3>3, EntersSessions DEF Writing
      <3>4. CASE win'[w].pc = "backrefs"
        <4>1. n \in Handled(win'[w])
          BY <2>1, <2>5, HandlesOn DEF Writing
        <4>2. Writing(w, c)'
          BY <3>2, <3>4 DEF Writing
        <4> QED
          BY <4>1, <4>2 DEF Underway
      <3> QED
        BY <3>2, <3>3, <3>4
    <2> QED
      BY <2>3, <2>4, <2>5
  <1> QED
    BY <1>1, <1>2 DEF Underway

-----------------------------------------------------------------------------
(* What a step of a command does to the links.                             *)

SameLinks(n) ==
    /\ Id(n)' = Id(n) /\ Parent(n)' = Parent(n)
    /\ \A x \in Names \ {n} : HasKid(n, x)' <=> HasKid(n, x)

LEMMA FieldsAre ==
    ASSUME NEW t \in Task
    PROVE  /\ \A x : [t EXCEPT !.name = x].parent = t.parent /\ [t EXCEPT !.name = x].kids = t.kids
           /\ \A x : [t EXCEPT !.status = x].parent = t.parent /\ [t EXCEPT !.status = x].kids = t.kids
           /\ \A x : [t EXCEPT !.manifest = x].parent = t.parent
                        /\ [t EXCEPT !.manifest = x].kids = t.kids
           /\ \A x : [t EXCEPT !.branch = x].parent = t.parent /\ [t EXCEPT !.branch = x].kids = t.kids
           /\ \A x : [t EXCEPT !.base = x].parent = t.parent /\ [t EXCEPT !.base = x].kids = t.kids
           /\ \A x : [t EXCEPT !.parent = x].parent = x /\ [t EXCEPT !.parent = x].kids = t.kids
           /\ \A x : [t EXCEPT !.kids = x].parent = t.parent /\ [t EXCEPT !.kids = x].kids = x
  BY DEF Task

LEMMA StoredLinks ==
    ASSUME NEW n \in Names, NEW t \in Task
    PROVE  Stored(n, t).parent = t.parent /\ Stored(n, t).kids = t.kids
  <1>1. CASE HasRecord(n)
    <2> DEFINE x == active[n].manifest
    <2>1. Stored(n, t) = [t EXCEPT !.manifest = x]
      BY <1>1 DEF Stored
    <2> HIDE DEF x
    <2> DEFINE u == [t EXCEPT !.manifest = x]
    <2>2. u.parent = t.parent /\ u.kids = t.kids
      BY FieldsAre
    <2>3. Stored(n, t) = u
      BY <2>1
    <2> HIDE DEF u
    <2> QED
      BY <2>2, <2>3
  <1>2. CASE ~HasRecord(n)
    BY <1>2 DEF Stored
  <1> QED
    BY <1>1, <1>2

\* Window w's command writes record t to task n.
Writes(w, n, t) ==
    /\ n \in ToWrite(win[w]) /\ t \in Task /\ t.id = win[w].read[n].id
    /\ active[n] # None /\ active' = [active EXCEPT ![n] = Stored(n, t)]

\* What is written has been read, or the task is crossed.
LEMMA WroteBack ==
    ASSUME IInv, Flows, IdsOK, LinksRead, NEW w \in Windows, Continue(w), NEW n, NEW t, Writes(w, n, t)
    PROVE  /\ n \in Names /\ n \in Handled(win[w]) /\ HasRecord(n)'
           /\ \A m \in Names \ {n} : active'[m] = active[m]
           /\ \/ Id(n)' \in Free'
              \/ /\ Id(n)' = Id(n) /\ Id(n) \notin Free /\ Agree(win[w].read[n], n)
                 /\ Parent(n)' = t.parent /\ \A x : HasKid(n, x)' <=> x \in t.kids
  <1>1. /\ n \in Names /\ t \in Task /\ t.id = win[w].read[n].id /\ win[w].read[n] # None
        /\ win[w].pc \notin {"idle", "sessions", "add", "rm", "commit"}
    BY DEF Writes, ToWrite
  <1>2. active'[n] = Stored(n, t) /\ \A m \in Names \ {n} : active'[m] = active[m]
    BY <1>1 DEF Writes, IInv, StoreOK
  <1>3. /\ Stored(n, t) \in Task /\ Stored(n, t).id = t.id
        /\ Stored(n, t).parent = t.parent /\ Stored(n, t).kids = t.kids
    BY <1>1, StoredIsTask, StoredId, StoredLinks DEF IInv
  <1>4. n \in Handled(win[w])
    BY <1>1, IsHandled
  <1>5. active'[n] # None /\ active'[n] # Bare
    BY <1>2, <1>3, TasksAssumption DEF TasksAssumption
  <1>6. /\ HasRecord(n)' /\ Id(n)' = t.id /\ Parent(n)' = t.parent
        /\ \A x : HasKid(n, x)' <=> x \in t.kids
    BY <1>1, <1>2, <1>3, <1>5 DEF HasRecord, Id, Parent, HasKid
  <1>7. ASSUME Id(n)' \notin Free'
        PROVE  Id(n)' = Id(n) /\ Id(n) \notin Free /\ Agree(win[w].read[n], n)
    <2>1. Seen(w, n) = Id(n)' /\ Seen(w, n) \notin Free
      BY <1>1, <1>6, <1>7, SeenIs, HistoryGrows DEF IInv
    <2>2. Id(n) = Seen(w, n)
      BY <1>1, <2>1 DEF IdsOK, Reading, Moved
    <2>3. Agree(win[w].read[n], n)
      BY <2>1, <2>2 DEF LinksRead, Writes
    <2> QED
      BY <2>1, <2>2, <2>3
  <1> QED
    BY <1>1, <1>2, <1>4, <1>6, <1>7

LEMMA WroteSame ==
    ASSUME IInv, Flows, IdsOK, LinksRead, NEW w \in Windows, Continue(w), NEW n, NEW t, Writes(w, n, t),
           t.parent = win[w].read[n].parent, t.kids = win[w].read[n].kids
    PROVE  \A m \in Names : Id(m)' \in Free' \/ SameLinks(m)
  <1>1. \A m \in Names \ {n} : SameLinks(m)
    BY WroteBack, SameRecord DEF SameLinks
  <1>2. Id(n)' \in Free' \/ SameLinks(n)
    BY WroteBack DEF Agree, SameLinks
  <1> QED
    BY <1>1, <1>2

\* A record goes, or is written in place, or nothing changes.
LEMMA GoesSame ==
    ASSUME IInv, NEW n \in Names, NEW x, x = None \/ x = Bare, active' = [active EXCEPT ![n] = x]
    PROVE  \A m \in Names : Id(m)' \in Free' \/ SameLinks(m)
  <1>1. active'[n] = x /\ \A m \in Names \ {n} : active'[m] = active[m]
    BY DEF IInv, StoreOK
  <1>2. Id(n)' = 0
    BY <1>1 DEF Id, HasRecord
  <1>3. \A m \in Names \ {n} : SameLinks(m)
    BY <1>1, SameRecord DEF SameLinks
  <1> QED
    BY <1>2, <1>3 DEF Free

LEMMA RestSame ==
    ASSUME active' = active
    PROVE  \A m \in Names : Id(m)' \in Free' \/ SameLinks(m)
  BY SameRecord DEF SameLinks

LEMMA StartedLinks ==
    ASSUME NEW t \in Task, NEW b \in Branches
    PROVE  Started(t, b).parent = t.parent /\ Started(t, b).kids = t.kids
  BY DEF Task, Started

LEMMA FieldLinks ==
    ASSUME NEW q, q.read[q.cmd.a] \in Task, NEW t, t = q.read[q.cmd.a]
    PROVE  WithField(q).parent = t.parent /\ WithField(q).kids = t.kids /\ WithField(q).id = t.id
  <1> DEFINE v == IF q.cmd.op = "base" THEN "feature" ELSE t.base
             u == [t EXCEPT !.base = v]
             z == IF q.cmd.op = "branch" THEN "feature" ELSE u.branch
             y == [u EXCEPT !.branch = z]
  <1>1. v \in Branches
    BY UpdatesAreTasks DEF Branches, Task
  <1>2. WithBase(q) = u
    BY DEF WithBase
  <1>3. WithField(q) = y
    BY <1>2 DEF WithField
  <1> HIDE DEF v
  <1>4. u \in Task /\ u.parent = t.parent /\ u.kids = t.kids /\ u.id = t.id
    <2>1. u \in Task
      BY <1>1, UpdatesAreTasks
    <2>2. u.parent = t.parent /\ u.kids = t.kids
      BY FieldsAre
    <2>3. u.id = t.id
      BY SameIds
    <2> QED
      BY <2>1, <2>2, <2>3
  <1> HIDE DEF u, z
  <1>5. y.parent = u.parent /\ y.kids = u.kids /\ y.id = u.id
    BY <1>4, FieldsAre, SameIds
  <1> HIDE DEF y
  <1> QED
    BY <1>3, <1>4, <1>5

\* Most steps leave the links alone.
LEMMA QuietSteps ==
    ASSUME IInv, Flows, IdsOK, LinksRead, NEW w \in Windows, Continue(w),
           ~CreateRecord(w), ~RenameMove(w), ~WriteParent(w), ~WriteChild(w),
           ~RenameBackref(w), ~ArchiveUnlink(w)
    PROVE  \A n \in Names : Id(n)' \in Free' \/ SameLinks(n)
  <1> USE DEF IInv, Step
  <1> DEFINE q == win[w]
             a == q.cmd.a
             b == q.cmd.b
             t == q.read[a]
  <1>1. WindowOK(q) /\ q \in Window
    BY WindowFacts
  <1>2. t \in Task => t # None
    BY TasksAssumption DEF TasksAssumption
  <1>3. CASE RenameOwn(w)
    <2>1. q.pc = "own" /\ a \in Names /\ b \in Names /\ t \in Task
      BY <1>1, <1>3 DEF RenameOwn, WindowOK, ReadA, ReadAll
    <2> DEFINE u == [t EXCEPT !.name = b]
    <2>2. u \in Task /\ u.id = t.id /\ u.parent = t.parent /\ u.kids = t.kids
      BY <2>1, UpdatesAreTasks, SameIds, FieldsAre
    <2>3. active' = active \/ Write(a, u)
      BY <1>3 DEF RenameOwn, taskVars
    <2> HIDE DEF u
    <2>4. active' = active \/ Writes(w, a, u)
      BY <1>2, <2>1, <2>2, <2>3 DEF Write, Writes, ToWrite
    <2> QED
      BY <2>2, <2>4, WroteSame, RestSame
  <1>4. CASE RenameManifest(w) \/ RenameTorn(w)
    <2>1. a \in Names
      BY <1>1, <1>4 DEF RenameManifest, RenameTorn, WindowOK, ReadA
    <2>2. \/ active' = active
          \/ HasRecord(a) /\ \E x \in {b, None} : active' = [active EXCEPT ![a].manifest = x]
      BY <1>4 DEF RenameManifest, RenameTorn, taskVars
    <2>3. ASSUME NEW x \in {b, None}, HasRecord(a), active' = [active EXCEPT ![a].manifest = x]
          PROVE  \A n \in Names : SameLinks(n)
      <3>1. PICK m \in Names : m = a /\ active[m] \in Task
        BY <2>1, <2>3, RecordIs
      <3> DEFINE u == [active[m] EXCEPT !.manifest = x]
      <3>2. b \in Names
        BY <1>1, <1>4 DEF RenameManifest, RenameTorn, WindowOK, ReadAll
      <3>3. u \in Task /\ u.parent = active[m].parent /\ u.kids = active[m].kids
        BY <3>1, <3>2, UpdatesAreTasks, FieldsAre
      <3>4. u.id = active[m].id
        BY <3>1, SameIds
      <3>5. active'[m] = u /\ \A n \in Names \ {m} : active'[n] = active[n]
        BY <2>3, <3>1 DEF StoreOK
      <3> HIDE DEF u
      <3>6. u # None /\ u # Bare
        BY <3>3, TasksAssumption DEF TasksAssumption
      <3>7. SameLinks(m)
        BY <2>3, <3>1, <3>3, <3>4, <3>5, <3>6 DEF SameLinks, Id, HasRecord, Parent, HasKid
      <3> QED
        BY <3>5, <3>7, SameRecord DEF SameLinks
    <2> QED
      BY <2>2, <2>3, RestSame
  <1>5. CASE ArchiveOwn(w)
    <2>1. a \in Names /\ t \in Task /\ q.pc = "own"
      BY <1>1, <1>5 DEF ArchiveOwn, WindowOK, ReadA
    <2> DEFINE u == [t EXCEPT !.status = "completed"]
    <2>2. u \in Task /\ u.id = t.id /\ u.parent = t.parent /\ u.kids = t.kids
      BY <2>1, UpdatesAreTasks, SameIds, FieldsAre
    <2>3. Write(a, u)
      BY <1>5 DEF ArchiveOwn
    <2> HIDE DEF u
    <2>4. Writes(w, a, u)
      BY <1>2, <2>1, <2>2, <2>3 DEF Write, Writes, ToWrite
    <2> QED
      BY <2>2, <2>4, WroteSame
  <1>6. CASE StartFlip(w)
    <2>1. a \in Names /\ t \in Task /\ q.pc = "flip"
      BY <1>1, <1>6 DEF StartFlip, WindowOK, ReadA
    <2>2. PICK bb \in Branches : UNCHANGED taskVars \/ Write(a, Started(t, bb))
      BY <1>6 DEF StartFlip
    <2>3. /\ Started(t, bb) \in Task /\ Started(t, bb).id = t.id
          /\ Started(t, bb).parent = t.parent /\ Started(t, bb).kids = t.kids
      BY <2>1, StartedIsTask, StartedId, StartedLinks
    <2>4. active' = active \/ Writes(w, a, Started(t, bb))
      BY <1>2, <2>1, <2>2, <2>3 DEF Write, Writes, ToWrite, taskVars
    <2> QED
      BY <2>3, <2>4, WroteSame, RestSame
  <1>7. CASE FieldWrite(w)
    <2>1. a \in Names /\ t \in Task /\ WithField(q) \in Task /\ q.pc = "field"
      BY <1>1, <1>7, FieldIsTask DEF FieldWrite, WindowOK, ReadA
    <2>2. /\ WithField(q).id = t.id
          /\ WithField(q).parent = t.parent /\ WithField(q).kids = t.kids
      BY <2>1, FieldLinks
    <2>3. Write(a, WithField(q))
      BY <1>7 DEF FieldWrite
    <2>4. Writes(w, a, WithField(q))
      BY <1>2, <2>1, <2>2, <2>3 DEF Write, Writes, ToWrite
    <2> QED
      BY <2>2, <2>4, WroteSame
  <1>8. CASE HookWrite(w)
    <2>1. a \in Names /\ t \in Task /\ q.pc = "issue"
      BY <1>1, <1>8 DEF HookWrite, WindowOK, ReadA
    <2>2. \/ active' = [active EXCEPT ![a] = IF @ = None THEN None ELSE Stored(a, t)]
          \/ active' = [active EXCEPT ![a] = Bare]
      BY <1>8 DEF HookWrite
    <2>3. CASE active' = [active EXCEPT ![a] = Bare]
      BY <2>1, <2>3, GoesSame
    <2>4. CASE active[a] = None /\ active' = [active EXCEPT ![a] = IF @ = None THEN None ELSE Stored(a, t)]
      <3>1. active' = [active EXCEPT ![a] = None]
        BY <2>4
      <3> QED
        BY <2>1, <3>1, GoesSame
    <2>5. CASE active[a] # None /\ active' = [active EXCEPT ![a] = IF @ = None THEN None ELSE Stored(a, t)]
      <3>1. active' = [active EXCEPT ![a] = Stored(a, t)]
        BY <2>5
      <3>2. Writes(w, a, t)
        BY <1>2, <2>1, <2>5, <3>1 DEF Writes, ToWrite
      <3> QED
        BY <3>2, WroteSame
    <2> QED
      BY <2>2, <2>3, <2>4, <2>5
  <1>9. CASE CreateFails(w)
    <2>1. a \in Names
      BY <1>1, <1>9 DEF CreateFails, WindowOK
    <2>2. active' = active \/ active' = [active EXCEPT ![a] = None]
      BY <1>9 DEF CreateFails
    <2> QED
      BY <2>1, <2>2, GoesSame, RestSame
  <1>10. CASE ArchiveMove(w)
    <2>1. a \in Names
      BY <1>1, <1>10 DEF ArchiveMove, WindowOK
    <2>2. active' = [active EXCEPT ![a] = None]
      BY <1>10 DEF ArchiveMove
    <2> QED
      BY <2>1, <2>2, GoesSame
  <1>11. CASE CreateActivate(w) \/ HookRead(w) \/ WriteFails(w) \/ RenameBlocked(w)
              \/ RenameSessions(w) \/ ArchiveReadKid(w) \/ ArchiveSessions(w)
              \/ ArchiveBlocked(w)
    <2>1. active' = active
      BY <1>11 DEF CreateActivate, HookRead, WriteFails, RenameBlocked,
         RenameSessions, ArchiveReadKid, ArchiveSessions, ArchiveBlocked, taskVars
    <2> QED
      BY <2>1, RestSame
  <1>12. CASE CommitAdd(w) \/ CommitRm(w) \/ CommitArchive(w) \/ StartGate(w)
              \/ StartPoint(w) \/ ReadOwn(w) \/ FinishClear(w) \/ Stop(w)
    <2>1. active' = active
      BY <1>12 DEF CommitAdd, CommitRm, CommitArchive, StartGate, StartPoint,
         ReadOwn, FinishClear, Stop, taskVars
    <2> QED
      BY <2>1, RestSame
  <1> QED
    BY <1>3, <1>4, <1>5, <1>6, <1>7, <1>8, <1>9, <1>10, <1>11, <1>12 DEF Continue

LEMMA ParentLinks ==
    ASSUME NEW q, NEW t \in Task, t = q.read[q.cmd.b]
    PROVE  /\ ParentRecord(q).id = t.id /\ ParentRecord(q).parent = t.parent
           /\ q.cmd.op = "unlink" => ParentRecord(q).kids = t.kids \ {q.cmd.a}
           /\ q.cmd.op # "unlink" => ParentRecord(q).kids = t.kids \cup {q.cmd.a}
  <1> DEFINE y == IF q.cmd.op = "unlink" THEN t.kids \ {q.cmd.a} ELSE t.kids \cup {q.cmd.a}
             u == [t EXCEPT !.kids = y]
  <1>1. ParentRecord(q) = u
    BY DEF ParentRecord
  <1>2. /\ q.cmd.op = "unlink" => y = t.kids \ {q.cmd.a}
        /\ q.cmd.op # "unlink" => y = t.kids \cup {q.cmd.a}
    OBVIOUS
  <1> HIDE DEF y
  <1>3. u.id = t.id
    BY SameIds
  <1>4. u.parent = t.parent /\ u.kids = y
    BY FieldsAre
  <1> HIDE DEF u
  <1> QED
    BY <1>1, <1>2, <1>3, <1>4

LEMMA ChildLinks ==
    ASSUME NEW q, NEW t \in Task, t = q.read[q.cmd.a]
    PROVE  /\ ChildRecord(q).id = t.id /\ ChildRecord(q).kids = t.kids
           /\ q.cmd.op = "unlink" => ChildRecord(q).parent = None
           /\ q.cmd.op # "unlink" => ChildRecord(q).parent = q.cmd.b
  <1> DEFINE y == IF q.cmd.op = "unlink" THEN None ELSE q.cmd.b
             u == [t EXCEPT !.parent = y]
  <1>1. ChildRecord(q) = u
    BY DEF ChildRecord
  <1>2. /\ q.cmd.op = "unlink" => y = None
        /\ q.cmd.op # "unlink" => y = q.cmd.b
    OBVIOUS
  <1> HIDE DEF y
  <1>3. u.id = t.id
    BY SameIds
  <1>4. u.parent = y /\ u.kids = t.kids
    BY FieldsAre
  <1> HIDE DEF u
  <1> QED
    BY <1>1, <1>2, <1>3, <1>4

LEMMA RenamedLinks ==
    ASSUME NEW t \in Task, NEW o \in Names, NEW n \in Names, NEW u, u = Renamed(t, o, n)
    PROVE  /\ t.parent = o => u.parent = n
           /\ t.parent # o => u.parent = t.parent
           /\ o \in t.kids => u.kids = (t.kids \ {o}) \cup {n}
           /\ o \notin t.kids => u.kids = t.kids
  BY DEF Task, Renamed

\* create, add-subtask and remove-subtask change the list of the parent...
LEMMA WritesParent ==
    ASSUME IInv, Flows, IdsOK, LinksRead, NEW w \in Windows, Continue(w), WriteParent(w)
    PROVE  \E a, b \in Names :
              /\ a = win[w].cmd.a /\ b = win[w].cmd.b
              /\ a \in Handled(win[w]) /\ b \in Handled(win[w])
              /\ win[w].pc = "parent" /\ win'[w].pc = "child" /\ win'[w].cmd = win[w].cmd
              /\ win[w].cmd.op \in {"create", "force", "link", "unlink"}
              /\ HasRecord(b) => HasRecord(b)'
              /\ \A m \in Names \ {b} : active'[m] = active[m]
              /\ \/ Id(b)' \in Free'
                 \/ /\ Id(b)' = Id(b) /\ Parent(b)' = Parent(b)
                    /\ \A x \in Names \ {a, b} : HasKid(b, x)' <=> HasKid(b, x)
                    /\ a # b => (HasKid(b, a)' <=> Links(win[w].cmd))
  <1> DEFINE q == win[w]
  <1>1. /\ q.pc = "parent" /\ q \in Window /\ WindowOK(q)
        /\ q.cmd.op \in {"create", "force", "link", "unlink"}
    BY WindowFacts DEF IInv, WriteParent, Step, Flows, Flow
  <1>2. PICK a \in Names, b \in Names :
           a = q.cmd.a /\ b = q.cmd.b /\ q.read[b] \in Task /\ a \in Handled(q) /\ b \in Handled(q)
    BY <1>1, IsHandled, TasksAssumption DEF WindowOK, ReadB, TasksAssumption
  <1>3. win'[w].pc = "child" /\ win'[w].cmd = q.cmd
    BY PcsAre, GoTurns DEF WriteParent, IInv
  <1> DEFINE t == q.read[b]
             u == ParentRecord(q)
  <1>4. /\ u \in Task /\ u.id = t.id /\ u.parent = t.parent
        /\ q.cmd.op = "unlink" => u.kids = t.kids \ {a}
        /\ q.cmd.op # "unlink" => u.kids = t.kids \cup {a}
    BY <1>1, <1>2, ParentLinks, ParentIsTask DEF ReadB
  <1>5. b \in ToWrite(q)
    BY <1>1, <1>2, TasksAssumption DEF ToWrite, TasksAssumption
  <1>6. Links(q.cmd) <=> q.cmd.op # "unlink"
    BY <1>1 DEF Links
  <1>7. CASE UNCHANGED taskVars /\ q.cmd.op \in {"create", "force"} /\ a \in t.kids
    <2>1. active' = active
      BY <1>7 DEF taskVars
    <2>2. Free \subseteq Free'
      BY HistoryGrows
    <2>3. \A m \in Names : /\ Id(m)' = Id(m) /\ Parent(m)' = Parent(m) /\ active'[m] = active[m]
                           /\ \A x : HasKid(m, x)' <=> HasKid(m, x)
      BY <2>1, SameRecord
    <2>4. Id(b) \in Free \/ Agree(t, b)
      BY <1>5 DEF LinksRead
    <2>5. HasRecord(b) => HasRecord(b)'
      BY <2>1, SameRecord
    <2>6. \/ Id(b)' \in Free'
          \/ /\ Id(b)' = Id(b) /\ Parent(b)' = Parent(b)
             /\ \A x \in Names \ {a, b} : HasKid(b, x)' <=> HasKid(b, x)
             /\ a # b => (HasKid(b, a)' <=> Links(win[w].cmd))
      BY <1>6, <1>7, <2>2, <2>3, <2>4 DEF Agree
    <2> QED
      BY <1>1, <1>2, <1>3, <2>3, <2>5, <2>6
  <1>8. CASE Write(b, u)
    <2>1. Writes(w, b, u)
      BY <1>4, <1>5, <1>8 DEF Write, Writes
    <2> HIDE DEF u
    <2>2. /\ HasRecord(b)' /\ \A m \in Names \ {b} : active'[m] = active[m]
          /\ \/ Id(b)' \in Free'
             \/ /\ Id(b)' = Id(b) /\ Id(b) \notin Free /\ Agree(t, b)
                /\ Parent(b)' = u.parent /\ \A x : HasKid(b, x)' <=> x \in u.kids
      BY <2>1, WroteBack
    <2>3. \/ Id(b)' \in Free'
          \/ /\ Id(b)' = Id(b) /\ Parent(b)' = Parent(b)
             /\ \A x \in Names \ {a, b} : HasKid(b, x)' <=> HasKid(b, x)
             /\ a # b => (HasKid(b, a)' <=> Links(win[w].cmd))
      BY <1>4, <1>6, <2>2 DEF Agree
    <2> QED
      BY <1>1, <1>2, <1>3, <2>2, <2>3
  <1> QED
    BY <1>2, <1>7, <1>8 DEF WriteParent

\* ... and then the parent of the child.
LEMMA WritesChild ==
    ASSUME IInv, Flows, IdsOK, LinksRead, NEW w \in Windows, Continue(w), WriteChild(w)
    PROVE  \E a \in Names :
              /\ a = win[w].cmd.a /\ a \in Handled(win[w]) /\ win[w].pc = "child"
              /\ win[w].cmd.op \in {"create", "force", "link", "unlink"}
              /\ win'[w].pc \in {"activate", "idle"}
              /\ \A m \in Names \ {a} : active'[m] = active[m]
              /\ \/ Id(a)' \in Free'
                 \/ /\ Id(a)' = Id(a) /\ \A x \in Names \ {a} : HasKid(a, x)' <=> HasKid(a, x)
                    /\ Parent(a)' = IF Links(win[w].cmd) THEN win[w].cmd.b ELSE None
  <1> DEFINE q == win[w]
  <1>1. /\ q.pc = "child" /\ q \in Window /\ WindowOK(q)
        /\ q.cmd.op \in {"create", "force", "link", "unlink"}
    BY WindowFacts DEF IInv, WriteChild, Step, Flows, Flow
  <1>2. PICK a \in Names : a = q.cmd.a /\ q.read[a] \in Task /\ a \in Handled(q)
    BY <1>1, IsHandled, TasksAssumption DEF WindowOK, ReadA, TasksAssumption
  <1>3. win'[w].pc \in {"activate", "idle"}
    BY PcsAre, GoTurns, LeaveTurns, IdleIs DEF WriteChild, IInv
  <1> DEFINE t == q.read[a]
             u == ChildRecord(q)
  <1>4. /\ u \in Task /\ u.id = t.id /\ u.kids = t.kids
        /\ q.cmd.op = "unlink" => u.parent = None
        /\ q.cmd.op # "unlink" => u.parent = q.cmd.b
    BY <1>1, <1>2, ChildLinks, ChildIsTask DEF ReadA
  <1>5. a \in ToWrite(q)
    BY <1>1, <1>2, TasksAssumption DEF ToWrite, TasksAssumption
  <1>6. Links(q.cmd) <=> q.cmd.op # "unlink"
    BY <1>1 DEF Links
  <1>7. Write(a, u)
    BY <1>2 DEF WriteChild
  <1>8. Writes(w, a, u)
    BY <1>4, <1>5, <1>7 DEF Write, Writes
  <1> HIDE DEF u
  <1>9. /\ \A m \in Names \ {a} : active'[m] = active[m]
        /\ \/ Id(a)' \in Free'
           \/ /\ Id(a)' = Id(a) /\ Id(a) \notin Free /\ Agree(t, a)
              /\ Parent(a)' = u.parent /\ \A x : HasKid(a, x)' <=> x \in u.kids
    BY <1>8, WroteBack
  <1>10. \/ Id(a)' \in Free'
         \/ /\ Id(a)' = Id(a) /\ \A x \in Names \ {a} : HasKid(a, x)' <=> HasKid(a, x)
            /\ Parent(a)' = IF Links(win[w].cmd) THEN win[w].cmd.b ELSE None
    BY <1>4, <1>6, <1>9 DEF Agree
  <1> QED
    BY <1>1, <1>2, <1>3, <1>9, <1>10

\* rename changes the old name to the new one, in one task after another.
LEMMA WritesBackref ==
    ASSUME IInv, Flows, IdsOK, LinksRead, NEW w \in Windows, Continue(w), RenameBackref(w)
    PROVE  \E o, b, m \in Names :
              /\ o = win[w].cmd.a /\ b = win[w].cmd.b /\ o # b /\ m # b
              /\ win[w].cmd.op = "rename" /\ win[w].cmd \in Renames
              /\ o \in Handled(win[w]) /\ b \in Handled(win[w]) /\ m \in Handled(win[w])
              /\ m \in win[w].todo /\ win'[w].todo = win[w].todo \ {m}
              /\ win[w].pc = "backrefs" /\ win'[w].pc = "backrefs" /\ win'[w].cmd = win[w].cmd
              /\ Handled(win[w]) \subseteq Handled(win'[w])
              /\ \A n \in Names \ {m} : active'[n] = active[n]
              /\ \/ Id(m)' \in Free'
                 \/ /\ Id(m)' = Id(m) /\ Parent(m)' = IF Parent(m) = o THEN b ELSE Parent(m)
                    /\ \A x \in Names \ {m, b} : HasKid(m, x)' => HasKid(m, x)
                    /\ \A x \in Names \ {m, o} : HasKid(m, x) => HasKid(m, x)'
                    /\ m # o /\ HasKid(m, o) => HasKid(m, b)'
                    /\ m # o /\ HasKid(m, b)' => HasKid(m, b) \/ HasKid(m, o)
                    /\ m # o => ~HasKid(m, o)'
  <1> DEFINE q == win[w]
  <1>1. /\ q.pc = "backrefs" /\ q \in Window /\ WindowOK(q) /\ q.cmd.op = "rename"
    BY WindowFacts DEF IInv, RenameBackref, Step, Flows, Flow
  <1>2. /\ q.cmd \in Renames /\ q.cmd.a # q.cmd.b
        /\ q.cmd.a \in Handled(q) /\ q.cmd.b \in Handled(q)
    BY <1>1, RenameOf
  <1>3. PICK o \in Names, b \in Names :
           o = q.cmd.a /\ b = q.cmd.b /\ o # b /\ o \in Handled(q) /\ b \in Handled(q)
    BY <1>2, RenamesAre
  <1>4. PICK m \in q.todo : /\ Write(m, Renamed(q.read[m], o, b))
                            /\ win' = [win EXCEPT ![w].todo = @ \ {m}]
    BY <1>3 DEF RenameBackref
  <1>5. m \in Names /\ q.read[m] \in Task /\ m \in Handled(q) /\ m # b
    BY <1>1, <1>3, IsHandled DEF WindowOK, ReadAll, Window, Flows, RenameFlow
  <1>6. /\ win'[w].pc = "backrefs" /\ win'[w].cmd = q.cmd /\ win'[w].todo = q.todo \ {m}
        /\ Handled(q) \subseteq Handled(win'[w])
    BY <1>1, <1>4, BackrefTurns, IdleIs, HandlesOn
  <1>12. PICK t \in Task : t = q.read[m]
    BY <1>5
  <1> DEFINE u == Renamed(t, o, b)
  <1>7. /\ u \in Task /\ u.id = t.id /\ u.parent = IF t.parent = o THEN b ELSE t.parent
        /\ u.kids = IF o \in t.kids THEN (t.kids \ {o}) \cup {b} ELSE t.kids
    <2>1. u \in Task
      BY <1>3, RenamedIsTask
    <2>2. u.id = t.id
      BY <1>3, RenamedId
    <2>3. /\ t.parent = o => u.parent = b
          /\ t.parent # o => u.parent = t.parent
          /\ o \in t.kids => u.kids = (t.kids \ {o}) \cup {b}
          /\ o \notin t.kids => u.kids = t.kids
      BY <1>3, RenamedLinks
    <2> QED
      BY <2>1, <2>2, <2>3
  <1>8. m \in ToWrite(q)
    BY <1>1, <1>5, TasksAssumption DEF ToWrite, TasksAssumption
  <1> HIDE DEF u
  <1>9. Writes(w, m, u)
    BY <1>4, <1>7, <1>8, <1>12 DEF Write, Writes, u
  <1>10. /\ \A n \in Names \ {m} : active'[n] = active[n]
         /\ \/ Id(m)' \in Free'
            \/ /\ Id(m)' = Id(m) /\ Id(m) \notin Free /\ Agree(t, m)
               /\ Parent(m)' = u.parent /\ \A x : HasKid(m, x)' <=> x \in u.kids
    BY <1>9, <1>12, WroteBack
  <1>11. \/ Id(m)' \in Free'
         \/ /\ Id(m)' = Id(m) /\ Parent(m)' = IF Parent(m) = o THEN b ELSE Parent(m)
            /\ \A x \in Names \ {m, b} : HasKid(m, x)' => HasKid(m, x)
            /\ \A x \in Names \ {m, o} : HasKid(m, x) => HasKid(m, x)'
            /\ m # o /\ HasKid(m, o) => HasKid(m, b)'
            /\ m # o => ~HasKid(m, o)'
    BY <1>3, <1>5, <1>7, <1>10 DEF Agree
  <1>13. \/ Id(m)' \in Free'
         \/ m # o /\ HasKid(m, b)' => HasKid(m, b) \/ HasKid(m, o)
    <2> SUFFICES ASSUME Id(m)' \notin Free', m # o, HasKid(m, b)'
                 PROVE  HasKid(m, b) \/ HasKid(m, o)
      OBVIOUS
    <2>1. b \in u.kids /\ Agree(t, m)
      BY <1>10
    <2>2. \A x \in Names \ {m} : x \in t.kids <=> HasKid(m, x)
      BY <2>1 DEF Agree
    <2>3. b \in t.kids \/ o \in t.kids
      BY <1>7, <2>1
    <2> QED
      BY <1>3, <1>5, <2>2, <2>3
  <1> QED
    BY <1>1, <1>2, <1>3, <1>4, <1>5, <1>6, <1>10, <1>11, <1>13

\* archive clears the parent of one child after another.
LEMMA WritesUnlink ==
    ASSUME IInv, Flows, IdsOK, LinksRead, NEW w \in Windows, Continue(w), ArchiveUnlink(w)
    PROVE  \E m \in Names :
              /\ win[w].pc = "kid" /\ win'[w].pc = "kids"
              /\ m \in ToWrite(win[w]) /\ win'[w].todo = win[w].todo \ {m}
              /\ Severed(win[w], m, win[w].cmd.a, [win[w].cmd EXCEPT !.op = "unlink"]) \subseteq broken'
              /\ \A n \in Names \ {m} : active'[n] = active[n]
              /\ \/ Id(m)' \in Free'
                 \/ /\ Id(m)' = Id(m) /\ Parent(m)' = None
                    /\ \A x \in Names \ {m} : HasKid(m, x)' <=> HasKid(m, x)
  <1> DEFINE q == win[w]
  <1>1. q.pc = "kid" /\ q \in Window
    BY WindowFacts DEF IInv, ArchiveUnlink, Step
  <1>2. PICK m \in q.todo : /\ q.read[m] # None /\ Write(m, [q.read[m] EXCEPT !.parent = None])
                            /\ win' = [win EXCEPT ![w].pc = "kids", ![w].todo = @ \ {m}]
                            /\ Severed(q, m, q.cmd.a, [q.cmd EXCEPT !.op = "unlink"]) \subseteq broken'
    BY DEF ArchiveUnlink
  <1>3. m \in Names /\ q.read[m] \in Task
    BY <1>1, <1>2 DEF Window
  <1>4. win'[w].pc = "kids" /\ win'[w].todo = q.todo \ {m}
    BY <1>2, PcsAre, DropTurns
  <1> DEFINE t == q.read[m]
             u == [t EXCEPT !.parent = None]
  <1>5. u \in Task /\ u.id = t.id /\ u.parent = None /\ u.kids = t.kids
    <2>1. u \in Task
      BY <1>3, UpdatesAreTasks
    <2>2. u.id = t.id
      BY <1>3, SameIds
    <2>3. u.parent = None /\ u.kids = t.kids
      BY <1>3, FieldsAre
    <2> QED
      BY <2>1, <2>2, <2>3
  <1>6. m \in ToWrite(q)
    BY <1>1, <1>2, <1>3 DEF ToWrite
  <1> HIDE DEF u
  <1>7. Writes(w, m, u)
    BY <1>2, <1>5, <1>6 DEF Write, Writes, u
  <1>8. /\ \A n \in Names \ {m} : active'[n] = active[n]
        /\ \/ Id(m)' \in Free'
           \/ /\ Id(m)' = Id(m) /\ Id(m) \notin Free /\ Agree(t, m)
              /\ Parent(m)' = u.parent /\ \A x : HasKid(m, x)' <=> x \in u.kids
    BY <1>7, WroteBack
  <1> QED
    BY <1>1, <1>2, <1>3, <1>4, <1>5, <1>6, <1>8 DEF Agree

\* What becomes of the parent of a task, and of its list, unless it is new.
ParentSet(w, n) ==
    \/ Parent(n)' = Parent(n)
    \/ Parent(n)' = None
    \/ /\ WriteChild(w) /\ Links(win[w].cmd) /\ win[w].cmd.a = n /\ Parent(n)' = win[w].cmd.b
       /\ win[w].pc = "child" /\ n \in Handled(win[w])
    \/ /\ RenameBackref(w) /\ n \in Handled(win[w]) /\ Parent(n)' = win[w].cmd.b
       /\ Parent(n) = win[w].cmd.a /\ win'[w].pc = "backrefs" /\ win'[w].cmd = win[w].cmd
       /\ Handled(win[w]) \subseteq Handled(win'[w])
ListSet(w, n, x) ==
    \/ HasKid(n, x)' <=> HasKid(n, x)
    \/ /\ WriteParent(w) /\ win[w].cmd.b = n /\ win[w].cmd.a = x /\ n \in Handled(win[w])
       /\ x \in Handled(win[w]) /\ win[w].pc = "parent" /\ win'[w].cmd = win[w].cmd
       /\ \/ HasKid(n, x)' /\ Links(win[w].cmd)
          \/ ~HasKid(n, x)' /\ win[w].cmd.op = "unlink" /\ win'[w].pc = "child"
    \/ /\ RenameBackref(w) /\ n \in Handled(win[w]) /\ win[w].cmd.op = "rename" /\ win[w].cmd.b # n
       /\ win[w].cmd \in Renames /\ win'[w].pc = "backrefs" /\ win'[w].cmd = win[w].cmd
       /\ Handled(win[w]) \subseteq Handled(win'[w]) /\ n \in win[w].todo
       /\ \/ /\ HasKid(n, x)' /\ x = win[w].cmd.b
             /\ n = win[w].cmd.a \/ HasKid(n, win[w].cmd.a)
          \/ ~HasKid(n, x)' /\ x = win[w].cmd.a /\ HasKid(n, win[w].cmd.b)'

LEMMA LinkChanges ==
    ASSUME IInv, Flows, IdsOK, LinksRead, NEW w \in Windows, Continue(w),
           ~CreateRecord(w), ~RenameMove(w), NEW n \in Names, Id(n)' \notin Free'
    PROVE  ParentSet(w, n) /\ \A x \in Names \ {n} : ListSet(w, n, x)
  <1>1. SameLinks(n) => ParentSet(w, n) /\ \A x \in Names \ {n} : ListSet(w, n, x)
    BY DEF SameLinks, ParentSet, ListSet
  <1>2. active'[n] = active[n] => SameLinks(n)
    BY SameRecord DEF SameLinks
  <1>3. CASE WriteParent(w)
    <2>1. PICK a \in Names, b \in Names :
              /\ a = win[w].cmd.a /\ b = win[w].cmd.b
              /\ a \in Handled(win[w]) /\ b \in Handled(win[w])
              /\ win[w].pc = "parent" /\ win'[w].pc = "child" /\ win'[w].cmd = win[w].cmd
              /\ win[w].cmd.op \in {"create", "force", "link", "unlink"}
              /\ \A m \in Names \ {b} : active'[m] = active[m]
              /\ \/ Id(b)' \in Free'
                 \/ /\ Id(b)' = Id(b) /\ Parent(b)' = Parent(b)
                    /\ \A x \in Names \ {a, b} : HasKid(b, x)' <=> HasKid(b, x)
                    /\ a # b => (HasKid(b, a)' <=> Links(win[w].cmd))
      BY <1>3, WritesParent
    <2>2. CASE n # b
      BY <1>1, <1>2, <2>1, <2>2
    <2>3. CASE n = b
      <3>1. ParentSet(w, n)
        BY <2>1, <2>3 DEF ParentSet
      <3>2. ASSUME NEW x \in Names \ {n}
            PROVE  ListSet(w, n, x)
        BY <1>3, <2>1, <2>3 DEF ListSet, Links
      <3> QED
        BY <3>1, <3>2
    <2> QED
      BY <2>2, <2>3
  <1>4. CASE WriteChild(w)
    <2>1. PICK a \in Names :
              /\ a = win[w].cmd.a /\ a \in Handled(win[w]) /\ win[w].pc = "child"
              /\ \A m \in Names \ {a} : active'[m] = active[m]
              /\ \/ Id(a)' \in Free'
                 \/ /\ Id(a)' = Id(a) /\ \A x \in Names \ {a} : HasKid(a, x)' <=> HasKid(a, x)
                    /\ Parent(a)' = IF Links(win[w].cmd) THEN win[w].cmd.b ELSE None
      BY <1>4, WritesChild
    <2>2. CASE n # a
      BY <1>1, <1>2, <2>1, <2>2
    <2>3. CASE n = a
      BY <1>4, <2>1, <2>3 DEF ParentSet, ListSet
    <2> QED
      BY <2>2, <2>3
  <1>5. CASE RenameBackref(w)
    <2>1. PICK o \in Names, b \in Names, m \in Names :
              /\ o = win[w].cmd.a /\ b = win[w].cmd.b /\ o # b /\ m # b
              /\ win[w].cmd.op = "rename" /\ win[w].cmd \in Renames
              /\ m \in Handled(win[w]) /\ m \in win[w].todo
              /\ win'[w].pc = "backrefs" /\ win'[w].cmd = win[w].cmd
              /\ Handled(win[w]) \subseteq Handled(win'[w])
              /\ \A x \in Names \ {m} : active'[x] = active[x]
              /\ \/ Id(m)' \in Free'
                 \/ /\ Id(m)' = Id(m) /\ Parent(m)' = IF Parent(m) = o THEN b ELSE Parent(m)
                    /\ \A x \in Names \ {m, b} : HasKid(m, x)' => HasKid(m, x)
                    /\ \A x \in Names \ {m, o} : HasKid(m, x) => HasKid(m, x)'
                    /\ m # o /\ HasKid(m, o) => HasKid(m, b)'
                    /\ m # o /\ HasKid(m, b)' => HasKid(m, b) \/ HasKid(m, o)
                    /\ m # o => ~HasKid(m, o)'
      BY <1>5, WritesBackref
    <2>2. CASE n # m
      BY <1>1, <1>2, <2>1, <2>2
    <2>3. CASE n = m
      <3>1. ParentSet(w, n)
        BY <1>5, <2>1, <2>3 DEF ParentSet
      <3>2. ASSUME NEW x \in Names \ {n}
            PROVE  ListSet(w, n, x)
        <4>1. CASE x = o
          BY <1>5, <2>1, <2>3, <4>1 DEF ListSet
        <4>2. CASE x = b
          BY <1>5, <2>1, <2>3, <4>2 DEF ListSet
        <4>3. CASE x # o /\ x # b
          BY <2>1, <2>3, <4>3 DEF ListSet
        <4> QED
          BY <4>1, <4>2, <4>3
      <3> QED
        BY <3>1, <3>2
    <2> QED
      BY <2>2, <2>3
  <1>6. CASE ArchiveUnlink(w)
    <2>1. PICK m \in Names :
              /\ \A x \in Names \ {m} : active'[x] = active[x]
              /\ \/ Id(m)' \in Free'
                 \/ /\ Id(m)' = Id(m) /\ Parent(m)' = None
                    /\ \A x \in Names \ {m} : HasKid(m, x)' <=> HasKid(m, x)
      BY <1>6, WritesUnlink
    <2>2. CASE n # m
      BY <1>1, <1>2, <2>1, <2>2
    <2>3. CASE n = m
      BY <2>1, <2>3 DEF ParentSet, ListSet
    <2> QED
      BY <2>2, <2>3
  <1>7. CASE ~WriteParent(w) /\ ~WriteChild(w) /\ ~RenameBackref(w) /\ ~ArchiveUnlink(w)
    BY <1>1, <1>7, QuietSteps
  <1> QED
    BY <1>3, <1>4, <1>5, <1>6, <1>7

-----------------------------------------------------------------------------
(* A step of a command keeps the tasks of a link tied.                     *)

\* A window that handles a task is at work.
LEMMA AtWork ==
    ASSUME NEW q, NEW n \in Handled(q)
    PROVE  q.pc # "idle"
  BY DEF Handled

\* A task that is created where another command is at work, or under a
\* crossed parent, is crossed.
LEMMA BornCrossed ==
    ASSUME IInv, Flows, IdsOK, NEW w \in Windows, CreateRecord(w), NEW n \in Names,
           n = win[w].cmd.a \/ n = win[w].cmd.b,
           \/ n = win[w].cmd.b /\ Id(n) \in Free
           \/ n = win[w].cmd.a /\ \E v \in Windows \ {w} : n \in Handled(win[v])
    PROVE  Cardinality(made) + 1 \in Free'
  <1> DEFINE k == Cardinality(made) + 1
  <1> HIDE DEF k
  <1>1. /\ win[w].pc = "new"
        /\ \A v \in Windows \ {w} : win[w].cmd.a \in Handled(win[v]) => k \in crossed'
    BY Births DEF k
  <1>2. CASE n = win[w].cmd.b /\ Id(n) \in Free
    <2>1. win[w].read[n] \in Task /\ win[w].read[n] # None
      BY <1>1, <1>2, WindowFacts, TasksAssumption DEF IInv, WindowOK, ReadB, TasksAssumption
    <2>2. Seen(w, n) = win[w].read[n].id /\ Seen(w, n) # 0
      BY <2>1, SeenIs DEF IInv
    <2>3. ~Moved(win[w], n)
      BY <1>1 DEF Moved
    <2>4. Seen(w, n) \in Free
      BY <1>2, <2>3 DEF IdsOK, Reading
    <2>5. Doubtful(win[w])
      BY <1>2, <2>2, <2>4, TasksAssumption DEF Doubtful, Free, TasksAssumption
    <2>6. k \in crossed'
      BY <1>2, <2>5 DEF CreateRecord, NewTask, k
    <2> QED
      BY <2>6 DEF Free, k
  <1>3. CASE n = win[w].cmd.a /\ \E v \in Windows \ {w} : n \in Handled(win[v])
    BY <1>1, <1>3 DEF Free, k
  <1> QED
    BY <1>2, <1>3

LEMMA TiedStays ==
    ASSUME IInv, Flows, IdsOK, Tied, Begun, NEW w \in Windows, Continue(w)
    PROVE  Tied'
  <1> SUFFICES ASSUME NEW q \in Windows, NEW v \in Windows, NEW n,
                      n \in Handled(win'[q]), n \in Handled(win'[v]), q # v,
                      Links(win'[q].cmd) \/ (win'[q].cmd.op = "rename" /\ win'[q].cmd.b = n),
                      NEW x \in Handled(win'[q]), Id(x)' \notin Free'
               PROVE  FALSE
    BY DEF Tied
  <1>1. /\ win'[q].cmd = win[q].cmd /\ Handled(win'[q]) \subseteq Handled(win[q])
        /\ Handled(win'[v]) \subseteq Handled(win[v])
    BY AtWork, WindowBack
  <1>2. /\ n \in Handled(win[q]) /\ n \in Handled(win[v]) /\ x \in Handled(win[q])
        /\ Links(win[q].cmd) \/ (win[q].cmd.op = "rename" /\ win[q].cmd.b = n)
    BY <1>1
  <1>3. \A y \in Handled(win[q]) : Id(y) \in Free
    BY <1>2 DEF Tied
  <1>4. n \in Names /\ x \in Names
    BY <1>2, HandledAre DEF IInv
  <1>5. Free \subseteq Free'
    BY HistoryGrows
  <1>6. CASE q # w
    BY <1>2, <1>3, <1>4, <1>5, <1>6, OthersMove
  <1>7. CASE q = w /\ RenameMove(w) /\ win[w].cmd.b = x
    <2>1. PICK o \in Names : o = win[w].cmd.a /\ o \in Handled(win[w]) /\ Id(x)' = Id(o)
      BY <1>7, Moves
    <2> QED
      BY <1>3, <1>5, <1>7, <2>1
  <1>8. CASE q = w /\ CreateRecord(w) /\ win[w].cmd.a = x /\ Id(x)' = Cardinality(made) + 1
    <2>1. win[w].pc = "new"
      BY <1>8 DEF CreateRecord, Step
    <2>2. n \in {win[w].cmd.a, win[w].cmd.b}
      BY <1>2, <1>8, <2>1 DEF Begun
    <2>3. Id(n) \in Free
      BY <1>2, <1>3, <1>8
    <2>4. Cardinality(made) + 1 \in Free'
      BY <1>2, <1>4, <1>8, <2>2, <2>3, BornCrossed
    <2> QED
      BY <1>8, <2>4
  <1>9. \/ Id(x)' = Id(x) \/ Id(x)' \in Free'
        \/ RenameMove(w) /\ win[w].cmd.b = x
        \/ CreateRecord(w) /\ win[w].cmd.a = x /\ Id(x)' = Cardinality(made) + 1
    BY <1>4, IdsMove
  <1> QED
    BY <1>2, <1>3, <1>5, <1>6, <1>7, <1>8, <1>9

LEMMA BegunStays ==
    ASSUME IInv, Flows, IdsOK, Begun, NEW w \in Windows, Continue(w)
    PROVE  Begun'
  <1> SUFFICES ASSUME NEW v \in Windows, win'[v].pc = "new"
               PROVE  Handled(win'[v]) \subseteq {win'[v].cmd.a, win'[v].cmd.b}
    BY DEF Begun
  <1>1. Turn(w)
    BY Turns
  <1>2. win'[v] = win[v]
    BY <1>1, TurnShows, IdleIs
  <1> QED
    BY <1>2 DEF Begun

\* Which step follows the first one of create, and the reading of a record.
LEMMA StepsOn ==
    ASSUME IInv, Flows, NEW w \in Windows, Continue(w), win'[w].pc # "idle"
    PROVE  /\ win[w].pc = "new" => CreateRecord(w)
           /\ win[w].pc = "hook" => HookRead(w) /\ HasRecord(win[w].cmd.a)
           /\ win[w].pc = "load" => ReadOwn(w) /\ HasRecord(win[w].cmd.a)
  <1>1. win'[w] # Idle
    BY IdleIs
  <1>2. ~GiveUp(w) /\ ~Leave(w)
    BY <1>1, LeaveTurns DEF GiveUp, IInv
  <1> QED
    BY <1>2 DEF Continue, Step, MayMove, CreateRecord, CreateFails, CreateActivate, HookRead, HookWrite,
     WriteParent, WriteChild, WriteFails, RenameOwn, RenameManifest, RenameTorn,
     RenameBackref, RenameMove, RenameBlocked, RenameSessions, ArchiveOwn, ArchiveReadKid,
     ArchiveUnlink, ArchiveSessions, ArchiveMove, ArchiveBlocked, CommitAdd, CommitRm,
     CommitArchive, StartGate, StartPoint, ReadOwn, StartFlip, FinishClear, FieldWrite, Stop

\* Whatever else a window handles, it reads or writes of tasks as they were.
LEMMA LinksReadStays ==
    ASSUME IInv, Flows, IdsOK, LinksRead, NEW w \in Windows, Continue(w)
    PROVE  LinksRead'
  <1> SUFFICES ASSUME NEW v \in Windows, NEW n \in Names, n \in ToWrite(win'[v]), Id(n)' \notin Free'
               PROVE  /\ win'[v].read[n].parent = Parent(n)'
                      /\ \A x \in Names \ {n} : x \in win'[v].read[n].kids <=> HasKid(n, x)'
    BY DEF LinksRead, ToWrite, Agree
  <1>0. win'[v].pc # "idle" /\ win'[v].read[n] # None /\ n \in Handled(win'[v])
    BY IsHandled DEF ToWrite
  <1>1. /\ win'[v].cmd = win[v].cmd /\ Handled(win'[v]) \subseteq Handled(win[v])
        /\ \/ v # w /\ win'[v] = win[v]
           \/ v = w /\ Proceeds(w) /\ Follows(win[w], win'[w].pc)
    BY <1>0, WindowBack
  <1>2. CASE v # w
    <2>1. Id(n)' = Id(n) /\ Id(n) \notin Free /\ active'[n] = active[n]
      BY <1>0, <1>1, <1>2, OthersStay
    <2>2. win'[v] = win[v]
      BY <1>1, <1>2
    <2>3. Agree(win[v].read[n], n)
      BY <2>1, <2>2 DEF LinksRead
    <2> QED
      BY <2>1, <2>2, <2>3, SameRecord DEF Agree
  <1>3. CASE v = w /\ Looks(win[w], n) /\ HasRecord(n) /\ win'[w].read[n] = active[n] /\ UNCHANGED taskVars
    <2>1. active'[n] = active[n]
      BY <1>3 DEF taskVars
    <2> QED
      BY <1>3, <2>1 DEF Parent, HasKid
  <1>4. CASE v = w /\ CreateRecord(w) /\ n = win[w].cmd.a
    <2> DEFINE t == NewTask(Cardinality(made) + 1, n)
    <2>1. Cardinality(made) + 1 \in Ids
      BY <1>4, Births
    <2>2. t \in Task
      BY <2>1, NewIsTask
    <2>3. /\ active' = [active EXCEPT ![n] = Stored(n, t)]
          /\ win' = [win EXCEPT ![w].pc = IF win[w].cmd.b = None THEN "activate" ELSE "parent",
                                ![w].read[n] = t]
      BY <1>4 DEF CreateRecord, Write
    <2> HIDE DEF t
    <2>4. active'[n] = Stored(n, t)
      BY <2>3 DEF IInv, StoreOK
    <2>5. win'[w].read[n] = t
      BY <2>3, WindowFacts DEF IInv, Window
    <2>6. active'[n].parent = t.parent /\ active'[n].kids = t.kids
      BY <2>2, <2>4, StoredLinks
    <2> QED
      BY <1>4, <2>5, <2>6 DEF Parent, HasKid
  <1>5. CASE v = w /\ n \in ToWrite(win[w]) /\ win'[w].read[n] = win[w].read[n] /\ SameLinks(n)
    <2>1. Free \subseteq Free'
      BY HistoryGrows
    <2>2. Agree(win[w].read[n], n)
      BY <1>5, <2>1 DEF LinksRead, SameLinks
    <2> QED
      BY <1>5, <2>2 DEF Agree, SameLinks
  <1>6. CASE v = w
    <2> DEFINE a == win[w].cmd.a
               b == win[w].cmd.b
               pc == win'[w].pc
    <2>1. /\ Proceeds(w) /\ Follows(win[w], pc) /\ win'[w].cmd = win[w].cmd
          /\ win'[w].todo \subseteq win[w].todo /\ Free \subseteq Free'
      BY <1>1, <1>6, HistoryGrows DEF Proceeds
    <2>2. \/ n = a /\ pc \in {"parent", "child", "issue", "flip", "field", "own"}
          \/ n = b /\ pc \in {"new", "parent"}
          \/ n \in win'[w].todo /\ pc \in {"own", "jsonl", "backrefs", "kids", "kid"}
      BY <1>6, <2>1 DEF ToWrite
    <2>3. CASE win[w].pc = "new"
      <3>1. CreateRecord(w) /\ pc \in {"activate", "parent"}
        BY <1>0, <1>6, <2>1, <2>3, StepsOn DEF Follows
      <3>2. CASE n # a
        <4>1. n = b
          BY <2>2, <3>1, <3>2
        <4>2. active'[n] = active[n]
          BY <3>1, <3>2, Births
        <4>3. win'[w].read[n] = win[w].read[n]
          BY <1>0, <1>6, <2>1, <2>3, <3>2 DEF Proceeds, Looks
        <4>4. n \in ToWrite(win[w])
          BY <1>0, <1>6, <2>3, <4>1, <4>3 DEF ToWrite
        <4> QED
          BY <1>5, <1>6, <4>2, <4>3, <4>4, SameRecord DEF SameLinks
      <3> QED
        BY <1>4, <1>6, <3>1, <3>2
    <2>4. CASE win[w].pc \in {"hook", "load"}
      <3>1. HasRecord(a) /\ (HookRead(w) \/ ReadOwn(w)) /\ a \in Names
        BY <1>0, <1>6, <2>4, StepsOn DEF HasRecord
      <3>2. UNCHANGED taskVars
        BY <3>1 DEF HookRead, ReadOwn
      <3>3. PICK c \in Names : c = a /\ HasRecord(c) /\ (LooksAt(w, "issue", c) \/ LooksAt(w, "flip", c))
        BY <3>1 DEF HookRead, ReadOwn, LooksAt
      <3>4. win'[w].read[c] = active[c]
        <4>1. win \in [Windows -> Window] /\ win[w] \in Window
          BY WindowFacts DEF IInv
        <4> QED
          BY <3>3, <4>1 DEF LooksAt, Window
      <3>5. n = c
        BY <2>1, <2>2, <2>4, <3>3 DEF Follows
      <3> QED
        BY <1>3, <1>6, <2>4, <3>2, <3>3, <3>4, <3>5 DEF Looks
    <2>5. CASE win[w].pc \notin {"new", "hook", "load"}
      <3>1. CASE Looks(win[w], n) /\ HasRecord(n) /\ win'[w].read[n] = active[n] /\ UNCHANGED taskVars
        BY <1>3, <1>6, <3>1
      <3>2. CASE ~(Looks(win[w], n) /\ HasRecord(n) /\ win'[w].read[n] = active[n] /\ UNCHANGED taskVars)
        <4>1. win'[w].read[n] = win[w].read[n]
          BY <1>0, <1>6, <2>1, <2>5, <3>2 DEF Proceeds
        <4>2. n \in ToWrite(win[w])
          BY <1>0, <1>6, <2>1, <2>2, <2>5, <4>1 DEF ToWrite, Follows
        <4>3. SameLinks(n)
          <5>1. ~CreateRecord(w)
            BY <2>5 DEF CreateRecord, Step
          <5>2. ~RenameMove(w)
            BY <2>2, PcsAre, GoTurns DEF RenameMove, IInv
          <5>3. ~WriteChild(w)
            BY <1>0, <1>6, <2>2, WritesChild
          <5>4. CASE WriteParent(w)
            <6>1. PICK p \in Names, c \in Names :
                    /\ p = a /\ c = b /\ pc = "child"
                    /\ \A m \in Names \ {c} : active'[m] = active[m]
                    /\ \/ Id(c)' \in Free'
                       \/ /\ Id(c)' = Id(c) /\ Parent(c)' = Parent(c)
                          /\ \A x \in Names \ {p, c} : HasKid(c, x)' <=> HasKid(c, x)
              BY <5>4, WritesParent
            <6>2. n = p
              BY <2>2, <6>1
            <6> QED
              BY <6>1, <6>2, SameRecord DEF SameLinks
          <5>5. CASE RenameBackref(w)
            <6>1. PICK m \in Names : /\ win'[w].todo = win[w].todo \ {m} /\ pc = "backrefs"
                                     /\ \A x \in Names \ {m} : active'[x] = active[x]
              BY <5>5, WritesBackref
            <6>2. n # m
              BY <2>2, <6>1
            <6> QED
              BY <6>1, <6>2, SameRecord DEF SameLinks
          <5>6. CASE ArchiveUnlink(w)
            <6>1. PICK m \in Names : /\ m \notin win'[w].todo /\ pc = "kids"
                                     /\ \A x \in Names \ {m} : active'[x] = active[x]
              BY <5>6, WritesUnlink
            <6>2. n # m
              BY <2>2, <6>1
            <6> QED
              BY <6>1, <6>2, SameRecord DEF SameLinks
          <5>7. CASE ~WriteParent(w) /\ ~RenameBackref(w) /\ ~ArchiveUnlink(w)
            BY <5>1, <5>2, <5>3, <5>7, QuietSteps
          <5> QED
            BY <5>4, <5>5, <5>6, <5>7
        <4> QED
          BY <1>5, <1>6, <4>1, <4>2, <4>3
      <3> QED
        BY <3>1, <3>2
    <2> QED
      BY <2>3, <2>4, <2>5
  <1> QED
    BY <1>2, <1>6

\* Which step follows in a link and in a rename.
LEMMA StepsFollow ==
    ASSUME IInv, Flows, NEW w \in Windows, Continue(w), win'[w].pc # "idle"
    PROVE  /\ win[w].pc = "parent" => WriteParent(w)
           /\ win[w].pc = "child" => WriteChild(w)
           /\ win[w].pc = "own" => RenameOwn(w) \/ ArchiveOwn(w)
           /\ win[w].pc = "jsonl" => RenameManifest(w)
           /\ win[w].pc = "backrefs" => RenameBackref(w) \/ RenameMove(w)
  <1>1. win'[w] # Idle
    BY IdleIs
  <1>2. ~GiveUp(w) /\ ~Leave(w)
    BY <1>1, LeaveTurns DEF GiveUp, IInv
  <1> QED
    BY <1>2 DEF Continue, Step, MayMove, CreateRecord, CreateFails, CreateActivate, HookRead, HookWrite,
     WriteParent, WriteChild, WriteFails, RenameOwn, RenameManifest, RenameTorn,
     RenameBackref, RenameMove, RenameBlocked, RenameSessions, ArchiveOwn, ArchiveReadKid,
     ArchiveUnlink, ArchiveSessions, ArchiveMove, ArchiveBlocked, CommitAdd, CommitRm,
     CommitArchive, StartGate, StartPoint, ReadOwn, StartFlip, FinishClear, FieldWrite, Stop

\* A new task has no links.
LEMMA BornLinks ==
    ASSUME IInv, Flows, IdsOK, NEW w \in Windows, CreateRecord(w), NEW n, n = win[w].cmd.a
    PROVE  /\ n \in Names /\ HasRecord(n)' /\ Parent(n)' = None /\ \A x : ~HasKid(n, x)'
           /\ \A m \in Names \ {n} : active'[m] = active[m]
  <1>1. /\ n \in Names /\ Cardinality(made) + 1 \in Ids /\ HasRecord(n)'
        /\ \A m \in Names \ {n} : active'[m] = active[m]
    BY Births
  <1> DEFINE t == NewTask(Cardinality(made) + 1, n)
  <1>2. t \in Task
    BY <1>1, NewIsTask
  <1>3. t.parent = None /\ t.kids = {}
    BY DEF NewTask
  <1>4. active' = [active EXCEPT ![n] = Stored(n, t)]
    BY DEF CreateRecord, Write
  <1> HIDE DEF t
  <1>5. active'[n] = Stored(n, t)
    BY <1>1, <1>4 DEF IInv, StoreOK
  <1>6. active'[n].parent = None /\ active'[n].kids = {}
    BY <1>1, <1>2, <1>3, <1>5, StoredLinks
  <1> QED
    BY <1>1, <1>6 DEF Parent, HasKid

LEMMA ParentFirstStays ==
    ASSUME IInv, Flows, IdsOK, LinksRead, ParentFirst, NEW w \in Windows, Continue(w)
    PROVE  ParentFirst'
  <1> SUFFICES ASSUME NEW v \in Windows, NEW p \in Names, NEW c, c = win'[v].cmd,
                      win'[v].pc = "child", Links(c), c.b = p, c.a # p, Clear(p)'
               PROVE  HasKid(p, c.a)'
    BY DEF ParentFirst
  <1>1. /\ win[v].cmd = c
        /\ \/ v # w /\ win'[v] = win[v]
           \/ v = w /\ Follows(win[w], win'[w].pc)
    BY WindowBack
  <1>2. CASE v # w
    <2>1. win[v].pc = "child"
      BY <1>1, <1>2
    <2>2. p \in Handled(win[v])
      BY <1>1, <2>1, IsHandled, TasksAssumption DEF TasksAssumption
    <2>3. Clear(p) /\ active'[p] = active[p]
      BY <1>2, <2>2, OthersClear
    <2>4. HasKid(p, c.a)
      BY <1>1, <2>1, <2>3 DEF ParentFirst
    <2> QED
      BY <2>3, <2>4, SameRecord
  <1>3. CASE v = w
    <2>1. win[w].pc = "parent"
      BY <1>1, <1>3 DEF Follows
    <2>2. WriteParent(w)
      BY <1>3, <2>1, StepsFollow
    <2>3. Id(p)' \notin Free'
      BY DEF Clear
    <2>4. PICK a \in Names : a = c.a /\ (a # p => (HasKid(p, a)' <=> Links(win[w].cmd)))
      BY <1>1, <1>3, <2>2, <2>3, WritesParent
    <2> QED
      BY <1>1, <1>3, <2>4
  <1> QED
    BY <1>2, <1>3

LEMMA ParentThereStays ==
    ASSUME IInv, IInv', Flows, IdsOK, LinksRead, Tied, ParentThere, NEW w \in Windows, Continue(w)
    PROVE  ParentThere'
  <1> SUFFICES ASSUME NEW v \in Windows, NEW c, c = win'[v].cmd,
                      win'[v].pc \in {"parent", "child"}, Links(c), Clear(c.a)'
               PROVE  HasRecord(c.b)'
    BY DEF ParentThere
  <1>1. /\ win[v].cmd = c
        /\ \/ v # w /\ win'[v] = win[v]
           \/ v = w /\ Follows(win[w], win'[w].pc)
    BY WindowBack
  <1>2. PICK a \in Names : a = c.a
    <2>1. WindowOK(win'[v])
      BY DEF IInv, WindowsOK
    <2> QED
      BY <2>1 DEF WindowOK, ReadA
  <1>3. CASE v # w
    <2>1. win[v].pc \in {"parent", "child"}
      BY <1>1, <1>3
    <2>2. a \in Handled(win[v])
      BY <1>1, <1>2, <2>1, IsHandled, TasksAssumption DEF TasksAssumption
    <2>3. Clear(a)
      BY <1>2, <1>3, <2>2, OthersClear
    <2>4. HasRecord(c.b)
      BY <1>1, <1>2, <2>1, <2>3 DEF ParentThere
    <2>5. PICK b \in Names : b = c.b /\ HasRecord(b)
      BY <2>4 DEF HasRecord
    <2>6. b \in Handled(win[v])
      BY <1>1, <2>1, <2>5, IsHandled, TasksAssumption DEF TasksAssumption
    <2>7. b \notin Handled(win[w])
      <3>1. b \in Handled(win[w]) => Id(a) \in Free
        BY <1>1, <1>3, <2>2, <2>6 DEF Tied
      <3> QED
        BY <2>3, <3>1 DEF Clear
    <2>8. active'[b] = active[b]
      BY <2>7, Untouched
    <2> QED
      BY <2>5, <2>8, SameRecord
  <1>4. CASE v = w /\ win'[w].pc = "parent"
    <2>1. win[w].pc = "new"
      BY <1>1, <1>4 DEF Follows
    <2>2. CreateRecord(w)
      BY <1>4, <2>1, StepsOn
    <2>3. PICK b \in Names : b = c.b
      <3>1. WindowOK(win'[w])
        BY DEF IInv, WindowsOK
      <3> QED
        BY <1>4, <3>1 DEF WindowOK, ReadB
    <2>4. CASE a = b
      BY <1>1, <1>2, <1>4, <2>2, <2>3, <2>4, BornLinks
    <2>5. CASE a # b
      <3>1. active'[b] = active[b]
        BY <1>1, <1>2, <1>4, <2>2, <2>3, <2>5, BornLinks
      <3>2. Id(a)' = Cardinality(made) + 1 /\ Id(a)' \notin Free'
        BY <1>1, <1>2, <1>4, <2>2, Births DEF Clear
      <3>3. Id(b) \notin Free
        BY <1>1, <1>4, <2>2, <2>3, <3>2, BornCrossed
      <3>4. HasRecord(b)
        BY <3>3 DEF Free, Id
      <3> QED
        BY <2>3, <3>1, <3>4, SameRecord
    <2> QED
      BY <2>4, <2>5
  <1>5. CASE v = w /\ win'[w].pc = "child"
    <2>1. win[w].pc = "parent"
      BY <1>1, <1>5 DEF Follows
    <2>2. WriteParent(w)
      BY <1>5, <2>1, StepsFollow
    <2>3. PICK b \in Names : b = c.b /\ (HasRecord(b) => HasRecord(b)')
      BY <1>1, <1>5, <2>2, WritesParent
    <2>4. ~CreateRecord(w) /\ ~RenameMove(w)
      BY <2>1 DEF CreateRecord, RenameMove, MayMove, Step
    <2>5. Clear(a)
      BY <1>2, <2>4, ClearBack
    <2>6. HasRecord(b)
      BY <1>1, <1>2, <1>5, <2>1, <2>3, <2>5 DEF ParentThere
    <2> QED
      BY <2>3, <2>6
  <1> QED
    BY <1>1, <1>3, <1>4, <1>5

LEMMA RetriedStays ==
    ASSUME IInv, Flows, IdsOK, MarksOK, Retried, NEW w \in Windows, Continue(w)
    PROVE  Retried'
  <1> SUFFICES ASSUME NEW v \in Windows, NEW c, c = win'[v].cmd, win'[v].pc = "own",
                      c.op = "rename", Clear(c.a)',
                      NEW n \in Names, Clear(n)', Marked(n, c)'
               PROVE  Marked(c.a, c)'
    BY DEF Retried
  <1>1. v # w /\ win'[v] = win[v]
    BY WindowBack DEF Follows
  <1>2. c \in Renames /\ c.a \in Handled(win[v])
    BY <1>1, RenameOf
  <1>3. PICK a \in Names : a = c.a /\ a \in Handled(win[v])
    BY <1>2, RenamesAre
  <1>4. Id(a)' = Id(a) /\ Clear(a) /\ a \notin Handled(win[w])
    BY <1>1, <1>3, OthersClear
  <1>5. ~Writing(w, c)
    BY <1>2, <1>3, <1>4, RenameOf, RenamesAre DEF Writing
  <1>6. Marked(a, c) => Marked(a, c)'
    <2> DEFINE m == [id |-> Id(a), by |-> c]
    <2>1. m.by = c /\ (Marked(a, c) => m \in broken) /\ (m \in broken' => Marked(a, c)')
      BY <1>4 DEF Marked
    <2> HIDE DEF m
    <2>2. win[w].cmd # c
      BY <1>2, <1>3, <1>4, RenameOf, RenamesAre
    <2> QED
      BY <1>2, <2>1, <2>2, ForgetsMarks
  <1>7. ASSUME NEW k \in Names, Id(n)' = Id(k), Clear(k)
        PROVE  Marked(a, c)'
    <2>1. [id |-> Id(k), by |-> c] \in broken' /\ Id(k) \notin Free
      BY <1>7 DEF Marked, Clear
    <2>2. Marked(k, c)
      BY <1>2, <1>5, <2>1, MarkedBack
    <2>3. Marked(a, c)
      BY <1>1, <1>3, <1>4, <1>7, <2>2 DEF Retried
    <2> QED
      BY <1>6, <2>3
  <1>8. ASSUME CreateRecord(w), win[w].cmd.a = n
        PROVE  FALSE
    <2>1. Id(n)' \notin Free'
      BY DEF Clear
    <2>2. ~Underway(n, c)'
      BY <1>2, <1>8, <2>1, UnderwayBorn
    <2> QED
      BY <2>2 DEF Underway
  <1> QED
    BY <1>3, <1>7, <1>8, ClearBack

\* What a task names after a step it has named before, or it is named by the
\* step of another command.
LEMMA CoveredStays ==
    ASSUME IInv, Flows, IdsOK, LinksRead, Tied, Covered, NEW w \in Windows, Continue(w)
    PROVE  Covered'
  <1> SUFFICES ASSUME NEW v \in Windows, NEW n \in Names, NEW c, c = win'[v].cmd,
                      Moving(v)', Clear(n)', n # c.a, Parent(n)' = c.a \/ HasKid(n, c.a)'
               PROVE  n \in win'[v].todo
    BY DEF Covered, Mentions, Parent, HasKid
  <1>1. c.op = "rename" /\ win'[v].pc \in {"own", "jsonl", "backrefs"}
    BY DEF Moving
  <1>2. /\ win[v].cmd = c
        /\ \/ v # w /\ win'[v] = win[v]
           \/ v = w /\ Follows(win[w], win'[w].pc)
    BY <1>1, WindowBack
  <1>3. PICK o \in Names : o = c.a /\ o \in Handled(win[v]) /\ o # None
    BY <1>1, <1>2, RenameOf, RenamesAre, TasksAssumption DEF TasksAssumption
  <1>4. Moving(v)
    BY <1>1, <1>2 DEF Moving, Follows
  <1>5. Id(n)' \notin Free'
    BY DEF Clear
  <1>6. ASSUME NEW k \in Names, Clear(k), k # o, Parent(k) = o \/ HasKid(k, o)
        PROVE  k \in win[v].todo
    BY <1>2, <1>3, <1>4, <1>6 DEF Covered, Mentions, Parent, HasKid
  <1>7. CASE v # w
    <2>1. CASE CreateRecord(w)
      <3>1. n # win[w].cmd.a
        BY <1>3, <2>1, BornLinks
      <3>2. active'[n] = active[n]
        BY <2>1, <3>1, BornLinks
      <3>3. Clear(n)
        BY <2>1, <3>1, ClearBack DEF CreateRecord, RenameMove, MayMove, Step
      <3> QED
        BY <1>2, <1>3, <1>6, <1>7, <3>2, <3>3, SameRecord
    <2>2. CASE RenameMove(w)
      <3>1. PICK ow \in Names, bw \in Names :
              /\ ow = win[w].cmd.a /\ bw = win[w].cmd.b /\ ow # bw /\ ow \in Handled(win[w])
              /\ active'[bw] = active[ow] /\ Id(ow)' = 0 /\ Id(bw)' = Id(ow)
              /\ \A k \in Names \ {ow, bw} : active'[k] = active[k]
        BY <2>2, Moves
      <3>2. CASE n = bw
        <4>1. Id(ow) \notin Free /\ Clear(ow)
          <5>1. Free \subseteq Free' /\ Hidden \subseteq Hidden'
            BY HistoryGrows, HiddenGrows
          <5> QED
            BY <3>1, <3>2, <5>1 DEF Clear
        <4>2. ow \notin Handled(win[v])
          BY <1>7, <3>1, <4>1, Both
        <4>3. Parent(ow) = o \/ HasKid(ow, o)
          BY <1>3, <3>1, <3>2 DEF Parent, HasKid
        <4>4. ow \in win[v].todo
          BY <1>3, <1>6, <4>1, <4>2, <4>3
        <4>5. ow \in Handled(win[v])
          BY <1>4, <4>4, IsHandled DEF Moving
        <4> QED
          BY <4>2, <4>5
      <3>3. n # ow
        BY <1>5, <3>1 DEF Free
      <3>4. CASE n # bw
        <4>1. active'[n] = active[n]
          BY <3>1, <3>3, <3>4
        <4>2. Clear(n)
          BY <2>2, <3>1, <3>4, ClearBack DEF CreateRecord, RenameMove, MayMove, Step
        <4> QED
          BY <1>2, <1>3, <1>6, <1>7, <4>1, <4>2, SameRecord
      <3> QED
        BY <3>2, <3>4
    <2>3. CASE ~CreateRecord(w) /\ ~RenameMove(w)
      <3>1. Id(n)' = Id(n) /\ Clear(n)
        BY <2>3, ClearBack
      <3>2. Id(n) \notin Free
        BY <3>1 DEF Clear
      <3>3. ParentSet(w, n) /\ ListSet(w, n, o)
        BY <1>3, <1>5, <2>3, LinkChanges
      <3>4. ASSUME o \in Handled(win[w]), n \in Handled(win[w]),
                   Links(win[w].cmd) \/ (win[w].cmd.op = "rename" /\ win[w].cmd.b = o)
            PROVE  FALSE
        BY <1>3, <1>7, <3>2, <3>4 DEF Tied
      <3>5. ASSUME Parent(n)' = o
            PROVE  Parent(n) = o
        <4>1. ASSUME WriteChild(w), Links(win[w].cmd), n \in Handled(win[w]), win[w].cmd.b = o,
                     win[w].pc = "child"
              PROVE  FALSE
          BY <1>3, <3>4, <4>1, IsHandled
        <4>2. ASSUME RenameBackref(w), n \in Handled(win[w]), win[w].cmd.b = o
              PROVE  FALSE
          BY <3>4, <4>2, WritesBackref
        <4> QED
          BY <1>3, <3>3, <3>5, <4>1, <4>2 DEF ParentSet
      <3>6. ASSUME HasKid(n, o)'
            PROVE  HasKid(n, o)
        <4>1. ASSUME RenameBackref(w), n \in Handled(win[w]), win[w].cmd.b = o
              PROVE  FALSE
          BY <3>4, <4>1, WritesBackref
        <4> QED
          BY <3>3, <3>4, <3>6, <4>1 DEF ListSet
      <3> QED
        BY <1>2, <1>3, <1>6, <1>7, <3>1, <3>5, <3>6
    <2> QED
      BY <2>1, <2>2, <2>3
  <1>8. CASE v = w
    <2>1. win[w].pc \in {"own", "jsonl", "backrefs"} /\ win[w].cmd.op = "rename"
      BY <1>1, <1>2, <1>8 DEF Follows
    <2>2. ~CreateRecord(w) /\ ~RenameMove(w)
      BY <1>1, <1>8, <2>1, PcsAre, GoTurns DEF RenameMove, CreateRecord, Step, IInv
    <2>3. Clear(n)
      BY <2>2, ClearBack
    <2>4. CASE RenameBackref(w)
      <3>1. PICK b \in Names, m \in Names :
              /\ o # b /\ win'[w].todo = win[w].todo \ {m}
              /\ \A k \in Names \ {m} : active'[k] = active[k]
              /\ \/ Id(m)' \in Free'
                 \/ /\ Parent(m)' = IF Parent(m) = o THEN b ELSE Parent(m)
                    /\ m # o => ~HasKid(m, o)'
        BY <1>2, <1>3, <1>8, <2>4, WritesBackref
      <3>2. n # m
        BY <1>3, <1>5, <3>1
      <3>3. active'[n] = active[n]
        BY <3>1, <3>2
      <3>4. n \in win[w].todo
        BY <1>3, <1>6, <1>8, <2>3, <3>3, SameRecord
      <3> QED
        BY <1>8, <3>1, <3>2, <3>4
    <2>5. CASE ~RenameBackref(w)
      <3>1. RenameOwn(w) \/ RenameManifest(w)
        BY <1>1, <1>8, <2>1, <2>2, <2>5, StepsFollow DEF ArchiveOwn
      <3>2. win'[w].todo = win[w].todo
        BY <3>1, PcsAre, GoTurns DEF RenameOwn, RenameManifest, IInv
      <3>3. SameLinks(n)
        BY <1>5, <2>1, <2>2, <2>5, QuietSteps DEF WriteParent, WriteChild, ArchiveUnlink, Step
      <3>4. n \in win[w].todo
        BY <1>3, <1>6, <1>8, <2>3, <3>3 DEF SameLinks
      <3> QED
        BY <1>8, <3>2, <3>4
    <2> QED
      BY <2>4, <2>5
  <1> QED
    BY <1>7, <1>8

-----------------------------------------------------------------------------
(* What waits for a name.                                                  *)

\* A directory goes with a create that fails, a rename or an archive.
LEMMA Empties ==
    ASSUME IInv, Flows, IdsOK, NEW w \in Windows, Continue(w), NEW p \in Names, Unused(p)'
    PROVE  \/ Unused(p)
           \/ win[w].pc = "new" /\ win[w].cmd.op = "create" /\ win[w].cmd.a = p
           \/ RenameMove(w) /\ win[w].cmd.a = p
  <1>1. active'[p] = None /\ archived'[p] = None
    BY DEF Unused
  <1>2. CASE CreateRecord(w)
    <2>1. active[p] = None /\ archived' = archived
      <3>1. p # win[w].cmd.a
        BY <1>1, <1>2, BornLinks DEF HasRecord
      <3> QED
        BY <1>1, <1>2, <3>1, Births
    <2> QED
      BY <1>1, <2>1 DEF Unused
  <1>3. CASE CreateFails(w)
    <2>1. win[w].pc = "new" /\ archived' = archived
      BY <1>3 DEF CreateFails, Step
    <2>2. \/ active' = active
          \/ win[w].cmd.op = "create" /\ active' = [active EXCEPT ![win[w].cmd.a] = None]
      BY <1>3 DEF CreateFails
    <2>3. active[p] = None \/ (win[w].cmd.op = "create" /\ win[w].cmd.a = p)
      BY <1>1, <2>2 DEF IInv, StoreOK
    <2> QED
      BY <1>1, <2>1, <2>3 DEF Unused
  <1>4. CASE HookWrite(w)
    <2>1. PICK a \in Names : a = win[w].cmd.a /\ a \in Handled(win[w]) /\ win[w].read[a] \in Task
      <3>1. WindowOK(win[w]) /\ win[w].pc = "issue"
        BY <1>4, WindowFacts DEF HookWrite, Step, IInv
      <3> QED
        BY <3>1, IsHandled, TasksAssumption DEF WindowOK, ReadA, TasksAssumption
    <2>2. archived' = archived
      BY <1>4 DEF HookWrite
    <2>3. CASE p = a
      <3>1. \/ active'[a] = IF active[a] = None THEN None ELSE Stored(a, win[w].read[a])
            \/ active'[a] = Bare
        BY <1>4, <2>1 DEF HookWrite, IInv, StoreOK
      <3>2. Stored(a, win[w].read[a]) \in Task
        BY <2>1, StoredIsTask DEF IInv
      <3>3. active[a] = None
        BY <1>1, <2>3, <3>1, <3>2, TasksAssumption DEF TasksAssumption
      <3> QED
        BY <1>1, <2>2, <2>3, <3>3 DEF Unused
    <2>4. CASE p # a
      <3>1. active'[p] = active[p]
        BY <1>4, <2>1, <2>4 DEF HookWrite, IInv, StoreOK
      <3> QED
        BY <1>1, <2>2, <3>1 DEF Unused
    <2> QED
      BY <2>3, <2>4
  <1>5. CASE RenameMove(w)
    <2>1. PICK o \in Names, b \in Names :
            /\ o = win[w].cmd.a /\ archived' = archived /\ active'[b] = active[o]
            /\ \A k \in Names \ {o, b} : active'[k] = active[k]
      BY <1>5, Moves
    <2>2. active[o] # None
      BY <1>5, <2>1 DEF RenameMove
    <2> QED
      BY <1>1, <1>5, <2>1, <2>2 DEF Unused
  <1>6. CASE ArchiveMove(w)
    <2>1. /\ active[win[w].cmd.a] # None
          /\ active' = [active EXCEPT ![win[w].cmd.a] = None]
          /\ archived' = [archived EXCEPT ![win[w].cmd.a] = active[win[w].cmd.a]]
      BY <1>6 DEF ArchiveMove
    <2> QED
      BY <1>1, <2>1 DEF Unused, IInv, StoreOK
  <1>7. CASE ~CreateRecord(w) /\ ~CreateFails(w) /\ ~HookWrite(w) /\ ~RenameMove(w) /\ ~ArchiveMove(w)
    <2>1. UNCHANGED taskVars \/ \E m, x : Rewrite(w, m, x)
      BY <1>7, Rewrites
    <2>2. CASE UNCHANGED taskVars
      BY <1>1, <2>2 DEF taskVars, Unused
    <2>3. ASSUME NEW m, NEW x, Rewrite(w, m, x)
          PROVE  Unused(p)
      <3>1. active' = [active EXCEPT ![m] = x] /\ archived' = archived /\ x \in Task /\ m \in Names
        BY <2>3 DEF Rewrite
      <3>2. active[p] = None
        BY <1>1, <3>1, TasksAssumption DEF IInv, StoreOK, TasksAssumption
      <3> QED
        BY <1>1, <3>1, <3>2 DEF Unused
    <2> QED
      BY <2>1, <2>2, <2>3
  <1> QED
    BY <1>2, <1>3, <1>4, <1>5, <1>6, <1>7

\* A name that is open was open, unless its task has just left it.
LEMMA OpenBack ==
    ASSUME IInv, Flows, IdsOK, NEW w \in Windows, Continue(w), NEW p \in Names, Open(p)'
    PROVE  Open(p) \/ (RenameMove(w) /\ win[w].cmd.a = p)
  <1>1. CASE Unused(p)'
    BY <1>1, Empties DEF Open, Expected
  <1>2. ASSUME NEW v \in Windows, Moving(v)', Clear(win[v].cmd.a)', win'[v].cmd = win[v].cmd,
               win'[v].cmd.b = p
        PROVE  Open(p)
    <2>1. win'[v].pc \in {"own", "jsonl", "backrefs"} /\ win[v].cmd.op = "rename"
      BY <1>2 DEF Moving
    <2>2. \/ v # w /\ win'[v] = win[v]
          \/ v = w /\ Follows(win[w], win'[w].pc)
      BY <2>1, WindowBack
    <2>3. Moving(v)
      BY <2>1, <2>2 DEF Moving, Follows
    <2>4. PICK a \in Names : a = win[v].cmd.a /\ a \in Handled(win[v])
      BY <2>1, RenameOf, RenamesAre
    <2>5. Clear(a)
      <3>1. CASE v # w
        BY <1>2, <2>4, <3>1, OthersClear
      <3>2. CASE v = w
        <4>1. ~CreateRecord(w) /\ ~RenameMove(w)
          BY <2>1, <2>3, <3>2, PcsAre, GoTurns DEF RenameMove, CreateRecord, Step, IInv, Moving
        <4> QED
          BY <1>2, <2>4, <4>1, ClearBack
      <3> QED
        BY <3>1, <3>2
    <2> QED
      BY <1>2, <2>3, <2>4, <2>5 DEF Open, Expected
  <1>3. ASSUME NEW v \in Windows, win'[v].pc = "new", win'[v].cmd.op = "create", win'[v].cmd.a = p
        PROVE  Open(p)
    <2>1. win'[v] = win[v]
      BY <1>3, Turns, TurnShows, IdleIs
    <2> QED
      BY <1>3, <2>1 DEF Open, Expected
  <1>4. CASE Expected(p)'
    <2>1. PICK v \in Windows :
              \/ Moving(v)' /\ Clear(win[v].cmd.a)' /\ win'[v].cmd.b = p
              \/ win'[v].pc = "new" /\ win'[v].cmd.op = "create" /\ win'[v].cmd.a = p
      BY <1>4 DEF Expected
    <2>2. Moving(v)' => win'[v].cmd = win[v].cmd
      BY WindowBack DEF Moving
    <2> QED
      BY <1>2, <1>3, <2>1, <2>2
  <1> QED
    BY <1>1, <1>4 DEF Open

\* The name a window creates or renames a task to is tied to it.
LEMMA OpenHandled ==
    ASSUME IInv, Flows, NEW p \in Names, Expected(p)
    PROVE  \E v \in Windows : p \in Handled(win[v]) /\ win[v].pc \in {"own", "jsonl", "backrefs", "new"}
  <1>1. PICK v \in Windows :
            \/ Moving(v) /\ win[v].cmd.b = p
            \/ win[v].pc = "new" /\ win[v].cmd.a = p
    BY DEF Expected
  <1>2. CASE Moving(v) /\ win[v].cmd.b = p
    BY <1>2, IsHandled, TasksAssumption DEF Moving, TasksAssumption
  <1>3. CASE win[v].pc = "new" /\ win[v].cmd.a = p
    BY <1>3, IsHandled, TasksAssumption DEF TasksAssumption
  <1> QED
    BY <1>1, <1>2, <1>3

\* What the rename that writes a task makes of it is under rename.
LEMMA BackrefUnderway ==
    ASSUME IInv, Flows, NEW w \in Windows, Continue(w), NEW c, c = win[w].cmd, c.op = "rename",
           win'[w].pc = "backrefs", win'[w].cmd = c, Handled(win[w]) \subseteq Handled(win'[w])
    PROVE  /\ c \in Renames
           /\ \A n \in Handled(win[w]) : Underway(n, c)'
  <1>1. c \in Renames
    BY RenameOf
  <1>2. Writing(w, c)'
    BY DEF Writing
  <1> QED
    BY <1>1, <1>2 DEF Underway

LEMMA AwaitedStays ==
    ASSUME IInv, Flows, IdsOK, MarksOK, LinksInv, NEW w \in Windows, Continue(w)
    PROVE  Awaited'
  <1> SUFFICES ASSUME NEW n \in Names, NEW p \in Names, n # p, Clear(n)', Parent(n)' = p, Open(p)'
               PROVE  \E c \in Renames : c.b = p /\ Underway(n, c)'
    BY DEF Awaited
  <1>1. p # None /\ Id(n)' \notin Free'
    BY TasksAssumption DEF Clear, TasksAssumption
  <1>2. Awaited /\ Tied /\ ParentThere /\ Covered /\ LinksRead
    BY DEF LinksInv
  <1>3. ASSUME Open(p), Clear(n), Id(n)' = Id(n), Parent(n) = p, ~RenameMove(w)
        PROVE  \E c \in Renames : c.b = p /\ Underway(n, c)'
    <2>1. PICK c \in Renames : c.b = p /\ Underway(n, c)
      BY <1>2, <1>3 DEF Awaited
    <2>2. Id(n) \notin Free
      BY <1>3 DEF Clear
    <2>3. ASSUME RenameSessions(w), c = win[w].cmd, win[w].pc = "sessions",
                 ~(IdsAt({c.b}) \subseteq crossed)
          PROVE  FALSE
      <3>1. HasRecord(p) /\ Id(p) \notin Free
        <4>1. HasRecord(p) /\ active[p].id \notin crossed
          BY <2>1, <2>3 DEF IdsAt
        <4>2. Id(p) \in Ids
          BY <4>1, RecordIs DEF Id, Task, IInv
        <4> QED
          BY <4>1, <4>2 DEF Id, Free, Ids
      <3>2. Expected(p)
        BY <1>3, <3>1 DEF Open, Unused, HasRecord
      <3>3. PICK v \in Windows : p \in Handled(win[v]) /\ win[v].pc \in {"own", "jsonl", "backrefs", "new"}
        BY <3>2, OpenHandled
      <3>4. p \in Handled(win[w]) /\ v # w
        BY <2>1, <2>3, <3>3, RenameOf, RenamesAre
      <3> QED
        BY <3>1, <3>3, <3>4, Both
    <2> QED
      BY <1>3, <2>1, <2>2, <2>3, UnderwayStays
  <1>4. CASE CreateRecord(w)
    <2>1. n # win[w].cmd.a
      BY <1>1, <1>4, BornLinks
    <2>2. active'[n] = active[n]
      BY <1>4, <2>1, BornLinks
    <2>3. ~RenameMove(w)
      BY <1>4 DEF CreateRecord, RenameMove, MayMove, Step
    <2>4. Clear(n)
      BY <2>1, <2>3, ClearBack
    <2> QED
      BY <1>3, <2>2, <2>3, <2>4, OpenBack, SameRecord
  <1>5. CASE RenameMove(w)
    <2>1. PICK o \in Names, b \in Names :
            /\ o = win[w].cmd.a /\ b = win[w].cmd.b /\ o # b /\ o \in Handled(win[w])
            /\ b \in Handled(win[w]) /\ win[w].pc = "backrefs" /\ win[w].cmd.op = "rename"
            /\ active'[b] = active[o] /\ Id(o)' = 0 /\ Id(b)' = Id(o)
            /\ \A k \in Names \ {o, b} : active'[k] = active[k] /\ Id(k)' = Id(k)
      BY <1>5, Moves
    <2>2. n # o
      BY <1>1, <2>1 DEF Free
    <2>3. Free \subseteq Free' /\ Hidden \subseteq Hidden'
      BY HistoryGrows, HiddenGrows
    <2>4. active[o] # None /\ win[w].todo = {} /\ Moving(w)
      BY <1>5, <2>1 DEF RenameMove, MayMove, Moving
    <2>5. CASE n = b
      <3>1. Clear(o) /\ Id(o) \notin Free /\ Parent(o) = p
        BY <1>1, <2>1, <2>3, <2>5 DEF Clear, Parent
      <3>2. p # o
        <4> SUFFICES ASSUME p = o
                     PROVE  FALSE
          OBVIOUS
        <4>1. HasRecord(o) /\ Mentions(o, o)
          BY <3>1 DEF Id, Free, Parent, Mentions
        <4> DEFINE u == [win[w].cmd EXCEPT !.op = "unlink"]
        <4>2. Mark({o}, u) \subseteq broken'
          <5>1. {m \in {o} : HasRecord(o) /\ Mentions(o, o)} = {o}
            BY <4>1
          <5> QED
            BY <1>5, <2>1, <5>1 DEF RenameMove
        <4>3. u.op = "unlink"
          BY WindowFacts DEF Command, IInv
        <4> HIDE DEF u
        <4>4. Id(o) \in IdsAt({o})
          BY <4>1 DEF IdsAt, Id
        <4>5. [id |-> Id(o), by |-> u] \in broken'
          BY <4>2, <4>4 DEF Mark
        <4>6. Id(o) \in Hidden'
          BY <4>3, <4>5 DEF Hidden
        <4> QED
          BY <2>1, <2>5, <4>6 DEF Clear
      <3>3. Open(p)
        BY <2>1, <3>2, OpenBack
      <3>4. PICK c \in Renames : c.b = p /\ Underway(o, c)
        BY <1>2, <3>1, <3>2, <3>3 DEF Awaited
      <3>5. win[w].cmd = c
        BY <2>1, <3>1, <3>4, Owner
      <3> QED
        BY <2>1, <2>5, <3>4, <3>5
    <2>6. CASE n # b
      <3>1. active'[n] = active[n] /\ Id(n)' = Id(n) /\ Parent(n) = p /\ Clear(n) /\ Id(n) \notin Free
        <4>1. active'[n] = active[n] /\ Id(n)' = Id(n)
          BY <2>1, <2>2, <2>6
        <4> QED
          BY <1>1, <2>3, <4>1 DEF Clear, Parent
      <3>2. p # o
        BY <1>2, <2>1, <2>2, <2>4, <3>1 DEF Covered, Mentions, Parent
      <3>3. Open(p)
        BY <2>1, <3>2, OpenBack
      <3>4. PICK c \in Renames : c.b = p /\ Underway(n, c)
        BY <1>2, <3>1, <3>3 DEF Awaited
      <3>5. ASSUME c = win[w].cmd, n \in Handled(win[w])
            PROVE  FALSE
        <4>1. p = b /\ ~Unused(p)'
          BY <2>1, <2>4, <3>4, <3>5 DEF Unused
        <4>2. Expected(p)'
          BY <4>1 DEF Open
        <4>3. PICK v \in Windows :
                \/ Moving(v)' /\ win'[v].cmd.b = p
                \/ win'[v].pc = "new" /\ win'[v].cmd.a = p
          BY <4>2 DEF Expected
        <4>4. win'[w].pc = "sessions"
          BY <1>5, PcsAre, GoTurns DEF RenameMove, IInv
        <4>5. v # w /\ win'[v].pc # "idle" /\ p \in Handled(win'[v])
          BY <1>1, <4>3, <4>4, IsHandled DEF Moving
        <4>6. p \in Handled(win[v])
          BY <4>5, WindowBack
        <4> QED
          BY <1>2, <2>1, <3>1, <3>5, <4>1, <4>5, <4>6 DEF Tied
      <3>6. ~RenameSessions(w)
        BY <2>1 DEF RenameSessions, Step
      <3> QED
        BY <3>1, <3>4, <3>5, <3>6, UnderwayStays
    <2> QED
      BY <2>5, <2>6
  <1>6. CASE ~CreateRecord(w) /\ ~RenameMove(w)
    <2>1. Id(n)' = Id(n) /\ Clear(n) /\ Id(n) \notin Free
      BY <1>6, ClearBack DEF Clear
    <2>2. Open(p)
      BY <1>6, OpenBack
    <2>3. ParentSet(w, n)
      BY <1>1, <1>2, <1>6, LinkChanges
    <2>4. ASSUME WriteChild(w), Links(win[w].cmd), win[w].cmd.a = n, win[w].cmd.b = p,
                 win[w].pc = "child", n \in Handled(win[w])
          PROVE  FALSE
      <3>1. HasRecord(p)
        BY <1>2, <2>1, <2>4 DEF ParentThere
      <3>2. Expected(p)
        BY <2>2, <3>1 DEF Open, Unused, HasRecord
      <3>3. PICK v \in Windows : p \in Handled(win[v]) /\ win[v].pc \in {"own", "jsonl", "backrefs", "new"}
        BY <3>2, OpenHandled
      <3>4. p \in Handled(win[w]) /\ v # w
        BY <1>1, <2>4, <3>3, IsHandled
      <3> QED
        BY <1>2, <2>1, <2>4, <3>3, <3>4 DEF Tied
    <2>5. ASSUME RenameBackref(w), n \in Handled(win[w]), win[w].cmd.b = p,
                 win'[w].pc = "backrefs", win'[w].cmd = win[w].cmd,
                 Handled(win[w]) \subseteq Handled(win'[w])
          PROVE  \E c \in Renames : c.b = p /\ Underway(n, c)'
      <3>1. PICK c : c = win[w].cmd /\ c.op = "rename"
        BY <1>2, <2>5, WritesBackref
      <3> QED
        BY <2>5, <3>1, BackrefUnderway
    <2> QED
      BY <1>1, <1>3, <1>6, <2>1, <2>2, <2>3, <2>4, <2>5 DEF ParentSet
  <1> QED
    BY <1>4, <1>5, <1>6

-----------------------------------------------------------------------------
(* A step of a command keeps the tasks in the lists of their parents.      *)

\* A rename begins to write the task and what names it.
LEMMA InheritsFirst ==
    ASSUME IInv, Flows, IdsOK, MarksOK, LinksInv, NEW w \in Windows, Continue(w),
           NEW c \in Renames, win[w].cmd = c, win[w].pc = "own",
           NEW a \in Names, a = c.a, NEW n \in Names, n # a, n # c.b,
           Clear(n), Clear(a), Parent(n) = c.b,
           Underway(n, c) \/ n \in Handled(win[w])
    PROVE  HasKid(a, n)
  <1>1. Awaited /\ Retried /\ Inherits
    BY DEF LinksInv
  <1>2. c.op = "rename" /\ c.b \in Names /\ a \in Handled(win[w])
    BY RenamesAre, RenameOf
  <1>3. Id(n) \notin Free /\ Id(a) \notin Free
    BY DEF Clear
  <1>4. Expected(c.b)
    BY <1>2 DEF Expected, Moving
  <1>5. PICK d \in Renames : d.b = c.b /\ Underway(n, d)
    BY <1>1, <1>2, <1>4 DEF Awaited, Open
  <1>6. Underway(n, c)
    <2>1. n \in Handled(win[w]) => d = c
      BY <1>3, <1>5, Owner
    <2> QED
      BY <1>5, <2>1
  <1>7. Marked(n, c)
    <2>1. ASSUME NEW v \in Windows, Writing(v, c), n \in Handled(win[v])
          PROVE  FALSE
      <3>1. v # w /\ a \in Handled(win[v])
        BY <2>1, RenameOf, RenamesAre DEF Writing
      <3> QED
        BY <1>2, <1>3, <3>1, Both
    <2> QED
      BY <1>6, <2>1 DEF Underway
  <1>8. Marked(a, c)
    BY <1>1, <1>2, <1>7 DEF Retried
  <1> QED
    BY <1>1, <1>6, <1>8 DEF Inherits, Underway

LEMMA InheritsStays ==
    ASSUME IInv, Flows, IdsOK, MarksOK, LinksInv, NEW w \in Windows, Continue(w)
    PROVE  Inherits'
  <1> SUFFICES ASSUME NEW c \in Renames, NEW n \in Names, n # c.a, n # c.b,
                      Clear(n)', Clear(c.a)', Underway(c.a, c)', Underway(n, c)', Parent(n)' = c.b
               PROVE  HasKid(c.a, n)'
    BY DEF Inherits
  <1>1. PICK a \in Names, b \in Names : a = c.a /\ b = c.b /\ c.op = "rename" /\ b # None
    BY RenamesAre, TasksAssumption DEF TasksAssumption
  <1>2. Id(n)' \notin Free' /\ Id(a)' \notin Free'
    BY <1>1 DEF Clear
  <1>3. Inherits /\ Matched /\ LinksRead
    BY DEF LinksInv
  <1>4. ASSUME Clear(n), Clear(a), Underway(a, c), Underway(n, c), Parent(n) = b
        PROVE  HasKid(a, n)
    BY <1>1, <1>3, <1>4 DEF Inherits
  <1>5. CASE CreateRecord(w)
    <2>1. n # win[w].cmd.a /\ a # win[w].cmd.a
      BY <1>1, <1>2, <1>5, UnderwayBorn
    <2>2. active'[n] = active[n] /\ active'[a] = active[a]
      BY <1>5, <2>1, BornLinks
    <2>3. win[w].pc = "new" /\ ~RenameMove(w)
      BY <1>5 DEF CreateRecord, RenameMove, MayMove, Step
    <2>4. Clear(n) /\ Clear(a) /\ Id(n) \notin Free /\ Id(a) \notin Free
      BY <1>1, <2>1, <2>3, ClearBack DEF Clear
    <2>5. Underway(n, c) /\ Underway(a, c)
      BY <1>1, <2>2, <2>3, <2>4, UnderwayBack, SameRecord
    <2> QED
      BY <1>1, <1>4, <2>2, <2>4, <2>5, SameRecord
  <1>6. CASE RenameMove(w)
    <2>1. PICK o \in Names, z \in Names :
            /\ o = win[w].cmd.a /\ z = win[w].cmd.b /\ o # z /\ o \in Handled(win[w])
            /\ win[w].pc = "backrefs" /\ Id(o)' = 0 /\ Id(z)' = Id(o)
            /\ \A k \in Names \ {o, z} : active'[k] = active[k]
      BY <1>6, Moves
    <2>2. n # o /\ a # o
      BY <1>2, <2>1 DEF Free
    <2>3. ASSUME NEW k \in {n, a}, k = z
          PROVE  FALSE
      <3>1. Free \subseteq Free'
        BY HistoryGrows
      <3>2. Id(o) \notin Free
        BY <1>2, <2>1, <2>3, <3>1
      <3>3. Underway(o, c)
        BY <1>1, <1>6, <2>1, <2>3, <3>2, UnderwayMoved
      <3>4. win[w].cmd = c
        BY <2>1, <3>2, <3>3, Owner
      <3> QED
        BY <1>1, <2>1, <2>3, <3>4
    <2>4. active'[n] = active[n] /\ active'[a] = active[a]
      BY <2>1, <2>2, <2>3
    <2>5. ~CreateRecord(w)
      BY <2>1 DEF CreateRecord, Step
    <2>6. Clear(n) /\ Clear(a) /\ Id(n) \notin Free /\ Id(a) \notin Free
      BY <1>1, <2>1, <2>3, <2>5, ClearBack DEF Clear
    <2>7. Underway(n, c) /\ Underway(a, c)
      BY <1>1, <2>1, <2>4, <2>6, UnderwayBack, SameRecord
    <2> QED
      BY <1>1, <1>4, <2>4, <2>6, <2>7, SameRecord
  <1>7. CASE ~CreateRecord(w) /\ ~RenameMove(w)
    <2>1. /\ Clear(n) /\ Clear(a) /\ Id(n) \notin Free /\ Id(a) \notin Free
          /\ Id(n)' = Id(n) /\ Id(a)' = Id(a)
      BY <1>1, <1>7, ClearBack DEF Clear
    <2>2. /\ Underway(n, c) \/ (win[w].cmd = c /\ win[w].pc = "own" /\ n \in Handled(win[w]))
          /\ Underway(a, c) \/ (win[w].cmd = c /\ win[w].pc = "own" /\ a \in Handled(win[w]))
      BY <1>1, <2>1, UnderwayBack
    <2>3. /\ ParentSet(w, n) /\ ListSet(w, a, n)
      BY <1>1, <1>2, <1>3, <1>7, LinkChanges
    <2>4. CASE win[w].cmd = c /\ win[w].pc = "own"
      <3>1. /\ ~WriteChild(w) /\ ~WriteParent(w) /\ ~RenameBackref(w)
        BY <2>4 DEF WriteChild, WriteParent, RenameBackref, Step
      <3>2. Parent(n) = b /\ (HasKid(a, n)' <=> HasKid(a, n))
        BY <1>1, <2>3, <3>1 DEF ParentSet, ListSet
      <3> QED
        BY <1>1, <2>1, <2>2, <2>4, <3>2, InheritsFirst
    <2>5. CASE ~(win[w].cmd = c /\ win[w].pc = "own")
      <3>1. Underway(n, c) /\ Underway(a, c)
        BY <2>2, <2>5
      <3>2. \A k \in {n, a} : k \in Handled(win[w]) => win[w].cmd = c
        BY <2>1, <3>1, Owner
      <3>3. ASSUME n \in Handled(win[w]), Parent(n) = a
            PROVE  HasKid(a, n)
        <4>1. \A d \in Renames : Underway(n, d) => d = c
          BY <2>1, <3>2, <3>3, Owner
        <4>2. ASSUME NEW v \in Windows, Unlinking(v, n, a)
              PROVE  FALSE
          <5>1. n \in Handled(win[v]) /\ win[v].cmd.op = "unlink"
            BY <4>2, IsHandled, TasksAssumption DEF Unlinking, TasksAssumption
          <5>2. win[v].cmd = c
            BY <2>1, <3>1, <5>1, Owner
          <5> QED
            BY <1>1, <5>1, <5>2
        <4>3. c.a # c.b
          BY <3>2, <3>3, <1>1, RenameOf
        <4>4. ASSUME NEW d \in Renames, ListedAnew(n, a, d) \/ NamesAnew(n, a, d)
              PROVE  FALSE
          <5>1. d = c
            BY <4>1, <4>4 DEF ListedAnew, NamesAnew
          <5> QED
            BY <1>1, <4>3, <4>4, <5>1 DEF ListedAnew, NamesAnew
        <4> QED
          BY <1>1, <1>3, <2>1, <3>3, <4>2, <4>4 DEF Matched
      <3>4. HasKid(a, n)
        <4>1. ASSUME WriteChild(w), Links(win[w].cmd), n \in Handled(win[w])
              PROVE  FALSE
          BY <1>1, <3>2, <4>1 DEF Links
        <4>2. ASSUME RenameBackref(w), n \in Handled(win[w]), Parent(n) = win[w].cmd.a
              PROVE  HasKid(a, n)
          BY <1>1, <3>2, <3>3, <4>2
        <4> QED
          BY <1>1, <1>4, <2>1, <2>3, <3>1, <4>1, <4>2 DEF ParentSet
      <3>5. ASSUME a \in Handled(win[w]), WriteParent(w)
            PROVE  FALSE
        <4>1. win[w].pc = "parent" /\ win[w].cmd.op = "rename"
          BY <1>1, <3>2, <3>5 DEF WriteParent, Step
        <4> QED
          BY <4>1, RenameOf
      <3>6. ASSUME a \in Handled(win[w]), RenameBackref(w), n = win[w].cmd.a
            PROVE  FALSE
        BY <1>1, <3>2, <3>6
      <3> QED
        BY <1>1, <2>3, <3>4, <3>5, <3>6 DEF ListSet
    <2> QED
      BY <2>4, <2>5
  <1> QED
    BY <1>1, <1>5, <1>6, <1>7

\* An unlink that ends before the child has hidden it.
LEMMA UnlinkHides ==
    ASSUME IInv, NEW w \in Windows, Continue(w), NEW n \in Names, NEW p \in Names,
           Unlinking(w, n, p), ~WriteChild(w), HasRecord(n)
    PROVE  Id(n) \in Hidden'
  <1>1. win[w].pc = "child" /\ win[w].cmd.op = "unlink" /\ n \in Handled(win[w])
    BY IsHandled, TasksAssumption DEF Unlinking, TasksAssumption
  <1>2. GiveUp(w)
    BY <1>1 DEF Continue, Step, MayMove, CreateRecord, CreateFails, CreateActivate, HookRead, HookWrite,
     WriteParent, WriteFails, RenameOwn, RenameManifest, RenameTorn,
     RenameBackref, RenameMove, RenameBlocked, RenameSessions, ArchiveOwn, ArchiveReadKid,
     ArchiveUnlink, ArchiveSessions, ArchiveMove, ArchiveBlocked, CommitAdd, CommitRm,
     CommitArchive, StartGate, StartPoint, ReadOwn, StartFlip, FinishClear, FieldWrite, Stop
  <1>3. Mark(Handled(win[w]), win[w].cmd) \subseteq broken'
    BY <1>1, <1>2 DEF GiveUp, Halfway
  <1>4. Id(n) \in IdsAt(Handled(win[w]))
    BY <1>1 DEF Id, IdsAt
  <1>5. [id |-> Id(n), by |-> win[w].cmd] \in broken'
    BY <1>3, <1>4 DEF Mark
  <1> QED
    BY <1>1, <1>5 DEF Hidden

\* A window at another task is not disturbed in what it takes from its parent.
LEMMA UnlinkingStays ==
    ASSUME IInv, NEW w \in Windows, Continue(w), NEW v \in Windows \ {w}, NEW n, NEW p, Unlinking(v, n, p)
    PROVE  Unlinking(v, n, p)'
  <1>1. win'[v] = win[v]
    BY Turns DEF Turn, Alone
  <1> QED
    BY <1>1 DEF Unlinking

\* A rename that changes the name of a task in the list of its parent goes on
\* with the task; one that changes the parent's name goes on with the parent.
LEMMA AnewStays ==
    ASSUME IInv, Flows, IdsOK, MarksOK, NEW w \in Windows, Continue(w), ~RenameMove(w),
           NEW n \in Names, NEW p \in Names, Id(n)' = Id(n), Id(p)' = Id(p),
           Id(n) \notin Free, Id(p) \notin Free, NEW c \in Renames
    PROVE  /\ ListedAnew(n, p, c) /\ HasKid(p, c.b)' => ListedAnew(n, p, c)'
           /\ NamesAnew(n, p, c) => NamesAnew(n, p, c)'
  <1>1. ASSUME ListedAnew(n, p, c), HasKid(p, c.b)'
        PROVE  ListedAnew(n, p, c)'
    <2>1. c.a = n /\ c.b # p /\ Underway(n, c) /\ Underway(p, c)
      BY <1>1 DEF ListedAnew
    <2>2. ~(win[w].pc = "sessions" /\ win[w].cmd = c)
      BY <2>1 DEF MarksOK, Gone
    <2>3. Underway(n, c)' /\ Underway(p, c)'
      BY <2>1, <2>2, UnderwayStays
    <2> QED
      BY <1>1, <2>1, <2>3 DEF ListedAnew
  <1>2. ASSUME NamesAnew(n, p, c)
        PROVE  NamesAnew(n, p, c)'
    <2>1. /\ c.b = p /\ Underway(n, c)
          /\ \A v \in Windows : ~(win[v].pc = "sessions" /\ win[v].cmd = c)
      BY <1>2 DEF NamesAnew
    <2>2. Underway(n, c)'
      BY <2>1, UnderwayStays
    <2>3. ASSUME NEW v \in Windows, win'[v].pc = "sessions", win'[v].cmd = c
          PROVE  FALSE
      <3>1. v # w
        BY <2>3, EntersSessions
      <3>2. win'[v] = win[v]
        BY <3>1, Turns DEF Turn, Alone
      <3> QED
        BY <2>1, <2>3, <3>2
    <2> QED
      BY <2>1, <2>2, <2>3 DEF NamesAnew
  <1> QED
    BY <1>1, <1>2

\* What is in the list of its parent stays there, or a command takes it out.
LEMMA ListedStays ==
    ASSUME IInv, Flows, IdsOK, MarksOK, LinksInv, NEW w \in Windows, Continue(w),
           ~CreateRecord(w), ~RenameMove(w), NEW n \in Names, NEW p \in Names, n # p,
           Clear(n)', Clear(p)', Parent(n)' = p, Parent(n) = p
    PROVE  \/ HasKid(p, n)'
           \/ \E v \in Windows : Unlinking(v, n, p)'
           \/ \E c \in Renames : ListedAnew(n, p, c)' \/ NamesAnew(n, p, c)'
  <1>1. /\ Id(n)' = Id(n) /\ Id(p)' = Id(p) /\ Clear(n) /\ Clear(p)
        /\ Id(n) \notin Free /\ Id(p) \notin Free
    BY ClearBack DEF Clear
  <1>2. Id(n)' \notin Free' /\ Id(p)' \notin Free' /\ LinksRead /\ Matched /\ HasRecord(n)
    BY <1>1 DEF Clear, LinksInv, Id, Free
  <1>3. CASE HasKid(p, n)
    <2>1. ListSet(w, p, n)
      BY <1>2, LinkChanges
    <2>2. ASSUME win[w].cmd.b = p, win[w].cmd.a = n, win'[w].cmd = win[w].cmd,
                 win[w].cmd.op = "unlink", win'[w].pc = "child"
          PROVE  Unlinking(w, n, p)'
      BY <2>2 DEF Unlinking
    <2>3. ASSUME RenameBackref(w), p \in Handled(win[w]), win[w].cmd.op = "rename", win[w].cmd.b # p,
                 win'[w].pc = "backrefs", win'[w].cmd = win[w].cmd,
                 Handled(win[w]) \subseteq Handled(win'[w]),
                 n = win[w].cmd.a, HasKid(p, win[w].cmd.b)'
          PROVE  \E c \in Renames : ListedAnew(n, p, c)'
      <3>1. PICK c \in Renames, b \in Names : c = win[w].cmd /\ b = c.b /\ c.a \in Handled(win[w])
        BY <2>3, RenameOf, RenamesAre
      <3>2. \A k \in Handled(win[w]) : Underway(k, c)'
        BY <2>3, <3>1, BackrefUnderway
      <3>3. HasKid(p, b)'
        BY <2>3, <3>1
      <3> QED
        BY <2>3, <3>1, <3>2, <3>3 DEF ListedAnew
    <2> QED
      BY <1>3, <2>1, <2>2, <2>3 DEF ListSet
  <1>4. CASE \E v \in Windows : Unlinking(v, n, p)
    <2>1. PICK v \in Windows : Unlinking(v, n, p)
      BY <1>4
    <2>2. CASE v # w
      BY <2>1, <2>2, UnlinkingStays
    <2>3. CASE v = w
      <3>1. ~WriteChild(w)
        <4> SUFFICES ASSUME WriteChild(w)
                     PROVE  FALSE
          OBVIOUS
        <4>1. ~Links(win[w].cmd) /\ win[w].cmd.a = n
          BY <2>1, <2>3 DEF Unlinking, Links
        <4>2. Parent(n)' = None
          BY <1>2, <4>1, WritesChild
        <4> QED
          BY <4>2, TasksAssumption DEF TasksAssumption
      <3>2. Id(n) \in Hidden'
        BY <1>2, <2>1, <2>3, <3>1, UnlinkHides
      <3> QED
        BY <1>1, <3>2 DEF Clear
    <2> QED
      BY <2>2, <2>3
  <1>5. ASSUME NEW c \in Renames, ListedAnew(n, p, c)
        PROVE  ListedAnew(n, p, c)'
    <2>1. PICK b \in Names : b = c.b /\ b # p /\ c.a = n /\ c.op = "rename"
      BY <1>5, RenamesAre DEF ListedAnew
    <2>2. HasKid(p, b) /\ Underway(p, c)
      BY <1>5, <2>1 DEF ListedAnew
    <2>3. ListSet(w, p, b)
      BY <1>2, <2>1, LinkChanges
    <2>4. p \in Handled(win[w]) => win[w].cmd = c
      BY <1>1, <2>2, Owner
    <2>5. ASSUME p \in Handled(win[w]), WriteParent(w)
          PROVE  FALSE
      <3>1. win[w].pc = "parent" /\ win[w].cmd.op = "rename"
        BY <2>1, <2>4, <2>5 DEF WriteParent, Step
      <3> QED
        BY <3>1, RenameOf
    <2>6. ASSUME p \in Handled(win[w]), RenameBackref(w), b = win[w].cmd.a
          PROVE  FALSE
      BY <2>1, <2>4, <2>6, RenameOf
    <2>7. HasKid(p, b)'
      BY <2>2, <2>3, <2>5, <2>6 DEF ListSet
    <2> QED
      BY <1>1, <1>5, <2>1, <2>7, AnewStays
  <1>6. ASSUME NEW c \in Renames, NamesAnew(n, p, c)
        PROVE  NamesAnew(n, p, c)'
    BY <1>1, <1>6, AnewStays
  <1> QED
    BY <1>1, <1>2, <1>3, <1>4, <1>5, <1>6 DEF Matched

\* A task is written as the child of a parent that lists it.
LEMMA NewlyListed ==
    ASSUME IInv, Flows, IdsOK, MarksOK, LinksInv, NEW w \in Windows, Continue(w),
           ~CreateRecord(w), ~RenameMove(w), NEW n \in Names, NEW p \in Names, n # p,
           Clear(n)', Clear(p)', Parent(n)' = p, Parent(n) # p
    PROVE  \/ HasKid(p, n)'
           \/ \E c \in Renames : NamesAnew(n, p, c)'
  <1>1. /\ Clear(n) /\ Clear(p) /\ Id(n) \notin Free
        /\ Id(n)' \notin Free' /\ Id(p)' \notin Free'
    BY ClearBack DEF Clear
  <1>2. LinksRead /\ ParentFirst /\ Tied /\ p # None
    BY TasksAssumption DEF LinksInv, TasksAssumption
  <1>3. ParentSet(w, n) /\ ListSet(w, p, n)
    BY <1>1, <1>2, LinkChanges
  <1>4. CASE WriteChild(w) /\ Links(win[w].cmd) /\ win[w].cmd.a = n /\ win[w].cmd.b = p
              /\ win[w].pc = "child"
    <2>1. HasKid(p, n)
      BY <1>1, <1>2, <1>4 DEF ParentFirst
    <2>2. ~WriteParent(w) /\ ~RenameBackref(w)
      BY <1>4 DEF WriteParent, RenameBackref, Step
    <2> QED
      BY <1>3, <2>1, <2>2 DEF ListSet
  <1>5. CASE /\ RenameBackref(w) /\ n \in Handled(win[w]) /\ win[w].cmd.b = p
             /\ win'[w].pc = "backrefs" /\ win'[w].cmd = win[w].cmd
             /\ Handled(win[w]) \subseteq Handled(win'[w])
    <2>1. PICK c : c = win[w].cmd /\ c.op = "rename"
      BY <1>2, <1>5, WritesBackref
    <2>2. c \in Renames /\ Underway(n, c)'
      BY <1>5, <2>1, BackrefUnderway
    <2>3. p \in Handled(win[w])
      BY <1>5, <2>1, RenameOf
    <2>4. ASSUME NEW v \in Windows, win'[v].pc = "sessions", win'[v].cmd = c
          PROVE  FALSE
      <3>1. v # w
        BY <1>5, <2>4
      <3>2. win'[v] = win[v]
        BY <3>1, Turns DEF Turn, Alone
      <3>3. p \in Handled(win[v])
        BY <1>5, <2>1, <2>4, <3>2, RenameOf
      <3> QED
        BY <1>1, <1>2, <1>5, <2>1, <2>3, <3>1, <3>3 DEF Tied
    <2>5. NamesAnew(n, p, c)'
      BY <1>5, <2>1, <2>2, <2>4 DEF NamesAnew
    <2> QED
      BY <2>2, <2>5
  <1> QED
    BY <1>2, <1>3, <1>4, <1>5 DEF ParentSet

\* A move takes the list of the task with it, and those who name it.
LEMMA MatchedMoved ==
    ASSUME IInv, Flows, IdsOK, MarksOK, LinksInv, NEW w \in Windows, Continue(w), RenameMove(w),
           NEW n \in Names, NEW p \in Names, n # p, Clear(n)', Clear(p)', Parent(n)' = p
    PROVE  \/ HasKid(p, n)'
           \/ \E v \in Windows : Unlinking(v, n, p)'
           \/ \E c \in Renames : ListedAnew(n, p, c)' \/ NamesAnew(n, p, c)'
  <1>1. PICK o \in Names, b \in Names :
          /\ o = win[w].cmd.a /\ b = win[w].cmd.b /\ o # b /\ o \in Handled(win[w])
          /\ b \in Handled(win[w]) /\ win[w].pc = "backrefs" /\ win[w].cmd.op = "rename"
          /\ active'[b] = active[o] /\ Id(o)' = 0 /\ Id(b)' = Id(o)
          /\ \A k \in Names \ {o, b} : active'[k] = active[k] /\ Id(k)' = Id(k)
    BY Moves
  <1>2. /\ Free \subseteq Free' /\ Hidden \subseteq Hidden'
        /\ Id(n)' \notin Free' /\ Id(p)' \notin Free' /\ n # o /\ p # o
    BY <1>1, HistoryGrows, HiddenGrows DEF Clear, Free
  <1>3. win[w].todo = {} /\ Moving(w) /\ win[w].cmd \in Renames
    BY <1>1, RenameOf DEF RenameMove, MayMove, Moving
  <1>4. Awaited /\ Inherits /\ Matched /\ Covered
    BY DEF LinksInv
  <1>5. win'[w].pc = "sessions" /\ win'[w].cmd = win[w].cmd
    BY PcsAre, GoTurns DEF RenameMove, IInv
  <1>6. \A v \in Windows \ {w} : win'[v] = win[v]
    BY Turns DEF Turn, Alone
  <1>7. ~RenameSessions(w)
    BY <1>1 DEF RenameSessions, Step
  <1>8. \A k \in Names \ {o, b} : Clear(k)' =>
           Clear(k) /\ Id(k) \notin Free /\ active'[k] = active[k] /\ Id(k)' = Id(k)
    BY <1>1, <1>2 DEF Clear
  <1>9. Clear(b)' => Clear(o) /\ Id(o) \notin Free
    BY <1>1, <1>2 DEF Clear
  <1>10. CASE p = b
    <2>1. Clear(n) /\ Id(n) \notin Free /\ Parent(n) = b /\ Id(n)' = Id(n) /\ Clear(o) /\ Id(o) \notin Free
      BY <1>2, <1>8, <1>9, <1>10 DEF Parent
    <2>2. Open(b)
      BY <1>1, <1>3, <2>1 DEF Open, Expected
    <2>3. PICK c \in Renames : c.b = b /\ Underway(n, c)
      BY <1>4, <1>10, <2>1, <2>2 DEF Awaited
    <2>4. CASE c = win[w].cmd
      <3>1. Underway(o, c)
        BY <1>1, <2>4 DEF Underway, Writing
      <3>2. HasKid(o, n)
        BY <1>1, <1>2, <1>4, <1>10, <2>1, <2>3, <2>4, <3>1 DEF Inherits
      <3> QED
        BY <1>1, <1>10, <3>2 DEF HasKid
    <2>5. CASE c # win[w].cmd
      <3>1. Underway(n, c)'
        BY <1>7, <2>1, <2>3, <2>5, UnderwayStays
      <3>2. ASSUME NEW v \in Windows, win'[v].pc = "sessions", win'[v].cmd = c
            PROVE  FALSE
        <4>1. v # w /\ win'[v] = win[v]
          BY <1>5, <1>6, <2>5, <3>2
        <4>2. b \in Handled(win[v])
          BY <2>3, <3>2, <4>1, RenameOf, RenamesAre
        <4> QED
          BY <1>1, <2>1, <4>1, <4>2, Both
      <3>3. NamesAnew(n, p, c)'
        BY <1>10, <2>3, <3>1, <3>2 DEF NamesAnew
      <3> QED
        BY <3>3
    <2> QED
      BY <2>4, <2>5
  <1>11. CASE n = b
    <2>1. /\ Clear(o) /\ Id(o) \notin Free /\ Parent(o) = p /\ Clear(p) /\ p # b
          /\ active'[p] = active[p]
      BY <1>1, <1>2, <1>8, <1>9, <1>11 DEF Parent
    <2>2. ~HasKid(p, o)
      BY <1>1, <1>2, <1>3, <1>4, <2>1 DEF Covered, Mentions, HasKid
    <2>3. ASSUME NEW v \in Windows, Unlinking(v, o, p)
          PROVE  FALSE
      <3>1. o \in Handled(win[v]) /\ v # w
        BY <1>1, <2>3, IsHandled, TasksAssumption DEF Unlinking, TasksAssumption
      <3> QED
        BY <1>1, <2>1, <3>1, Both
    <2>4. PICK c \in Renames : ListedAnew(o, p, c) \/ NamesAnew(o, p, c)
      BY <1>2, <1>4, <2>1, <2>2, <2>3 DEF Matched
    <2>5. win[w].cmd = c
      <3>1. Underway(o, c)
        BY <2>4 DEF ListedAnew, NamesAnew
      <3> QED
        BY <1>1, <2>1, <3>1, Owner
    <2>6. HasKid(p, b)
      BY <1>1, <2>1, <2>4, <2>5 DEF ListedAnew, NamesAnew
    <2> QED
      BY <1>11, <2>1, <2>6 DEF HasKid
  <1>12. CASE n # b /\ p # b
    <2>1. /\ Clear(n) /\ Id(n) \notin Free /\ active'[n] = active[n] /\ Id(n)' = Id(n)
          /\ Clear(p) /\ Id(p) \notin Free /\ active'[p] = active[p] /\ Id(p)' = Id(p)
      BY <1>2, <1>8, <1>12
    <2>2. Parent(n) = p /\ \A x : HasKid(p, x)' <=> HasKid(p, x)
      BY <2>1 DEF Parent, HasKid
    <2>3. ASSUME NEW v \in Windows, Unlinking(v, n, p)
          PROVE  Unlinking(v, n, p)'
      BY <1>1, <2>3, UnlinkingStays DEF Unlinking
    <2>4. ASSUME NEW c \in Renames, ListedAnew(n, p, c)
          PROVE  ListedAnew(n, p, c)'
      <3>1. PICK d \in Names : d = c.b /\ HasKid(p, d) /\ d # p
        BY <2>4, RenamesAre DEF ListedAnew
      <3>2. c.a = n /\ Underway(n, c) /\ Underway(p, c)
        BY <2>4 DEF ListedAnew
      <3>3. c # win[w].cmd
        BY <1>1, <1>2, <3>2
      <3>4. Underway(n, c)' /\ Underway(p, c)'
        BY <1>7, <2>1, <3>2, <3>3, UnderwayStays
      <3>5. HasKid(p, d)'
        BY <2>2, <3>1
      <3> QED
        BY <3>1, <3>2, <3>4, <3>5 DEF ListedAnew
    <2>5. ASSUME NEW c \in Renames, NamesAnew(n, p, c)
          PROVE  NamesAnew(n, p, c)'
      <3>1. /\ c.b = p /\ Underway(n, c)
            /\ \A v \in Windows : ~(win[v].pc = "sessions" /\ win[v].cmd = c)
        BY <2>5 DEF NamesAnew
      <3>2. c # win[w].cmd
        BY <1>1, <1>12, <3>1
      <3>3. Underway(n, c)'
        BY <1>7, <2>1, <3>1, <3>2, UnderwayStays
      <3>4. \A v \in Windows : ~(win'[v].pc = "sessions" /\ win'[v].cmd = c)
        BY <1>5, <1>6, <3>1, <3>2
      <3> QED
        BY <3>1, <3>3, <3>4 DEF NamesAnew
    <2> QED
      BY <1>4, <2>1, <2>2, <2>3, <2>4, <2>5 DEF Matched
  <1> QED
    BY <1>10, <1>11, <1>12

\* A task that is created is named by those only who wait for its name.
LEMMA MatchedBorn ==
    ASSUME IInv, Flows, IdsOK, MarksOK, LinksInv, NEW w \in Windows, Continue(w), CreateRecord(w),
           NEW n \in Names, NEW p \in Names, n # p, Clear(n)', Clear(p)', Parent(n)' = p
    PROVE  \/ HasKid(p, n)'
           \/ \E v \in Windows : Unlinking(v, n, p)'
           \/ \E c \in Renames : ListedAnew(n, p, c)' \/ NamesAnew(n, p, c)'
  <1>1. PICK a \in Names : a = win[w].cmd.a /\ a \in Handled(win[w]) /\ win[w].pc = "new"
    BY Births
  <1>2. p # None /\ Id(p)' \notin Free'
    BY TasksAssumption DEF Clear, TasksAssumption
  <1>3. n # a
    BY <1>1, <1>2, BornLinks
  <1>4. ~RenameMove(w) /\ ~RenameSessions(w)
    BY <1>1 DEF RenameMove, MayMove, RenameSessions, Step
  <1>5. /\ active'[n] = active[n] /\ Clear(n) /\ Id(n) \notin Free /\ Id(n)' = Id(n)
        /\ Parent(n) = p /\ HasRecord(n)
    <2>1. active'[n] = active[n] /\ Clear(n)
      BY <1>1, <1>3, <1>4, BornLinks, ClearBack
    <2> QED
      BY <2>1, SameRecord DEF Clear, Free, Id
  <1>6. Matched /\ Awaited
    BY DEF LinksInv
  <1>7. CASE p # a
    <2>1. active'[p] = active[p] /\ Clear(p)
      BY <1>1, <1>4, <1>7, BornLinks, ClearBack
    <2>2. Id(p) \notin Free /\ Id(p)' = Id(p) /\ \A x : HasKid(p, x)' <=> HasKid(p, x)
      BY <2>1, SameRecord DEF Clear
    <2>3. ASSUME NEW v \in Windows, Unlinking(v, n, p)
          PROVE  Unlinking(v, n, p)'
      BY <1>1, <2>3, UnlinkingStays DEF Unlinking
    <2>4. ASSUME NEW c \in Renames
          PROVE  /\ ListedAnew(n, p, c) => ListedAnew(n, p, c)'
                 /\ NamesAnew(n, p, c) => NamesAnew(n, p, c)'
      <3>1. PICK d \in Names : d = c.b
        BY RenamesAre
      <3>2. HasKid(p, d)' <=> HasKid(p, d)
        BY <2>2
      <3>3. ListedAnew(n, p, c) => HasKid(p, c.b)'
        BY <3>1, <3>2 DEF ListedAnew
      <3> QED
        BY <1>4, <1>5, <2>2, <3>3, AnewStays
    <2> QED
      BY <1>5, <1>6, <2>1, <2>2, <2>3, <2>4 DEF Matched
  <1>8. CASE p = a
    <2>1. CASE win[w].cmd.op = "force"
      <3>1. Mentions(n, a)
        BY <1>5, <1>8 DEF Mentions, Parent
      <3>2. PICK N : n \in N /\ Mark(N, win[w].cmd) \subseteq broken'
        <4> DEFINE c == win[w].cmd
                   over == HasRecord(c.a) \/ c.op = "force"
                   N == {m \in Records : (over /\ Mentions(m, c.a)) \/ (HasRecord(c.a) /\ Mentions(c.a, m))}
        <4>1. n \in N
          BY <1>1, <1>5, <2>1, <3>1 DEF Records
        <4>2. Mark(N, c) \subseteq broken'
          BY <2>1 DEF CreateRecord
        <4> HIDE DEF N
        <4> QED
          BY <4>1, <4>2
      <3>3. Id(n) \in IdsAt(N)
        BY <1>5, <3>2 DEF IdsAt, Id
      <3>4. [id |-> Id(n), by |-> win[w].cmd] \in broken'
        BY <3>2, <3>3 DEF Mark
      <3>5. Id(n) \in Hidden'
        BY <2>1, <3>4 DEF Hidden
      <3> QED
        BY <1>5, <3>5 DEF Clear
    <2>2. CASE win[w].cmd.op = "create"
      <3>1. Open(a)
        BY <1>1, <2>2 DEF Open, Expected
      <3>2. PICK c \in Renames : c.b = a /\ Underway(n, c)
        BY <1>5, <1>6, <1>8, <3>1 DEF Awaited
      <3>3. Underway(n, c)'
        BY <1>4, <1>5, <3>2, UnderwayStays
      <3>4. ASSUME NEW v \in Windows, win'[v].pc = "sessions", win'[v].cmd = c
            PROVE  FALSE
        <4>1. v # w
          BY <1>4, <3>4, EntersSessions
        <4>2. win'[v] = win[v]
          BY <4>1, Turns DEF Turn, Alone
        <4>3. a \in Handled(win[v])
          BY <3>2, <3>4, <4>2, RenameOf, RenamesAre
        <4>4. Cardinality(made) + 1 \in Free'
          BY <1>1, <4>1, <4>3, BornCrossed
        <4>5. Id(a)' = Cardinality(made) + 1
          BY <1>1, Births
        <4> QED
          BY <1>2, <1>8, <4>4, <4>5
      <3> QED
        BY <1>8, <3>2, <3>3, <3>4 DEF NamesAnew
    <2> QED
      BY <1>1, <2>1, <2>2 DEF Flows, Flow
  <1> QED
    BY <1>7, <1>8

LEMMA MatchedStays ==
    ASSUME IInv, Flows, IdsOK, MarksOK, LinksInv, NEW w \in Windows, Continue(w)
    PROVE  Matched'
  <1> SUFFICES ASSUME NEW n \in Names, NEW p \in Names, n # p, Clear(n)', Clear(p)', Parent(n)' = p
               PROVE  \/ HasKid(p, n)'
                      \/ \E v \in Windows : Unlinking(v, n, p)'
                      \/ \E c \in Renames : ListedAnew(n, p, c)' \/ NamesAnew(n, p, c)'
    BY DEF Matched
  <1>1. CASE CreateRecord(w)
    BY <1>1, MatchedBorn
  <1>2. CASE RenameMove(w)
    BY <1>2, MatchedMoved
  <1>3. CASE ~CreateRecord(w) /\ ~RenameMove(w)
    BY <1>3, ListedStays, NewlyListed
  <1> QED
    BY <1>1, <1>2, <1>3

LEMMA LinksGoOn ==
    ASSUME IInv, IInv', Flows, IdsOK, MarksOK, LinksInv, NEW w \in Windows, Continue(w)
    PROVE  LinksInv'
  <1>1. Tied /\ Begun /\ LinksRead /\ Retried /\ Covered /\ ParentFirst /\ ParentThere
    BY DEF LinksInv
  <1> QED
    BY <1>1, TiedStays, BegunStays, LinksReadStays, MatchedStays, InheritsStays, RetriedStays,
       AwaitedStays, CoveredStays, ParentFirstStays, ParentThereStays DEF LinksInv

-----------------------------------------------------------------------------
(* A command is called.                                                    *)

\* What a command that is called finds, and what it is going to handle.
Joined(w) ==
    /\ \A n \in Names : active'[n] = None => active[n] = None
    /\ win'[w].pc = "new" =>
          /\ Handled(win'[w]) \subseteq {win'[w].cmd.a, win'[w].cmd.b}
          /\ \A n \in Names : win'[w].cmd.op = "create" /\ win'[w].cmd.a = n => Unused(n)
    /\ win'[w].cmd.op = "rename" =>
          /\ \A n \in Names : win'[w].cmd.b = n => Unused(n)
          /\ \A n \in Names : HasRecord(n) /\ n # win'[w].cmd.a /\ Mentions(n, win'[w].cmd.a)
                                 => n \in win'[w].todo

LEMMA CallJoins ==
    ASSUME IInv, NEW w \in Windows, NEW c \in Menu[w],
           CreateDir(w, c) \/ LinkRead(w, c) \/ RenamePlan(w, c) \/ ArchiveRead(w, c)
               \/ StartCalled(w, c) \/ FinishCalled(w, c) \/ FieldRead(w, c)
    PROVE  Joined(w)
  <1>1. ASSUME NEW pc, NEW read, NEW todo, Enter(w, At(pc, c, read, todo))
        PROVE  /\ win'[w].pc = pc /\ win'[w].cmd = c /\ win'[w].read = read /\ win'[w].todo = todo
    <2>1. win' = [win EXCEPT ![w] = At(pc, c, read, todo)]
      BY <1>1 DEF Enter
    <2>2. win'[w] = At(pc, c, read, todo)
      BY <2>1, WindowFacts DEF IInv
    <2> QED
      BY <2>2 DEF At
  <1>2. CASE CreateDir(w, c)
    <2>1. /\ c.op \in {"create", "force"} /\ Enter(w, At("new", c, ReadNow({c.b}), {}))
          /\ archived[c.a] = None /\ ((active[c.a] # None) <=> (c.op = "force"))
          /\ active' = IF HasRecord(c.a) THEN active ELSE [active EXCEPT ![c.a] = Bare]
      BY <1>2 DEF CreateDir, MayCreate
    <2>2. /\ win'[w].pc = "new" /\ win'[w].cmd = c /\ win'[w].read = ReadNow({c.b})
          /\ win'[w].todo = {}
      BY <1>1, <2>1
    <2>3. \A n \in Names : win'[w].read[n] # None => n = c.b
      BY <2>2 DEF ReadNow
    <2>4. Handled(win'[w]) \subseteq {c.a, c.b}
      BY <2>2, <2>3 DEF Handled
    <2>5. \A n \in Names : active'[n] = None => active[n] = None
      BY <2>1, TasksAssumption DEF IInv, StoreOK, TasksAssumption
    <2>6. c.op = "create" => Unused(c.a)
      BY <2>1 DEF Unused
    <2> QED
      BY <2>1, <2>2, <2>4, <2>5, <2>6 DEF Joined
  <1>3. CASE LinkRead(w, c) \/ FieldRead(w, c) \/ StartCalled(w, c) \/ FinishCalled(w, c)
    <2>1. /\ win'[w].cmd.op # "rename" /\ win'[w].pc # "new" /\ active' = active
      BY <1>1, <1>3 DEF LinkRead, FieldRead, StartCalled, FinishCalled, taskVars
    <2> QED
      BY <2>1 DEF Joined
  <1>4. CASE RenamePlan(w, c)
    <2>1. /\ win'[w].pc = "own" /\ win'[w].cmd = c /\ win'[w].todo = Backrefs(c.a)
          /\ active' = active /\ Unused(c.b)
      BY <1>1, <1>4 DEF RenamePlan, MayRename, taskVars
    <2> QED
      BY <2>1 DEF Joined, Backrefs, Records
  <1>5. CASE ArchiveRead(w, c)
    <2>1. \/ Enter(w, At("own", c, ReadNow({c.a}), active[c.a].kids))
          \/ Enter(w, At("kids", c, NothingRead, {}))
      BY <1>5 DEF ArchiveRead
    <2>2. c.op # "rename" /\ active' = active
      BY <1>5 DEF ArchiveRead, taskVars
    <2>3. win'[w].cmd.op # "rename" /\ win'[w].pc # "new"
      BY <1>1, <2>1, <2>2
    <2> QED
      BY <2>2, <2>3 DEF Joined
  <1> QED
    BY <1>2, <1>3, <1>4, <1>5

LEMMA SharesAll ==
    ASSUME NEW q, NEW r, NEW n \in Handled(q) \cap Handled(r), NEW p \in {q, r},
           Links(p.cmd) \/ (p.cmd.op = "rename" /\ p.cmd.b = n)
    PROVE  Handled(p) \subseteq Shared(q, r)
  BY DEF Shared

LEMMA ClearRecord ==
    ASSUME NEW n, Clear(n)
    PROVE  n \in Names /\ HasRecord(n) /\ Id(n) \notin Free
  BY DEF Clear, Free, Id, HasRecord

LEMMA LinksEnter ==
    ASSUME IInv, IInv', Flows, IdsOK, MarksOK, LinksInv, NEW w \in Windows, win[w].pc = "idle",
           Entered(w, win'[w]), Opened(w), Joined(w)
    PROVE  LinksInv'
  <1> DEFINE q == win'[w]
  <1>1. /\ \A v \in Windows \ {w} : win'[v] = win[v]
        /\ broken' = broken /\ archived' = archived /\ Hidden' = Hidden
        /\ q.pc \in {"new", "parent", "own", "kids", "gate", "clear", "field"}
    BY DEF Opened, Alone, Hidden
  <1>2. Free \subseteq Free' /\ \A n \in Names : Id(n)' = Id(n)
    BY DEF Entered, Free
  <1>3. \A n \in Names : HasRecord(n) =>
            /\ active'[n] = active[n] /\ HasRecord(n)' /\ Parent(n)' = Parent(n)
            /\ \A x : HasKid(n, x)' <=> HasKid(n, x)
    BY DEF Opened, HasRecord, Parent, HasKid
  <1>4. \A n \in Names : Clear(n)' => /\ Clear(n) /\ HasRecord(n) /\ Id(n) \notin Free
    <2> SUFFICES ASSUME NEW n \in Names, Clear(n)'
                 PROVE  Clear(n) /\ HasRecord(n) /\ Id(n) \notin Free
      OBVIOUS
    <2>1. Clear(n)
      BY <1>1, <1>2 DEF Clear
    <2> QED
      BY <2>1, ClearRecord
  <1>5. \A n \in Names, c \in Renames : /\ Marked(n, c)' <=> Marked(n, c)
                                        /\ Underway(n, c)' <=> Underway(n, c)
    <2> SUFFICES ASSUME NEW n \in Names, NEW c \in Renames
                 PROVE  /\ Marked(n, c)' <=> Marked(n, c)
                        /\ Underway(n, c)' <=> Underway(n, c)
      OBVIOUS
    <2>1. Marked(n, c)' <=> Marked(n, c)
      BY <1>1, <1>2 DEF Marked
    <2>2. \A v \in Windows : (Writing(v, c) /\ n \in Handled(win[v]))' <=> (Writing(v, c) /\ n \in Handled(win[v]))
      BY <1>1 DEF Writing
    <2> QED
      BY <2>1, <2>2 DEF Underway
  <1> USE DEF LinksInv
  <1>6. Tied'
    <2> SUFFICES ASSUME NEW u \in Windows, NEW v \in Windows, NEW n,
                        n \in Handled(win'[u]), n \in Handled(win'[v]), u # v,
                        Links(win'[u].cmd) \/ (win'[u].cmd.op = "rename" /\ win'[u].cmd.b = n),
                        NEW x \in Handled(win'[u])
                 PROVE  Id(x)' \in Free'
      BY DEF Tied
    <2>0. x \in Names
      <3>1. win'[u] \in Window
        BY DEF IInv, WindowsOK
      <3> QED
        BY <3>1 DEF Window, Command, Handled
    <2>1. CASE u # w /\ v # w
      BY <1>1, <1>2, <2>0, <2>1 DEF Tied
    <2>2. CASE u = w \/ v = w
      <3>1. PICK z \in Windows \ {w} : z = u \/ z = v
        BY <2>2
      <3>2. win'[z] = win[z] /\ win'[u] \in {q, win[z]} /\ n \in Handled(q) \cap Handled(win[z])
        BY <1>1, <2>2, <3>1
      <3>3. Handled(win'[u]) \subseteq Shared(q, win[z])
        BY <3>2, SharesAll
      <3>4. x \in UNION {Shared(q, win[y]) : y \in Windows \ {w}}
        BY <3>3
      <3>5. CASE HasRecord(x)
        <4>1. Id(x) \in crossed'
          BY <2>0, <3>4, <3>5 DEF Entered, IdsAt, Id
        <4> QED
          BY <1>2, <2>0, <4>1 DEF Free
      <3>6. CASE ~HasRecord(x)
        BY <1>2, <2>0, <3>6 DEF Free, Id
      <3> QED
        BY <3>5, <3>6
    <2> QED
      BY <2>1, <2>2
  <1>7. Begun'
    BY <1>1 DEF Begun, Joined
  <1>8. LinksRead'
    <2> SUFFICES ASSUME NEW v \in Windows, NEW n \in Names, n \in ToWrite(win'[v]), Id(n)' \notin Free'
                 PROVE  /\ win'[v].read[n].parent = Parent(n)'
                        /\ \A x \in Names \ {n} : x \in win'[v].read[n].kids <=> HasKid(n, x)'
      BY DEF LinksRead, ToWrite, Agree
    <2>1. CASE v # w
      <3>1. Id(n) \notin Free /\ n \in ToWrite(win[v])
        BY <1>1, <1>2, <2>1
      <3>2. Agree(win[v].read[n], n) /\ HasRecord(n)
        BY <3>1 DEF LinksRead, Free, Id
      <3> QED
        BY <1>1, <1>3, <2>1, <3>2 DEF Agree
    <2>2. CASE v = w
      <3>1. HasRecord(n) /\ q.read[n] = active[n]
        BY <2>2 DEF Entered, ToWrite
      <3> QED
        BY <1>3, <2>2, <3>1 DEF Parent, HasKid
    <2> QED
      BY <2>1, <2>2
  <1>9. Matched'
    <2> SUFFICES ASSUME NEW n \in Names, NEW p \in Names, n # p, Clear(n)', Clear(p)', Parent(n)' = p
                 PROVE  \/ HasKid(p, n)'
                        \/ \E v \in Windows : Unlinking(v, n, p)'
                        \/ \E c \in Renames : ListedAnew(n, p, c)' \/ NamesAnew(n, p, c)'
      BY DEF Matched
    <2>1. /\ Clear(n) /\ Clear(p) /\ Parent(n) = p /\ \A x : HasKid(p, x)' <=> HasKid(p, x)
      BY <1>3, <1>4
    <2>2. ASSUME NEW v \in Windows, Unlinking(v, n, p)
          PROVE  Unlinking(v, n, p)'
      BY <1>1, <2>2 DEF Unlinking
    <2>3. ASSUME NEW c \in Renames, ListedAnew(n, p, c)
          PROVE  ListedAnew(n, p, c)'
      <3>1. PICK b \in Names : b = c.b
        BY RenamesAre
      <3>2. HasKid(p, b)'
        BY <2>1, <2>3, <3>1 DEF ListedAnew
      <3> QED
        BY <1>5, <2>3, <3>1, <3>2 DEF ListedAnew
    <2>4. ASSUME NEW c \in Renames, NamesAnew(n, p, c)
          PROVE  NamesAnew(n, p, c)'
      BY <1>1, <1>5, <2>4 DEF NamesAnew
    <2> QED
      BY <2>1, <2>2, <2>3, <2>4 DEF Matched
  <1>10. Inherits'
    <2> SUFFICES ASSUME NEW c \in Renames, NEW n \in Names, n # c.a, n # c.b, Clear(n)',
                        Clear(c.a)', Underway(c.a, c)', Underway(n, c)', Parent(n)' = c.b
                 PROVE  HasKid(c.a, n)'
      BY DEF Inherits
    <2>1. PICK a \in Names : a = c.a
      BY RenamesAre
    <2>2. Clear(n) /\ Clear(a) /\ Underway(a, c) /\ Underway(n, c) /\ Parent(n) = c.b
      BY <1>3, <1>4, <1>5, <2>1
    <2>3. HasKid(a, n)
      BY <2>1, <2>2 DEF Inherits
    <2> QED
      BY <1>3, <1>4, <2>1, <2>3
  <1>11. Retried'
    <2> SUFFICES ASSUME NEW v \in Windows, NEW c, c = win'[v].cmd, win'[v].pc = "own",
                        c.op = "rename", Clear(c.a)', NEW n \in Names, Clear(n)', Marked(n, c)'
                 PROVE  Marked(c.a, c)'
      BY DEF Retried
    <2>1. c \in Renames
      <3>1. c \in Command /\ WindowOK(win'[v])
        BY WindowFacts DEF IInv, WindowsOK, Window
      <3>2. c.b \in Names /\ c.a \in Names
        BY <3>1 DEF WindowOK, ReadAll, ReadA
      <3> QED
        BY <3>1, <3>2 DEF Command, Renames
    <2>2. PICK a \in Names : a = c.a
      BY <2>1, RenamesAre
    <2>3. Clear(n) /\ Clear(a) /\ Marked(n, c) /\ HasRecord(n) /\ HasRecord(a)
      BY <1>4, <1>5, <2>1, <2>2
    <2>4. CASE v # w
      <3>1. Marked(a, c)
        BY <1>1, <2>2, <2>3, <2>4 DEF Retried
      <3> QED
        BY <1>5, <2>1, <2>2, <3>1
    <2>5. CASE v = w
      <3> DEFINE left == {m \in Records : [id |-> active[m].id, by |-> c] \in broken}
      <3>1. n \in left /\ (a \in left => Marked(a, c))
        BY <2>3 DEF Records, Marked, Id
      <3>2. Stranded(c) = IF a \notin left THEN IdsAt(left) ELSE {}
        BY <2>2 DEF Stranded
      <3>3. Stranded(c) \subseteq crossed'
        BY <2>5 DEF Entered
      <3> HIDE DEF left
      <3>4. Id(n) \in IdsAt(left)
        BY <2>3, <3>1 DEF IdsAt, Id
      <3>5. a \in left
        BY <1>2, <3>2, <3>3, <3>4 DEF Clear, Free
      <3> QED
        BY <1>5, <2>1, <2>2, <3>1, <3>5
    <2> QED
      BY <2>4, <2>5
  <1>12. Awaited'
    <2> SUFFICES ASSUME NEW n \in Names, NEW p \in Names, n # p, Clear(n)', Parent(n)' = p, Open(p)'
                 PROVE  \E c \in Renames : c.b = p /\ Underway(n, c)'
      BY DEF Awaited
    <2>1. Clear(n) /\ Parent(n) = p
      BY <1>3, <1>4
    <2>2. Unused(p)' => Unused(p)
      BY <1>1 DEF Joined, Unused
    <2>3. ASSUME NEW v \in Windows,
                 \/ Moving(v)' /\ Clear(win[v].cmd.a)' /\ win'[v].cmd.b = p
                 \/ win'[v].pc = "new" /\ win'[v].cmd.op = "create" /\ win'[v].cmd.a = p
          PROVE  Open(p)
      <3>1. CASE v = w
        BY <2>3, <3>1 DEF Open, Joined, Moving
      <3>2. CASE v # w
        <4>1. win'[v] = win[v]
          BY <1>1, <3>2
        <4>2. CASE Moving(v)' /\ Clear(win[v].cmd.a)' /\ win'[v].cmd.b = p
          <5>1. Moving(v)
            BY <4>1, <4>2 DEF Moving
          <5>2. PICK a \in Names : a = win[v].cmd.a
            BY <5>1, RenameOf, RenamesAre DEF Moving
          <5>3. Clear(a)
            BY <1>4, <4>1, <4>2, <5>2
          <5> QED
            BY <4>1, <4>2, <5>1, <5>2, <5>3 DEF Open, Expected
        <4>3. CASE win'[v].pc = "new" /\ win'[v].cmd.op = "create" /\ win'[v].cmd.a = p
          BY <4>1, <4>3 DEF Open, Expected
        <4> QED
          BY <2>3, <4>2, <4>3
      <3> QED
        BY <3>1, <3>2
    <2>4. Open(p)
      <3>1. CASE Unused(p)'
        BY <2>2, <3>1 DEF Open
      <3>2. CASE Expected(p)'
        BY <2>3, <3>2 DEF Expected
      <3> QED
        BY <3>1, <3>2 DEF Open
    <2>5. PICK c \in Renames : c.b = p /\ Underway(n, c)
      BY <2>1, <2>4 DEF Awaited
    <2> QED
      BY <1>5, <2>5
  <1>13. Covered'
    <2> SUFFICES ASSUME NEW v \in Windows, NEW n \in Names, NEW c, c = win'[v].cmd,
                        Moving(v)', Clear(n)', n # c.a, Mentions(n, c.a)'
                 PROVE  n \in win'[v].todo
      BY DEF Covered
    <2>1. Clear(n) /\ HasRecord(n) /\ Mentions(n, c.a)
      BY <1>3, <1>4 DEF Mentions
    <2>2. CASE v # w
      <3>1. win'[v] = win[v] /\ Moving(v)
        BY <1>1, <2>2 DEF Moving
      <3> QED
        BY <2>1, <3>1 DEF Covered
    <2>3. CASE v = w
      BY <2>1, <2>3 DEF Joined, Moving
    <2> QED
      BY <2>2, <2>3
  <1>14. ParentFirst'
    <2> SUFFICES ASSUME NEW v \in Windows, NEW p \in Names, NEW c, c = win'[v].cmd,
                        win'[v].pc = "child", Links(c), c.b = p, c.a # p, Clear(p)'
                 PROVE  HasKid(p, c.a)'
      BY DEF ParentFirst
    <2>1. v # w /\ win'[v] = win[v]
      BY <1>1
    <2>2. Clear(p) /\ HasRecord(p)
      BY <1>4
    <2>3. HasKid(p, c.a)
      BY <2>1, <2>2 DEF ParentFirst
    <2> QED
      BY <1>3, <2>2, <2>3
  <1>15. ParentThere'
    <2> SUFFICES ASSUME NEW v \in Windows, NEW c, c = win'[v].cmd,
                        win'[v].pc \in {"parent", "child"}, Links(c), Clear(c.a)'
                 PROVE  HasRecord(c.b)'
      BY DEF ParentThere
    <2>1. CASE v # w
      <3>1. win'[v] = win[v]
        BY <1>1, <2>1
      <3>2. PICK a \in Names : a = c.a
        BY <3>1, WindowFacts DEF IInv, WindowOK, ReadA
      <3>3. Clear(a)
        BY <1>4, <3>2
      <3>4. HasRecord(c.b)
        BY <3>1, <3>2, <3>3 DEF ParentThere
      <3>5. PICK b \in Names : b = c.b /\ HasRecord(b)
        BY <3>4 DEF HasRecord
      <3> QED
        BY <1>3, <3>5
    <2>2. CASE v = w
      <3>1. WindowOK(q) /\ q.pc = "parent"
        BY <1>1, <2>2 DEF IInv, WindowsOK
      <3>2. PICK b \in Names : b = c.b /\ q.read[b] # None
        BY <2>2, <3>1, TasksAssumption DEF WindowOK, ReadB, TasksAssumption
      <3>3. HasRecord(b)
        BY <3>2 DEF Entered
      <3> QED
        BY <1>3, <3>2, <3>3
    <2> QED
      BY <2>1, <2>2
  <1> QED
    BY <1>6, <1>7, <1>8, <1>9, <1>10, <1>11, <1>12, <1>13, <1>14, <1>15

\* Where links, windows and marks stay, so does all that is said of them.
LEMMA LinksRest ==
    ASSUME IInv, Flows, LinksInv, UNCHANGED <<win, broken, archived>>, Free \subseteq Free',
           \A n \in Names : /\ Id(n)' = Id(n)
                            /\ active'[n] = None <=> active[n] = None
                            /\ HasRecord(n) => /\ HasRecord(n)' /\ Parent(n)' = Parent(n)
                                               /\ \A x : HasKid(n, x)' <=> HasKid(n, x)
    PROVE  LinksInv'
  <1>1. Hidden' = Hidden
    BY DEF Hidden
  <1>2. \A n \in Names : Clear(n)' => Clear(n) /\ HasRecord(n) /\ Id(n) \notin Free
    <2> SUFFICES ASSUME NEW n \in Names, Clear(n)'
                 PROVE  Clear(n) /\ HasRecord(n) /\ Id(n) \notin Free
      OBVIOUS
    <2>1. Clear(n)
      BY <1>1 DEF Clear
    <2> QED
      BY <2>1, ClearRecord
  <1>3. \A n \in Names, c \in Renames : /\ Marked(n, c)' <=> Marked(n, c)
                                        /\ Underway(n, c)' <=> Underway(n, c)
    BY DEF Marked, Underway, Writing
  <1>4. \A n \in Names : Open(n)' => Open(n)
    <2> SUFFICES ASSUME NEW n \in Names, Open(n)'
                 PROVE  Open(n)
      OBVIOUS
    <2>1. Unused(n)' => Unused(n)
      BY DEF Unused
    <2>2. ASSUME NEW v \in Windows, Moving(v)' /\ Clear(win[v].cmd.a)' /\ win'[v].cmd.b = n
          PROVE  Expected(n)
      <3>1. Moving(v)
        BY <2>2 DEF Moving
      <3>2. PICK a \in Names : a = win[v].cmd.a
        BY <3>1, RenameOf, RenamesAre DEF Moving
      <3>3. Clear(a)
        BY <1>2, <2>2, <3>2
      <3> QED
        BY <2>2, <3>1, <3>2, <3>3 DEF Expected
    <2>3. ASSUME NEW v \in Windows, win'[v].pc = "new" /\ win'[v].cmd.op = "create" /\ win'[v].cmd.a = n
          PROVE  Expected(n)
      BY <2>3 DEF Expected
    <2> QED
      BY <2>1, <2>2, <2>3 DEF Open, Expected
  <1> USE DEF LinksInv
  <1>6. Tied' /\ Begun'
    <2>1. \A v \in Windows : Handled(win'[v]) \subseteq Names
      BY HandledAre DEF IInv
    <2> QED
      BY <2>1 DEF Tied, Begun
  <1>8. LinksRead'
    <2> SUFFICES ASSUME NEW v \in Windows, NEW n \in Names, n \in ToWrite(win[v]), Id(n)' \notin Free'
                 PROVE  /\ win[v].read[n].parent = Parent(n)'
                        /\ \A x \in Names \ {n} : x \in win[v].read[n].kids <=> HasKid(n, x)'
      BY DEF LinksRead, ToWrite, Agree
    <2>2. Agree(win[v].read[n], n) /\ HasRecord(n)
      BY DEF LinksRead, Free, Id
    <2> QED
      BY <2>2 DEF Agree
  <1>9. Matched'
    <2> SUFFICES ASSUME NEW n \in Names, NEW p \in Names, n # p, Clear(n)', Clear(p)', Parent(n)' = p
                 PROVE  \/ HasKid(p, n)'
                        \/ \E v \in Windows : Unlinking(v, n, p)'
                        \/ \E c \in Renames : ListedAnew(n, p, c)' \/ NamesAnew(n, p, c)'
      BY DEF Matched
    <2>1. /\ Clear(n) /\ Clear(p) /\ Parent(n) = p /\ \A x : HasKid(p, x)' <=> HasKid(p, x)
      BY <1>2
    <2>2. ASSUME NEW v \in Windows, Unlinking(v, n, p)
          PROVE  Unlinking(v, n, p)'
      BY <2>2 DEF Unlinking
    <2>3. ASSUME NEW c \in Renames, ListedAnew(n, p, c)
          PROVE  ListedAnew(n, p, c)'
      <3>1. PICK b \in Names : b = c.b
        BY RenamesAre
      <3>2. HasKid(p, b)'
        BY <2>1, <2>3, <3>1 DEF ListedAnew
      <3> QED
        BY <1>3, <2>3, <3>1, <3>2 DEF ListedAnew
    <2>4. ASSUME NEW c \in Renames, NamesAnew(n, p, c)
          PROVE  NamesAnew(n, p, c)'
      BY <1>3, <2>4 DEF NamesAnew
    <2> QED
      BY <2>1, <2>2, <2>3, <2>4 DEF Matched
  <1>10. Inherits'
    <2> SUFFICES ASSUME NEW c \in Renames, NEW n \in Names, n # c.a, n # c.b, Clear(n)',
                        Clear(c.a)', Underway(c.a, c)', Underway(n, c)', Parent(n)' = c.b
                 PROVE  HasKid(c.a, n)'
      BY DEF Inherits
    <2>1. PICK a \in Names : a = c.a
      BY RenamesAre
    <2>2. Clear(n) /\ Clear(a) /\ Underway(a, c) /\ Underway(n, c) /\ Parent(n) = c.b
      BY <1>2, <1>3, <2>1
    <2>3. HasKid(a, n)
      BY <2>1, <2>2 DEF Inherits
    <2> QED
      BY <1>2, <2>1, <2>3
  <1>11. Retried'
    <2> SUFFICES ASSUME NEW v \in Windows, NEW c, c = win[v].cmd, win[v].pc = "own",
                        c.op = "rename", Clear(c.a)', NEW n \in Names, Clear(n)', Marked(n, c)'
                 PROVE  Marked(c.a, c)'
      BY DEF Retried
    <2>1. c \in Renames
      BY RenameOf
    <2>2. PICK a \in Names : a = c.a
      BY <2>1, RenamesAre
    <2>3. Clear(n) /\ Clear(a) /\ Marked(n, c)
      BY <1>2, <1>3, <2>1, <2>2
    <2>4. Marked(a, c)
      BY <2>2, <2>3 DEF Retried
    <2> QED
      BY <1>3, <2>1, <2>2, <2>4
  <1>12. Awaited'
    <2> SUFFICES ASSUME NEW n \in Names, NEW p \in Names, n # p, Clear(n)', Parent(n)' = p, Open(p)'
                 PROVE  \E c \in Renames : c.b = p /\ Underway(n, c)'
      BY DEF Awaited
    <2>1. Clear(n) /\ Parent(n) = p /\ Open(p)
      BY <1>2, <1>4
    <2>2. PICK c \in Renames : c.b = p /\ Underway(n, c)
      BY <2>1 DEF Awaited
    <2> QED
      BY <1>3, <2>2
  <1>13. Covered'
    <2> SUFFICES ASSUME NEW v \in Windows, NEW n \in Names, NEW c, c = win[v].cmd,
                        Moving(v)', Clear(n)', n # c.a, Mentions(n, c.a)'
                 PROVE  n \in win[v].todo
      BY DEF Covered
    <2>1. Clear(n) /\ Parent(n)' = Parent(n) /\ \A x : HasKid(n, x)' <=> HasKid(n, x)
      BY <1>2
    <2>2. Moving(v) /\ Mentions(n, c.a)
      BY <2>1 DEF Moving, Mentions, Parent, HasKid
    <2> QED
      BY <2>1, <2>2 DEF Covered
  <1>14. ParentFirst'
    <2> SUFFICES ASSUME NEW v \in Windows, NEW p \in Names, NEW c, c = win[v].cmd,
                        win[v].pc = "child", Links(c), c.b = p, c.a # p, Clear(p)'
                 PROVE  HasKid(p, c.a)'
      BY DEF ParentFirst
    <2>1. Clear(p) /\ HasRecord(p)
      BY <1>2
    <2>2. HasKid(p, c.a)
      BY <2>1 DEF ParentFirst
    <2> QED
      BY <2>1, <2>2
  <1>15. ParentThere'
    <2> SUFFICES ASSUME NEW v \in Windows, NEW c, c = win[v].cmd,
                        win[v].pc \in {"parent", "child"}, Links(c), Clear(c.a)'
                 PROVE  HasRecord(c.b)'
      BY DEF ParentThere
    <2>1. PICK a \in Names : a = c.a
      BY WindowFacts DEF IInv, WindowOK, ReadA
    <2>2. Clear(a)
      BY <1>2, <2>1
    <2>3. HasRecord(c.b)
      BY <2>1, <2>2 DEF ParentThere
    <2>4. PICK b \in Names : b = c.b /\ HasRecord(b)
      BY <2>3 DEF HasRecord
    <2> QED
      BY <2>4
  <1> QED
    BY <1>6, <1>8, <1>9, <1>10, <1>11, <1>12, <1>13, <1>14, <1>15

LEMMA LinksStart == Init => LinksInv
  <1> SUFFICES ASSUME Init
               PROVE  LinksInv
    OBVIOUS
  <1>1. /\ \A w \in Windows : win[w] = Idle
        /\ broken = {} /\ active = First
    BY DEF Init
  <1>2. \A w \in Windows : win[w].pc = "idle" /\ Handled(win[w]) = {} /\ ~Moving(w)
    BY <1>1, IdleIs DEF Moving
  <1>3. \A w \in Windows : ToWrite(win[w]) = {}
    <2>1. \A w \in Windows, n \in Names : win[w].read[n] = None
      BY <1>1 DEF Idle, NothingRead
    <2> QED
      BY <2>1 DEF ToWrite
  <1>4. \A c, n : ~Underway(n, c) /\ ~Marked(n, c)
    BY <1>1, <1>2 DEF Underway, Marked, Writing
  <1>5. ASSUME NEW n \in Names, NEW p \in Names, n # p, Clear(n), Parent(n) = p
        PROVE  active[p] # None /\ HasKid(p, n)
    <2>1. HasRecord(n)
      BY <1>5, ClearRecord
    <2>2. First[n] # None /\ First[n].parent = p
      BY <1>1, <1>5, <2>1 DEF HasRecord, Parent
    <2>3. p # None
      BY TasksAssumption DEF TasksAssumption
    <2>4. First[p] # None /\ n \in First[p].kids
      BY <1>5, <2>2, <2>3, FirstLinks DEF FirstLinks
    <2> QED
      BY <1>1, <2>4 DEF HasKid
  <1>6. Tied /\ Begun /\ LinksRead
    BY <1>2, <1>3 DEF Tied, Begun, LinksRead
  <1>7. Matched
    BY <1>5 DEF Matched
  <1>8. Inherits /\ Retried /\ Covered
    BY <1>2, <1>4 DEF Inherits, Retried, Covered
  <1>9. Awaited
    BY <1>2, <1>5 DEF Awaited, Open, Unused, Expected
  <1>10. ParentFirst /\ ParentThere
    BY <1>2 DEF ParentFirst, ParentThere
  <1> QED
    BY <1>6, <1>7, <1>8, <1>9, <1>10 DEF LinksInv

\* Adding to the manifest leaves the links of the task as they are.
LEMMA LinksCurate ==
    ASSUME IInv, Flows, LinksInv, NEW w \in Windows, NEW c \in Menu[w], Curate(w, c)
    PROVE  LinksInv'
  <1>1. HasRecord(c.a) /\ active' = [active EXCEPT ![c.a].manifest = c.a]
    BY DEF Curate
  <1>2. PICK a \in Names : a = c.a /\ active[a] \in Task
    BY <1>1, RecordIs DEF IInv
  <1>3. /\ active'[a] = [active[a] EXCEPT !.manifest = a]
        /\ \A n \in Names \ {a} : active'[n] = active[n]
    BY <1>1, <1>2 DEF IInv, StoreOK
  <1>4. active'[a] \in Task
    <2> DEFINE u == [active[a] EXCEPT !.manifest = a]
    <2>1. u \in Task
      BY <1>2, UpdatesAreTasks
    <2>2. active'[a] = u
      BY <1>3
    <2> HIDE DEF u
    <2> QED
      BY <2>1, <2>2
  <1>5. active'[a].parent = active[a].parent /\ active'[a].kids = active[a].kids
    BY <1>2, <1>3, FieldsAre
  <1>6. active'[a] # None /\ active'[a] # Bare /\ active[a] # None /\ active[a] # Bare
    BY <1>2, <1>4, TasksAssumption DEF TasksAssumption
  <1>7. \A n \in Names : /\ active'[n] = None <=> active[n] = None
                         /\ HasRecord(n) => /\ HasRecord(n)' /\ Parent(n)' = Parent(n)
                                            /\ \A x : HasKid(n, x)' <=> HasKid(n, x)
    BY <1>3, <1>5, <1>6 DEF HasRecord, Parent, HasKid
  <1>8. \A n \in Names : Id(n)' = Id(n)
    BY CurateStays
  <1>9. Free \subseteq Free' /\ UNCHANGED <<win, broken, archived>>
    BY DEF Curate, Free
  <1> QED
    BY <1>7, <1>8, <1>9, LinksRest

LEMMA LinksStay ==
    ASSUME IInv, Flows, LinksInv, UNCHANGED <<active, archived, win, crossed, broken>>
    PROVE  LinksInv'
  <1>1. Free' = Free
    BY DEF Free
  <1>2. \A n \in Names : /\ Id(n)' = Id(n) /\ HasRecord(n)' = HasRecord(n) /\ Parent(n)' = Parent(n)
                         /\ \A x : HasKid(n, x)' <=> HasKid(n, x)
    BY SameRecord
  <1> QED
    BY <1>1, <1>2, LinksRest

LEMMA LinksKeep ==
    ASSUME IInv, Whereabouts, Upkeep, LinksInv, [Next]_vars
    PROVE  LinksInv'
  <1>1. Flows /\ IdsOK /\ MarksOK
    BY DEF Whereabouts, Upkeep
  <1>2. IInv'
    BY NextKeeps
  <1>3. ASSUME UNCHANGED <<active, archived, win, crossed, broken>>
        PROVE  LinksInv'
    BY <1>1, <1>3, LinksStay
  <1>4. ASSUME NEW w \in Windows, ~Step(w, "idle"), Continue(w)
        PROVE  LinksInv'
    BY <1>1, <1>2, <1>4, LinksGoOn
  <1>5. ASSUME NEW w \in Windows, NEW c \in Menu[w], Called(w, c)
        PROVE  LinksInv'
    <2>1. CASE RecordSession(w, c)
      BY <1>3, <2>1 DEF RecordSession, taskVars
    <2>2. CASE Curate(w, c)
      BY <1>1, <2>2, LinksCurate
    <2>3. CASE ~RecordSession(w, c) /\ ~Curate(w, c)
      <3>1. win[w].pc = "idle"
        BY <1>5 DEF Called, Step
      <3>2. PICK q : Entered(w, q)
        BY <1>5, <2>3, CallEnters DEF Called
      <3>3. q = win'[w]
        BY <3>2, WindowFacts DEF IInv, Entered
      <3>4. Opened(w) /\ Joined(w)
        BY <1>5, <2>3, CallOpens, CallJoins DEF Called
      <3> QED
        BY <1>1, <1>2, <3>1, <3>2, <3>3, <3>4, LinksEnter
    <2> QED
      BY <2>1, <2>2, <2>3
  <1>6. CASE Expire \/ UNCHANGED vars
    BY <1>3, <1>6 DEF Expire, vars, taskVars
  <1> QED
    BY <1>4, <1>5, <1>6 DEF Next

-----------------------------------------------------------------------------
(* What is listed, and the parents of a task, are what grows step by step  *)
(* from the first ones until nothing is new.                               *)

LEMMA UpTo ==
    ASSUME NEW N \in Nat, NEW D, 0 \in D, \A d \in 1..N : d - 1 \in D => d \in D
    PROVE  0..N \subseteq D
  <1> DEFINE Less == {ss \in Nat \X Nat : ss[1] < ss[2]}
             Bad == (0..N) \ D
  <1>1. SUFFICES ASSUME Bad # {}
                 PROVE  FALSE
    OBVIOUS
  <1>2. IsWellFoundedOn(Less, Nat)
    BY NatLessThanWellFounded DEF OpToRel
  <1>3. PICK n \in Bad : \A k \in Bad : <<k, n>> \notin Less
    <2>1. Bad \subseteq Nat
      OBVIOUS
    <2> HIDE DEF Less, Bad
    <2> QED
      BY <1>1, <1>2, <2>1, WFMin
  <1>4. n \in 1..N /\ n - 1 \in 0..N /\ n - 1 < n /\ n \notin D
    BY <1>3
  <1>5. n - 1 \in Bad
    BY <1>4
  <1>6. <<n - 1, n>> \in Less
    BY <1>4
  <1> QED
    BY <1>3, <1>5, <1>6

\* N times g, beginning with set A of elements of R.
Growth(R, A, N, g) ==
    \E f \in [0..N -> SUBSET R] : f[0] = A /\ \A d \in 1..N : f[d] = g[f[d - 1]]

LEMMA Grows ==
    ASSUME NEW R, NEW A \in SUBSET R, NEW N \in Nat, NEW g \in [SUBSET R -> SUBSET R]
    PROVE  Growth(R, A, N, g)
  <1> DEFINE Is(f, k) == f[0] = A /\ \A d \in 1..k : f[d] = g[f[d - 1]]
             D == {k \in 0..N : \E f \in [0..k -> SUBSET R] : Is(f, k)}
  <1>1. 0 \in D
    <2> DEFINE f == [d \in 0..0 |-> A]
    <2>1. f \in [0..0 -> SUBSET R] /\ Is(f, 0)
      OBVIOUS
    <2>2. 0 \in 0..N
      OBVIOUS
    <2> HIDE DEF f, Is
    <2> QED
      BY <2>1, <2>2
  <1>2. ASSUME NEW k \in 1..N, k - 1 \in D
        PROVE  k \in D
    <2>1. PICK f \in [0..(k - 1) -> SUBSET R] : Is(f, k - 1)
      BY <1>2
    <2> DEFINE h == [d \in 0..k |-> IF d = k THEN g[f[k - 1]] ELSE f[d]]
    <2>2. g[f[k - 1]] \in SUBSET R
      BY <2>1
    <2>3. h \in [0..k -> SUBSET R]
      BY <2>2
    <2>4. h[0] = A /\ h[k] = g[f[k - 1]] /\ \A d \in 0..(k - 1) : h[d] = f[d]
      BY <2>1
    <2> HIDE DEF h
    <2>5. Is(h, k)
      <3> SUFFICES ASSUME NEW d \in 1..k
                   PROVE  h[d] = g[h[d - 1]]
        BY <2>4
      <3>1. CASE d = k
        BY <2>4, <3>1
      <3>2. CASE d # k
        BY <2>1, <2>4, <3>2
      <3> QED
        BY <3>1, <3>2
    <2> QED
      BY <2>3, <2>5
  <1> HIDE DEF D
  <1>3. 0..N \subseteq D
    BY <1>1, <1>2, UpTo
  <1>4. N \in D
    BY <1>3
  <1> QED
    BY <1>4 DEF D, Growth

\* Set T is all that g makes of A: it is in every set B that g does not leave.
Full(R, A, g, T, B) ==
    /\ T \in SUBSET R /\ A \subseteq T /\ g[T] = T
    /\ A \subseteq B /\ (\A X \in SUBSET B : g[X] \subseteq B) => T \subseteq B

\* After as many steps as there are elements there is nothing new.
LEMMA Grown ==
    ASSUME NEW R, IsFiniteSet(R), NEW A \in SUBSET R, NEW N \in Nat, Cardinality(R) <= N,
           NEW g \in [SUBSET R -> SUBSET R], \A X \in SUBSET R : X \subseteq g[X],
           NEW f, f[0] = A, \A d \in 1..N : f[d - 1] \in SUBSET R => f[d] = g[f[d - 1]],
           NEW B \in SUBSET R
    PROVE  Full(R, A, g, f[N], B)
  <1> DEFINE Within == A \subseteq B /\ (\A X \in SUBSET B : g[X] \subseteq B)
             Fine(d) == /\ f[d] \in SUBSET R /\ A \subseteq f[d] /\ (Within => f[d] \subseteq B)
                        /\ g[f[d]] = f[d] \/ Cardinality(f[d]) >= d
             D == {d \in 0..N : Fine(d)}
  <1>1. \A X \in SUBSET R : IsFiniteSet(X) /\ Cardinality(X) \in Nat
    BY FS_Subset, FS_CardinalityType
  <1>2. 0 \in D
    BY <1>1
  <1>3. ASSUME NEW d \in 1..N, d - 1 \in D
        PROVE  d \in D
    <2> DEFINE X == f[d - 1]
    <2>1. X \in SUBSET R /\ A \subseteq X /\ (Within => X \subseteq B) /\ f[d] = g[X]
      BY <1>3
    <2>2. g[X] = X \/ Cardinality(X) >= d - 1
      BY <1>3
    <2> HIDE DEF X
    <2>3. g[X] \in SUBSET R /\ X \subseteq g[X] /\ (Within => g[X] \subseteq B)
      BY <2>1
    <2>4. g[g[X]] = g[X] \/ Cardinality(g[X]) >= d
      <3>1. CASE g[X] = X
        BY <3>1
      <3>2. CASE g[X] # X
        <4>1. Cardinality(X) <= Cardinality(g[X]) /\ Cardinality(X) # Cardinality(g[X])
          BY <1>1, <2>1, <2>3, <3>2, FS_Subset
        <4>2. Cardinality(X) \in Nat /\ Cardinality(g[X]) \in Nat
          BY <1>1, <2>1, <2>3
        <4> QED
          BY <2>2, <3>2, <4>1, <4>2
      <3> QED
        BY <3>1, <3>2
    <2>5. Fine(d)
      BY <2>1, <2>3, <2>4
    <2> QED
      BY <2>5
  <1>4. N \in D
    <2> HIDE DEF D
    <2>1. 0..N \subseteq D
      BY <1>2, <1>3, UpTo
    <2> QED
      BY <2>1
  <1>5. Fine(N)
    BY <1>4
  <1>6. g[f[N]] = f[N]
    <2>1. CASE Cardinality(f[N]) >= N
      <3>1. Cardinality(f[N]) <= Cardinality(R)
        BY <1>5, FS_Subset
      <3>2. Cardinality(f[N]) = Cardinality(R)
        BY <1>1, <1>5, <2>1, <3>1
      <3>3. f[N] = R
        BY <1>5, <3>2, FS_Subset
      <3>4. g[R] \in SUBSET R /\ R \subseteq g[R]
        OBVIOUS
      <3> QED
        BY <3>3, <3>4
    <2> QED
      BY <1>5, <2>1
  <1> QED
    BY <1>5, <1>6 DEF Full

\* The records, and their number.
LEMMA FewRecords ==
    ASSUME StoreOK
    PROVE  /\ IsFiniteSet(Records) /\ Cardinality(Names) \in Nat
           /\ Cardinality(Records) <= Cardinality(Names)
           /\ \A n \in Records : active[n] \in Task /\ active[n].kids \subseteq Names
  <1>1. IsFiniteSet(Names) /\ Records \in SUBSET Names
    BY TasksAssumption DEF TasksAssumption, Records
  <1>2. \A n \in Records : active[n] \in Task
    BY RecordIs DEF Records
  <1> QED
    BY <1>1, <1>2, FS_Subset, FS_CardinalityType DEF Task

\* All without an active parent are listed, and with a task its children.
LEMMA ListedGrows ==
    ASSUME StoreOK
    PROVE  /\ Roots \subseteq Listed
           /\ \A n \in Listed \cap Records : \A x \in Records : HasKid(n, x) => x \in Listed
  <1> DEFINE N == Cardinality(Names)
             More(X) == X \cup (Records \cap UNION {active[n].kids : n \in X})
             g == [X \in SUBSET Records |-> More(X)]
             shown[d \in 0..N] == IF d = 0 THEN Roots ELSE More(shown[d - 1])
  <1>1. IsFiniteSet(Records) /\ N \in Nat /\ Cardinality(Records) <= N
    BY FewRecords
  <1>2. Roots \in SUBSET Records
    BY DEF Roots
  <1>3. /\ \A X \in SUBSET Records : g[X] = More(X) /\ X \subseteq g[X]
        /\ g \in [SUBSET Records -> SUBSET Records]
    OBVIOUS
  <1> HIDE DEF g
  <1>4. PICK f \in [0..N -> SUBSET Records] : f[0] = Roots /\ \A d \in 1..N : f[d] = g[f[d - 1]]
    <2> HIDE DEF N, More
    <2>1. Growth(Records, Roots, N, g)
      BY <1>1, <1>2, <1>3, Grows
    <2> QED
      BY <2>1 DEF Growth
  <1>5. f = [d \in 0..N |-> IF d = 0 THEN Roots ELSE More(f[d - 1])]
    <2>1. ASSUME NEW d \in 0..N, d # 0
          PROVE  f[d] = More(f[d - 1])
      <3>1. d \in 1..N /\ d - 1 \in 0..N
        BY <1>1, <2>1
      <3>2. f[d - 1] \in SUBSET Records /\ f[d] = g[f[d - 1]]
        BY <1>4, <3>1
      <3> QED
        BY <1>3, <3>2
    <2> HIDE DEF More, N
    <2> QED
      BY <1>4, <2>1
  <1>6. shown = [d \in 0..N |-> IF d = 0 THEN Roots ELSE More(shown[d - 1])]
    <2> HIDE DEF More, N
    <2> QED
      BY <1>5
  <1>7. Listed = shown[N]
    BY DEF Listed
  <1> HIDE DEF shown
  <1>8. shown[0] = Roots /\ \A d \in 1..N : shown[d] = More(shown[d - 1])
    <2> HIDE DEF More, N
    <2>1. 0 \in 0..N /\ \A d \in 1..N : d \in 0..N /\ d # 0
      BY <1>1
    <2> QED
      BY <1>6, <2>1
  <1>9. \A d \in 1..N : shown[d - 1] \in SUBSET Records => shown[d] = g[shown[d - 1]]
    <2> HIDE DEF More
    <2> QED
      BY <1>3, <1>8
  <1>10. Listed \in SUBSET Records /\ Roots \subseteq Listed /\ g[Listed] = Listed
    <2> HIDE DEF N, More
    <2>1. \A X \in SUBSET Records : X \subseteq g[X]
      BY <1>3
    <2>2. Full(Records, Roots, g, shown[N], {})
      BY <1>1, <1>2, <1>3, <1>8, <1>9, <2>1, Grown
    <2> QED
      BY <1>7, <2>2 DEF Full
  <1>11. More(Listed) = Listed
    BY <1>3, <1>10
  <1> QED
    BY <1>10, <1>11 DEF HasKid

\* The active ones among the task, its parent, the parent of that, ...
LEMMA LineageIs ==
    ASSUME StoreOK, NEW m \in Records
    PROVE  /\ Lineage(m) \in SUBSET Records /\ m \in Lineage(m)
           /\ \A n \in Lineage(m) : Parent(n) \in Records => Parent(n) \in Lineage(m)
           /\ \A B \in SUBSET Records :
                 m \in B /\ (\A n \in B : Parent(n) \in Records => Parent(n) \in B)
                     => Lineage(m) \subseteq B
  <1> DEFINE N == Cardinality(Names)
             More(X) == X \cup (Records \cap {active[n].parent : n \in X})
             g == [X \in SUBSET Records |-> More(X)]
             up[d \in 0..N] == IF d = 0 THEN {m} ELSE More(up[d - 1])
  <1>1. IsFiniteSet(Records) /\ N \in Nat /\ Cardinality(Records) <= N
    BY FewRecords
  <1>2. {m} \in SUBSET Records
    OBVIOUS
  <1>3. /\ \A X \in SUBSET Records : g[X] = More(X) /\ X \subseteq g[X]
        /\ g \in [SUBSET Records -> SUBSET Records]
    OBVIOUS
  <1> HIDE DEF g
  <1>4. PICK f \in [0..N -> SUBSET Records] : f[0] = {m} /\ \A d \in 1..N : f[d] = g[f[d - 1]]
    <2> HIDE DEF N, More
    <2>1. Growth(Records, {m}, N, g)
      BY <1>1, <1>2, <1>3, Grows
    <2> QED
      BY <2>1 DEF Growth
  <1>5. f = [d \in 0..N |-> IF d = 0 THEN {m} ELSE More(f[d - 1])]
    <2>1. ASSUME NEW d \in 0..N, d # 0
          PROVE  f[d] = More(f[d - 1])
      <3>1. d \in 1..N /\ d - 1 \in 0..N
        BY <1>1, <2>1
      <3>2. f[d - 1] \in SUBSET Records /\ f[d] = g[f[d - 1]]
        BY <1>4, <3>1
      <3> QED
        BY <1>3, <3>2
    <2> HIDE DEF More, N
    <2> QED
      BY <1>4, <2>1
  <1>6. up = [d \in 0..N |-> IF d = 0 THEN {m} ELSE More(up[d - 1])]
    <2> HIDE DEF More, N
    <2> QED
      BY <1>5
  <1>7. Lineage(m) = up[N]
    BY DEF Lineage
  <1> HIDE DEF up
  <1>8. up[0] = {m} /\ \A d \in 1..N : up[d] = More(up[d - 1])
    <2> HIDE DEF More, N
    <2>1. 0 \in 0..N /\ \A d \in 1..N : d \in 0..N /\ d # 0
      BY <1>1
    <2> QED
      BY <1>6, <2>1
  <1>9. \A d \in 1..N : up[d - 1] \in SUBSET Records => up[d] = g[up[d - 1]]
    <2> HIDE DEF More
    <2> QED
      BY <1>3, <1>8
  <1>10. /\ Lineage(m) \in SUBSET Records /\ {m} \subseteq Lineage(m) /\ g[Lineage(m)] = Lineage(m)
         /\ \A B \in SUBSET Records :
               {m} \subseteq B /\ (\A X \in SUBSET B : g[X] \subseteq B) => Lineage(m) \subseteq B
    <2> HIDE DEF N, More
    <2>1. \A X \in SUBSET Records : X \subseteq g[X]
      BY <1>3
    <2>2. ASSUME NEW B \in SUBSET Records
          PROVE  Full(Records, {m}, g, up[N], B)
      BY <1>1, <1>2, <1>3, <1>8, <1>9, <2>1, Grown
    <2> QED
      BY <1>7, <2>2 DEF Full
  <1>11. More(Lineage(m)) = Lineage(m)
    BY <1>3, <1>10
  <1>12. ASSUME NEW B \in SUBSET Records, m \in B,
                \A n \in B : Parent(n) \in Records => Parent(n) \in B
         PROVE  Lineage(m) \subseteq B
    <2>1. \A X \in SUBSET B : g[X] \subseteq B
      <3> SUFFICES ASSUME NEW X \in SUBSET B
                   PROVE  More(X) \subseteq B
        BY <1>3
      <3> QED
        BY <1>12 DEF Parent
    <2> QED
      BY <1>10, <1>12, <2>1
  <1> QED
    BY <1>10, <1>11, <1>12 DEF Parent

-----------------------------------------------------------------------------
(* No task is out of sight.                                                *)

LEMMA LinksShow ==
    ASSUME IInv, LinksInv
    PROVE  TasksListed
  <1> SUFFICES ASSUME NEW m \in Records \ Listed,
                      \A n \in Lineage(m) :
                          /\ active[n].parent # n
                          /\ active[n].id \notin crossed
                          /\ \A b \in broken : b.id = active[n].id => ~Hides(b.by)
                          /\ \A w \in Windows : n \in Handled(win[w]) => ~Hides(win[w].cmd)
                          /\ \A p \in Lineage(m) \ {n} : ~(p \in Lineage(n) /\ n \in Lineage(p))
               PROVE  FALSE
    BY DEF TasksListed
  <1> DEFINE L == Lineage(m)
  <1>1. /\ L \in SUBSET Records /\ m \in L
        /\ \A n \in L : Parent(n) \in Records => Parent(n) \in L
        /\ \A B \in SUBSET Records :
              m \in B /\ (\A n \in B : Parent(n) \in Records => Parent(n) \in B) => L \subseteq B
    BY LineageIs DEF IInv
  <1>2. ASSUME NEW n \in L
        PROVE  /\ n \in Names /\ HasRecord(n) /\ Id(n) = active[n].id /\ Parent(n) # n
               /\ Clear(n) /\ \A c \in Renames : ~Underway(n, c)
               /\ \A w \in Windows, p \in Names : ~Unlinking(w, n, p)
    <2>1. n \in Names /\ HasRecord(n) /\ Id(n) = active[n].id /\ Parent(n) # n
      BY <1>1 DEF Records, Id, Parent
    <2>2. Id(n) \notin Free
      <3>1. active[n] \in Task
        BY <2>1, RecordIs DEF IInv
      <3> QED
        BY <2>1, <3>1 DEF Free, Task, Ids
    <2>3. \A b \in broken : b.id = Id(n) => b.by.op \notin {"unlink", "rename", "force"}
      BY <2>1 DEF Hides
    <2>4. \A w \in Windows : n \in Handled(win[w]) => win[w].cmd.op \notin {"unlink", "rename", "force"}
      BY DEF Hides
    <2>5. Id(n) \notin Hidden
      BY <2>3 DEF Hidden
    <2>6. \A c \in Renames : ~Underway(n, c)
      BY <2>3, <2>4 DEF Underway, Marked, Writing, Renames
    <2>7. ASSUME NEW w \in Windows, NEW p \in Names, Unlinking(w, n, p)
          PROVE  FALSE
      <3>1. n \in Handled(win[w])
        BY <2>1, <2>7, TasksAssumption DEF TasksAssumption, Unlinking, Handled
      <3> QED
        BY <2>4, <2>7, <3>1 DEF Unlinking
    <2> QED
      BY <2>1, <2>2, <2>5, <2>6, <2>7 DEF Clear
  <1>3. ASSUME NEW n \in L, n \notin Listed
        PROVE  Parent(n) \in L /\ Parent(n) \notin Listed
    <2>1. Roots \subseteq Listed /\ \A p \in Listed \cap Records : HasKid(p, n) => n \in Listed
      BY <1>1, ListedGrows DEF IInv
    <2>2. Parent(n) \in Records
      BY <1>1, <1>3, <2>1 DEF Roots, Parent
    <2>3. PICK p \in L : p = Parent(n)
      BY <1>1, <2>2
    <2>4. p \in Names /\ n \in Names /\ n # p /\ Clear(n) /\ Clear(p)
      BY <1>2, <2>3
    <2>5. HasKid(p, n)
      BY <1>2, <2>3, <2>4 DEF LinksInv, Matched, ListedAnew, NamesAnew
    <2> QED
      BY <1>1, <1>3, <2>1, <2>3, <2>5
  <1>4. L \subseteq {n \in L : n \notin Listed}
    <2> DEFINE B == {n \in L : n \notin Listed}
    <2>1. B \in SUBSET Records /\ m \in B
      BY <1>1
    <2>2. \A n \in B : Parent(n) \in Records => Parent(n) \in B
      BY <1>3
    <2> HIDE DEF B
    <2> QED
      BY <1>1, <2>1, <2>2 DEF B
  <1>5. \A n \in L : Parent(n) \in L
    BY <1>3, <1>4
  <1>6. \A n \in L : /\ IsFiniteSet(Lineage(n)) /\ Cardinality(Lineage(n)) \in Nat
                     /\ n \in Lineage(n) /\ Parent(n) \in Lineage(n)
                     /\ Lineage(Parent(n)) \subseteq Lineage(n)
    <2> SUFFICES ASSUME NEW n \in L
                 PROVE  /\ IsFiniteSet(Lineage(n)) /\ Cardinality(Lineage(n)) \in Nat
                        /\ n \in Lineage(n) /\ Parent(n) \in Lineage(n)
                        /\ Lineage(Parent(n)) \subseteq Lineage(n)
      OBVIOUS
    <2>1. n \in Records /\ Parent(n) \in Records
      BY <1>1, <1>5
    <2>2. Lineage(n) \in SUBSET Records /\ n \in Lineage(n) /\ Parent(n) \in Lineage(n)
      BY <2>1, LineageIs DEF IInv
    <2>3. \A x \in Lineage(n) : Parent(x) \in Records => Parent(x) \in Lineage(n)
      BY <2>1, LineageIs DEF IInv
    <2>4. Lineage(Parent(n)) \subseteq Lineage(n)
      BY <2>1, <2>2, <2>3, LineageIs DEF IInv
    <2>5. IsFiniteSet(Records)
      BY FewRecords DEF IInv
    <2> QED
      BY <2>2, <2>4, <2>5, FS_Subset, FS_CardinalityType
  <1> DEFINE Size(n) == Cardinality(Lineage(n))
             Less == {ss \in Nat \X Nat : ss[1] < ss[2]}
             Sizes == {Size(n) : n \in L}
  <1>7. PICK k \in Sizes : \A j \in Sizes : <<j, k>> \notin Less
    <2>1. IsWellFoundedOn(Less, Nat)
      BY NatLessThanWellFounded DEF OpToRel
    <2>2. Sizes \subseteq Nat /\ Sizes # {}
      BY <1>1, <1>6
    <2> HIDE DEF Less, Sizes
    <2> QED
      BY <2>1, <2>2, WFMin
  <1>8. PICK x \in L : k = Size(x)
    OBVIOUS
  <1>9. PICK p \in L : p = Parent(x)
    BY <1>5
  <1>10. Lineage(p) = Lineage(x)
    <2>1. Size(p) \in Sizes /\ Size(p) \in Nat /\ Size(x) \in Nat
      BY <1>6
    <2>2. ~(Size(p) < Size(x))
      BY <1>7, <1>8, <2>1
    <2>3. Lineage(p) \in SUBSET Lineage(x) /\ IsFiniteSet(Lineage(x))
      BY <1>6, <1>9
    <2>4. Size(p) <= Size(x)
      BY <2>3, FS_Subset
    <2>5. Size(p) = Size(x)
      BY <2>1, <2>2, <2>4
    <2> QED
      BY <2>3, <2>5, FS_Subset
  <1>11. x \in Lineage(p) /\ p \in Lineage(x) /\ p # x
    BY <1>2, <1>6, <1>9, <1>10
  <1> QED
    BY <1>11

(* No task drops out of `task.py list`, whatever the commands of the other *)
(* windows write in between and wherever one is cut off: a task that is    *)
(* not listed has, at it or above it, a remove-subtask, a rename or an     *)
(* overwriting create at work or cut off, two commands that crossed, or a  *)
(* circle of parents.                                                      *)
THEOREM ListingHolds == Spec => []TasksListed
  <1>1. Init => IInv /\ Whereabouts /\ Upkeep /\ LinksInv
    BY InitKeeps, WhereaboutsStart, UpkeepStart, LinksStart
  <1>2. IInv /\ Whereabouts /\ Upkeep /\ LinksInv /\ [Next]_vars
            => IInv' /\ Whereabouts' /\ Upkeep' /\ LinksInv'
    BY NextKeeps, WhereaboutsKeep, UpkeepKeeps, LinksKeep
  <1>3. IInv /\ LinksInv => TasksListed
    BY LinksShow
  <1> QED
    BY <1>1, <1>2, <1>3, PTL DEF Spec
-----------------------------------------------------------------------------
(* What the records of the tasks say of each other: a record carries the   *)
(* name of its directory, and the tasks it names are there and name it.    *)

-----------------------------------------------------------------------------
(* Tasks that no command has left half handled for good.                   *)

Name(n) == active[n].name

\* What a rename or an archive left halfway, another attempt may complete.
Lasting == {m.id : m \in {x \in broken : x.by.op \notin Retryable}}
Sure(n) == Id(n) \notin Free \cup Lasting

LEMMA SureClear ==
    ASSUME NEW n
    PROVE  (Sure(n) => Clear(n)) /\ (Sure(n)' => Clear(n)')
  BY DEF Sure, Clear, Lasting, Hidden, Retryable

LEMMA SureRecord ==
    ASSUME NEW n, Sure(n)
    PROVE  n \in Names /\ HasRecord(n) /\ Id(n) \notin Free /\ Clear(n)
  BY SureClear, ClearRecord

LEMMA LastingGrows ==
    ASSUME IInv, Flows, NEW w \in Windows, Continue(w)
    PROVE  Lasting \subseteq Lasting'
  <1>1. win[w].pc \in {"sessions", "shelve", "commit"} => win[w].cmd.op \in Retryable
    BY DEF Flows, Flow, Retryable
  <1>2. \A m \in broken : m.by.op \notin Retryable => m \in broken'
    BY <1>1, OldMarks
  <1> QED
    BY <1>2 DEF Lasting

\* A sure task was sure before, unless it is new.
LEMMA SureBack ==
    ASSUME IInv, Flows, IdsOK, NEW w \in Windows, Continue(w), NEW n \in Names, Sure(n)'
    PROVE  \/ Id(n)' = Id(n) /\ Sure(n)
           \/ /\ RenameMove(w) /\ win[w].cmd.b = n
              /\ \E o \in Names : win[w].cmd.a = o /\ Id(n)' = Id(o) /\ Sure(o)
           \/ CreateRecord(w) /\ win[w].cmd.a = n /\ Id(n)' = Cardinality(made) + 1
  <1>1. Free \subseteq Free' /\ Lasting \subseteq Lasting'
    BY HistoryGrows, LastingGrows
  <1>2. Id(n)' \notin Free' /\ Id(n)' \notin Lasting'
    BY DEF Sure
  <1> QED
    BY <1>1, <1>2, IdsMove DEF Sure

\* A step that neither creates nor moves a task leaves the sure ones where they are.
LEMMA SureStays ==
    ASSUME IInv, Flows, IdsOK, NEW w \in Windows, Continue(w), ~CreateRecord(w), ~RenameMove(w),
           NEW n \in Names, Sure(n)'
    PROVE  Id(n)' = Id(n) /\ Sure(n) /\ Id(n)' \notin Free' /\ Id(n) \notin Free
  BY SureBack, SureRecord DEF Sure

LEMMA OthersSure ==
    ASSUME IInv, Flows, IdsOK, NEW w \in Windows, Continue(w), NEW v \in Windows \ {w},
           NEW n \in Names, n \in Handled(win[v]), Sure(n)'
    PROVE  /\ Id(n)' = Id(n) /\ Sure(n) /\ active'[n] = active[n]
           /\ n \notin Handled(win[w])
  <1>1. Free \subseteq Free' /\ Lasting \subseteq Lasting'
    BY HistoryGrows, LastingGrows
  <1>2. Id(n)' = Id(n) /\ Clear(n) /\ active'[n] = active[n] /\ n \notin Handled(win[w])
    BY SureClear, OthersClear
  <1> QED
    BY <1>1, <1>2 DEF Sure

-----------------------------------------------------------------------------
(* Steps outside the commands at work: a command begins, a file is added   *)
(* to a manifest, a ticket expires, nothing happens.                       *)

\* A command has begun in window w.
Begins(w) ==
    LET q == win'[w]
    IN  /\ w \in Windows /\ win[w].pc = "idle"
        /\ Entered(w, q) /\ Opened(w) /\ Joined(w)
        /\ q.cmd.op = "rename" => q.cmd.a \notin q.todo
        /\ q.pc = "own" /\ q.cmd.op # "rename" =>
              HasRecord(q.cmd.a) /\ q.todo = active[q.cmd.a].kids
        /\ q.pc = "parent" => HasRecord(q.cmd.a) /\ HasRecord(q.cmd.b)
        /\ q.pc = "parent" /\ q.cmd.op # "unlink" => Parent(q.cmd.a) = None

Outside(w) ==
    /\ \A v \in Windows \ {w} : win'[v] = win[v]
    /\ broken' = broken /\ archived' = archived /\ Free \subseteq Free'
    /\ \A n \in Names :
          /\ Id(n)' = Id(n) /\ (active'[n] = None => active[n] = None)
          /\ HasRecord(n) => /\ HasRecord(n)' /\ Name(n)' = Name(n) /\ Parent(n)' = Parent(n)
                             /\ \A x : HasKid(n, x)' <=> HasKid(n, x)
    /\ win'[w] = win[w] \/ Begins(w)

LEMMA CallBegins ==
    ASSUME IInv, NEW w \in Windows, win[w].pc = "idle", NEW c \in Menu[w],
           CreateDir(w, c) \/ LinkRead(w, c) \/ RenamePlan(w, c) \/ ArchiveRead(w, c)
               \/ StartCalled(w, c) \/ FinishCalled(w, c) \/ FieldRead(w, c)
    PROVE  Begins(w)
  <1>1. ASSUME NEW pc, NEW read, NEW todo, Enter(w, At(pc, c, read, todo))
        PROVE  /\ win'[w].pc = pc /\ win'[w].cmd = c /\ win'[w].read = read /\ win'[w].todo = todo
    <2>1. win' = [win EXCEPT ![w] = At(pc, c, read, todo)]
      BY <1>1 DEF Enter
    <2>2. win'[w] = At(pc, c, read, todo)
      BY <2>1, WindowFacts DEF IInv
    <2> QED
      BY <2>2 DEF At
  <1>2. Entered(w, win'[w]) /\ Opened(w) /\ Joined(w)
    <2>1. PICK q : Entered(w, q)
      BY CallEnters
    <2>2. q = win'[w]
      BY <2>1, WindowFacts DEF IInv, Entered
    <2> QED
      BY <2>1, <2>2, CallOpens, CallJoins
  <1> USE DEF Begins
  <1>3. CASE CreateDir(w, c)
    <2>1. c.op # "rename" /\ win'[w].pc = "new" /\ win'[w].cmd = c
      BY <1>1, <1>3 DEF CreateDir
    <2> QED
      BY <1>2, <2>1
  <1>4. CASE FieldRead(w, c) \/ StartCalled(w, c) \/ FinishCalled(w, c)
    <2>1. c.op # "rename" /\ win'[w].pc \notin {"own", "parent"} /\ win'[w].cmd = c
      BY <1>1, <1>4 DEF FieldRead, StartCalled, FinishCalled
    <2> QED
      BY <1>2, <2>1
  <1>5. CASE LinkRead(w, c)
    <2>1. /\ c.op \in {"link", "unlink"} /\ win'[w].pc = "parent" /\ win'[w].cmd = c
          /\ HasRecord(c.a) /\ HasRecord(c.b) /\ (c.op = "link" => active[c.a].parent = None)
      BY <1>1, <1>5 DEF LinkRead
    <2> QED
      BY <1>2, <2>1 DEF Parent
  <1>6. CASE RenamePlan(w, c)
    <2>1. /\ c.op = "rename" /\ win'[w].pc = "own" /\ win'[w].cmd = c /\ win'[w].todo = Backrefs(c.a)
      BY <1>1, <1>6 DEF RenamePlan
    <2> QED
      BY <1>2, <2>1 DEF Backrefs
  <1>7. CASE ArchiveRead(w, c)
    <2>1. /\ c.op # "rename"
          /\ \/ HasRecord(c.a) /\ Enter(w, At("own", c, ReadNow({c.a}), active[c.a].kids))
             \/ Enter(w, At("kids", c, NothingRead, {}))
      BY <1>7 DEF ArchiveRead
    <2>2. /\ win'[w].cmd = c
          /\ \/ HasRecord(c.a) /\ win'[w].pc = "own" /\ win'[w].todo = active[c.a].kids
             \/ win'[w].pc = "kids"
      BY <1>1, <2>1
    <2> QED
      BY <1>2, <2>1, <2>2
  <1> QED
    BY <1>3, <1>4, <1>5, <1>6, <1>7

\* A field that is set leaves the name as it is.
LEMMA NamesAre ==
    ASSUME NEW t \in Task
    PROVE  /\ \A x : [t EXCEPT !.status = x].name = t.name
           /\ \A x : [t EXCEPT !.manifest = x].name = t.name
           /\ \A x : [t EXCEPT !.branch = x].name = t.name
           /\ \A x : [t EXCEPT !.base = x].name = t.name
           /\ \A x : [t EXCEPT !.parent = x].name = t.name
           /\ \A x : [t EXCEPT !.kids = x].name = t.name
           /\ \A x : [t EXCEPT !.name = x].name = x
  BY DEF Task

LEMMA RestsOutside ==
    ASSUME UNCHANGED <<active, archived, win, crossed, broken>>
    PROVE  \A w : Outside(w)
  <1>1. Free' = Free
    BY DEF Free
  <1>2. \A n \in Names : /\ Id(n)' = Id(n) /\ HasRecord(n)' = HasRecord(n) /\ Parent(n)' = Parent(n)
                         /\ \A x : HasKid(n, x)' <=> HasKid(n, x)
    BY SameRecord
  <1> QED
    BY <1>1, <1>2 DEF Outside, Name

LEMMA BeginsOutside ==
    ASSUME NEW w, Begins(w)
    PROVE  Outside(w)
  <1>1. /\ \A v \in Windows \ {w} : win'[v] = win[v]
        /\ broken' = broken /\ archived' = archived
    BY DEF Begins, Opened, Alone
  <1>2. Free \subseteq Free' /\ \A n \in Names : Id(n)' = Id(n)
    BY DEF Begins, Entered, Free
  <1>3. \A n \in Names : HasRecord(n) =>
            /\ active'[n] = active[n] /\ HasRecord(n)' /\ Name(n)' = Name(n) /\ Parent(n)' = Parent(n)
            /\ \A x : HasKid(n, x)' <=> HasKid(n, x)
    BY DEF Begins, Opened, HasRecord, Name, Parent, HasKid
  <1> QED
    BY <1>1, <1>2, <1>3 DEF Outside, Begins, Joined

LEMMA CuratesOutside ==
    ASSUME IInv, NEW w \in Windows, NEW c \in Menu[w], Curate(w, c)
    PROVE  Outside(w)
  <1>1. HasRecord(c.a) /\ active' = [active EXCEPT ![c.a].manifest = c.a]
    BY DEF Curate
  <1>2. PICK a \in Names : a = c.a /\ active[a] \in Task
    BY <1>1, RecordIs DEF IInv
  <1>3. /\ active'[a] = [active[a] EXCEPT !.manifest = a]
        /\ \A n \in Names \ {a} : active'[n] = active[n]
    BY <1>1, <1>2 DEF IInv, StoreOK
  <1>4. active'[a] \in Task
    <2> DEFINE u == [active[a] EXCEPT !.manifest = a]
    <2>1. u \in Task
      BY <1>2, UpdatesAreTasks
    <2>2. active'[a] = u
      BY <1>3
    <2> HIDE DEF u
    <2> QED
      BY <2>1, <2>2
  <1>5. /\ active'[a].parent = active[a].parent /\ active'[a].kids = active[a].kids
        /\ active'[a].name = active[a].name
    BY <1>2, <1>3, FieldsAre, NamesAre
  <1>6. active'[a] # None /\ active'[a] # Bare /\ active[a] # None /\ active[a] # Bare
    BY <1>2, <1>4, TasksAssumption DEF TasksAssumption
  <1>7. \A n \in Names :
            /\ active'[n] = None <=> active[n] = None
            /\ HasRecord(n) => /\ HasRecord(n)' /\ Name(n)' = Name(n) /\ Parent(n)' = Parent(n)
                               /\ \A x : HasKid(n, x)' <=> HasKid(n, x)
    BY <1>3, <1>5, <1>6 DEF HasRecord, Name, Parent, HasKid
  <1>8. \A n \in Names : Id(n)' = Id(n)
    BY CurateStays
  <1>9. Free \subseteq Free' /\ UNCHANGED <<win, broken, archived>>
    BY DEF Curate, Free
  <1> QED
    BY <1>7, <1>8, <1>9 DEF Outside

\* Every step is one of a command at work or outside of them.
LEMMA StepsAre ==
    ASSUME IInv, [Next]_vars
    PROVE  (\E w \in Windows : Continue(w)) \/ \E w : Outside(w)
  <1>1. ASSUME UNCHANGED <<active, archived, win, crossed, broken>>
        PROVE  \E w : Outside(w)
    BY <1>1, RestsOutside
  <1>2. ASSUME NEW w \in Windows, NEW c \in Menu[w], Called(w, c)
        PROVE  \E v : Outside(v)
    <2>1. CASE RecordSession(w, c)
      BY <1>1, <2>1 DEF RecordSession, taskVars
    <2>2. CASE Curate(w, c)
      BY <2>2, CuratesOutside
    <2>3. CASE ~RecordSession(w, c) /\ ~Curate(w, c)
      <3>1. win[w].pc = "idle"
        BY <1>2 DEF Called, Step
      <3>2. Begins(w)
        BY <1>2, <2>3, <3>1, CallBegins DEF Called
      <3> QED
        BY <3>2, BeginsOutside
    <2> QED
      BY <2>1, <2>2, <2>3
  <1>3. CASE Expire \/ UNCHANGED vars
    BY <1>1, <1>3 DEF Expire, vars, taskVars
  <1> QED
    BY <1>2, <1>3 DEF Next

LEMMA OutsideKeeps ==
    ASSUME NEW w, Outside(w)
    PROVE  /\ \A n \in Names : Sure(n)' => Sure(n) /\ HasRecord(n) /\ Id(n) \notin Free
           /\ \A n \in Names : Clear(n)' => Clear(n)
           /\ \A n \in Names : \A c : Marked(n, c)' <=> Marked(n, c)
           /\ \A n \in Names : \A c : Underway(n, c)' <=> Underway(n, c)
  <1>1. Lasting' = Lasting /\ Hidden' = Hidden
    BY DEF Outside, Lasting, Hidden
  <1>2. ASSUME NEW n \in Names, Sure(n)'
        PROVE  Sure(n) /\ HasRecord(n) /\ Id(n) \notin Free
    <2>1. Sure(n)
      BY <1>1, <1>2 DEF Outside, Sure
    <2> QED
      BY <2>1, SureRecord
  <1>3. ASSUME NEW n \in Names, Clear(n)'
        PROVE  Clear(n)
    BY <1>1, <1>3 DEF Outside, Clear
  <1>4. ASSUME NEW n \in Names, NEW c
        PROVE  /\ Marked(n, c)' <=> Marked(n, c)
               /\ Underway(n, c)' <=> Underway(n, c)
    <2>1. Marked(n, c)' <=> Marked(n, c)
      BY DEF Outside, Marked
    <2>2. \A v \in Windows : (Writing(v, c) /\ n \in Handled(win[v]))' <=> (Writing(v, c) /\ n \in Handled(win[v]))
      <3> SUFFICES ASSUME NEW v \in Windows
                   PROVE  (Writing(v, c) /\ n \in Handled(win[v]))' <=> (Writing(v, c) /\ n \in Handled(win[v]))
        OBVIOUS
      <3>1. CASE win'[v] = win[v]
        BY <3>1 DEF Writing
      <3>2. CASE v = w /\ Begins(w)
        BY <3>2 DEF Begins, Opened, Writing
      <3> QED
        BY <3>1, <3>2 DEF Outside
    <2> QED
      BY <2>1, <2>2 DEF Underway
  <1> QED
    BY <1>2, <1>3, <1>4

-----------------------------------------------------------------------------
(* A record carries the name of its directory, but for the renames that    *)
(* are under way.                                                          *)

\* The plan of a rename leaves its own task out.
Elsewhere ==
    \A w \in Windows : win[w].pc # "idle" /\ win[w].cmd.op = "rename" => win[w].cmd.a \notin win[w].todo

\* What a command will write back has the name that the record has.
NameRead ==
    \A w \in Windows : \A n \in ToWrite(win[w]) : Id(n) \in Free \/ win[w].read[n].name = Name(n)

\* A rename that is past its own record has put the new name there.
NewNamed ==
    \A w \in Windows, n \in Names :
        win[w].cmd.op = "rename" /\ win[w].pc \in {"jsonl", "backrefs"} /\ win[w].cmd.a = n /\ Sure(n)
            => Name(n) = win[w].cmd.b

NameOK ==
    \A n \in Names : Sure(n) =>
        \/ Name(n) = n
        \/ \E c \in Renames : c.a = n /\ c.b = Name(n) /\ Underway(n, c)

NamesInv == Elsewhere /\ NameRead /\ NewNamed /\ NameOK

LEMMA StoredName ==
    ASSUME NEW n \in Names, NEW t \in Task
    PROVE  Stored(n, t).name = t.name
  <1>1. CASE HasRecord(n)
    <2> DEFINE x == active[n].manifest
               u == [t EXCEPT !.manifest = x]
    <2>1. Stored(n, t) = u
      BY <1>1 DEF Stored
    <2>2. u.name = t.name
      BY NamesAre
    <2> QED
      BY <2>1, <2>2
  <1>2. CASE ~HasRecord(n)
    BY <1>2 DEF Stored
  <1> QED
    BY <1>1, <1>2

LEMMA WroteName ==
    ASSUME IInv, Flows, IdsOK, LinksRead, NameRead, NEW w \in Windows, Continue(w),
           NEW n, NEW t, Writes(w, n, t)
    PROVE  /\ \A m \in Names \ {n} : Name(m)' = Name(m)
           /\ Id(n)' \in Free' \/ (Name(n)' = t.name /\ win[w].read[n].name = Name(n))
  <1>1. /\ n \in Names /\ t \in Task /\ active' = [active EXCEPT ![n] = Stored(n, t)]
        /\ n \in ToWrite(win[w])
    BY WroteBack DEF Writes
  <1>2. active'[n] = Stored(n, t) /\ \A m \in Names \ {n} : active'[m] = active[m]
    BY <1>1, WroteBack DEF IInv, StoreOK
  <1>3. Stored(n, t).name = t.name
    BY <1>1, StoredName
  <1>4. Id(n)' \in Free' \/ Id(n) \notin Free
    BY WroteBack
  <1> QED
    BY <1>1, <1>2, <1>3, <1>4 DEF Name, NameRead

\* The name is left as it was, except in crossed tasks.
SameName(n) == Id(n)' \in Free' \/ Name(n)' = Name(n)

LEMMA WroteSameName ==
    ASSUME IInv, Flows, IdsOK, LinksRead, NameRead, NEW w \in Windows, Continue(w),
           NEW n, NEW t, Writes(w, n, t), t.name = win[w].read[n].name
    PROVE  \A m \in Names : SameName(m)
  BY WroteName DEF SameName

LEMMA GoesSameName ==
    ASSUME IInv, NEW n \in Names, NEW x, x = None \/ x = Bare, active' = [active EXCEPT ![n] = x]
    PROVE  \A m \in Names : SameName(m)
  <1>1. active'[n] = x /\ \A m \in Names \ {n} : active'[m] = active[m]
    BY DEF IInv, StoreOK
  <1>2. Id(n)' = 0
    BY <1>1 DEF Id, HasRecord
  <1> QED
    BY <1>1, <1>2 DEF Free, SameName, Name

LEMMA FieldName ==
    ASSUME NEW q, q.read[q.cmd.a] \in Task, NEW t, t = q.read[q.cmd.a]
    PROVE  WithField(q).name = t.name
  <1> DEFINE v == IF q.cmd.op = "base" THEN "feature" ELSE t.base
             u == [t EXCEPT !.base = v]
             z == IF q.cmd.op = "branch" THEN "feature" ELSE u.branch
             y == [u EXCEPT !.branch = z]
  <1>1. v \in Branches
    BY UpdatesAreTasks DEF Branches, Task
  <1>2. WithBase(q) = u
    BY DEF WithBase
  <1>3. WithField(q) = y
    BY <1>2 DEF WithField
  <1> HIDE DEF v
  <1>4. u \in Task /\ u.name = t.name
    <2>1. u \in Task
      BY <1>1, UpdatesAreTasks
    <2> QED
      BY <2>1, NamesAre
  <1> HIDE DEF u, z
  <1>5. y.name = u.name
    BY <1>4, NamesAre
  <1> HIDE DEF y
  <1> QED
    BY <1>3, <1>4, <1>5

LEMMA WorkedNames ==
    ASSUME NEW t \in Task
    PROVE  /\ \A b \in Branches : Started(t, b).name = t.name
           /\ \A o, n \in Names : Renamed(t, o, n).name = t.name
           /\ \A q : q.read[q.cmd.b] = t => ParentRecord(q).name = t.name
           /\ \A q : q.read[q.cmd.a] = t => ChildRecord(q).name = t.name
  <1>1. \A b \in Branches : Started(t, b).name = t.name
    BY DEF Task, Started
  <1>2. \A o, n \in Names : Renamed(t, o, n).name = t.name
    BY DEF Task, Renamed
  <1>3. ASSUME NEW q, q.read[q.cmd.b] = t
        PROVE  ParentRecord(q).name = t.name
    <2> DEFINE y == IF q.cmd.op = "unlink" THEN t.kids \ {q.cmd.a} ELSE t.kids \cup {q.cmd.a}
    <2>1. ParentRecord(q) = [t EXCEPT !.kids = y]
      BY <1>3 DEF ParentRecord
    <2> HIDE DEF y
    <2> QED
      BY <2>1, NamesAre
  <1>4. ASSUME NEW q, q.read[q.cmd.a] = t
        PROVE  ChildRecord(q).name = t.name
    <2> DEFINE y == IF q.cmd.op = "unlink" THEN None ELSE q.cmd.b
    <2>1. ChildRecord(q) = [t EXCEPT !.parent = y]
      BY <1>4 DEF ChildRecord
    <2> HIDE DEF y
    <2> QED
      BY <2>1, NamesAre
  <1> QED
    BY <1>1, <1>2, <1>3, <1>4

\* Only the rename of a task changes its name.
LEMMA NameSteps ==
    ASSUME IInv, Flows, IdsOK, LinksRead, NameRead, NEW w \in Windows, Continue(w),
           ~CreateRecord(w), ~RenameMove(w), NEW n \in Names
    PROVE  \/ Id(n)' \in Free'
           \/ IF RenameOwn(w) /\ win[w].cmd.a = n THEN Name(n)' = win[w].cmd.b ELSE Name(n)' = Name(n)
  <1> USE DEF IInv, Step
  <1> DEFINE q == win[w]
             a == q.cmd.a
             b == q.cmd.b
             t == q.read[a]
  <1>1. WindowOK(q) /\ q \in Window /\ \A m \in Names : q.read[m] \in Task \/ q.read[m] = None
    BY WindowFacts DEF Window
  <1>2. None \notin Task
    BY TasksAssumption DEF TasksAssumption
  <1>3. CASE RenameOwn(w)
    <2>1. q.pc = "own" /\ a \in Names /\ b \in Names /\ t \in Task
      BY <1>1, <1>3 DEF RenameOwn, WindowOK, ReadA, ReadAll
    <2> DEFINE u == [t EXCEPT !.name = b]
    <2>2. u \in Task /\ u.id = t.id /\ u.name = b
      BY <2>1, UpdatesAreTasks, SameIds, NamesAre
    <2>3. a \in ToWrite(q)
      BY <1>2, <2>1 DEF ToWrite
    <2>4. (active' = active /\ t.name = b) \/ Write(a, u)
      BY <1>3 DEF RenameOwn, taskVars
    <2> HIDE DEF u
    <2>5. CASE Write(a, u)
      <3>1. Writes(w, a, u)
        BY <2>2, <2>3, <2>5 DEF Write, Writes
      <3> QED
        BY <1>3, <2>2, <3>1, WroteName
    <2>6. CASE active' = active /\ t.name = b
      <3>1. \A m \in Names : Id(m)' = Id(m) /\ Name(m)' = Name(m)
        BY <2>6, SameRecord DEF Name
      <3>2. Free \subseteq Free'
        BY HistoryGrows
      <3>3. Id(a) \in Free \/ t.name = Name(a)
        BY <2>3 DEF NameRead
      <3> QED
        BY <1>3, <2>6, <3>1, <3>2, <3>3
    <2> QED
      BY <2>4, <2>5, <2>6
  <1>20. ~RenameOwn(w) /\ SameName(n) => \/ Id(n)' \in Free'
           \/ IF RenameOwn(w) /\ win[w].cmd.a = n THEN Name(n)' = win[w].cmd.b ELSE Name(n)' = Name(n)
    BY DEF SameName
  <1>4. CASE RenameManifest(w) \/ RenameTorn(w)
    <2>1. a \in Names /\ b \in Names /\ q.pc = "jsonl"
      BY <1>1, <1>4 DEF RenameManifest, RenameTorn, WindowOK, ReadA, ReadAll
    <2>2. \/ active' = active
          \/ HasRecord(a) /\ \E x \in {b, None} : active' = [active EXCEPT ![a].manifest = x]
      BY <1>4 DEF RenameManifest, RenameTorn, taskVars
    <2>3. ASSUME NEW x \in {b, None}, HasRecord(a), active' = [active EXCEPT ![a].manifest = x]
          PROVE  SameName(n)
      <3>1. PICK m \in Names : m = a /\ active[m] \in Task
        BY <2>1, <2>3, RecordIs
      <3> DEFINE u == [active[m] EXCEPT !.manifest = x]
      <3>2. u.name = active[m].name
        BY <3>1, NamesAre
      <3>3. active'[m] = u /\ \A k \in Names \ {m} : active'[k] = active[k]
        BY <2>3, <3>1 DEF StoreOK
      <3> HIDE DEF u
      <3> QED
        BY <3>2, <3>3 DEF SameName, Name
    <2>4. SameName(n)
      BY <2>2, <2>3 DEF SameName, Name
    <2> QED
      BY <1>20, <2>1, <2>4 DEF RenameOwn
  <1>5. CASE ~RenameOwn(w) /\ \E m, u : Writes(w, m, u) /\ u.name = q.read[m].name
    BY <1>5, <1>20, WroteSameName
  <1>6. CASE ArchiveOwn(w)
    <2>1. a \in Names /\ t \in Task /\ q.pc = "own" /\ q.cmd.op # "rename"
      BY <1>1, <1>6 DEF ArchiveOwn, WindowOK, ReadA
    <2> DEFINE u == [t EXCEPT !.status = "completed"]
    <2>2. u \in Task /\ u.id = t.id /\ u.name = t.name
      BY <2>1, UpdatesAreTasks, SameIds, NamesAre
    <2>3. Write(a, u)
      BY <1>6 DEF ArchiveOwn
    <2> HIDE DEF u
    <2>4. Writes(w, a, u)
      BY <1>2, <2>1, <2>2, <2>3 DEF Write, Writes, ToWrite
    <2> QED
      BY <1>5, <2>1, <2>2, <2>4 DEF RenameOwn
  <1>7. CASE StartFlip(w)
    <2>1. a \in Names /\ t \in Task /\ q.pc = "flip"
      BY <1>1, <1>7 DEF StartFlip, WindowOK, ReadA
    <2>2. PICK bb \in Branches : UNCHANGED taskVars \/ Write(a, Started(t, bb))
      BY <1>7 DEF StartFlip
    <2>3. Started(t, bb) \in Task /\ Started(t, bb).id = t.id /\ Started(t, bb).name = t.name
      BY <2>1, StartedIsTask, StartedId, WorkedNames
    <2>4. active' = active \/ Writes(w, a, Started(t, bb))
      BY <1>2, <2>1, <2>2, <2>3 DEF Write, Writes, ToWrite, taskVars
    <2> QED
      BY <1>5, <1>20, <2>1, <2>3, <2>4 DEF RenameOwn, SameName, Name
  <1>8. CASE FieldWrite(w)
    <2>1. a \in Names /\ t \in Task /\ WithField(q) \in Task /\ q.pc = "field"
      BY <1>1, <1>8, FieldIsTask DEF FieldWrite, WindowOK, ReadA
    <2>2. WithField(q).id = t.id /\ WithField(q).name = t.name
      BY <2>1, FieldLinks, FieldName
    <2>3. Write(a, WithField(q))
      BY <1>8 DEF FieldWrite
    <2>4. Writes(w, a, WithField(q))
      BY <1>2, <2>1, <2>2, <2>3 DEF Write, Writes, ToWrite
    <2> QED
      BY <1>5, <2>1, <2>2, <2>4 DEF RenameOwn
  <1>9. CASE HookWrite(w)
    <2>1. a \in Names /\ t \in Task /\ q.pc = "issue"
      BY <1>1, <1>9 DEF HookWrite, WindowOK, ReadA
    <2>2. \/ active' = [active EXCEPT ![a] = IF @ = None THEN None ELSE Stored(a, t)]
          \/ active' = [active EXCEPT ![a] = Bare]
      BY <1>9 DEF HookWrite
    <2>3. CASE active' = [active EXCEPT ![a] = Bare]
      BY <1>20, <2>1, <2>3, GoesSameName DEF RenameOwn
    <2>4. CASE active[a] = None /\ active' = [active EXCEPT ![a] = IF @ = None THEN None ELSE Stored(a, t)]
      <3>1. active' = [active EXCEPT ![a] = None]
        BY <2>4
      <3> QED
        BY <1>20, <2>1, <3>1, GoesSameName DEF RenameOwn
    <2>5. CASE active[a] # None /\ active' = [active EXCEPT ![a] = IF @ = None THEN None ELSE Stored(a, t)]
      <3>1. active' = [active EXCEPT ![a] = Stored(a, t)]
        BY <2>5
      <3>2. Writes(w, a, t)
        BY <1>2, <2>1, <2>5, <3>1 DEF Writes, ToWrite
      <3> QED
        BY <1>5, <2>1, <3>2 DEF RenameOwn
    <2> QED
      BY <2>2, <2>3, <2>4, <2>5
  <1>10. CASE CreateFails(w) \/ ArchiveMove(w)
    <2>1. a \in Names /\ q.pc # "own"
      BY <1>1, <1>10 DEF CreateFails, ArchiveMove, WindowOK
    <2>2. active' = active \/ active' = [active EXCEPT ![a] = None]
      BY <1>10 DEF CreateFails, ArchiveMove
    <2> QED
      BY <1>20, <2>1, <2>2, GoesSameName DEF RenameOwn, SameName, Name
  <1>11. CASE WriteParent(w)
    <2>1. q.pc = "parent" /\ a \in Names /\ b \in Names /\ q.read[b] \in Task
      BY <1>1, <1>11 DEF WriteParent, WindowOK, ReadB
    <2>2. active' = active \/ Write(b, ParentRecord(q))
      BY <1>11 DEF WriteParent, taskVars
    <2>3. /\ ParentRecord(q) \in Task /\ ParentRecord(q).id = q.read[b].id
          /\ ParentRecord(q).name = q.read[b].name
      BY <1>1, <2>1, ParentIsTask, ParentLinks, WorkedNames DEF ReadB
    <2>4. active' = active \/ Writes(w, b, ParentRecord(q))
      BY <1>2, <2>1, <2>2, <2>3 DEF Write, Writes, ToWrite
    <2> QED
      BY <1>5, <1>20, <2>1, <2>3, <2>4 DEF RenameOwn, SameName, Name
  <1>12. CASE WriteChild(w)
    <2>1. q.pc = "child" /\ a \in Names /\ t \in Task
      BY <1>1, <1>12 DEF WriteChild, WindowOK, ReadA
    <2>2. Write(a, ChildRecord(q))
      BY <1>12 DEF WriteChild
    <2>3. ChildRecord(q) \in Task /\ ChildRecord(q).id = t.id /\ ChildRecord(q).name = t.name
      BY <1>1, <2>1, ChildIsTask, ChildLinks, WorkedNames DEF ReadA
    <2>4. Writes(w, a, ChildRecord(q))
      BY <1>2, <2>1, <2>2, <2>3 DEF Write, Writes, ToWrite
    <2> QED
      BY <1>5, <2>1, <2>3, <2>4 DEF RenameOwn
  <1>13. CASE RenameBackref(w)
    <2>1. q.pc = "backrefs" /\ a \in Names /\ b \in Names
      BY <1>1, <1>13 DEF RenameBackref, WindowOK, ReadAll
    <2>2. PICK m \in q.todo : Write(m, Renamed(q.read[m], a, b))
      BY <1>13 DEF RenameBackref
    <2>3. m \in Names /\ q.read[m] \in Task
      BY <1>1, <2>1 DEF WindowOK, ReadAll, Window
    <2>4. /\ Renamed(q.read[m], a, b) \in Task /\ Renamed(q.read[m], a, b).id = q.read[m].id
          /\ Renamed(q.read[m], a, b).name = q.read[m].name
      BY <2>1, <2>3, RenamedIsTask, RenamedId, WorkedNames
    <2>5. Writes(w, m, Renamed(q.read[m], a, b))
      BY <1>2, <2>1, <2>2, <2>3, <2>4 DEF Write, Writes, ToWrite
    <2> QED
      BY <1>5, <2>1, <2>4, <2>5 DEF RenameOwn
  <1>14. CASE ArchiveUnlink(w)
    <2>1. PICK m \in q.todo : q.read[m] # None /\ Write(m, [q.read[m] EXCEPT !.parent = None])
      BY <1>14 DEF ArchiveUnlink
    <2>2. q.pc = "kid" /\ m \in Names /\ q.read[m] \in Task
      BY <1>1, <1>14, <2>1 DEF ArchiveUnlink, Window
    <2> DEFINE u == [q.read[m] EXCEPT !.parent = None]
    <2>3. u \in Task /\ u.id = q.read[m].id /\ u.name = q.read[m].name
      BY <2>2, UpdatesAreTasks, SameIds, NamesAre
    <2>4. Writes(w, m, u)
      BY <2>1, <2>2, <2>3 DEF Write, Writes, ToWrite
    <2> HIDE DEF u
    <2> QED
      BY <1>5, <2>2, <2>3, <2>4 DEF RenameOwn
  <1>15. CASE CreateActivate(w) \/ HookRead(w) \/ WriteFails(w) \/ RenameBlocked(w)
              \/ RenameSessions(w) \/ ArchiveReadKid(w) \/ ArchiveSessions(w)
              \/ ArchiveBlocked(w)
    <2>1. active' = active
      BY <1>15 DEF CreateActivate, HookRead, WriteFails, RenameBlocked,
         RenameSessions, ArchiveReadKid, ArchiveSessions, ArchiveBlocked, taskVars
    <2> QED
      BY <1>3, <1>20, <2>1 DEF SameName, Name
  <1>16. CASE CommitAdd(w) \/ CommitRm(w) \/ CommitArchive(w) \/ StartGate(w)
              \/ StartPoint(w) \/ ReadOwn(w) \/ FinishClear(w) \/ Stop(w)
    <2>1. active' = active
      BY <1>16 DEF CommitAdd, CommitRm, CommitArchive, StartGate, StartPoint,
         ReadOwn, FinishClear, Stop, taskVars
    <2> QED
      BY <1>3, <1>20, <2>1 DEF SameName, Name
  <1> QED
    BY <1>3, <1>4, <1>6, <1>7, <1>8, <1>9, <1>10, <1>11, <1>12, <1>13, <1>14, <1>15, <1>16 DEF Continue

LEMMA NameReadStays ==
    ASSUME IInv, Flows, IdsOK, LinksRead, Elsewhere, NameRead, NEW w \in Windows, Continue(w)
    PROVE  NameRead'
  <1> SUFFICES ASSUME NEW v \in Windows, NEW n \in Names, n \in ToWrite(win'[v]), Id(n)' \notin Free'
               PROVE  win'[v].read[n].name = Name(n)'
    BY DEF NameRead, ToWrite
  <1>0. win'[v].pc # "idle" /\ win'[v].read[n] # None /\ n \in Handled(win'[v])
    BY IsHandled DEF ToWrite
  <1>1. /\ win'[v].cmd = win[v].cmd /\ Handled(win'[v]) \subseteq Handled(win[v])
        /\ \/ v # w /\ win'[v] = win[v]
           \/ v = w /\ Proceeds(w) /\ Follows(win[w], win'[w].pc)
    BY <1>0, WindowBack
  <1>2. CASE v # w
    <2>1. Id(n) \notin Free /\ active'[n] = active[n] /\ win'[v] = win[v]
      BY <1>0, <1>1, <1>2, OthersStay
    <2> QED
      BY <2>1 DEF NameRead, Name
  <1>3. CASE v = w /\ HasRecord(n) /\ win'[w].read[n] = active[n] /\ UNCHANGED taskVars
    BY <1>3 DEF Name, taskVars
  <1>4. CASE v = w /\ CreateRecord(w) /\ n = win[w].cmd.a
    <2> DEFINE t == NewTask(Cardinality(made) + 1, n)
    <2>1. t \in Task
      BY <1>4, Births, NewIsTask
    <2>2. /\ active' = [active EXCEPT ![n] = Stored(n, t)]
          /\ win' = [win EXCEPT ![w].pc = IF win[w].cmd.b = None THEN "activate" ELSE "parent",
                                ![w].read[n] = t]
      BY <1>4 DEF CreateRecord, Write
    <2> HIDE DEF t
    <2>3. active'[n] = Stored(n, t)
      BY <2>2 DEF IInv, StoreOK
    <2>4. win'[w].read[n] = t
      BY <2>2, WindowFacts DEF IInv, Window
    <2> QED
      BY <1>4, <2>1, <2>3, <2>4, StoredName DEF Name
  <1>5. CASE v = w /\ n \in ToWrite(win[w]) /\ win'[w].read[n] = win[w].read[n] /\ Name(n)' = Name(n)
             /\ Id(n)' = Id(n)
    <2>1. Free \subseteq Free'
      BY HistoryGrows
    <2> QED
      BY <1>5, <2>1 DEF NameRead
  <1>6. CASE v = w
    <2> DEFINE a == win[w].cmd.a
               b == win[w].cmd.b
               pc == win'[w].pc
    <2>1. /\ Proceeds(w) /\ Follows(win[w], pc) /\ win'[w].cmd = win[w].cmd
          /\ win'[w].todo \subseteq win[w].todo
      BY <1>1, <1>6 DEF Proceeds
    <2>2. \/ n = a /\ pc \in {"parent", "child", "issue", "flip", "field", "own"}
          \/ n = b /\ pc \in {"new", "parent"}
          \/ n \in win'[w].todo /\ pc \in {"own", "jsonl", "backrefs", "kids", "kid"}
      BY <1>6, <2>1 DEF ToWrite
    <2>3. CASE win[w].pc = "new"
      <3>1. CreateRecord(w) /\ pc \in {"activate", "parent"}
        BY <1>0, <1>6, <2>1, <2>3, StepsOn DEF Follows
      <3>2. CASE n # a
        <4>1. n = b
          BY <2>2, <3>1, <3>2
        <4>2. active'[n] = active[n] /\ Id(n)' = Id(n)
          BY <3>1, <3>2, Births
        <4>3. win'[w].read[n] = win[w].read[n]
          BY <1>0, <1>6, <2>1, <2>3, <3>2 DEF Proceeds, Looks
        <4>4. n \in ToWrite(win[w])
          BY <1>0, <1>6, <2>3, <4>1, <4>3 DEF ToWrite
        <4> QED
          BY <1>5, <1>6, <4>2, <4>3, <4>4 DEF Name
      <3> QED
        BY <1>4, <1>6, <3>1, <3>2
    <2>4. CASE win[w].pc \in {"hook", "load"}
      <3>1. HasRecord(a) /\ (HookRead(w) \/ ReadOwn(w)) /\ a \in Names
        BY <1>0, <1>6, <2>4, StepsOn DEF HasRecord
      <3>2. UNCHANGED taskVars
        BY <3>1 DEF HookRead, ReadOwn
      <3>3. PICK c \in Names : c = a /\ HasRecord(c) /\ (LooksAt(w, "issue", c) \/ LooksAt(w, "flip", c))
        BY <3>1 DEF HookRead, ReadOwn, LooksAt
      <3>4. win'[w].read[c] = active[c]
        <4>1. win \in [Windows -> Window] /\ win[w] \in Window
          BY WindowFacts DEF IInv
        <4> QED
          BY <3>3, <4>1 DEF LooksAt, Window
      <3>5. n = c
        BY <2>1, <2>2, <2>4, <3>3 DEF Follows
      <3> QED
        BY <1>3, <1>6, <3>2, <3>3, <3>4, <3>5
    <2>5. CASE win[w].pc \notin {"new", "hook", "load"}
      <3>1. CASE Looks(win[w], n) /\ HasRecord(n) /\ win'[w].read[n] = active[n] /\ UNCHANGED taskVars
        BY <1>3, <1>6, <3>1
      <3>2. CASE ~(Looks(win[w], n) /\ HasRecord(n) /\ win'[w].read[n] = active[n] /\ UNCHANGED taskVars)
        <4>1. win'[w].read[n] = win[w].read[n]
          BY <1>0, <1>6, <2>1, <2>5, <3>2 DEF Proceeds
        <4>2. n \in ToWrite(win[w])
          BY <1>0, <1>6, <2>1, <2>2, <2>5, <4>1 DEF ToWrite, Follows
        <4>3. ~CreateRecord(w) /\ ~RenameMove(w)
          BY <2>2, <2>5, PcsAre, GoTurns DEF CreateRecord, RenameMove, Step, IInv
        <4>4. ~(RenameOwn(w) /\ n = a)
          <5> SUFFICES ASSUME RenameOwn(w), n = a
                       PROVE  FALSE
            OBVIOUS
          <5>1. win[w].cmd.op = "rename" /\ pc = "jsonl" /\ win[w].pc # "idle"
            BY PcsAre, GoTurns DEF RenameOwn, IInv, Step
          <5> QED
            BY <2>1, <2>2, <5>1 DEF Elsewhere
        <4>5. Name(n)' = Name(n) /\ Id(n)' = Id(n)
          BY <4>3, <4>4, NameSteps, IdsMove
        <4> QED
          BY <1>5, <1>6, <4>1, <4>2, <4>5
      <3> QED
        BY <3>1, <3>2
    <2> QED
      BY <2>3, <2>4, <2>5
  <1> QED
    BY <1>2, <1>6

LEMMA ElsewhereStays ==
    ASSUME IInv, Elsewhere, NEW w \in Windows, Continue(w)
    PROVE  Elsewhere'
  <1> SUFFICES ASSUME NEW v \in Windows, win'[v].pc # "idle", win'[v].cmd.op = "rename"
               PROVE  win'[v].cmd.a \notin win'[v].todo
    BY DEF Elsewhere
  <1>1. /\ win'[v].cmd = win[v].cmd
        /\ \/ v # w /\ win'[v] = win[v]
           \/ v = w /\ Proceeds(w) /\ Follows(win[w], win'[w].pc)
    BY WindowBack
  <1>2. win'[v].todo \subseteq win[v].todo /\ win[v].pc # "idle"
    BY <1>1 DEF Proceeds, Follows
  <1> QED
    BY <1>1, <1>2 DEF Elsewhere

LEMMA NamedStays ==
    ASSUME IInv, Flows, IdsOK, LinksRead, NameRead, NewNamed, NEW w \in Windows, Continue(w)
    PROVE  NewNamed'
  <1> SUFFICES ASSUME NEW v \in Windows, NEW a \in Names, win'[v].cmd.op = "rename",
                      win'[v].pc \in {"jsonl", "backrefs"}, win'[v].cmd.a = a, Sure(a)'
               PROVE  Name(a)' = win'[v].cmd.b
    BY DEF NewNamed
  <1>1. /\ win'[v].cmd = win[v].cmd
        /\ \/ v # w /\ win'[v] = win[v]
           \/ v = w /\ Proceeds(w) /\ Follows(win[w], win'[w].pc)
    BY WindowBack
  <1>2. a = win[v].cmd.a /\ a \in Handled(win[v])
    BY <1>1, RenameOf
  <1>4. CASE v # w
    <2>1. Sure(a) /\ active'[a] = active[a] /\ win'[v] = win[v]
      BY <1>1, <1>2, <1>4, OthersSure
    <2> QED
      BY <1>2, <2>1 DEF NewNamed, Name
  <1>5. CASE v = w
    <2>1. win[w].pc \in {"own", "jsonl", "backrefs"} /\ win[w].cmd.op = "rename"
      BY <1>1, <1>5 DEF Follows
    <2>2. ~CreateRecord(w) /\ ~RenameMove(w)
      BY <1>5, <2>1, PcsAre, GoTurns DEF CreateRecord, RenameMove, Step, IInv
    <2>3. Sure(a) /\ Id(a)' \notin Free'
      BY <2>2, SureStays
    <2>4. IF RenameOwn(w) /\ win[w].cmd.a = a THEN Name(a)' = win[w].cmd.b ELSE Name(a)' = Name(a)
      BY <2>2, <2>3, NameSteps
    <2>5. win[w].pc = "own" => RenameOwn(w)
      BY <1>5, <2>1, StepsFollow DEF ArchiveOwn
    <2> QED
      BY <1>1, <1>2, <1>5, <2>1, <2>3, <2>4, <2>5 DEF NewNamed
  <1> QED
    BY <1>4, <1>5

LEMMA NameOKStays ==
    ASSUME IInv, Flows, IdsOK, MarksOK, LinksRead, NamesInv, NEW w \in Windows, Continue(w)
    PROVE  NameOK'
  <1> SUFFICES ASSUME NEW n \in Names, Sure(n)'
               PROVE  Name(n)' = n \/ \E c \in Renames : c.a = n /\ c.b = Name(n)' /\ Underway(n, c)'
    BY DEF NameOK
  <1>1. CASE /\ RenameMove(w) /\ win[w].cmd.b = n
             /\ \E o \in Names : win[w].cmd.a = o /\ Id(n)' = Id(o) /\ Sure(o)
    <2>1. PICK o \in Names : win[w].cmd.a = o /\ Sure(o) /\ active'[n] = active[o]
                             /\ win[w].pc = "backrefs" /\ win[w].cmd.op = "rename"
      BY <1>1, Moves
    <2> QED
      BY <1>1, <2>1 DEF NamesInv, NewNamed, Name
  <1>2. CASE CreateRecord(w) /\ win[w].cmd.a = n
    <2> DEFINE t == NewTask(Cardinality(made) + 1, n)
    <2>1. t \in Task
      BY <1>2, Births, NewIsTask
    <2>2. active' = [active EXCEPT ![n] = Stored(n, t)] /\ t.name = n
      BY <1>2 DEF CreateRecord, Write, NewTask
    <2> HIDE DEF t
    <2>3. active'[n] = Stored(n, t)
      BY <2>2 DEF IInv, StoreOK
    <2> QED
      BY <2>1, <2>2, <2>3, StoredName DEF Name
  <1>3. CASE Id(n)' = Id(n) /\ Sure(n)
    <2>1. Id(n) \notin Free /\ Id(n)' \notin Free'
      BY <1>3, SureRecord DEF Sure
    <2>2. CASE RenameOwn(w) /\ win[w].cmd.a = n
      <3>1. win[w].pc = "own" /\ win[w].cmd.op = "rename" /\ win'[w].pc = "jsonl" /\ win'[w].cmd = win[w].cmd
            /\ win'[w].read = win[w].read /\ win'[w].todo = win[w].todo
        BY <2>2, PcsAre, GoTurns DEF RenameOwn, IInv, Step
      <3>2. win[w].cmd \in Renames /\ n \in Handled(win[w])
        BY <2>2, <3>1, RenameOf
      <3>3. n \in Handled(win'[w])
        BY <3>1, <3>2 DEF Handled
      <3>4. PICK c \in Renames : c = win[w].cmd
        BY <3>2
      <3>7. Underway(n, c)'
        BY <3>1, <3>3, <3>4 DEF Underway, Writing
      <3>5. ~CreateRecord(w) /\ ~RenameMove(w)
        BY <3>1 DEF CreateRecord, RenameMove, MayMove, Step
      <3>6. Name(n)' = win[w].cmd.b
        BY <2>1, <2>2, <3>5, NameSteps DEF NamesInv
      <3> QED
        BY <2>2, <3>4, <3>6, <3>7
    <2>3. CASE ~(RenameOwn(w) /\ win[w].cmd.a = n)
      <3>1. Name(n)' = Name(n) /\ ~(RenameMove(w) /\ win[w].cmd.a = n)
        <4>1. CASE CreateRecord(w)
          <5>1. ~RenameMove(w)
            BY <4>1 DEF CreateRecord, RenameMove, MayMove, Step
          <5>2. CASE win[w].cmd.a = n
            <6>1. Id(n)' = Cardinality(made) + 1 /\ Cardinality(made) + 1 \notin made
              BY <4>1, <5>2, Births
            <6> QED
              BY <1>3, <2>1, <6>1 DEF IdsOK, Known, Free
          <5>3. CASE win[w].cmd.a # n
            BY <4>1, <5>1, <5>3, Births DEF Name
          <5> QED
            BY <5>2, <5>3
        <4>2. CASE RenameMove(w)
          <5>1. PICK o \in Names, b \in Names :
                  /\ o = win[w].cmd.a /\ b = win[w].cmd.b
                  /\ \A m \in Names \ {o, b} : active'[m] = active[m]
                  /\ Id(o)' = 0 /\ Id(b) = 0
            BY <4>2, Moves
          <5>2. n # o /\ n # b
            BY <2>1, <5>1, <1>3 DEF Free
          <5> QED
            BY <5>1, <5>2 DEF Name
        <4>3. CASE ~CreateRecord(w) /\ ~RenameMove(w)
          BY <2>1, <2>3, <4>3, NameSteps DEF NamesInv
        <4> QED
          BY <4>1, <4>2, <4>3
      <3>2. CASE Name(n) = n
        BY <3>1, <3>2
      <3>3. ASSUME NEW c \in Renames, c.a = n, c.b = Name(n), Underway(n, c)
            PROVE  Underway(n, c)'
        <4>1. CASE RenameMove(w) /\ c = win[w].cmd
          BY <3>1, <3>3, <4>1
        <4>2. CASE RenameSessions(w) /\ c = win[w].cmd /\ win[w].pc = "sessions"
          BY <2>1, <3>3, <4>2 DEF MarksOK, Gone
        <4> QED
          BY <1>3, <2>1, <3>3, <4>1, <4>2, UnderwayStays
      <3> QED
        BY <1>3, <3>1, <3>2, <3>3 DEF NamesInv, NameOK
    <2> QED
      BY <2>2, <2>3
  <1> QED
    BY <1>1, <1>2, <1>3, SureBack

LEMMA NamesGoOn ==
    ASSUME IInv, Flows, IdsOK, MarksOK, LinksRead, NamesInv, NEW w \in Windows, Continue(w)
    PROVE  NamesInv'
  BY ElsewhereStays, NameReadStays, NamedStays, NameOKStays DEF NamesInv

LEMMA NamesOutside ==
    ASSUME IInv, NamesInv, NEW w, Outside(w)
    PROVE  NamesInv'
  <1>1. /\ \A v \in Windows : win'[v] = win[v] \/ (v = w /\ Begins(w))
        /\ Free \subseteq Free'
        /\ \A n \in Names : /\ Id(n)' = Id(n)
                            /\ HasRecord(n) => Name(n)' = Name(n)
    BY DEF Outside
  <1>2. \A n \in Names : Id(n) \notin Free => HasRecord(n)
    BY DEF Id, Free
  <1>3. Elsewhere'
    <2>1. \A v \in Windows : win'[v] = win[v] \/ (win'[v].cmd.op = "rename" => win'[v].cmd.a \notin win'[v].todo)
      BY <1>1 DEF Begins
    <2> QED
      BY <2>1 DEF NamesInv, Elsewhere
  <1>4. NameRead'
    <2> SUFFICES ASSUME NEW v \in Windows, NEW n \in Names, n \in ToWrite(win'[v]), Id(n)' \notin Free'
                 PROVE  win'[v].read[n].name = Name(n)'
      BY DEF NameRead, ToWrite
    <2>1. Id(n) \notin Free /\ Name(n)' = Name(n)
      BY <1>1, <1>2
    <2>2. CASE win'[v] = win[v]
      BY <2>1, <2>2 DEF NamesInv, NameRead
    <2>3. CASE v = w /\ Begins(w)
      <3>1. win'[w].read[n] = active[n]
        BY <2>3 DEF Begins, Entered, ToWrite
      <3> QED
        BY <2>1, <2>3, <3>1 DEF Name
    <2> QED
      BY <1>1, <2>2, <2>3
  <1>5. NewNamed'
    <2> SUFFICES ASSUME NEW v \in Windows, NEW a \in Names, win'[v].cmd.op = "rename",
                        win'[v].pc \in {"jsonl", "backrefs"}, win'[v].cmd.a = a, Sure(a)'
                 PROVE  Name(a)' = win'[v].cmd.b
      BY DEF NewNamed
    <2>1. win'[v] = win[v]
      BY <1>1 DEF Begins, Opened
    <2>2. Sure(a) /\ HasRecord(a)
      BY OutsideKeeps
    <2> QED
      BY <1>1, <2>1, <2>2 DEF NamesInv, NewNamed
  <1>6. NameOK'
    <2> SUFFICES ASSUME NEW n \in Names, Sure(n)'
                 PROVE  Name(n)' = n \/ \E c \in Renames : c.a = n /\ c.b = Name(n)' /\ Underway(n, c)'
      BY DEF NameOK
    <2>1. Sure(n) /\ HasRecord(n) /\ \A c : Underway(n, c)' <=> Underway(n, c)
      BY OutsideKeeps
    <2> QED
      BY <1>1, <2>1 DEF NamesInv, NameOK
  <1> QED
    BY <1>3, <1>4, <1>5, <1>6 DEF NamesInv

LEMMA NamesStart == Init => NamesInv
  <1> SUFFICES ASSUME Init
               PROVE  NamesInv
    OBVIOUS
  <1>1. \A w \in Windows : win[w] = Idle
    BY DEF Init
  <1>2. Elsewhere /\ NameRead /\ NewNamed
    BY <1>1, IdleIs DEF Elsewhere, NameRead, NewNamed, ToWrite
  <1>3. NameOK
    <2> SUFFICES ASSUME NEW n \in Names, Sure(n)
                 PROVE  Name(n) = n
      BY DEF NameOK
    <2>1. First[n] # None
      BY SureRecord DEF Init, HasRecord
    <2> QED
      BY <2>1, FirstLinks DEF Init, Name
  <1> QED
    BY <1>2, <1>3 DEF NamesInv

-----------------------------------------------------------------------------
(* What a link and an archive rely on in the tasks they are about.         *)

\* A task in the archive is not at its old place.
Away ==
    \A w \in Windows, n \in Names :
        win[w].pc \in {"add", "rm", "commit"} /\ win[w].cmd.a = n => Id(n) \in Free

\* The task to be listed is there...
ChildThere ==
    \A w \in Windows, a, b \in Names :
        win[w].pc = "parent" /\ Links(win[w].cmd) /\ win[w].cmd.a = a /\ win[w].cmd.b = b /\ Sure(b)
            => HasRecord(a)

\* ... and has no parent yet.
LinkOrphan ==
    \A w \in Windows, a \in Names :
        win[w].pc \in {"parent", "child"} /\ Links(win[w].cmd) /\ win[w].cmd.a = a /\ Sure(a)
            => Parent(a) = None

\* A task is taken out of the list before its parent is cleared.
UnlinkFirst ==
    \A w \in Windows, a, b \in Names :
        win[w].pc = "child" /\ win[w].cmd.op = "unlink" /\ win[w].cmd.a = a /\ win[w].cmd.b = b
                /\ a # b /\ Sure(b)
            => ~HasKid(b, a)

LinkSteps == Away /\ ChildThere /\ LinkOrphan /\ UnlinkFirst

LEMMA AwayStays ==
    ASSUME IInv, Flows, IdsOK, Away, NEW w \in Windows, Continue(w)
    PROVE  Away'
  <1> SUFFICES ASSUME NEW v \in Windows, NEW n \in Names, win'[v].pc \in {"add", "rm", "commit"},
                      win'[v].cmd.a = n, Id(n)' \notin Free'
               PROVE  FALSE
    BY DEF Away
  <1>1. /\ win[v].cmd = win'[v].cmd
        /\ \/ v # w /\ win'[v] = win[v]
           \/ v = w /\ Follows(win[w], win'[w].pc)
    BY WindowBack
  <1>2. Free \subseteq Free'
    BY HistoryGrows
  <1>3. CASE v # w
    <2>1. n \in Handled(win[v]) /\ win[v].pc \in {"add", "rm", "commit"}
      BY <1>1, <1>3, IsHandled, TasksAssumption DEF TasksAssumption
    <2>2. Id(n)' = Id(n)
      BY <1>3, <2>1, OthersMove
    <2> QED
      BY <1>1, <1>2, <2>1, <2>2 DEF Away
  <1>4. CASE v = w
    <2>1. win[w].pc \in {"shelve", "add", "rm"}
      BY <1>1, <1>4 DEF Follows
    <2>2. ~CreateRecord(w) /\ ~RenameMove(w)
      BY <2>1 DEF CreateRecord, RenameMove, MayMove, Step
    <2>3. Id(n)' = Id(n)
      BY <2>2, IdsMove
    <2>4. CASE win[w].pc = "shelve"
      <3>1. ArchiveMove(w)
        <4>1. ArchiveMove(w) \/ win'[w] = Idle
          BY <2>4, LeaveTurns DEF IInv, Continue, Step, GiveUp, MayMove, RenameBackref, RenameMove,
             RenameBlocked, ArchiveBlocked, Stop, CreateRecord, CreateFails, CreateActivate, HookRead,
             HookWrite, WriteParent, WriteChild, WriteFails, RenameOwn, RenameManifest, RenameTorn,
             RenameSessions, ArchiveOwn, ArchiveReadKid, ArchiveUnlink, ArchiveSessions,
             CommitAdd, CommitRm, CommitArchive, StartGate, StartPoint, ReadOwn, StartFlip, FinishClear, FieldWrite
        <4> QED
          BY <1>4, <4>1, IdleIs
      <3>2. Id(n)' = 0
        BY <1>1, <1>4, <3>1, Shelves
      <3> QED
        BY <1>2, <3>2 DEF Free
    <2>5. CASE win[w].pc # "shelve"
      BY <1>1, <1>2, <1>4, <2>1, <2>3, <2>5 DEF Away
    <2> QED
      BY <2>4, <2>5
  <1> QED
    BY <1>1, <1>3, <1>4

LEMMA ChildThereStays ==
    ASSUME IInv, Flows, IdsOK, Tied, ChildThere, NEW w \in Windows, Continue(w)
    PROVE  ChildThere'
  <1> SUFFICES ASSUME NEW v \in Windows, NEW a \in Names, NEW b \in Names, win'[v].pc = "parent",
                      Links(win'[v].cmd), win'[v].cmd.a = a, win'[v].cmd.b = b, Sure(b)'
               PROVE  HasRecord(a)'
    BY DEF ChildThere
  <1>1. /\ win[v].cmd = win'[v].cmd
        /\ \/ v # w /\ win'[v] = win[v]
           \/ v = w /\ Follows(win[w], win'[w].pc)
    BY WindowBack
  <1>2. CASE v # w
    <2>1. win[v].pc = "parent" /\ a \in Handled(win[v]) /\ b \in Handled(win[v])
      BY <1>1, <1>2, IsHandled, TasksAssumption DEF TasksAssumption
    <2>2. Sure(b)
      BY <1>2, <2>1, OthersSure
    <2>3. HasRecord(a) /\ Id(b) \notin Free
      BY <1>1, <2>1, <2>2, SureRecord DEF ChildThere
    <2>4. a \notin Handled(win[w])
      BY <1>1, <1>2, <2>1, <2>3 DEF Tied
    <2> QED
      BY <2>3, <2>4, Untouched, SameRecord
  <1>3. CASE v = w
    <2>1. win[w].pc = "new"
      BY <1>1, <1>3 DEF Follows
    <2>2. CreateRecord(w)
      BY <1>3, <2>1, StepsOn
    <2> QED
      BY <1>1, <1>3, <2>2, BornLinks
  <1> QED
    BY <1>1, <1>2, <1>3

LEMMA LinkOrphanStays ==
    ASSUME IInv, Flows, IdsOK, LinksRead, LinkOrphan, NEW w \in Windows, Continue(w)
    PROVE  LinkOrphan'
  <1> SUFFICES ASSUME NEW v \in Windows, NEW a \in Names, win'[v].pc \in {"parent", "child"},
                      Links(win'[v].cmd), win'[v].cmd.a = a, Sure(a)'
               PROVE  Parent(a)' = None
    BY DEF LinkOrphan
  <1>1. /\ win[v].cmd = win'[v].cmd
        /\ \/ v # w /\ win'[v] = win[v]
           \/ v = w /\ Follows(win[w], win'[w].pc)
    BY WindowBack
  <1>2. CASE v # w
    <2>1. win[v].pc \in {"parent", "child"} /\ a \in Handled(win[v])
      BY <1>1, <1>2, IsHandled, TasksAssumption DEF TasksAssumption
    <2>2. Sure(a) /\ active'[a] = active[a]
      BY <1>2, <2>1, OthersSure
    <2> QED
      BY <1>1, <2>1, <2>2, SameRecord DEF LinkOrphan
  <1>3. CASE v = w /\ win[w].pc = "new"
    <2>1. CreateRecord(w)
      BY <1>3, StepsOn
    <2> QED
      BY <1>1, <1>3, <2>1, BornLinks
  <1>4. CASE v = w /\ win[w].pc = "parent"
    <2>1. WriteParent(w)
      BY <1>4, StepsFollow
    <2>2. ~CreateRecord(w) /\ ~RenameMove(w)
      BY <1>4 DEF CreateRecord, RenameMove, MayMove, Step
    <2>3. Sure(a) /\ Id(a)' \notin Free'
      BY <2>2, SureStays
    <2>4. Parent(a) = None
      BY <1>1, <1>4, <2>3 DEF LinkOrphan
    <2>5. Parent(a)' = Parent(a)
      <3>1. PICK b \in Names :
              /\ \A m \in Names \ {b} : active'[m] = active[m]
              /\ Id(b)' \in Free' \/ Parent(b)' = Parent(b)
        BY <2>1, WritesParent
      <3> QED
        BY <2>3, <3>1 DEF Parent
    <2> QED
      BY <2>4, <2>5
  <1> QED
    BY <1>1, <1>2, <1>3, <1>4 DEF Follows

LEMMA UnlinkFirstStays ==
    ASSUME IInv, Flows, IdsOK, LinksRead, UnlinkFirst, NEW w \in Windows, Continue(w)
    PROVE  UnlinkFirst'
  <1> SUFFICES ASSUME NEW v \in Windows, NEW a \in Names, NEW b \in Names, win'[v].pc = "child",
                      win'[v].cmd.op = "unlink", win'[v].cmd.a = a, win'[v].cmd.b = b, a # b, Sure(b)'
               PROVE  ~HasKid(b, a)'
    BY DEF UnlinkFirst
  <1>1. /\ win[v].cmd = win'[v].cmd
        /\ \/ v # w /\ win'[v] = win[v]
           \/ v = w /\ Follows(win[w], win'[w].pc)
    BY WindowBack
  <1>2. CASE v # w
    <2>1. win[v].pc = "child" /\ b \in Handled(win[v])
      BY <1>1, <1>2, IsHandled, TasksAssumption DEF TasksAssumption
    <2>2. Sure(b) /\ active'[b] = active[b]
      BY <1>2, <2>1, OthersSure
    <2> QED
      BY <1>1, <2>1, <2>2, SameRecord DEF UnlinkFirst
  <1>3. CASE v = w
    <2>1. WriteParent(w)
      BY <1>1, <1>3, StepsFollow DEF Follows
    <2>2. Id(b)' \notin Free'
      BY DEF Sure
    <2> QED
      BY <1>1, <1>3, <2>1, <2>2, WritesParent DEF Links
  <1> QED
    BY <1>1, <1>2, <1>3

LEMMA LinkStepsGoOn ==
    ASSUME IInv, Flows, IdsOK, LinksInv, LinkSteps, NEW w \in Windows, Continue(w)
    PROVE  LinkSteps'
  BY AwayStays, ChildThereStays, LinkOrphanStays, UnlinkFirstStays DEF LinkSteps, LinksInv

LEMMA LinkStepsOutside ==
    ASSUME LinkSteps, NEW w, Outside(w)
    PROVE  LinkSteps'
  <1>1. /\ \A v \in Windows : win'[v] = win[v] \/ (v = w /\ Begins(w))
        /\ Free \subseteq Free'
        /\ \A n \in Names :
              /\ Id(n)' = Id(n)
              /\ HasRecord(n) => /\ HasRecord(n)' /\ Parent(n)' = Parent(n)
                                 /\ \A x : HasKid(n, x)' <=> HasKid(n, x)
              /\ Sure(n)' => Sure(n) /\ HasRecord(n)
    BY OutsideKeeps DEF Outside
  <1>2. Away'
    BY <1>1 DEF LinkSteps, Away, Begins, Opened
  <1>3. ChildThere'
    <2> SUFFICES ASSUME NEW v \in Windows, NEW a \in Names, NEW b \in Names, win'[v].pc = "parent",
                        Links(win'[v].cmd), win'[v].cmd.a = a, win'[v].cmd.b = b, Sure(b)'
                 PROVE  HasRecord(a)'
      BY DEF ChildThere
    <2>1. HasRecord(a)
      BY <1>1 DEF LinkSteps, ChildThere, Begins
    <2> QED
      BY <1>1, <2>1
  <1>4. LinkOrphan'
    <2> SUFFICES ASSUME NEW v \in Windows, NEW a \in Names, win'[v].pc \in {"parent", "child"},
                        Links(win'[v].cmd), win'[v].cmd.a = a, Sure(a)'
                 PROVE  Parent(a)' = None
      BY DEF LinkOrphan
    <2>1. win'[v] = win[v] => Parent(a) = None
      BY <1>1 DEF LinkSteps, LinkOrphan
    <2>2. v = w /\ Begins(w) => Parent(a) = None
      BY DEF Begins, Opened, Links
    <2> QED
      BY <1>1, <2>1, <2>2
  <1>5. UnlinkFirst'
    <2> SUFFICES ASSUME NEW v \in Windows, NEW a \in Names, NEW b \in Names, win'[v].pc = "child",
                        win'[v].cmd.op = "unlink", win'[v].cmd.a = a, win'[v].cmd.b = b, a # b, Sure(b)'
                 PROVE  ~HasKid(b, a)'
      BY DEF UnlinkFirst
    <2>1. win'[v] = win[v]
      BY <1>1 DEF Begins, Opened
    <2> QED
      BY <1>1, <2>1 DEF LinkSteps, UnlinkFirst
  <1> QED
    BY <1>2, <1>3, <1>4, <1>5 DEF LinkSteps

LEMMA LinkStepsStart == Init => LinkSteps
  <1> SUFFICES ASSUME Init
               PROVE  LinkSteps
    OBVIOUS
  <1>1. \A w \in Windows : win[w] = Idle
    BY DEF Init
  <1> QED
    BY <1>1, IdleIs DEF LinkSteps, Away, ChildThere, LinkOrphan, UnlinkFirst

-----------------------------------------------------------------------------
(* The tasks a list names are there, or in the archive, but for those that *)
(* a rename under way will move there.                                     *)

\* There is no task of that name, or another one is about to take it.
Missing(x) == Expected(x) \/ ~(HasRecord(x) \/ archived[x] # None)

KidsAwaited ==
    \A n, x \in Names : n # x /\ Sure(n) /\ HasKid(n, x) /\ Missing(x) =>
        \E c \in Renames : c.b = x /\ Underway(n, c)

LEMMA ExpectedBack ==
    ASSUME IInv, Flows, IdsOK, NEW w \in Windows, Continue(w), NEW p \in Names, Expected(p)'
    PROVE  Expected(p)
  <1>1. PICK v \in Windows :
            \/ Moving(v)' /\ Clear(win[v].cmd.a)' /\ win'[v].cmd.b = p
            \/ win'[v].pc = "new" /\ win'[v].cmd.op = "create" /\ win'[v].cmd.a = p
    BY DEF Expected
  <1>2. CASE win'[v].pc = "new"
    <2>1. win'[v] = win[v]
      BY <1>2, Turns, TurnShows, IdleIs
    <2> QED
      BY <1>1, <1>2, <2>1 DEF Expected, Moving
  <1>3. CASE Moving(v)' /\ Clear(win[v].cmd.a)' /\ win'[v].cmd.b = p
    <2>1. win'[v].pc \in {"own", "jsonl", "backrefs"} /\ win[v].cmd = win'[v].cmd
          /\ win[v].cmd.op = "rename"
      BY <1>3, WindowBack DEF Moving
    <2>2. \/ v # w /\ win'[v] = win[v]
          \/ v = w /\ Follows(win[w], win'[w].pc)
      BY <2>1, WindowBack
    <2>3. Moving(v)
      BY <2>1, <2>2 DEF Moving, Follows
    <2>4. PICK a \in Names : a = win[v].cmd.a /\ a \in Handled(win[v]) /\ win'[v].cmd.a = a
      BY <2>1, RenameOf, RenamesAre
    <2>5. Clear(a)'
      BY <1>3, <2>4
    <2>6. Clear(a)
      <3>1. CASE v # w
        BY <2>4, <2>5, <3>1, OthersClear
      <3>2. CASE v = w
        <4>1. ~CreateRecord(w) /\ ~RenameMove(w)
          BY <2>1, <2>3, <3>2, PcsAre, GoTurns DEF RenameMove, CreateRecord, Step, IInv, Moving
        <4> QED
          BY <2>4, <2>5, <4>1, ClearBack
      <3> QED
        BY <3>1, <3>2
    <2> QED
      BY <1>3, <2>1, <2>3, <2>4, <2>6 DEF Expected
  <1> QED
    BY <1>1, <1>2, <1>3 DEF Moving

\* A task that is at its place no more has been moved, or its record is cut off.
LEMMA RecordLost ==
    ASSUME IInv, Flows, IdsOK, NEW w \in Windows, Continue(w), NEW x \in Names, HasRecord(x), ~HasRecord(x)'
    PROVE  \/ RenameMove(w) /\ win[w].cmd.a = x
           \/ ArchiveMove(w) /\ win[w].cmd.a = x
           \/ /\ HookWrite(w) /\ win[w].cmd.a = x /\ Astray(x, win[w].cmd) \subseteq broken'
              /\ \A m \in Names \ {x} : active'[m] = active[m]
  <1>1. active'[x] # active[x]
    BY DEF HasRecord
  <1>2. ASSUME NEW t \in Task, active'[x] = t
        PROVE  FALSE
    BY <1>2, TasksAssumption DEF HasRecord, TasksAssumption
  <1>3. CASE CreateRecord(w)
    BY <1>1, <1>3, BornLinks
  <1>4. CASE CreateFails(w)
    <2>1. \/ active' = active
          \/ active[win[w].cmd.a] = Bare /\ active' = [active EXCEPT ![win[w].cmd.a] = None]
      BY <1>4 DEF CreateFails
    <2> QED
      BY <1>1, <2>1 DEF HasRecord, IInv, StoreOK
  <1>5. CASE HookWrite(w)
    <2>1. PICK a \in Names : a = win[w].cmd.a /\ win[w].read[a] \in Task
      <3>1. WindowOK(win[w]) /\ win[w].pc = "issue"
        BY <1>5, WindowFacts DEF HookWrite, Step, IInv
      <3> QED
        BY <3>1 DEF WindowOK, ReadA
    <2>2. CASE active' = [active EXCEPT ![a] = IF @ = None THEN None ELSE Stored(a, win[w].read[a])]
      <3>1. x = a /\ active'[a] = Stored(a, win[w].read[a])
        BY <1>1, <2>1, <2>2 DEF IInv, StoreOK, HasRecord
      <3>2. Stored(a, win[w].read[a]) \in Task
        BY <2>1, StoredIsTask DEF IInv
      <3> QED
        BY <1>2, <3>1, <3>2
    <2>3. CASE /\ active' = [active EXCEPT ![a] = Bare]
               /\ broken' = broken \cup Mark(Handled(win[w]), [win[w].cmd EXCEPT !.op = "sync"])
                                  \cup Astray(a, win[w].cmd)
      <3>1. x = a /\ \A m \in Names \ {a} : active'[m] = active[m]
        BY <1>1, <2>1, <2>3 DEF IInv, StoreOK
      <3> QED
        BY <1>5, <2>1, <2>3, <3>1
    <2> QED
      BY <1>5, <2>1, <2>2, <2>3 DEF HookWrite
  <1>6. CASE RenameMove(w)
    <2>1. PICK o \in Names, b \in Names :
            /\ o = win[w].cmd.a /\ \A k \in Names \ {o, b} : active'[k] = active[k]
            /\ Id(b) = 0
      BY <1>6, Moves
    <2>2. x # b
      BY <2>1, IdIs DEF IInv
    <2> QED
      BY <1>1, <1>6, <2>1, <2>2
  <1>7. CASE ArchiveMove(w)
    BY <1>1, <1>7, Shelves
  <1>8. CASE ~CreateRecord(w) /\ ~CreateFails(w) /\ ~HookWrite(w) /\ ~RenameMove(w) /\ ~ArchiveMove(w)
    <2>1. UNCHANGED taskVars \/ \E m, t : Rewrite(w, m, t)
      BY <1>8, Rewrites
    <2>2. ASSUME NEW m, NEW t, Rewrite(w, m, t)
          PROVE  FALSE
      <3>1. active' = [active EXCEPT ![m] = t] /\ t \in Task /\ m \in Names
        BY <2>2 DEF Rewrite
      <3>2. active'[x] = t
        BY <1>1, <3>1 DEF IInv, StoreOK
      <3> QED
        BY <1>2, <3>1, <3>2
    <2> QED
      BY <1>1, <2>1, <2>2 DEF taskVars
  <1> QED
    BY <1>3, <1>4, <1>5, <1>6, <1>7, <1>8

\* The tasks that name a task whose record is cut off, or that has gone, are not sure any more.
LEMMA AstrayBlames ==
    ASSUME IInv, NEW o \in Names, NEW c \in Command, Astray(o, c) \subseteq broken',
           NEW n \in Names, HasRecord(n), Mentions(n, o)
    PROVE  Id(n) \in Lasting'
  <1> DEFINE u == [c EXCEPT !.op = "link"]
  <1>1. u.op = "link"
    BY DEF Command
  <1>2. n \in Namers(o)
    BY DEF Namers, Records
  <1>3. Mark(Namers(o), u) \subseteq broken'
    BY DEF Astray
  <1> HIDE DEF u
  <1>4. Id(n) \in IdsAt(Namers(o))
    BY <1>2 DEF IdsAt, Id
  <1>5. [id |-> Id(n), by |-> u] \in broken'
    BY <1>3, <1>4 DEF Mark
  <1> QED
    BY <1>1, <1>5 DEF Lasting, Retryable

LEMMA MissingBack ==
    ASSUME IInv, Flows, IdsOK, NEW w \in Windows, Continue(w), NEW n \in Names, NEW x \in Names,
           n # x, Sure(n)', Missing(x)', Mentions(n, x)'
    PROVE  Missing(x) \/ (RenameMove(w) /\ win[w].cmd.a = x)
  <1>1. CASE Expected(x)'
    BY <1>1, ExpectedBack DEF Missing
  <1>2. CASE ~HasRecord(x)' /\ archived'[x] = None
    <2>1. CASE ArchiveMove(w)
      <3>1. archived[x] = None /\ HasRecord(x) = HasRecord(x)'
        <4>1. PICK a \in Names :
                /\ active[a] # None /\ archived'[a] = active[a]
                /\ \A m \in Names \ {a} : active'[m] = active[m] /\ archived'[m] = archived[m]
          BY <2>1, Shelves
        <4>2. x # a
          BY <1>2, <4>1
        <4> QED
          BY <1>2, <4>1, <4>2, SameRecord
      <3> QED
        BY <1>2, <3>1 DEF Missing
    <2>2. CASE ~ArchiveMove(w)
      <3>1. archived[x] = None
        BY <1>2, <2>2, ArchiveStays
      <3>2. CASE /\ HookWrite(w) /\ win[w].cmd.a = x /\ Astray(x, win[w].cmd) \subseteq broken'
                 /\ \A m \in Names \ {x} : active'[m] = active[m]
        <4>1. active'[n] = active[n] /\ win[w].cmd \in Command
          BY <3>2, WindowFacts DEF IInv
        <4>2. Id(n)' = Id(n) /\ HasRecord(n) /\ Mentions(n, x)
          <5>1. Id(n)' = Id(n)
            BY <4>1, SameRecord
          <5>2. HasRecord(n)'
            BY DEF Sure, Id, Free
          <5> QED
            BY <4>1, <5>1, <5>2, SameRecord DEF Mentions
        <4> QED
          BY <3>2, <4>1, <4>2, AstrayBlames DEF Sure
      <3>3. CASE ~HasRecord(x)
        BY <3>1, <3>3 DEF Missing
      <3> QED
        BY <1>2, <2>2, <3>2, <3>3, RecordLost
    <2> QED
      BY <2>1, <2>2
  <1> QED
    BY <1>1, <1>2 DEF Missing

\* A rename that moves a task was done with all that name it.
LEMMA MovesLast ==
    ASSUME IInv, Flows, IdsOK, Covered, NEW w \in Windows, Continue(w), RenameMove(w),
           NEW n \in Names, NEW x \in Names, n # x, Sure(n)', Mentions(n, x)', win[w].cmd.a = x
    PROVE  FALSE
  <1>1. PICK b \in Names :
          /\ x # b /\ b = win[w].cmd.b /\ win[w].pc = "backrefs" /\ win[w].cmd.op = "rename"
          /\ active'[b] = active[x] /\ Id(x)' = 0 /\ Id(b)' = Id(x)
          /\ \A k \in Names \ {x, b} : active'[k] = active[k] /\ Id(k)' = Id(k)
    BY Moves
  <1>2. Free \subseteq Free' /\ Lasting \subseteq Lasting' /\ Id(n)' \notin Free' /\ Id(n)' \notin Lasting'
    BY HistoryGrows, LastingGrows DEF Sure
  <1>3. CASE n = b
    <2>1. HasRecord(x) /\ Mentions(x, x)
      <3>1. Id(x) # 0
        BY <1>1, <1>2, <1>3 DEF Free
      <3> QED
        BY <1>1, <1>3, <3>1 DEF Id, Mentions
    <2> DEFINE u == [win[w].cmd EXCEPT !.op = "unlink"]
    <2>2. Mark({x}, u) \subseteq broken'
      <3>1. {m \in {x} : HasRecord(x) /\ Mentions(x, x)} = {x}
        BY <2>1
      <3> QED
        BY <3>1 DEF RenameMove
    <2>3. u.op = "unlink"
      BY WindowFacts DEF Command, IInv
    <2> HIDE DEF u
    <2>4. Id(x) \in IdsAt({x})
      BY <2>1 DEF IdsAt, Id
    <2>5. [id |-> Id(x), by |-> u] \in broken'
      BY <2>2, <2>4 DEF Mark
    <2>6. Id(x) \in Lasting'
      BY <2>3, <2>5 DEF Lasting, Retryable
    <2> QED
      BY <1>1, <1>2, <1>3, <2>6
  <1>4. CASE n # b
    <2>1. active'[n] = active[n] /\ Id(n)' = Id(n)
      BY <1>1, <1>4
    <2>2. Clear(n) /\ Mentions(n, x)
      <3>1. Sure(n)
        BY <1>2, <2>1 DEF Sure
      <3> QED
        BY <2>1, <3>1, SureClear DEF Mentions
    <2>3. Moving(w) /\ win[w].todo = {}
      BY <1>1 DEF Moving, RenameMove, MayMove
    <2> QED
      BY <2>2, <2>3 DEF Covered
  <1> QED
    BY <1>3, <1>4

\* A name that another window is about to take is tied to it.
LEMMA TakenSoon ==
    ASSUME IInv, Flows, IdsOK, Tied, NEW w \in Windows, NEW x \in Names, Expected(x),
           x \in Handled(win[w]), win[w].pc \notin {"own", "jsonl", "backrefs", "new"}
    PROVE  /\ Id(x) \in Free
           /\ Links(win[w].cmd) => \A n \in Handled(win[w]) : Id(n) \in Free
  <1>1. PICK v \in Windows : x \in Handled(win[v]) /\ win[v].pc \in {"own", "jsonl", "backrefs", "new"}
    BY OpenHandled
  <1>2. v # w
    BY <1>1
  <1> QED
    BY <1>1, <1>2, Both DEF Tied

LEMMA KidsAwaitedStays ==
    ASSUME IInv, Flows, IdsOK, MarksOK, LinksInv, LinkSteps, KidsAwaited, NEW w \in Windows, Continue(w)
    PROVE  KidsAwaited'
  <1> SUFFICES ASSUME NEW n \in Names, NEW x \in Names, n # x, Sure(n)', HasKid(n, x)', Missing(x)'
               PROVE  \E c \in Renames : c.b = x /\ Underway(n, c)'
    BY DEF KidsAwaited
  <1>1. Mentions(n, x)' /\ Id(n)' \notin Free'
    BY DEF Mentions, HasKid, Sure
  <1>2. Tied /\ Covered /\ LinksRead /\ ChildThere
    BY DEF LinksInv, LinkSteps
  <1>3. Missing(x) /\ ~(RenameMove(w) /\ win[w].cmd.a = x)
    BY <1>1, <1>2, MissingBack, MovesLast
  <1>4. ASSUME Sure(n), Id(n)' = Id(n), NEW c \in Renames, c.b = x, Underway(n, c), ~RenameMove(w)
        PROVE  Underway(n, c)'
    <2>1. ASSUME RenameSessions(w), c = win[w].cmd, win[w].pc = "sessions",
                 ~(IdsAt({c.b}) \subseteq crossed)
          PROVE  FALSE
      <3>1. HasRecord(x) /\ Id(x) \notin Free
        <4>1. HasRecord(x) /\ active[x].id \notin crossed
          BY <1>4, <2>1 DEF IdsAt
        <4>2. Id(x) \in Ids
          BY <4>1, RecordIs DEF Id, Task, IInv
        <4> QED
          BY <4>1, <4>2 DEF Id, Free, Ids
      <3>2. Expected(x)
        BY <1>3, <3>1 DEF Missing
      <3>3. x \in Handled(win[w])
        BY <1>4, <2>1, RenameOf, RenamesAre
      <3> QED
        BY <1>2, <2>1, <3>1, <3>2, <3>3, TakenSoon
    <2> QED
      BY <1>4, <2>1, SureRecord, UnderwayStays
  <1>5. CASE CreateRecord(w)
    <2>1. n # win[w].cmd.a
      BY <1>5, BornLinks
    <2>2. active'[n] = active[n] /\ ~RenameMove(w)
      BY <1>5, <2>1, BornLinks DEF CreateRecord, RenameMove, MayMove, Step
    <2>3. Sure(n) /\ Id(n)' = Id(n) /\ HasKid(n, x)
      BY <2>1, <2>2, SureBack, SameRecord
    <2> QED
      BY <1>3, <1>4, <2>2, <2>3 DEF KidsAwaited
  <1>6. CASE RenameMove(w)
    <2>1. PICK o \in Names, b \in Names :
            /\ o = win[w].cmd.a /\ b = win[w].cmd.b /\ o # b /\ o \in Handled(win[w])
            /\ b \in Handled(win[w]) /\ win[w].pc = "backrefs" /\ win[w].cmd.op = "rename"
            /\ active'[b] = active[o] /\ Id(o)' = 0 /\ Id(b)' = Id(o)
            /\ \A k \in Names \ {o, b} : active'[k] = active[k] /\ Id(k)' = Id(k)
      BY <1>6, Moves
    <2>2. n # o /\ x # o
      BY <1>1, <1>3, <1>6, <2>1 DEF Free
    <2>3. ~CreateRecord(w)
      BY <2>1 DEF CreateRecord, Step
    <2>4. CASE n = b
      <3>1. Sure(o) /\ HasKid(o, x) /\ Id(o) \notin Free
        <4>1. Sure(o)
          BY <1>1, <2>1, <2>4, HistoryGrows, LastingGrows DEF Sure
        <4>2. HasKid(o, x)
          BY <2>1, <2>4 DEF HasKid
        <4> QED
          BY <4>1, <4>2 DEF Sure
      <3>2. PICK c \in Renames : c.b = x /\ Underway(o, c)
        BY <1>3, <2>2, <3>1 DEF KidsAwaited
      <3>3. win[w].cmd = c
        BY <2>1, <3>1, <3>2, Owner
      <3> QED
        BY <2>1, <2>4, <3>2, <3>3
    <2>5. CASE n # b
      <3>1. active'[n] = active[n] /\ Id(n)' = Id(n) /\ HasKid(n, x)
        BY <2>1, <2>2, <2>5 DEF HasKid
      <3>2. Sure(n) /\ Id(n) \notin Free /\ HasRecord(n)
        <4>1. Sure(n)
          BY <3>1, HistoryGrows, LastingGrows DEF Sure
        <4> QED
          BY <4>1, SureRecord
      <3>3. PICK c \in Renames : c.b = x /\ Underway(n, c)
        BY <1>3, <3>1, <3>2 DEF KidsAwaited
      <3>4. ASSUME c = win[w].cmd, n \in Handled(win[w])
            PROVE  FALSE
        <4>1. x = b
          BY <2>1, <3>3, <3>4
        <4>2. CASE HasRecord(o)
          <5>1. HasRecord(b)'
            BY <2>1, <4>2 DEF HasRecord
          <5>2. Expected(x)'
            BY <4>1, <5>1 DEF Missing
          <5>3. PICK v \in Windows :
                  \/ Moving(v)' /\ win'[v].cmd.b = x
                  \/ win'[v].pc = "new" /\ win'[v].cmd.a = x
            BY <5>2 DEF Expected
          <5>4. win'[w].pc = "sessions"
            BY <1>6, PcsAre, GoTurns DEF RenameMove, IInv
          <5>5. v # w /\ win'[v].pc # "idle" /\ x \in Handled(win'[v])
            BY <5>3, <5>4, IsHandled, TasksAssumption DEF Moving, TasksAssumption
          <5>6. x \in Handled(win[v])
            BY <5>5, WindowBack
          <5> QED
            BY <1>2, <2>1, <3>2, <3>4, <4>1, <5>5, <5>6 DEF Tied
        <4>3. CASE ~HasRecord(o)
          <5>1. Astray(b, win[w].cmd) \subseteq broken'
            BY <1>6, <2>1, <4>3 DEF RenameMove
          <5>2. Mentions(n, b) /\ win[w].cmd \in Command
            BY <3>1, <4>1, WindowFacts DEF Mentions, HasKid, IInv
          <5> QED
            BY <3>1, <3>2, <5>1, <5>2, AstrayBlames DEF Sure
        <4> QED
          BY <4>2, <4>3
      <3>5. ~RenameSessions(w)
        BY <2>1 DEF RenameSessions, Step
      <3> QED
        BY <3>1, <3>2, <3>3, <3>4, <3>5, UnderwayStays
    <2> QED
      BY <2>4, <2>5
  <1>7. CASE ~CreateRecord(w) /\ ~RenameMove(w)
    <2>1. Id(n)' = Id(n) /\ Sure(n) /\ Id(n) \notin Free
      BY <1>7, SureStays
    <2>2. ListSet(w, n, x)
      BY <1>1, <1>2, <1>7, LinkChanges
    <2>3. CASE HasKid(n, x)
      BY <1>3, <1>4, <1>7, <2>1, <2>3 DEF KidsAwaited
    <2>4. ASSUME WriteParent(w), Links(win[w].cmd), win[w].cmd.a = x, win[w].cmd.b = n,
                 win[w].pc = "parent", n \in Handled(win[w]), x \in Handled(win[w])
          PROVE  FALSE
      <3>1. HasRecord(x)
        BY <1>2, <2>1, <2>4 DEF ChildThere
      <3>2. Expected(x)
        BY <1>3, <3>1 DEF Missing
      <3> QED
        BY <1>2, <2>1, <2>4, <3>2, TakenSoon
    <2>5. ASSUME RenameBackref(w), n \in Handled(win[w]), x = win[w].cmd.b, win[w].cmd.op = "rename",
                 win'[w].pc = "backrefs", win'[w].cmd = win[w].cmd,
                 Handled(win[w]) \subseteq Handled(win'[w])
          PROVE  \E c \in Renames : c.b = x /\ Underway(n, c)'
      <3>1. PICK c : c = win[w].cmd /\ c.op = "rename"
        BY <2>5
      <3> QED
        BY <2>5, <3>1, BackrefUnderway
    <2> QED
      BY <2>2, <2>3, <2>4, <2>5 DEF ListSet
  <1> QED
    BY <1>5, <1>6, <1>7

\* What a call does not take away was missing before.
LEMMA MissingOutside ==
    ASSUME IInv, Flows, NEW w, Outside(w), NEW x \in Names, Missing(x)'
    PROVE  Missing(x)
  <1>1. archived' = archived /\ \A v \in Windows : win'[v] = win[v] \/ (v = w /\ Begins(w))
    BY DEF Outside
  <1>2. CASE ~HasRecord(x)' /\ archived'[x] = None
    BY <1>1, <1>2 DEF Missing, Outside
  <1>3. ASSUME NEW v \in Windows,
               \/ Moving(v)' /\ Clear(win[v].cmd.a)' /\ win'[v].cmd.b = x
               \/ win'[v].pc = "new" /\ win'[v].cmd.op = "create" /\ win'[v].cmd.a = x,
               win'[v] = win[v]
        PROVE  Missing(x)
    <2>1. CASE win'[v].pc = "new"
      BY <1>3, <2>1 DEF Missing, Expected, Moving
    <2>2. CASE Moving(v)' /\ Clear(win[v].cmd.a)' /\ win'[v].cmd.b = x
      <3>1. Moving(v) /\ win[v].cmd.op = "rename" /\ win[v].cmd.b = x
        BY <1>3, <2>2 DEF Moving
      <3>2. PICK a \in Names : a = win[v].cmd.a /\ win'[v].cmd.a = a
        BY <1>3, <3>1, RenameOf, RenamesAre
      <3>3. Clear(a)'
        BY <2>2, <3>2
      <3>4. Clear(a)
        BY <3>3, OutsideKeeps
      <3> QED
        BY <3>1, <3>2, <3>4 DEF Missing, Expected
    <2> QED
      BY <1>3, <2>1, <2>2
  <1>4. ASSUME Begins(w), \/ Moving(w)' /\ win'[w].cmd.b = x
                          \/ win'[w].pc = "new" /\ win'[w].cmd.op = "create" /\ win'[w].cmd.a = x
        PROVE  Missing(x)
    <2>1. Unused(x)
      BY <1>4 DEF Begins, Joined, Moving
    <2> QED
      BY <2>1 DEF Missing, Unused, HasRecord
  <1>5. CASE Expected(x)'
    <2>1. PICK v \in Windows :
              \/ Moving(v)' /\ Clear(win[v].cmd.a)' /\ win'[v].cmd.b = x
              \/ win'[v].pc = "new" /\ win'[v].cmd.op = "create" /\ win'[v].cmd.a = x
      BY <1>5 DEF Expected
    <2> QED
      BY <1>1, <1>3, <1>4, <2>1
  <1> QED
    BY <1>2, <1>5 DEF Missing

LEMMA KidsAwaitedOutside ==
    ASSUME IInv, Flows, KidsAwaited, NEW w, Outside(w)
    PROVE  KidsAwaited'
  <1> SUFFICES ASSUME NEW n \in Names, NEW x \in Names, n # x, Sure(n)', HasKid(n, x)', Missing(x)'
               PROVE  \E c \in Renames : c.b = x /\ Underway(n, c)'
    BY DEF KidsAwaited
  <1>1. Sure(n) /\ HasRecord(n) /\ \A c : Underway(n, c)' <=> Underway(n, c)
    BY OutsideKeeps
  <1>2. HasKid(n, x)
    BY <1>1 DEF Outside
  <1> QED
    BY <1>1, <1>2, MissingOutside DEF KidsAwaited

LEMMA KidsAwaitedStart == Init => KidsAwaited
  <1> SUFFICES ASSUME Init, NEW n \in Names, NEW x \in Names, n # x, Sure(n), HasKid(n, x), Missing(x)
               PROVE  FALSE
    BY DEF KidsAwaited
  <1>1. \A w \in Windows : win[w].pc = "idle"
    BY IdleIs DEF Init
  <1>2. ~HasRecord(x)
    BY <1>1 DEF Missing, Expected, Moving
  <1>3. First[n] # None /\ x \in First[n].kids
    BY SureRecord DEF Init, HasRecord, HasKid
  <1>4. First[x] # None
    BY <1>3, FirstLinks
  <1> QED
    BY <1>2, <1>4, TasksAssumption DEF TasksAssumption, Init, HasRecord


-----------------------------------------------------------------------------
(* The children of a task that is archived name it no longer.              *)

\* Window w archives a and has not moved it yet.
Archiving(w, a) ==
    /\ win[w].cmd.op \in {"archive", "hurried"} /\ win[w].cmd.a = a
    /\ win[w].pc \in {"own", "kids", "kid", "shelve"}

\* Who names it is still to be unlinked, or was given its name by a rename.
ArchCovered ==
    \A w \in Windows, x, a \in Names :
        Archiving(w, a) /\ Sure(x) /\ Sure(a) /\ x # a /\ Parent(x) = a =>
            \/ x \in win[w].todo /\ win[w].pc # "shelve"
            \/ \E c \in Renames : c.b = a /\ Underway(x, c)

\* A task that a call has to do with is nobody else's, unless two commands
\* have crossed.
LEMMA BeginsAlone ==
    ASSUME NEW w, Begins(w), NEW n \in Names, n \in Handled(win'[w]), Id(n)' \notin Free'
    PROVE  /\ \A u \in Windows \ {w} : n \notin Handled(win[u])
           /\ \A c \in Renames : Underway(n, c) => win'[w].cmd = c
  <1> DEFINE q == win'[w]
  <1>1. Id(n)' = Id(n) /\ Id(n) \notin crossed' /\ Id(n) # 0
    BY DEF Begins, Entered, Free
  <1>2. HasRecord(n) /\ Id(n) = active[n].id
    BY <1>1 DEF Id
  <1>3. ASSUME NEW N, n \in N
        PROVE  Id(n) \in IdsAt(N)
    BY <1>2, <1>3 DEF IdsAt
  <1>4. ASSUME NEW u \in Windows \ {w}, n \in Handled(win[u])
        PROVE  FALSE
    <2>1. n \in Shared(q, win[u])
      BY <1>4 DEF Shared
    <2>2. n \in UNION {Shared(q, win[v]) : v \in Windows \ {w}}
      BY <2>1
    <2>3. Id(n) \in IdsAt(UNION {Shared(q, win[v]) : v \in Windows \ {w}})
      BY <1>3, <2>2
    <2> QED
      BY <1>1, <2>3 DEF Begins, Entered
  <1>5. ASSUME NEW c \in Renames, Underway(n, c), q.cmd # c
        PROVE  FALSE
    <2>1. CASE Marked(n, c)
      <3>1. Id(n) \in Unfinished(q.cmd)
        BY <1>5, <2>1 DEF Marked, Unfinished
      <3>2. Id(n) \in IdsAt(Handled(q))
        BY <1>3
      <3> QED
        BY <1>1, <3>1, <3>2 DEF Begins, Entered
    <2>2. ASSUME NEW u \in Windows, Writing(u, c), n \in Handled(win[u])
          PROVE  FALSE
      <3>1. u # w
        BY <2>2 DEF Writing, Begins
      <3> QED
        BY <1>4, <2>2, <3>1
    <2> QED
      BY <1>5, <2>1, <2>2 DEF Underway
  <1> QED
    BY <1>4, <1>5

\* An archive goes through the children; it is done when none is left.
LEMMA ArchiveGoesOn ==
    ASSUME IInv, Flows, IdsOK, LinksRead, NEW w \in Windows, Continue(w), NEW a, Archiving(w, a)',
           win[w].pc \in {"own", "kids", "kid"}, NEW x \in win[w].todo, x \in Names, Id(x)' \notin Free'
    PROVE  \/ x \in win'[w].todo /\ win'[w].pc # "shelve"
           \/ ~HasRecord(x)
           \/ Parent(x)' = None
  <1>1. /\ win'[w].pc \in {"kids", "kid", "shelve"} /\ win[w].cmd = win'[w].cmd
        /\ win[w].cmd.op # "rename" /\ win'[w].pc # "idle"
    BY WindowBack DEF Archiving, Follows
  <1>2. ~Leave(w) /\ ~GiveUp(w)
    <2>1. win'[w] # Idle
      BY <1>1, IdleIs
    <2> QED
      BY <2>1, LeaveTurns DEF GiveUp, IInv
  <1>3. CASE win[w].pc = "own"
    <2>1. ArchiveOwn(w)
      BY <1>1, <1>3, StepsFollow DEF RenameOwn
    <2>2. win[w].cmd.a \in Names
      BY <1>3, WindowFacts DEF IInv, WindowOK
    <2>3. HasRead(w, "kids", win[w].cmd.a, None)
      BY <2>1, <2>2, PcsAre, ForgetsTurns DEF ArchiveOwn
    <2> QED
      BY <2>3 DEF HasRead
  <1>4. CASE win[w].pc = "kids"
    <2>1. ArchiveReadKid(w) \/ ArchiveSessions(w)
      BY <1>2, <1>4 DEF Continue, Step, MayMove, CreateRecord, CreateFails, CreateActivate, HookRead, HookWrite,
       WriteParent, WriteChild, WriteFails, RenameOwn, RenameManifest, RenameTorn,
       RenameBackref, RenameMove, RenameBlocked, RenameSessions, ArchiveOwn,
       ArchiveUnlink, ArchiveMove, ArchiveBlocked, CommitAdd, CommitRm,
       CommitArchive, StartGate, StartPoint, ReadOwn, StartFlip, FinishClear, FieldWrite, Stop
    <2>2. CASE ArchiveReadKid(w)
      <3>1. PICK n \in KidsLeft(win[w]) : win' = [win EXCEPT ![w].pc = "kid", ![w].read[n] = active[n]]
        BY <2>2 DEF ArchiveReadKid
      <3>2. n \in Names /\ HasRecord(n)
        BY <3>1 DEF KidsLeft, HasRecord
      <3>3. HasRead(w, "kid", n, active[n])
        BY <3>1, <3>2, PcsAre, ReadsGo DEF LooksAt
      <3> QED
        BY <3>3 DEF HasRead
    <2>3. CASE ArchiveSessions(w)
      BY <2>3 DEF ArchiveSessions, KidsLeft
    <2> QED
      BY <2>1, <2>2, <2>3
  <1>5. CASE win[w].pc = "kid"
    <2>1. ArchiveUnlink(w)
      BY <1>2, <1>5 DEF Continue, Step, MayMove, CreateRecord, CreateFails, CreateActivate, HookRead, HookWrite,
       WriteParent, WriteChild, WriteFails, RenameOwn, RenameManifest, RenameTorn,
       RenameBackref, RenameMove, RenameBlocked, RenameSessions, ArchiveOwn, ArchiveReadKid,
       ArchiveSessions, ArchiveMove, ArchiveBlocked, CommitAdd, CommitRm,
       CommitArchive, StartGate, StartPoint, ReadOwn, StartFlip, FinishClear, FieldWrite, Stop
    <2>2. PICK m \in Names :
            /\ win'[w].pc = "kids" /\ win'[w].todo = win[w].todo \ {m}
            /\ Id(m)' \in Free' \/ Parent(m)' = None
      BY <2>1, WritesUnlink
    <2> QED
      BY <2>2
  <1> QED
    BY <1>3, <1>4, <1>5

LEMMA ArchCoveredStays ==
    ASSUME IInv, Flows, IdsOK, MarksOK, LinksInv, ArchCovered, NEW w \in Windows, Continue(w)
    PROVE  ArchCovered'
  <1> SUFFICES ASSUME NEW v \in Windows, NEW x \in Names, NEW a \in Names,
                      Archiving(v, a)', Sure(x)', Sure(a)', x # a, Parent(x)' = a
               PROVE  \/ x \in win'[v].todo /\ win'[v].pc # "shelve"
                      \/ \E c \in Renames : c.b = a /\ Underway(x, c)'
    BY DEF ArchCovered
  <1>1. /\ win'[v].pc # "idle" /\ win'[v].cmd = win[v].cmd
        /\ \/ v # w /\ win'[v] = win[v]
           \/ v = w /\ Follows(win[w], win'[w].pc)
    BY WindowBack DEF Archiving
  <1>2. a # None /\ Id(x)' \notin Free' /\ LinksRead
    BY TasksAssumption DEF Sure, LinksInv, TasksAssumption
  <1>3. CASE v # w
    <2>1. Archiving(v, a) /\ a \in Handled(win[v]) /\ win'[v] = win[v]
      <3>1. Archiving(v, a)
        BY <1>1, <1>3 DEF Archiving
      <3> QED
        BY <1>1, <1>2, <1>3, <3>1, IsHandled DEF Archiving
    <2>2. Sure(a) /\ a \notin Handled(win[w])
      BY <1>3, <2>1, OthersSure
    <2>3. CASE RenameMove(w) /\ win[w].cmd.b = x
      <3>1. PICK o \in Names :
              /\ o = win[w].cmd.a /\ o \in Handled(win[w]) /\ active'[x] = active[o]
              /\ Id(x)' = Id(o) /\ win[w].cmd.op = "rename"
        BY <2>3, Moves
      <3>2. Sure(o) /\ Parent(o) = a /\ o # a /\ Id(o) \notin Free
        <4>1. Sure(o)
          BY <3>1, HistoryGrows, LastingGrows DEF Sure
        <4>2. Parent(o) = a
          BY <3>1 DEF Parent
        <4> QED
          BY <2>2, <3>1, <4>1, <4>2 DEF Sure
      <3>3. o \notin win[v].todo
        <4>1. o \in win[v].todo => o \in Handled(win[v])
          BY <1>1, <1>3, IsHandled
        <4> QED
          BY <1>3, <3>1, <3>2, <4>1, Both
      <3>4. PICK c \in Renames : c.b = a /\ Underway(o, c)
        BY <2>1, <2>2, <3>2, <3>3 DEF ArchCovered
      <3>5. win[w].cmd = c
        BY <3>1, <3>2, <3>4, Owner
      <3> QED
        BY <2>2, <3>1, <3>4, <3>5, RenameOf
    <2>4. CASE ~(RenameMove(w) /\ win[w].cmd.b = x)
      <3>1. ~(CreateRecord(w) /\ win[w].cmd.a = x)
        BY <1>2, BornLinks
      <3>2. Id(x)' = Id(x) /\ Sure(x) /\ Id(x) \notin Free
        <4>1. Id(x)' = Id(x) /\ Sure(x)
          BY <2>4, <3>1, SureBack
        <4> QED
          BY <4>1 DEF Sure
      <3>3. Parent(x) = a
        <4>1. CASE RenameMove(w) \/ CreateRecord(w)
          <5>1. active'[x] = active[x]
            <6>1. CASE CreateRecord(w)
              BY <3>1, <6>1, BornLinks
            <6>2. CASE RenameMove(w)
              <7>1. PICK o \in Names, b \in Names :
                      /\ b = win[w].cmd.b /\ Id(o)' = 0
                      /\ \A k \in Names \ {o, b} : active'[k] = active[k]
                BY <6>2, Moves
              <7> QED
                BY <1>2, <2>4, <6>2, <7>1 DEF Free
            <6> QED
              BY <4>1, <6>1, <6>2
          <5> QED
            BY <5>1, SameRecord
        <4>2. CASE ~RenameMove(w) /\ ~CreateRecord(w)
          <5>1. ParentSet(w, x)
            BY <1>2, <4>2, LinkChanges
          <5>2. win[w].pc # "idle" => (win[w].cmd.b # a)
            BY <1>2, <2>2, IsHandled
          <5>3. win[w].pc = "child" \/ win'[w].pc = "backrefs" => win[w].pc # "idle"
            BY WindowBack DEF Follows
          <5> QED
            BY <1>2, <5>1, <5>2, <5>3 DEF ParentSet
        <4> QED
          BY <4>1, <4>2
      <3>4. ASSUME NEW c \in Renames, c.b = a, Underway(x, c)
            PROVE  Underway(x, c)'
        <4>1. c # win[w].cmd
          BY <2>2, <3>4, RenameOf, RenamesAre
        <4> QED
          BY <3>2, <3>4, <4>1, UnderwayStays
      <3> QED
        BY <2>1, <2>2, <3>2, <3>3, <3>4 DEF ArchCovered
    <2> QED
      BY <2>3, <2>4
  <1>4. CASE v = w
    <2>1. /\ win[w].pc \in {"own", "kids", "kid"} /\ Archiving(w, a) /\ win[w].cmd.op # "rename"
          /\ win'[w].pc \in {"kids", "kid", "shelve"}
      BY <1>1, <1>4 DEF Follows, Archiving
    <2>2. ~CreateRecord(w) /\ ~RenameMove(w) /\ ~RenameSessions(w)
      BY <2>1 DEF CreateRecord, RenameMove, RenameSessions, MayMove, Step
    <2>3. Sure(a) /\ Sure(x) /\ Id(x)' = Id(x) /\ Id(x) \notin Free /\ HasRecord(x)
      BY <2>2, SureStays, SureRecord
    <2>4. Parent(x) = a
      <3>1. ParentSet(w, x)
        BY <1>2, <2>2, LinkChanges
      <3> QED
        BY <1>2, <2>1, <3>1 DEF ParentSet
    <2>5. CASE x \in win[w].todo
      BY <1>2, <1>4, <2>1, <2>3, <2>5, ArchiveGoesOn
    <2>6. ASSUME NEW c \in Renames, c.b = a, Underway(x, c)
          PROVE  Underway(x, c)'
      BY <2>2, <2>3, <2>6, UnderwayStays
    <2> QED
      BY <2>1, <2>3, <2>4, <2>5, <2>6 DEF ArchCovered
  <1> QED
    BY <1>1, <1>3, <1>4

LEMMA ArchCoveredOutside ==
    ASSUME IInv, Flows, LinksInv, ArchCovered, NEW w, Outside(w)
    PROVE  ArchCovered'
  <1> SUFFICES ASSUME NEW v \in Windows, NEW x \in Names, NEW a \in Names,
                      Archiving(v, a)', Sure(x)', Sure(a)', x # a, Parent(x)' = a
               PROVE  \/ x \in win'[v].todo /\ win'[v].pc # "shelve"
                      \/ \E c \in Renames : c.b = a /\ Underway(x, c)'
    BY DEF ArchCovered
  <1>1. /\ Sure(x) /\ Sure(a) /\ HasRecord(x) /\ HasRecord(a)
        /\ \A c : Underway(x, c)' <=> Underway(x, c)
    BY OutsideKeeps
  <1>2. Parent(x) = a
    BY <1>1 DEF Outside
  <1>3. CASE win'[v] = win[v]
    <2>1. Archiving(v, a)
      BY <1>3 DEF Archiving
    <2> QED
      BY <1>1, <1>2, <1>3, <2>1 DEF ArchCovered
  <1>4. CASE v = w /\ Begins(w)
    <2>1. win'[w].pc \in {"own", "kids"} /\ win'[w].cmd.a = a /\ win'[w].cmd.op # "rename"
      BY <1>4 DEF Archiving, Begins, Opened
    <2>2. win'[w].pc = "own"
      BY <1>1, <1>4, <2>1 DEF Begins, Opened
    <2>3. win'[w].todo = active[a].kids
      BY <1>4, <2>1, <2>2 DEF Begins
    <2>4. a \in Handled(win'[w]) /\ Id(a)' \notin Free'
      <3>1. a # None
        BY TasksAssumption DEF TasksAssumption
      <3> QED
        BY <2>1, <2>2, <3>1, IsHandled DEF Sure
    <2>5. /\ \A u \in Windows \ {w} : a \notin Handled(win[u])
          /\ \A c \in Renames : Underway(a, c) => win'[w].cmd = c
      BY <1>4, <2>4, BeginsAlone
    <2>6. \/ HasKid(a, x)
          \/ \E u \in Windows : Unlinking(u, x, a)
          \/ \E c \in Renames : ListedAnew(x, a, c) \/ NamesAnew(x, a, c)
      BY <1>1, <1>2, SureClear DEF LinksInv, Matched
    <2>7. ASSUME NEW u \in Windows, Unlinking(u, x, a)
          PROVE  FALSE
      <3>1. u # w /\ a \in Handled(win[u])
        BY <1>4, <2>7, IsHandled, TasksAssumption DEF Unlinking, Begins, TasksAssumption
      <3> QED
        BY <2>5, <3>1
    <2>8. ASSUME NEW c \in Renames, ListedAnew(x, a, c)
          PROVE  FALSE
      BY <2>1, <2>5, <2>8, RenamesAre DEF ListedAnew
    <2> QED
      BY <1>1, <1>4, <2>2, <2>3, <2>6, <2>7, <2>8 DEF HasKid, NamesAnew
  <1> QED
    BY <1>3, <1>4 DEF Outside

LEMMA ArchCoveredStart == Init => ArchCovered
  <1> SUFFICES ASSUME Init
               PROVE  ArchCovered
    OBVIOUS
  <1>1. \A w \in Windows : win[w].pc = "idle"
    BY IdleIs DEF Init
  <1> QED
    BY <1>1 DEF ArchCovered, Archiving

-----------------------------------------------------------------------------
(* No task names one that has gone to the archive as its parent, but for   *)
(* the renames that are under way.                                         *)

SureKept(p) == Kept(p) \notin Free \cup Lasting

ParentsThere ==
    \A n, p \in Names : n # p /\ Sure(n) /\ Parent(n) = p /\ SureKept(p) =>
        \E c \in Renames : c.b = p /\ Underway(n, c)

LEMMA ParentsThereStays ==
    ASSUME IInv, Flows, IdsOK, MarksOK, LinksInv, ArchCovered, ParentsThere, NEW w \in Windows, Continue(w)
    PROVE  ParentsThere'
  <1> SUFFICES ASSUME NEW n \in Names, NEW p \in Names, n # p, Sure(n)', Parent(n)' = p, SureKept(p)'
               PROVE  \E c \in Renames : c.b = p /\ Underway(n, c)'
    BY DEF ParentsThere
  <1>1. /\ p # None /\ Id(n)' \notin Free' /\ Kept(p)' \notin Free' /\ Kept(p)' \notin Lasting'
        /\ Free \subseteq Free' /\ Lasting \subseteq Lasting'
    BY TasksAssumption, HistoryGrows, LastingGrows DEF Sure, SureKept, TasksAssumption
  <1>2. LinksRead /\ ParentThere
    BY DEF LinksInv
  <1>3. CASE ArchiveMove(w)
    <2>1. PICK a \in Names :
            /\ a = win[w].cmd.a /\ win[w].pc = "shelve" /\ active'[a] = None
            /\ \A m \in Names \ {a} : /\ active'[m] = active[m] /\ Id(m)' = Id(m) /\ Kept(m)' = Kept(m)
            /\ Id(a)' = 0 /\ Kept(a)' = Id(a)
      BY <1>3, Shelves
    <2>2. n # a
      BY <1>1, <2>1 DEF Free
    <2>3. Sure(n) /\ Id(n)' = Id(n) /\ Id(n) \notin Free /\ Parent(n) = p
      BY <1>1, <2>1, <2>2 DEF Sure, Parent
    <2>4. ~RenameMove(w) /\ ~RenameSessions(w)
      BY <2>1 DEF RenameMove, RenameSessions, MayMove, Step
    <2>5. CASE p = a
      <3>1. Sure(a)
        BY <1>1, <2>1, <2>5 DEF Sure
      <3>2. Archiving(w, a)
        BY <2>1 DEF Archiving, Flows, Flow
      <3>3. PICK c \in Renames : c.b = a /\ Underway(n, c)
        BY <2>1, <2>2, <2>3, <2>5, <3>1, <3>2 DEF ArchCovered
      <3> QED
        BY <2>3, <2>4, <2>5, <3>3, UnderwayStays
    <2>6. CASE p # a
      <3>1. SureKept(p)
        BY <1>1, <2>1, <2>6 DEF SureKept
      <3>2. PICK c \in Renames : c.b = p /\ Underway(n, c)
        BY <2>3, <3>1 DEF ParentsThere
      <3> QED
        BY <2>3, <2>4, <3>2, UnderwayStays
    <2> QED
      BY <2>5, <2>6
  <1>4. CASE ~ArchiveMove(w)
    <2>1. Kept(p)' = Kept(p)
      BY <1>4, ArchiveStays DEF Kept, OnShelf
    <2>2. SureKept(p) /\ Kept(p) \notin Free
      BY <1>1, <2>1 DEF SureKept
    <2>3. active[p] = None /\ ~HasRecord(p)
      BY <2>2 DEF IdsOK, Apart, HasRecord
    <2>4. ASSUME Sure(n), Id(n)' = Id(n), Parent(n) = p, ~RenameMove(w)
          PROVE  \E c \in Renames : c.b = p /\ Underway(n, c)'
      <3>1. PICK c \in Renames : c.b = p /\ Underway(n, c)
        BY <2>2, <2>4 DEF ParentsThere
      <3>2. IdsAt({c.b}) = {}
        BY <2>3, <3>1 DEF IdsAt
      <3> QED
        BY <2>4, <3>1, <3>2, SureRecord, UnderwayStays
    <2>5. CASE CreateRecord(w)
      <3>1. n # win[w].cmd.a
        BY <1>1, <2>5, BornLinks
      <3>2. active'[n] = active[n] /\ ~RenameMove(w)
        BY <2>5, <3>1, BornLinks DEF CreateRecord, RenameMove, MayMove, Step
      <3>3. Sure(n) /\ Id(n)' = Id(n) /\ Parent(n) = p
        BY <3>1, <3>2, SureBack, SameRecord
      <3> QED
        BY <2>4, <3>2, <3>3
    <2>6. CASE RenameMove(w)
      <3>1. PICK o \in Names, b \in Names :
              /\ o = win[w].cmd.a /\ b = win[w].cmd.b /\ o # b /\ o \in Handled(win[w])
              /\ win[w].pc = "backrefs" /\ win[w].cmd.op = "rename"
              /\ active'[b] = active[o] /\ Id(o)' = 0 /\ Id(b)' = Id(o)
              /\ \A k \in Names \ {o, b} : active'[k] = active[k] /\ Id(k)' = Id(k)
        BY <2>6, Moves
      <3>2. n # o
        BY <1>1, <3>1 DEF Free
      <3>3. CASE n = b
        <4>1. Sure(o) /\ Parent(o) = p /\ Id(o) \notin Free
          BY <1>1, <3>1, <3>3 DEF Sure, Parent
        <4>2. p # o
          BY <2>3, <4>1, SureRecord
        <4>3. PICK c \in Renames : c.b = p /\ Underway(o, c)
          BY <2>2, <4>1, <4>2 DEF ParentsThere
        <4>4. win[w].cmd = c
          BY <3>1, <4>1, <4>3, Owner
        <4> QED
          BY <3>1, <3>3, <4>3, <4>4
      <3>4. CASE n # b
        <4>1. Sure(n) /\ Id(n)' = Id(n) /\ Id(n) \notin Free /\ Parent(n) = p
          BY <1>1, <3>1, <3>2, <3>4 DEF Sure, Parent
        <4>2. PICK c \in Renames : c.b = p /\ Underway(n, c)
          BY <2>2, <4>1 DEF ParentsThere
        <4>3. c # win[w].cmd
          BY <2>2, <3>1, <4>2 DEF IdsOK, Target
        <4> QED
          BY <4>1, <4>2, <4>3, UnderwayStays
      <3> QED
        BY <3>3, <3>4
    <2>7. CASE ~CreateRecord(w) /\ ~RenameMove(w)
      <3>1. Id(n)' = Id(n) /\ Sure(n) /\ Clear(n)
        BY <2>7, SureStays, SureClear
      <3>2. ParentSet(w, n)
        BY <1>1, <1>2, <2>7, LinkChanges
      <3>3. ASSUME WriteChild(w), Links(win[w].cmd), win[w].cmd.a = n, win[w].cmd.b = p, win[w].pc = "child"
            PROVE  FALSE
        BY <1>2, <2>3, <3>1, <3>3 DEF ParentThere
      <3>4. ASSUME RenameBackref(w), n \in Handled(win[w]), win[w].cmd.b = p,
                   win'[w].pc = "backrefs", win'[w].cmd = win[w].cmd,
                   Handled(win[w]) \subseteq Handled(win'[w])
            PROVE  \E c \in Renames : c.b = p /\ Underway(n, c)'
        <4>1. PICK c : c = win[w].cmd /\ c.op = "rename"
          BY <1>2, <3>4, WritesBackref
        <4> QED
          BY <3>4, <4>1, BackrefUnderway
      <3> QED
        BY <1>1, <2>4, <2>7, <3>1, <3>2, <3>3, <3>4 DEF ParentSet
    <2> QED
      BY <2>5, <2>6, <2>7
  <1> QED
    BY <1>3, <1>4

LEMMA ParentsThereOutside ==
    ASSUME ParentsThere, NEW w, Outside(w)
    PROVE  ParentsThere'
  <1> SUFFICES ASSUME NEW n \in Names, NEW p \in Names, n # p, Sure(n)', Parent(n)' = p, SureKept(p)'
               PROVE  \E c \in Renames : c.b = p /\ Underway(n, c)'
    BY DEF ParentsThere
  <1>1. Sure(n) /\ HasRecord(n) /\ \A c : Underway(n, c)' <=> Underway(n, c)
    BY OutsideKeeps
  <1>2. Parent(n) = p
    BY <1>1 DEF Outside
  <1>3. SureKept(p)
    BY DEF Outside, SureKept, Kept, OnShelf, Lasting
  <1> QED
    BY <1>1, <1>2, <1>3 DEF ParentsThere

LEMMA ParentsThereStart == Init => ParentsThere
  <1> SUFFICES ASSUME Init
               PROVE  ParentsThere
    OBVIOUS
  <1>1. \A p \in Names : Kept(p) = 0
    BY DEF Init, Kept, OnShelf
  <1> QED
    BY <1>1 DEF ParentsThere, SureKept, Free

-----------------------------------------------------------------------------
(* A parent lists its own children only, but for the commands under way.   *)

\* A parent that is cleared: an unlink or an archive did it, and it leaves
\* marks at the parent it did not know of.
Cleared(w, x) ==
    /\ x \in Handled(win[w]) /\ win[w].read[x].parent = Parent(x)
    /\ \/ /\ WriteChild(w) /\ win[w].pc = "child" /\ win[w].cmd.op = "unlink" /\ win[w].cmd.a = x
          /\ Severed(win[w], x, win[w].cmd.b, win[w].cmd) \subseteq broken'
       \/ /\ ArchiveUnlink(w) /\ win'[w].pc = "kids" /\ win'[w].cmd = win[w].cmd
          /\ win[w].cmd.op \in {"archive", "hurried"} /\ Handled(win[w]) \subseteq Handled(win'[w])
          /\ Severed(win[w], x, win[w].cmd.a, [win[w].cmd EXCEPT !.op = "unlink"]) \subseteq broken'

LEMMA Clears ==
    ASSUME IInv, Flows, IdsOK, LinksRead, ParentThere, NEW w \in Windows, Continue(w),
           ~CreateRecord(w), ~RenameMove(w), NEW x \in Names, Sure(x)', Parent(x)' = None, Parent(x) # None
    PROVE  Cleared(w, x)
  <1>1. Id(x)' \notin Free' /\ Sure(x) /\ Clear(x) /\ Id(x) \notin Free
    BY SureStays, SureClear
  <1>2. active'[x] # active[x]
    BY DEF Parent
  <1>3. WriteChild(w) \/ ArchiveUnlink(w)
    <2>1. ~WriteParent(w)
      <3> SUFFICES ASSUME WriteParent(w)
                   PROVE  FALSE
        OBVIOUS
      <3>1. PICK b \in Names :
              /\ \A m \in Names \ {b} : active'[m] = active[m]
              /\ Id(b)' \in Free' \/ Parent(b)' = Parent(b)
        BY WritesParent
      <3> QED
        BY <1>1, <1>2, <3>1
    <2>2. ~RenameBackref(w)
      <3> SUFFICES ASSUME RenameBackref(w)
                   PROVE  FALSE
        OBVIOUS
      <3>1. PICK o, b, m \in Names :
              /\ \A k \in Names \ {m} : active'[k] = active[k]
              /\ Id(m)' \in Free' \/ Parent(m)' = IF Parent(m) = o THEN b ELSE Parent(m)
        BY WritesBackref
      <3> QED
        BY <1>1, <1>2, <3>1, TasksAssumption DEF TasksAssumption
    <2>3. ~(Id(x)' \in Free' \/ SameLinks(x))
      BY <1>1 DEF SameLinks
    <2> QED
      BY <2>1, <2>2, <2>3, QuietSteps
  <1>4. CASE WriteChild(w)
    <2>1. /\ x = win[w].cmd.a /\ x \in Handled(win[w]) /\ win[w].pc = "child"
          /\ win[w].cmd.op \in {"create", "force", "link", "unlink"}
          /\ Parent(x)' = IF Links(win[w].cmd) THEN win[w].cmd.b ELSE None
      BY <1>1, <1>2, <1>4, WritesChild
    <2>2. ~Links(win[w].cmd)
      <3> SUFFICES ASSUME Links(win[w].cmd)
                   PROVE  FALSE
        OBVIOUS
      <3>1. HasRecord(win[w].cmd.b)
        BY <1>1, <2>1 DEF ParentThere
      <3> QED
        BY <2>1, <3>1, TasksAssumption DEF HasRecord, TasksAssumption
    <2>3. win[w].cmd.op = "unlink"
      BY <2>1, <2>2 DEF Links
    <2>4. x \in ToWrite(win[w])
      BY <2>1, WindowFacts, TasksAssumption DEF IInv, WindowOK, ReadA, ToWrite, TasksAssumption
    <2>5. win[w].read[x].parent = Parent(x)
      BY <1>1, <2>4 DEF LinksRead, Agree
    <2>6. Severed(win[w], x, win[w].cmd.b, win[w].cmd) \subseteq broken'
      BY <1>4, <2>1, <2>3 DEF WriteChild
    <2> QED
      BY <1>4, <2>1, <2>3, <2>5, <2>6 DEF Cleared
  <1>5. CASE ArchiveUnlink(w)
    <2>1. /\ win[w].pc = "kid" /\ win'[w].pc = "kids"
          /\ x \in ToWrite(win[w]) /\ win'[w].todo = win[w].todo \ {x}
          /\ Severed(win[w], x, win[w].cmd.a, [win[w].cmd EXCEPT !.op = "unlink"]) \subseteq broken'
      BY <1>2, <1>5, WritesUnlink
    <2>2. win[w].read[x].parent = Parent(x)
      BY <1>1, <2>1 DEF LinksRead, Agree
    <2>3. x \in Handled(win[w]) /\ win[w].read[x] # None
      BY <2>1, IsHandled DEF ToWrite
    <2>4. win[w].cmd.op \in {"archive", "hurried"}
      BY <2>1 DEF Flows, Flow
    <2>5. win'[w].cmd = win[w].cmd /\ \A n \in Names : win'[w].read[n] = win[w].read[n]
      <3>1. win'[w] # Idle
        BY <2>1, IdleIs
      <3>2. Proceeds(w)
        BY <3>1, Turns DEF Turn
      <3> QED
        BY <2>1, <3>2 DEF Proceeds, Looks
    <2>6. Handled(win[w]) \subseteq Handled(win'[w])
      BY <2>1, <2>3, <2>5 DEF Handled
    <2> QED
      BY <1>5, <2>1, <2>2, <2>3, <2>4, <2>5, <2>6 DEF Cleared
  <1> QED
    BY <1>3, <1>4, <1>5

\* The parent that is cleared is the one the command knows of.
LEMMA ClearsKnown ==
    ASSUME IInv, NEW q, NEW x \in Names, HasRecord(x), NEW p \in Names, HasRecord(p), q.read[x].parent = p,
           NEW z, p # z, NEW c, c.op = "unlink", Severed(q, x, z, c) \subseteq broken'
    PROVE  Id(p) \in Lasting'
  <1>1. {q.read[x].parent} \ {z} = {p}
    OBVIOUS
  <1>2. {p} \cap Records = {p}
    BY DEF Records
  <1>3. Mark({p} \cup {x}, c) \subseteq broken'
    BY <1>1, <1>2 DEF Severed
  <1>4. Id(p) \in IdsAt({p} \cup {x})
    BY DEF IdsAt, Id
  <1>5. [id |-> Id(p), by |-> c] \in broken'
    BY <1>3, <1>4 DEF Mark
  <1> QED
    BY <1>5 DEF Lasting, Retryable

\* The commands that archive a task.
Archives == [op : {"archive", "hurried"}, a : Names, b : Names \cup {None}]

\* Archive c is at work on n, or was cut off at it.
Shelving(n, c) ==
    \/ Marked(n, c)
    \/ \E w \in Windows :
          /\ win[w].cmd = c /\ win[w].pc \in {"kids", "kid", "shelve"}
          /\ n \in Handled(win[w])

\* Window w has put x into the list of n and is about to write the child.
Linking(w, x, n) ==
    win[w].pc = "child" /\ Links(win[w].cmd) /\ win[w].cmd.a = x /\ win[w].cmd.b = n

\* The rename of n has already reached its child x.
ParentAnew(n, x, c) == c.a = n /\ Parent(x) = c.b /\ Underway(n, c) /\ Underway(x, c)

\* Why x is in the list of n.
Owns(n, x) ==
    \/ Parent(x) = n
    \/ \E w \in Windows : Linking(w, x, n)
    \/ \E c \in Renames : NamesAnew(n, x, c) \/ ParentAnew(n, x, c)
    \/ \E c \in Archives : c.a = n /\ Shelving(n, c) /\ Shelving(x, c)

Owned == \A n, x \in Names : n # x /\ Sure(n) /\ Sure(x) /\ HasKid(n, x) => Owns(n, x)

\* A rename that gives a task its new name in the list of another one is the
\* rename of a child of it.
KidsInherit ==
    \A c \in Renames : \A n \in Names \ {c.a, c.b} :
        Sure(n) /\ Sure(c.a) /\ Underway(c.a, c) /\ Underway(n, c) /\ HasKid(n, c.b)
            => Parent(c.a) = n

\* An archive goes on with what it handles until it moves the task, or it
\* leaves a mark at all of it.
LEMMA ShelvingWindow ==
    ASSUME IInv, Flows, NEW w \in Windows, Continue(w), win[w].pc \in {"kids", "kid", "shelve"},
           ~ArchiveMove(w)
    PROVE  \/ Mark(Handled(win[w]), win[w].cmd) \subseteq broken'
           \/ /\ win'[w].pc \in {"kids", "kid", "shelve"} /\ win'[w].cmd = win[w].cmd
              /\ Handled(win[w]) \subseteq Handled(win'[w])
  <1>1. \/ GiveUp(w) \/ ArchiveReadKid(w) \/ ArchiveUnlink(w) \/ ArchiveSessions(w)
    BY DEF Continue, Step, MayMove, CreateRecord, CreateFails, CreateActivate, HookRead, HookWrite,
     WriteParent, WriteChild, WriteFails, RenameOwn, RenameManifest, RenameTorn,
     RenameBackref, RenameMove, RenameBlocked, RenameSessions, ArchiveOwn,
     ArchiveBlocked, CommitAdd, CommitRm,
     CommitArchive, StartGate, StartPoint, ReadOwn, StartFlip, FinishClear, FieldWrite, Stop
  <1>2. CASE GiveUp(w)
    BY <1>2 DEF GiveUp, Halfway
  <1>3. CASE ArchiveReadKid(w)
    <2>1. PICK n \in KidsLeft(win[w]) : win' = [win EXCEPT ![w].pc = "kid", ![w].read[n] = active[n]]
      BY <1>3 DEF ArchiveReadKid
    <2>2. n \in Names /\ HasRecord(n) /\ n \in win[w].todo
      BY <2>1 DEF KidsLeft, HasRecord
    <2>3. HasRead(w, "kid", n, active[n])
      BY <2>1, <2>2, PcsAre, ReadsGo DEF LooksAt
    <2> QED
      BY <2>2, <2>3 DEF HasRead, ReadsBut, Handled
  <1>4. CASE ArchiveUnlink(w)
    <2>1. PICK n \in {m \in win[w].todo : win[w].read[m] # None} :
            win' = [win EXCEPT ![w].pc = "kids", ![w].todo = @ \ {n}]
      BY <1>4 DEF ArchiveUnlink
    <2>2. /\ win'[w].pc = "kids" /\ win'[w].cmd = win[w].cmd /\ win'[w].read = win[w].read
          /\ win'[w].todo = win[w].todo \ {n}
      BY <2>1, PcsAre, DropTurns
    <2>3. n \in Names
      BY <2>1, WindowFacts DEF IInv, Window
    <2> QED
      BY <2>1, <2>2, <2>3 DEF Handled
  <1>5. CASE ArchiveSessions(w)
    <2>1. /\ win'[w].pc = "shelve" /\ win'[w].cmd = win[w].cmd
          /\ win'[w].read = win[w].read /\ win'[w].todo = win[w].todo
      BY <1>5, PcsAre, GoTurns DEF ArchiveSessions, IInv
    <2> QED
      BY <2>1 DEF Handled
  <1> QED
    BY <1>1, <1>2, <1>3, <1>4, <1>5

\* An archive holds on to a task until the one it archives is gone.
LEMMA ShelvingStays ==
    ASSUME IInv, Flows, IdsOK, Away, NEW w \in Windows, Continue(w), NEW c \in Archives,
           NEW n \in Names, c.a = n, Id(n)' \notin Free', Id(n) \notin Free,
           NEW x \in Names, Id(x)' = Id(x), HasRecord(x), Shelving(x, c)
    PROVE  Shelving(x, c)'
  <1>1. c.op \in {"archive", "hurried"} /\ c.op # "rename"
    BY DEF Archives
  <1>2. ASSUME ArchiveMove(w), win[w].cmd = c
        PROVE  FALSE
    <2>1. Id(n)' = 0
      BY <1>2, Shelves
    <2> QED
      BY <2>1 DEF Free
  <1>3. CASE Marked(x, c)
    <2>1. PICK m : m = [id |-> Id(x), by |-> c] /\ m \in broken
      BY <1>3 DEF Marked
    <2>2. m \in broken'
      <3> SUFFICES ASSUME m \notin broken'
                   PROVE  FALSE
        OBVIOUS
      <3>1. c = win[w].cmd /\ win[w].pc \in {"sessions", "shelve", "commit"}
        BY <2>1, OldMarks
      <3>2. win[w].pc # "sessions"
        BY <1>1, <3>1 DEF Flows, Flow
      <3>3. win[w].pc # "commit"
        BY <3>1 DEF Away
      <3>4. win[w].pc = "shelve" /\ ~ArchiveMove(w)
        BY <1>2, <3>1, <3>2, <3>3
      <3>5. GiveUp(w)
        BY <3>4 DEF Continue, Step, MayMove, CreateRecord, CreateFails, CreateActivate, HookRead, HookWrite,
         WriteParent, WriteChild, WriteFails, RenameOwn, RenameManifest, RenameTorn,
         RenameBackref, RenameMove, RenameBlocked, RenameSessions, ArchiveOwn, ArchiveReadKid,
         ArchiveUnlink, ArchiveSessions, ArchiveBlocked, CommitAdd, CommitRm,
         CommitArchive, StartGate, StartPoint, ReadOwn, StartFlip, FinishClear, FieldWrite, Stop
      <3> QED
        BY <2>1, <3>5 DEF GiveUp
    <2>3. [id |-> Id(x)', by |-> c] \in broken'
      BY <2>1, <2>2
    <2> QED
      BY <2>3 DEF Shelving, Marked
  <1>4. ASSUME NEW v \in Windows, win[v].cmd = c, win[v].pc \in {"kids", "kid", "shelve"}, x \in Handled(win[v])
        PROVE  Shelving(x, c)'
    <2>1. CASE v # w
      <3>1. win'[v] = win[v]
        BY <2>1, Turns DEF Turn, Alone
      <3> QED
        BY <1>4, <3>1 DEF Shelving
    <2>2. CASE v = w
      <3>1. ~ArchiveMove(w)
        BY <1>2, <1>4, <2>2
      <3>2. \/ Mark(Handled(win[w]), c) \subseteq broken'
            \/ /\ win'[w].pc \in {"kids", "kid", "shelve"} /\ win'[w].cmd = c
               /\ Handled(win[w]) \subseteq Handled(win'[w])
        BY <1>4, <2>2, <3>1, ShelvingWindow
      <3>3. ASSUME Mark(Handled(win[w]), c) \subseteq broken'
            PROVE  Shelving(x, c)'
        <4>1. Id(x) \in IdsAt(Handled(win[w]))
          BY <1>4, <2>2 DEF Id, IdsAt
        <4>2. [id |-> Id(x), by |-> c] \in broken'
          BY <3>3, <4>1 DEF Mark
        <4>3. [id |-> Id(x)', by |-> c] \in broken'
          BY <4>2
        <4> QED
          BY <4>3 DEF Shelving, Marked
      <3>4. ASSUME win'[w].pc \in {"kids", "kid", "shelve"}, win'[w].cmd = c,
                   Handled(win[w]) \subseteq Handled(win'[w])
            PROVE  Shelving(x, c)'
        BY <1>4, <2>2, <3>4 DEF Shelving
      <3> QED
        BY <3>2, <3>3, <3>4
    <2> QED
      BY <2>1, <2>2
  <1> QED
    BY <1>3, <1>4 DEF Shelving

\* A link that ends before the child has left its mark.
LEMMA LinkBlames ==
    ASSUME IInv, NEW w \in Windows, Continue(w), NEW x \in Names, NEW n \in Names,
           Linking(w, x, n), ~WriteChild(w), HasRecord(x)
    PROVE  Id(x) \in Lasting'
  <1>1. win[w].pc = "child" /\ Links(win[w].cmd) /\ x \in Handled(win[w])
    BY IsHandled, TasksAssumption DEF Linking, TasksAssumption
  <1>2. GiveUp(w)
    BY <1>1 DEF Continue, Step, MayMove, CreateRecord, CreateFails, CreateActivate, HookRead, HookWrite,
     WriteParent, WriteFails, RenameOwn, RenameManifest, RenameTorn,
     RenameBackref, RenameMove, RenameBlocked, RenameSessions, ArchiveOwn, ArchiveReadKid,
     ArchiveUnlink, ArchiveSessions, ArchiveMove, ArchiveBlocked, CommitAdd, CommitRm,
     CommitArchive, StartGate, StartPoint, ReadOwn, StartFlip, FinishClear, FieldWrite, Stop
  <1>3. Mark(Handled(win[w]), win[w].cmd) \subseteq broken'
    BY <1>1, <1>2 DEF GiveUp, Halfway
  <1>4. Id(x) \in IdsAt(Handled(win[w]))
    BY <1>1 DEF Id, IdsAt
  <1>5. [id |-> Id(x), by |-> win[w].cmd] \in broken'
    BY <1>3, <1>4 DEF Mark
  <1> QED
    BY <1>1, <1>5 DEF Lasting, Retryable, Links

\* What is in a list stays explained while the commands go on.
LEMMA OwnedKept ==
    ASSUME IInv, Flows, IdsOK, MarksOK, LinksInv, LinkSteps, Owned, NEW w \in Windows, Continue(w),
           ~CreateRecord(w), ~RenameMove(w), NEW n \in Names, NEW x \in Names, n # x,
           Sure(n)', Sure(x)', HasKid(n, x)
    PROVE  Owns(n, x)'
  <1>1. /\ Id(n)' = Id(n) /\ Id(x)' = Id(x) /\ Sure(n) /\ Sure(x)
        /\ Id(n) \notin Free /\ Id(x) \notin Free /\ Id(n)' \notin Free' /\ Id(x)' \notin Free'
    BY SureStays
  <1>2. HasRecord(n) /\ HasRecord(x) /\ n # None /\ Id(n)' \notin Lasting' /\ Id(x)' \notin Lasting'
    BY <1>1, SureRecord, TasksAssumption DEF Sure, TasksAssumption
  <1>3. LinksRead /\ ParentThere /\ Away /\ LinkOrphan /\ UnlinkFirst
    BY DEF LinksInv, LinkSteps
  <1>4. ParentSet(w, x)
    BY <1>1, <1>3, LinkChanges
  <1>5. CASE Parent(x) = n
    <2>1. ASSUME Parent(x)' = None
          PROVE  Owns(n, x)'
      <3>1. Cleared(w, x)
        BY <1>2, <1>3, <1>5, <2>1, Clears
      <3>2. x \in Handled(win[w]) /\ win[w].read[x].parent = n
        BY <1>5, <3>1 DEF Cleared
      <3>3. CASE /\ win[w].pc = "child" /\ win[w].cmd.op = "unlink" /\ win[w].cmd.a = x
                 /\ Severed(win[w], x, win[w].cmd.b, win[w].cmd) \subseteq broken'
        <4>1. win[w].cmd.b # n
          BY <1>1, <1>3, <3>3 DEF UnlinkFirst
        <4>2. Id(n) \in Lasting'
          BY <1>2, <3>2, <3>3, <4>1, ClearsKnown
        <4> QED
          BY <1>1, <1>2, <4>2
      <3>4. CASE /\ win'[w].pc = "kids" /\ win'[w].cmd = win[w].cmd
                 /\ win[w].cmd.op \in {"archive", "hurried"} /\ Handled(win[w]) \subseteq Handled(win'[w])
                 /\ Severed(win[w], x, win[w].cmd.a, [win[w].cmd EXCEPT !.op = "unlink"]) \subseteq broken'
        <4>1. PICK c : c = win[w].cmd /\ c \in Command
          BY WindowFacts DEF IInv
        <4>2. [c EXCEPT !.op = "unlink"].op = "unlink"
          BY <4>1 DEF Command
        <4>3. PICK d : d = [c EXCEPT !.op = "unlink"] /\ d.op = "unlink"
          BY <4>2
        <4>4. Severed(win[w], x, c.a, d) \subseteq broken'
          BY <3>4, <4>1, <4>3
        <4>5. c.a # n => Id(n) \in Lasting'
          BY <1>2, <3>2, <4>3, <4>4, ClearsKnown
        <4>6. c.a = n
          BY <1>1, <1>2, <4>5
        <4>7. c \in Archives
          BY <3>4, <4>1, <4>6 DEF Archives, Command
        <4>8. win'[w].cmd = c /\ win'[w].pc = "kids" /\ x \in Handled(win'[w]) /\ n \in Handled(win'[w])
          BY <1>2, <3>2, <3>4, <4>1, <4>6, IsHandled
        <4>9. Shelving(n, c)' /\ Shelving(x, c)'
          BY <4>8 DEF Shelving
        <4> QED
          BY <4>6, <4>7, <4>9 DEF Owns
      <3> QED
        BY <3>1, <3>3, <3>4 DEF Cleared
    <2>2. ASSUME WriteChild(w), Links(win[w].cmd), win[w].cmd.a = x, win[w].pc = "child"
          PROVE  FALSE
      BY <1>1, <1>2, <1>3, <1>5, <2>2 DEF LinkOrphan
    <2>3. ASSUME RenameBackref(w), x \in Handled(win[w]), Parent(x)' = win[w].cmd.b,
                 Parent(x) = win[w].cmd.a, win'[w].pc = "backrefs", win'[w].cmd = win[w].cmd,
                 Handled(win[w]) \subseteq Handled(win'[w])
          PROVE  Owns(n, x)'
      <3>1. PICK c : c = win[w].cmd /\ c.op = "rename"
        BY <1>3, <2>3, WritesBackref
      <3>2. c \in Renames /\ \A k \in Handled(win[w]) : Underway(k, c)'
        BY <2>3, <3>1, BackrefUnderway
      <3>3. n \in Handled(win[w]) /\ c.a = n
        BY <1>5, <2>3, <3>1, RenameOf
      <3>4. ParentAnew(n, x, c)'
        BY <2>3, <3>1, <3>2, <3>3 DEF ParentAnew
      <3> QED
        BY <3>2, <3>4 DEF Owns
    <2> QED
      BY <1>4, <1>5, <2>1, <2>2, <2>3 DEF ParentSet, Owns
  <1>6. ASSUME NEW v \in Windows, Linking(v, x, n)
        PROVE  Owns(n, x)'
    <2>1. CASE v # w
      <3>1. win'[v] = win[v]
        BY <2>1, Turns DEF Turn, Alone
      <3>2. Linking(v, x, n)'
        BY <1>6, <3>1 DEF Linking
      <3> QED
        BY <3>2 DEF Owns
    <2>2. CASE v = w
      <3>1. WriteChild(w)
        BY <1>1, <1>2, <1>6, <2>2, LinkBlames
      <3>2. Parent(x)' = n
        BY <1>1, <1>3, <1>6, <2>2, <3>1, WritesChild DEF Linking
      <3> QED
        BY <3>2 DEF Owns
    <2> QED
      BY <2>1, <2>2
  <1>7. ASSUME NEW c \in Renames, NamesAnew(n, x, c)
        PROVE  Owns(n, x)'
    <2>1. NamesAnew(n, x, c)'
      BY <1>1, <1>7, AnewStays
    <2> QED
      BY <2>1 DEF Owns
  <1>8. ASSUME NEW c \in Renames, ParentAnew(n, x, c)
        PROVE  Owns(n, x)'
    <2>1. /\ c.a = n /\ Parent(x) = c.b /\ Underway(n, c) /\ Underway(x, c)
          /\ c.b \in Names /\ c.b # None /\ c.op = "rename"
      BY <1>8, RenamesAre, TasksAssumption DEF ParentAnew, TasksAssumption
    <2>2. ~(win[w].pc = "sessions" /\ win[w].cmd = c)
      BY <1>1, <2>1 DEF MarksOK, Gone
    <2>3. Underway(n, c)' /\ Underway(x, c)'
      BY <1>1, <2>1, <2>2, UnderwayStays
    <2>4. x \in Handled(win[w]) => win[w].cmd = c
      BY <1>1, <2>1, Owner
    <2>5. Parent(x)' # None
      <3> SUFFICES ASSUME Parent(x)' = None
                   PROVE  FALSE
        OBVIOUS
      <3>1. Cleared(w, x)
        BY <1>3, <2>1, Clears
      <3> QED
        BY <2>1, <2>4, <3>1 DEF Cleared
    <2>6. ~(Links(win[w].cmd) /\ x \in Handled(win[w]))
      BY <2>1, <2>4 DEF Links
    <2>7. ~(x \in Handled(win[w]) /\ Parent(x) = win[w].cmd.a)
      BY <2>1, <2>4, RenameOf
    <2>8. Parent(x)' = c.b
      BY <1>4, <2>1, <2>5, <2>6, <2>7 DEF ParentSet
    <2>9. ParentAnew(n, x, c)'
      BY <2>1, <2>3, <2>8 DEF ParentAnew
    <2> QED
      BY <2>9 DEF Owns
  <1>9. ASSUME NEW c \in Archives, c.a = n, Shelving(n, c), Shelving(x, c)
        PROVE  Owns(n, x)'
    <2>1. Shelving(n, c)' /\ Shelving(x, c)'
      BY <1>1, <1>2, <1>3, <1>9, ShelvingStays
    <2> QED
      BY <1>9, <2>1 DEF Owns
  <1>10. Owns(n, x)
    BY <1>1 DEF Owned
  <1> QED
    BY <1>5, <1>6, <1>7, <1>8, <1>9, <1>10 DEF Owns

\* A list only grows by a link or by a rename.
LEMMA NewlyOwned ==
    ASSUME IInv, Flows, IdsOK, MarksOK, LinksInv, NEW w \in Windows, Continue(w),
           ~CreateRecord(w), ~RenameMove(w), NEW n \in Names, NEW x \in Names, n # x,
           Sure(n)', Sure(x)', HasKid(n, x)', ~HasKid(n, x)
    PROVE  Owns(n, x)'
  <1>1. Id(n)' \notin Free' /\ Id(n) \notin Free
    BY SureStays
  <1>2. LinksRead /\ Tied
    BY DEF LinksInv
  <1>3. ListSet(w, n, x)
    BY <1>1, <1>2, LinkChanges
  <1>4. CASE WriteParent(w) /\ win[w].cmd.b = n /\ win[w].cmd.a = x /\ Links(win[w].cmd)
    <2>1. win'[w].pc = "child" /\ win'[w].cmd = win[w].cmd
      BY <1>2, <1>4, WritesParent
    <2>2. Linking(w, x, n)'
      BY <1>4, <2>1 DEF Linking
    <2> QED
      BY <2>2 DEF Owns
  <1>5. CASE /\ RenameBackref(w) /\ n \in Handled(win[w]) /\ win[w].cmd.op = "rename" /\ x = win[w].cmd.b
             /\ win'[w].pc = "backrefs" /\ win'[w].cmd = win[w].cmd
             /\ Handled(win[w]) \subseteq Handled(win'[w])
    <2>1. PICK c : c = win[w].cmd /\ c.op = "rename"
      BY <1>5
    <2>2. c \in Renames /\ Underway(n, c)'
      BY <1>5, <2>1, BackrefUnderway
    <2>3. x \in Handled(win[w])
      BY <1>5, <2>1, RenameOf
    <2>4. ASSUME NEW v \in Windows, win'[v].pc = "sessions", win'[v].cmd = c
          PROVE  FALSE
      <3>1. v # w
        BY <1>5, <2>4
      <3>2. win'[v] = win[v]
        BY <3>1, Turns DEF Turn, Alone
      <3>3. x \in Handled(win[v])
        BY <1>5, <2>1, <2>4, <3>2, RenameOf
      <3> QED
        BY <1>1, <1>2, <1>5, <2>1, <2>3, <3>1, <3>3 DEF Tied
    <2>5. NamesAnew(n, x, c)'
      BY <1>5, <2>1, <2>2, <2>4 DEF NamesAnew
    <2> QED
      BY <2>2, <2>5 DEF Owns
  <1> QED
    BY <1>3, <1>4, <1>5 DEF ListSet

\* A task that is created is in the lists only of those who wait for its name.
LEMMA OwnedBorn ==
    ASSUME IInv, Flows, IdsOK, MarksOK, LinksInv, LinkSteps, KidsAwaited, Owned,
           NEW w \in Windows, Continue(w), CreateRecord(w),
           NEW n \in Names, NEW x \in Names, n # x, Sure(n)', Sure(x)', HasKid(n, x)'
    PROVE  Owns(n, x)'
  <1>1. PICK a \in Names :
          a = win[w].cmd.a /\ a \in Handled(win[w]) /\ win[w].pc = "new" /\ Id(a)' = Cardinality(made) + 1
    BY Births
  <1>2. Id(n)' \notin Free' /\ Id(x)' \notin Free' /\ Id(n)' \notin Lasting'
    BY DEF Sure
  <1>3. n # a
    BY <1>1, BornLinks
  <1>4. ~RenameMove(w) /\ ~RenameSessions(w)
    BY <1>1 DEF RenameMove, MayMove, RenameSessions, Step
  <1>5. /\ active'[n] = active[n] /\ Sure(n) /\ Id(n)' = Id(n) /\ HasKid(n, x)
        /\ HasRecord(n) /\ Id(n) \notin Free
    <2>1. active'[n] = active[n] /\ Sure(n)
      BY <1>1, <1>3, <1>4, BornLinks, SureBack
    <2> QED
      BY <2>1, SameRecord, SureRecord
  <1>6. Away
    BY DEF LinkSteps
  <1>7. CASE x # a
    <2>1. active'[x] = active[x] /\ Sure(x)
      BY <1>1, <1>4, <1>7, BornLinks, SureBack
    <2>2. Id(x)' = Id(x) /\ Parent(x)' = Parent(x) /\ HasRecord(x) /\ Id(x) \notin Free
      BY <2>1, SameRecord, SureRecord
    <2>3. ASSUME NEW v \in Windows, Linking(v, x, n)
          PROVE  Linking(v, x, n)'
      <3>1. v # w
        BY <1>1, <2>3 DEF Linking
      <3>2. win'[v] = win[v]
        BY <3>1, Turns DEF Turn, Alone
      <3> QED
        BY <2>3, <3>2 DEF Linking
    <2>4. ASSUME NEW c \in Renames, NamesAnew(n, x, c)
          PROVE  NamesAnew(n, x, c)'
      BY <1>4, <1>5, <2>2, <2>4, AnewStays
    <2>5. ASSUME NEW c \in Renames, ParentAnew(n, x, c)
          PROVE  ParentAnew(n, x, c)'
      <3>1. Underway(n, c)' /\ Underway(x, c)'
        BY <1>4, <1>5, <2>2, <2>5, UnderwayStays DEF ParentAnew
      <3> QED
        BY <2>2, <2>5, <3>1 DEF ParentAnew
    <2>6. ASSUME NEW c \in Archives, c.a = n, Shelving(n, c), Shelving(x, c)
          PROVE  Shelving(n, c)' /\ Shelving(x, c)'
      BY <1>2, <1>5, <1>6, <2>2, <2>6, ShelvingStays
    <2>7. Owns(n, x)
      BY <1>5, <2>1 DEF Owned
    <2> QED
      BY <2>2, <2>3, <2>4, <2>5, <2>6, <2>7 DEF Owns
  <1>8. CASE x = a
    <2>1. CASE win[w].cmd.op = "force"
      <3>1. Mentions(n, a)
        BY <1>5, <1>8 DEF Mentions, HasKid
      <3>2. PICK N : n \in N /\ Mark(N, win[w].cmd) \subseteq broken'
        <4> DEFINE c == win[w].cmd
                   over == HasRecord(c.a) \/ c.op = "force"
                   N == {m \in Records : (over /\ Mentions(m, c.a)) \/ (HasRecord(c.a) /\ Mentions(c.a, m))}
        <4>1. n \in N
          BY <1>1, <1>5, <2>1, <3>1 DEF Records
        <4>2. Mark(N, c) \subseteq broken'
          BY <2>1 DEF CreateRecord
        <4> HIDE DEF N
        <4> QED
          BY <4>1, <4>2
      <3>3. Id(n) \in IdsAt(N)
        BY <1>5, <3>2 DEF IdsAt, Id
      <3>4. [id |-> Id(n), by |-> win[w].cmd] \in broken'
        BY <3>2, <3>3 DEF Mark
      <3>5. Id(n) \in Lasting'
        BY <2>1, <3>4 DEF Lasting, Retryable
      <3> QED
        BY <1>2, <1>5, <3>5
    <2>2. CASE win[w].cmd.op = "create"
      <3>1. Missing(a)
        BY <1>1, <2>2 DEF Missing, Expected
      <3>2. PICK c \in Renames : c.b = a /\ Underway(n, c)
        BY <1>3, <1>5, <1>8, <3>1 DEF KidsAwaited
      <3>3. Underway(n, c)'
        BY <1>4, <1>5, <3>2, UnderwayStays
      <3>4. ASSUME NEW v \in Windows, win'[v].pc = "sessions", win'[v].cmd = c
            PROVE  FALSE
        <4>1. v # w
          BY <1>4, <3>4, EntersSessions
        <4>2. win'[v] = win[v]
          BY <4>1, Turns DEF Turn, Alone
        <4>3. a \in Handled(win[v])
          BY <3>2, <3>4, <4>2, RenameOf, RenamesAre
        <4>4. Cardinality(made) + 1 \in Free'
          BY <1>1, <4>1, <4>3, BornCrossed
        <4> QED
          BY <1>1, <1>2, <1>8, <4>4
      <3>5. NamesAnew(n, x, c)'
        BY <1>8, <3>2, <3>3, <3>4 DEF NamesAnew
      <3> QED
        BY <3>5 DEF Owns
    <2> QED
      BY <1>1, <2>1, <2>2 DEF Flows, Flow
  <1> QED
    BY <1>7, <1>8

\* Nobody archives what a rename is at work on.
LEMMA NotShelving ==
    ASSUME IInv, Flows, IdsOK, MarksOK, NEW w \in Windows, NEW n \in Names, n \in Handled(win[w]),
           Id(n) \notin Free, win[w].cmd.op = "rename", NEW c \in Archives, Shelving(n, c)
    PROVE  FALSE
  <1>1. c.op \in Retryable /\ c # win[w].cmd
    BY DEF Archives, Retryable
  <1>2. ~Marked(n, c)
    <2> SUFFICES ASSUME Marked(n, c)
                 PROVE  FALSE
      OBVIOUS
    <2>1. PICK m \in broken : m = [id |-> Id(n), by |-> c]
      BY DEF Marked
    <2>2. m.id = Id(n) /\ m.by = c
      BY <2>1
    <2> QED
      BY <1>1, <2>2 DEF MarksOK, Unmarked
  <1>3. PICK v \in Windows : win[v].cmd = c /\ n \in Handled(win[v])
    BY <1>2 DEF Shelving
  <1>4. v # w
    BY <1>1, <1>3
  <1> QED
    BY <1>3, <1>4, Both

\* A move takes the list of the task with it, and the lists it is in.
LEMMA OwnedMoved ==
    ASSUME IInv, Flows, IdsOK, MarksOK, LinksInv, LinkSteps, KidsAwaited, Owned, KidsInherit,
           NEW w \in Windows, Continue(w), RenameMove(w),
           NEW n \in Names, NEW x \in Names, n # x, Sure(n)', Sure(x)', HasKid(n, x)'
    PROVE  Owns(n, x)'
  <1>1. PICK o \in Names, b \in Names :
          /\ o = win[w].cmd.a /\ b = win[w].cmd.b /\ o # b /\ o \in Handled(win[w])
          /\ b \in Handled(win[w]) /\ win[w].pc = "backrefs" /\ win[w].cmd.op = "rename"
          /\ active'[b] = active[o] /\ Id(o)' = 0 /\ Id(b)' = Id(o)
          /\ \A k \in Names \ {o, b} : active'[k] = active[k] /\ Id(k)' = Id(k)
    BY Moves
  <1>2. /\ Free \subseteq Free' /\ Lasting \subseteq Lasting'
        /\ Id(n)' \notin Free' /\ Id(x)' \notin Free' /\ n # o /\ x # o
    BY <1>1, HistoryGrows, LastingGrows DEF Sure, Free
  <1>3. win[w].todo = {} /\ Moving(w) /\ win[w].cmd \in Renames
    BY <1>1, RenameOf DEF RenameMove, MayMove, Moving
  <1>4. Covered /\ Away
    BY DEF LinksInv, LinkSteps
  <1>5. win'[w].pc = "sessions" /\ win'[w].cmd = win[w].cmd
    BY PcsAre, GoTurns DEF RenameMove, IInv
  <1>6. \A v \in Windows \ {w} : win'[v] = win[v]
    BY Turns DEF Turn, Alone
  <1>7. ~RenameSessions(w)
    BY <1>1 DEF RenameSessions, Step
  <1>8. \A k \in Names \ {o, b} : Sure(k)' =>
           Sure(k) /\ Id(k) \notin Free /\ active'[k] = active[k] /\ Id(k)' = Id(k)
    BY <1>1, <1>2 DEF Sure
  <1>9. Sure(b)' => Sure(o) /\ Id(o) \notin Free
    BY <1>1, <1>2 DEF Sure
  <1>10. CASE n = b
    <2>1. /\ Sure(o) /\ Id(o) \notin Free /\ HasKid(o, x) /\ Sure(x) /\ x # b
          /\ active'[x] = active[x]
      BY <1>1, <1>2, <1>8, <1>9, <1>10 DEF HasKid
    <2>2. Parent(x) # o
      BY <1>1, <1>2, <1>3, <1>4, <2>1, SureRecord DEF Covered, Mentions, Parent
    <2>3. ASSUME NEW v \in Windows, Linking(v, x, o)
          PROVE  FALSE
      <3>1. o \in Handled(win[v]) /\ v # w
        BY <1>1, <2>3, IsHandled, TasksAssumption DEF Linking, TasksAssumption
      <3> QED
        BY <1>1, <2>1, <3>1, Both
    <2>4. ASSUME NEW c \in Renames, NamesAnew(o, x, c)
          PROVE  FALSE
      <3>1. win[w].cmd = c
        BY <1>1, <2>1, <2>4, Owner DEF NamesAnew
      <3> QED
        BY <1>1, <2>1, <2>4, <3>1 DEF NamesAnew
    <2>5. ASSUME NEW c \in Renames, ParentAnew(o, x, c)
          PROVE  Parent(x)' = n
      <3>1. win[w].cmd = c
        BY <1>1, <2>1, <2>5, Owner DEF ParentAnew
      <3> QED
        BY <1>1, <1>10, <2>1, <2>5, <3>1 DEF ParentAnew, Parent
    <2>6. ASSUME NEW c \in Archives, Shelving(o, c)
          PROVE  FALSE
      BY <1>1, <2>1, <2>6, NotShelving
    <2>7. Owns(o, x)
      BY <1>2, <2>1 DEF Owned
    <2> QED
      BY <2>2, <2>3, <2>4, <2>5, <2>6, <2>7 DEF Owns
  <1>11. CASE x = b
    <2>1. /\ Sure(n) /\ Id(n) \notin Free /\ HasKid(n, b) /\ Id(n)' = Id(n)
          /\ Sure(o) /\ Clear(o) /\ Id(o) \notin Free
      BY <1>2, <1>8, <1>9, <1>11, SureClear DEF HasKid
    <2>2. Missing(b)
      BY <1>1, <1>3, <2>1 DEF Missing, Expected
    <2>3. PICK c \in Renames : c.b = b /\ Underway(n, c)
      BY <1>11, <2>1, <2>2 DEF KidsAwaited
    <2>4. CASE c = win[w].cmd
      <3>1. Underway(o, c)
        BY <1>1, <2>4 DEF Underway, Writing
      <3>2. Parent(o) = n
        BY <1>1, <1>2, <1>11, <2>1, <2>3, <2>4, <3>1 DEF KidsInherit
      <3>3. Parent(x)' = n
        BY <1>1, <1>11, <3>2 DEF Parent
      <3> QED
        BY <3>3 DEF Owns
    <2>5. CASE c # win[w].cmd
      <3>1. Underway(n, c)'
        BY <1>7, <2>1, <2>3, <2>5, UnderwayStays
      <3>2. ASSUME NEW v \in Windows, win'[v].pc = "sessions", win'[v].cmd = c
            PROVE  FALSE
        <4>1. v # w /\ win'[v] = win[v]
          BY <1>5, <1>6, <2>5, <3>2
        <4>2. b \in Handled(win[v])
          BY <2>3, <3>2, <4>1, RenameOf, RenamesAre
        <4> QED
          BY <1>1, <2>1, <4>1, <4>2, Both
      <3>3. NamesAnew(n, x, c)'
        BY <1>11, <2>3, <3>1, <3>2 DEF NamesAnew
      <3> QED
        BY <3>3 DEF Owns
    <2> QED
      BY <2>4, <2>5
  <1>12. CASE n # b /\ x # b
    <2>1. /\ Sure(n) /\ Id(n) \notin Free /\ active'[n] = active[n] /\ Id(n)' = Id(n)
          /\ Sure(x) /\ Id(x) \notin Free /\ active'[x] = active[x] /\ Id(x)' = Id(x)
      BY <1>2, <1>8, <1>12
    <2>2. HasKid(n, x) /\ Parent(x)' = Parent(x) /\ HasRecord(n) /\ HasRecord(x)
      BY <2>1, SureRecord DEF Parent, HasKid
    <2>3. ASSUME NEW v \in Windows, Linking(v, x, n)
          PROVE  Linking(v, x, n)'
      <3>1. v # w
        BY <1>1, <2>3 DEF Linking
      <3> QED
        BY <1>6, <2>3, <3>1 DEF Linking
    <2>4. ASSUME NEW c \in Renames, NamesAnew(n, x, c)
          PROVE  NamesAnew(n, x, c)'
      <3>1. /\ c.b = x /\ Underway(n, c)
            /\ \A v \in Windows : ~(win[v].pc = "sessions" /\ win[v].cmd = c)
        BY <2>4 DEF NamesAnew
      <3>2. c # win[w].cmd
        BY <1>1, <1>12, <3>1
      <3>3. Underway(n, c)'
        BY <1>7, <2>1, <3>1, <3>2, UnderwayStays
      <3>4. \A v \in Windows : ~(win'[v].pc = "sessions" /\ win'[v].cmd = c)
        BY <1>5, <1>6, <3>1, <3>2
      <3> QED
        BY <3>1, <3>3, <3>4 DEF NamesAnew
    <2>5. ASSUME NEW c \in Renames, ParentAnew(n, x, c)
          PROVE  ParentAnew(n, x, c)'
      <3>1. c.a = n /\ Underway(n, c) /\ Underway(x, c) /\ c # win[w].cmd
        BY <1>1, <1>2, <2>5 DEF ParentAnew
      <3>2. Underway(n, c)' /\ Underway(x, c)'
        BY <1>7, <2>1, <3>1, UnderwayStays
      <3> QED
        BY <2>2, <2>5, <3>2 DEF ParentAnew
    <2>6. ASSUME NEW c \in Archives, c.a = n, Shelving(n, c), Shelving(x, c)
          PROVE  Shelving(n, c)' /\ Shelving(x, c)'
      BY <1>2, <1>4, <2>1, <2>2, <2>6, ShelvingStays
    <2>7. Owns(n, x)
      BY <2>1, <2>2 DEF Owned
    <2> QED
      BY <2>2, <2>3, <2>4, <2>5, <2>6, <2>7 DEF Owns
  <1> QED
    BY <1>10, <1>11, <1>12

LEMMA OwnedStays ==
    ASSUME IInv, Flows, IdsOK, MarksOK, LinksInv, LinkSteps, KidsAwaited, Owned, KidsInherit,
           NEW w \in Windows, Continue(w)
    PROVE  Owned'
  <1> SUFFICES ASSUME NEW n \in Names, NEW x \in Names, n # x, Sure(n)', Sure(x)', HasKid(n, x)'
               PROVE  Owns(n, x)'
    BY DEF Owned
  <1>1. CASE CreateRecord(w)
    BY <1>1, OwnedBorn
  <1>2. CASE RenameMove(w)
    BY <1>2, OwnedMoved
  <1>3. CASE ~CreateRecord(w) /\ ~RenameMove(w)
    BY <1>3, OwnedKept, NewlyOwned
  <1> QED
    BY <1>1, <1>2, <1>3

\* A rename begins to write the task and what names it.
LEMMA KidsInheritFirst ==
    ASSUME IInv, Flows, IdsOK, MarksOK, LinksInv, KidsAwaited, KidsInherit, NEW w \in Windows,
           NEW c \in Renames, win[w].cmd = c, win[w].pc = "own",
           NEW a \in Names, a = c.a, NEW n \in Names, n # a, n # c.b,
           Sure(n), Sure(a), HasKid(n, c.b),
           Underway(n, c) \/ n \in Handled(win[w])
    PROVE  Parent(a) = n
  <1>1. Retried
    BY DEF LinksInv
  <1>2. c.op = "rename" /\ c.b \in Names /\ a \in Handled(win[w])
    BY RenamesAre, RenameOf
  <1>3. Id(n) \notin Free /\ Id(a) \notin Free /\ Clear(n) /\ Clear(a)
    BY SureRecord
  <1>4. Missing(c.b)
    BY <1>2, <1>3 DEF Missing, Expected, Moving
  <1>5. PICK d \in Renames : d.b = c.b /\ Underway(n, d)
    BY <1>2, <1>4 DEF KidsAwaited
  <1>6. Underway(n, c)
    <2>1. n \in Handled(win[w]) => d = c
      BY <1>3, <1>5, Owner
    <2> QED
      BY <1>5, <2>1
  <1>7. Marked(n, c)
    <2>1. ASSUME NEW v \in Windows, Writing(v, c), n \in Handled(win[v])
          PROVE  FALSE
      <3>1. v # w /\ a \in Handled(win[v])
        BY <2>1, RenameOf, RenamesAre DEF Writing
      <3> QED
        BY <1>2, <1>3, <3>1, Both
    <2> QED
      BY <1>6, <2>1 DEF Underway
  <1>8. Marked(a, c)
    BY <1>1, <1>2, <1>3, <1>7 DEF Retried
  <1> QED
    BY <1>6, <1>8 DEF KidsInherit, Underway

LEMMA KidsInheritStays ==
    ASSUME IInv, Flows, IdsOK, MarksOK, LinksInv, KidsAwaited, Owned, KidsInherit,
           NEW w \in Windows, Continue(w)
    PROVE  KidsInherit'
  <1> SUFFICES ASSUME NEW c \in Renames, NEW n \in Names, n # c.a, n # c.b,
                      Sure(n)', Sure(c.a)', Underway(c.a, c)', Underway(n, c)', HasKid(n, c.b)'
               PROVE  Parent(c.a)' = n
    BY DEF KidsInherit
  <1>1. PICK a \in Names, b \in Names : a = c.a /\ b = c.b /\ c.op = "rename" /\ b # None /\ n # None
    BY RenamesAre, TasksAssumption DEF TasksAssumption
  <1>2. Id(n)' \notin Free' /\ Id(a)' \notin Free' /\ Sure(a)'
    BY <1>1 DEF Sure
  <1>3. LinksRead /\ ParentThere
    BY DEF LinksInv
  <1>4. ASSUME Sure(n), Sure(a), Underway(a, c), Underway(n, c), HasKid(n, b)
        PROVE  Parent(a) = n
    BY <1>1, <1>4 DEF KidsInherit
  <1>5. HasKid(n, b)'
    BY <1>1
  <1>6. CASE CreateRecord(w)
    <2>1. n # win[w].cmd.a /\ a # win[w].cmd.a
      BY <1>1, <1>2, <1>6, UnderwayBorn
    <2>2. active'[n] = active[n] /\ active'[a] = active[a]
      BY <1>6, <2>1, BornLinks
    <2>3. win[w].pc = "new" /\ ~RenameMove(w)
      BY <1>6 DEF CreateRecord, RenameMove, MayMove, Step
    <2>4. Sure(n) /\ Sure(a) /\ Id(n) \notin Free /\ Id(a) \notin Free
      BY <1>2, <2>1, <2>3, SureBack, SureRecord
    <2>5. Underway(n, c) /\ Underway(a, c)
      BY <1>1, <2>2, <2>3, <2>4, UnderwayBack, SameRecord
    <2> QED
      BY <1>1, <1>4, <1>5, <2>2, <2>4, <2>5, SameRecord
  <1>7. CASE RenameMove(w)
    <2>1. PICK o \in Names, z \in Names :
            /\ o = win[w].cmd.a /\ z = win[w].cmd.b /\ o # z /\ o \in Handled(win[w])
            /\ win[w].pc = "backrefs" /\ Id(o)' = 0 /\ Id(z)' = Id(o)
            /\ \A k \in Names \ {o, z} : active'[k] = active[k]
      BY <1>7, Moves
    <2>2. n # o /\ a # o
      BY <1>2, <2>1 DEF Free
    <2>3. ASSUME NEW k \in {n, a}, k = z
          PROVE  FALSE
      <3>1. Free \subseteq Free'
        BY HistoryGrows
      <3>2. Id(o) \notin Free
        BY <1>2, <2>1, <2>3, <3>1
      <3>3. Underway(o, c)
        BY <1>1, <1>7, <2>1, <2>3, <3>2, UnderwayMoved
      <3>4. win[w].cmd = c
        BY <2>1, <3>2, <3>3, Owner
      <3> QED
        BY <1>1, <2>1, <2>3, <3>4
    <2>4. active'[n] = active[n] /\ active'[a] = active[a]
      BY <2>1, <2>2, <2>3
    <2>5. ~CreateRecord(w)
      BY <2>1 DEF CreateRecord, Step
    <2>6. Sure(n) /\ Sure(a) /\ Id(n) \notin Free /\ Id(a) \notin Free
      BY <1>2, <2>1, <2>3, <2>5, SureBack, SureRecord
    <2>7. Underway(n, c) /\ Underway(a, c)
      BY <1>1, <2>1, <2>4, <2>6, UnderwayBack, SameRecord
    <2> QED
      BY <1>1, <1>4, <1>5, <2>4, <2>6, <2>7, SameRecord
  <1>8. CASE ~CreateRecord(w) /\ ~RenameMove(w)
    <2>1. /\ Sure(n) /\ Sure(a) /\ Id(n) \notin Free /\ Id(a) \notin Free
          /\ Id(n)' = Id(n) /\ Id(a)' = Id(a)
      BY <1>2, <1>8, SureStays
    <2>2. /\ Underway(n, c) \/ (win[w].cmd = c /\ win[w].pc = "own" /\ n \in Handled(win[w]))
          /\ Underway(a, c) \/ (win[w].cmd = c /\ win[w].pc = "own" /\ a \in Handled(win[w]))
      BY <1>1, <2>1, UnderwayBack
    <2>3. ParentSet(w, a) /\ ListSet(w, n, b)
      BY <1>1, <1>2, <1>3, <1>8, LinkChanges
    <2>4. CASE win[w].cmd = c /\ win[w].pc = "own"
      <3>1. ~WriteChild(w) /\ ~WriteParent(w) /\ ~RenameBackref(w) /\ ~ArchiveUnlink(w)
        BY <2>4 DEF WriteChild, WriteParent, RenameBackref, ArchiveUnlink, Step
      <3>2. SameLinks(n) /\ SameLinks(a)
        BY <1>2, <1>3, <1>8, <3>1, QuietSteps
      <3>3. HasKid(n, b) /\ Parent(a)' = Parent(a)
        BY <1>1, <1>5, <3>2 DEF SameLinks
      <3>4. Parent(a) = n
        BY <1>1, <2>1, <2>2, <2>4, <3>3, KidsInheritFirst
      <3> QED
        BY <1>1, <3>3, <3>4
    <2>5. CASE ~(win[w].cmd = c /\ win[w].pc = "own")
      <3>1. Underway(n, c) /\ Underway(a, c)
        BY <2>2, <2>5
      <3>2. \A k \in {n, a} : k \in Handled(win[w]) => win[w].cmd = c
        BY <2>1, <3>1, Owner
      <3>3. ASSUME Parent(a) = n
            PROVE  Parent(a)' = n
        <4>1. Parent(a)' # None
          <5> SUFFICES ASSUME Parent(a)' = None
                       PROVE  FALSE
            OBVIOUS
          <5>1. Cleared(w, a)
            BY <1>1, <1>2, <1>3, <1>8, <3>3, Clears
          <5> QED
            BY <1>1, <3>2, <5>1 DEF Cleared
        <4>2. ~(Links(win[w].cmd) /\ a \in Handled(win[w]))
          BY <1>1, <3>2 DEF Links
        <4>3. ~(a \in Handled(win[w]) /\ Parent(a) = win[w].cmd.a)
          BY <1>1, <3>2, <3>3
        <4> QED
          BY <2>3, <3>3, <4>1, <4>2, <4>3 DEF ParentSet
      <3>4. ASSUME WriteParent(w), n \in Handled(win[w])
            PROVE  FALSE
        <4>1. win[w].pc = "parent" /\ win[w].cmd.op = "rename"
          BY <1>1, <3>2, <3>4 DEF WriteParent, Step
        <4> QED
          BY <4>1, RenameOf
      <3>5. ASSUME RenameBackref(w), n \in Handled(win[w]), HasKid(n, win[w].cmd.a)
            PROVE  Parent(a) = n
        <4>1. win[w].cmd = c /\ win[w].pc = "backrefs" /\ HasKid(n, a)
          BY <1>1, <3>2, <3>5 DEF RenameBackref, Step
        <4>2. a \in Handled(win[w]) /\ a # b /\ a # n
          BY <1>1, <4>1, RenameOf
        <4>3. ASSUME NEW v \in Windows, Linking(v, a, n)
              PROVE  FALSE
          <5>1. a \in Handled(win[v]) /\ v # w
            BY <4>1, <4>3, IsHandled, TasksAssumption DEF Linking, TasksAssumption
          <5> QED
            BY <2>1, <4>2, <5>1, Both
        <4>4. ASSUME NEW d \in Renames, NamesAnew(n, a, d) \/ ParentAnew(n, a, d)
              PROVE  FALSE
          <5>1. Underway(n, d)
            BY <4>4 DEF NamesAnew, ParentAnew
          <5>2. d = c
            BY <2>1, <3>5, <4>1, <5>1, Owner
          <5> QED
            BY <1>1, <4>2, <4>4, <5>2 DEF NamesAnew, ParentAnew
        <4>5. ASSUME NEW d \in Archives, Shelving(n, d)
              PROVE  FALSE
          BY <1>1, <2>1, <3>5, <4>1, <4>5, NotShelving
        <4>6. Owns(n, a)
          BY <2>1, <4>1, <4>2 DEF Owned
        <4> QED
          BY <4>3, <4>4, <4>5, <4>6 DEF Owns
      <3>6. Parent(a) = n
        <4>1. ASSUME HasKid(n, b)
              PROVE  Parent(a) = n
          BY <1>4, <2>1, <3>1, <4>1
        <4>2. \/ HasKid(n, b)' <=> HasKid(n, b)
              \/ WriteParent(w) /\ n \in Handled(win[w])
              \/ RenameBackref(w) /\ n \in Handled(win[w]) /\ HasKid(n, win[w].cmd.a)
          BY <1>1, <1>5, <2>3, <3>2 DEF ListSet
        <4> QED
          BY <1>5, <3>4, <3>5, <4>1, <4>2
      <3> QED
        BY <1>1, <3>3, <3>6
    <2> QED
      BY <2>4, <2>5
  <1> QED
    BY <1>6, <1>7, <1>8

LEMMA OwnedOutside ==
    ASSUME Owned, NEW w, Outside(w)
    PROVE  Owned'
  <1> SUFFICES ASSUME NEW n \in Names, NEW x \in Names, n # x, Sure(n)', Sure(x)', HasKid(n, x)'
               PROVE  Owns(n, x)'
    BY DEF Owned
  <1>1. /\ Sure(n) /\ Sure(x) /\ HasRecord(n) /\ HasRecord(x)
        /\ \A c : Underway(n, c)' <=> Underway(n, c)
        /\ \A c : Underway(x, c)' <=> Underway(x, c)
        /\ \A c : Marked(n, c)' <=> Marked(n, c)
        /\ \A c : Marked(x, c)' <=> Marked(x, c)
    BY OutsideKeeps
  <1>2. HasKid(n, x) /\ Parent(x)' = Parent(x)
    BY <1>1 DEF Outside
  <1>3. \A v \in Windows : win'[v] = win[v] \/ (v = w /\ Begins(w))
    BY DEF Outside
  <1>4. ASSUME NEW v \in Windows, win[v].pc # "idle"
        PROVE  win'[v] = win[v]
    BY <1>3, <1>4 DEF Begins
  <1>5. ASSUME NEW v \in Windows, Linking(v, x, n)
        PROVE  Linking(v, x, n)'
    BY <1>4, <1>5 DEF Linking
  <1>6. ASSUME NEW c \in Renames, NamesAnew(n, x, c)
        PROVE  NamesAnew(n, x, c)'
    <2>1. \A v \in Windows : ~(win'[v].pc = "sessions" /\ win'[v].cmd = c)
      BY <1>3, <1>6 DEF NamesAnew, Begins, Opened
    <2> QED
      BY <1>1, <1>6, <2>1 DEF NamesAnew
  <1>7. ASSUME NEW c \in Renames, ParentAnew(n, x, c)
        PROVE  ParentAnew(n, x, c)'
    BY <1>1, <1>2, <1>7 DEF ParentAnew
  <1>8. ASSUME NEW c, NEW k \in {n, x}, Shelving(k, c)
        PROVE  Shelving(k, c)'
    BY <1>1, <1>4, <1>8 DEF Shelving
  <1>9. Owns(n, x)
    BY <1>1, <1>2 DEF Owned
  <1> QED
    BY <1>2, <1>5, <1>6, <1>7, <1>8, <1>9 DEF Owns

LEMMA KidsInheritOutside ==
    ASSUME KidsInherit, NEW w, Outside(w)
    PROVE  KidsInherit'
  <1> SUFFICES ASSUME NEW c \in Renames, NEW n \in Names, n # c.a, n # c.b,
                      Sure(n)', Sure(c.a)', Underway(c.a, c)', Underway(n, c)', HasKid(n, c.b)'
               PROVE  Parent(c.a)' = n
    BY DEF KidsInherit
  <1>1. PICK a \in Names, b \in Names : a = c.a /\ b = c.b
    BY RenamesAre
  <1>2. Sure(a)' /\ Underway(a, c)' /\ HasKid(n, b)'
    BY <1>1
  <1>3. /\ Sure(n) /\ Sure(a) /\ HasRecord(n) /\ HasRecord(a) /\ Underway(a, c) /\ Underway(n, c)
    BY <1>2, OutsideKeeps
  <1>4. HasKid(n, b) /\ Parent(a)' = Parent(a)
    BY <1>2, <1>3 DEF Outside
  <1>5. Parent(a) = n
    BY <1>1, <1>3, <1>4 DEF KidsInherit
  <1> QED
    BY <1>1, <1>4, <1>5

LEMMA OwnedStart == Init => Owned /\ KidsInherit
  <1> SUFFICES ASSUME Init
               PROVE  Owned /\ KidsInherit
    OBVIOUS
  <1>1. active = First /\ broken = {} /\ \A w \in Windows : win[w] = Idle
    BY DEF Init
  <1>2. ASSUME NEW n \in Names, NEW x \in Names, n # x, Sure(n), HasKid(n, x)
        PROVE  Parent(x) = n
    <2>1. First[n] # None /\ x \in First[n].kids
      BY <1>1, <1>2, SureRecord DEF HasRecord, HasKid
    <2> QED
      BY <1>1, <1>2, <2>1, FirstLinks DEF Parent
  <1>3. ASSUME NEW n, NEW c, Underway(n, c)
        PROVE  FALSE
    BY <1>1, <1>3, IdleIs DEF Underway, Marked, Writing
  <1> QED
    BY <1>2, <1>3 DEF Owned, Owns, KidsInherit
-----------------------------------------------------------------------------
(* What the links alone show of tasks that no command is at work on or     *)
(* left halfway: a child is in the list of its parent, and the curated     *)
(* context of each lies in its own directory.                              *)

ChildrenKnown ==
    \A n \in Settled :
        /\ active[n].manifest \in {None, n}
        /\ \A m \in Settled \ {n} : active[m].parent = n => m \in active[n].kids

LEMMA SettledIs ==
    ASSUME IInv, NEW n \in Settled
    PROVE  /\ n \in Names /\ HasRecord(n) /\ Clear(n) /\ Id(n) = active[n].id /\ Id(n) \notin Free
           /\ \A c \in Renames : ~Underway(n, c)
           /\ \A w \in Windows : n \notin Handled(win[w])
  <1>1. n \in Names /\ HasRecord(n) /\ Id(n) = active[n].id
    BY DEF Settled, Records, Id
  <1>2. Id(n) \notin crossed /\ \A b \in broken : b.id # Id(n)
    BY <1>1 DEF Settled, Blamed
  <1>3. active[n] \in Task
    BY <1>1, RecordIs DEF IInv
  <1>4. Id(n) \notin Free /\ Id(n) \notin Hidden
    BY <1>1, <1>2, <1>3 DEF Free, Hidden, Task, Ids
  <1>5. \A w \in Windows : n \notin Handled(win[w])
    BY DEF Settled, Busy
  <1>6. \A c \in Renames : ~Underway(n, c)
    BY <1>2, <1>5 DEF Underway, Marked
  <1> QED
    BY <1>1, <1>4, <1>5, <1>6 DEF Clear

LEMMA ChildrenShow ==
    ASSUME IInv, EntriesOK, LinksInv
    PROVE  ChildrenKnown
  <1>1. ASSUME NEW n \in Settled
        PROVE  active[n].manifest \in {None, n}
    <2>1. /\ n \in Names /\ Id(n) \notin Free /\ Id(n) = active[n].id
          /\ \A w \in Windows : n \notin Handled(win[w])
      BY SettledIs
    <2>2. \A b \in broken : b.id # Id(n)
      BY <2>1 DEF Settled, Blamed
    <2>3. Id(n) \notin Over
      BY <2>2 DEF Over
    <2>4. \A c \in Command : ~Pending(n, c)
      <3> SUFFICES ASSUME NEW c \in Command, Pending(n, c)
                   PROVE  FALSE
        OBVIOUS
      <3>1. c.a = n
        BY DEF Pending
      <3>2. [id |-> Id(n), by |-> c] \notin broken
        BY <2>2, [id |-> Id(n), by |-> c].id = Id(n)
      <3>3. PICK w \in Windows : win[w].pc = "backrefs" /\ win[w].cmd = c
        BY <3>2 DEF Pending
      <3>4. n # None
        BY <2>1, TasksAssumption DEF TasksAssumption
      <3>5. n \in Handled(win[w])
        BY <3>1, <3>3, <3>4 DEF Handled
      <3> QED
        BY <2>1, <3>5
    <2> QED
      BY <2>1, <2>3, <2>4 DEF EntriesOK, OwnEntries
  <1>2. ASSUME NEW n \in Settled, NEW m \in Settled \ {n}, active[m].parent = n
        PROVE  m \in active[n].kids
    <2>1. /\ n \in Names /\ m \in Names /\ Clear(n) /\ Clear(m)
          /\ \A c \in Renames : ~Underway(m, c)
          /\ \A w \in Windows : m \notin Handled(win[w])
      BY SettledIs
    <2>2. \A w \in Windows : ~Unlinking(w, m, n)
      BY <2>1, TasksAssumption DEF TasksAssumption, Unlinking, Handled
    <2> QED
      BY <1>2, <2>1, <2>2 DEF LinksInv, Matched, Parent, HasKid, ListedAnew, NamesAnew
  <1> QED
    BY <1>1, <1>2 DEF ChildrenKnown
-----------------------------------------------------------------------------
(* What the records say of each other, all together.                       *)

RefsInv ==
    /\ NamesInv /\ LinkSteps /\ KidsAwaited /\ ArchCovered /\ ParentsThere
    /\ Owned /\ KidsInherit

LEMMA RefsStart == Init => RefsInv
  BY NamesStart, LinkStepsStart, KidsAwaitedStart, ArchCoveredStart, ParentsThereStart, OwnedStart
     DEF RefsInv

LEMMA RefsOutside ==
    ASSUME IInv, Flows, LinksInv, RefsInv, NEW w, Outside(w)
    PROVE  RefsInv'
  BY NamesOutside, LinkStepsOutside, KidsAwaitedOutside, ArchCoveredOutside, ParentsThereOutside,
     OwnedOutside, KidsInheritOutside DEF RefsInv

LEMMA RefsGoOn ==
    ASSUME IInv, Flows, IdsOK, MarksOK, LinksInv, RefsInv, NEW w \in Windows, Continue(w)
    PROVE  RefsInv'
  <1>1. NamesInv'
    BY NamesGoOn DEF RefsInv, LinksInv
  <1>2. LinkSteps' /\ KidsAwaited' /\ ArchCovered' /\ ParentsThere'
    BY LinkStepsGoOn, KidsAwaitedStays, ArchCoveredStays, ParentsThereStays DEF RefsInv
  <1>3. Owned' /\ KidsInherit'
    BY OwnedStays, KidsInheritStays DEF RefsInv
  <1> QED
    BY <1>1, <1>2, <1>3 DEF RefsInv

LEMMA RefsStay ==
    ASSUME IInv, Flows, LinksInv, RefsInv, UNCHANGED <<active, archived, win, crossed, broken>>
    PROVE  RefsInv'
  BY RestsOutside, RefsOutside

LEMMA RefsKeep ==
    ASSUME IInv, Whereabouts, Upkeep, LinksInv, RefsInv, [Next]_vars
    PROVE  RefsInv'
  <1>1. Flows /\ IdsOK /\ MarksOK
    BY DEF Whereabouts, Upkeep
  <1> QED
    BY <1>1, StepsAre, RefsGoOn, RefsOutside

LEMMA SettledSure ==
    ASSUME IInv, NEW n \in Settled
    PROVE  /\ Sure(n)
           /\ \A c \in Archives : ~Shelving(n, c)
  <1>1. /\ n \in Names /\ Id(n) = active[n].id /\ Id(n) \notin Free
        /\ \A w \in Windows : n \notin Handled(win[w])
    BY SettledIs
  <1>2. \A b \in broken : b.id # Id(n)
    BY <1>1 DEF Settled, Blamed
  <1>3. Sure(n)
    BY <1>1, <1>2 DEF Sure, Lasting
  <1>4. ASSUME NEW c, Marked(n, c)
        PROVE  FALSE
    BY <1>2, <1>4, [id |-> Id(n), by |-> c].id = Id(n) DEF Marked
  <1> QED
    BY <1>1, <1>3, <1>4 DEF Shelving

(* A task in the list of another one, both at rest, names it.              *)
LEMMA ListedNames ==
    ASSUME IInv, RefsInv, NEW n \in Settled, NEW m \in Settled \ {n}, HasKid(n, m)
    PROVE  Parent(m) = n
  <1>1. /\ n \in Names /\ m \in Names /\ Sure(n) /\ Sure(m)
        /\ \A c \in Renames : ~Underway(n, c)
        /\ \A w \in Windows : m \notin Handled(win[w])
        /\ \A c \in Archives : ~Shelving(n, c)
    BY SettledIs, SettledSure
  <1>2. Owns(n, m)
    BY <1>1 DEF RefsInv, Owned
  <1>3. \A w \in Windows : ~Linking(w, m, n)
    BY <1>1, TasksAssumption DEF TasksAssumption, Linking, Handled
  <1> QED
    BY <1>1, <1>2, <1>3 DEF Owns, NamesAnew, ParentAnew

(* A task in the list of one at rest is there or in the archive.           *)
LEMMA ListedThere ==
    ASSUME IInv, RefsInv, NEW n \in Settled, NEW m \in Done(n) \ Records
    PROVE  archived[m] # None
  <1>1. n \in Names /\ HasRecord(n) /\ Sure(n) /\ \A c \in Renames : ~Underway(n, c)
    BY SettledIs, SettledSure
  <1>2. active[n] \in Task
    BY <1>1, RecordIs DEF IInv
  <1>3. HasKid(n, m) /\ m \in Names
    BY <1>2 DEF Done, HasKid, Task
  <1>4. n # m /\ ~HasRecord(m)
    BY <1>1, <1>3 DEF HasRecord, Records
  <1> QED
    BY <1>1, <1>3, <1>4 DEF RefsInv, KidsAwaited, Missing

(* Nothing at rest names a task in the archive as its parent.              *)
LEMMA ParentsActive ==
    ASSUME IInv, Whereabouts, RefsInv, NEW p \in OnShelf, archived[p].id \notin Blamed, NEW m \in Settled
    PROVE  Parent(m) # p
  <1>1. /\ m \in Names /\ HasRecord(m) /\ Sure(m)
        /\ \A c \in Renames : ~Underway(m, c)
    BY SettledIs, SettledSure
  <1>2. p \in Names /\ Kept(p) = archived[p].id /\ archived[p] \in Task
    BY DEF OnShelf, Kept, IInv, StoreOK, Record
  <1>3. SureKept(p)
    BY <1>2 DEF SureKept, Blamed, Lasting, Free, Task, Ids
  <1>4. Kept(p) \notin Free
    BY <1>3 DEF SureKept
  <1>5. active[p] = None
    BY <1>2, <1>4 DEF Whereabouts, IdsOK, Apart
  <1>6. m # p
    BY <1>1, <1>5 DEF HasRecord
  <1> QED
    BY <1>1, <1>2, <1>3, <1>6 DEF RefsInv, ParentsThere

LEMMA ReferencesShow ==
    ASSUME IInv, Whereabouts, EntriesOK, LinksInv, RefsInv
    PROVE  ReferencesAgree
  <1>1. ASSUME NEW n \in Settled
        PROVE  active[n].name = n
    BY SettledIs, SettledSure DEF RefsInv, NamesInv, NameOK, Name
  <1>2. ASSUME NEW n \in Settled
        PROVE  /\ active[n].manifest \in {None, n}
               /\ \A m \in Settled \ {n} : m \in active[n].kids <=> active[m].parent = n
    BY ChildrenShow, ListedNames DEF ChildrenKnown, HasKid, Parent
  <1>3. ASSUME NEW n \in Settled, NEW m \in Done(n) \ Records
        PROVE  archived[m] # None
    BY <1>3, ListedThere
  <1>4. ASSUME NEW n \in OnShelf, archived[n].id \notin Blamed, NEW m \in Settled
        PROVE  active[m].parent # n
    BY <1>4, ParentsActive DEF Parent
  <1> QED
    BY <1>1, <1>2, <1>3, <1>4 DEF ReferencesAgree

(* Whatever the commands of the windows did before, of the tasks that none *)
(* is at work on and none was kept from finishing: a record carries the    *)
(* name of its directory, and its curated context is of that directory,    *)
(* however often it was renamed; one task is in the list of another        *)
(* exactly if it names that one as its parent; a child that counts as done *)
(* because it is gone is in the archive; and nobody names a parent that    *)
(* was archived.                                                           *)
THEOREM ReferencesHold == Spec => []ReferencesAgree
  <1> DEFINE Inv == IInv /\ Whereabouts /\ Upkeep /\ LinksInv /\ RefsInv
  <1>1. Init => Inv
    BY InitKeeps, WhereaboutsStart, UpkeepStart, LinksStart, RefsStart
  <1>2. Inv /\ [Next]_vars => Inv'
    BY NextKeeps, WhereaboutsKeep, UpkeepKeeps, LinksKeep, RefsKeep
  <1>3. Inv => ReferencesAgree
    BY ReferencesShow DEF Upkeep
  <1> HIDE DEF Inv
  <1> QED
    BY <1>1, <1>2, <1>3, PTL DEF Spec
=============================================================================
