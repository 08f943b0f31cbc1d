------------------------------- MODULE Tasks -------------------------------
(***************************************************************************)
(* The task store of .trellis/tasks: task.py creates, renames, links,      *)
(* starts and archives tasks.  A task is a directory with a task.json; a   *)
(* link between a parent and a child is stored in the files of both.  Each *)
(* command reads whole files, computes, and writes whole files back, one   *)
(* after another and without a lock, while the commands of other windows   *)
(* do the same; it can be killed, and a write, a git call or a deletion    *)
(* can fail, between any two of those steps.                               *)
(*                                                                         *)
(* The pointers of the windows are those of module Sessions.               *)
(***************************************************************************)
EXTENDS Naturals, FiniteSets

CONSTANTS Windows, Names, None, Native, Hooked,  \* as in Sessions
          Bare,         \* a task directory without a readable task.json
          First,        \* the tasks there are at first
          FirstPtr,     \* the pointers at first
          Menu,         \* per window: the commands it may run
          MaxCommands,  \* bound on commands run
          MaxMishaps    \* bound on kills and on failing steps

VARIABLES active,    \* per name: the record of .trellis/tasks/<name>
          archived,  \* per name: that of .trellis/tasks/archive/<month>/<name>
          index,     \* names with files in the git index, in both places
          head,      \* the same at HEAD
          ptr,       \* as in Sessions
          tickets,   \* as in Sessions
          win,       \* per window: the running command and what it has read
          ran,       \* commands run so far
          mishaps,   \* mishaps so far
          made,      \* history: tasks created
          crossed,   \* history: tasks two commands handled at once
          broken,    \* history: tasks a command left half handled, and which
          adrift,    \* history: pointers a step could not bring along
          owed       \* history: archived, archive commit not made yet

taskVars == <<active, archived>>
gitVars == <<index, head>>
sessionVars == <<ptr, tickets>>
boundVars == <<ran, mishaps>>
vars == <<active, archived, index, head, ptr, tickets, win, ran, mishaps,
          made, crossed, broken, adrift, owed>>

-----------------------------------------------------------------------------
(* Tasks.  id is a history variable: the creation the record stems from.   *)
(* manifest is the task directory that the curated entries of              *)
(* implement.jsonl and check.jsonl lie in, None when there is no entry;    *)
(* branch is None until one is recorded, base is where its PR goes.        *)

Ids == Nat \ {0}
Branches == {"feature", "main"}
Task == [id : Ids, name : Names, status : {"planning", "in_progress", "completed"},
         branch : Branches \cup {None}, base : Branches,
         parent : Names \cup {None}, kids : SUBSET Names,
         manifest : Names \cup {None}]

ASSUME TasksAssumption ==
    /\ None \notin Windows /\ None \notin Names
    /\ Bare \notin Task /\ None \notin Task /\ Bare # None
    /\ First \in [Names -> Task \cup {None}]
    /\ FirstPtr \in [Windows -> {n \in Names : First[n] # None} \cup {None}]
    /\ {MaxCommands, MaxMishaps} \subseteq Nat
    /\ IsFiniteSet(Names)

\* The first tasks are numbered, as the later ones are: ids are labels.
ASSUME FirstIds ==
    LET here == {n \in Names : First[n] # None}
    IN  /\ \A n, m \in here : First[n].id = First[m].id => n = m
        /\ {First[n].id : n \in here} = 1..Cardinality(here)

\* A first task has the name of its directory, is in the list of its parent,
\* and is the parent of those in its own; they are all there.
ASSUME FirstLinks ==
    \A n \in Names : First[n] # None =>
        LET p == First[n].parent
        IN  /\ First[n].name = n
            /\ p # None => First[p] # None /\ (p # n => n \in First[p].kids)
            /\ \A m \in First[n].kids : First[m] # None /\ (m # n => First[m].parent = n)

\* The entries of a first task lie in its own directory.
ASSUME FirstEntries == \A n \in Names : First[n] # None => First[n].manifest \in {None, n}

NewTask(i, n) ==
    [id |-> i, name |-> n, status |-> "planning", branch |-> None, base |-> "main",
     parent |-> None, kids |-> {}, manifest |-> None]

Dirs == {n \in Names : active[n] # None}
HasRecord(n) == n \in Names /\ active[n] \notin {None, Bare}
Records == {n \in Names : HasRecord(n)}
Unused(n) == active[n] = None /\ archived[n] = None

S == INSTANCE Sessions WITH dirs <- Dirs

-----------------------------------------------------------------------------
(* Commands.  A command is [op, a, b]; win[w] adds the step it is at, the  *)
(* records it read and the names it still has to handle.                   *)

Ops == {"create", "force", "rename", "archive", "hurried", "link", "unlink",
        "branch", "base", "note", "curate", "start", "finish", "record", "sync"}
Command == [op : Ops, a : Names \cup {None}, b : Names \cup {None}]

\* Only finish and record name no task; a rename and a link name two.
WellFormed(c) ==
    /\ c \in Command
    /\ c.op \notin {"finish", "record"} => c.a \in Names
    /\ c.op \in {"rename", "link", "unlink"} => c.b \in Names

ASSUME MenuAssumption == \A w \in Windows : \A c \in Menu[w] : WellFormed(c)

NothingRead == [n \in Names |-> None]
ReadNow(N) == [n \in Names |-> IF n \in N /\ HasRecord(n) THEN active[n] ELSE None]

Idle == [pc |-> "idle", cmd |-> [op |-> "finish", a |-> None, b |-> None],
         read |-> NothingRead, todo |-> {}]
At(pc, c, read, todo) == [pc |-> pc, cmd |-> c, read |-> read, todo |-> todo]

\* The task directories a command is about.
Handled(q) ==
    IF q.pc = "idle" THEN {}
    ELSE ({q.cmd.a, q.cmd.b} \ {None}) \cup q.todo
            \cup {n \in Names : q.read[n] # None}

HandledByOthers(w) == UNION {Handled(win[v]) : v \in Windows \ {w}}

Links(c) == c.op \in {"link", "create", "force"}

\* The directories that commands q and r are both about.  A link ties the other
\* end to them, and a rename to one of them the task and all that name it.
Shared(q, r) ==
    LET both == Handled(q) \cap Handled(r)
        tied == {p \in {q, r} : \/ Links(p.cmd) /\ both # {}
                                \/ p.cmd.op = "rename" /\ p.cmd.b \in both}
    IN  both \cup UNION {Handled(p) : p \in tied}

\* The record of n names o, as its parent or among its children.
Mentions(n, o) == active[n].parent = o \/ o \in active[n].kids

IdsAt(N) == {active[n].id : n \in {m \in N : HasRecord(m)}}
Mark(N, c) == {[id |-> i, by |-> c] : i \in IdsAt(N)}

\* The tasks that name o, blamed for a link that leads nowhere.
Namers(o) == {n \in Records : Mentions(n, o)}
Astray(o, c) == Mark(Namers(o), [c EXCEPT !.op = "link"])

\* Tasks that another command than c left half handled.
Unfinished(c) == {m.id : m \in {x \in broken : x.by # c}}

\* Tasks that an earlier attempt of rename c left half handled, unless it was
\* an attempt to rename the same task.
Stranded(c) ==
    LET left == {n \in Records : [id |-> active[n].id, by |-> c] \in broken}
    IN  IF c.op = "rename" /\ c.a \notin left THEN IdsAt(left) ELSE {}

\* Command c of window w goes on as q, having read what q says; the tasks
\* that another command handles too, or left unfinished, are crossed now, and
\* so are those that no attempt will finish any more.
Enter(w, q) ==
    /\ ran' = ran + 1
    /\ win' = [win EXCEPT ![w] = q]
    /\ crossed' = crossed \cup IdsAt(UNION {Shared(q, win[v]) : v \in Windows \ {w}})
                          \cup (IdsAt(Handled(q)) \cap Unfinished(q.cmd))
                          \cup Stranded(q.cmd)
    /\ UNCHANGED mishaps

Step(w, pc) == win[w].pc = pc

Go(w, pc) == win' = [win EXCEPT ![w].pc = pc]
Leave(w) == win' = [win EXCEPT ![w] = Idle]

\* Commands that write more than one file, once they have written one.
Halfway(q) ==
    q.pc \in {"child", "jsonl", "backrefs", "kids", "kid", "shelve"}

\* Window w's command ends before its work is done.
GiveUp(w) ==
    /\ Leave(w)
    /\ broken' = broken \cup (IF Halfway(win[w])
                              THEN Mark(Handled(win[w]), win[w].cmd) ELSE {})

\* A finished rename or archive makes up for its own earlier attempts.
Complete(w) ==
    /\ Leave(w)
    /\ broken' = {m \in broken : m.by # win[w].cmd}

\* The file a write of record t leaves in a directory; the manifests are
\* other files.
Stored(n, t) == IF HasRecord(n) THEN [t EXCEPT !.manifest = active[n].manifest]
                ELSE t

\* write_json of task n; the temporary file needs the directory.
Write(n, t) ==
    /\ active[n] # None
    /\ active' = [active EXCEPT ![n] = Stored(n, t)]
    /\ UNCHANGED archived

\* A mishap: at most MaxMishaps of them.
Mishap == mishaps < MaxMishaps /\ mishaps' = mishaps + 1

(* Mutation: the task need not be there any more. *)
PointsAnywhere(k, n) ==
    /\ k \in Windows
    /\ ptr' = [ptr EXCEPT ![k] = n]
    /\ UNCHANGED <<tickets, adrift>>

\* The archive of n that is past clearing its pointers notices no new one.
PastClearing(n) == \E v \in Windows : Step(v, "shelve") /\ win[v].cmd.a = n

\* A window points at n.
Points(k, n) ==
    /\ S!SetActive(k, n)
    /\ adrift' = IF PastClearing(n) THEN adrift \cup {k} ELSE adrift \ {k}

-----------------------------------------------------------------------------
(* create: a is the new task, b its parent or None.                        *)

\* A parent must be there; an existing task is only overwritten by --force.
MayCreate(c) ==
    /\ c.b # None => HasRecord(c.b)
    /\ archived[c.a] = None
    /\ (active[c.a] # None) <=> (c.op = "force")

\* The checks, the parent's record and the directory.
CreateDir(w, c) ==
    /\ c.op \in {"create", "force"} /\ MayCreate(c)
    /\ Enter(w, At("new", c, ReadNow({c.b}), {}))
    /\ active' = IF HasRecord(c.a) THEN active ELSE [active EXCEPT ![c.a] = Bare]
    /\ UNCHANGED <<archived, gitVars, sessionVars, made, broken, adrift, owed>>

\* The other files of an overwritten task stay as they are.
Inherited(c, t) ==
    {[id |-> t.id, by |-> c] : i \in IdsAt({c.a}) \cap (crossed \cup {m.id : m \in broken})}

\* The parent that a task is created under is crossed.
Doubtful(q) == q.cmd.b # None /\ q.read[q.cmd.b].id \in crossed

\* The new record; the links of an overwritten one are left to the others, and
\* so is who names one that could not be read.
CreateRecord(w) ==
    LET c == win[w].cmd
        t == NewTask(Cardinality(made) + 1, c.a)
        over == HasRecord(c.a) \/ c.op = "force"
        friends == {n \in Records : (over /\ Mentions(n, c.a)) \/ (HasRecord(c.a) /\ Mentions(c.a, n))}
    IN  /\ Step(w, "new")
        /\ Write(c.a, t)
        /\ made' = made \cup {t.id}
        /\ crossed' = crossed \cup (IF c.op = "create" THEN IdsAt(friends) ELSE IdsAt({c.a}))
                              \cup (IF c.a \in HandledByOthers(w) \/ Doubtful(win[w]) THEN {t.id} ELSE {})
        /\ broken' = broken \cup (IF c.op = "force" THEN Mark(friends, c) ELSE {})
                            \cup Inherited(c, t)
        /\ win' = [win EXCEPT ![w].pc = IF c.b = None THEN "activate" ELSE "parent",
                              ![w].read[c.a] = t]
        /\ UNCHANGED <<gitVars, sessionVars, boundVars, adrift, owed>>

\* The record cannot be written: the directory made for it is removed.
CreateFails(w) ==
    LET c == win[w].cmd
        gone == c.op = "create" /\ active[c.a] = Bare
    IN  /\ Step(w, "new")
        /\ IF active[c.a] = None THEN UNCHANGED mishaps ELSE Mishap
        /\ active' = IF gone THEN [active EXCEPT ![c.a] = None] ELSE active
        /\ adrift' = IF gone THEN adrift \cup {k \in Windows : ptr[k] = c.a} ELSE adrift
        /\ GiveUp(w)
        /\ UNCHANGED <<archived, gitVars, sessionVars, ran, made, crossed, owed>>

\* The pointer of the session follows unless --no-start; a failure is a warning.
CreateActivate(w) ==
    LET n == win[w].cmd.a
    IN  /\ Step(w, "activate")
        /\ \/ Points(S!EnvKey(w), n)
           \/ UNCHANGED <<sessionVars, adrift>>
        /\ Go(w, "hook") \/ Leave(w)
        /\ UNCHANGED <<taskVars, gitVars, boundVars, made, crossed, broken, owed>>

\* The hook linear_sync.py, if configured, reads the record, has an issue made, which takes a while...
HookRead(w) ==
    LET n == win[w].cmd.a
    IN  /\ Step(w, "hook")
        /\ IF HasRecord(n)
           THEN win' = [win EXCEPT ![w].pc = "issue", ![w].read[n] = active[n]]
           ELSE Leave(w)
        /\ UNCHANGED <<taskVars, gitVars, sessionVars, boundVars, made, crossed,
                       broken, adrift, owed>>

\* ... and notes it in the record, which it writes in place: the hook that
\* is killed at its timeout leaves the file cut off, and the links to it astray.
HookWrite(w) ==
    LET c == win[w].cmd
        t == win[w].read[c.a]
    IN  /\ Step(w, "issue")
        /\ \/ /\ active' = [active EXCEPT ![c.a] =
                                IF @ = None THEN None ELSE Stored(c.a, t)]
              /\ UNCHANGED <<broken, mishaps>>
           \/ /\ active[c.a] # None /\ Mishap
              /\ active' = [active EXCEPT ![c.a] = Bare]
              /\ broken' = broken \cup Mark(Handled(win[w]), [c EXCEPT !.op = "sync"])
                                  \cup Astray(c.a, c)
        /\ Leave(w)
        /\ UNCHANGED <<archived, gitVars, sessionVars, ran, made, crossed, adrift, owed>>

-----------------------------------------------------------------------------
(* add-subtask and remove-subtask: a is the child, b the parent.           *)

LinkRead(w, c) ==
    /\ c.op \in {"link", "unlink"}
    /\ HasRecord(c.a) /\ HasRecord(c.b)
    /\ c.op = "link" => active[c.a].parent = None
    /\ Enter(w, At("parent", c, ReadNow({c.a, c.b}), {}))
    /\ UNCHANGED <<taskVars, gitVars, sessionVars, made, broken, adrift, owed>>

(* Mutation: the parent keeps a child that is unlinked. *)
KeptParent(q) ==
    LET t == q.read[q.cmd.b]
    IN  IF q.cmd.op = "unlink" THEN t
        ELSE [t EXCEPT !.kids = @ \cup {q.cmd.a}]

\* What create, add-subtask and remove-subtask store in the parent...
ParentRecord(q) ==
    LET t == q.read[q.cmd.b]
    IN  IF q.cmd.op = "unlink" THEN [t EXCEPT !.kids = @ \ {q.cmd.a}]
        ELSE [t EXCEPT !.kids = @ \cup {q.cmd.a}]

(* Mutation: the child stores the parent itself. *)
ChildOf(q) == [q.read[q.cmd.a] EXCEPT !.parent = q.read[q.cmd.b]]

\* ... and in the child, each from what was read at the start.
ChildRecord(q) ==
    [q.read[q.cmd.a] EXCEPT !.parent =
        IF q.cmd.op = "unlink" THEN None ELSE q.cmd.b]

\* create leaves a parent alone that lists the name already.
WriteParent(w) ==
    LET q == win[w]
    IN  /\ Step(w, "parent")
        /\ IF q.cmd.op \in {"create", "force"} /\ q.cmd.a \in q.read[q.cmd.b].kids
           THEN UNCHANGED taskVars
           ELSE Write(q.cmd.b, ParentRecord(q))
        /\ Go(w, "child")
        /\ UNCHANGED <<gitVars, sessionVars, boundVars, made, crossed, broken,
                       adrift, owed>>

\* The parent of n has been cleared, which need not be p: another one lists
\* n still.
Severed(q, n, p, c) ==
    LET other == {q.read[n].parent} \ {p}
    IN  IF other \cap Records = {} THEN {} ELSE Mark(other \cup {n}, c)

\* remove-subtask clears the parent whichever task that is.
WriteChild(w) ==
    LET q == win[w]
    IN  /\ Step(w, "child")
        /\ Write(q.cmd.a, ChildRecord(q))
        /\ IF q.cmd.op \in {"create", "force"} THEN Go(w, "activate") ELSE Leave(w)
        /\ broken' = broken \cup
              (IF q.cmd.op = "unlink" THEN Severed(q, q.cmd.a, q.cmd.b, q.cmd) ELSE {})
        /\ UNCHANGED <<gitVars, sessionVars, boundVars, made, crossed, adrift, owed>>

\* The directory to write to has been moved away by another command.
WriteFails(w) ==
    LET q == win[w]
    IN  /\ \/ Step(w, "parent") /\ active[q.cmd.b] = None
           \/ /\ q.pc \in {"child", "own", "flip", "field", "jsonl"}
              /\ active[q.cmd.a] = None
           \/ q.pc \in {"backrefs", "kid"}
              /\ \E n \in q.todo : q.read[n] # None /\ active[n] = None
        /\ GiveUp(w)
        /\ UNCHANGED <<taskVars, gitVars, sessionVars, boundVars, made, crossed,
                       adrift, owed>>

-----------------------------------------------------------------------------
(* rename: a is the old name, b the new one.                               *)

(* Mutation: only the children's references are planned. *)
ParentBackrefs(o) == {n \in Records \ {o} : active[n].parent = o}

\* _plan_backrefs: the other active tasks that name the task.
Backrefs(o) == {n \in Records \ {o} : Mentions(n, o)}

Renamed(t, o, n) ==
    [t EXCEPT !.parent = IF @ = o THEN n ELSE @,
              !.kids = IF o \in @ THEN (@ \ {o}) \cup {n} ELSE @]

\* A task is renamed to a name that neither a task nor the archive has.
MayRename(c) == HasRecord(c.a) /\ Unused(c.b) /\ c.b # c.a

\* The plan: everything is read before anything is written.
RenamePlan(w, c) ==
    /\ c.op = "rename" /\ MayRename(c)
    /\ Enter(w, At("own", c, ReadNow({c.a} \cup Backrefs(c.a)), Backrefs(c.a)))
    /\ UNCHANGED <<taskVars, gitVars, sessionVars, made, broken, adrift, owed>>

\* id and name, unless an earlier attempt wrote them.
RenameOwn(w) ==
    LET q == win[w]
        t == q.read[q.cmd.a]
    IN  /\ Step(w, "own") /\ q.cmd.op = "rename"
        /\ IF t.name = q.cmd.b THEN UNCHANGED taskVars
           ELSE Write(q.cmd.a, [t EXCEPT !.name = q.cmd.b])
        /\ Go(w, "jsonl")
        /\ UNCHANGED <<gitVars, sessionVars, boundVars, made, crossed, broken,
                       adrift, owed>>

(* Mutation: the entries keep the directory the task leaves. *)
KeptEntries(w) ==
    /\ Step(w, "jsonl") /\ Go(w, "backrefs")
    /\ UNCHANGED <<taskVars, gitVars, sessionVars, boundVars, made, crossed,
                   broken, adrift, owed>>

\* The entries under the old directory, if the plan found any.
RenameManifest(w) ==
    LET q == win[w]
        o == q.cmd.a
    IN  /\ Step(w, "jsonl")
        /\ IF q.read[o].manifest = o
           THEN /\ HasRecord(o)
                /\ active' = [active EXCEPT ![o].manifest = q.cmd.b]
                /\ UNCHANGED archived
           ELSE UNCHANGED taskVars
        /\ Go(w, "backrefs")
        /\ UNCHANGED <<gitVars, sessionVars, boundVars, made, crossed, broken,
                       adrift, owed>>

\* The manifest is written in place: cut off, it has no entry left.
RenameTorn(w) ==
    LET o == win[w].cmd.a
    IN  /\ Step(w, "jsonl") /\ Mishap
        /\ win[w].read[o].manifest = o /\ HasRecord(o)
        /\ active' = [active EXCEPT ![o].manifest = None]
        /\ GiveUp(w)
        /\ UNCHANGED <<archived, gitVars, sessionVars, ran, made, crossed,
                       adrift, owed>>

RenameBackref(w) ==
    LET q == win[w]
    IN  /\ Step(w, "backrefs")
        /\ \E n \in q.todo :
               /\ Write(n, Renamed(q.read[n], q.cmd.a, q.cmd.b))
               /\ win' = [win EXCEPT ![w].todo = @ \ {n}]
        /\ UNCHANGED <<gitVars, sessionVars, boundVars, made, crossed, broken,
                       adrift, owed>>

\* The move comes last, when every reference has been rewritten.
MayMove(q) == q.pc = "backrefs" /\ q.todo = {}

\* The directory; an empty one in the way is replaced.  A task that names itself
\* keeps the old name there.  A record that a hook cut off meanwhile stays so.
RenameMove(w) ==
    LET q == win[w]
        o == q.cmd.a
        n == q.cmd.b
    IN  /\ MayMove(q)
        /\ active[o] # None /\ active[n] \in {None, Bare}
        /\ active' = [active EXCEPT ![o] = None, ![n] = active[o]]
        /\ Go(w, "sessions")
        /\ broken' = broken \cup Mark({m \in {o} : HasRecord(o) /\ Mentions(o, o)},
                                       [q.cmd EXCEPT !.op = "unlink"])
                            \cup (IF HasRecord(o) THEN {} ELSE Astray(n, q.cmd))
        /\ UNCHANGED <<archived, gitVars, sessionVars, boundVars, made, crossed,
                       adrift, owed>>

RenameBlocked(w) ==
    LET q == win[w]
    IN  /\ MayMove(q)
        /\ active[q.cmd.a] = None \/ HasRecord(q.cmd.b)
        /\ GiveUp(w)
        /\ UNCHANGED <<taskVars, gitVars, sessionVars, boundVars, made, crossed,
                       adrift, owed>>

\* The pointers follow, except one whose file cannot be written.  A rename that
\* another command came across does not make up for its earlier attempts.
RenameSessions(w) ==
    LET c == win[w].cmd
    IN  /\ Step(w, "sessions")
        /\ \E kept \in SUBSET {k \in Windows : ptr[k] = c.a} :
               /\ IF kept = {} THEN UNCHANGED mishaps
                  ELSE Cardinality(kept) = 1 /\ Mishap
               /\ S!RepointTask(c.a, c.b, kept)
               /\ adrift' = adrift \cup (IF PastClearing(c.b) \/ c.b \notin Dirs
                                        THEN {k \in Windows : ptr[k] = c.a} ELSE kept)
        /\ IF IdsAt({c.b}) \subseteq crossed THEN Leave(w) /\ UNCHANGED broken
           ELSE Complete(w)
        /\ UNCHANGED <<taskVars, gitVars, ran, made, crossed, owed>>

-----------------------------------------------------------------------------
(* archive: a is the task.  hurried is archive with --no-commit and        *)
(* --skip-branch-validation; the repository has a remote.                  *)

\* _validate_branch_metadata: the branch a PR came from must be recorded.
MayArchive(t) == t.branch # None /\ t.branch # t.base

\* The checks and the task's own record; one without a record just moves.
ArchiveRead(w, c) ==
    /\ c.op \in {"archive", "hurried"}
    /\ active[c.a] # None /\ archived[c.a] = None
    /\ IF HasRecord(c.a)
       THEN /\ c.op = "archive" => MayArchive(active[c.a])
            /\ Enter(w, At("own", c, ReadNow({c.a}), active[c.a].kids))
       ELSE Enter(w, At("kids", c, NothingRead, {}))
    /\ UNCHANGED <<taskVars, gitVars, sessionVars, made, broken, adrift, owed>>

\* The record it read is not used again: a child is read of its own.
ArchiveOwn(w) ==
    LET q == win[w]
    IN  /\ Step(w, "own") /\ q.cmd.op \in {"archive", "hurried"}
        /\ Write(q.cmd.a, [q.read[q.cmd.a] EXCEPT !.status = "completed"])
        /\ win' = [win EXCEPT ![w].pc = "kids", ![w].read[q.cmd.a] = None]
        /\ UNCHANGED <<gitVars, sessionVars, boundVars, made, crossed, broken,
                       adrift, owed>>

\* The children still to unlink that can be found.
KidsLeft(q) == {n \in q.todo : HasRecord(n)}

ArchiveReadKid(w) ==
    /\ Step(w, "kids")
    /\ \E n \in KidsLeft(win[w]) :
           win' = [win EXCEPT ![w].pc = "kid", ![w].read[n] = active[n]]
    /\ UNCHANGED <<taskVars, gitVars, sessionVars, boundVars, made, crossed,
                   broken, adrift, owed>>

\* The child's parent is cleared, whichever task that is: to a parent that
\* is not the archived task it is an unlink.
ArchiveUnlink(w) ==
    LET q == win[w]
    IN  /\ Step(w, "kid")
        /\ \E n \in {m \in q.todo : q.read[m] # None} :
               /\ Write(n, [q.read[n] EXCEPT !.parent = None])
               /\ win' = [win EXCEPT ![w].pc = "kids", ![w].todo = @ \ {n}]
               /\ broken' = broken \cup
                      Severed(q, n, q.cmd.a, [q.cmd EXCEPT !.op = "unlink"])
        /\ UNCHANGED <<gitVars, sessionVars, boundVars, made, crossed, adrift, owed>>

\* The pointers at the task go, except one that cannot be deleted.
ArchiveSessions(w) ==
    LET n == win[w].cmd.a
    IN  /\ Step(w, "kids") /\ KidsLeft(win[w]) = {}
        /\ \E kept \in SUBSET {k \in Windows : ptr[k] = n} :
               /\ IF kept = {} THEN UNCHANGED mishaps
                  ELSE Cardinality(kept) = 1 /\ Mishap
               /\ S!ClearTask(n, kept)
               /\ adrift' = adrift \cup kept
        /\ Go(w, "shelve")
        /\ UNCHANGED <<taskVars, gitVars, ran, made, crossed, broken, owed>>

ArchiveMove(w) ==
    LET c == win[w].cmd
    IN  /\ Step(w, "shelve")
        /\ active[c.a] # None /\ archived[c.a] = None
        /\ active' = [active EXCEPT ![c.a] = None]
        /\ archived' = [archived EXCEPT ![c.a] = active[c.a]]
        /\ owed' = owed \cup {c.a}
        /\ IF c.op = "archive" THEN Go(w, "add") /\ UNCHANGED broken ELSE Complete(w)
        /\ UNCHANGED <<gitVars, sessionVars, boundVars, made, crossed, adrift>>

ArchiveBlocked(w) ==
    LET n == win[w].cmd.a
    IN  /\ Step(w, "shelve")
        /\ active[n] = None \/ archived[n] # None
        /\ GiveUp(w)
        /\ UNCHANGED <<taskVars, gitVars, sessionVars, boundVars, made, crossed,
                       adrift, owed>>

-----------------------------------------------------------------------------
(* The archive commit.  The children whose files changed are in it.        *)

OnShelf == {n \in Names : archived[n] \notin {None, Bare}}
ChangedKids(q) == {n \in Names \ {q.cmd.a} : q.read[n] # None}

\* git add of the whole archive and of the changed children.
CommitAdd(w) ==
    LET kids == ChangedKids(win[w])
    IN  /\ Step(w, "add")
        /\ IF kids \subseteq Dirs
           THEN /\ index' = [act |-> index.act \cup kids, arc |-> index.arc \cup OnShelf]
                /\ Go(w, "rm")
           ELSE Leave(w) /\ UNCHANGED index   \* nothing is staged for a missing path
        /\ UNCHANGED <<taskVars, head, sessionVars, boundVars, made, crossed,
                       broken, adrift, owed>>

\* git rm --cached of the directory the task left.
CommitRm(w) ==
    /\ Step(w, "rm")
    /\ index' = [index EXCEPT !.act = @ \ {win[w].cmd.a}]
    /\ Go(w, "commit")
    /\ UNCHANGED <<taskVars, head, sessionVars, boundVars, made, crossed, broken,
                   adrift, owed>>

(* Mutation: the commit leaves the source directory out of its pathspec. *)
CommittedHalf(q) ==
    [act |-> head.act \cup (ChangedKids(q) \cap index.act),
     arc |-> head.arc \cup (index.arc \cap OnShelf)]

\* HEAD after a commit of the archive, the children and the source.
CommittedArchive(q) ==
    [act |-> (head.act \ {q.cmd.a}) \cup (ChangedKids(q) \cap index.act),
     arc |-> head.arc \cup (index.arc \cap OnShelf)]

\* git refuses the pathspec of a source that HEAD does not have.
CommitArchive(w) ==
    LET q == win[w]
    IN  /\ Step(w, "commit")
        /\ IF q.cmd.a \in head.act
           THEN /\ head' = CommittedArchive(q)
                /\ owed' = owed \ {q.cmd.a}
           ELSE UNCHANGED <<head, owed>>
        /\ Complete(w)
        /\ UNCHANGED <<taskVars, index, sessionVars, boundVars, made, crossed, adrift>>

\* add_session commits the directory of the session's current task.
RecordSession(w, c) ==
    LET n == S!ResolveActive(S!EnvKey(w), TRUE).task
    IN  /\ c.op = "record"
        /\ HasRecord(n)
        /\ ran' = ran + 1
        /\ index' = [index EXCEPT !.act = @ \cup {n}]
        /\ head' = [head EXCEPT !.act = @ \cup {n}]
        /\ UNCHANGED <<taskVars, sessionVars, win, mishaps, made, crossed, broken,
                       adrift, owed>>

-----------------------------------------------------------------------------
(* start, finish, the set- commands and add-context of task a.              *)

\* The hook sees the command first.
StartCalled(w, c) ==
    /\ c.op = "start" /\ active[c.a] # None
    /\ Enter(w, At("gate", c, NothingRead, {}))
    /\ S!WriteTicket(w, "start", c.a)
    /\ UNCHANGED <<taskVars, gitVars, made, broken, adrift, owed>>

\* A task without curated entries is refused, or let through by
\* --allow-empty-context; without an identity there is no pointer to set.
StartGate(w) ==
    LET n == win[w].cmd.a
    IN  /\ Step(w, "gate")
        /\ \/ /\ active[n] # None
              /\ Go(w, IF S!ContextKey(w, "start", n) = None THEN "load" ELSE "point")
           \/ /\ HasRecord(n) => active[n].manifest = None
              /\ Leave(w)
        /\ UNCHANGED <<taskVars, gitVars, sessionVars, boundVars, made, crossed,
                       broken, adrift, owed>>

\* The identity is resolved again; by now it may be gone.
StartPoint(w) ==
    LET n == win[w].cmd.a
        k == S!ContextKey(w, "start", n)
    IN  /\ Step(w, "point")
        /\ IF k # None /\ n \in Dirs
           THEN Points(k, n) /\ Go(w, "load")
           ELSE Leave(w) /\ UNCHANGED <<sessionVars, adrift>>
        /\ UNCHANGED <<taskVars, gitVars, boundVars, made, crossed, broken, owed>>

ReadOwn(w) ==
    LET n == win[w].cmd.a
    IN  /\ Step(w, "load")
        /\ IF HasRecord(n)
           THEN win' = [win EXCEPT ![w].pc = "flip", ![w].read[n] = active[n]]
           ELSE Leave(w)
        /\ UNCHANGED <<taskVars, gitVars, sessionVars, boundVars, made, crossed,
                       broken, adrift, owed>>

\* _record_start_state: the status and the checked-out branch, if they are
\* still open.
Started(t, b) ==
    [t EXCEPT !.branch = IF @ = None THEN b ELSE @,
              !.status = IF @ = "planning" THEN "in_progress" ELSE @]

StartFlip(w) ==
    LET n == win[w].cmd.a
        t == win[w].read[n]
    IN  /\ Step(w, "flip")
        /\ \E b \in Branches : IF Started(t, b) = t THEN UNCHANGED taskVars
                               ELSE Write(n, Started(t, b))
        /\ Leave(w)
        /\ UNCHANGED <<gitVars, sessionVars, boundVars, made, crossed, broken,
                       adrift, owed>>

FinishCalled(w, c) ==
    /\ c.op = "finish"
    /\ Enter(w, At("clear", c, NothingRead, {}))
    /\ S!WriteTicket(w, "finish", None)
    /\ UNCHANGED <<taskVars, gitVars, made, broken, adrift, owed>>

FinishClear(w) ==
    LET k == S!ContextKey(w, "finish", None)
    IN  /\ Step(w, "clear")
        /\ IF k # None /\ S!ResolveActive(k, TRUE) # S!NoTask
           THEN /\ S!ClearActive(k)
                /\ adrift' = adrift \ {S!ResolveActive(k, TRUE).key}
           ELSE UNCHANGED <<sessionVars, adrift>>
        /\ Leave(w)
        /\ UNCHANGED <<taskVars, gitVars, boundVars, made, crossed, broken, owed>>

\* set-branch, set-base-branch and, for fields no property is about,
\* set-scope and set-meta.
FieldRead(w, c) ==
    /\ c.op \in {"branch", "base", "note"} /\ HasRecord(c.a)
    /\ Enter(w, At("field", c, ReadNow({c.a}), {}))
    /\ UNCHANGED <<taskVars, gitVars, sessionVars, made, broken, adrift, owed>>

WithBase(q) ==
    [q.read[q.cmd.a] EXCEPT !.base = IF q.cmd.op = "base" THEN "feature" ELSE @]

WithField(q) ==
    [WithBase(q) EXCEPT !.branch = IF q.cmd.op = "branch" THEN "feature" ELSE @]

\* Whichever field it is, the whole record is written back as it was read.
FieldWrite(w) ==
    /\ Step(w, "field")
    /\ Write(win[w].cmd.a, WithField(win[w]))
    /\ Leave(w)
    /\ UNCHANGED <<gitVars, sessionVars, boundVars, made, crossed, broken,
                   adrift, owed>>

\* add-context appends an entry, here for a file of the task's directory.
Curate(w, c) ==
    /\ c.op = "curate"
    /\ HasRecord(c.a) /\ active[c.a].manifest = None
    /\ ran' = ran + 1
    /\ active' = [active EXCEPT ![c.a].manifest = c.a]
    /\ crossed' = crossed \cup IdsAt({c.a} \cap HandledByOthers(w))
    /\ UNCHANGED <<archived, gitVars, sessionVars, win, mishaps, made, broken,
                   adrift, owed>>

-----------------------------------------------------------------------------

\* Window w's command is killed, or its next step fails and it reports that.
Stop(w) ==
    /\ win[w].pc # "idle" /\ Mishap
    /\ GiveUp(w)
    /\ adrift' = adrift \cup (IF Step(w, "sessions")
                              THEN {k \in Windows : ptr[k] = win[w].cmd.a} ELSE {})
    /\ UNCHANGED <<taskVars, gitVars, sessionVars, ran, made, crossed, owed>>

Expire ==
    /\ \E t \in tickets : S!ExpireTicket(t)
    /\ UNCHANGED <<taskVars, gitVars, win, boundVars, made, crossed, broken,
                   adrift, owed>>

Init ==
    /\ active = First
    /\ archived = [n \in Names |-> None]
    /\ index = [act |-> Records, arc |-> {}]
    /\ head = [act |-> Records, arc |-> {}]
    /\ ptr = FirstPtr
    /\ tickets = {}
    /\ win = [w \in Windows |-> Idle]
    /\ ran = 0 /\ mishaps = 0
    /\ made = IdsAt(Names)
    /\ crossed = {} /\ broken = {} /\ adrift = {} /\ owed = {}

Called(w, c) ==
    /\ Step(w, "idle") /\ ran < MaxCommands
    /\ \/ CreateDir(w, c) \/ LinkRead(w, c) \/ RenamePlan(w, c) \/ ArchiveRead(w, c)
       \/ RecordSession(w, c) \/ StartCalled(w, c) \/ FinishCalled(w, c)
       \/ FieldRead(w, c) \/ Curate(w, c)

Continue(w) ==
    \/ CreateRecord(w) \/ CreateFails(w) \/ CreateActivate(w)
    \/ HookRead(w) \/ HookWrite(w)
    \/ WriteParent(w) \/ WriteChild(w) \/ WriteFails(w)
    \/ RenameOwn(w) \/ RenameManifest(w) \/ RenameTorn(w) \/ RenameBackref(w)
    \/ RenameMove(w) \/ RenameBlocked(w) \/ RenameSessions(w)
    \/ ArchiveOwn(w) \/ ArchiveReadKid(w) \/ ArchiveUnlink(w) \/ ArchiveSessions(w)
    \/ ArchiveMove(w) \/ ArchiveBlocked(w)
    \/ CommitAdd(w) \/ CommitRm(w) \/ CommitArchive(w)
    \/ StartGate(w) \/ StartPoint(w) \/ ReadOwn(w) \/ StartFlip(w)
    \/ FinishClear(w) \/ FieldWrite(w) \/ Stop(w)

Next ==
    \/ \E w \in Windows : ~Step(w, "idle") /\ Continue(w)
    \/ \E w \in Windows : \E c \in Menu[w] : Called(w, c)
    \/ Expire

Spec == Init /\ [][Next]_vars

-----------------------------------------------------------------------------
(* Properties.                                                             *)

Blamed == crossed \cup {m.id : m \in broken}
Busy == UNION {Handled(win[w]) : w \in Windows}

\* Records no command is at work on, and that no command was kept from
\* finishing its work on.
Settled == {n \in Records \ Busy : active[n].id \notin Blamed}

(* Every record is whole, whichever of the lock-free writes of the windows *)
(* came last, and the bookkeeping of git only knows task names.            *)
TypeOK ==
    /\ active \in [Names -> Task \cup {None, Bare}]
    /\ archived \in [Names -> Task \cup {None, Bare}]
    /\ {index.act, index.arc, head.act, head.arc} \subseteq SUBSET Names
    /\ ptr \in [Windows -> Names \cup {None}]
    /\ tickets \subseteq UNION {S!TicketsOf(k) : k \in Hooked}
    /\ \A w \in Windows :
          /\ win[w].cmd \in Command
          /\ win[w].read \in [Names -> Task \cup {None}]
          /\ win[w].todo \subseteq Names
    /\ ran \in 0..MaxCommands /\ mishaps \in 0..MaxMishaps
    /\ made \subseteq Ids /\ crossed \subseteq Ids
    /\ broken \subseteq [id : Ids, by : Command]
    /\ adrift \subseteq Windows /\ owed \subseteq Names

\* What `list` prints: the tasks without an active parent and, under a
\* task, its active children.
Roots == {n \in Records : active[n].parent \notin Records}
Listed ==
    LET shown[d \in 0..Cardinality(Names)] ==
            IF d = 0 THEN Roots
            ELSE shown[d - 1] \cup
                 (Records \cap UNION {active[n].kids : n \in shown[d - 1]})
    IN  shown[Cardinality(Names)]

Lineage(m) ==
    LET up[d \in 0..Cardinality(Names)] ==
            IF d = 0 THEN {m}
            ELSE up[d - 1] \cup (Records \cap {active[n].parent : n \in up[d - 1]})
    IN  up[Cardinality(Names)]

\* A command that takes a child out of its parent's list before anything
\* else shows it.
Hides(c) == c.op \in {"unlink", "rename", "force"}

(* No task drops out of `task.py list`, not even while a link is half      *)
(* written or after a create, a link or an archive died halfway.  The      *)
(* excuses: a remove-subtask, a rename or an overwriting create at work or *)
(* cut off at it or above it, two commands at once, a circle of parents.   *)
TasksListed ==
    \A m \in Records \ Listed : \E n \in Lineage(m) :
        \/ active[n].parent = n
        \/ active[n].id \in crossed
        \/ \E b \in broken : b.id = active[n].id /\ Hides(b.by)
        \/ \E w \in Windows : n \in Handled(win[w]) /\ Hides(win[w].cmd)
        \/ \E p \in Lineage(m) \ {n} : p \in Lineage(n) /\ n \in Lineage(p)

\* The status the record of each task shows.
Status == [n \in Names |-> IF HasRecord(n) THEN active[n].status ELSE "task_error"]

(* A session with a pointer is told of its own task at every turn, of no   *)
(* other one, and what to do about it: that it has no task only if the     *)
(* hook went on without its payload, that the task is gone only after a    *)
(* step that failed or raced (adrift) or until a rename that has moved it  *)
(* gets to the pointers.                                                   *)
PointersResolve ==
    \A k \in S!SessionFiles \cap Hooked, heard \in BOOLEAN :
        LET told == S!Breadcrumb(k, heard, Status)
        IN  /\ told.task = ptr[k] \/ (~heard /\ told.task = None)
            /\ told.state = "stale" =>
                  \/ k \in adrift
                  \/ \E w \in Windows : Step(w, "sessions") /\ win[w].cmd.a = ptr[k]
            /\ told.state # "stale" => S!Advice(told.state, "inline") # <<"generic">>

\* _resolve_context_entry_path: entries of the task archived as n that lay in
\* its former directory are looked for in the archive.
EntryResolves(n, m, shelved) == m \in Dirs \/ (shelved /\ m = n)

\* What `validate` accepts of the manifest of record t in directory n.
Validates(n, t, shelved) ==
    t.manifest # None /\ EntryResolves(n, t.manifest, shelved)

\* children_progress: a child that is gone counts as done.
Done(n) == {m \in active[n].kids : m \notin Records \/ active[m].status = "completed"}

\* Tasks whose record a hook has cut off.
Torn == {m.id : m \in {x \in broken : x.by.op = "sync"}}

\* Where the task created as i is.
PlacesOf(i) ==
    {<<"active", n>> : n \in {m \in Records : active[m].id = i}}
        \cup {<<"archived", n>> : n \in {m \in OnShelf : archived[m].id = i}}

(* A parent lists a child exactly when the child names it as its parent, a *)
(* record carries the name of its directory, the curated context lies in   *)
(* the task's own directory, no task names an archived one as its parent,  *)
(* and a child that counts as done because it is gone is in the archive:   *)
(* true of all tasks that no two commands changed at once, no command left *)
(* halfway and none took from a parent it did not know of.  A task linked  *)
(* to itself is the exception: it names itself as parent and does not list *)
(* itself.                                                                 *)
ReferencesAgree ==
    /\ \A n \in Settled :
          /\ active[n].name = n
          /\ active[n].manifest \in {None, n}
          /\ \A m \in Settled \ {n} : m \in active[n].kids <=> active[m].parent = n
          /\ \A m \in Done(n) \ Records : archived[m] # None
    /\ \A n \in OnShelf : archived[n].id \notin Blamed =>
          \A m \in Settled : active[m].parent # n

(* A task that only one command at a time changed is in exactly one place, *)
(* among the active tasks or in the archive, under one name, unless its    *)
(* hook was killed over its record.  One in the archive is completed, its  *)
(* branch is known and another one than its base if it was archived with a *)
(* commit, and its manifest still validates.                               *)
TasksKept ==
    /\ \A i \in made \ (crossed \cup Torn) : Cardinality(PlacesOf(i)) = 1
    /\ \A n \in OnShelf : archived[n].id \notin Blamed =>
          /\ archived[n].status = "completed"
          /\ n \notin owed => MayArchive(archived[n])
          /\ archived[n].manifest # None => Validates(n, archived[n], TRUE)

(* No commit records a name both as an active and as an archived task,     *)
(* unless the archive commit of the task is still outstanding or another   *)
(* command was at work on its name when it was created or archived.        *)
NoHalfArchive ==
    \A n \in head.act \cap head.arc :
        n \in owed \/ (n \in OnShelf /\ archived[n].id \in crossed)

\* Window w, without an identity of its own at command c, is taken for
\* another one.
Mistaken(w, c, r) == w \notin Native /\ S!Ticket(w, c, r) \notin tickets

\* Window w's command may change the pointer of window k.
MayTouch(w, k) ==
    LET q == win[w]
    IN  \/ q.pc \in {"activate", "point", "clear"} /\ k = w
        \/ q.pc = "point" /\ Mistaken(w, "start", q.cmd.a)
        \/ q.pc = "clear" /\ Mistaken(w, "finish", None)
        \/ q.pc = "clear" /\ ptr[w] = None /\ S!SessionFiles = {k}
        \/ q.pc \in {"sessions", "kids"} /\ ptr[k] = q.cmd.a

(* A window with an identity, exported or in a ticket that is still fresh, *)
(* changes no pointer but its own: the others change only with the task    *)
(* they point at, when its name changes or it is archived.  `finish` in a  *)
(* window without a pointer is the exception: it deletes the only one.     *)
SessionsIsolated ==
    [][\A k \in Windows : ptr'[k] # ptr[k] =>
           \E w \in Windows : win'[w] # win[w] /\ MayTouch(w, k)]_vars

(* The task commands move pointers and tickets as the session layer lets   *)
(* them: a pointer is only ever set to a directory that is there.          *)
SessionsSpec == S!Spec
=============================================================================
