------------------------------ MODULE Journal ------------------------------
(***************************************************************************)
(* Session recording: add_session.py appends an entry to the developer's   *)
(* journal, adds a row to index.md and commits both, as one operation that *)
(* a re-run of the same command resumes.  Several agent windows work in    *)
(* the same checkout and in linked worktrees of one repository; a command  *)
(* can be killed between any two file operations, a write or a git call    *)
(* can fail, and branches are merged.                                      *)
(*                                                                         *)
(* A record (title, summary, bullets, commit evidence) is a member of      *)
(* Records; Keyed are the records sent with --idempotency-key.  The branch *)
(* and package that main() adds to a record are its "context".             *)
(***************************************************************************)
EXTENDS Naturals, FiniteSets

CONSTANTS Trees,        \* checkouts: the main one and linked worktrees
          Windows,      \* agent windows that run commands
          Home,         \* the checkout of each window
          Sessions,     \* the records a window may have to record
          Manual,       \* windows that may also record without committing
          Records,      \* what the commands record
          Keyed,        \* records sent with an idempotency key
          Legacy,       \* <<tree, record>>: pending entry with a v1 marker
          Fresh,        \* checkouts where init_developer has not run
          Cap,          \* entries that fit in a journal file
          MaxCommands,  \* bound on commands started
          MaxMishaps,   \* bound on kills and failing writes or git calls
          MaxMerges,    \* bound on merges
          MaxDrift      \* bound on changes of date and of context

ASSUME JournalAssumption ==
    /\ Home \in [Windows -> Trees]
    /\ Sessions \in [Windows -> SUBSET Records]
    /\ Manual \subseteq Windows /\ Keyed \subseteq Records /\ Fresh \subseteq Trees
    /\ Legacy \subseteq (Trees \ Fresh) \X Records
    /\ \A k, l \in Legacy : k[1] = l[1] => k = l
    /\ IsFiniteSet(Trees) /\ IsFiniteSet(Windows)
    /\ Cap \in Nat \ {0}
    /\ {MaxCommands, MaxMishaps, MaxMerges, MaxDrift} \subseteq Nat

VARIABLES work,     \* per checkout: journal entries, last file, index.md
          head,     \* per checkout: the same at HEAD of its branch
          staged,   \* per checkout: the same in the git index
          win,      \* per window: the running add_session command
          today,    \* the calendar date
          context,  \* per checkout: branch and package main() resolves
          spent,    \* budgets used so far
          open,     \* per checkout: records asked for and not acknowledged
          asked,    \* history: sessions asked for
          lost,     \* history: entries committed or renamed behind a retry
          raced     \* history: checkouts where two commands recorded at once

vars == <<work, head, staged, win, today, context, spent,
          open, asked, lost, raced>>

-----------------------------------------------------------------------------
(* Files.  An entry carries the number of its session, its marker, the     *)
(* journal file that holds it and its place there.  A v2 marker has date   *)
(* 0; v1 mixed it in.                                                      *)

Mark(t, r, c, g, d) == [tree |-> t, rec |-> r, ctx |-> c, gen |-> g, date |-> d]
Entry(n, m, f, i) == [num |-> n, mark |-> m, file |-> f, at |-> i]
Row(n, r) == [num |-> n, rec |-> r]

\* index.md as init_developer writes it, and its absence.
NoIndex == [made |-> FALSE, total |-> 0, rows |-> {}]
NewIndex == [made |-> TRUE, total |-> 0, rows |-> {}]

NoFiles == [entries |-> {}, files |-> 0, index |-> NoIndex]

Marks(s) == {e.mark : e \in s}
Nums(s) == {e.num : e \in s}
InFile(s, f) == {e \in s : e.file = f}
OutOfFile(s, f) == {e \in s : e.file # f}

MaxOf(S) == CHOOSE n \in S \cup {0} : \A k \in S : k <= n

\* Where the last entry of a file is.
Bottom(s) == MaxOf({e.at : e \in s})

\* find_marker_entries: the entries that carry a marker.
FindMarker(s, m) == {e \in s : e.mark = m}

IndexHasRow(x, n) == \E row \in x.rows : row.num = n

\* The fingerprint of a record in a context: the date is not an input.
RecordMarker(t, r, g) == Mark(t, r, context[t], g, 0)

(* Mutation: a pending v1 entry is looked for under the date of the run. *)
LegacyOfToday(t, r) ==
    {m \in Marks(work[t].entries) : /\ m.tree = t /\ m.rec = r
                                    /\ m.ctx = context[t] /\ m.date = today}

\* The marker the record carries: the v2 one if an entry has it, else that
\* of a pending v1 entry, found through the date the entry itself renders.
LegacyMatches(t, r) ==
    {m \in Marks(work[t].entries) : /\ m.tree = t /\ m.rec = r
                                    /\ m.ctx = context[t] /\ m.date # 0}

EffectiveMarkers(t, r) ==
    IF \/ RecordMarker(t, r, 0) \in Marks(work[t].entries)
       \/ LegacyMatches(t, r) = {}
    THEN {RecordMarker(t, r, 0)}
    ELSE LegacyMatches(t, r)

\* classify_record: the state of the record with marker m in checkout t.
Classify(t, m) ==
    LET hits == FindMarker(work[t].entries, m)
        e == CHOOSE x \in hits : TRUE
    IN  IF hits = {} THEN "absent"
        ELSE IF Cardinality(hits) > 1 THEN "error"
        ELSE IF m \in Marks(head[t].entries) THEN "committed"
        ELSE IF IndexHasRow(work[t].index, e.num) THEN "index-recorded"
        ELSE IF work[t].index.total > e.num THEN "error"
        ELSE "journal-recorded"

\* Generation 0 is the record itself; every committed one is stepped over.
GenMarker(t, r, m0, g) == IF g = 0 THEN m0 ELSE RecordMarker(t, r, g)
Generation(t, r, m0) ==
    CHOOSE g \in 0..(Cardinality(work[t].entries) + 1) :
        /\ Classify(t, GenMarker(t, r, m0, g)) # "committed"
        /\ \A k \in 0..(g - 1) :
               Classify(t, GenMarker(t, r, m0, k)) = "committed"

(* Mutation: the number comes from the counter of index.md alone. *)
NextInIndex(t) == work[t].index.total + 1

\* resolve_next_session: one more than every number in the working tree and
\* on any branch of the repository.
MaxLocal(t) == MaxOf(Nums(work[t].entries) \cup {work[t].index.total})
MaxAcrossRefs ==
    MaxOf(UNION {Nums(head[u].entries) \cup {head[u].index.total} : u \in Trees})
NextSession(t) == MaxOf({MaxLocal(t), MaxAcrossRefs}) + 1

-----------------------------------------------------------------------------
(* Windows.                                                                *)

NoMark == [tree |-> "none"]
IdleWin == [pc |-> "idle", rec |-> "none", auto |-> FALSE, mark |-> NoMark,
            num |-> 0, file |-> 0, snap |-> {}, rows |-> {}]

\* Phases in which a command reads and then rewrites the journal or index.
Recording == {"classify", "rotate", "read", "append", "index", "row"}

Init ==
    /\ work = [t \in Trees |->
          IF t \in Fresh THEN NoFiles
          ELSE [entries |-> {Entry(1, Mark(t, r, 1, 0, 1), 1, 1) :
                                 r \in {q \in Records : <<t, q>> \in Legacy}},
                files |-> 1, index |-> NewIndex]]
    /\ head = [t \in Trees |-> IF t \in Fresh THEN NoFiles
                               ELSE [NoFiles EXCEPT !.files = 1,
                                                    !.index = NewIndex]]
    /\ staged = head
    /\ win = [w \in Windows |-> IdleWin]
    /\ today = 1
    /\ context = [t \in Trees |-> 1]
    /\ spent = [commands |-> 0, mishaps |-> 0, merges |-> 0, drift |-> 0]
    /\ open = [t \in Trees |-> {r \in Records : <<t, r>> \in Legacy}]
    /\ asked = [t \in Trees |-> [r \in Records |->
                  IF <<t, r>> \in Legacy THEN 1 ELSE 0]]
    /\ lost = [t \in Trees |-> [r \in Records |-> 0]]
    /\ raced = [t \in Trees |-> FALSE]

files == <<work, head, staged>>
drift == <<today, context>>
ghosts == <<open, asked, lost, raced>>

Mishap == /\ spent.mishaps < MaxMishaps
          /\ spent' = [spent EXCEPT !.mishaps = @ + 1]

Goto(w, pc) == win' = [win EXCEPT ![w].pc = pc]

\* The command ends with exit status 1: its request stays open.
Fail(w) == win' = [win EXCEPT ![w] = IdleWin]

\* The command ends with exit status 0: its request is acknowledged.
Succeed(w) == /\ win' = [win EXCEPT ![w] = IdleWin]
              /\ open' = [open EXCEPT ![Home[w]] = @ \ {win[w].rec}]

-----------------------------------------------------------------------------
(* add_session.                                                            *)

\* init_developer creates the first journal file, then index.md, each only
\* when it is missing; it can be interrupted in between and run again.
InitDeveloper(t) ==
    /\ \/ /\ work[t].files = 0
          /\ work' = [work EXCEPT ![t].files = 1]
       \/ /\ work[t].files > 0 /\ ~work[t].index.made
          /\ work' = [work EXCEPT ![t].index = NewIndex]
    /\ UNCHANGED <<head, staged, win, spent, drift, ghosts>>

\* The command starts.  A record still open that nobody is working on is
\* being asked for again.
Resumes(t, r) ==
    r \in open[t] /\ \A v \in Windows : Home[v] = t => win[v].rec # r

Begin(w, r, auto) ==
    LET t == Home[w] IN
    /\ win[w].pc = "idle"
    /\ spent.commands < MaxCommands
    /\ spent' = [spent EXCEPT !.commands = @ + 1]
    /\ win' = [win EXCEPT ![w] = [IdleWin EXCEPT !.pc = "preflight", !.rec = r,
                                                 !.auto = auto]]
    /\ asked' = [asked EXCEPT ![t][r] = IF Resumes(t, r) THEN @ ELSE @ + 1]
    /\ open' = [open EXCEPT ![t] = @ \cup {r}]
    /\ UNCHANGED <<files, drift, lost, raced>>

\* Every commit of the record is resolved to its subject, by git or by an
\* override; one that cannot be stops the command before any write.
Preflight(w) ==
    LET t == Home[w] IN
    /\ win[w].pc = "preflight"
    /\ \/ /\ Goto(w, "classify")
          /\ raced' = [raced EXCEPT ![t] = \/ @
                \/ \E v \in Windows : Home[v] = t /\ win[v].pc \in Recording]
          /\ UNCHANGED spent
       \/ Mishap /\ Fail(w) /\ UNCHANGED raced
    /\ UNCHANGED <<files, drift, open, asked, lost>>

(* Mutation: the key of a committed record is not looked at. *)
NeverDone(t, r, m0) == FALSE

\* A keyed record that is committed needs nothing more.
AlreadyDone(t, r, m0) == r \in Keyed /\ Classify(t, m0) = "committed"

\* Ambiguous, malformed or unrepairable evidence, or no journal to append to.
Refused(t, r, m0) ==
    LET m == GenMarker(t, r, m0, Generation(t, r, m0)) IN
    \/ Cardinality(EffectiveMarkers(t, r)) > 1
    \/ /\ ~AlreadyDone(t, r, m0)
       /\ \/ Classify(t, m) = "error"
          \/ Classify(t, m) = "absent" /\ work[t].files = 0

ClassifyRecord(w) ==
    LET t == Home[w]
        r == win[w].rec
    IN  /\ win[w].pc = "classify"
        /\ \E m0 \in EffectiveMarkers(t, r) :
             LET m == GenMarker(t, r, m0, Generation(t, r, m0))
                 state == Classify(t, m)
             IN  \/ /\ Refused(t, r, m0)
                    /\ Fail(w) /\ UNCHANGED open
                 \/ /\ ~Refused(t, r, m0)
                    /\ AlreadyDone(t, r, m0) /\ Succeed(w)
                 \/ /\ ~Refused(t, r, m0) /\ ~AlreadyDone(t, r, m0)
                    /\ win' = [win EXCEPT ![w].mark = m,
                         ![w].num = IF state = "absent" THEN NextSession(t) ELSE
                            (CHOOSE e \in FindMarker(work[t].entries, m) : TRUE).num,
                         ![w].file = work[t].files,
                         ![w].pc =
                            IF state = "journal-recorded" THEN "index"
                            ELSE IF state = "index-recorded" THEN "recorded"
                            ELSE IF Cardinality(InFile(work[t].entries,
                                                       work[t].files)) >= Cap
                            THEN "rotate" ELSE "read"]
                    /\ UNCHANGED open
        /\ UNCHANGED <<files, drift, spent, asked, lost, raced>>

\* create_new_journal_file writes a header over whatever has that name.
Rotate(w) ==
    LET t == Home[w]
        f == win[w].file + 1
    IN  /\ win[w].pc = "rotate"
        /\ \/ /\ work' = [work EXCEPT ![t].files = IF @ > f THEN @ ELSE f,
                                      ![t].entries = OutOfFile(@, f)]
              /\ win' = [win EXCEPT ![w].pc = "read", ![w].file = f]
              /\ UNCHANGED spent
           \/ Mishap /\ Fail(w) /\ UNCHANGED work
        /\ UNCHANGED <<head, staged, drift, ghosts>>

\* The journal file is read, and later replaced as a whole.
ReadJournal(w) ==
    /\ win[w].pc = "read"
    /\ win' = [win EXCEPT ![w].pc = "append",
                  ![w].snap = InFile(work[Home[w]].entries, win[w].file)]
    /\ UNCHANGED <<files, drift, spent, ghosts>>

(* Mutation: the file is replaced by the new entry. *)
Overwritten(s, c) == OutOfFile(s, c.file) \cup {Entry(c.num, c.mark, c.file, 1)}

Appended(s, c) ==
    OutOfFile(s, c.file) \cup c.snap
        \cup {Entry(c.num, c.mark, c.file, Bottom(c.snap) + 1)}

AppendEntry(w) ==
    LET t == Home[w] IN
    /\ win[w].pc = "append"
    /\ \/ /\ work' = [work EXCEPT ![t].entries = Appended(@, win[w])]
          /\ win' = [win EXCEPT ![w].pc = "index", ![w].snap = {}]
          /\ UNCHANGED spent
       \/ Mishap /\ Fail(w) /\ UNCHANGED work
    /\ UNCHANGED <<head, staged, drift, ghosts>>

\* update_index reads index.md; without the file it raises and the command
\* dies with the entry already in the journal.
ReadIndex(w) ==
    LET x == work[Home[w]].index IN
    /\ win[w].pc = "index"
    /\ \/ /\ x.made
          /\ win' = [win EXCEPT ![w].pc = "row", ![w].rows = x.rows]
       \/ ~x.made /\ Fail(w)
    /\ UNCHANGED <<files, drift, spent, ghosts>>

(* Mutations: the row shows the marker; the rows are renumbered. *)
IndexWithMarker(c) ==
    [made |-> TRUE, total |-> c.num, rows |-> c.rows \cup {Row(c.num, c.mark)}]
IndexRenumbered(c) ==
    [made |-> TRUE, total |-> c.num,
     rows |-> c.rows \cup {Row(Cardinality(c.rows) + 1, c.rec)}]

\* The rewritten index counts this session as the latest, whatever it said.
UpdatedIndex(c) ==
    [made |-> TRUE, total |-> c.num, rows |-> c.rows \cup {Row(c.num, c.rec)}]

UpdateIndex(w) ==
    LET t == Home[w] IN
    /\ win[w].pc = "row"
    /\ \/ /\ work' = [work EXCEPT ![t].index = UpdatedIndex(win[w])]
          /\ win' = [win EXCEPT ![w].pc = "recorded", ![w].rows = {}]
          /\ UNCHANGED spent
       \/ Mishap /\ Fail(w) /\ UNCHANGED work
    /\ UNCHANGED <<head, staged, drift, ghosts>>

\* Without auto-commit (--no-commit, session_auto_commit: false, no git
\* repository or an ignored .trellis/) a recorded session is done.
SkipCommit(w) ==
    /\ win[w].pc = "recorded" /\ ~win[w].auto
    /\ Succeed(w)
    /\ UNCHANGED <<files, drift, spent, asked, lost, raced>>

\* git add of every journal file of the developer and index.md.
Stage(w) ==
    LET t == Home[w] IN
    /\ win[w].pc = "recorded" /\ win[w].auto
    /\ \/ /\ staged' = [staged EXCEPT ![t] = work[t]]
          /\ win' = [win EXCEPT ![w].pc = "staged", ![w].file = work[t].files]
          /\ UNCHANGED spent
       \/ Mishap /\ Fail(w) /\ UNCHANGED staged
    /\ UNCHANGED <<work, head, drift, ghosts>>

\* git diff --cached: with nothing staged there is nothing to commit.
CheckStaged(w) ==
    LET t == Home[w] IN
    /\ win[w].pc = "staged"
    /\ \/ staged[t] = head[t] /\ Succeed(w)
       \/ staged[t] # head[t] /\ Goto(w, "commit") /\ UNCHANGED open
    /\ UNCHANGED <<files, drift, spent, asked, lost, raced>>

(* Mutation: index.md is not among the paths. *)
CommittedWithoutIndex(t, c) ==
    [entries |-> {e \in work[t].entries : e.file <= c.file}
                    \cup {e \in head[t].entries : e.file > c.file},
     files |-> IF head[t].files > c.file THEN head[t].files ELSE c.file,
     index |-> head[t].index]

\* git commit -- <paths> takes the listed paths as they are on disk now.
Committed(t, c) ==
    [entries |-> {e \in work[t].entries : e.file <= c.file}
                    \cup {e \in head[t].entries : e.file > c.file},
     files |-> IF head[t].files > c.file THEN head[t].files ELSE c.file,
     index |-> work[t].index]

\* Entries of other commands that the commit takes along.
SweptBy(w, h) ==
    {m \in Marks(h.entries) \ Marks(head[Home[w]].entries) :
        m.tree = Home[w] /\ m # win[w].mark}

Commit(w) ==
    LET t == Home[w]
        h == Committed(t, win[w])
    IN  /\ win[w].pc = "commit"
        /\ \/ /\ h # head[t]
              /\ head' = [head EXCEPT ![t] = h]
              /\ staged' = [staged EXCEPT ![t] = h]
              /\ Goto(w, "verify")
              /\ lost' = [lost EXCEPT ![t] = [r \in Records |->
                    @[r] + Cardinality({m \in SweptBy(w, h) : m.rec = r})]]
              /\ UNCHANGED spent
           \/ h = head[t] /\ Fail(w) /\ UNCHANGED <<head, staged, lost, spent>>
           \/ Mishap /\ Fail(w) /\ UNCHANGED <<head, staged, lost>>
        /\ UNCHANGED <<work, drift, open, asked, raced>>

\* The record must be in the journal at HEAD before success is reported.
Verify(w) ==
    /\ win[w].pc = "verify"
    /\ \/ /\ win[w].mark \in Marks(head[Home[w]].entries)
          /\ Succeed(w)
       \/ /\ win[w].mark \notin Marks(head[Home[w]].entries)
          /\ Fail(w) /\ UNCHANGED open
    /\ UNCHANGED <<files, drift, spent, asked, lost, raced>>

\* Ctrl-C, a closed window or a tool timeout: every write was atomic, so the
\* files stay as the last completed step left them.
Kill(w) ==
    LET t == Home[w] IN
    /\ win[w].pc # "idle"
    /\ Mishap /\ Fail(w)
    /\ lost' = [lost EXCEPT ![t][win[w].rec] =
          IF win[w].pc = "verify" THEN @ + 1 ELSE @]
    /\ UNCHANGED <<files, drift, open, asked, raced>>

-----------------------------------------------------------------------------
(* Environment.                                                            *)

Drift == /\ spent.drift < MaxDrift
         /\ spent' = [spent EXCEPT !.drift = @ + 1]

NextDay ==
    /\ Drift
    /\ today' = today + 1
    /\ UNCHANGED <<files, win, context, ghosts>>

\* The active task is finished or its branch is gone: main() now resolves
\* another branch or package, and a retry computes another marker.
ChangeContext(t) ==
    /\ Drift
    /\ \A w \in Windows : Home[w] = t => win[w].pc = "idle"
    /\ context' = [context EXCEPT ![t] = @ + 1]
    /\ lost' = [lost EXCEPT ![t] = [r \in Records |->
          IF r \in open[t] /\ \E m \in Marks(work[t].entries) :
                                 m.tree = t /\ m.rec = r /\ m.ctx = context[t]
          THEN @[r] + 1 ELSE @[r]]]
    /\ UNCHANGED <<files, win, today, open, asked, raced>>

Covers(a, b) == Marks(b.entries) \subseteq Marks(a.entries)

\* journal-*.md merges with the union driver, either side of index.md may be
\* kept, and a branch that has everything of the other is fast-forwarded.
MergedEntries(a, b) ==
    a.entries \cup
        {[e EXCEPT !.at = @ + Bottom(InFile(a.entries, e.file))] :
             e \in {x \in b.entries : x.mark \notin Marks(a.entries)}}
Merge(t, u) ==
    /\ spent.merges < MaxMerges
    /\ \A w \in Windows : Home[w] = t => win[w].pc = "idle"
    /\ work[t] = head[t] /\ staged[t] = head[t]
    /\ ~Covers(head[t], head[u])
    /\ \E x \in (IF Covers(head[u], head[t]) THEN {head[u].index}
                 ELSE {head[t].index, head[u].index}) :
         LET h == [entries |-> IF Covers(head[u], head[t]) THEN head[u].entries
                               ELSE MergedEntries(head[t], head[u]),
                   files |-> MaxOf({head[t].files, head[u].files}),
                   index |-> x]
         IN  /\ head' = [head EXCEPT ![t] = h]
             /\ work' = [work EXCEPT ![t] = h]
             /\ staged' = [staged EXCEPT ![t] = h]
    /\ spent' = [spent EXCEPT !.merges = @ + 1]
    /\ raced' = [raced EXCEPT ![t] = @ \/ raced[u]]
    /\ UNCHANGED <<win, drift, open, asked, lost>>

-----------------------------------------------------------------------------
\* One command of a window, step by step.
Command(w) ==
    \/ \E r \in Sessions[w], auto \in {TRUE} \cup {w \notin Manual} : Begin(w, r, auto)
    \/ Preflight(w) \/ ClassifyRecord(w) \/ Rotate(w) \/ ReadJournal(w) \/ AppendEntry(w)
    \/ ReadIndex(w) \/ UpdateIndex(w) \/ SkipCommit(w) \/ Stage(w)
    \/ CheckStaged(w) \/ Commit(w) \/ Verify(w)

Next ==
    \/ \E w \in Windows : Command(w) \/ Kill(w)
    \/ \E t \in Trees : InitDeveloper(t) \/ ChangeContext(t)
    \/ \E t, u \in Trees : Merge(t, u)
    \/ NextDay

Spec == Init /\ [][Next]_vars

-----------------------------------------------------------------------------
(* Properties.                                                             *)

Markers == [tree : Trees, rec : Records, ctx : Nat, gen : Nat, date : Nat]
Entries == [num : Nat, mark : Markers, file : Nat, at : Nat \ {0}]
Rows == [num : Nat, rec : Records]
Contents == [entries : SUBSET Entries, files : Nat,
             index : [made : BOOLEAN, total : Nat, rows : SUBSET Rows]]
Phases == Recording \cup {"idle", "preflight", "recorded", "staged", "commit", "verify"}
Commands == [pc : Phases, rec : Records \cup {"none"}, auto : BOOLEAN,
             mark : Markers \cup {NoMark}, num : Nat, file : Nat,
             snap : SUBSET Entries, rows : SUBSET Rows]

\* Every variable keeps its type.
TypeOK ==
    /\ work \in [Trees -> Contents]
    /\ head \in [Trees -> Contents]
    /\ staged \in [Trees -> Contents]
    /\ win \in [Windows -> Commands]
    /\ today \in Nat /\ context \in [Trees -> Nat]
    /\ spent \in [commands : Nat, mishaps : Nat, merges : Nat, drift : Nat]
    /\ open \in [Trees -> SUBSET Records]
    /\ asked \in [Trees -> [Records -> Nat]]
    /\ lost \in [Trees -> [Records -> Nat]]
    /\ raced \in [Trees -> BOOLEAN]

OwnEntries(t, r) ==
    {e \in work[t].entries : e.mark.tree = t /\ e.mark.rec = r}

\* Re-running a command that was interrupted or failed never records its
\* session twice, whatever step it stopped at, on whatever day it is run
\* again and under the v1 or the v2 marker; the only second entries are for
\* requests whose first entry another command committed, whose own commit
\* went through unnoticed, or whose branch or package changed ("lost").
RetriesConverge ==
    \A t \in Trees, r \in Records :
        ~raced[t] => Cardinality(OwnEntries(t, r)) <= asked[t][r] + lost[t][r]

\* A record with an idempotency key has one entry per context however often
\* it is sent, killed, swept into another command's commit or merged.
KeyedOnce ==
    \A t \in Trees, r \in Keyed : ~raced[t] =>
        \A d, e \in OwnEntries(t, r) : d.mark.ctx = e.mark.ctx => d = e

\* Entry d comes before entry e.
Before(d, e) == d.file < e.file \/ (d.file = e.file /\ d.at < e.at)

\* The sessions recorded in one checkout have growing numbers, although the
\* index may lag behind the journal, lose a merge or count a later session.
NumbersIncrease ==
    \A t \in Trees : ~raced[t] =>
        \A d, e \in {x \in work[t].entries : x.mark.tree = t} : d # e =>
            \/ Before(d, e) /\ d.num < e.num
            \/ Before(e, d) /\ e.num < d.num

\* Every row of index.md is the row of a session in a journal, as long as no
\* two commands of a checkout recorded at once: the journal is written first
\* and no entry is lost.  At HEAD the entry may still be missing: a commit
\* takes index.md as it is on disk, and with it the row of a session whose
\* journal file was created after "git add" listed them.
RowsHaveEntries ==
    (\A t \in Trees : ~raced[t]) =>
        \A t \in Trees : \A f \in {work[t], head[t]} : \A row \in f.index.rows :
            \E u \in Trees : \E e \in work[u].entries :
                e.num = row.num /\ e.mark.rec = row.rec

\* A step of checkout t drops no marker and makes no journal shorter.
OnlyGrows(t) ==
    /\ Marks(work[t].entries) \subseteq Marks(work'[t].entries)
    /\ Marks(head[t].entries) \subseteq Marks(head'[t].entries)
    /\ Cardinality(work[t].entries) <= Cardinality(work'[t].entries)

\* No step of a command, a kill or a merge removes an entry from a journal,
\* on disk or at HEAD.
JournalOnlyGrows == [][\A t \in Trees : ~raced'[t] => OnlyGrows(t)]_vars

Acknowledges(w) ==
    /\ win[w].pc # "idle" /\ win'[w].pc = "idle"
    /\ win[w].rec \in open[Home[w]] \ open'[Home[w]]

HasRecord(f, r, m) ==
    \E e \in f.entries : e.mark = m /\ Row(e.num, r) \in f.index.rows

IsRecorded(w) ==
    /\ HasRecord(work[Home[w]], win[w].rec, win[w].mark)
    /\ win[w].pc = "verify" => HasRecord(head[Home[w]], win[w].rec, win[w].mark)

\* Exit status 0 means that the session is in the journal and in the index,
\* and at HEAD too when this command committed it.  A keyed record that was
\* already committed is reported as done without a look at its row.
AcknowledgedIsRecorded ==
    [][\A w \in Windows :
          Acknowledges(w) /\ ~raced[Home[w]] /\ win[w].pc # "classify"
              => IsRecorded(w)]_vars
=============================================================================
