-------------------------------- MODULE Hooks --------------------------------
(***************************************************************************)
(* The agents of the windows.  When a window starts a sub-agent, its host  *)
(* runs the sub-agent hook: it resolves the active task as Sessions has    *)
(* it, reads the task's files one after another, as Injection has it, and  *)
(* hands the context over, while the commands of Tasks go on and may move  *)
(* the very files it reads.                                                *)
(*                                                                         *)
(* A hook only reads, so one at a time is enough to see what any of them   *)
(* may be told.                                                            *)
(***************************************************************************)
EXTENDS Tasks, Sequences

CONSTANTS Codex,            \* windows whose host starts sub-agents itself
          FileNames, Contents, MaxFileBytes, MaxArtifactBytes,
          MaxTotalBytes, MaxFiles, HeaderBytes, NoticeBytes,  \* as in Injection
          Curated,          \* the items of a task's manifest
          Artifacts,        \* the artifacts of every task
          ContentOf,        \* per name: what the file holds, None for a folder
          FilesIn           \* per name: the files of the folder

VARIABLES agent,                              \* the agent whose hook runs
          phase, todo, used, blocks, inlined  \* as in Injection

hookVars == <<agent, phase, todo, used, blocks, inlined>>
allVars == <<vars, hookVars>>

I == INSTANCE Injection WITH Places <- Names

ASSUME HooksAssumption ==
    /\ Codex \subseteq Windows
    /\ I!InjectionAssumption
    /\ Curated.names \in Seq(FileNames) /\ Artifacts \in Seq(FileNames)
    /\ Curated.kinds \in [DOMAIN Curated.names -> {"file", "folder"}]
    /\ ContentOf \in [FileNames -> Contents \cup {None}]
    /\ FilesIn \in [FileNames -> Seq(FileNames)]

\* A listing shows files, each once; the artifacts are different files.
ASSUME Listings ==
    /\ \A f \in FileNames : \A j, k \in DOMAIN FilesIn[f] :
          /\ ContentOf[FilesIn[f][j]] # None
          /\ FilesIn[f][j] = FilesIn[f][k] => j = k
    /\ \A j, k \in DOMAIN Artifacts : Artifacts[j] = Artifacts[k] => j = k

-----------------------------------------------------------------------------

\* An implement or check agent that window win starts, the task it is for,
\* the task the window pointed at, and whether a command has moved or
\* curated the task since.
NoAgent == [win |-> None, task |-> None, own |-> None, raced |-> FALSE]
Agent(w, n) == [win |-> w, task |-> n, own |-> ptr[w], raced |-> FALSE]

AgentTask(w) == IF w \in Codex THEN S!SubagentTask(w) ELSE S!DispatchTask(w)

Item(n, f, kind) == [kind |-> kind, dir |-> n, name |-> f]

\* The items a list of names stands for in the directory of task n.
ItemsOf(n, names, kind) == [j \in DOMAIN names |-> Item(n, names[j], kind[j])]

\* The manifest of task n names items that lie in one task's directory.
Entries(n) ==
    IF HasRecord(n) /\ active[n].manifest # None
    THEN ItemsOf(active[n].manifest, Curated.names, Curated.kinds)
    ELSE <<>>

ArtifactsOf(n) == ItemsOf(n, Artifacts, [j \in DOMAIN Artifacts |-> "artifact"])

\* What a file or folder holds, None or nothing when the directory is gone.
Holds(item) == IF HasRecord(item.dir) THEN ContentOf[item.name] ELSE None
Lists(item) ==
    IF HasRecord(item.dir)
    THEN ItemsOf(item.dir, FilesIn[item.name], [j \in DOMAIN FilesIn[item.name] |-> "file"])
    ELSE <<>>

-----------------------------------------------------------------------------
(* The hook.  A window without a task starts its agents without context,   *)
(* and a research agent is never told of the task.                         *)

\* The task is resolved and its directory is there.
StartAgent(w) ==
    LET n == AgentTask(w)
    IN  /\ agent = NoAgent
        /\ n \in Dirs
        /\ ran < MaxCommands /\ ran' = ran + 1
        /\ agent' = Agent(w, n)
        /\ UNCHANGED <<taskVars, gitVars, sessionVars, win, mishaps, made, crossed,
                       broken, adrift, owed, phase, todo, used, blocks, inlined>>

\* get_implement_context and get_check_context read the manifest first...
ReadManifest ==
    /\ agent # NoAgent
    /\ I!Begin(Entries(agent.task))
    /\ UNCHANGED <<vars, agent>>

\* ... then what it names, file by file, ...
ReadItem ==
    /\ todo # <<>>
    /\ \/ I!TakeFile(Holds(Head(todo)))
       \/ I!TakeFolder(Lists(Head(todo)))
    /\ UNCHANGED <<vars, agent>>

\* ... and then the artifacts.
ReadArtifacts == I!EndEntries(ArtifactsOf(agent.task)) /\ UNCHANGED <<vars, agent>>

DeliverContext == I!Deliver /\ agent' = NoAgent /\ UNCHANGED vars

-----------------------------------------------------------------------------

\* The directories the context of task n comes from, and what they name.
Sources(n) == {n} \cup (IF HasRecord(n) THEN {active[n].manifest} \ {None} ELSE {})
View(n) == {<<m, IF HasRecord(m) THEN active[m].manifest ELSE None, HasRecord(m)>>
              : m \in Sources(n)}

TaskStep ==
    /\ Next
    /\ agent' = IF \E n \in {agent.task} \ {None} : View(n)' # View(n)
                THEN [agent EXCEPT !.raced = TRUE] ELSE agent
    /\ UNCHANGED <<phase, todo, used, blocks, inlined>>

HooksInit == Init /\ agent = NoAgent /\ I!Init

HooksNext ==
    \/ TaskStep
    \/ \E w \in Windows : StartAgent(w)
    \/ ReadManifest \/ ReadItem \/ ReadArtifacts \/ DeliverContext

HooksSpec == HooksInit /\ [][HooksNext]_allVars
-----------------------------------------------------------------------------
(* Properties.                                                             *)

(* The context of an agent keeps its limits, whatever its files hold and   *)
(* whichever of them are gone when they are read.                          *)
ContextWithinLimits == I!TypeOK /\ I!WithinBudget /\ I!CutsWholeCharacters

\* The files of the manifest of task n that are there, and of a folder the
\* first MaxFiles; the artifacts.
DueEntries(n) ==
    LET entries == {Entries(n)[j] : j \in DOMAIN Entries(n)}
        folders == {e \in entries : e.kind = "folder"}
    IN  {e \in entries \ folders : Holds(e) # None}
        \cup UNION {{Lists(e)[j] : j \in {k \in DOMAIN Lists(e) : k <= MaxFiles}} : e \in folders}
DueArtifacts(n) ==
    {e \in {ArtifactsOf(n)[j] : j \in DOMAIN Artifacts} : Holds(e) # None}

\* The files that item j of the manifest stands for.  add-context refuses an
\* item that the manifest names already, but not a file of such a folder.
Named(j) ==
    LET f == Curated.names[j]
    IN  IF Curated.kinds[j] = "folder"
        THEN {FilesIn[f][k] : k \in {i \in DOMAIN FilesIn[f] : i <= MaxFiles}}
        ELSE {f}
NamedOnce ==
    \A j, k \in DOMAIN Curated.names : j # k => Named(j) \cap Named(k) = {}

\* The blocks about items.
Told == {j \in DOMAIN blocks : blocks[j] # I!Uncurated}

\* The task an agent is for.
NeverAnothersTask ==
    agent.task \notin {None, agent.own} => agent.own = None /\ agent.win \notin Codex

(* An agent is given the task of its own window, and the only task there   *)
(* is if the window has none, but never that if its host starts agents     *)
(* itself.  Unless a command moved the task or its files meanwhile, the    *)
(* agent is told of every item of the task, whole, cut or as a notice, the *)
(* manifest's before the artifacts, of none twice that is not named twice, *)
(* and that there are no curated entries exactly when there are none.      *)
AgentsGetTheirTask ==
    /\ NeverAnothersTask
    /\ I!Ready /\ ~agent.raced =>
           LET n == agent.task
           IN  /\ {blocks[j].item : j \in Told} = DueEntries(n) \cup DueArtifacts(n)
               /\ \A j, k \in Told : j < k =>
                      /\ NamedOnce => blocks[j].item # blocks[k].item
                      /\ blocks[k].item \in DueEntries(n) => blocks[j].item \in DueEntries(n)
               /\ Told = DOMAIN blocks <=> DueEntries(n) # {}
=============================================================================
