---------------------------- MODULE Hooks_proofs ----------------------------
(***************************************************************************)
(* Proofs about the agents of any number of windows: whose task they are   *)
(* given, that their context keeps its limits while commands move what it  *)
(* is read from, and that the hook disturbs nothing of the task store.     *)
(***************************************************************************)
EXTENDS Hooks, TaskLinks_proofs

P == INSTANCE Injection_proofs WITH Places <- Names

-----------------------------------------------------------------------------
(* Hooks and the proofs about Injection speak of the same operators.       *)

LEMMA SameCharacters ==
    /\ \A data, n : I!LastStart(data, n) = P!LastStart(data, n)
    /\ \A data : I!IsText(data) = P!IsText(data)
    /\ \A data : I!DecodedBytes(data) = P!DecodedBytes(data)
    /\ \A data, cap : I!Cut(data, cap) = P!Cut(data, cap)
  <1>1. \A b : I!Width(b) = P!Width(b)
    BY Zenon DEF I!Width, P!Width
  <1>2. \A data, n : I!LastStart(data, n) = P!LastStart(data, n)
    BY Zenon DEF I!LastStart, P!LastStart
  <1>3. \A data, i : I!Reaches(data, i) = P!Reaches(data, i)
    BY <1>1, <1>2, Zenon DEF I!Reaches, P!Reaches
  <1>4. \A data, i : I!Complete(data, i) = P!Complete(data, i)
    BY <1>1, Zenon DEF I!Complete, P!Complete
  <1>5. \A data, i : I!Whole(data, i) = P!Whole(data, i)
    BY <1>2, <1>3, <1>4, Zenon DEF I!Whole, P!Whole
  <1>6. \A data : I!IsText(data) = P!IsText(data)
    BY <1>5, Zenon DEF I!IsText, P!IsText
  <1>7. \A data : I!DecodedBytes(data) = P!DecodedBytes(data)
    <2>1. \A T : I!Cardinality(T) = P!Cardinality(T)
      BY Zenon DEF I!Cardinality, P!Cardinality
    <2> QED
      BY <1>3, <1>5, <2>1, Zenon DEF I!DecodedBytes, P!DecodedBytes
  <1>8. \A data, cap : I!Cut(data, cap) = P!Cut(data, cap)
    BY <1>1, <1>2, Zenon DEF I!Cut, P!Cut
  <1> QED
    BY <1>2, <1>6, <1>7, <1>8

LEMMA SameBlocks ==
    /\ \A data : I!Binary(data) = P!Binary(data)
    /\ \A data, cap : I!Truncate(data, cap) = P!Truncate(data, cap)
    /\ \A item : I!Cap(item) = P!Cap(item)
    /\ \A item, data : I!BlockBytes(item, data) = P!BlockBytes(item, data)
    /\ \A item, how, data : I!Block(item, how, data) = P!Block(item, how, data)
    /\ I!Uncurated = P!Uncurated /\ I!Item = P!Item
  <1>1. \A data : I!Binary(data) = P!Binary(data)
    BY SameCharacters, Zenon DEF I!Binary, P!Binary
  <1>2. \A data, cap : I!Truncate(data, cap) = P!Truncate(data, cap)
    BY SameCharacters, Zenon DEF I!Truncate, P!Truncate
  <1>3. \A item : I!Cap(item) = P!Cap(item)
    BY Zenon DEF I!Cap, P!Cap
  <1>4. \A item, data : I!Given(item, data) = P!Given(item, data)
    BY <1>2, <1>3, Zenon DEF I!Given, P!Given
  <1>5. \A item, data : I!BlockBytes(item, data) = P!BlockBytes(item, data)
    BY <1>4, SameCharacters, Zenon DEF I!BlockBytes, P!BlockBytes
  <1>6. \A item, how, data : I!Block(item, how, data) = P!Block(item, how, data)
    BY Zenon DEF I!Block, P!Block
  <1>7. I!Uncurated = P!Uncurated /\ I!Item = P!Item
    BY Zenon DEF I!Uncurated, P!Uncurated, I!Item, P!Item
  <1> QED
    BY <1>1, <1>2, <1>3, <1>5, <1>6, <1>7

LEMMA SameAssumption == P!InjectionAssumption
  BY HooksAssumption, Zenon DEF HooksAssumption, I!InjectionAssumption,
     P!InjectionAssumption, I!Byte, P!Byte

LEMMA SameSteps ==
    /\ I!Init => P!Init
    /\ \A entries : I!Begin(entries) => P!Begin(entries)
    /\ \A data : I!TakeFile(data) => P!TakeFile(data)
    /\ \A files : I!TakeFolder(files) => P!TakeFolder(files)
    /\ \A artifacts : I!EndEntries(artifacts) => P!EndEntries(artifacts)
    /\ I!Deliver => P!Deliver
  <1>1. I!Init => P!Init
    BY DEF I!Init, P!Init
  <1>2. \A entries : I!Begin(entries) => P!Begin(entries)
    BY Zenon DEF I!Begin, P!Begin
  <1>3. ASSUME NEW data, I!TakeFile(data)
        PROVE  P!TakeFile(data)
    <2>1. \A size : I!HasRoom(size) = P!HasRoom(size)
      BY Zenon DEF I!HasRoom, P!HasRoom
    <2>2. \A how : I!Notice(how, data) => P!Notice(how, data)
      BY SameBlocks, Zenon DEF I!Notice, P!Notice
    <2>3. I!Inline(data) => P!Inline(data)
      BY SameBlocks, Zenon DEF I!Inline, P!Inline
    <2>4. I!Materialize(data) => P!Materialize(data)
      BY <2>1, <2>2, <2>3, SameBlocks, Zenon DEF I!Materialize, P!Materialize
    <2> QED
      BY <1>3, <2>4, Zenon DEF I!TakeFile, P!TakeFile
  <1>4. \A files : I!TakeFolder(files) => P!TakeFolder(files)
    BY Zenon DEF I!TakeFolder, P!TakeFolder
  <1>5. \A artifacts : I!EndEntries(artifacts) => P!EndEntries(artifacts)
    BY SameBlocks, Zenon DEF I!EndEntries, P!EndEntries
  <1>6. I!Deliver => P!Deliver
    BY Zenon DEF I!Deliver, P!Deliver, I!Ready, P!Ready
  <1> QED
    BY <1>1, <1>2, <1>3, <1>4, <1>5, <1>6

LEMMA SameProperties ==
    P!IInv => ContextWithinLimits
  <1> SUFFICES ASSUME P!IInv
               PROVE  ContextWithinLimits
    OBVIOUS
  <1>1. I!TypeOK
    BY SameBlocks, Zenon DEF P!IInv, P!TypeOK, I!TypeOK
  <1>2. I!WithinBudget
    BY Zenon DEF P!IInv, P!WithinBudget, I!WithinBudget
  <1>3. I!CutsWholeCharacters
    <2>1. P!CutsWholeCharacters
      BY SameAssumption, P!TypedBlocksCutWell DEF P!IInv
    <2>2. \A data, cap : I!EndsAt(data, cap) = P!EndsAt(data, cap)
      BY Zenon DEF I!EndsAt, P!EndsAt
    <2>3. \A data, cap : I!LongestWhole(data, cap) = P!LongestWhole(data, cap)
      BY SameCharacters, Zenon DEF I!LongestWhole, P!LongestWhole
    <2> QED
      BY <2>1, <2>2, <2>3, SameCharacters, SameBlocks, Zenon
      DEF I!CutsWholeCharacters, P!CutsWholeCharacters
  <1> QED
    BY <1>1, <1>2, <1>3 DEF ContextWithinLimits

-----------------------------------------------------------------------------
(* The inductive invariant: that of the task store, that of the context,   *)
(* and that an agent at work has a task, its own window's if it has one.   *)

AgentOK ==
    /\ agent \in [win : Windows \cup {None}, task : Names \cup {None},
                  own : Names \cup {None}, raced : BOOLEAN]
    /\ agent # NoAgent => agent.task \in Names
    /\ agent = NoAgent => phase = "idle"
    /\ NeverAnothersTask

HInv == IInv /\ AgentOK /\ P!IInv

\* What the hook reads is made of items.
LEMMA ItemsAreItems ==
    ASSUME NEW n \in Names, NEW names \in Seq(FileNames),
           NEW kind \in [DOMAIN names -> {"file", "folder", "artifact"}]
    PROVE  ItemsOf(n, names, kind) \in Seq(P!Item)
  <1>1. DOMAIN names = 1..Len(names) /\ Len(names) \in Nat
    OBVIOUS
  <1>2. \A j \in 1..Len(names) : Item(n, names[j], kind[j]) \in P!Item
    BY DEF Item, P!Item
  <1>3. ItemsOf(n, names, kind) = [j \in 1..Len(names) |-> Item(n, names[j], kind[j])]
    BY <1>1 DEF ItemsOf
  <1> QED
    BY <1>1, <1>2, <1>3

LEMMA FilesAreFiles ==
    ASSUME NEW n \in Names, NEW names \in Seq(FileNames)
    PROVE  ItemsOf(n, names, [j \in DOMAIN names |-> "file"]) \in Seq(P!File)
  <1>1. DOMAIN names = 1..Len(names) /\ Len(names) \in Nat
    OBVIOUS
  <1>2. \A j \in 1..Len(names) : Item(n, names[j], "file") \in P!File
    BY DEF Item, P!File
  <1>3. ItemsOf(n, names, [j \in DOMAIN names |-> "file"])
            = [j \in 1..Len(names) |-> Item(n, names[j], "file")]
    BY <1>1 DEF ItemsOf
  <1> QED
    BY <1>1, <1>2, <1>3

LEMMA EntriesAre ==
    ASSUME IInv, NEW n
    PROVE  Entries(n) \in Seq(P!Item)
  <1>1. CASE HasRecord(n) /\ active[n].manifest # None
    <2>1. active[n].manifest \in Names
      <3>1. active[n] \in Task
        BY <1>1, RecordIs DEF IInv
      <3> QED
        BY <1>1, <3>1 DEF Task
    <2>2. /\ Curated.names \in Seq(FileNames)
          /\ Curated.kinds \in [DOMAIN Curated.names -> {"file", "folder", "artifact"}]
      BY HooksAssumption DEF HooksAssumption
    <2> QED
      BY <1>1, <2>1, <2>2, ItemsAreItems DEF Entries
  <1>2. CASE ~(HasRecord(n) /\ active[n].manifest # None)
    BY <1>2 DEF Entries
  <1> QED
    BY <1>1, <1>2

LEMMA ArtifactsAre ==
    ASSUME NEW n \in Names
    PROVE  ArtifactsOf(n) \in Seq(P!Item)
  BY HooksAssumption, ItemsAreItems DEF HooksAssumption, ArtifactsOf

LEMMA HeldIs ==
    ASSUME NEW item \in P!Item
    PROVE  Holds(item) \in Contents \cup {None}
  BY HooksAssumption DEF HooksAssumption, Holds, P!Item

LEMMA ListedIs ==
    ASSUME NEW item \in P!Item
    PROVE  Lists(item) \in Seq(P!File)
  <1>1. item.dir \in Names /\ FilesIn[item.name] \in Seq(FileNames)
    BY HooksAssumption DEF HooksAssumption, P!Item
  <1>2. CASE HasRecord(item.dir)
    BY <1>1, <1>2, FilesAreFiles DEF Lists
  <1>3. CASE ~HasRecord(item.dir)
    BY <1>3 DEF Lists
  <1> QED
    BY <1>2, <1>3

-----------------------------------------------------------------------------
(* Every step of the hook keeps the invariant.                             *)

\* No window is given a task that is another's while it has one.
LEMMA OwnTaskFirst ==
    ASSUME NEW w \in Windows, AgentTask(w) # None
    PROVE  AgentTask(w) # ptr[w] => ptr[w] = None /\ w \notin Codex
  <1>1. CASE w \in Codex
    <2> DEFINE x == IF w \in Hooked THEN w ELSE None
    <2>1. AgentTask(w) = S!ResolveActive(x, FALSE).task
      BY <1>1 DEF AgentTask, S!SubagentTask
    <2>2. x \in S!SessionFiles
      <3> SUFFICES ASSUME x \notin S!SessionFiles
                   PROVE  FALSE
        OBVIOUS
      <3>1. S!ResolveActive(x, FALSE) = S!NoTask
        BY DEF S!ResolveActive
      <3>2. S!NoTask.task = None
        BY DEF S!NoTask
      <3> HIDE DEF x
      <3> QED
        BY <2>1, <3>1, <3>2
    <2>3. x = w
      BY <2>2, TasksAssumption DEF TasksAssumption, S!SessionFiles
    <2>4. AgentTask(w) = ptr[w]
      BY <2>1, <2>2, <2>3 DEF S!ResolveActive, S!Active
    <2> QED
      BY <2>4
  <1>2. CASE w \notin Codex
    <2> DEFINE x == S!HookKey(w)
    <2>1. AgentTask(w) = S!ResolveActive(x, TRUE).task
      BY <1>2 DEF AgentTask, S!DispatchTask
    <2>2. CASE x \in S!SessionFiles
      <3>1. x = w
        BY <2>2, TasksAssumption DEF TasksAssumption, S!SessionFiles, S!HookKey, S!EnvKey
      <3>2. AgentTask(w) = ptr[w]
        BY <2>1, <2>2, <3>1 DEF S!ResolveActive, S!Active
      <3> QED
        BY <3>2
    <2>3. CASE x \notin S!SessionFiles
      <3>1. S!ResolveActive(x, TRUE) = S!SingleSession
        BY <2>3 DEF S!ResolveActive
      <3>2. \E y \in Windows : S!SessionFiles = {y}
        <4> SUFFICES ASSUME ~\E y \in Windows : S!SessionFiles = {y}
                     PROVE  FALSE
          OBVIOUS
        <4>1. S!SingleSession = S!NoTask
          BY Zenon DEF S!SingleSession
        <4>2. S!NoTask.task = None
          BY DEF S!NoTask
        <4> HIDE DEF x
        <4> QED
          BY <2>1, <3>1, <4>1, <4>2
      <3> DEFINE y == CHOOSE z \in Windows : S!SessionFiles = {z}
      <3>3. S!SessionFiles = {y}
        BY <3>2
      <3>4. S!SingleSession.task = ptr[y]
        BY <3>2 DEF S!SingleSession, S!Active
      <3> HIDE DEF y
      <3>5. ptr[w] # None => w = y
        BY <3>3 DEF S!SessionFiles
      <3> QED
        BY <1>2, <2>1, <3>1, <3>4, <3>5
    <2> QED
      BY <2>2, <2>3
  <1> QED
    BY <1>1, <1>2

\* Steps of the hook are steps of module Injection.
LEMMA ReadingKeepsContext ==
    ASSUME HInv, ReadManifest \/ ReadItem \/ ReadArtifacts \/ DeliverContext
    PROVE  P!IInv'
  <1>1. IInv /\ AgentOK /\ P!IInv /\ todo \in Seq(P!Item)
    BY DEF HInv, P!IInv, P!TypeOK
  <1>2. P!Next
    <2>1. CASE ReadManifest
      <3>1. I!Begin(Entries(agent.task)) /\ todo' = Entries(agent.task)
        BY <2>1 DEF ReadManifest, I!Begin
      <3>2. todo' \in Seq(P!Item) /\ P!Begin(todo')
        BY <1>1, <3>1, EntriesAre, SameSteps
      <3> QED
        BY <3>2 DEF P!Next
    <2>2. CASE ReadItem
      <3>1. Head(todo) \in P!Item
        BY <1>1, <2>2 DEF ReadItem
      <3>2. \/ I!TakeFile(Holds(Head(todo)))
            \/ I!TakeFolder(Lists(Head(todo)))
        BY <2>2 DEF ReadItem
      <3>3. /\ Holds(Head(todo)) \in Contents \cup {None}
            /\ Lists(Head(todo)) \in Seq(P!File)
        BY <3>1, HeldIs, ListedIs
      <3>4. \/ P!TakeFile(Holds(Head(todo)))
            \/ P!TakeFolder(Lists(Head(todo)))
        BY <3>2, SameSteps
      <3> QED
        BY <3>3, <3>4 DEF P!Next
    <2>3. CASE ReadArtifacts
      <3>1. phase = "entries" /\ todo' = ArtifactsOf(agent.task)
        BY <2>3 DEF ReadArtifacts, I!EndEntries
      <3>2. agent.task \in Names
        BY <1>1, <3>1 DEF AgentOK
      <3>3. todo' \in Seq(P!Item) /\ P!EndEntries(todo')
        BY <2>3, <3>1, <3>2, ArtifactsAre, SameSteps DEF ReadArtifacts
      <3> QED
        BY <3>3 DEF P!Next
    <2>4. CASE DeliverContext
      BY <2>4, SameSteps DEF DeliverContext, P!Next
    <2> QED
      BY <2>1, <2>2, <2>3, <2>4
  <1> QED
    BY <1>1, <1>2, SameAssumption, P!StepInv

LEMMA ContextStays ==
    ASSUME P!IInv, UNCHANGED <<phase, todo, used, blocks, inlined>>
    PROVE  P!IInv'
  <1>1. UNCHANGED P!injectionVars
    BY DEF P!injectionVars
  <1> QED
    BY <1>1, SameAssumption, P!StepInv

LEMMA HooksKeep == HInv /\ [HooksNext]_allVars => HInv'
  <1> SUFFICES ASSUME HInv, [HooksNext]_allVars
               PROVE  HInv'
    OBVIOUS
  <1>1. IInv /\ AgentOK /\ P!IInv
    BY DEF HInv
  <1>2. CASE UNCHANGED allVars
    <2>1. IInv'
      BY <1>1, <1>2, NextKeeps DEF allVars
    <2>2. P!IInv'
      BY <1>1, <1>2, ContextStays DEF allVars, hookVars
    <2>3. AgentOK'
      BY <1>1, <1>2 DEF AgentOK, NeverAnothersTask, allVars, hookVars
    <2> QED
      BY <2>1, <2>2, <2>3 DEF HInv
  <1>3. CASE TaskStep
    <2>1. IInv'
      BY <1>1, <1>3, NextKeeps DEF TaskStep
    <2>2. P!IInv'
      BY <1>1, <1>3, ContextStays DEF TaskStep
    <2>3. AgentOK'
      <3>1. \/ agent' = agent
            \/ agent.task # None /\ agent' = [agent EXCEPT !.raced = TRUE]
        BY <1>3 DEF TaskStep
      <3>2. phase' = phase
        BY <1>3 DEF TaskStep
      <3>3. agent.task # None /\ agent' = [agent EXCEPT !.raced = TRUE]
                => agent # NoAgent /\ agent' # NoAgent
        BY <1>1 DEF AgentOK, NoAgent
      <3> QED
        BY <1>1, <3>1, <3>2, <3>3 DEF AgentOK, NeverAnothersTask
    <2> QED
      BY <2>1, <2>2, <2>3 DEF HInv
  <1>4. ASSUME NEW w \in Windows, StartAgent(w)
        PROVE  HInv'
    <2> DEFINE n == AgentTask(w)
    <2>1. /\ agent = NoAgent /\ n \in Names /\ agent' = Agent(w, n)
          /\ ran < MaxCommands /\ ran' = ran + 1
          /\ UNCHANGED <<taskVars, gitVars, sessionVars, win, mishaps, made, crossed,
                         broken, adrift, owed, phase, todo, used, blocks, inlined>>
      BY <1>4 DEF StartAgent, Dirs
    <2>2. IInv'
      <3>1. BoundsOK'
        <4>1. MaxCommands \in Nat
          BY TasksAssumption DEF TasksAssumption
        <4> QED
          BY <1>1, <2>1, <4>1 DEF IInv, BoundsOK
      <3> QED
        BY <1>1, <2>1, <3>1, Frames DEF IInv, taskVars, gitVars, sessionVars
    <2>3. P!IInv'
      BY <1>1, <2>1, ContextStays
    <2>4. AgentOK'
      <3>1. n # ptr[w] => ptr[w] = None /\ w \notin Codex
        BY <2>1, OwnTaskFirst, TasksAssumption DEF TasksAssumption
      <3>2. agent' = [win |-> w, task |-> n, own |-> ptr[w], raced |-> FALSE]
        BY <2>1 DEF Agent
      <3>3. ptr[w] \in Names \cup {None} /\ n # None
        BY <1>1, <2>1, TasksAssumption DEF TasksAssumption, IInv, PointersOK
      <3> HIDE DEF n
      <3>4. agent' # NoAgent
        BY <3>2, <3>3 DEF NoAgent
      <3> QED
        BY <2>1, <3>1, <3>2, <3>3, <3>4 DEF AgentOK, NeverAnothersTask
    <2> QED
      BY <2>2, <2>3, <2>4 DEF HInv
  <1>5. CASE ReadManifest \/ ReadItem \/ ReadArtifacts \/ DeliverContext
    <2>1. UNCHANGED vars
      BY <1>5 DEF ReadManifest, ReadItem, ReadArtifacts, DeliverContext
    <2>2. IInv'
      BY <1>1, <2>1, NextKeeps
    <2>3. P!IInv'
      BY <1>5, ReadingKeepsContext
    <2>4. AgentOK'
      <3>1. CASE ReadManifest \/ ReadItem \/ ReadArtifacts
        <4>1. agent' = agent
          BY <3>1 DEF ReadManifest, ReadItem, ReadArtifacts
        <4>2. agent = NoAgent => phase' = "idle"
          BY <1>1, <3>1 DEF AgentOK, ReadManifest, ReadItem, ReadArtifacts,
                            I!EndEntries, I!TakeFile, I!TakeFolder
        <4> QED
          BY <1>1, <4>1, <4>2 DEF AgentOK, NeverAnothersTask
      <3>2. CASE DeliverContext
        <4>1. agent' = NoAgent /\ phase' = "idle"
          BY <3>2 DEF DeliverContext, I!Deliver
        <4> QED
          BY <4>1 DEF AgentOK, NeverAnothersTask, NoAgent
      <3> QED
        BY <1>5, <3>1, <3>2
    <2> QED
      BY <2>2, <2>3, <2>4 DEF HInv
  <1> QED
    BY <1>2, <1>3, <1>4, <1>5 DEF HooksNext

LEMMA HooksStart == HooksInit => HInv
  <1> SUFFICES ASSUME HooksInit
               PROVE  HInv
    OBVIOUS
  <1>1. IInv
    BY InitKeeps DEF HooksInit
  <1>2. P!IInv
    BY SameAssumption, SameSteps, P!InitInv DEF HooksInit
  <1>3. AgentOK
    BY DEF HooksInit, I!Init, AgentOK, NeverAnothersTask, NoAgent
  <1> QED
    BY <1>1, <1>2, <1>3 DEF HInv

-----------------------------------------------------------------------------

(* The context of an agent keeps its limits for every task store, all      *)
(* limits and all contents, whatever the commands do to the files while    *)
(* the hook reads them.                                                    *)
THEOREM LimitsHold == HooksSpec => []ContextWithinLimits
  <1>1. HInv => ContextWithinLimits
    BY SameProperties DEF HInv
  <1> QED
    BY <1>1, HooksStart, HooksKeep, PTL DEF HooksSpec

(* No agent is given the task of another window while its own has one, and *)
(* none whose host starts agents itself ever.                              *)
THEOREM OwnTaskHolds == HooksSpec => []NeverAnothersTask
  <1>1. HInv => NeverAnothersTask
    BY DEF HInv, AgentOK
  <1> QED
    BY <1>1, HooksStart, HooksKeep, PTL DEF HooksSpec

(* With agents at work too, the store only ever holds whole records.       *)
THEOREM HooksTypeCorrect == HooksSpec => []TypeOK
  <1>1. HInv => TypeOK
    BY IInvTypes DEF HInv
  <1> QED
    BY <1>1, HooksStart, HooksKeep, PTL DEF HooksSpec

\* The hook leaves pointers and tickets alone.
LEMMA HooksOnlyRead == HooksNext => [Next]_vars \/ UNCHANGED <<taskVars, sessionVars>>
  BY DEF HooksNext, TaskStep, StartAgent, ReadManifest, ReadItem, ReadArtifacts,
         DeliverContext

(* With agents at work too, a window changes no pointer but its own.       *)
THEOREM HooksIsolated == HooksSpec => SessionsIsolated
  <1>1. HInv /\ [HooksNext]_allVars => [Isolated]_vars
    <2> SUFFICES ASSUME HInv, [HooksNext]_allVars
                 PROVE  Isolated \/ UNCHANGED vars
      OBVIOUS
    <2>1. CASE [Next]_vars
      BY <2>1, IsolatedSteps DEF HInv
    <2>2. CASE UNCHANGED <<taskVars, sessionVars>>
      BY <2>2 DEF Isolated, sessionVars
    <2>3. CASE UNCHANGED allVars
      BY <2>3 DEF allVars
    <2> QED
      BY <2>1, <2>2, <2>3, HooksOnlyRead
  <1>2. HooksSpec => [][Isolated]_vars
    BY <1>1, HooksStart, HooksKeep, PTL DEF HooksSpec
  <1> QED
    BY <1>2 DEF SessionsIsolated, Isolated

(* The whole of commands, hooks and agents implements the session layer.   *)
THEOREM HooksImplementSessions == HooksSpec => SessionsSpec
  <1>1. HooksInit => S!Init
    BY SessionsStart DEF HooksInit
  <1>2. HInv /\ [HooksNext]_allVars => [S!Next]_<<ptr, tickets, Dirs>>
    <2> SUFFICES ASSUME HInv, [HooksNext]_allVars
                 PROVE  S!Next \/ UNCHANGED <<ptr, tickets, Dirs>>
      OBVIOUS
    <2>1. CASE [Next]_vars
      BY <2>1, SessionsFollow DEF HInv
    <2>2. CASE UNCHANGED <<taskVars, sessionVars>>
      BY <2>2, StoreSteps
    <2>3. CASE UNCHANGED allVars
      BY <2>3, StoreSteps DEF allVars, vars, sessionVars
    <2> QED
      BY <2>1, <2>2, <2>3, HooksOnlyRead
  <1> QED
    BY <1>1, <1>2, HooksStart, HooksKeep, PTL DEF HooksSpec, SessionsSpec, S!Spec

\* Of the store, the hook changes the count of commands, if anything.
LEMMA HooksOnlyCount ==
    HooksNext =>
        \/ [Next]_vars
        \/ UNCHANGED <<taskVars, gitVars, sessionVars, win, mishaps, made, crossed,
                       broken, adrift, owed>>
  BY DEF HooksNext, TaskStep, StartAgent, ReadManifest, ReadItem, ReadArtifacts,
         DeliverContext

LEMMA PtrRests ==
    ASSUME PtrInv, UNCHANGED <<taskVars, gitVars, sessionVars, win, mishaps, made,
                               crossed, broken, adrift, owed>>
    PROVE  PtrInv'
  BY DEF PtrInv, Warned, Reached, PastClearing, Step, Dirs, taskVars, sessionVars

LEMMA WhereaboutsRest ==
    ASSUME IInv, Whereabouts,
           UNCHANGED <<taskVars, gitVars, sessionVars, win, mishaps, made, crossed,
                       broken, adrift, owed>>
    PROVE  Whereabouts'
  <1>1. UNCHANGED <<active, archived, win, made, crossed, broken, index, head, owed>>
    BY DEF taskVars, gitVars
  <1> QED
    BY <1>1, SameIdsStay, GitRests DEF Whereabouts

(* With agents at work too, a session with a pointer hears of its own task *)
(* and of nothing that is gone, but after a step that failed or raced.     *)
THEOREM HooksPointersHold == HooksSpec => []PointersResolve
  <1>1. HooksInit => PtrInv
    BY PtrStart DEF HooksInit
  <1>2. HInv /\ PtrInv /\ [HooksNext]_allVars => PtrInv'
    <2> SUFFICES ASSUME HInv, PtrInv, [HooksNext]_allVars
                 PROVE  PtrInv'
      OBVIOUS
    <2>1. CASE [Next]_vars
      BY <2>1, PtrKeeps DEF HInv
    <2>2. CASE UNCHANGED allVars
      BY <2>2, PtrKeeps DEF HInv, allVars
    <2> QED
      BY <2>1, <2>2, HooksOnlyCount, PtrRests
  <1>3. HInv /\ PtrInv => PointersResolve
    BY PtrResolves DEF HInv
  <1> QED
    BY <1>1, <1>2, <1>3, HooksStart, HooksKeep, PTL DEF HooksSpec

(* With agents at work too, no commit has a task both among the active and *)
(* in the archive, but one whose own commit is still to come.              *)
THEOREM HooksArchivesWhole == HooksSpec => []NoHalfArchive
  <1>1. HooksInit => Whereabouts
    BY WhereaboutsStart DEF HooksInit
  <1>2. HInv /\ Whereabouts /\ [HooksNext]_allVars => Whereabouts'
    <2> SUFFICES ASSUME HInv, Whereabouts, [HooksNext]_allVars
                 PROVE  Whereabouts'
      OBVIOUS
    <2>1. CASE [Next]_vars
      BY <2>1, WhereaboutsKeep DEF HInv
    <2>2. CASE UNCHANGED allVars
      BY <2>2, WhereaboutsKeep DEF HInv, allVars
    <2> QED
      BY <2>1, <2>2, HooksOnlyCount, WhereaboutsRest DEF HInv
  <1>3. HInv /\ Whereabouts => NoHalfArchive
    BY WholeArchive DEF HInv
  <1> QED
    BY <1>1, <1>2, <1>3, HooksStart, HooksKeep, PTL DEF HooksSpec

LEMMA UpkeepRests ==
    ASSUME Upkeep, UNCHANGED <<taskVars, gitVars, sessionVars, win, mishaps, made,
                               crossed, broken, adrift, owed>>
    PROVE  Upkeep'
  <1>1. UNCHANGED <<active, archived, win, made, crossed, broken, owed>>
    BY DEF taskVars
  <1>2. Free' = Free /\ \A n \in Names : Id(n)' = Id(n)
    BY <1>1 DEF Free, Id, HasRecord
  <1> QED
    BY <1>1, <1>2, MarksRest, ShelfRests DEF Upkeep

(* With agents at work too, no task is lost or doubled, and the archive    *)
(* holds what the checks of the archive command have accepted.             *)
THEOREM HooksTasksKept == HooksSpec => []TasksKept
  <1>1. HooksInit => Whereabouts /\ Upkeep
    BY WhereaboutsStart, UpkeepStart DEF HooksInit
  <1>2. HInv /\ Whereabouts /\ Upkeep /\ [HooksNext]_allVars => Whereabouts' /\ Upkeep'
    <2> SUFFICES ASSUME HInv, Whereabouts, Upkeep, [HooksNext]_allVars
                 PROVE  Whereabouts' /\ Upkeep'
      OBVIOUS
    <2>1. CASE [Next]_vars
      BY <2>1, WhereaboutsKeep, UpkeepKeeps DEF HInv
    <2>2. CASE UNCHANGED allVars
      BY <2>2, WhereaboutsKeep, UpkeepKeeps DEF HInv, allVars
    <2> QED
      BY <2>1, <2>2, HooksOnlyCount, WhereaboutsRest, UpkeepRests DEF HInv
  <1>3. HInv /\ Whereabouts /\ Upkeep => TasksKept
    BY UpkeepShows DEF HInv
  <1> QED
    BY <1>1, <1>2, <1>3, HooksStart, HooksKeep, PTL DEF HooksSpec

(* With agents at work too, no task drops out of what is listed.           *)
THEOREM HooksTasksListed == HooksSpec => []TasksListed
  <1> DEFINE Inv == Whereabouts /\ Upkeep /\ LinksInv
  <1>1. HooksInit => Inv
    BY WhereaboutsStart, UpkeepStart, LinksStart DEF HooksInit
  <1>2. HInv /\ Inv /\ [HooksNext]_allVars => Inv'
    <2> SUFFICES ASSUME HInv, Inv, [HooksNext]_allVars
                 PROVE  Inv'
      OBVIOUS
    <2>1. CASE [Next]_vars
      BY <2>1, WhereaboutsKeep, UpkeepKeeps, LinksKeep DEF HInv
    <2>2. CASE UNCHANGED allVars
      BY <2>2, WhereaboutsKeep, UpkeepKeeps, LinksKeep DEF HInv, allVars
    <2>3. CASE UNCHANGED <<taskVars, gitVars, sessionVars, win, mishaps, made, crossed,
                           broken, adrift, owed>>
      <3>1. UNCHANGED <<active, archived, win, crossed, broken>>
        BY <2>3 DEF taskVars
      <3>2. LinksInv'
        BY <3>1, LinksStay DEF HInv, Whereabouts
      <3> QED
        BY <2>3, <3>2, WhereaboutsRest, UpkeepRests DEF HInv
    <2> QED
      BY <2>1, <2>2, <2>3, HooksOnlyCount
  <1>3. HInv /\ Inv => TasksListed
    BY LinksShow DEF HInv
  <1> HIDE DEF Inv
  <1> QED
    BY <1>1, <1>2, <1>3, HooksStart, HooksKeep, PTL DEF HooksSpec

(* With agents at work too, the records of tasks at rest agree with each   *)
(* other: what an agent reads writes none of them.                         *)
THEOREM HooksReferencesAgree == HooksSpec => []ReferencesAgree
  <1> DEFINE Inv == Whereabouts /\ Upkeep /\ LinksInv /\ RefsInv
  <1>1. HooksInit => Inv
    BY WhereaboutsStart, UpkeepStart, LinksStart, RefsStart DEF HooksInit
  <1>2. HInv /\ Inv /\ [HooksNext]_allVars => Inv'
    <2> SUFFICES ASSUME HInv, Inv, [HooksNext]_allVars
                 PROVE  Inv'
      OBVIOUS
    <2>1. CASE [Next]_vars
      BY <2>1, WhereaboutsKeep, UpkeepKeeps, LinksKeep, RefsKeep DEF HInv
    <2>2. CASE UNCHANGED allVars
      BY <2>2, WhereaboutsKeep, UpkeepKeeps, LinksKeep, RefsKeep DEF HInv, allVars
    <2>3. CASE UNCHANGED <<taskVars, gitVars, sessionVars, win, mishaps, made, crossed,
                           broken, adrift, owed>>
      <3>1. UNCHANGED <<active, archived, win, crossed, broken>>
        BY <2>3 DEF taskVars
      <3>2. LinksInv' /\ RefsInv'
        BY <3>1, LinksStay, RefsStay DEF HInv, Whereabouts
      <3> QED
        BY <2>3, <3>2, WhereaboutsRest, UpkeepRests DEF HInv
    <2> QED
      BY <2>1, <2>2, <2>3, HooksOnlyCount
  <1>3. HInv /\ Inv => ReferencesAgree
    BY ReferencesShow DEF HInv, Upkeep
  <1> HIDE DEF Inv
  <1> QED
    BY <1>1, <1>2, <1>3, HooksStart, HooksKeep, PTL DEF HooksSpec

-----------------------------------------------------------------------------
(* What an agent is told.  An item that is still to be read accounts for   *)
(* what it holds: the agent has been told of everything else of its task.  *)

Due(e) ==
    IF e.kind = "folder"
    THEN {Lists(e)[j] : j \in {k \in DOMAIN Lists(e) : k <= MaxFiles}}
    ELSE IF Holds(e) # None THEN {e} ELSE {}
DueOf(s) == UNION {Due(s[j]) : j \in DOMAIN s}

\* No two items of the list account for the same file.
Disjoint(s) == \A j, k \in DOMAIN s : j # k => Due(s[j]) \cap Due(s[k]) = {}

LEMMA DueOfParts ==
    ASSUME NEW T, NEW s \in Seq(T), NEW t \in Seq(T)
    PROVE  DueOf(s \o t) = DueOf(s) \cup DueOf(t)
  <1> DEFINE u == s \o t
  <1>1. /\ Len(s) \in Nat /\ Len(t) \in Nat /\ DOMAIN s = 1..Len(s) /\ DOMAIN t = 1..Len(t)
        /\ DOMAIN u = 1..(Len(s) + Len(t))
        /\ \A j \in DOMAIN u : u[j] = IF j <= Len(s) THEN s[j] ELSE t[j - Len(s)]
    OBVIOUS
  <1> HIDE DEF u
  <1>2. ASSUME NEW x, x \in DueOf(u)
        PROVE  x \in DueOf(s) \cup DueOf(t)
    <2>1. PICK j \in DOMAIN u : x \in Due(u[j])
      BY <1>2 DEF DueOf
    <2>2. CASE j <= Len(s)
      <3>1. j \in DOMAIN s /\ u[j] = s[j]
        BY <1>1, <2>2
      <3> QED
        BY <2>1, <3>1 DEF DueOf
    <2>3. CASE ~(j <= Len(s))
      <3>1. j - Len(s) \in DOMAIN t /\ u[j] = t[j - Len(s)]
        BY <1>1, <2>3
      <3> QED
        BY <2>1, <3>1 DEF DueOf
    <2> QED
      BY <2>2, <2>3
  <1>3. ASSUME NEW x, x \in DueOf(s)
        PROVE  x \in DueOf(u)
    <2>1. PICK j \in DOMAIN s : x \in Due(s[j])
      BY <1>3 DEF DueOf
    <2>2. j \in DOMAIN u /\ u[j] = s[j]
      BY <1>1
    <2> QED
      BY <2>1, <2>2 DEF DueOf
  <1>4. ASSUME NEW x, x \in DueOf(t)
        PROVE  x \in DueOf(u)
    <2>1. PICK j \in DOMAIN t : x \in Due(t[j])
      BY <1>4 DEF DueOf
    <2>2. j + Len(s) \in DOMAIN u /\ u[j + Len(s)] = t[j]
      BY <1>1
    <2> QED
      BY <2>1, <2>2 DEF DueOf
  <1> QED
    BY <1>2, <1>3, <1>4 DEF u

LEMMA DisjointParts ==
    ASSUME NEW T, NEW s \in Seq(T), NEW t \in Seq(T),
           Disjoint(s), Disjoint(t), DueOf(s) \cap DueOf(t) = {}
    PROVE  Disjoint(s \o t)
  <1> DEFINE u == s \o t
  <1>1. /\ Len(s) \in Nat /\ Len(t) \in Nat /\ DOMAIN s = 1..Len(s) /\ DOMAIN t = 1..Len(t)
        /\ DOMAIN u = 1..(Len(s) + Len(t))
        /\ \A j \in DOMAIN u : u[j] = IF j <= Len(s) THEN s[j] ELSE t[j - Len(s)]
    OBVIOUS
  <1> HIDE DEF u
  <1>2. ASSUME NEW j \in DOMAIN u, NEW k \in DOMAIN u, j < k
        PROVE  Due(u[j]) \cap Due(u[k]) = {}
    <2>1. CASE k <= Len(s)
      <3>1. j \in DOMAIN s /\ k \in DOMAIN s /\ u[j] = s[j] /\ u[k] = s[k] /\ j # k
        BY <1>1, <1>2, <2>1
      <3> QED
        BY <3>1 DEF Disjoint
    <2>2. CASE j > Len(s)
      <3>1. /\ j - Len(s) \in DOMAIN t /\ k - Len(s) \in DOMAIN t /\ j - Len(s) # k - Len(s)
            /\ u[j] = t[j - Len(s)] /\ u[k] = t[k - Len(s)]
        BY <1>1, <1>2, <2>2
      <3> QED
        BY <3>1 DEF Disjoint
    <2>3. CASE j <= Len(s) /\ k > Len(s)
      <3>1. /\ j \in DOMAIN s /\ k - Len(s) \in DOMAIN t
            /\ u[j] = s[j] /\ u[k] = t[k - Len(s)]
        BY <1>1, <1>2, <2>3
      <3>2. Due(u[j]) \subseteq DueOf(s) /\ Due(u[k]) \subseteq DueOf(t)
        BY <3>1 DEF DueOf
      <3> QED
        BY <3>2
    <2>4. j \in Nat /\ k \in Nat
      BY <1>1
    <2> QED
      BY <1>1, <2>1, <2>2, <2>3, <2>4
  <1>3. \A j, k \in DOMAIN u : j # k => j < k \/ k < j
    BY <1>1
  <1> QED
    BY <1>2, <1>3 DEF Disjoint, u

\* The rest of a list, and what its first item accounts for.
LEMMA DueOfTail ==
    ASSUME NEW T, NEW s \in Seq(T), s # <<>>
    PROVE  /\ Head(s) \in T /\ Tail(s) \in Seq(T)
           /\ DueOf(s) = Due(Head(s)) \cup DueOf(Tail(s))
           /\ Disjoint(s) => Disjoint(Tail(s)) /\ Due(Head(s)) \cap DueOf(Tail(s)) = {}
           /\ \A j \in DOMAIN Tail(s) : \E k \in DOMAIN s : Tail(s)[j] = s[k]
  <1> DEFINE t == Tail(s)
  <1>1. /\ Len(s) \in Nat \ {0} /\ DOMAIN s = 1..Len(s) /\ DOMAIN t = 1..(Len(s) - 1)
        /\ \A j \in DOMAIN t : t[j] = s[j + 1]
        /\ Head(s) = s[1] /\ Head(s) \in T /\ t \in Seq(T)
    OBVIOUS
  <1> HIDE DEF t
  <1>2. /\ 1 \in DOMAIN s
        /\ \A j \in DOMAIN t : j + 1 \in DOMAIN s /\ j + 1 # 1
        /\ \A j, k \in DOMAIN t : j # k => j + 1 # k + 1
        /\ \A j \in DOMAIN s : j = 1 \/ (j - 1 \in DOMAIN t /\ t[j - 1] = s[j])
    BY <1>1
  <1>3. DueOf(s) = Due(Head(s)) \cup DueOf(t)
    <2>1. DueOf(t) \subseteq DueOf(s) /\ Due(Head(s)) \subseteq DueOf(s)
      BY <1>1, <1>2 DEF DueOf
    <2>2. ASSUME NEW x \in DueOf(s)
          PROVE  x \in Due(Head(s)) \cup DueOf(t)
      <3>1. PICK j \in DOMAIN s : x \in Due(s[j])
        BY DEF DueOf
      <3> QED
        BY <1>1, <1>2, <3>1 DEF DueOf
    <2> QED
      BY <2>1, <2>2
  <1>4. ASSUME Disjoint(s)
        PROVE  Disjoint(t) /\ Due(Head(s)) \cap DueOf(t) = {}
    <2>1. Disjoint(t)
      BY <1>1, <1>2, <1>4 DEF Disjoint
    <2>2. \A j \in DOMAIN t : Due(Head(s)) \cap Due(t[j]) = {}
      BY <1>1, <1>2, <1>4 DEF Disjoint
    <2> QED
      BY <2>1, <2>2 DEF DueOf
  <1> QED
    BY <1>1, <1>2, <1>3, <1>4 DEF t

\* An item that is no folder accounts for itself, if it is there.
LEMMA DueOfFiles ==
    ASSUME NEW T, NEW s \in Seq(T),
           \A j \in DOMAIN s : s[j].kind # "folder" /\ Holds(s[j]) # None,
           \A j, k \in DOMAIN s : s[j] = s[k] => j = k
    PROVE  /\ DueOf(s) = {s[j] : j \in DOMAIN s}
           /\ Disjoint(s)
  <1>1. \A j \in DOMAIN s : Due(s[j]) = {s[j]}
    BY DEF Due
  <1> QED
    BY <1>1 DEF DueOf, Disjoint

\* What is read of a folder is what it accounts for.
LEMMA FolderIs ==
    ASSUME NEW e \in P!Item, e.kind = "folder", MaxFiles \in Nat
    PROVE  LET s == Lists(e)
               first == SubSeq(s, 1, IF Len(s) < MaxFiles THEN Len(s) ELSE MaxFiles)
           IN  /\ first \in Seq(P!File)
               /\ DueOf(first) = Due(e) /\ Disjoint(first)
               /\ \A j \in DOMAIN first : first[j].dir = e.dir /\ first[j].kind = "file"
  <1> DEFINE s == Lists(e)
             m == IF Len(s) < MaxFiles THEN Len(s) ELSE MaxFiles
             first == SubSeq(s, 1, m)
             f == FilesIn[e.name]
  <1>1. s \in Seq(P!File) /\ Len(s) \in Nat /\ DOMAIN s = 1..Len(s)
    BY ListedIs
  <1>2. m \in Nat /\ m <= Len(s) /\ m <= MaxFiles
    BY <1>1
  <1>3. f \in Seq(FileNames) /\ e.name \in FileNames
    BY HooksAssumption DEF HooksAssumption, P!Item
  <1>4. \A j \in DOMAIN s : /\ HasRecord(e.dir) /\ j \in DOMAIN f
                            /\ s[j] = [kind |-> "file", dir |-> e.dir, name |-> f[j]]
    BY DEF Lists, ItemsOf, Item
  <1> HIDE DEF s
  <1>5. /\ first \in Seq(P!File) /\ DOMAIN first = 1..m
        /\ \A j \in DOMAIN first : first[j] = s[j] /\ j \in DOMAIN s
    BY <1>1, <1>2
  <1> HIDE DEF first
  <1>6. \A j \in DOMAIN s : /\ s[j].kind = "file" /\ s[j].dir = e.dir /\ s[j].name = f[j]
                            /\ Holds(s[j]) # None
    BY <1>3, <1>4, Listings DEF Listings, Holds
  <1>7. \A j, k \in DOMAIN s : s[j] = s[k] => j = k
    <2> SUFFICES ASSUME NEW j \in DOMAIN s, NEW k \in DOMAIN s, s[j] = s[k]
                 PROVE  j = k
      OBVIOUS
    <2>1. f[j] = f[k] /\ j \in DOMAIN f /\ k \in DOMAIN f
      BY <1>4, <1>6
    <2> QED
      BY <1>3, <2>1, Listings DEF Listings
  <1>8. DueOf(first) = {first[j] : j \in DOMAIN first} /\ Disjoint(first)
    <2>1. \A j \in DOMAIN first : first[j].kind # "folder" /\ Holds(first[j]) # None
      BY <1>5, <1>6
    <2>2. \A j, k \in DOMAIN first : first[j] = first[k] => j = k
      BY <1>5, <1>7
    <2> QED
      BY <1>5, <2>1, <2>2, DueOfFiles
  <1>9. Due(e) = {s[j] : j \in {k \in DOMAIN s : k <= MaxFiles}}
    BY DEF Due, s
  <1>10. DOMAIN first = {k \in DOMAIN s : k <= MaxFiles}
    BY <1>1, <1>2, <1>5
  <1>11. Due(e) = {first[j] : j \in DOMAIN first}
    BY <1>5, <1>9, <1>10
  <1> QED
    BY <1>5, <1>6, <1>8, <1>11 DEF s, first, m

\* What is due is what the lists account for.
LEMMA DueEntriesAre ==
    ASSUME IInv, NEW n
    PROVE  /\ DueEntries(n) = DueOf(Entries(n))
           /\ \A j \in DOMAIN Entries(n) : /\ Entries(n)[j].kind # "artifact"
                                           /\ Entries(n)[j].dir \in Sources(n)
           /\ \A e \in DueEntries(n) : e.kind # "artifact"
  <1> DEFINE s == Entries(n)
             entries == {s[j] : j \in DOMAIN s}
             folders == {e \in entries : e.kind = "folder"}
  <1>1. s \in Seq(P!Item)
    BY EntriesAre
  <1>2. \A j \in DOMAIN s : s[j] \in P!Item
    BY <1>1
  <1>3. \A j \in DOMAIN s : s[j].kind # "artifact" /\ s[j].dir \in Sources(n)
    <2> SUFFICES ASSUME NEW j \in DOMAIN s
                 PROVE  s[j].kind # "artifact" /\ s[j].dir \in Sources(n)
      OBVIOUS
    <2>1. CASE HasRecord(n) /\ active[n].manifest # None
      <3>1. /\ j \in DOMAIN Curated.names
            /\ s[j] = Item(active[n].manifest, Curated.names[j], Curated.kinds[j])
        BY <2>1 DEF Entries, ItemsOf
      <3>2. Curated.kinds[j] \in {"file", "folder"}
        BY <3>1, HooksAssumption DEF HooksAssumption
      <3>3. active[n].manifest \in Sources(n)
        BY <2>1 DEF Sources
      <3> HIDE DEF s
      <3> QED
        BY <3>1, <3>2, <3>3 DEF Item
    <2>2. CASE ~(HasRecord(n) /\ active[n].manifest # None)
      <3>1. s = <<>>
        BY <2>2 DEF Entries
      <3> HIDE DEF s
      <3> QED
        BY <3>1
    <2> QED
      BY <2>1, <2>2
  <1>4. DueEntries(n) = {e \in entries \ folders : Holds(e) # None}
                            \cup UNION {{Lists(e)[j] : j \in {k \in DOMAIN Lists(e) : k <= MaxFiles}} : e \in folders}
    BY DEF DueEntries
  <1> HIDE DEF s
  <1>5. \A e \in entries : e \in folders => Due(e) = {Lists(e)[j] : j \in {k \in DOMAIN Lists(e) : k <= MaxFiles}}
    BY DEF Due
  <1>6. \A e \in entries : e \notin folders => Due(e) = IF Holds(e) # None THEN {e} ELSE {}
    BY DEF Due
  <1>7. DueEntries(n) = UNION {Due(e) : e \in entries}
    <2>1. UNION {{Lists(e)[j] : j \in {k \in DOMAIN Lists(e) : k <= MaxFiles}} : e \in folders}
              = UNION {Due(e) : e \in folders}
      BY <1>5
    <2>2. {e \in entries \ folders : Holds(e) # None} = UNION {Due(e) : e \in entries \ folders}
      BY <1>6
    <2>3. UNION {Due(e) : e \in entries}
              = (UNION {Due(e) : e \in entries \ folders}) \cup UNION {Due(e) : e \in folders}
      OBVIOUS
    <2> QED
      BY <1>4, <2>1, <2>2, <2>3
  <1>8. DueOf(s) = UNION {Due(e) : e \in entries}
    BY DEF DueOf
  <1>9. ASSUME NEW e \in DueEntries(n)
        PROVE  e.kind # "artifact"
    <2>1. PICK j \in DOMAIN s : e \in Due(s[j])
      BY <1>7
    <2>2. CASE s[j].kind = "folder"
      <3>1. Lists(s[j]) \in Seq(P!File)
        BY <1>2, ListedIs
      <3>2. \E k \in DOMAIN Lists(s[j]) : e = Lists(s[j])[k]
        BY <2>1, <2>2 DEF Due
      <3>3. e \in P!File
        BY <3>1, <3>2
      <3> QED
        BY <3>3 DEF P!File
    <2>3. CASE s[j].kind # "folder"
      BY <1>3, <2>1, <2>3 DEF Due
    <2> QED
      BY <2>2, <2>3
  <1> QED
    BY <1>3, <1>7, <1>8, <1>9 DEF s

LEMMA DueArtifactsAre ==
    ASSUME NEW n \in Names
    PROVE  /\ DueArtifacts(n) = DueOf(ArtifactsOf(n)) /\ Disjoint(ArtifactsOf(n))
           /\ \A j \in DOMAIN ArtifactsOf(n) :
                 /\ ArtifactsOf(n)[j].kind = "artifact" /\ ArtifactsOf(n)[j].dir = n
           /\ \A e \in DueArtifacts(n) : e.kind = "artifact"
  <1> DEFINE s == ArtifactsOf(n)
  <1>1. /\ DOMAIN s = DOMAIN Artifacts
        /\ \A j \in DOMAIN s : s[j] = [kind |-> "artifact", dir |-> n, name |-> Artifacts[j]]
    BY DEF ArtifactsOf, ItemsOf, Item
  <1>2. DueArtifacts(n) = {e \in {s[j] : j \in DOMAIN s} : Holds(e) # None}
    BY <1>1 DEF DueArtifacts
  <1> HIDE DEF s
  <1>3. \A j \in DOMAIN s : s[j].kind = "artifact" /\ s[j].dir = n /\ s[j].name = Artifacts[j]
    BY <1>1
  <1>4. \A j \in DOMAIN s : Due(s[j]) = IF Holds(s[j]) # None THEN {s[j]} ELSE {}
    BY <1>3 DEF Due
  <1>5. \A j, k \in DOMAIN s : s[j] = s[k] => j = k
    <2> SUFFICES ASSUME NEW j \in DOMAIN s, NEW k \in DOMAIN s, s[j] = s[k]
                 PROVE  j = k
      OBVIOUS
    <2>1. Artifacts[j] = Artifacts[k]
      BY <1>3
    <2> QED
      BY <1>1, <2>1, Listings DEF Listings
  <1>6. Disjoint(s)
    <2> SUFFICES ASSUME NEW j \in DOMAIN s, NEW k \in DOMAIN s, j # k
                 PROVE  Due(s[j]) \cap Due(s[k]) = {}
      BY DEF Disjoint
    <2>1. s[j] # s[k]
      BY <1>5
    <2> QED
      BY <1>4, <2>1
  <1>7. DueArtifacts(n) = DueOf(s)
    BY <1>2, <1>4 DEF DueOf
  <1>8. \A e \in DueArtifacts(n) : e.kind = "artifact"
    BY <1>2, <1>3
  <1> QED
    BY <1>3, <1>6, <1>7, <1>8 DEF s

\* Nothing is due twice of a manifest that names nothing twice.
LEMMA EntriesDisjoint ==
    ASSUME IInv, NamedOnce, NEW n
    PROVE  Disjoint(Entries(n))
  <1> DEFINE s == Entries(n)
  <1> SUFFICES ASSUME NEW j \in DOMAIN s, NEW k \in DOMAIN s, j # k,
                      NEW x \in Due(s[j]), x \in Due(s[k])
               PROVE  FALSE
    BY DEF Disjoint
  <1>1. CASE HasRecord(n) /\ active[n].manifest # None
    <2> DEFINE m == active[n].manifest
    <2>1. /\ DOMAIN s = DOMAIN Curated.names
          /\ \A i \in DOMAIN s : s[i] = [kind |-> Curated.kinds[i], dir |-> m, name |-> Curated.names[i]]
      BY <1>1 DEF Entries, ItemsOf, Item
    <2> HIDE DEF s, m
    <2>2. ASSUME NEW i \in DOMAIN s, x \in Due(s[i])
          PROVE  x.name \in Named(i)
      <3>0. s[i] = [kind |-> Curated.kinds[i], dir |-> m, name |-> Curated.names[i]]
        BY <2>1
      <3>1. s[i].kind = Curated.kinds[i] /\ s[i].name = Curated.names[i]
        BY <3>0
      <3>2. CASE Curated.kinds[i] = "folder"
        <4>1. PICK l \in DOMAIN Lists(s[i]) : l <= MaxFiles /\ x = Lists(s[i])[l]
          BY <2>2, <3>1, <3>2 DEF Due
        <4>2. /\ l \in DOMAIN FilesIn[Curated.names[i]]
              /\ x = [kind |-> "file", dir |-> s[i].dir, name |-> FilesIn[Curated.names[i]][l]]
          BY <3>1, <4>1 DEF Lists, ItemsOf, Item
        <4>3. x.name = FilesIn[Curated.names[i]][l]
          BY <4>2
        <4> QED
          BY <3>2, <4>1, <4>2, <4>3 DEF Named
      <3>3. CASE Curated.kinds[i] # "folder"
        <4>1. x = s[i]
          BY <2>2, <3>1, <3>3 DEF Due
        <4> QED
          BY <3>1, <3>3, <4>1 DEF Named
      <3> QED
        BY <3>2, <3>3
    <2>3. x.name \in Named(j) \cap Named(k)
      BY <2>2
    <2> QED
      BY <2>1, <2>3 DEF NamedOnce
  <1>2. CASE ~(HasRecord(n) /\ active[n].manifest # None)
    <2>1. s = <<>>
      BY <1>2 DEF Entries
    <2> HIDE DEF s
    <2> QED
      BY <2>1
  <1> QED
    BY <1>1, <1>2

-----------------------------------------------------------------------------
(* The inductive invariant: an agent whose task no command has moved has   *)
(* been told of what its task accounts for, but for what is still to be    *)
(* read.                                                                   *)

ToldItems == {blocks[j].item : j \in Told}

Accounted(due) ==
    /\ ToldItems \cup DueOf(todo) = due
    /\ NamedOnce =>
          /\ Disjoint(todo) /\ ToldItems \cap DueOf(todo) = {}
          /\ \A j, k \in Told : j # k => blocks[j].item # blocks[k].item

OnEntries(n) ==
    /\ Accounted(DueEntries(n))
    /\ Told = DOMAIN blocks
    /\ \A j \in DOMAIN todo : todo[j].kind # "artifact" /\ todo[j].dir \in Sources(n)

OnArtifacts(n) ==
    /\ Accounted(DueEntries(n) \cup DueArtifacts(n))
    /\ \A j, k \in Told : j < k /\ blocks[k].item \in DueEntries(n) => blocks[j].item \in DueEntries(n)
    /\ Told = DOMAIN blocks <=> DueEntries(n) # {}
    /\ \A j \in DOMAIN todo : todo[j].kind = "artifact" /\ todo[j].dir = n

Progress ==
    /\ phase = "idle" => todo = <<>> /\ blocks = <<>>
    /\ agent # NoAgent /\ ~agent.raced =>
          /\ phase = "entries" => OnEntries(agent.task)
          /\ phase = "artifacts" => OnArtifacts(agent.task)

\* What an agent is to be told of stays the same unless the agent is raced.
LEMMA SameView ==
    ASSUME IInv, IInv', NEW n \in Names, View(n)' = View(n)
    PROVE  /\ Sources(n)' = Sources(n) /\ Entries(n)' = Entries(n)
           /\ \A e : e.dir \in Sources(n) =>
                 Holds(e)' = Holds(e) /\ Lists(e)' = Lists(e) /\ Due(e)' = Due(e)
  <1> DEFINE M(m) == IF HasRecord(m) THEN active[m].manifest ELSE None
  <1>1. View(n) = {<<m, M(m), HasRecord(m)>> : m \in Sources(n)}
    BY DEF View
  <1>2. View(n)' = {<<m, M(m)', HasRecord(m)'>> : m \in Sources(n)'}
    BY DEF View
  <1> HIDE DEF M
  <1>3. \A m \in Sources(n) : M(m)' = M(m) /\ HasRecord(m)' = HasRecord(m) /\ m \in Sources(n)'
    <2> SUFFICES ASSUME NEW m \in Sources(n)
                 PROVE  M(m)' = M(m) /\ HasRecord(m)' = HasRecord(m) /\ m \in Sources(n)'
      OBVIOUS
    <2>1. <<m, M(m), HasRecord(m)>> \in View(n)'
      BY <1>1
    <2>2. PICK p \in Sources(n)' : <<m, M(m), HasRecord(m)>> = <<p, M(p)', HasRecord(p)'>>
      BY <1>2, <2>1
    <2>3. m = p /\ M(m) = M(p)' /\ HasRecord(m) = HasRecord(p)'
      BY <2>2
    <2> QED
      BY <2>3
  <1>4. n \in Sources(n)
    BY DEF Sources
  <1>5. M(n)' = M(n) /\ HasRecord(n)' = HasRecord(n)
    BY <1>3, <1>4
  <1>6. Sources(n)' = Sources(n)
    <2>1. HasRecord(n) => M(n) = active[n].manifest
      BY DEF M
    <2>2. HasRecord(n)' => M(n)' = active'[n].manifest
      BY DEF M
    <2> QED
      BY <1>5, <2>1, <2>2 DEF Sources
  <1>7. Entries(n)' = Entries(n)
    <2>1. HasRecord(n) => M(n) = active[n].manifest
      BY DEF M
    <2>2. HasRecord(n)' => M(n)' = active'[n].manifest
      BY DEF M
    <2> QED
      BY <1>5, <2>1, <2>2 DEF Entries
  <1>8. ASSUME NEW e, e.dir \in Sources(n)
        PROVE  Holds(e)' = Holds(e) /\ Lists(e)' = Lists(e) /\ Due(e)' = Due(e)
    <2>1. HasRecord(e.dir)' = HasRecord(e.dir)
      BY <1>3, <1>8
    <2>2. Holds(e)' = Holds(e) /\ Lists(e)' = Lists(e)
      BY <2>1, Zenon DEF Holds, Lists
    <2> QED
      BY <2>2 DEF Due
  <1> QED
    BY <1>6, <1>7, <1>8

LEMMA ProgressRests ==
    ASSUME IInv, IInv', Progress, AgentOK,
           UNCHANGED <<phase, todo, blocks>>,
           \/ agent' = agent /\ \A n \in {agent.task} \ {None} : View(n)' = View(n)
           \/ agent'.raced
    PROVE  Progress'
  <1>1. CASE agent' # NoAgent /\ ~agent'.raced /\ agent' = agent /\ \A n \in {agent.task} \ {None} : View(n)' = View(n)
    <2>1. PICK n \in Names : n = agent.task /\ n # None
      BY <1>1, TasksAssumption DEF TasksAssumption, AgentOK
    <2>2. View(n)' = View(n)
      BY <1>1, <2>1
    <2>3. /\ Sources(n)' = Sources(n) /\ Entries(n)' = Entries(n) /\ n \in Sources(n)
          /\ \A e : e.dir \in Sources(n) =>
                Holds(e)' = Holds(e) /\ Lists(e)' = Lists(e) /\ Due(e)' = Due(e)
      BY <2>2, SameView DEF Sources
    <2>4. DueEntries(n)' = DueEntries(n)
      <3>1. \A j \in DOMAIN Entries(n) : Entries(n)[j].dir \in Sources(n)
        BY DueEntriesAre
      <3>2. \A e \in {Entries(n)[j] : j \in DOMAIN Entries(n)} :
                Holds(e)' = Holds(e) /\ Lists(e)' = Lists(e)
        BY <2>3, <3>1
      <3> QED
        BY <2>3, <3>2 DEF DueEntries
    <2>5. DueArtifacts(n)' = DueArtifacts(n)
      <3>1. \A j \in DOMAIN Artifacts : j \in DOMAIN ArtifactsOf(n) /\ ArtifactsOf(n)[j].dir = n
        BY DEF ArtifactsOf, ItemsOf, Item
      <3>2. \A e \in {ArtifactsOf(n)[j] : j \in DOMAIN Artifacts} : Holds(e)' = Holds(e)
        BY <2>3, <3>1
      <3>3. (ArtifactsOf(n))' = ArtifactsOf(n)
        BY DEF ArtifactsOf, ItemsOf
      <3> QED
        BY <3>2, <3>3 DEF DueArtifacts
    <2>6. /\ Told' = Told /\ ToldItems' = ToldItems
      BY DEF Told, ToldItems
    <2>7. ASSUME \A j \in DOMAIN todo : todo[j].dir \in Sources(n)
          PROVE  DueOf(todo)' = DueOf(todo) /\ (Disjoint(todo) => Disjoint(todo)')
      <3>1. \A j \in DOMAIN todo : Due(todo[j])' = Due(todo[j])
        BY <2>3, <2>7
      <3> QED
        BY <3>1 DEF DueOf, Disjoint
    <2>8. ASSUME OnEntries(n)
          PROVE  OnEntries(n)'
      BY <2>3, <2>4, <2>6, <2>7, <2>8 DEF OnEntries, Accounted
    <2>9. ASSUME OnArtifacts(n)
          PROVE  OnArtifacts(n)'
      <3>1. n \in Sources(n)
        BY DEF Sources
      <3> QED
        BY <2>4, <2>5, <2>6, <2>7, <2>9, <3>1 DEF OnArtifacts, Accounted
    <2> QED
      BY <1>1, <2>1, <2>8, <2>9 DEF Progress
  <1>2. CASE ~(agent' # NoAgent /\ ~agent'.raced)
    BY <1>2 DEF Progress
  <1>3. agent'.raced => ~(agent' # NoAgent /\ ~agent'.raced)
    OBVIOUS
  <1> QED
    BY <1>1, <1>2, <1>3

\* A step about one item tells of what it accounts for, and of nothing else.
LEMMA TakeFileTells ==
    ASSUME HInv, todo # <<>>, Head(todo).kind # "folder",
           I!Materialize(Holds(Head(todo)))
    PROVE  \/ Due(Head(todo)) = {} /\ blocks' = blocks
           \/ /\ Due(Head(todo)) = {Head(todo)}
              /\ \E b : /\ b.item = Head(todo) /\ b # I!Uncurated
                        /\ blocks' = Append(blocks, b)
  <1> DEFINE e == Head(todo)
             data == Holds(e)
  <1>1. Due(e) = IF data # None THEN {e} ELSE {}
    BY DEF Due
  <1>2. \A how, d : \A i : I!Block(i, how, d).item = i /\ I!Block(i, how, d).how = how
    BY DEF I!Block
  <1>3. I!Uncurated.how = "uncurated"
    BY DEF I!Uncurated
  <1>4. CASE data = None
    <2>1. blocks' = blocks
      BY <1>4 DEF I!Materialize
    <2> QED
      BY <1>1, <1>4, <2>1
  <1>5. CASE data # None
    <2>1. \/ I!Notice("binary", data) \/ I!Notice("full", data) \/ I!Inline(data)
      BY <1>5 DEF I!Materialize
    <2> HIDE DEF data
    <2>2. \E how \in {"binary", "full", "inlined"} : blocks' = Append(blocks, I!Block(e, how, data))
      BY <2>1 DEF I!Notice, I!Inline
    <2>3. PICK how \in {"binary", "full", "inlined"} : blocks' = Append(blocks, I!Block(e, how, data))
      BY <2>2
    <2>4. I!Block(e, how, data).item = e /\ I!Block(e, how, data) # I!Uncurated
      BY <1>2, <1>3
    <2> QED
      BY <1>1, <1>5, <2>3, <2>4
  <1> QED
    BY <1>4, <1>5

\* What a further block about an item adds.
LEMMA ToldMore ==
    ASSUME NEW T, blocks \in Seq(T), NEW b \in T, b # I!Uncurated, blocks' = Append(blocks, b)
    PROVE  /\ DOMAIN blocks = 1..Len(blocks) /\ DOMAIN blocks' = 1..(Len(blocks) + 1)
           /\ Len(blocks) \in Nat
           /\ \A j \in DOMAIN blocks : blocks'[j] = blocks[j]
           /\ blocks'[Len(blocks) + 1] = b
           /\ Told' = Told \cup {Len(blocks) + 1} /\ Told \subseteq DOMAIN blocks
           /\ ToldItems' = ToldItems \cup {b.item}
  <1>1. /\ DOMAIN blocks = 1..Len(blocks) /\ DOMAIN blocks' = 1..(Len(blocks) + 1)
        /\ Len(blocks) \in Nat
        /\ \A j \in DOMAIN blocks : blocks'[j] = blocks[j]
        /\ blocks'[Len(blocks) + 1] = b
    OBVIOUS
  <1>2. DOMAIN blocks' = DOMAIN blocks \cup {Len(blocks) + 1}
    BY <1>1
  <1>3. Told' = Told \cup {Len(blocks) + 1} /\ Told \subseteq DOMAIN blocks
    BY <1>1, <1>2 DEF Told
  <1>4. ToldItems' = ToldItems \cup {b.item}
    BY <1>1, <1>3 DEF ToldItems
  <1> QED
    BY <1>1, <1>3, <1>4

\* A step of the hook changes nothing that is due.
LEMMA HookSees ==
    ASSUME UNCHANGED vars
    PROVE  /\ \A e : Holds(e)' = Holds(e) /\ Lists(e)' = Lists(e) /\ Due(e)' = Due(e)
           /\ \A n : /\ Sources(n)' = Sources(n) /\ Entries(n)' = Entries(n)
                      /\ DueEntries(n)' = DueEntries(n) /\ DueArtifacts(n)' = DueArtifacts(n)
           /\ (DueOf(todo))' = DueOf(todo')
           /\ Disjoint(todo') => Disjoint(todo)'
  <1>1. /\ active' = active /\ \A m : HasRecord(m)' = HasRecord(m)
    BY DEF vars, HasRecord
  <1>2. \A e : Holds(e)' = Holds(e) /\ Lists(e)' = Lists(e)
    BY <1>1, Zenon DEF Holds, Lists
  <1>3. \A e : Due(e)' = Due(e)
    BY <1>2 DEF Due
  <1>4. \A n : Sources(n)' = Sources(n) /\ Entries(n)' = Entries(n)
    BY <1>1 DEF Sources, Entries
  <1>5. \A n : DueEntries(n)' = DueEntries(n)
    BY <1>2, <1>4 DEF DueEntries
  <1>6. \A n : DueArtifacts(n)' = DueArtifacts(n)
    <2>1. \A n : (ArtifactsOf(n))' = ArtifactsOf(n)
      BY DEF ArtifactsOf, ItemsOf
    <2> QED
      BY <1>2, <2>1 DEF DueArtifacts
  <1>7. (DueOf(todo))' = DueOf(todo')
    BY <1>3 DEF DueOf
  <1>8. Disjoint(todo') => Disjoint(todo)'
    BY <1>3 DEF Disjoint
  <1> QED
    BY <1>2, <1>3, <1>4, <1>5, <1>6, <1>7, <1>8

LEMMA ManifestProgress ==
    ASSUME HInv, Progress, ReadManifest
    PROVE  Progress'
  <1>1. /\ phase = "idle" /\ phase' = "entries" /\ todo' = Entries(agent.task)
        /\ UNCHANGED <<vars, agent, blocks>> /\ todo = <<>> /\ blocks = <<>>
    BY DEF ReadManifest, I!Begin, Progress
  <1>2. IInv
    BY DEF HInv
  <1> SUFFICES ASSUME agent # NoAgent, ~agent.raced
               PROVE  OnEntries(agent.task)'
    BY <1>1 DEF Progress
  <1>3. PICK n : n = agent.task
    OBVIOUS
  <1>4. /\ DueEntries(n) = DueOf(Entries(n))
        /\ \A j \in DOMAIN Entries(n) : Entries(n)[j].kind # "artifact" /\ Entries(n)[j].dir \in Sources(n)
    BY <1>2, DueEntriesAre
  <1>5. NamedOnce => Disjoint(Entries(n))
    BY <1>2, EntriesDisjoint
  <1>6. /\ Sources(n)' = Sources(n) /\ DueEntries(n)' = DueEntries(n)
        /\ (DueOf(todo))' = DueOf(Entries(n))
        /\ NamedOnce => Disjoint(todo)'
    BY <1>1, <1>3, <1>5, HookSees
  <1>7. Told' = {} /\ ToldItems' = {} /\ DOMAIN blocks' = {}
    <2>1. DOMAIN blocks' = {}
      BY <1>1
    <2> QED
      BY <2>1 DEF Told, ToldItems
  <1>8. OnEntries(n)'
    BY <1>1, <1>3, <1>4, <1>6, <1>7 DEF OnEntries, Accounted
  <1> QED
    BY <1>1, <1>3, <1>8

LEMMA FileProgress ==
    ASSUME HInv, Progress, todo # <<>>, I!TakeFile(Holds(Head(todo))), UNCHANGED <<vars, agent>>
    PROVE  Progress'
  <1> DEFINE e == Head(todo)
  <1>1. /\ e.kind # "folder" /\ I!Materialize(Holds(e)) /\ todo' = Tail(todo) /\ phase' = phase
        /\ phase # "idle"
    BY DEF I!TakeFile, Progress
  <1>2. /\ todo \in Seq(P!Item) /\ blocks \in Seq(P!Blocks)
    BY DEF HInv, P!IInv, P!TypeOK, P!Blocks
  <1>3. /\ DueOf(todo) = Due(e) \cup DueOf(todo')
        /\ Disjoint(todo) => Disjoint(todo') /\ Due(e) \cap DueOf(todo') = {}
        /\ \A j \in DOMAIN todo' : \E k \in DOMAIN todo : todo'[j] = todo[k]
    BY <1>1, <1>2, DueOfTail
  <1>4. e = todo[1] /\ 1 \in DOMAIN todo
    BY <1>2
  <1> SUFFICES ASSUME agent # NoAgent, ~agent.raced
               PROVE  /\ phase = "entries" => OnEntries(agent.task)'
                      /\ phase = "artifacts" => OnArtifacts(agent.task)'
    BY <1>1 DEF Progress
  <1>5. PICK n : n = agent.task
    OBVIOUS
  <1>6. /\ Sources(n)' = Sources(n) /\ DueEntries(n)' = DueEntries(n) /\ DueArtifacts(n)' = DueArtifacts(n)
        /\ (DueOf(todo))' = DueOf(todo') /\ (Disjoint(todo') => Disjoint(todo)')
    BY HookSees
  <1>7. \/ Due(e) = {} /\ blocks' = blocks
        \/ /\ Due(e) = {e}
           /\ \E b : b.item = e /\ b # I!Uncurated /\ blocks' = Append(blocks, b)
    BY <1>1, TakeFileTells
  <1> HIDE DEF e
  <1>8. CASE Due(e) = {} /\ blocks' = blocks
    <2>1. Told' = Told /\ ToldItems' = ToldItems
      BY <1>8 DEF Told, ToldItems
    <2>2. \A due : Accounted(due) => Accounted(due)'
      BY <1>3, <1>6, <1>8, <2>1 DEF Accounted
    <2> QED
      BY <1>3, <1>5, <1>6, <1>8, <2>1, <2>2 DEF Progress, OnEntries, OnArtifacts
  <1>9. ASSUME Due(e) = {e}, NEW b, b.item = e, b # I!Uncurated, blocks' = Append(blocks, b)
        PROVE  /\ phase = "entries" => OnEntries(n)'
               /\ phase = "artifacts" => OnArtifacts(n)'
    <2> DEFINE z == Len(blocks) + 1
    <2>1. blocks \in Seq(P!Blocks \cup {b})
      BY <1>2, P!SeqOfSubset
    <2>2. /\ DOMAIN blocks = 1..Len(blocks) /\ DOMAIN blocks' = 1..z /\ Len(blocks) \in Nat
          /\ \A j \in DOMAIN blocks : blocks'[j] = blocks[j]
          /\ blocks'[z] = b
          /\ Told' = Told \cup {z} /\ Told \subseteq DOMAIN blocks
          /\ ToldItems' = ToldItems \cup {e}
      BY <1>9, <2>1, ToldMore
    <2>3. z \notin DOMAIN blocks /\ \A j \in DOMAIN blocks : j < z /\ ~(z < j)
      BY <2>2
    <2> HIDE DEF z
    <2>4. e \in DueOf(todo)
      BY <1>3, <1>9
    <2>5. ASSUME NEW due, Accounted(due)
          PROVE  Accounted(due)'
      <3>1. (ToldItems \cup DueOf(todo))' = due
        BY <1>3, <1>6, <1>9, <2>2, <2>5 DEF Accounted
      <3>2. ASSUME NamedOnce
            PROVE  /\ Disjoint(todo)' /\ (ToldItems \cap DueOf(todo))' = {}
                   /\ \A j, k \in Told' : j # k => blocks'[j].item # blocks'[k].item
        <4>1. Disjoint(todo)' /\ (ToldItems \cap DueOf(todo))' = {}
          BY <1>3, <1>6, <1>9, <2>2, <2>5, <3>2 DEF Accounted
        <4>2. \A j \in Told : blocks[j].item # e
          BY <2>4, <2>5, <3>2 DEF Accounted, ToldItems
        <4>3. \A j \in Told : blocks'[j] = blocks[j] /\ j # z
          BY <2>2, <2>3
        <4>4. \A j, k \in Told : j # k => blocks[j].item # blocks[k].item
          BY <2>5, <3>2 DEF Accounted
        <4>5. ASSUME NEW j \in Told', NEW k \in Told', j # k
              PROVE  blocks'[j].item # blocks'[k].item
          <5>1. CASE j \in Told /\ k \in Told
            BY <4>3, <4>4, <4>5, <5>1
          <5>2. CASE j = z
            <6>1. k \in Told /\ blocks'[j].item = e
              BY <1>9, <2>2, <4>5, <5>2
            <6> QED
              BY <4>2, <4>3, <6>1
          <5>3. CASE k = z
            <6>1. j \in Told /\ blocks'[k].item = e
              BY <1>9, <2>2, <4>5, <5>3
            <6> QED
              BY <4>2, <4>3, <6>1
          <5> QED
            BY <2>2, <5>1, <5>2, <5>3
        <4> QED
          BY <4>1, <4>5
      <3> QED
        BY <3>1, <3>2 DEF Accounted
    <2>6. ASSUME OnEntries(n)
          PROVE  OnEntries(n)'
      <3>1. Told' = DOMAIN blocks'
        <4>1. DOMAIN blocks' = DOMAIN blocks \cup {z}
          BY <2>2 DEF z
        <4> QED
          BY <2>2, <2>6, <4>1 DEF OnEntries
      <3>2. Accounted(DueEntries(n))'
        BY <1>6, <2>5, <2>6 DEF OnEntries, Accounted
      <3> QED
        BY <1>3, <1>6, <2>6, <3>1, <3>2 DEF OnEntries
    <2>7. ASSUME OnArtifacts(n), n \in Names
          PROVE  OnArtifacts(n)'
      <3>1. Accounted(DueEntries(n) \cup DueArtifacts(n))'
        BY <1>6, <2>5, <2>7 DEF OnArtifacts, Accounted
      <3>2. e \notin DueEntries(n)
        <4>1. e.kind = "artifact"
          BY <1>4, <2>7 DEF OnArtifacts
        <4> QED
          BY <4>1, DueEntriesAre DEF HInv
      <3>3. ASSUME NEW j \in Told', NEW k \in Told', j < k, blocks'[k].item \in DueEntries(n)
            PROVE  blocks'[j].item \in DueEntries(n)
        <4>1. k # z
          BY <1>9, <2>2, <3>2, <3>3
        <4>2. k \in Told /\ j \in Told
          BY <2>2, <2>3, <3>3, <4>1
        <4> QED
          BY <2>2, <2>7, <3>3, <4>2 DEF OnArtifacts
      <3>4. Told' = DOMAIN blocks' <=> Told = DOMAIN blocks
        <4>1. DOMAIN blocks' = DOMAIN blocks \cup {z} /\ z \notin DOMAIN blocks
          BY <2>2, <2>3 DEF z
        <4> QED
          BY <2>2, <4>1
      <3>5. \A j \in DOMAIN todo' : todo'[j].kind = "artifact" /\ todo'[j].dir = n
        BY <1>3, <2>7 DEF OnArtifacts
      <3> QED
        BY <1>6, <2>7, <3>1, <3>3, <3>4, <3>5 DEF OnArtifacts
    <2>8. n \in Names
      BY <1>5 DEF HInv, AgentOK
    <2> QED
      BY <1>5, <2>6, <2>7, <2>8 DEF Progress
  <1> QED
    BY <1>5, <1>7, <1>8, <1>9

LEMMA FolderProgress ==
    ASSUME HInv, Progress, todo # <<>>, I!TakeFolder(Lists(Head(todo))), UNCHANGED <<vars, agent>>
    PROVE  Progress'
  <1> DEFINE e == Head(todo)
             s == Lists(e)
             first == SubSeq(s, 1, IF Len(s) < MaxFiles THEN Len(s) ELSE MaxFiles)
  <1>1. /\ e.kind = "folder" /\ todo' = first \o Tail(todo) /\ phase' = phase
        /\ blocks' = blocks /\ phase # "idle"
    BY DEF I!TakeFolder, Progress
  <1>2. todo \in Seq(P!Item)
    BY DEF HInv, P!IInv, P!TypeOK
  <1>3. /\ e \in P!Item /\ Tail(todo) \in Seq(P!Item)
        /\ DueOf(todo) = Due(e) \cup DueOf(Tail(todo))
        /\ Disjoint(todo) => Disjoint(Tail(todo)) /\ Due(e) \cap DueOf(Tail(todo)) = {}
        /\ \A j \in DOMAIN Tail(todo) : \E k \in DOMAIN todo : Tail(todo)[j] = todo[k]
    BY <1>2, DueOfTail
  <1>4. /\ first \in Seq(P!File) /\ DueOf(first) = Due(e) /\ Disjoint(first)
        /\ \A j \in DOMAIN first : first[j].dir = e.dir /\ first[j].kind = "file"
    <2>1. MaxFiles \in Nat
      BY SameAssumption DEF P!InjectionAssumption
    <2> QED
      BY <1>1, <1>3, <2>1, FolderIs
  <1>5. e = todo[1] /\ 1 \in DOMAIN todo
    BY <1>2
  <1> SUFFICES ASSUME agent # NoAgent, ~agent.raced
               PROVE  /\ phase = "entries" => OnEntries(agent.task)'
                      /\ phase = "artifacts" => OnArtifacts(agent.task)'
    BY <1>1 DEF Progress
  <1> HIDE DEF e, first
  <1>6. first \in Seq(P!Item)
    <2>1. P!File \subseteq P!Item
      BY DEF P!File, P!Item
    <2> QED
      BY <1>4, <2>1, P!SeqOfSubset
  <1>7. /\ DueOf(todo') = DueOf(todo)
        /\ Disjoint(todo) => Disjoint(todo')
    <2>1. DueOf(first \o Tail(todo)) = DueOf(first) \cup DueOf(Tail(todo))
      <3>1. first \in Seq(P!Item) /\ Tail(todo) \in Seq(P!Item)
        BY <1>3, <1>6
      <3> QED
        BY <3>1, DueOfParts, Zenon
    <2>2. Disjoint(todo) => Disjoint(todo')
      BY <1>1, <1>3, <1>4, <1>6, DisjointParts
    <2> QED
      BY <1>1, <1>3, <1>4, <2>1, <2>2
  <1>8. \A j \in DOMAIN todo' :
            \/ todo'[j].dir = e.dir /\ todo'[j].kind = "file"
            \/ \E k \in DOMAIN todo : todo'[j] = todo[k]
    <2> DEFINE t == Tail(todo)
    <2>1. t \in Seq(P!Item) /\ todo' = first \o t
      BY <1>1, <1>3
    <2> HIDE DEF t
    <2>2. \A j \in DOMAIN todo' :
              \/ j \in DOMAIN first /\ todo'[j] = first[j]
              \/ j - Len(first) \in DOMAIN t /\ todo'[j] = t[j - Len(first)]
      BY <1>6, <2>1
    <2>3. \A j \in DOMAIN t : \E k \in DOMAIN todo : t[j] = todo[k]
      BY <1>3 DEF t
    <2> QED
      BY <1>4, <2>2, <2>3
  <1>9. PICK n : n = agent.task
    OBVIOUS
  <1>10. /\ Sources(n)' = Sources(n) /\ DueEntries(n)' = DueEntries(n) /\ DueArtifacts(n)' = DueArtifacts(n)
         /\ (DueOf(todo))' = DueOf(todo') /\ (Disjoint(todo') => Disjoint(todo)')
    BY HookSees
  <1>11. Told' = Told /\ ToldItems' = ToldItems
    BY <1>1 DEF Told, ToldItems
  <1>12. \A due : Accounted(due) => Accounted(due)'
    BY <1>1, <1>7, <1>10, <1>11 DEF Accounted
  <1>13. ASSUME OnEntries(n)
         PROVE  OnEntries(n)'
    <2>1. \A j \in DOMAIN todo' : todo'[j].kind # "artifact" /\ todo'[j].dir \in Sources(n)
      BY <1>5, <1>8, <1>13 DEF OnEntries
    <2> QED
      BY <1>1, <1>10, <1>11, <1>12, <1>13, <2>1 DEF OnEntries
  <1>14. ~OnArtifacts(n)
    BY <1>1, <1>5 DEF OnArtifacts
  <1> QED
    BY <1>9, <1>13, <1>14 DEF Progress

LEMMA ArtifactsProgress ==
    ASSUME HInv, Progress, ReadArtifacts
    PROVE  Progress'
  <1>1. /\ phase = "entries" /\ todo = <<>> /\ phase' = "artifacts"
        /\ todo' = ArtifactsOf(agent.task) /\ UNCHANGED <<vars, agent>>
        /\ blocks' = IF blocks = <<>> THEN <<I!Uncurated>> ELSE blocks
    BY DEF ReadArtifacts, I!EndEntries
  <1>2. agent.task \in Names /\ blocks \in Seq(P!Blocks)
    BY <1>1 DEF HInv, AgentOK, P!IInv, P!TypeOK, P!Blocks
  <1> SUFFICES ASSUME agent # NoAgent, ~agent.raced
               PROVE  OnArtifacts(agent.task)'
    BY <1>1 DEF Progress
  <1>3. PICK n \in Names : n = agent.task
    BY <1>2
  <1>4. OnEntries(n)
    BY <1>1, <1>3 DEF Progress
  <1>5. /\ DueArtifacts(n) = DueOf(ArtifactsOf(n)) /\ Disjoint(ArtifactsOf(n))
        /\ \A j \in DOMAIN ArtifactsOf(n) :
              /\ ArtifactsOf(n)[j].kind = "artifact" /\ ArtifactsOf(n)[j].dir = n
        /\ \A x \in DueArtifacts(n) : x.kind = "artifact"
    BY DueArtifactsAre
  <1>6. \A x \in DueEntries(n) : x.kind # "artifact"
    BY DueEntriesAre DEF HInv
  <1>7. /\ DueEntries(n)' = DueEntries(n) /\ DueArtifacts(n)' = DueArtifacts(n)
        /\ (DueOf(todo))' = DueOf(todo') /\ (Disjoint(todo') => Disjoint(todo)')
    BY <1>1, HookSees
  <1>8. DueOf(todo) = {}
    <2>1. DOMAIN todo = {}
      BY <1>1
    <2> QED
      BY <2>1 DEF DueOf
  <1>9. /\ ToldItems = DueEntries(n) /\ Told = DOMAIN blocks
        /\ NamedOnce => \A j, k \in Told : j # k => blocks[j].item # blocks[k].item
    BY <1>4, <1>8 DEF OnEntries, Accounted
  <1>10. CASE blocks = <<>>
    <2>1. /\ DOMAIN blocks = {} /\ blocks' = <<I!Uncurated>> /\ DOMAIN blocks' = {1}
          /\ blocks'[1] = I!Uncurated
      BY <1>1, <1>10
    <2>2. Told = {} /\ ToldItems = {} /\ Told' = {} /\ ToldItems' = {}
      BY <1>9, <2>1 DEF Told, ToldItems
    <2>3. Accounted(DueEntries(n) \cup DueArtifacts(n))'
      BY <1>1, <1>3, <1>5, <1>7, <1>9, <2>2 DEF Accounted
    <2> QED
      BY <1>1, <1>3, <1>5, <1>7, <1>9, <2>1, <2>2, <2>3 DEF OnArtifacts
  <1>11. CASE blocks # <<>>
    <2>1. blocks' = blocks /\ 1 \in DOMAIN blocks
      BY <1>1, <1>2, <1>11
    <2>2. Told' = Told /\ ToldItems' = ToldItems /\ ToldItems # {}
      BY <1>9, <2>1 DEF Told, ToldItems
    <2>3. Accounted(DueEntries(n) \cup DueArtifacts(n))'
      <3>1. ToldItems \cap DueArtifacts(n) = {}
        BY <1>5, <1>6, <1>9
      <3> QED
        BY <1>1, <1>3, <1>5, <1>7, <1>9, <2>1, <2>2, <3>1 DEF Accounted
    <2>4. \A j \in Told : blocks[j].item \in DueEntries(n)
      BY <1>9 DEF ToldItems
    <2> QED
      BY <1>1, <1>3, <1>5, <1>7, <1>9, <2>1, <2>2, <2>3, <2>4 DEF OnArtifacts
  <1> QED
    BY <1>3, <1>10, <1>11

LEMMA ProgressKeeps ==
    ASSUME HInv, Progress, [HooksNext]_allVars
    PROVE  Progress'
  <1>1. IInv /\ IInv' /\ AgentOK
    BY HooksKeep DEF HInv
  <1>2. CASE UNCHANGED allVars
    <2>1. \A n : View(n)' = View(n)
      BY <1>2 DEF allVars, vars, View, Sources, HasRecord
    <2> QED
      BY <1>1, <1>2, <2>1, ProgressRests DEF allVars, hookVars
  <1>3. CASE TaskStep
    <2>1. UNCHANGED <<phase, todo, blocks>>
      BY <1>3 DEF TaskStep
    <2>2. \/ agent' = agent /\ \A n \in {agent.task} \ {None} : View(n)' = View(n)
          \/ agent'.raced
      <3>1. CASE \E n \in {agent.task} \ {None} : View(n)' # View(n)
        BY <1>1, <1>3, <3>1 DEF TaskStep, AgentOK
      <3>2. CASE ~\E n \in {agent.task} \ {None} : View(n)' # View(n)
        BY <1>3, <3>2 DEF TaskStep
      <3> QED
        BY <3>1, <3>2
    <2> QED
      BY <1>1, <2>1, <2>2, ProgressRests
  <1>4. ASSUME NEW w \in Windows, StartAgent(w)
        PROVE  Progress'
    <2>1. agent = NoAgent /\ UNCHANGED <<phase, todo, blocks>>
      BY <1>4 DEF StartAgent
    <2>2. phase = "idle"
      BY <1>1, <2>1 DEF AgentOK
    <2> QED
      BY <2>1, <2>2 DEF Progress
  <1>5. CASE ReadManifest
    BY <1>5, ManifestProgress
  <1>6. CASE ReadItem
    BY <1>6, FileProgress, FolderProgress DEF ReadItem
  <1>7. CASE ReadArtifacts
    BY <1>7, ArtifactsProgress
  <1>8. CASE DeliverContext
    <2>1. phase' = "idle" /\ todo' = <<>> /\ blocks' = <<>>
      BY <1>8 DEF DeliverContext, I!Deliver, I!Ready
    <2> QED
      BY <2>1 DEF Progress
  <1> QED
    BY <1>2, <1>3, <1>4, <1>5, <1>6, <1>7, <1>8 DEF HooksNext

(* An agent whose task no command moved meanwhile is told of everything    *)
(* its task names and has, in order, of nothing else, of nothing twice     *)
(* that is not named twice, and that nothing is curated only if so: for    *)
(* any manifest, folders, artifacts and limits.  And whether it was moved  *)
(* or not, it is the task of the agent's own window.                       *)
THEOREM TasksHandedOver == HooksSpec => []AgentsGetTheirTask
  <1>1. HooksInit => Progress
    BY DEF HooksInit, I!Init, Progress, NoAgent
  <1>2. HInv /\ Progress => AgentsGetTheirTask
    <2> SUFFICES ASSUME HInv, Progress
                 PROVE  AgentsGetTheirTask
      OBVIOUS
    <2>1. NeverAnothersTask
      BY DEF HInv, AgentOK
    <2>2. ASSUME I!Ready, ~agent.raced, NEW n, n = agent.task
          PROVE  /\ {blocks[j].item : j \in Told} = DueEntries(n) \cup DueArtifacts(n)
                 /\ \A j, k \in Told : j < k =>
                       /\ NamedOnce => blocks[j].item # blocks[k].item
                       /\ blocks[k].item \in DueEntries(n) => blocks[j].item \in DueEntries(n)
                 /\ Told = DOMAIN blocks <=> DueEntries(n) # {}
      <3>1. phase = "artifacts" /\ todo = <<>>
        BY <2>2 DEF I!Ready
      <3>2. agent # NoAgent
        BY <3>1 DEF HInv, AgentOK
      <3>3. OnArtifacts(n)
        BY <2>2, <3>1, <3>2 DEF Progress
      <3>4. DueOf(todo) = {}
        <4>1. DOMAIN todo = {}
          BY <3>1
        <4> QED
          BY <4>1 DEF DueOf
      <3>5. Told \subseteq Nat
        BY DEF HInv, P!IInv, P!TypeOK, Told
      <3>6. ToldItems = DueEntries(n) \cup DueArtifacts(n)
        BY <3>3, <3>4 DEF OnArtifacts, Accounted
      <3>7. \A j, k \in Told : j < k => j # k
        BY <3>5
      <3> QED
        BY <3>3, <3>6, <3>7 DEF OnArtifacts, Accounted, ToldItems
    <2> QED
      BY <2>1, <2>2 DEF AgentsGetTheirTask
  <1>3. HInv /\ Progress /\ [HooksNext]_allVars => Progress'
    BY ProgressKeeps
  <1> QED
    BY <1>1, <1>2, <1>3, HooksStart, HooksKeep, PTL DEF HooksSpec

=============================================================================
