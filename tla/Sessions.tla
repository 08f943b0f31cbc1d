------------------------------ MODULE Sessions ------------------------------
(***************************************************************************)
(* The active task of an agent window (common/active_task.py).  A window   *)
(* has one pointer file, under the window's context key, and the key is    *)
(* also the window's name here.  A command finds its key in the            *)
(* environment its host exports or, failing that, in a shell ticket: the   *)
(* pre-shell hook (inject-shell-session-context.py) writes one, good for   *)
(* 30 seconds, just before a start, current or finish command runs.        *)
(*                                                                         *)
(* The module says what the session layer alone may do; which task         *)
(* directories exist (dirs) is decided by its users.                       *)
(***************************************************************************)
EXTENDS Naturals, FiniteSets

CONSTANTS Windows,  \* agent windows, by context key
          Names,    \* task directory names
          None,     \* no window, no task
          Native,   \* windows whose shell exports their identity
          Hooked    \* windows whose pre-shell hook is given an identity

VARIABLES ptr,      \* per window: the task its session file names
          tickets,  \* the shell tickets that have not expired
          dirs      \* the directories under .trellis/tasks/

sessionVars == <<ptr, tickets>>

-----------------------------------------------------------------------------
(* Identity.                                                               *)

\* TASK_SESSION_COMMANDS: the commands a ticket can be for.
SessionCommands == {"start", "current", "finish"}

Ticket(k, c, r) == [key |-> k, cmd |-> c, ref |-> r]
TicketsOf(k) == [key : {k}, cmd : SessionCommands, ref : Names \cup {None}]

\* A ticket is for one subcommand; for start also for the task it names.
TicketMatches(t, c, r) == t.cmd = c /\ (c = "start" => t.ref = r)

Candidates(c, r) == {t.key : t \in {u \in tickets : TicketMatches(u, c, r)}}

EnvKey(w) == IF w \in Native THEN w ELSE None

(* Mutation: a command takes any of several matching tickets. *)
AnyTicket(c, r) ==
    IF Candidates(c, r) = {} THEN None
    ELSE CHOOSE k \in Candidates(c, r) : TRUE

\* Exactly one window must match: two degrade both.
TicketKey(c, r) ==
    IF \E k \in Windows : Candidates(c, r) = {k}
    THEN CHOOSE k \in Windows : Candidates(c, r) = {k}
    ELSE None

\* The key of a task.py command c (about task r) that window w runs.
ContextKey(w, c, r) == IF w \in Native THEN EnvKey(w) ELSE TicketKey(c, r)

\* The key a hook computes from the identity in its own payload.
HookKey(w) == IF w \in Hooked THEN w ELSE EnvKey(w)

-----------------------------------------------------------------------------
(* The active task.                                                        *)

SessionFiles == {k \in Windows : ptr[k] # None}

NoTask == [task |-> None, key |-> None, source |-> "none"]
Active(k, s) == [task |-> ptr[k], key |-> k, source |-> s]

\* The only session file there is, whoever it belongs to.
SingleSession ==
    IF \E k \in Windows : SessionFiles = {k}
    THEN Active(CHOOSE k \in Windows : SessionFiles = {k}, "session-fallback")
    ELSE NoTask

ResolveActive(k, fallback) ==
    IF k \in SessionFiles THEN Active(k, "session")
    ELSE IF fallback THEN SingleSession
    ELSE NoTask

Stale(a) == a.task # None /\ a.task \notin dirs

\* The per-turn hook waits 0.2 seconds for its payload, then does without.
TurnKey(w, heard) == IF heard THEN HookKey(w) ELSE EnvKey(w)

\* What it tells window w; status[n] is the status the record of task n
\* shows, "task_error" if there is none to be read.
Breadcrumb(w, heard, status) ==
    LET a == ResolveActive(TurnKey(w, heard), TRUE)
    IN  [task |-> a.task,
         state |-> IF a.task = None THEN "no_task"
                   ELSE IF Stale(a) THEN "stale"
                   ELSE status[a.task]]

\* The [workflow-state] blocks of workflow.md: state and dispatch mode.
Templates ==
    {<<"no_task", "auto">>, <<"task_error", "auto">>, <<"completed", "auto">>}
        \cup ({"planning", "in_progress"} \X {"auto", "inline"})

\* The block for a state; the mode's own block comes first.
Advice(state, mode) ==
    IF <<state, mode>> \in Templates THEN <<state, mode>>
    ELSE IF <<state, "auto">> \in Templates THEN <<state, "auto">>
    ELSE <<"generic">>

(* Mutation: a sub-agent borrows the only task there is. *)
BorrowedTask(w) ==
    LET a == ResolveActive(IF w \in Hooked THEN w ELSE None, TRUE)
    IN  IF Stale(a) THEN None ELSE a.task

\* The task a native sub-agent start of window w is given: never borrowed.
SubagentTask(w) ==
    LET a == ResolveActive(IF w \in Hooked THEN w ELSE None, FALSE)
    IN  IF Stale(a) THEN None ELSE a.task

\* The task of a sub-agent that is dispatched by a tool call.
DispatchTask(w) == ResolveActive(HookKey(w), TRUE).task

-----------------------------------------------------------------------------
(* Operations.                                                             *)

\* main of the pre-shell hook, when the command line it is shown runs c.
WriteTicket(w, c, r) ==
    /\ tickets' = IF w \in Hooked THEN tickets \cup {Ticket(w, c, r)}
                                  ELSE tickets
    /\ UNCHANGED ptr

ExpireTicket(t) ==
    /\ t \in tickets
    /\ tickets' = tickets \ {t}
    /\ UNCHANGED ptr

\* set_active_task; the reference must name a directory.
SetActive(k, n) ==
    /\ k \in Windows /\ n \in dirs
    /\ ptr' = [ptr EXCEPT ![k] = n]
    /\ UNCHANGED tickets

\* clear_active_task deletes the file of the task it resolved, which may be
\* the single session file of another window.
ClearActive(k) ==
    /\ k \in Windows
    /\ LET a == ResolveActive(k, TRUE)
       IN  /\ a.task # None
           /\ ptr' = [ptr EXCEPT ![a.key] = None]
    /\ UNCHANGED tickets

\* clear_task_from_sessions; a file that cannot be deleted is left.
ClearTask(n, kept) ==
    /\ ptr' = [k \in Windows |->
                 IF ptr[k] = n /\ k \notin kept THEN None ELSE ptr[k]]
    /\ UNCHANGED tickets

(* Mutation: the old path is canonicalized, and it is gone by now. *)
RepointGone(o, n, kept) ==
    /\ ptr' = [k \in Windows |->
                 IF ptr[k] = o /\ k \notin kept /\ o \in dirs THEN n ELSE ptr[k]]
    /\ UNCHANGED tickets

\* repoint_task_in_sessions; a file that cannot be written is left.
RepointTask(o, n, kept) ==
    /\ ptr' = [k \in Windows |->
                 IF ptr[k] = o /\ k \notin kept THEN n ELSE ptr[k]]
    /\ UNCHANGED tickets

-----------------------------------------------------------------------------

Init ==
    /\ ptr \in [Windows -> dirs \cup {None}]
    /\ tickets = {}
    /\ dirs \subseteq Names

\* Directories come and go; no command touches a pointer in that step.
ChangeDirs == dirs' \subseteq Names /\ UNCHANGED sessionVars

Next ==
    \/ ChangeDirs
    \/ /\ UNCHANGED dirs
       /\ \/ \E w \in Windows, c \in SessionCommands, r \in Names \cup {None} :
                 WriteTicket(w, c, r)
          \/ \E t \in tickets : ExpireTicket(t)
          \/ \E w \in Windows, n \in Names :
                 SetActive(ContextKey(w, "start", n), n)
          \/ \E w \in Native, n \in Names : SetActive(EnvKey(w), n)
          \/ \E w \in Windows : ClearActive(ContextKey(w, "finish", None))
          \/ \E n \in Names, kept \in SUBSET Windows : ClearTask(n, kept)
          \/ \E o, n \in Names, kept \in SUBSET Windows : RepointTask(o, n, kept)

Spec == Init /\ [][Next]_<<ptr, tickets, dirs>>

-----------------------------------------------------------------------------

(* Pointers name tasks and every fresh ticket carries the key of a window  *)
(* whose hook was given that identity.                                     *)
TypeOK ==
    /\ ptr \in [Windows -> Names \cup {None}]
    /\ tickets \subseteq UNION {TicketsOf(k) : k \in Hooked}
    /\ dirs \subseteq Names
=============================================================================
