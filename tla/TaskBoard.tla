-------------------------------- MODULE TaskBoard --------------------------------
(***************************************************************************)
(* The tasks of one board: services/domain/task (domain/service_impl.go,   *)
(* events/consumer.go, projectclient), fed by the events of ProjectBoards' *)
(* board and by those of members and accounts.                             *)
(*                                                                         *)
(* Requests run concurrently.  What a request reads before its transaction *)
(* is read statement by statement; a transaction is one step, because the  *)
(* task's row is locked until its commit.  A known column never changes    *)
(* and never goes (no service produces column.updated or column.deleted),  *)
(* so the reads of one column are a single step.  The requester may do     *)
(* what he asks for.                                                       *)
(***************************************************************************)
EXTENDS FractionalRank, ProjectBoards

CONSTANTS
  Task,
  ColumnStatus,    \* the status each column comes with, if any
  NameStatus,      \* the status derived from its name
  User,            \* members of the project, who may be assigned
  Request,         \* requests that may be in progress at once
  OnlyBefore       \* do clients name only the task to insert before?

Status == {"open", "done"}

ASSUME ConstantsAssumption ==
  /\ NameStatus \in [Column -> Status]
  /\ OnlyBefore \in BOOLEAN
  /\ \A x \in Scenarios : {x.calls, x.atOnce} \subseteq Nat

(* A column is known by a status of its own: "" becomes "open".  Another   *)
(* that is none of a task's gives way to its name.                         *)
StatusForColumn(c) ==
  LET own == IF ColumnStatus[c] = "" THEN "open" ELSE ColumnStatus[c]
  IN IF own \in Status THEN own ELSE NameStatus[c]

Nobody == [st |-> "absent", col |-> None, pos |-> Nowhere,
           status |-> "open", who |-> None]
NoCall == [op |-> None, task |-> None, col |-> None, before |-> None,
           after |-> None, who |-> None, status |-> "open", seen |-> "open",
           pos |-> Nowhere]

VARIABLES
  member,     \* project service: the members of the project
  handling,   \* where the handling of its first message is
  known,      \* known_boards: "none", "live" or "deleted"
  kcolumns,   \* known_columns
  cache,      \* projectclient: the cached answer for each user
  task,       \* tasks: state, column, position, status and assignee
  pc, call,   \* of each request: where it is, what it was asked and has read
  stale,      \* history: may what the request read have changed since?
  wanted,     \* history: the tasks in the order their clients asked for
  excused,    \* history: tasks written by a request that was stale, or put
              \* where there was no room
  told,       \* history: the status and assignee the outbox events tell of
  silent,     \* history: tasks whose status or assignee changed without an event
  calls

sourceVars == <<boardVars, member>>
handlerVars == <<inbox, handling, known, kcolumns>>
requestVars == <<pc, call, stale>>
history == <<wanted, excused, told, silent>>
bounds == <<scenario, calls, sources, faults>>
vars == <<sourceVars, handlerVars, cache, task, requestVars, history, bounds>>

Init ==
  /\ BoardsInit /\ member = User
  /\ handling = "idle" /\ known = "none" /\ kcolumns = {}
  /\ cache = [u \in User |-> None]
  /\ task = [t \in Task |-> Nobody]
  /\ pc = [r \in Request |-> "idle"]
  /\ call = [r \in Request |-> NoCall]
  /\ stale = [r \in Request |-> FALSE]
  /\ wanted = << >> /\ excused = {} /\ silent = {}
  /\ told = [t \in Task |-> [status |-> "open", who |-> None]]
  /\ calls = 0

Live == {t \in Task : task[t].st = "live"}
In(c) == {t \in Live : task[t].col = c}
Busy(r) == pc[r] # "idle"

-----------------------------------------------------------------------------
(* The other services.  Every change modelled here has its event.          *)
Source(type, about) ==
  /\ sources < scenario.changes /\ May(type)
  /\ sources' = sources + 1
  /\ inbox' = Append(inbox, [type |-> type, about |-> about, columns |-> {}])
  /\ UNCHANGED <<boardVars, handling, known, kcolumns, cache, task, requestVars, history,
                 scenario, calls, faults>>

(* A project's deletion leaves its boards as they are, and its members. *)
DeleteProject == Source("project.deleted", None) /\ UNCHANGED member

RemoveMember(u) ==
  /\ u \in member
  /\ member' = member \ {u}
  /\ Source("project.member.removed", u)

DeleteAccount(u) ==
  /\ u \in member
  /\ member' = member \ {u}
  /\ Source("user.deleted", u)

-----------------------------------------------------------------------------
(* The consumer: one message at a time; a handler that fails is run again  *)
(* from its first statement, because the message is requeued.              *)
Message == inbox[1]
Handles(type, place) == handling = place /\ Message.type = type

Deliver ==
  /\ handling = "idle" /\ inbox # << >>
  /\ handling' = "first"
  /\ UNCHANGED <<sourceVars, inbox, known, kcolumns, cache, task, requestVars,
                 history, bounds>>

HandlerFails ==
  /\ handling # "idle"
  /\ handling' = "first"
  /\ Fault
  /\ UNCHANGED <<sourceVars, inbox, known, kcolumns, cache, task, requestVars,
                 history, scenario, calls, sources>>

(* The event is marked as processed and acknowledged. *)
Acknowledge ==
  /\ handling = "done"
  /\ handling' = "idle"
  /\ inbox' = Tail(inbox)
  /\ UNCHANGED <<sourceVars, known, kcolumns, cache, task, requestVars, history, bounds>>

OnlyHandled == UNCHANGED <<sourceVars, inbox, cache, call, pc, wanted, excused, bounds>>
Outdated == stale' = [r \in Request |-> Busy(r)]

(* The upsert leaves deleted_at as it is. *)
UpsertKnownBoard ==
  /\ Handles("board.created", "first")
  /\ known' = IF known = "none" THEN "live" ELSE known
  /\ handling' = "columns"
  /\ OnlyHandled /\ UNCHANGED <<kcolumns, task, stale, told, silent>>

UpsertInitialColumn ==
  /\ Handles("board.created", "columns")
  /\ LET missing == Message.columns \ kcolumns
     IN /\ missing # {} => \E c \in missing : kcolumns' = kcolumns \cup {c}
        /\ missing = {} => kcolumns' = kcolumns
        /\ handling' = IF Cardinality(missing) < 2 THEN "done" ELSE "columns"
  /\ OnlyHandled /\ UNCHANGED <<known, task, stale, told, silent>>

HandleColumnUpserted ==
  /\ Handles("column.created", "first")
  /\ kcolumns' = kcolumns \cup Message.columns
  /\ handling' = "done"
  /\ OnlyHandled /\ UNCHANGED <<known, task, stale, told, silent>>

MarkBoardDeleted ==
  /\ Handles("board.deleted", "first")
  /\ known' = "deleted"
  /\ handling' = "tasks"
  /\ Outdated
  /\ OnlyHandled /\ UNCHANGED <<kcolumns, task, told, silent>>

SoftDeleteTasks ==
  /\ \/ Handles("board.deleted", "tasks")
     \/ Handles("project.deleted", "first")
  /\ task' = [t \in Task |-> IF t \in Live THEN [task[t] EXCEPT !.st = "deleted"] ELSE task[t]]
  /\ handling' = "done"
  /\ Outdated
  /\ OnlyHandled /\ UNCHANGED <<known, kcolumns, told, silent>>

AssignedTo(u) == {t \in Live : task[t].who = u}
Unassign(ts) == task' = [t \in Task |-> IF t \in ts THEN [task[t] EXCEPT !.who = None]
                                        ELSE task[t]]

ForgetUser ==                        \* mutant: the account alone is marked
  /\ Handles("user.deleted", "first")
  /\ handling' = "done"
  /\ Outdated
  /\ OnlyHandled /\ UNCHANGED <<known, kcolumns, task, told, silent>>

(* ClearAssigneeForUser; that MarkKnownUserDeleted follows is of no effect *)
(* on tasks.                                                               *)
HandleUserDeleted ==
  /\ Handles("user.deleted", "first")
  /\ Unassign(AssignedTo(Message.about))
  /\ silent' = silent \cup (AssignedTo(Message.about) \X {"who"})
  /\ handling' = "done"
  /\ Outdated
  /\ OnlyHandled /\ UNCHANGED <<known, kcolumns, told>>

HandleMemberRemovedSilently ==       \* mutant: the assignees, no events
  /\ Handles("project.member.removed", "first")
  /\ Unassign(AssignedTo(Message.about))
  /\ handling' = "done"
  /\ Outdated
  /\ OnlyHandled /\ UNCHANGED <<known, kcolumns, told, silent>>

(* One transaction: the assignees and an event for each *)
HandleMemberRemoved ==
  /\ Handles("project.member.removed", "first")
  /\ LET ts == AssignedTo(Message.about)
     IN /\ Unassign(ts)
        /\ told' = [t \in Task |-> IF t \in ts THEN [told[t] EXCEPT !.who = None]
                                   ELSE told[t]]
  /\ handling' = "done"
  /\ Outdated
  /\ OnlyHandled /\ UNCHANGED <<known, kcolumns, silent>>

-----------------------------------------------------------------------------
(* Requests *)
Goto(r, label) == /\ pc' = [pc EXCEPT ![r] = label]
                  /\ call' = IF label = "idle" THEN [call EXCEPT ![r] = NoCall] ELSE call
Keep(r, label, c) == /\ pc' = [pc EXCEPT ![r] = label]
                     /\ call' = [call EXCEPT ![r] = c]

Ask(r, c) ==
  /\ ~Busy(r) /\ calls < scenario.calls /\ May(c.op)
  /\ Cardinality({s \in Request : Busy(s)}) < scenario.atOnce
  /\ calls' = calls + 1
  /\ Keep(r, IF c.op = "create" THEN "board" ELSE "read", c)
  /\ stale' = [stale EXCEPT ![r] = FALSE]
  /\ UNCHANGED <<sourceVars, handlerVars, cache, task, history, scenario, sources, faults>>

(* A client offers the members as assignees. *)
AskCreate(r) ==
  \E t \in Task, c \in Column, u \in member \cup {None} :
    /\ task[t].st = "absent"
    /\ \A s \in Request : call[s].task # t
    /\ Ask(r, [NoCall EXCEPT !.op = "create", !.task = t, !.col = c, !.who = u])

(* Where a client that has the column before it may put a task: between    *)
(* two neighbours, the frontend's drop onto the task to insert before.     *)
Gaps(ts) ==
  IF OnlyBefore THEN {<<None, b>> : b \in ts}
  ELSE {g \in (ts \cup {None}) \X (ts \cup {None}) :
          LET a == g[1]  b == g[2]
          IN /\ a = None /\ b = None => ts = {}
             /\ a # None /\ b # None => Less(task[a].pos, task[b].pos)
             /\ \A t \in ts : /\ a # None /\ Less(task[a].pos, task[t].pos) =>
                                   b # None /\ ~Less(task[t].pos, task[b].pos)
                              /\ a = None => ~Less(task[t].pos, task[b].pos)}

AskMove(r) ==
  \E t \in Live, c \in Column : \E g \in Gaps(In(c) \ {t}) :
    Ask(r, [NoCall EXCEPT !.op = "move", !.task = t, !.col = c,
                          !.after = g[1], !.before = g[2]])

AskUpdate(r) ==
  \E t \in Live, s \in Status : Ask(r, [NoCall EXCEPT !.op = "update", !.task = t, !.status = s])

AskAssign(r) ==
  \E t \in Live, u \in User \cup {None} :
    Ask(r, [NoCall EXCEPT !.op = "assign", !.task = t, !.who = u])

AskDelete(r) == \E t \in Live : Ask(r, [NoCall EXCEPT !.op = "delete", !.task = t])

OnlyRead == UNCHANGED <<sourceVars, handlerVars, task, history, scenario, calls, sources>>

GetKnownBoard(r) ==
  /\ pc[r] = "board"
  /\ Goto(r, IF known = "live" THEN "last" ELSE "idle")
  /\ OnlyRead /\ UNCHANGED <<cache, stale, faults>>

(* MAX(position) of the column's tasks *)
LastPosition(c) ==
  IF In(c) = {} THEN Nowhere
  ELSE LET last == CHOOSE t \in In(c) : \A u \in In(c) : ~Less(task[t].pos, task[u].pos)
       IN task[last].pos

GetLastPosition(r) ==
  /\ pc[r] = "last"
  /\ LET c == call[r].col
     IN IF c \in kcolumns
        THEN Keep(r, "commit", [call[r] EXCEPT !.status = StatusForColumn(c),
                                  !.pos = Between(LastPosition(c), Nowhere)])
        ELSE Goto(r, "idle")
  /\ OnlyRead /\ UNCHANGED <<cache, stale, faults>>

GetTask(r) ==
  /\ pc[r] = "read"
  /\ LET c == call[r]
         next == CASE c.op = "move" -> "refs"
                   [] c.op = "update" -> "write"
                   [] c.op = "assign" /\ c.who # None -> "member"
                   [] OTHER -> "commit"
     IN IF c.task \in Live
        THEN Keep(r, next, [c EXCEPT !.seen = task[c.task].status])
        ELSE Goto(r, "idle")
  /\ OnlyRead /\ UNCHANGED <<cache, stale, faults>>

(* The position of a task that a client named, "" if it is gone *)
PositionOf(t) == IF t \in Live THEN task[t].pos ELSE Nowhere

GetPositionsSwapped(r) ==            \* mutant: before for after
  /\ pc[r] = "refs"
  /\ LET c == call[r]
         pos == Between(PositionOf(c.before), PositionOf(c.after))
     IN IF c.col \in kcolumns /\ pos # NoSpaceLeft
        THEN Keep(r, "commit", [c EXCEPT !.pos = pos, !.status = StatusForColumn(c.col)])
        ELSE Goto(r, "idle")
  /\ OnlyRead /\ UNCHANGED <<cache, stale, faults>>

GetPositionForRefs(r) ==
  /\ pc[r] = "refs"
  /\ LET c == call[r]
         prev == PositionOf(c.after)
         next == PositionOf(c.before)
         pos == Between(prev, next)
     IN IF c.col \in kcolumns /\ pos # NoSpaceLeft
        THEN /\ Keep(r, "commit", [c EXCEPT !.pos = pos, !.status = StatusForColumn(c.col)])
             /\ stale' = [stale EXCEPT ![r] = @ \/ ~Room(prev, next)]
        ELSE Goto(r, "idle") /\ UNCHANGED stale
  /\ OnlyRead /\ UNCHANGED <<cache, faults>>

(* projectclient.GetPermissions: an answer is kept for 30 seconds. *)
GetPermissions(r) ==
  /\ pc[r] = "member"
  /\ LET u == call[r].who
         answer == IF cache[u] # None THEN cache[u] ELSE IF u \in member THEN "yes" ELSE "no"
     IN /\ cache' = [cache EXCEPT ![u] = answer]
        /\ Goto(r, IF answer = "yes" THEN "commit" ELSE "idle")
        /\ stale' = [stale EXCEPT ![r] = @ \/ u \notin member]
  /\ OnlyRead /\ UNCHANGED faults

CacheExpires(u) ==
  /\ cache[u] # None
  /\ cache' = [cache EXCEPT ![u] = None]
  /\ UNCHANGED <<sourceVars, handlerVars, task, requestVars, history, bounds>>

-----------------------------------------------------------------------------
(* Writes.  Those who have read the task or a column it was or is in are   *)
(* stale from now on.                                                      *)
Touch(r, t, cols) ==
  stale' = [s \in Request |->
              IF s = r THEN FALSE
              ELSE stale[s] \/ (Busy(s) /\ (call[s].task = t \/ call[s].col \in cols))]
Excuse(r, t) == excused' = IF stale[r] THEN excused \cup {t} ELSE excused
OnlyWritten == UNCHANGED <<sourceVars, handlerVars, cache, scenario, calls, sources>>

(* The rows as each statement leaves them *)
Created(c) == [task EXCEPT ![c.task] = [st |-> "live", col |-> c.col, pos |-> c.pos,
                                        status |-> c.status, who |-> c.who]]
Moved(c) == [task EXCEPT ![c.task].col = c.col, ![c.task].pos = c.pos, ![c.task].status = c.status]
WithStatus(t, s) == [task EXCEPT ![t].status = s]
WithAssignee(t, u) == [task EXCEPT ![t].who = u]

(* Where the client wanted the task *)
IndexOf(t) == {i \in 1..Len(wanted) : wanted[i] = t}
Without(t) == IF IndexOf(t) = {} THEN wanted ELSE RemoveAt(wanted, CHOOSE i \in IndexOf(t) : TRUE)

Place(t, before) ==
  LET rest == Without(t)
      places == {i \in 1..Len(rest) : rest[i] = before}
  IN IF places = {} THEN Append(rest, t)
     ELSE InsertAt(rest, CHOOSE i \in places : TRUE, t)

CreateTask(r) ==
  /\ pc[r] = "commit" /\ call[r].op = "create"
  /\ LET c == call[r]
     IN /\ task' = Created(c)
        /\ told' = [told EXCEPT ![c.task] = [status |-> c.status, who |-> c.who]]
        /\ wanted' = Place(c.task, None)
        /\ Touch(r, c.task, {c.col}) /\ Excuse(r, c.task)
  /\ Goto(r, "idle")
  /\ OnlyWritten /\ UNCHANGED <<silent, faults>>

(* The event of a new status is written when it differs from the one read. *)
MoveTask(r) ==
  /\ pc[r] = "commit" /\ call[r].op = "move"
  /\ LET c == call[r]
         t == c.task
     IN IF t \in Live
        THEN /\ task' = Moved(c)
             /\ told' = [told EXCEPT ![t].status = IF c.status # c.seen THEN c.status ELSE @]
             /\ wanted' = Place(t, c.before)
             /\ Touch(r, t, {c.col, task[t].col}) /\ Excuse(r, t)
        ELSE UNCHANGED <<task, told, wanted, stale, excused>>
  /\ Goto(r, "idle")
  /\ OnlyWritten /\ UNCHANGED <<silent, faults>>

AssignTask(r) ==
  /\ pc[r] = "commit" /\ call[r].op = "assign"
  /\ LET c == call[r]
         t == c.task
     IN IF t \in Live
        THEN /\ task' = WithAssignee(t, c.who)
             /\ told' = [told EXCEPT ![t].who = c.who]
             /\ silent' = silent \ {<<t, "who">>}
             /\ Touch(r, t, {}) /\ Excuse(r, t)
        ELSE UNCHANGED <<task, told, silent, stale, excused>>
  /\ Goto(r, "idle")
  /\ OnlyWritten /\ UNCHANGED <<wanted, faults>>

(* No look at whether a row was affected *)
DeleteTask(r) ==
  /\ pc[r] = "commit" /\ call[r].op = "delete"
  /\ LET t == call[r].task
     IN /\ task' = [task EXCEPT ![t].st = "deleted"]
        /\ Touch(r, t, {task[t].col})
  /\ Goto(r, "idle")
  /\ OnlyWritten /\ UNCHANGED <<wanted, excused, told, silent, faults>>

(* UpdateTask: the row is written before the transaction that tells of it. *)
WriteTask(r) ==
  /\ pc[r] = "write"
  /\ LET t == call[r].task
     IN IF t \in Live
        THEN /\ task' = WithStatus(t, call[r].status)
             /\ stale' = [s \in Request |-> stale[s] \/ (s # r /\ call[s].task = t)]
             /\ Goto(r, "tell")
        ELSE Goto(r, "idle") /\ UNCHANGED <<task, stale>>
  /\ OnlyWritten /\ UNCHANGED <<history, faults>>

TellUpdate(r) ==
  /\ pc[r] = "tell"
  /\ LET c == call[r]
     IN /\ told' = [told EXCEPT ![c.task].status = IF c.status # c.seen THEN c.status ELSE @]
        /\ Excuse(r, c.task)
  /\ Goto(r, "idle")
  /\ OnlyWritten /\ UNCHANGED <<task, stale, wanted, silent, faults>>

(* A statement fails, or the process ends, before the transaction. *)
RequestFails(r) ==
  /\ Busy(r)
  /\ Fault
  /\ silent' = IF pc[r] = "tell" THEN silent \cup {<<call[r].task, "status">>} ELSE silent
  /\ Goto(r, "idle")
  /\ OnlyWritten /\ UNCHANGED <<task, stale, wanted, excused, told>>

-----------------------------------------------------------------------------
Consume ==
  \/ Deliver \/ Acknowledge
  \/ UpsertKnownBoard \/ UpsertInitialColumn \/ HandleColumnUpserted
  \/ MarkBoardDeleted \/ SoftDeleteTasks
  \/ HandleUserDeleted \/ HandleMemberRemoved

Serve(r) ==
  \/ GetKnownBoard(r) \/ GetLastPosition(r) \/ GetTask(r) \/ GetPositionForRefs(r)
  \/ GetPermissions(r)
  \/ CreateTask(r) \/ MoveTask(r) \/ AssignTask(r) \/ DeleteTask(r)
  \/ WriteTask(r) \/ TellUpdate(r)

Next ==
  \/ BoardsNext /\ UNCHANGED <<member, handling, known, kcolumns, cache, task, requestVars,
                               history, calls>>
  \/ DeleteProject
  \/ \E u \in User : RemoveMember(u) \/ DeleteAccount(u) \/ CacheExpires(u)
  \/ Consume \/ HandlerFails
  \/ \E r \in Request : \/ AskCreate(r) \/ AskMove(r) \/ AskUpdate(r) \/ AskAssign(r)
                        \/ AskDelete(r)
                        \/ Serve(r) \/ RequestFails(r)

Spec == Init /\ [][Next]_vars

-----------------------------------------------------------------------------
Row == [st : {"absent", "live", "deleted"}, col : Column \cup {None}, pos : Position,
        status : Status, who : User \cup {None}]

(* Rows have positions that are strings over the alphabet, and live tasks  *)
(* a column the service knows of.                                          *)
TypeOK ==
  /\ board \in {"none", "live", "deleted"} /\ columns \subseteq Column
  /\ types \subseteq Definition /\ \A i \in Replica : cached[i] \subseteq Definition
  /\ member \subseteq User
  /\ handling \in {"idle", "first", "columns", "tasks", "done"}
  /\ handling # "idle" => inbox # << >>
  /\ known \in {"none", "live", "deleted"} /\ kcolumns \subseteq columns
  /\ \A t \in Task : /\ task[t] \in Row
                     /\ t \in Live => task[t].col \in kcolumns /\ task[t].pos # Nowhere
  /\ \A r \in Request : pc[r] = "commit" => call[r].pos \in Position

(* A column shows its tasks in the order in which the clients put them, as *)
(* long as no two requests overlapped and there was room: appending,       *)
(* inserting and moving through read positions amounts to a list.          *)
OrderKept ==
  excused = {} =>
    \A i, j \in 1..Len(wanted) :
      LET t == wanted[i]  u == wanted[j]
      IN i < j /\ t \in Live /\ u \in Live /\ task[t].col = task[u].col
           => Less(task[t].pos, task[u].pos)

(* Who follows the events knows the status of every task that no two       *)
(* requests wrote at a time and no request was cut short on.               *)
StatusTold ==
  \A t \in Live \ excused :
    <<t, "status">> \notin silent /\ (\A r \in Request : pc[r] = "tell" => call[r].task # t) =>
      told[t].status = task[t].status

(* And always the assignee, but for those whose account was deleted,       *)
(* however requests and handlers interleave and fail.                      *)
AssigneeTold ==
  \A t \in Live : <<t, "who">> \notin silent => told[t].who = task[t].who

(* The events of the outbox tell the state of the tasks. *)
EventsTell == StatusTold /\ AssigneeTold

(* Once the events of a user's departure are handled he has no task that   *)
(* was not given to him on an answer older than that.                      *)
AssigneesAreMembers ==
  \A t \in Live \ excused :
    task[t].who \notin {None} \cup member =>
      \E i \in 1..Len(inbox) : inbox[i].about = task[t].who

(* Once the event of the board's deletion is handled it has no tasks but   *)
(* those of requests that had begun before.                                *)
DeletedBoardIsEmpty ==
  /\ board = "deleted" /\ "board.deleted" \notin untold
  /\ \A q \in Client : order[q].step # "tell"
  /\ \A i \in 1..Len(inbox) : inbox[i].type # "board.deleted"
  => Live \subseteq excused

(* Whoever or whatever is gone leaves nothing behind. *)
DeparturesHandled == AssigneesAreMembers /\ DeletedBoardIsEmpty

-----------------------------------------------------------------------------
(* What the documentation says and the code does not keep *)

(* task.md:615: tasks put between the same two at the same time get        *)
(* different positions.                                                    *)
PositionsDiffer ==
  \A t, u \in Live : t # u /\ task[t].col = task[u].col => task[t].pos # task[u].pos

(* task.md:1346: the deletion of an account is told for each task. *)
EveryAssigneeTold == \A t \in Live : told[t].who = task[t].who

(* task.md:1349: the tasks of a deleted board are deleted. *)
NoTaskOnDeletedBoard ==
  board = "deleted" /\ inbox = << >> => Live = {}
=============================================================================
