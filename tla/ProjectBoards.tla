----------------------------- MODULE ProjectBoards -----------------------------
(***************************************************************************)
(* Board types and a board.  The registry (services/domain/boardregistry)  *)
(* keeps the definition of a board type; each instance of the project      *)
(* service keeps a copy (boardtypeclient), which it drops when an event    *)
(* announces a change, and creates boards after it (project/internal/      *)
(* domain/service_impl.go), whose events the task service consumes.        *)
(*                                                                         *)
(* One board type that is not built in, one board; a column stands for its *)
(* position.  A statement is a step and so is a transaction, which locks   *)
(* the row it writes.  The requesters may do what they ask for.            *)
(***************************************************************************)
EXTENDS Naturals, FiniteSets, SequencesExt

CONSTANTS
  Column,
  Config,          \* configurations of a board but the empty one
  Schemas,         \* a schema is the set of the configurations it admits
  Editor,          \* requests on the type that may be in progress at once
  Replica,         \* the project service's instances
  Client,          \* requests on the board that may be in progress at once
  Scenarios        \* bounds: what happens together in one behaviour, the type and
                   \* the board's columns at its begin, how requests patch the type,
                   \* what boards are asked for, the requests on types and the
                   \* changes elsewhere there are, the requests at once, failures

None == "none"
NoConfig == "empty"
Definition == [config : Config \cup {NoConfig}, schema : Schemas, columns : SUBSET Column]

Valid(d) == d.config \in d.schema \cup {NoConfig}

ASSUME BoardsAssumption ==
  /\ Schemas \subseteq SUBSET (Config \cup {NoConfig})
  /\ \A x \in Scenarios :
       /\ x.types \subseteq {d \in Definition : Valid(d)} /\ x.columns \subseteq Column
       /\ x.boards \subseteq [config : Config \cup {NoConfig}, columns : SUBSET Column]
       /\ \A p \in x.patches, d \in Definition : p @@ d \in Definition
       /\ {x.edits, x.changes, x.clients, x.faults} \subseteq Nat

NoEdit == [op |-> None, patch |-> << >>, row |-> {}, old |-> FALSE]
NoOrder == [op |-> None, step |-> None, at |-> None, config |-> NoConfig, columns |-> {},
            types |-> {}, old |-> FALSE]

VARIABLES
  types,      \* board_types: the type's row, if there is one
  edit,       \* registry: each request's patch and the row it is going to write
  feed,       \* boardtype.* events in the project service's queue
  cached,     \* boardtypeclient: the definition each instance has, if any
  order,      \* project service: each request on the board
  board,      \* "none", "live" or "deleted"
  config,     \* the board's configuration
  columns,    \* its columns
  inbox,      \* the events in the task service's queue
  asked,      \* history: the type as its editors asked for
  overlapped, \* history: did an editor write a row he had read before another's write?
  outdated,   \* history: instances that have a definition an event about which was
              \* handled elsewhere, or before they stored it
  untold,     \* history: event types of changes of the board that were not written
  scenario, edits, sources, faults

typeVars == <<types, edit, asked, overlapped, edits>>
cacheVars == <<feed, cached, outdated>>
boardRow == <<board, config, columns, untold>>
boardVars == <<typeVars, cacheVars, order, boardRow>>

BoardEvent(type, cols) == [type |-> type, about |-> None, columns |-> cols]

(* A board that is there at the begin has just been created. *)
BoardsInit ==
  /\ scenario \in Scenarios /\ edits = 0 /\ sources = 0 /\ faults = 0
  /\ types = scenario.types /\ asked = types /\ overlapped = FALSE
  /\ edit = [e \in Editor |-> NoEdit]
  /\ feed = 0
  /\ cached = [i \in Replica |-> {}] /\ outdated = {}
  /\ order = [q \in Client |-> NoOrder]
  /\ columns = scenario.columns /\ config = NoConfig /\ untold = {}
  /\ IF columns = {} THEN board = "none" /\ inbox = << >>
     ELSE board = "live" /\ inbox = <<BoardEvent("board.created", columns)>>

Fault == faults < scenario.faults /\ faults' = faults + 1
May(op) == op \in scenario.ops

-----------------------------------------------------------------------------
(* The registry *)

(* What a patch names replaces what the row has. *)
Patched(rows, patch) == {patch @@ d : d \in rows}

AskEdit(e, op, patch) ==
  /\ edit[e].op = None /\ edits < scenario.edits /\ May(op)
  /\ edits' = edits + 1
  /\ edit' = [edit EXCEPT ![e] = [NoEdit EXCEPT !.op = op, !.patch = patch]]
  /\ UNCHANGED <<types, asked, overlapped, cacheVars, order, boardRow, inbox,
                 scenario, sources, faults>>

AskType(e) ==
  \/ \E d \in scenario.types : AskEdit(e, "boardtype.registered", d)
  \/ \E p \in scenario.patches : AskEdit(e, "boardtype.updated", p)
  \/ AskEdit(e, "boardtype.deleted", << >>)

Ready(e) == edit[e].op # None /\ edit[e].row = {}
Begun(e, op) == edit[e].op = op /\ edit[e].row # {}
EndEdit(e) == edit' = [edit EXCEPT ![e] = NoEdit]

(* The first statement: what is there, and what is to be written.  A       *)
(* definition that is not valid as a whole is refused.                     *)
GetBoardType(e) ==
  /\ Ready(e)
  /\ LET c == edit[e]
         row == IF c.op = "boardtype.registered" THEN IF types = {} THEN {c.patch} ELSE {}
                ELSE Patched(types, c.patch)
     IN IF row # {} /\ \A d \in row : Valid(d)
        THEN edit' = [edit EXCEPT ![e].row = row]
        ELSE EndEdit(e)
  /\ UNCHANGED <<types, asked, overlapped, edits, cacheVars, order, boardRow, inbox,
                 scenario, sources, faults>>

(* The transaction: the row and the event *)
Write(e, rows, wanted) ==
  /\ types' = rows
  /\ asked' = wanted
  /\ overlapped' = (overlapped \/ edit[e].old)
  /\ edit' = [x \in Editor |->
                IF x = e THEN NoEdit ELSE [edit[x] EXCEPT !.old = @ \/ edit[x].row # {}]]
  /\ feed' = feed + 1
  /\ UNCHANGED <<edits, cached, outdated, order, boardRow, inbox, scenario, sources, faults>>

Rollback(e) ==
  /\ EndEdit(e)
  /\ UNCHANGED <<types, asked, overlapped, edits, cacheVars, order, boardRow, inbox,
                 scenario, sources, faults>>

(* type is UNIQUE. *)
CreateBoardType(e) ==
  /\ Begun(e, "boardtype.registered")
  /\ IF types = {} THEN Write(e, edit[e].row, edit[e].row) ELSE Rollback(e)

UpdateNamedFields(e) ==              \* mutant: UPDATE sets what the patch names
  /\ Begun(e, "boardtype.updated")
  /\ IF types # {} THEN Write(e, Patched(types, edit[e].patch), Patched(asked, edit[e].patch))
     ELSE Rollback(e)

(* UPDATE sets every field of the row that was read. *)
UpdateBoardType(e) ==
  /\ Begun(e, "boardtype.updated")
  /\ IF types # {} THEN Write(e, edit[e].row, Patched(asked, edit[e].patch)) ELSE Rollback(e)

DeleteBoardType(e) ==
  /\ Begun(e, "boardtype.deleted")
  /\ IF types # {} THEN Write(e, {}, {}) ELSE Rollback(e)

-----------------------------------------------------------------------------
(* The project service's copies *)

OnlyCached == UNCHANGED <<typeVars, boardRow, inbox, scenario, sources>>
Fetching(q) == order[q].step = "store"

(* An event is delivered to one instance.  It is delivered again when it   *)
(* cannot be marked as processed.                                          *)
KeepType(i) ==                       \* mutant: the handler drops nothing
  /\ feed > 0 /\ feed' = feed - 1
  /\ OnlyCached /\ UNCHANGED <<cached, outdated, order, faults>>

HandleBoardTypeChanged(i) ==
  /\ feed > 0
  /\ \/ feed' = feed - 1 /\ UNCHANGED faults
     \/ feed' = feed /\ Fault
  /\ cached' = [cached EXCEPT ![i] = {}]
  /\ outdated' = (outdated \cup {j \in Replica : cached[j] # {}}) \ {i}
  /\ order' = [q \in Client |-> [order[q] EXCEPT !.old = @ \/ Fetching(q)]]
  /\ OnlyCached

TypeExpires(i) ==
  /\ May("expire") /\ cached[i] # {}
  /\ cached' = [cached EXCEPT ![i] = {}]
  /\ outdated' = outdated \ {i}
  /\ OnlyCached /\ UNCHANGED <<feed, order, faults>>

-----------------------------------------------------------------------------
(* Requests on the board *)

Step(q, label) ==
  order' = [order EXCEPT ![q] = IF label = None THEN NoOrder ELSE [@ EXCEPT !.step = label]]

AskBoard(q, o) ==
  /\ order[q].op = None /\ May(o.op)
  /\ sources < scenario.changes /\ sources' = sources + 1
  /\ Cardinality({p \in Client : order[p].op # None}) < scenario.clients
  /\ order' = [order EXCEPT ![q] = o]
  /\ UNCHANGED <<typeVars, cacheVars, boardRow, inbox, scenario, faults>>

Order(op, step) == [NoOrder EXCEPT !.op = op, !.step = step]

(* The client names columns and configuration, or leaves them to the type. *)
AskCreateBoard(q) ==
  /\ board = "none" /\ \A p \in Client : order[p].op # "board.created"
  /\ \E i \in Replica, o \in scenario.boards :
       AskBoard(q, [Order("board.created", "type") EXCEPT !.at = i, !.config = o.config,
                                                          !.columns = o.columns])

AskCreateColumn(q) ==
  \E c \in Column : AskBoard(q, [Order("column.created", "read") EXCEPT !.columns = {c}])

AskUpdateBoard(q) ==
  \E cfg \in Config : AskBoard(q, [Order("board.updated", "read") EXCEPT !.config = cfg])

AskDeleteBoard(q) == AskBoard(q, Order("board.deleted", "read"))

OnlyOrdered == UNCHANGED <<typeVars, boardRow, inbox, scenario, sources, faults>>

(* GetType: the copy, or a request to the registry *)
GetType(q) ==
  /\ order[q].step = "type"
  /\ LET have == cached[order[q].at]
     IN order' = [order EXCEPT ![q].types = have,
                               ![q].step = IF have # {} THEN "insert" ELSE "fetch"]
  /\ OnlyOrdered /\ UNCHANGED cacheVars

FetchType(q) ==
  /\ order[q].step = "fetch"
  /\ IF types = {} THEN Step(q, None)
     ELSE order' = [order EXCEPT ![q].types = types, ![q].step = "store"]
  /\ OnlyOrdered /\ UNCHANGED cacheVars

StoreType(q) ==
  /\ Fetching(q)
  /\ LET i == order[q].at
     IN /\ cached' = [cached EXCEPT ![i] = order[q].types]
        /\ outdated' = IF order[q].old THEN outdated \cup {i} ELSE outdated \ {i}
  /\ Step(q, "insert")
  /\ OnlyOrdered /\ UNCHANGED feed

Merged(default, asks) == IF asks = NoConfig THEN default ELSE asks

Admitted(d, cfg) == cfg \in d.schema

Tell(type, cols) == inbox' = Append(inbox, BoardEvent(type, cols))

OnlyBoard == UNCHANGED <<typeVars, cacheVars, scenario, sources>>

(* The transaction: the board with its columns, and the event *)
CreateBoard(q) ==
  /\ order[q].step = "insert"
  /\ \E d \in order[q].types :
       LET cfg == Merged(d.config, order[q].config)
           cols == IF order[q].columns = {} THEN d.columns ELSE order[q].columns
       IN IF Admitted(d, cfg)
          THEN /\ board' = "live" /\ config' = cfg /\ columns' = cols
               /\ Tell("board.created", cols)
          ELSE UNCHANGED <<board, config, columns, inbox>>
  /\ Step(q, None)
  /\ OnlyBoard /\ UNCHANGED <<untold, faults>>

GetBoard(q) ==
  /\ order[q].step = "read"
  /\ Step(q, IF board = "live" THEN "write" ELSE None)
  /\ OnlyOrdered /\ UNCHANGED cacheVars

Writes(q, type) == order[q].step = "write" /\ order[q].op = type

(* The position is UNIQUE among the board's; whether the board is still    *)
(* there is not looked at.  The event is of the same transaction.          *)
CreateColumn(q) ==
  /\ Writes(q, "column.created")
  /\ IF order[q].columns \subseteq columns THEN UNCHANGED <<columns, inbox>>
     ELSE /\ columns' = columns \cup order[q].columns
          /\ Tell("column.created", order[q].columns)
  /\ Step(q, None)
  /\ OnlyBoard /\ UNCHANGED <<board, config, untold, faults>>

(* The configuration is not validated. *)
UpdateBoard(q) ==
  /\ Writes(q, "board.updated")
  /\ IF board = "live" THEN config' = order[q].config /\ Step(q, "tell")
     ELSE UNCHANGED config /\ Step(q, None)
  /\ OnlyBoard /\ UNCHANGED <<board, columns, untold, inbox, faults>>

DeleteBoard(q) ==
  /\ Writes(q, "board.deleted")
  /\ IF board = "live" THEN board' = "deleted" /\ Step(q, "tell")
     ELSE UNCHANGED board /\ Step(q, None)
  /\ OnlyBoard /\ UNCHANGED <<config, columns, untold, inbox, faults>>

(* An event of its own, whose error is discarded.  Nobody consumes         *)
(* board.updated.                                                          *)
InsertOutboxEvent(q) ==
  /\ order[q].step = "tell"
  /\ \/ /\ IF order[q].op = "board.deleted" THEN Tell("board.deleted", {}) ELSE UNCHANGED inbox
        /\ UNCHANGED <<untold, faults>>
     \/ untold' = untold \cup {order[q].op} /\ Fault /\ UNCHANGED inbox
  /\ Step(q, None)
  /\ OnlyBoard /\ UNCHANGED <<board, config, columns>>

-----------------------------------------------------------------------------
EditTypes ==
  \E e \in Editor :
    \/ AskType(e) \/ GetBoardType(e)
    \/ CreateBoardType(e) \/ UpdateBoardType(e) \/ DeleteBoardType(e)

KeepTypes == \E i \in Replica : HandleBoardTypeChanged(i) \/ TypeExpires(i)

ServeBoard ==
  \E q \in Client :
    \/ AskCreateBoard(q) \/ AskCreateColumn(q) \/ AskUpdateBoard(q) \/ AskDeleteBoard(q)
    \/ GetType(q) \/ FetchType(q) \/ StoreType(q)
    \/ CreateBoard(q) \/ GetBoard(q) \/ CreateColumn(q) \/ UpdateBoard(q) \/ DeleteBoard(q)
    \/ InsertOutboxEvent(q)

BoardsNext == EditTypes \/ KeepTypes \/ ServeBoard

-----------------------------------------------------------------------------
(* The registry keeps every change it confirmed, unless two requests       *)
(* overlapped, and even then a definition whose default configuration its  *)
(* own schema admits, though each request patches other fields of it.      *)
DefinitionKept ==
  /\ \A d \in types : Valid(d)
  /\ overlapped \/ types = asked

(* When the events about a type's changes are handled, an instance has the *)
(* definition of the registry or none, unless an event was handled by      *)
(* another instance or while the definition was on its way.                *)
CopyIsCurrent ==
  feed = 0 => \A i \in Replica \ outdated : cached[i] \in {{}, types}

(* The definition of a board type, in the registry and in the copies: no   *)
(* change is lost that was made alone, and none that was told is missed.   *)
TypesFollow == DefinitionKept /\ CopyIsCurrent

-----------------------------------------------------------------------------
(* What the documentation says and the code does not keep *)

(* project.md:1176: the events invalidate the copy, with any number of     *)
(* instances.                                                              *)
EveryCopyInvalidated == feed = 0 => \A i \in Replica : cached[i] \in {{}, types}

(* boardregistry.md:43: the schema validates the configuration of boards;  *)
(* an update's is not validated.                                           *)
ConfigAdmitted ==
  [][\A q \in Client : UpdateBoard(q) => \A d \in types : config' \in d.schema \cup {config}]_config
=============================================================================
