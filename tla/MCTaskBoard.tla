------------------------------ MODULE MCTaskBoard ------------------------------
(* Model checking of TaskBoard.  A behaviour follows one of the scenarios; *)
(* tasks, users and requests are interchangeable.  c1 was created with the *)
(* default status, c2 with one that no task has.                           *)
EXTENDS TaskBoard, TLC

CONSTANTS c1, c2

MCColumnStatus == (c1 :> "") @@ (c2 :> "shipped")
MCNameStatus == [c \in {c1, c2} |-> "done"]

Kanban == [config |-> NoConfig, schema |-> {NoConfig, "a"}, columns |-> {c1}]
AnyBoard == [config |-> NoConfig, columns |-> {}]

(* A board that has one column *)
Tasks(ops, nCalls, nChanges, nAtOnce, nFaults) ==
  [ops |-> ops, types |-> {Kanban}, columns |-> {c1}, patches |-> {}, boards |-> {},
   edits |-> 0, clients |-> 2,
   calls |-> nCalls, changes |-> nChanges, atOnce |-> nAtOnce, faults |-> nFaults]

Sorting == Tasks({"create", "move", "delete"}, 5, 0, 1, 0)
Placing == Tasks({"board.deleted", "project.deleted", "column.created", "create"},
                 2, 2, 1, 1)
Assigning == Tasks({"project.member.removed", "user.deleted", "create", "assign", "update"},
                   3, 1, 2, 1)
Moving == Tasks({"column.created", "create", "update", "move"}, 3, 1, 2, 1)

(* The type changes while boards are made after it. *)
Typing ==
  [ops |-> {"boardtype.registered", "boardtype.updated", "boardtype.deleted", "expire",
            "board.created", "board.updated"},
   types |-> {Kanban}, columns |-> {},
   patches |-> {[config |-> "a"], [schema |-> {}], [columns |-> {c2}]},
   boards |-> {AnyBoard, [config |-> "a", columns |-> {c2}]},
   edits |-> 2, clients |-> 2, calls |-> 0, changes |-> 2, atOnce |-> 0, faults |-> 1]

MCScenarios == {Sorting, Placing, Assigning, Moving, Typing}

MCSchemas == {{NoConfig, "a"}, {}}

Symmetry == UNION {Permutations(S) : S \in {Task, User, Request, Editor, Replica, Client}}
=============================================================================
