---------------------------- MODULE MCNotifications ----------------------------
(* Model checking of Notifications, and of the listing a user reads them   *)
(* from together with the listings of the other services.  A behaviour     *)
(* follows one scenario; the instances, the events and the connections are *)
(* interchangeable.                                                        *)
EXTENDS Notifications, Listings

CONSTANTS e1, e2, u1, u2, u3, c1, c2

MCOwner == [c \in {c1, c2} |-> u1]

Deed(op, by, of, mentions) == [op |-> op, by |-> by, of |-> of, mentions |-> mentions]

(* Everything that somebody may be told about, by u1 *)
Deeds ==
  {Deed(op, u1, u, {}) : op \in {"assign", "unassign"}, u \in User}
    \cup {Deed("delete", u1, u, {}) : u \in User \cup {Nobody}}
    \cup {Deed("comment", u1, u, m) : u \in {u1, u2, Nobody}, m \in SUBSET User}
    \cup {Deed(op, u1, u2, {}) :
           op \in {"left", "add", "remove", "accept", "join", "decline"}}
    \cup {Deed("invite", u1, u, {}) : u \in {u2, Nobody}}
    \cup {Deed(op, u1, Nobody, {}) :
           op \in {"task.created", "task.updated", "task.moved", "task.status.changed",
                  "task.comment.updated", "task.comment.deleted", "task.attachment.added",
                  "task.attachment.removed", "document.uploaded", "board.created",
                  "boardtype.registered", "boardtype.updated", "boardtype.deleted",
                  "project.deleted", "project.created"}}

Removal == {Deed("remove", u2, u1, {})}
Mentions == {Deed("comment", u3, Nobody, {u1, u2})}

Telling == [ops |-> {}, deeds |-> Deeds,
            instances |-> 1, events |-> 1, channels |-> {}, conns |-> 0, calls |-> 0, faults |-> 1]
Storing == [ops |-> {"list"}, deeds |-> Removal \cup Mentions,
            instances |-> 2, events |-> 2, channels |-> {}, conns |-> 0, calls |-> 1, faults |-> 1]
Pushing == [ops |-> {"connect", "ping"}, deeds |-> Removal,
            instances |-> 1, events |-> 2, channels |-> {}, conns |-> 1, calls |-> 1, faults |-> 1]
Spreading == [ops |-> {"connect"}, deeds |-> Mentions,
              instances |-> 2, events |-> 1, channels |-> {}, conns |-> 2, calls |-> 0, faults |-> 0]
Subscribing == [ops |-> {"connect", "subscribe"}, deeds |-> Removal,
                instances |-> 1, events |-> 1, channels |-> {"project", "task"},
                conns |-> 1, calls |-> 2, faults |-> 1]

Listing == [ops |-> {"page"}, deeds |-> {},
            instances |-> 0, events |-> 0, channels |-> {}, conns |-> 0, calls |-> 0, faults |-> 0]

Reading(what, limits, ties) == [what |-> what, limits |-> limits, ties |-> ties, changes |-> 2]

(* All tasks are on the first page; no two deliveries of one webhook are   *)
(* created in the same microsecond.                                        *)
MCReadings ==
  {Reading("documents", {1, 4}, TRUE), Reading("notifications", {0, 1}, TRUE),
   Reading("deliveries", {1, 2}, FALSE), Reading("tasks", {3}, TRUE)}

(* By hand: listings that skip rows, or show them again *)
MCSmallPages == {Reading("tasks", {1}, FALSE), Reading("deliveries", {1}, TRUE)}

MCInit == NotificationsInit /\ ListingInit(IF scenario = Listing THEN Readings ELSE {NoReading})
MCNext == (NotificationsNext /\ UNCHANGED listingVars) \/ (ListingNext /\ UNCHANGED notificationVars)
MCSpec == MCInit /\ [][MCNext]_<<notificationVars, listingVars>>

MCScenarios == {Listing, Telling, Storing, Pushing, Spreading, Subscribing}

Symmetry == Permutations(Instance) \cup Permutations({c1, c2})
              \cup Permutations(EventId)
=============================================================================
