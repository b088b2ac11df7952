------------------------------- MODULE Listings -------------------------------
(***************************************************************************)
(* Listings that a client reads page by page while rows come and go: the   *)
(* documents of a project, the notifications of a user, the deliveries of  *)
(* a webhook and the tasks of a board.  Each answer carries a cursor for   *)
(* the next page, which each service makes and reads in its own way.       *)
(*                                                                         *)
(* A page is one statement.  A row is there while the listing's filter     *)
(* selects it; the client may ask for another number of rows each time.    *)
(***************************************************************************)
EXTENDS Integers, FiniteSets, Sequences

CONSTANTS
  Item,            \* ids of rows, compared as UUIDs are
  Stamp,           \* what rows are ordered by: created_at, the position of a task
  EncodedPlace,    \* where the text of an encoded cursor sorts among positions
  DefaultLimit, MaxLimit,   \* rows of a page
  MaxListed,       \* rows the MCP server lists at most
  Readings         \* bounds: what is listed, the limits the client asks for, may two
                   \* rows have one stamp, the changes of the rows there are

ASSUME ListingsAssumption ==
  /\ Item \subseteq Nat /\ IsFiniteSet(Item) /\ 1 \in Stamp /\ Stamp \subseteq Nat /\ EncodedPlace \in Nat
  /\ DefaultLimit \in Nat \ {0} /\ MaxLimit \in Nat \ {0} /\ MaxListed \in Nat \ {0}
  /\ \A x \in Readings : x.limits \subseteq Int /\ x.changes \in Nat

NoReading == [what |-> "nothing", limits |-> {}, ties |-> TRUE, changes |-> 0]

VARIABLES
  reading,    \* what is listed in this behaviour
  there,      \* the rows the filter selects
  gone,       \* those it selected once
  stamp,      \* of each row that is there or will be
  reader,     \* the client: "asks", "done" or "cut"
  cursor,     \* the cursor it was sent, if any
  listed,     \* the rows it was sent
  stayed,     \* history: the rows that have been there, unmoved, since it began
  changes

listingVars == <<reading, there, gone, stamp, reader, cursor, listed, stayed, changes>>

(* The client has not asked for its first page. *)
ListingInit(readings) ==
  /\ reading \in readings
  /\ stamp \in [Item -> IF reading = NoReading THEN {1} ELSE Stamp]
  /\ reading.ties \/ \A i, j \in Item : stamp[i] = stamp[j] => i = j
  /\ there \in SUBSET (IF reading = NoReading THEN {} ELSE Item)
  /\ stayed = there /\ gone = {}
  /\ reader = "asks" /\ cursor = {} /\ listed = << >>
  /\ changes = 0

-----------------------------------------------------------------------------
(* Rows *)

Changed == changes < reading.changes /\ changes' = changes + 1
OnlyRows == UNCHANGED <<reading, reader, cursor, listed>>

(* A row is committed some time after the stamp it has was taken. *)
Appears(i) ==
  /\ i \notin there \cup gone /\ Changed
  /\ there' = there \cup {i}
  /\ OnlyRows /\ UNCHANGED <<gone, stamp, stayed>>

Leaves(i) ==
  /\ i \in there /\ Changed
  /\ there' = there \ {i} /\ gone' = gone \cup {i}
  /\ stayed' = stayed \ {i}
  /\ OnlyRows /\ UNCHANGED stamp

(* Only a task's position changes. *)
Moves(i) ==
  /\ reading.what = "tasks" /\ i \in there /\ Changed
  /\ \E s \in Stamp \ {stamp[i]} : stamp' = [stamp EXCEPT ![i] = s]
  /\ stayed' = stayed \ {i}
  /\ OnlyRows /\ UNCHANGED <<there, gone>>

-----------------------------------------------------------------------------
(* Pages *)

Older(i, at, id) == stamp[i] < at \/ (stamp[i] = at /\ i < id)

(* ORDER BY: the n-th row is the one that n - 1 rows come before. *)
NewestFirst(rows) ==
  [n \in 1..Cardinality(rows) |->
     CHOOSE i \in rows : Cardinality({j \in rows : Older(i, stamp[j], j)}) = n - 1]
OldestFirst(rows) ==
  [n \in 1..Cardinality(rows) |->
     CHOOSE i \in rows : Cardinality({j \in rows : Older(j, stamp[i], i)}) = n - 1]
Limit(rows, n) == SubSeq(rows, 1, IF n < Len(rows) THEN n ELSE Len(rows))

CursorAt(row) == {[at |-> stamp[row], id |-> row]}
Clamped(asked) == IF asked \in 1..MaxLimit THEN asked ELSE DefaultLimit

(* One row more than the page tells whether there is another page. *)
PageOf(rows, n) ==
  [rows |-> Limit(rows, n), next |-> IF Len(rows) > n THEN CursorAt(rows[n]) ELSE {}]

Answer(page, state) ==
  /\ listed' = listed \o page.rows
  /\ cursor' = page.next
  /\ reader' = state
  /\ UNCHANGED <<reading, there, gone, stamp, stayed, changes>>

(* A client asks until there is no cursor. *)
Serve(what, pages) ==
  /\ reading.what = what /\ reader = "asks"
  /\ \E page \in pages : Answer(page, IF page.next = {} THEN "done" ELSE "asks")

(* Documents: (created_at, id) < the cursor *)
CreatedBefore(n) ==                  \* mutant: the cursor's time alone
  Limit(NewestFirst({i \in there : \A c \in cursor : stamp[i] < c.at}), n)

ListDocumentsByProject(n) ==
  Limit(NewestFirst({i \in there : \A c \in cursor : Older(i, c.at, c.id)}), n)

DocumentPage(asked) == LET n == Clamped(asked) IN PageOf(ListDocumentsByProject(n + 1), n)

ListDocuments == Serve("documents", {DocumentPage(asked) : asked \in reading.limits})

(* Notifications: the cursor is decoded, put into a text and parsed again. *)
NotificationsOfUser(n) ==
  Limit(NewestFirst({i \in there : \A c \in cursor : Older(i, c.at, c.id)}), n)

NotificationPage(asked) == LET n == Clamped(asked) IN PageOf(NotificationsOfUser(n + 1), n)

ListNotifications == Serve("notifications", {NotificationPage(asked) : asked \in reading.limits})

(* Deliveries: of the cursor only its time is used, and a page that is     *)
(* full has a cursor.                                                      *)
CursorTime == {c.at : c \in cursor}

ListDeliveriesByWebhook(n) ==
  Limit(NewestFirst({i \in there : \A at \in CursorTime : stamp[i] < at}), n)

DeliveryPage(asked) ==
  LET n == IF asked <= 0 THEN DefaultLimit ELSE IF asked > MaxLimit THEN MaxLimit ELSE asked
      rows == ListDeliveriesByWebhook(n)
  IN [rows |-> rows, next |-> IF Len(rows) = n THEN CursorAt(rows[n]) ELSE {}]

ListDeliveries == Serve("deliveries", {DeliveryPage(asked) : asked \in reading.limits})

(* Tasks: the cursor is encoded and never decoded; positions are compared  *)
(* with its text.                                                          *)
CursorText == {EncodedPlace : c \in cursor}

ListTasksByBoard(n) ==
  Limit(OldestFirst({i \in there : \A place \in CursorText : stamp[i] > place}), n)

TaskPage(asked) == LET n == Clamped(asked) IN PageOf(ListTasksByBoard(n + 1), n)

(* The MCP server, which ends at an empty page and at its bound too *)
ListTasks ==
  /\ reading.what = "tasks" /\ reader = "asks"
  /\ \E asked \in reading.limits :
       LET page == TaskPage(asked)
       IN Answer(page, IF page.next = {} \/ page.rows = << >> THEN "done"
                       ELSE IF Len(listed \o page.rows) >= MaxListed THEN "cut" ELSE "asks")

-----------------------------------------------------------------------------
ListingNext ==
  \/ \E i \in Item : Appears(i) \/ Leaves(i) \/ Moves(i)
  \/ ListDocuments \/ ListNotifications \/ ListDeliveries \/ ListTasks

ListingSpec == ListingInit(Readings) /\ [][ListingNext]_listingVars

-----------------------------------------------------------------------------
(* Who reads a listing to its end has been sent every row that stayed      *)
(* there meanwhile, once and in the listing's order, whatever else came,   *)
(* went and moved between its pages.                                       *)
ListedOnce ==
  /\ reader = "done" => \A i \in stayed : \E a \in 1..Len(listed) : listed[a] = i
  /\ \A a, b \in 1..Len(listed) :
       a < b /\ {listed[a], listed[b]} \subseteq stayed =>
         IF reading.what = "tasks" THEN Older(listed[a], stamp[listed[b]], listed[b])
         ELSE Older(listed[b], stamp[listed[a]], listed[a])
=============================================================================
