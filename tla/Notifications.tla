----------------------------- MODULE Notifications -----------------------------
(***************************************************************************)
(* The notification service: events become rows for their recipients       *)
(* (events/dispatcher.go) and frames, which Redis Pub/Sub carries to every *)
(* instance (push/backplane.go) and the instance's hub to the open         *)
(* WebSocket connections (ws/hub.go, ws/connection.go).                    *)
(*                                                                         *)
(* Goroutines: per instance one that handles events and one that routes    *)
(* frames; per connection a reader and a writer.  There is one channel of  *)
(* each sort: one project, one of its boards, one of its tasks.  The limit *)
(* of 50 subscriptions of a connection is not reached.                     *)
(***************************************************************************)
EXTENDS Naturals, FiniteSetsExt, EventDispatch

CONSTANTS
  Instance, User,
  EventId,
  Conn,            \* WebSocket connections
  Owner,           \* the user of each
  BufSize,         \* frames a connection's channel holds, 64 in the code
  Scenarios        \* bounds: what happens in one behaviour, the deeds events may be
                   \* about, the instances, events and connections there are, the
                   \* channels and the number of clients' requests, the failures

None == "none"
Channel == {"project", "board", "task", "boardtypes"}

ASSUME NotificationsAssumption ==
  /\ Owner \in [Conn -> User]
  /\ User \cap (Channel \cup {Nobody, "reply"}) = {}
  /\ BufSize \in Nat \ {0}
  /\ \A x \in Scenarios :
       /\ {x.instances, x.events, x.conns, x.calls, x.faults} \subseteq Nat
       /\ x.channels \subseteq Channel
       /\ x.deeds \subseteq [op : STRING, by : User, of : User \cup {Nobody}, mentions : SUBSET User]

(* A frame is for a user or a channel, or the answer to a connection; no   *)
(* is its place among those that were published.                           *)
ReplyFrame == [to |-> "reply", event |-> None, kind |-> None, no |-> 0]
NoJob == [event |-> None, todo |-> {}, push |-> {}, channels |-> << >>, step |-> "idle"]
NoConn == [st |-> "none", at |-> None, since |-> 0, hub |-> FALSE, closed |-> FALSE,
           writing |-> FALSE, subs |-> {}, buf |-> << >>, got |-> << >>,
           ask |-> None, answer |-> None]

VARIABLES
  waiting,     \* the events in the service's queue
  processedEvents,   \* processed_events
  about,       \* the deed each of them is about
  job,         \* the event each instance handles: the notifications still to be
               \* stored, the one being pushed, the channels to be told
  rows,        \* notifications: <<user, event, kind>>
  read,        \* those that were read
  log,         \* what was published to Redis
  up,          \* the instances that run
  at,          \* how much of the log each has taken
  targets,     \* the connections it still has to send the last of it to
  conn,        \* the connections
  member,      \* project service: the members of the project
  cache,       \* projectclient: each instance's cached answers
  removed,     \* history: rows that were deleted
  unsaved,     \* history: rows that could not be stored
  missed,      \* history: connections of an instance that lost frames of Redis
  stale,       \* history: connections whose permission is older than a removal
  scenario, calls, faults

storeVars == <<waiting, processedEvents, about, job, rows, read, removed, unsaved>>
routeVars == <<up, at, targets, missed>>
permissionVars == <<member, cache, stale>>
bounds == <<scenario, calls, faults>>
notificationVars == <<storeVars, log, routeVars, conn, permissionVars, bounds>>

NotificationsInit ==
  /\ scenario \in Scenarios /\ calls = 0 /\ faults = 0
  /\ waiting \in kSubset(scenario.events, EventId) /\ processedEvents = {}
  /\ about \in [waiting -> scenario.deeds]
  /\ job = [i \in Instance |-> NoJob]
  /\ rows = {} /\ read = {}
  /\ log = << >>
  /\ up \in kSubset(scenario.instances, Instance)
  /\ at = [i \in Instance |-> 0]
  /\ targets = [i \in Instance |-> {}]
  /\ conn = [c \in Conn |-> NoConn]
  /\ member = User
  /\ cache = [i \in Instance |-> [u \in User |-> None]]
  /\ removed = {} /\ unsaved = {} /\ missed = {} /\ stale = {}

Fault == faults < scenario.faults /\ faults' = faults + 1
May(op) == op \in scenario.ops

-----------------------------------------------------------------------------
(* Handling of events *)

SetJob(i, j) == job' = [job EXCEPT ![i] = j]
OnlyHandled == UNCHANGED <<about, read, log, routeVars, conn, permissionVars, scenario, calls>>

(* A duplicate of a processed event is acknowledged at once. *)
TakeEvent(i) ==
  /\ i \in up /\ job[i] = NoJob
  /\ \E e \in waiting :
       /\ waiting' = waiting \ {e}
       /\ IF e \in processedEvents THEN UNCHANGED job
          ELSE LET result == Dispatch(Written(about[e]))
               IN SetJob(i, [event |-> e, todo |-> result.told, push |-> {},
                             channels |-> result.pushes, step |-> "save"])
  /\ OnlyHandled /\ UNCHANGED <<processedEvents, rows, removed, unsaved, faults>>

ToSave(i, n) == /\ job[i].step = "save" /\ job[i].push = {}
                /\ n \in job[i].todo
Row(i, n) == <<n[1], job[i].event, n[2]>>
Duplicate(r) == r \in rows          \* ON CONFLICT (user_id, source_event_id)

SaveUntilDuplicate(i, n) ==          \* mutant: a duplicate ends the loop
  /\ ToSave(i, n)
  /\ IF Duplicate(Row(i, n))
     THEN SetJob(i, [job[i] EXCEPT !.todo = {}]) /\ UNCHANGED rows
     ELSE /\ rows' = rows \cup {Row(i, n)}
          /\ SetJob(i, [job[i] EXCEPT !.push = {n}])
  /\ OnlyHandled /\ UNCHANGED <<waiting, processedEvents, removed, unsaved, faults>>

CreateNotification(i, n) ==
  /\ ToSave(i, n)
  /\ IF Duplicate(Row(i, n))
     THEN SetJob(i, [job[i] EXCEPT !.todo = @ \ {n}]) /\ UNCHANGED rows
     ELSE /\ rows' = rows \cup {Row(i, n)}
          /\ SetJob(i, [job[i] EXCEPT !.push = {n}])
  /\ OnlyHandled /\ UNCHANGED <<waiting, processedEvents, removed, unsaved, faults>>

(* The error is logged and the notification skipped. *)
CreateFails(i, n) ==
  /\ ToSave(i, n)
  /\ SetJob(i, [job[i] EXCEPT !.todo = @ \ {n}])
  /\ unsaved' = unsaved \cup {Row(i, n)}
  /\ Fault
  /\ OnlyHandled /\ UNCHANGED <<waiting, processedEvents, rows, removed>>

PublishFrame(to, e, kind) ==
  log' = Append(log, [to |-> to, event |-> e, kind |-> kind, no |-> Len(log) + 1])

OnlyPushed == UNCHANGED <<waiting, processedEvents, about, rows, read, removed, unsaved, routeVars,
                          conn, permissionVars, scenario, calls>>

(* A failed publish is logged and nothing else. *)
BroadcastToUser(i) ==
  /\ \E n \in job[i].push :
       /\ \/ PublishFrame(n[1], job[i].event, n[2]) /\ UNCHANGED faults
          \/ Fault /\ UNCHANGED log
       /\ SetJob(i, [job[i] EXCEPT !.todo = @ \ {n}, !.push = {}])
  /\ OnlyPushed

BroadcastToChannel(i) ==
  /\ job[i].step = "save" /\ job[i].todo = {} /\ job[i].channels # << >>
  /\ \/ PublishFrame(Head(job[i].channels), job[i].event, "event") /\ UNCHANGED faults
     \/ Fault /\ UNCHANGED log
  /\ SetJob(i, [job[i] EXCEPT !.channels = Tail(@)])
  /\ OnlyPushed

MarkEventProcessed(i) ==
  /\ job[i].step = "save" /\ job[i].todo = {} /\ job[i].channels = << >>
  /\ processedEvents' = processedEvents \cup {job[i].event}
  /\ SetJob(i, [job[i] EXCEPT !.step = "ack"])
  /\ OnlyHandled /\ UNCHANGED <<waiting, rows, removed, unsaved, faults>>

Acknowledge(i) ==
  /\ job[i].step = "ack"
  /\ SetJob(i, NoJob)
  /\ OnlyHandled /\ UNCHANGED <<waiting, processedEvents, rows, removed, unsaved, faults>>

(* The event could not be marked, or not be acknowledged: it is requeued. *)
RequeueEvent(i) ==
  /\ job[i] # NoJob /\ job[i].todo = {} /\ job[i].channels = << >>
  /\ waiting' = waiting \cup {job[i].event}
  /\ SetJob(i, NoJob)
  /\ Fault
  /\ OnlyHandled /\ UNCHANGED <<processedEvents, rows, removed, unsaved>>

-----------------------------------------------------------------------------
(* The user's requests and the cleanup *)

Called == calls < scenario.calls /\ calls' = calls + 1
OnlyStored == UNCHANGED <<waiting, processedEvents, about, job, unsaved, log, routeVars, conn,
                          permissionVars, scenario, faults>>

MarkRead(r) ==
  /\ May("list") /\ r \in rows \ read /\ Called
  /\ read' = read \cup {r}
  /\ OnlyStored /\ UNCHANGED <<rows, removed>>

MarkAllRead(u) ==
  /\ May("list") /\ Called
  /\ read' = read \cup {r \in rows : r[1] = u}
  /\ OnlyStored /\ UNCHANGED <<rows, removed>>

Delete(which) ==
  /\ rows' = rows \ which
  /\ read' = read \ which
  /\ removed' = removed \cup which
  /\ OnlyStored

DeleteNotification(r) == May("list") /\ r \in rows /\ Called /\ Delete({r})

(* The rows older than the retention: of some of the events *)
DeleteOldNotifications ==
  /\ May("list") /\ Called
  /\ \E old \in SUBSET processedEvents \ {{}} : Delete({r \in rows : r[2] \in old})

-----------------------------------------------------------------------------
(* The hub *)

Set(c, k) == conn' = [conn EXCEPT ![c] = k]

DropWhenFull(k, f) ==                \* mutant: the frame is dropped
  IF Len(k.buf) < BufSize THEN [k EXCEPT !.buf = Append(@, f)] ELSE k

(* Conn.Send: a connection whose channel is full is closed. *)
SendTo(k, f) ==
  IF Len(k.buf) < BufSize THEN [k EXCEPT !.buf = Append(@, f)]
  ELSE [k EXCEPT !.closed = TRUE]

(* What the hub finds under its lock; the frames are sent after it. *)
Targets(i, f) ==
  {c \in Conn : conn[c].hub /\ conn[c].at = i /\
                IF f.to \in Channel THEN f.to \in conn[c].subs ELSE Owner[c] = f.to}

Route(i) ==
  /\ May("connect")
  /\ i \in up /\ targets[i] = {} /\ at[i] < Len(log)
  /\ at' = [at EXCEPT ![i] = @ + 1]
  /\ targets' = [targets EXCEPT ![i] = Targets(i, log[at[i] + 1])]
  /\ UNCHANGED <<storeVars, log, up, missed, conn, permissionVars, bounds>>

Send(i, c) ==
  /\ c \in targets[i] /\ ~conn[c].closed
  /\ targets' = [targets EXCEPT ![i] = @ \ {c}]
  /\ Set(c, SendTo(conn[c], log[at[i]]))
  /\ UNCHANGED <<storeVars, log, up, at, missed, permissionVars, bounds>>

(* The instance ends with all its connections; its event is requeued. *)
Stop(i) ==
  /\ up' = up \ {i}
  /\ targets' = [targets EXCEPT ![i] = {}]
  /\ conn' = [c \in Conn |-> IF conn[c].at = i
                             THEN [conn[c] EXCEPT !.st = "left", !.hub = FALSE, !.ask = None,
                                                  !.answer = None]
                             ELSE conn[c]]
  /\ waiting' = waiting \cup ({job[i].event} \ {None})
  /\ job' = [job EXCEPT ![i] = NoJob]
  /\ cache' = [cache EXCEPT ![i] = [u \in User |-> None]]
  /\ UNCHANGED <<processedEvents, about, rows, read, removed, unsaved, log, at, missed, member, stale,
                 scenario, calls>>

(* A send on a closed channel panics, and no one recovers. *)
Panic(i) ==
  /\ \E c \in targets[i] : conn[c].closed
  /\ Stop(i) /\ UNCHANGED faults

Crash(i) == i \in up /\ Stop(i) /\ Fault

(* Pub/Sub keeps nothing for who does not listen. *)
Restart(i) ==
  /\ i \notin up /\ Cardinality(up) < scenario.instances
  /\ up' = up \cup {i}
  /\ at' = [at EXCEPT ![i] = Len(log)]
  /\ UNCHANGED <<storeVars, log, targets, missed, conn, permissionVars, bounds>>

LoseRedis(i) ==
  /\ May("connect")
  /\ i \in up /\ at[i] < Len(log)
  /\ at' = [at EXCEPT ![i] = Len(log)]
  /\ targets' = [targets EXCEPT ![i] = {}]
  /\ missed' = missed \cup {c \in Conn : conn[c].at = i}
  /\ Fault
  /\ UNCHANGED <<storeVars, log, up, conn, permissionVars, scenario, calls>>

-----------------------------------------------------------------------------
(* Connections *)

OnlyConnected == UNCHANGED <<storeVars, log, routeVars, member, cache, scenario>>

RegisterConnection(c, i) ==
  /\ May("connect") /\ conn[c] = NoConn /\ i \in up
  /\ Cardinality({d \in Conn : conn[d] # NoConn}) < scenario.conns
  /\ Set(c, [NoConn EXCEPT !.st = "registered", !.at = i, !.since = at[i], !.hub = TRUE])
  /\ OnlyConnected /\ UNCHANGED <<stale, calls, faults>>

(* Redis refuses: the connection is closed, but stays in the hub. *)
RegisterFails(c) ==
  /\ conn[c].st = "registered"
  /\ Set(c, [conn[c] EXCEPT !.st = "left", !.closed = TRUE])
  /\ Fault
  /\ OnlyConnected /\ UNCHANGED <<stale, calls>>

(* The connected frame; the writer and the reader begin. *)
OpenConnection(c) ==
  /\ conn[c].st = "registered"
  /\ Set(c, SendTo([conn[c] EXCEPT !.st = "open", !.writing = TRUE], ReplyFrame))
  /\ OnlyConnected /\ UNCHANGED <<stale, calls, faults>>

RunWriter(c) ==
  /\ conn[c].writing /\ ~conn[c].closed /\ conn[c].st = "open" /\ conn[c].buf # << >>
  /\ Set(c, [conn[c] EXCEPT !.buf = Tail(@), !.got = Append(@, Head(conn[c].buf))])
  /\ OnlyConnected /\ UNCHANGED <<stale, calls, faults>>

(* The client does not read: the writer ends, the connection stays. *)
WriteFails(c) ==
  /\ conn[c].writing /\ conn[c].st = "open"
  /\ Set(c, [conn[c] EXCEPT !.writing = FALSE])
  /\ Fault
  /\ OnlyConnected /\ UNCHANGED <<stale, calls>>

(* The client leaves, is silent for too long, or the connection was closed. *)
ReaderEnds(c) ==
  /\ conn[c].st = "open"
  /\ Set(c, [conn[c] EXCEPT !.st = "left", !.hub = FALSE, !.ask = None,
                             !.answer = None])
  /\ OnlyConnected /\ UNCHANGED <<stale, calls, faults>>

Reads(c) == conn[c].st = "open" /\ ~conn[c].closed /\ conn[c].ask = None

Ping(c) ==
  /\ May("ping") /\ Reads(c) /\ Called
  /\ Set(c, SendTo(conn[c], ReplyFrame))
  /\ OnlyConnected /\ UNCHANGED <<stale, faults>>

Subscribe(c, ch) ==
  /\ May("subscribe") /\ Reads(c) /\ Called
  /\ Set(c, [conn[c] EXCEPT !.ask = ch])
  /\ OnlyConnected /\ UNCHANGED <<stale, faults>>

Unsubscribe(c, ch) ==
  /\ May("subscribe") /\ Reads(c) /\ Called
  /\ ch \in conn[c].subs
  /\ Set(c, [conn[c] EXCEPT !.subs = @ \ {ch}])
  /\ OnlyConnected /\ UNCHANGED <<stale, faults>>

Asked(c) == conn[c].ask # None /\ conn[c].answer = None

AnyChannel(c) ==                     \* mutant: no channel is checked
  /\ Asked(c)
  /\ Set(c, [conn[c] EXCEPT !.answer = "yes"])
  /\ OnlyConnected /\ UNCHANGED <<stale, calls, faults>>

(* Only a project's channel is checked; the project client keeps its       *)
(* answer for 30 seconds.                                                  *)
CheckChannelPermission(c) ==
  /\ Asked(c)
  /\ LET i == conn[c].at
         u == Owner[c]
         answer == IF conn[c].ask # "project" THEN "yes"
                   ELSE IF cache[i][u] # None THEN cache[i][u]
                   ELSE IF u \in member THEN "yes" ELSE "no"
     IN /\ cache' = IF conn[c].ask = "project" THEN [cache EXCEPT ![i][u] = answer] ELSE cache
        /\ Set(c, [conn[c] EXCEPT !.answer = answer])
        /\ stale' = IF answer = "yes" /\ u \notin member THEN stale \cup {c} ELSE stale
  /\ UNCHANGED <<storeVars, log, routeVars, member, bounds>>

(* The answer to the client is sent to its connection like a frame; if     *)
(* that was closed meanwhile, the panic ends the reader only.              *)
AddSubscription(c) ==
  /\ conn[c].answer # None
  /\ LET k == [conn[c] EXCEPT !.ask = None, !.answer = None,
                              !.subs = IF conn[c].answer = "yes" THEN @ \cup {conn[c].ask} ELSE @]
     IN Set(c, IF k.closed THEN [k EXCEPT !.st = "left", !.hub = FALSE]
               ELSE SendTo(k, ReplyFrame))
  /\ OnlyConnected /\ UNCHANGED <<stale, calls, faults>>

MemberLeaves(u) ==
  /\ May("subscribe") /\ u \in member /\ \E c \in Conn : Owner[c] = u
  /\ member' = member \ {u}
  /\ stale' = stale \cup {c \in Conn : Owner[c] = u /\
                                       (conn[c].answer = "yes" \/ "project" \in conn[c].subs)}
  /\ UNCHANGED <<storeVars, log, routeVars, conn, cache, bounds>>

CacheExpires(i, u) ==
  /\ cache[i][u] # None
  /\ cache' = [cache EXCEPT ![i][u] = None]
  /\ UNCHANGED <<storeVars, log, routeVars, conn, member, stale, bounds>>

-----------------------------------------------------------------------------
Handle(i) ==
  \/ TakeEvent(i) \/ \E n \in job[i].todo : CreateNotification(i, n) \/ CreateFails(i, n)
  \/ BroadcastToUser(i) \/ BroadcastToChannel(i)
  \/ MarkEventProcessed(i) \/ Acknowledge(i) \/ RequeueEvent(i)

Connection(c) ==
  \/ \E i \in Instance : RegisterConnection(c, i)
  \/ RegisterFails(c) \/ OpenConnection(c) \/ RunWriter(c) \/ WriteFails(c) \/ ReaderEnds(c)
  \/ Ping(c) \/ \E ch \in scenario.channels : Subscribe(c, ch) \/ Unsubscribe(c, ch)
  \/ CheckChannelPermission(c) \/ AddSubscription(c)

NotificationsNext ==
  \/ \E i \in Instance :
       \/ Handle(i)
       \/ Route(i) \/ Panic(i) \/ Crash(i) \/ Restart(i) \/ LoseRedis(i)
       \/ \E c \in Conn : Send(i, c)
       \/ \E u \in User : CacheExpires(i, u)
  \/ \E u \in User : MarkAllRead(u) \/ MemberLeaves(u)
  \/ \E r \in rows : MarkRead(r) \/ DeleteNotification(r)
  \/ DeleteOldNotifications
  \/ \E c \in Conn : Connection(c)

NotificationsSpec == NotificationsInit /\ [][NotificationsNext]_notificationVars

-----------------------------------------------------------------------------
(* Whom a deed concerns: the documentation's table, notification.md:697,   *)
(* of which the invitations are missing, as far as the code keeps it.      *)
Concerned(d) ==
  CASE d.op \in {"assign", "delete"} -> {d.of} \ {d.by, Nobody}
    [] d.op = "comment" -> d.mentions \ {d.by}
    [] d.op = "join"    -> {d.by}
    [] d.op \in {"unassign", "left", "add", "remove", "invite", "accept", "decline"} ->
         {d.of} \ {Nobody}
    [] OTHER -> {}

(* Whom an event concerns finds it in his list once the event is           *)
(* processed, however often it was handled and cut short before, unless    *)
(* the row could not be stored or was deleted; and nobody else finds it.   *)
StoredForAll ==
  /\ \A e \in processedEvents : \A u \in Concerned(about[e]) :
       \E r \in rows \cup removed \cup unsaved : r[1] = u /\ r[2] = e
  /\ \A r \in rows : r[1] \in Concerned(about[r[2]])

(* He is pushed it once, whatever he is to the event and however often it  *)
(* is delivered, unless he deleted it in between.                          *)
PushedOnce ==
  \A i, j \in 1..Len(log) :
    /\ i < j /\ log[i].to = log[j].to /\ log[i].event = log[j].event
    /\ log[i].to \notin Channel
    => <<log[i].to, log[i].event, log[i].kind>> \in removed

(* An open connection misses nothing: it has been sent, or holds, exactly  *)
(* the frames of its user that its instance has taken from Redis since the *)
(* connection was registered, in their order.  Who is too slow is closed   *)
(* instead.                                                                *)
NoGaps ==
  \A c \in Conn \ missed :
    LET k == conn[c]
        now == IF c \in targets[k.at] THEN at[k.at] - 1 ELSE at[k.at]
        sent == k.got \o k.buf
        own == {n \in 1..Len(sent) : sent[n].to = Owner[c]}
    IN k.hub /\ ~k.closed /\ (k.writing \/ k.st = "registered") =>
         /\ {sent[n] : n \in own} = {log[n] : n \in {m \in (k.since + 1)..now : log[m].to = Owner[c]}}
         /\ \A m, n \in own : m < n => sent[m].no < sent[n].no

(* Both of it: what is pushed to a user is not pushed again, and arrives.  *)
PushesArrive == PushedOnce /\ NoGaps

(* A connection is subscribed to a project's channel when its user is a    *)
(* member, or was when he was asked about.                                 *)
SubscribedMembers ==
  \A c \in Conn : "project" \in conn[c].subs => Owner[c] \in member \/ c \in stale

-----------------------------------------------------------------------------
(* What the documentation says and the code does not keep *)

(* connection.go:46: a slow connection is closed, and no more than that. *)
NoPanic == \A i \in Instance : \A c \in targets[i] : ~conn[c].closed

(* notification.md:534: the connected frame is the first. *)
ConnectedFirst == \A c \in Conn : conn[c].got # << >> => conn[c].got[1] = ReplyFrame

(* notification.md:705, :708: who unassigns himself is not told, and the   *)
(* assignee of a task that is commented on is.  The payloads name the one  *)
(* as assigned_by (task/internal/domain/service_impl.go:322) and leave out *)
(* the other (:405).                                                       *)
ToldAsDocumented ==
  \A e \in processedEvents :
    LET d == about[e]
    IN /\ d.op = "unassign" /\ d.by = d.of => ~\E r \in rows : r[2] = e
       /\ d.op = "comment" /\ d.of \notin {d.by, Nobody} =>
            \E r \in rows \cup removed \cup unsaved : r[1] = d.of /\ r[2] = e
=============================================================================
