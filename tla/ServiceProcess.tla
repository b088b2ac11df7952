----------------------------- MODULE ServiceProcess -----------------------------
(***************************************************************************)
(* The process of a service: cmd/server/main.go of the seven services.     *)
(*                                                                         *)
(* main opens connections, starts goroutines and serves, one step after    *)
(* the other; a step that fails ends the process, in all services but auth *)
(* by os.Exit, without what is deferred.  A signal cancels the context,    *)
(* which only statements and the goroutines' loops look at; the server     *)
(* then waits for its requests, but not for ever; what was opened is       *)
(* closed in reverse order, whether goroutines still use it or not.        *)
(***************************************************************************)
EXTENDS SequencesExt

CONSTANT Visitor     \* HTTP requests

Routine == {"outbox", "consumer", "cleanup", "backplane", "delivery"}

Open(x) == [op |-> "open", of |-> x]     \* and a deferred Close
Ping(x) == [op |-> "ping", of |-> x]     \* a statement or a command
Make(x) == [op |-> "make", of |-> x]     \* needs no Close
Go(x) == [op |-> "go", of |-> x]
Notify == [op |-> "notify", of |-> "signals"]
Serve == [op |-> "serve", of |-> "server"]

VARIABLES
  service,     \* whose process it is
  main,        \* the step main is at
  phase,       \* "starting", "waiting" (for a signal), "draining", "closing", "ended"
  opened,      \* what is open, in the order of the deferred calls
  handled,     \* are signals handled?
  cancelled,   \* is the context cancelled?
  listening,   \* "no", "soon" (its goroutine has not run yet), "yes" or "never"
  routine,     \* of each goroutine: "none", "idle", "busy" (with a connection of
               \* the pool) or "returned"
  visit,       \* of each request: "absent", "running", "querying" (with a
               \* connection), "answered", "failed" or "cut"
  gaveUp         \* history: did the server give up waiting?

processVars == <<service, main, phase, opened, handled, cancelled, listening, routine, visit, gaveUp>>

-----------------------------------------------------------------------------
(* The programs *)

AuthMain ==
  <<Open("postgres"), Ping("postgres"), Open("redis"), Ping("redis"), Open("rabbitmq"),
    Make("mail"), Ping("postgres"), Open("publisher"), Go("outbox"), Notify, Serve>>

BoardRegistryMain ==
  <<Notify, Open("postgres"), Ping("postgres"), Open("rabbitmq"), Open("publisher"),
    Go("outbox"), Serve>>

ProjectMain ==
  <<Notify, Open("postgres"), Ping("postgres"), Open("redis"), Open("rabbitmq"),
    Open("publisher"), Go("outbox"), Open("consumer"), Go("consumer"), Serve>>

TaskMain ==
  <<Notify, Open("postgres"), Ping("postgres"), Open("rabbitmq"), Open("publisher"),
    Go("outbox"), Open("consumer"), Go("consumer"), Serve>>

DocumentMain ==
  <<Notify, Open("postgres"), Ping("postgres"), Open("rabbitmq"), Make("storage"),
    Open("publisher"), Open("consumer"), Go("outbox"), Go("consumer"), Go("cleanup"), Serve>>

ImpatientNotificationMain ==         \* mutant: the goroutines start too early
  <<Notify, Open("postgres"), Ping("postgres"), Open("redis"), Ping("redis"), Open("rabbitmq"),
    Go("outbox"), Open("publisher"), Open("consumer"), Go("consumer"), Go("cleanup"),
    Go("backplane"), Serve>>

NotificationMain ==
  <<Notify, Open("postgres"), Ping("postgres"), Open("redis"), Ping("redis"), Open("rabbitmq"),
    Open("publisher"), Open("consumer"), Go("outbox"), Go("consumer"), Go("cleanup"),
    Go("backplane"), Serve>>

PluginMain ==
  <<Notify, Open("postgres"), Open("rabbitmq"), Open("publisher"), Open("consumer"),
    Go("consumer"), Go("outbox"), Go("delivery"), Serve>>

Program ==
  [auth |-> AuthMain, boardregistry |-> BoardRegistryMain, project |-> ProjectMain,
   task |-> TaskMain, document |-> DocumentMain, notification |-> NotificationMain,
   plugin |-> PluginMain]

(* In auth, main has returned from run before it exits; there and in       *)
(* plugin a server that cannot listen is logged and not more.              *)
Unwinds(s) == s = "auth"
Survives(s) == s \in {"auth", "plugin"}

(* What a goroutine or a request touches while it is at work *)
Uses(g) ==
  (IF g = "backplane" THEN {} ELSE {"postgres"})
    \cup (IF g = "outbox" THEN {"publisher", "rabbitmq"} ELSE {})
    \cup (IF g = "consumer" THEN {"consumer", "rabbitmq"} ELSE {})
    \cup (IF g \in {"backplane", "consumer"} /\ service = "notification" THEN {"redis"} ELSE {})
Needs == {"postgres"} \cup (IF service \in {"auth", "project"} THEN {"redis"} ELSE {})

-----------------------------------------------------------------------------
ProcessInit(s) ==
  /\ service = s /\ main = 1 /\ phase = "starting" /\ opened = <<>>
  /\ handled = FALSE /\ cancelled = FALSE /\ listening = "no"
  /\ routine = [g \in Routine |-> "none"]
  /\ visit = [v \in Visitor |-> "absent"]
  /\ gaveUp = FALSE

IsOpen(xs) == xs \subseteq ToSet(opened)
Active == {v \in Visitor : visit[v] \in {"running", "querying"}}
Holders == {g \in Routine \ {"backplane"} : routine[g] = "busy"}
             \cup {v \in Visitor : visit[v] = "querying"}
KeepProcess == UNCHANGED <<service, gaveUp>>
OnlyMain == KeepProcess /\ UNCHANGED <<routine, visit>>

(* What runs when main has returned, or os.Exit is called, runs no more. *)
Exit ==
  /\ phase' = "ended" /\ listening' = "never" /\ opened' = <<>>
  /\ routine' = [g \in Routine |-> IF routine[g] = "none" THEN "none" ELSE "returned"]
  /\ visit' = [v \in Visitor |-> IF v \in Active THEN "cut" ELSE visit[v]]

Statement == Program[service][main]

StartStep ==
  /\ phase = "starting"
  /\ Statement.op = "ping" => ~cancelled
  /\ main' = main + 1
  /\ opened' = IF Statement.op = "open" THEN Append(opened, Statement.of) ELSE opened
  /\ handled' = (handled \/ Statement.op = "notify")
  /\ listening' = IF Statement.op = "serve" THEN "soon" ELSE listening
  /\ phase' = IF Statement.op = "serve" THEN "waiting" ELSE phase
  /\ routine' = IF Statement.op = "go" THEN [routine EXCEPT ![Statement.of] = "idle"] ELSE routine
  /\ KeepProcess /\ UNCHANGED <<cancelled, visit>>

StartFails ==
  /\ phase = "starting" /\ Statement.op \in {"open", "ping", "make"}
  /\ IF Unwinds(service)
     THEN phase' = "closing" /\ UNCHANGED <<listening, opened, routine, visit>>
     ELSE Exit
  /\ KeepProcess /\ UNCHANGED <<main, handled, cancelled>>

(* One that comes before signals are handled ends the process. *)
Signal ==
  /\ phase # "ended"
  /\ IF handled
     THEN cancelled' = TRUE /\ UNCHANGED <<phase, listening, opened, routine, visit>>
     ELSE Exit /\ UNCHANGED cancelled
  /\ KeepProcess /\ UNCHANGED <<main, handled>>

Listen ==
  /\ listening = "soon"
  /\ listening' = "yes"
  /\ OnlyMain /\ UNCHANGED <<main, phase, opened, handled, cancelled>>

ListenFails ==
  /\ listening = "soon"
  /\ listening' = "never"
  /\ cancelled' = (cancelled \/ ~Survives(service))
  /\ OnlyMain /\ UNCHANGED <<main, phase, opened, handled>>

ShutdownAtOnce ==                    \* mutant: Close, not Shutdown
  /\ phase = "waiting" /\ cancelled
  /\ phase' = "closing" /\ listening' = "never"
  /\ OnlyMain /\ UNCHANGED <<main, opened, handled, cancelled>>

(* No request is accepted any more, nor if it only listens from now on. *)
Shutdown ==
  /\ phase = "waiting" /\ cancelled
  /\ phase' = "draining" /\ listening' = "never"
  /\ OnlyMain /\ UNCHANGED <<main, opened, handled, cancelled>>

Drained ==
  /\ phase = "draining" /\ Active = {}
  /\ phase' = "closing"
  /\ OnlyMain /\ UNCHANGED <<main, opened, handled, cancelled, listening>>

DrainTimeout ==
  /\ phase = "draining" /\ Active # {}
  /\ phase' = "closing" /\ gaveUp' = TRUE
  /\ UNCHANGED <<service, main, opened, handled, cancelled, listening, routine, visit>>

(* The pool waits for its connections. *)
CloseLast ==
  /\ phase = "closing" /\ opened # <<>>
  /\ Last(opened) = "postgres" => Holders = {}
  /\ opened' = Front(opened)
  /\ OnlyMain /\ UNCHANGED <<main, phase, handled, cancelled, listening>>

MainReturns ==
  /\ phase = "closing" /\ opened = <<>>
  /\ Exit
  /\ KeepProcess /\ UNCHANGED <<main, handled, cancelled>>

-----------------------------------------------------------------------------
(* The goroutines: a tick or a message, which may also come first when the *)
(* context is cancelled; its statements then fail.                         *)

OnlyRoutine ==
  KeepProcess /\ UNCHANGED <<main, phase, opened, handled, cancelled, listening, visit>>

Wake(g) ==
  /\ routine[g] = "idle"
  /\ g = "backplane" \/ IsOpen({"postgres"})
  /\ routine' = [routine EXCEPT ![g] = "busy"]
  /\ OnlyRoutine

Rest(g) ==
  /\ routine[g] = "busy"
  /\ routine' = [routine EXCEPT ![g] = "idle"]
  /\ OnlyRoutine

RoutineReturns(g) ==
  /\ routine[g] = "idle" /\ cancelled
  /\ routine' = [routine EXCEPT ![g] = "returned"]
  /\ OnlyRoutine

(* The requests: they have contexts of their own. *)
Visits(v, from, to) ==
  /\ visit[v] = from
  /\ visit' = [visit EXCEPT ![v] = to]
  /\ KeepProcess /\ UNCHANGED <<main, phase, opened, handled, cancelled, listening, routine>>

Arrive(v) == listening = "yes" /\ Visits(v, "absent", "running")
Query(v) == IsOpen(Needs) /\ Visits(v, "running", "querying")
QueryFails(v) == ~IsOpen(Needs) /\ Visits(v, "running", "failed")
Answer(v) == Visits(v, "querying", "answered")

ProcessNext ==
  \/ StartStep \/ StartFails \/ Signal \/ Listen \/ ListenFails
  \/ Shutdown \/ Drained \/ DrainTimeout \/ CloseLast \/ MainReturns
  \/ \E g \in Routine : Wake(g) \/ Rest(g) \/ RoutineReturns(g)
  \/ \E v \in Visitor : Arrive(v) \/ Query(v) \/ QueryFails(v) \/ Answer(v)

-----------------------------------------------------------------------------
(* A request that was accepted is answered, unless it takes longer than    *)
(* the server waits for it: it is neither cut off nor refused for what has *)
(* been closed.  A goroutine at work finds open what it uses, until the    *)
(* context is cancelled.                                                   *)
ClosedLast ==
  /\ \A v \in Visitor : visit[v] \in {"failed", "cut"} => gaveUp
  /\ \A g \in Routine : routine[g] = "busy" /\ ~cancelled => IsOpen(Uses(g))
=============================================================================
