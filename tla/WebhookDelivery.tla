---------------------------- MODULE WebhookDelivery ----------------------------
(***************************************************************************)
(* The webhook deliveries of one project: services/domain/plugin           *)
(* (domain/service_impl.go, delivery/worker.go, retry.go,                  *)
(* breaker_registry.go, repository/postgres.go).                           *)
(*                                                                         *)
(* A consumed event becomes one delivery per matching webhook; the workers *)
(* of one process POST the deliveries and record the outcome.  Every       *)
(* database statement and every POST is a step of its own.                 *)
(***************************************************************************)
EXTENDS Naturals

CONSTANTS
  Webhook, Url,
  Event,          \* events that match the filter of every webhook
  Delivery,       \* bound: ids of rows of webhook_deliveries
  Worker,
  MaxAttempts,    \* maxAttempts
  Threshold,      \* BREAKER_CONSECUTIVE_FAILURES
  Answer,         \* how a POST may end
  MaxChanges,     \* bound: requests that change webhooks, or delete the project
  MaxFaults       \* bound: failed statements, restarts of the process

ASSUME ConstantsAssumption ==
  /\ MaxAttempts \in Nat \ {0}
  /\ Threshold \in Nat \ {0}
  /\ Answer \subseteq {"ok", "retry", "permanent", "gone"}
  /\ MaxChanges \in Nat
  /\ MaxFaults \in Nat

None == "none"

(* A row of webhook_deliveries.  Of attempt_count only what the code       *)
(* compares it with matters: it is not counted beyond MaxAttempts.         *)
NoRow == [status |-> "absent", hook |-> None, event |-> None, attempts |-> 0]

(* What a worker holds between two steps: the delivery and the             *)
(* attempt_count it read, the URL it read, how the POST ended, and whether *)
(* the breaker's generation that admitted it still lasts.                  *)
Idle == [pc |-> "idle", job |-> None, count |-> 0, url |-> None, answer |-> None,
         current |-> FALSE]

VARIABLES
  hook,        \* webhooks: "absent", "active", "inactive" or "deleted"
  url,         \* target_url of each
  leaving,     \* webhooks that DeleteWebhook is about to delete
  project,     \* "known", "deleting" its webhooks, or "deleted"
  row,         \* webhook_deliveries
  due,         \* has the row's next_attempt_at come?
  before,      \* the due rows whose next_attempt_at is earlier
  epc, todo,   \* of each event: where its handler is, webhooks yet to serve
  processed,   \* processed_events
  work,        \* what each worker is doing
  breaker,     \* of each URL: "closed", "open" or "half-open"
  failures,    \* ConsecutiveFailures of each URL
  posts,       \* history: POSTs of each delivery, not counted beyond MaxAttempts + 1
  answers,     \* history: how the POSTs of each delivery ended
  changes, faults

hookVars == <<hook, url, leaving, project>>
rowVars == <<row, due, before>>
eventVars == <<epc, todo, processed>>
breakerVars == <<breaker, failures>>
history == <<posts, answers>>
bounds == <<changes, faults>>
vars == <<hookVars, rowVars, eventVars, work, breakerVars, history, bounds>>

Init ==
  /\ hook \in [Webhook -> {"absent", "active"}]
  /\ url \in [Webhook -> Url]
  /\ leaving = {}
  /\ project = "known"
  /\ row = [d \in Delivery |-> NoRow]
  /\ due = [d \in Delivery |-> FALSE]
  /\ before = [d \in Delivery |-> {}]
  /\ epc = [e \in Event |-> "waiting"]
  /\ todo = [e \in Event |-> {}]
  /\ processed = {}
  /\ work = [w \in Worker |-> Idle]
  /\ breaker = [u \in Url |-> "closed"]
  /\ failures = [u \in Url |-> 0]
  /\ posts = [d \in Delivery |-> 0]
  /\ answers = [d \in Delivery |-> {}]
  /\ changes = 0
  /\ faults = 0

-----------------------------------------------------------------------------
Fault == faults < MaxFaults /\ faults' = faults + 1 /\ UNCHANGED changes
Change == changes < MaxChanges /\ changes' = changes + 1 /\ UNCHANGED faults
UpTo(max, n) == IF n < max THEN n + 1 ELSE n

(* Rows leave and enter the list a worker picks from: pending rows whose   *)
(* next_attempt_at has come, ordered by it.                                *)
Leave(D) == /\ due' = [d \in Delivery |-> due[d] /\ d \notin D]
            /\ before' = [d \in Delivery |-> IF d \in D THEN {} ELSE before[d] \ D]
Enter(d) == /\ due' = [due EXCEPT ![d] = TRUE]
            /\ before' = [before EXCEPT ![d] = {x \in Delivery : due[x]}]

(* UPDATE .. SET status, attempt_count = attempt_count + 1 WHERE id = d:   *)
(* whatever the status is, and without an effect if the row is deleted.    *)
Exists(d) == row[d].status \notin {"absent", "deleted"}
SetStatus(d, status) ==
  /\ row' = IF Exists(d)
            THEN [row EXCEPT ![d].status = status, ![d].attempts = UpTo(MaxAttempts, @)]
            ELSE row
  /\ Leave({d})

(* CreateDelivery: its foreign key needs the webhook. *)
CreateDelivery(d, h, e) ==
  /\ row[d].status = "absent"
  /\ hook[h] \in {"active", "inactive"}
  /\ row' = [row EXCEPT ![d] = [status |-> "pending", hook |-> h, event |-> e,
                                attempts |-> 0]]
  /\ Enter(d)

(* DELETE FROM webhooks, with ON DELETE CASCADE *)
DeleteHooks(H) ==
  /\ hook' = [h \in Webhook |-> IF h \in H /\ hook[h] # "absent" THEN "deleted" ELSE hook[h]]
  /\ row' = [d \in Delivery |-> IF row[d].hook \in H
                                THEN [row[d] EXCEPT !.status = "deleted"] ELSE row[d]]
  /\ Leave({d \in Delivery : row[d].hook \in H})

-----------------------------------------------------------------------------
(* EnqueueForEvent, inside IdempotentHandler *)

(* The checks of processed_events and known_projects, and the list of the  *)
(* active webhooks that match.                                             *)
StartEvent(e) ==
  /\ epc[e] = "waiting"
  /\ IF e \in processed
     THEN epc' = [epc EXCEPT ![e] = "done"] /\ UNCHANGED todo
     ELSE /\ epc' = [epc EXCEPT ![e] = "listed"]
          /\ todo' = [todo EXCEPT ![e] = IF project = "known"
                                         THEN {h \in Webhook : hook[h] = "active"} ELSE {}]
  /\ UNCHANGED <<processed, hookVars, rowVars, work, breakerVars, history, bounds>>

EnqueueOne(e) ==
  /\ epc[e] = "listed"
  /\ \E h \in todo[e], d \in Delivery :
       /\ CreateDelivery(d, h, e)
       /\ todo' = [todo EXCEPT ![e] = @ \ {h}]
  /\ UNCHANGED <<epc, processed, hookVars, work, breakerVars, history, bounds>>

(* A webhook that was deleted since the list was read fails the insert. *)
EnqueueFails(e) ==
  /\ epc[e] = "listed"
  /\ \E h \in todo[e] : hook[h] = "deleted"
  /\ epc' = [epc EXCEPT ![e] = "waiting"]
  /\ UNCHANGED <<todo, processed, hookVars, rowVars, work, breakerVars, history, bounds>>

MarkEventProcessedFirst(e) ==                           \* mutant: before the deliveries
  /\ epc[e] = "listed"
  /\ processed' = processed \cup {e}
  /\ epc' = [epc EXCEPT ![e] = IF todo[e] = {} THEN "done" ELSE @]
  /\ UNCHANGED <<todo, hookVars, rowVars, work, breakerVars, history, bounds>>

MarkEventProcessed(e) ==
  /\ epc[e] = "listed"
  /\ todo[e] = {}
  /\ processed' = processed \cup {e}
  /\ epc' = [epc EXCEPT ![e] = "done"]
  /\ UNCHANGED <<todo, hookVars, rowVars, work, breakerVars, history, bounds>>

(* A statement fails, or the process stops before the message is           *)
(* acknowledged: the message comes again.                                  *)
EventAgain(e) ==
  /\ epc[e] \in {"listed", "done"}
  /\ Fault
  /\ epc' = [epc EXCEPT ![e] = "waiting"]
  /\ UNCHANGED <<todo, processed, hookVars, rowVars, work, breakerVars, history>>

(* TriggerTest *)
TriggerTest(h) ==
  /\ Change
  /\ \E d \in Delivery : CreateDelivery(d, h, None)
  /\ UNCHANGED <<hookVars, eventVars, work, breakerVars, history>>

-----------------------------------------------------------------------------
(* The circuit breakers (gobreaker, MaxRequests 1) *)

Probing(u) == \E w \in Worker : /\ work[w].pc = "post"
                                /\ work[w].url = u
                                /\ work[w].current

(* A breaker begins a new generation: the POSTs it has admitted no longer  *)
(* count.                                                                  *)
Outdated(u) == [w \in Worker |-> IF work[w].url = u THEN [work[w] EXCEPT !.current = FALSE]
                                 ELSE work[w]]

OpenTimeout(u) ==
  /\ breaker[u] = "open"
  /\ breaker' = [breaker EXCEPT ![u] = "half-open"]
  /\ work' = Outdated(u)
  /\ UNCHANGED <<failures, hookVars, rowVars, eventVars, history, bounds>>

(* Interval: a closed breaker forgets its counts every minute. *)
ClosedInterval(u) ==
  /\ breaker[u] = "closed"
  /\ failures' = [failures EXCEPT ![u] = 0]
  /\ work' = Outdated(u)
  /\ UNCHANGED <<breaker, hookVars, rowVars, eventVars, history, bounds>>

-----------------------------------------------------------------------------
(* DeliverNext *)

Become(w, rec) == work' = [work EXCEPT ![w] = rec]

(* PickNextPendingDelivery runs in no transaction of its own: the row lock *)
(* of FOR UPDATE SKIP LOCKED ends with the statement.                      *)
FirstBeforeLast(d) ==                                   \* mutant: attempt_count < max - 1
  /\ row[d].status = "pending" /\ due[d] /\ before[d] = {}
  /\ row[d].attempts + 1 < MaxAttempts
First(d) == row[d].status = "pending" /\ due[d] /\ before[d] = {}

Pick(w) ==
  /\ work[w] = Idle
  /\ \E d \in Delivery :
       /\ First(d)
       /\ Become(w, [Idle EXCEPT !.pc = "load", !.job = d, !.count = row[d].attempts])
  /\ UNCHANGED <<hookVars, rowVars, eventVars, breakerVars, history, bounds>>

(* Any error of GetWebhook counts as a deleted webhook. *)
LoadWebhook(w) ==
  /\ work[w].pc = "load"
  /\ LET h == row[work[w].job].hook
     IN \/ /\ hook[h] = "active"
           /\ Become(w, [work[w] EXCEPT !.pc = "admit", !.url = url[h]])
           /\ UNCHANGED bounds
        \/ /\ hook[h] # "active"
           /\ Become(w, [work[w] EXCEPT !.pc = "dead"])
           /\ UNCHANGED bounds
        \/ /\ hook[h] = "active"
           /\ Fault
           /\ Become(w, [work[w] EXCEPT !.pc = "dead"])
  /\ UNCHANGED <<hookVars, rowVars, eventVars, breakerVars, history>>

(* breaker.Execute, before the POST *)
Admit(w) ==
  /\ work[w].pc = "admit"
  /\ LET u == work[w].url
     IN IF breaker[u] = "open" \/ (breaker[u] = "half-open" /\ Probing(u))
        THEN Become(w, [work[w] EXCEPT !.pc = "reject"])
        ELSE Become(w, [work[w] EXCEPT !.pc = "post", !.current = TRUE])
  /\ UNCHANGED <<hookVars, rowVars, eventVars, breakerVars, history, bounds>>

(* ReadyToTrip, after one more failure than n *)
Trips(n) == n + 1 >= Threshold

(* breaker.Execute, after the POST: an answer of an older generation is    *)
(* not counted.  Anything but a 2xx is a failure.                          *)
Count(w, a, rec) ==
  LET u == work[w].url
      trips == a # "ok" /\ (breaker[u] = "half-open" \/ Trips(failures[u]))
      turns == work[w].current /\ (trips \/ (a = "ok" /\ breaker[u] = "half-open"))
  IN /\ breaker' = [breaker EXCEPT ![u] = IF ~turns THEN @ ELSE IF trips THEN "open"
                                          ELSE "closed"]
     /\ failures' = [failures EXCEPT ![u] = IF ~work[w].current THEN @
                                            ELSE IF turns \/ a = "ok" THEN 0 ELSE @ + 1]
     /\ work' = [(IF turns THEN Outdated(u) ELSE work) EXCEPT ![w] = rec]

(* httpDeliver; a timeout or a connection error is an answer to retry. *)
Post(w) ==
  /\ work[w].pc = "post"
  /\ \E a \in Answer :
       /\ answers' = [answers EXCEPT ![work[w].job] = @ \cup {a}]
       /\ Count(w, a, [work[w] EXCEPT !.pc = "apply", !.answer = a, !.current = FALSE])
  /\ posts' = [posts EXCEPT ![work[w].job] = UpTo(MaxAttempts + 1, @)]
  /\ UNCHANGED <<hookVars, rowVars, eventVars, bounds>>

(* Is the attempt after the one that read count one too many? *)
ExhaustedEarly(count) == count + 2 >= MaxAttempts       \* mutant: off by one
ExhaustedLate(count) == count >= MaxAttempts            \* mutant: the old count
Exhausted(count) == count + 1 >= MaxAttempts

IsSuccess4xx(a) == a \in {"ok", "permanent", "gone"}    \* mutant: only a 5xx is a failure
IsSuccess(a) == a = "ok"

(* RescheduleDelivery *)
Reschedule(d) == SetStatus(d, "pending")

(* applyResult *)
Apply(w) ==
  /\ work[w].pc = "apply"
  /\ LET d == work[w].job
         a == work[w].answer
     IN CASE IsSuccess(a) -> SetStatus(d, "delivered")
          [] ~IsSuccess(a) /\ a \in {"permanent", "gone"} -> SetStatus(d, "dead")
          [] a = "retry" /\ Exhausted(work[w].count) -> SetStatus(d, "dead")
          [] OTHER -> Reschedule(d)
  /\ Become(w, IF work[w].answer = "gone" THEN [work[w] EXCEPT !.pc = "disable"] ELSE Idle)
  /\ UNCHANGED <<hookVars, eventVars, breakerVars, history, bounds>>

DisableGoneFallsThrough(w) ==                           \* mutant: no return before the retry
  /\ work[w].pc = "disable"
  /\ Reschedule(work[w].job)
  /\ Become(w, Idle)
  /\ UNCHANGED <<hookVars, eventVars, breakerVars, history, bounds>>

(* 410 Gone: SetWebhookActive; its error is ignored. *)
DisableGone(w) ==
  /\ work[w].pc = "disable"
  /\ LET h == row[work[w].job].hook
     IN \/ /\ hook' = [hook EXCEPT ![h] = IF @ = "active" THEN "inactive" ELSE @]
           /\ UNCHANGED bounds
        \/ Fault /\ UNCHANGED hook
  /\ Become(w, Idle)
  /\ UNCHANGED <<url, leaving, project, rowVars, eventVars, breakerVars, history>>

MarkDead(w) ==
  /\ work[w].pc = "dead"
  /\ SetStatus(work[w].job, "dead")
  /\ Become(w, Idle)
  /\ UNCHANGED <<hookVars, eventVars, breakerVars, history, bounds>>

(* The circuit is open. *)
Reject(w) ==
  /\ work[w].pc = "reject"
  /\ Reschedule(work[w].job)
  /\ Become(w, Idle)
  /\ UNCHANGED <<hookVars, eventVars, breakerVars, history, bounds>>

(* The statement that records the outcome fails: Run only logs it. *)
RecordFails(w) ==
  /\ work[w].pc \in {"apply", "dead", "reject"}
  /\ Fault
  /\ Become(w, Idle)
  /\ UNCHANGED <<hookVars, rowVars, eventVars, breakerVars, history>>

(* The process stops and starts again, with new breakers. *)
Restart ==
  /\ Fault
  /\ work' = [w \in Worker |-> Idle]
  /\ breaker' = [u \in Url |-> "closed"]
  /\ failures' = [u \in Url |-> 0]
  /\ leaving' = {}
  /\ UNCHANGED <<hook, url, project, rowVars, eventVars, history>>

(* The next_attempt_at of a pending row comes. *)
BecomeDue(d) ==
  /\ row[d].status = "pending"
  /\ ~due[d]
  /\ Enter(d)
  /\ UNCHANGED <<row, hookVars, eventVars, work, breakerVars, history, bounds>>

-----------------------------------------------------------------------------
(* Requests on webhooks, and the project's deletion *)

CreateWebhook(h) ==
  /\ hook[h] = "absent"
  /\ Change
  /\ hook' = [hook EXCEPT ![h] = "active"]
  /\ UNCHANGED <<url, leaving, project, rowVars, eventVars, work, breakerVars, history>>

(* EnableWebhook, DisableWebhook, and UpdateWebhook's patch of active *)
SetWebhookActive(h) ==
  /\ hook[h] \in {"active", "inactive"}
  /\ Change
  /\ \E state \in {"active", "inactive"} : hook' = [hook EXCEPT ![h] = state]
  /\ UNCHANGED <<url, leaving, project, rowVars, eventVars, work, breakerVars, history>>

UpdateWebhook(h) ==
  /\ hook[h] \in {"active", "inactive"}
  /\ Change
  /\ \E u \in Url : url' = [url EXCEPT ![h] = u]
  /\ UNCHANGED <<hook, leaving, project, rowVars, eventVars, work, breakerVars, history>>

(* DeleteWebhook, first MarkPendingDeliveriesDeadByWebhook ... *)
MarkPendingDead(h) ==
  /\ hook[h] \in {"active", "inactive"}
  /\ Change
  /\ LET D == {d \in Delivery : row[d].hook = h /\ row[d].status = "pending"}
     IN /\ row' = [d \in Delivery |-> IF d \in D THEN [row[d] EXCEPT !.status = "dead"]
                                      ELSE row[d]]
        /\ Leave(D)
  /\ leaving' = leaving \cup {h}
  /\ UNCHANGED <<hook, url, project, eventVars, work, breakerVars, history>>

(* ... then the webhook. *)
DeleteWebhook(h) ==
  /\ h \in leaving
  /\ leaving' = leaving \ {h}
  /\ \/ DeleteHooks({h}) /\ UNCHANGED bounds
     \/ Fault /\ UNCHANGED <<hook, rowVars>>
  /\ UNCHANGED <<url, project, eventVars, work, breakerVars, history>>

(* OnProjectDeleted, first known_projects, whenever project.deleted comes ... *)
ForgetProject ==
  /\ \/ project = "known" /\ Change
     \/ project = "deleted" /\ Fault
  /\ project' = "deleting"
  /\ UNCHANGED <<hook, url, leaving, rowVars, eventVars, work, breakerVars, history>>

(* ... then its webhooks. *)
DeleteWebhooksByProject ==
  /\ project = "deleting"
  /\ DeleteHooks(Webhook)
  /\ project' = "deleted"
  /\ UNCHANGED <<url, leaving, eventVars, work, breakerVars, history, bounds>>

-----------------------------------------------------------------------------
Step(w) == \/ Pick(w) \/ LoadWebhook(w) \/ Admit(w) \/ Post(w) \/ Apply(w)
           \/ DisableGone(w) \/ MarkDead(w) \/ Reject(w)

Handle(e) == StartEvent(e) \/ EnqueueOne(e) \/ EnqueueFails(e) \/ MarkEventProcessed(e)

Next ==
  \/ \E w \in Worker : Step(w) \/ RecordFails(w)
  \/ \E e \in Event : Handle(e) \/ EventAgain(e)
  \/ \E d \in Delivery : BecomeDue(d)
  \/ \E u \in Url : OpenTimeout(u) \/ ClosedInterval(u)
  \/ \E h \in Webhook : \/ TriggerTest(h) \/ CreateWebhook(h) \/ SetWebhookActive(h)
                         \/ UpdateWebhook(h) \/ MarkPendingDead(h) \/ DeleteWebhook(h)
  \/ Restart \/ ForgetProject \/ DeleteWebhooksByProject

Spec == Init /\ [][Next]_vars

(* Every worker polls and every POST ends (HTTPTotalTimeout), next_attempt *)
(* _at comes, an open breaker lets a probe pass after its timeout.         *)
FairSpec == /\ Spec
            /\ \A w \in Worker : WF_vars(Step(w))
            /\ \A d \in Delivery : WF_vars(BecomeDue(d))
            /\ \A u \in Url : WF_vars(OpenTimeout(u))

-----------------------------------------------------------------------------
(* Properties *)

(* The types of the variables. *)
TypeOK ==
  /\ hook \in [Webhook -> {"absent", "active", "inactive", "deleted"}]
  /\ url \in [Webhook -> Url]
  /\ leaving \subseteq Webhook
  /\ project \in {"known", "deleting", "deleted"}
  /\ row \in [Delivery -> [status : {"absent", "pending", "delivered", "dead", "deleted"},
                           hook : Webhook \cup {None}, event : Event \cup {None},
                           attempts : 0..MaxAttempts]]
  /\ due \in [Delivery -> BOOLEAN]
  /\ before \in [Delivery -> SUBSET Delivery]
  /\ epc \in [Event -> {"waiting", "listed", "done"}]
  /\ todo \in [Event -> SUBSET Webhook]
  /\ processed \subseteq Event
  /\ work \in [Worker -> [pc : {"idle", "load", "admit", "post", "reject", "apply", "dead",
                                "disable"},
                          job : Delivery \cup {None}, count : 0..MaxAttempts,
                          url : Url \cup {None}, answer : Answer \cup {None},
                          current : BOOLEAN]]
  /\ breaker \in [Url -> {"closed", "open", "half-open"}]
  /\ failures \in [Url -> 0..(Threshold - 1)]
  /\ posts \in [Delivery -> 0..(MaxAttempts + 1)]
  /\ answers \in [Delivery -> SUBSET Answer]
  /\ changes \in 0..MaxChanges
  /\ faults \in 0..MaxFaults

(* A delivery is recorded as delivered only if its receiver accepted it,   *)
(* whichever workers raced on it (applyResult).                            *)
DeliveredWasAccepted ==
  \A d \in Delivery : row[d].status = "delivered" => "ok" \in answers[d]

(* Nothing of an event is lost: once it is processed, each webhook has a   *)
(* row for it, unless webhooks were changed meanwhile (EnqueueForEvent).   *)
ProcessedIsEnqueued ==
  changes = 0 =>
    \A e \in processed, h \in Webhook :
      hook[h] = "active" => \E d \in Delivery : row[d].event = e /\ row[d].hook = h

(* A delivery is given up before MaxAttempts are counted only for a        *)
(* permanent answer, a changed webhook or a failed read of it.             *)
DeadForAReason ==
  changes = 0 /\ faults = 0 =>
    \A d \in Delivery :
      row[d].status = "dead" => \/ answers[d] \cap {"permanent", "gone"} # {}
                               \/ hook[row[d].hook] = "inactive"
                               \/ row[d].attempts = MaxAttempts

(* docs/services/plugin.md:620 (33 hours at most): every delivery ends.  A *)
(* worker that stops with it and an open breaker only postpone that; but   *)
(* TLC shows that several workers may prevent it.                          *)
EveryDeliveryEnds ==
  \A d \in Delivery : row[d].status = "pending" ~> row[d].status # "pending"

(* docs/services/plugin.md:273: delivered and dead are final. *)
Final == {"delivered", "dead"}
FinalStaysFinal ==
  [][\A d \in Delivery : row[d].status \in Final => row'[d].status = row[d].status]_vars

(* docs/services/plugin.md:608: a delivery has MaxAttempts attempts; a     *)
(* restart or a failed statement may repeat one.                           *)
AtMostMaxAttempts == faults = 0 => \A d \in Delivery : posts[d] <= MaxAttempts

(* docs/services/plugin.md:608, delivery/worker.go:100: a delivery that is *)
(* given up for lack of success was tried MaxAttempts times; an open       *)
(* breaker costs no attempt.                                               *)
DeadAfterAllAttempts ==
  changes = 0 /\ faults = 0 =>
    \A d \in Delivery :
      row[d].status = "dead" /\ answers[d] \subseteq {"retry"}
        /\ hook[row[d].hook] = "active" => posts[d] >= MaxAttempts

(* docs/services/plugin.md:1351: no two deliveries of one event to one     *)
(* webhook, even if the event comes twice.                                 *)
NoDuplicateDeliveries ==
  \A c, d \in Delivery :
    c # d /\ row[c].event = row[d].event /\ row[c].hook = row[d].hook => row[c].event = None

(* docs/services/plugin.md:273: finished deliveries are kept for audit. *)
AuditKept ==
  [][\A d \in Delivery : row[d].status \in Final => row'[d].status # "deleted"]_vars
=============================================================================
