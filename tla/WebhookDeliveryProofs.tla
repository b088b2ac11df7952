------------------------- MODULE WebhookDeliveryProofs -------------------------
(***************************************************************************)
(* What TLAPS proves of WebhookDelivery, for any webhooks, events, rows    *)
(* and any number of attempts: its types; that a delivery recorded as      *)
(* delivered was accepted, whatever the workers do to each other; that no  *)
(* webhook misses an event and no delivery is given up without a reason;   *)
(* and, for a single worker and webhooks nobody changes, that a final      *)
(* status stays and attempts are bounded.                                  *)
(***************************************************************************)
EXTENDS WebhookDelivery, TLAPS

(* The type invariant by its parts. *)
Row == [status : {"absent", "pending", "delivered", "dead", "deleted"},
        hook : Webhook \cup {None}, event : Event \cup {None}, attempts : 0..MaxAttempts]
Work == [pc : {"idle", "load", "admit", "post", "reject", "apply", "dead", "disable"},
         job : Delivery \cup {None}, count : 0..MaxAttempts,
         url : Url \cup {None}, answer : Answer \cup {None}, current : BOOLEAN]

HookOK == /\ hook \in [Webhook -> {"absent", "active", "inactive", "deleted"}]
          /\ url \in [Webhook -> Url]
          /\ leaving \subseteq Webhook
          /\ project \in {"known", "deleting", "deleted"}
RowsOK == row \in [Delivery -> Row]
ListOK == /\ due \in [Delivery -> BOOLEAN]
          /\ before \in [Delivery -> SUBSET Delivery]
EventOK == /\ epc \in [Event -> {"waiting", "listed", "done"}]
           /\ todo \in [Event -> SUBSET Webhook]
           /\ processed \subseteq Event
WorkOK == work \in [Worker -> Work]
BreakerOK == /\ breaker \in [Url -> {"closed", "open", "half-open"}]
             /\ failures \in [Url -> 0..(Threshold - 1)]
HistoryOK == /\ posts \in [Delivery -> 0..(MaxAttempts + 1)]
             /\ answers \in [Delivery -> SUBSET Answer]
BoundsOK == changes \in 0..MaxChanges /\ faults \in 0..MaxFaults

LEMMA TypeParts ==
  TypeOK <=> /\ HookOK /\ RowsOK /\ ListOK /\ EventOK /\ WorkOK
             /\ BreakerOK /\ HistoryOK /\ BoundsOK
  BY DEF TypeOK, HookOK, RowsOK, ListOK, EventOK, WorkOK, BreakerOK, HistoryOK, BoundsOK,
         Row, Work

LEMMA TypePartsNext ==
  TypeOK' <=> /\ HookOK' /\ RowsOK' /\ ListOK' /\ EventOK' /\ WorkOK'
              /\ BreakerOK' /\ HistoryOK' /\ BoundsOK'
  BY DEF TypeOK, HookOK, RowsOK, ListOK, EventOK, WorkOK, BreakerOK, HistoryOK, BoundsOK,
         Row, Work

(* A worker that is busy has a delivery, and from admit to post a URL. *)
BusyOK ==
  \A w \in Worker : /\ work[w].pc # "idle" => work[w].job \in Delivery
                    /\ work[w].pc = "idle" => work[w] = Idle
                    /\ work[w].pc \in {"admit", "post"} => work[w].url \in Url

(* A worker's row has a webhook: rows are never un-created. *)
JobExists ==
  /\ \A w \in Worker : work[w].pc # "idle" => row[work[w].job].status # "absent"
  /\ \A d \in Delivery : row[d].status # "absent" => row[d].hook \in Webhook

TypeInv == TypeOK /\ BusyOK /\ JobExists

-----------------------------------------------------------------------------
(* What the helpers do to the types *)

LEMMA ConstantFacts ==
  /\ 0 \in 0..MaxAttempts
  /\ 0 \in 0..(MaxAttempts + 1)
  /\ 0 \in 0..(Threshold - 1)
  /\ 0 \in 0..MaxChanges
  /\ 0 \in 0..MaxFaults
  BY ConstantsAssumption

LEMMA UpToType ==
  ASSUME NEW max \in Nat, NEW n \in 0..max
  PROVE  UpTo(max, n) \in 0..max
  BY DEF UpTo

LEMMA FaultType ==
  ASSUME BoundsOK, Fault
  PROVE  BoundsOK'
  BY ConstantsAssumption DEF BoundsOK, Fault

LEMMA ChangeType ==
  ASSUME BoundsOK, Change
  PROVE  BoundsOK'
  BY ConstantsAssumption DEF BoundsOK, Change

LEMMA LeaveType ==
  ASSUME ListOK, NEW D, Leave(D)
  PROVE  ListOK'
  BY DEF ListOK, Leave

LEMMA EnterType ==
  ASSUME ListOK, NEW d \in Delivery, Enter(d)
  PROVE  ListOK'
  BY DEF ListOK, Enter

LEMMA IdleType == Idle \in Work
  BY ConstantFacts DEF Idle, Work

LEMMA BecomeType ==
  ASSUME WorkOK, NEW w \in Worker, NEW rec \in Work, Become(w, rec)
  PROVE  WorkOK'
  BY DEF WorkOK, Become

LEMMA OutdatedType ==
  ASSUME WorkOK, NEW u
  PROVE  Outdated(u) \in [Worker -> Work]
<1> SUFFICES ASSUME NEW w \in Worker PROVE [work[w] EXCEPT !.current = FALSE] \in Work
  BY DEF Outdated, WorkOK
<1> QED BY DEF WorkOK, Work

LEMMA SetStatusType ==
  ASSUME RowsOK, ListOK, NEW d \in Delivery, NEW status \in {"pending", "delivered", "dead"},
         SetStatus(d, status)
  PROVE  RowsOK' /\ ListOK'
<1>1. ListOK' BY LeaveType DEF SetStatus
<1>2. UpTo(MaxAttempts, row[d].attempts) \in 0..MaxAttempts
  BY UpToType, ConstantsAssumption DEF RowsOK, Row
<1>3. RowsOK' BY <1>2, ZenonT(30) DEF SetStatus, RowsOK, Row
<1> QED BY <1>1, <1>3

(* An UPDATE creates no row and forgets none. *)
LEMMA SetStatusKeeps ==
  ASSUME RowsOK, NEW d \in Delivery, NEW status \in {"pending", "delivered", "dead"},
         SetStatus(d, status)
  PROVE  \A c \in Delivery : /\ row'[c].hook = row[c].hook
                             /\ row'[c].event = row[c].event
                             /\ (row'[c].status = "absent") = (row[c].status = "absent")
                             /\ c # d => row'[c] = row[c]
  BY DEF SetStatus, Exists, RowsOK, Row

LEMMA CreateType ==
  ASSUME RowsOK, ListOK, NEW d \in Delivery, NEW h \in Webhook, NEW e \in Event \cup {None},
         CreateDelivery(d, h, e)
  PROVE  /\ RowsOK' /\ ListOK'
         /\ row'[d].hook = h
         /\ \A c \in Delivery : c # d => row'[c] = row[c]
         /\ row[d].status = "absent" /\ row'[d].status = "pending"
<1>1. ListOK' BY EnterType DEF CreateDelivery
<1>2. [status |-> "pending", hook |-> h, event |-> e, attempts |-> 0] \in Row
  BY ConstantFacts DEF Row
<1> QED BY <1>1, <1>2 DEF CreateDelivery, RowsOK

LEMMA DeleteHooksType ==
  ASSUME HookOK, RowsOK, ListOK, NEW H \in SUBSET Webhook, DeleteHooks(H)
  PROVE  /\ hook' \in [Webhook -> {"absent", "active", "inactive", "deleted"}]
         /\ RowsOK' /\ ListOK'
         /\ \A c \in Delivery : /\ row'[c].hook = row[c].hook
                                /\ row[c].status # "absent" => row'[c].status # "absent"
<1>1. hook' \in [Webhook -> {"absent", "active", "inactive", "deleted"}]
  BY DEF DeleteHooks, HookOK
<1>2. RowsOK'
  <2> SUFFICES ASSUME NEW d \in Delivery PROVE [row[d] EXCEPT !.status = "deleted"] \in Row
    BY DEF DeleteHooks, RowsOK
  <2> QED BY DEF RowsOK, Row
<1>3. ListOK' BY LeaveType DEF DeleteHooks
<1>4. ASSUME NEW c \in Delivery
      PROVE  row'[c].hook = row[c].hook /\ (row[c].status # "absent" => row'[c].status # "absent")
  BY DEF DeleteHooks, RowsOK, Row
<1> QED BY <1>1, <1>2, <1>3, <1>4

-----------------------------------------------------------------------------
(* Initially *)

LEMMA TypeInit == Init => TypeInv
<1> SUFFICES ASSUME Init PROVE TypeInv
  OBVIOUS
<1>1. HookOK BY DEF Init, HookOK
<1>2. RowsOK BY ConstantFacts DEF Init, RowsOK, Row, NoRow
<1>3. ListOK BY DEF Init, ListOK
<1>4. EventOK BY DEF Init, EventOK
<1>5. WorkOK BY IdleType DEF Init, WorkOK
<1>6. BreakerOK BY ConstantFacts DEF Init, BreakerOK
<1>7. HistoryOK BY ConstantFacts DEF Init, HistoryOK
<1>8. BoundsOK BY ConstantFacts DEF Init, BoundsOK
<1>9. BusyOK BY DEF Init, BusyOK, Idle
<1>10. JobExists BY DEF Init, JobExists, Idle, NoRow
<1> QED BY <1>1, <1>2, <1>3, <1>4, <1>5, <1>6, <1>7, <1>8, <1>9, <1>10, TypeParts DEF TypeInv

-----------------------------------------------------------------------------
(* The steps of a worker *)

(* BusyOK and JobExists after a worker has become rec, all else unchanged. *)
LEMMA BecomeBusy ==
  ASSUME WorkOK, BusyOK, NEW w \in Worker, NEW rec \in Work, Become(w, rec),
         rec.pc # "idle" => rec.job \in Delivery,
         rec.pc = "idle" => rec = Idle,
         rec.pc \in {"admit", "post"} => rec.url \in Url
  PROVE  BusyOK'
  BY DEF WorkOK, BusyOK, Become

LEMMA BecomeJob ==
  ASSUME WorkOK, BusyOK, JobExists, NEW w \in Worker, NEW rec, Become(w, rec),
         rec.pc # "idle" => (rec.job \in Delivery /\ row[rec.job].status # "absent"),
         \A d \in Delivery : /\ row'[d].hook = row[d].hook
                             /\ (row'[d].status = "absent") = (row[d].status = "absent")
  PROVE  JobExists'
  BY DEF WorkOK, BusyOK, JobExists, Become

LEMMA PickType ==
  ASSUME TypeInv, NEW w \in Worker, Pick(w)
  PROVE  TypeInv'
<1> USE DEF TypeInv
<1>1. PICK d \in Delivery :
        /\ First(d)
        /\ Become(w, [Idle EXCEPT !.pc = "load", !.job = d, !.count = row[d].attempts])
  BY DEF Pick
<1> DEFINE rec == [Idle EXCEPT !.pc = "load", !.job = d, !.count = row[d].attempts]
<1>2. row[d].attempts \in 0..MaxAttempts BY TypeParts DEF RowsOK, Row
<1>3. rec \in Work BY <1>2, IdleType DEF Work
<1>4. rec.pc = "load" /\ rec.job = d BY IdleType DEF Work
<1>5. row[d].status = "pending" BY <1>1 DEF First
<1> HIDE DEF rec
<1>6. Become(w, rec) BY <1>1 DEF rec
<1>7. WorkOK' BY <1>3, <1>6, TypeParts, BecomeType
<1>8. BusyOK' BY <1>3, <1>4, <1>6, TypeParts, BecomeBusy
<1>9. row' = row BY DEF Pick, rowVars
<1>10. JobExists' BY <1>4, <1>5, <1>6, <1>9, TypeParts, BecomeJob
<1>11. HookOK' /\ RowsOK' /\ ListOK' /\ EventOK' /\ BreakerOK' /\ HistoryOK' /\ BoundsOK'
  BY TypeParts DEF Pick, hookVars, rowVars, eventVars, breakerVars, history, bounds,
     HookOK, RowsOK, ListOK, EventOK, BreakerOK, HistoryOK, BoundsOK
<1> QED BY <1>7, <1>8, <1>10, <1>11, TypePartsNext

LEMMA LoadType ==
  ASSUME TypeInv, NEW w \in Worker, LoadWebhook(w)
  PROVE  TypeInv'
<1> USE DEF TypeInv
<1> DEFINE h == row[work[w].job].hook
<1>0. work[w] \in Work /\ work[w].pc = "load" BY TypeParts DEF WorkOK, LoadWebhook
<1>1. /\ work[w].job \in Delivery
      /\ row[work[w].job].status # "absent"
      /\ h \in Webhook
  BY <1>0 DEF BusyOK, JobExists
<1>2. PICK rec \in {[work[w] EXCEPT !.pc = "admit", !.url = url[h]],
                   [work[w] EXCEPT !.pc = "dead"]} : Become(w, rec)
  BY DEF LoadWebhook
<1>3. url[h] \in Url BY <1>1, TypeParts DEF HookOK
<1>4. /\ rec \in Work /\ rec.pc # "idle" /\ rec.job = work[w].job
      /\ rec.pc \in {"admit", "post"} => rec.url \in Url
  <2>1. CASE rec = [work[w] EXCEPT !.pc = "admit", !.url = url[h]]
    BY <1>0, <1>3, <2>1 DEF Work
  <2>2. CASE rec = [work[w] EXCEPT !.pc = "dead"]
    BY <1>0, <2>2 DEF Work
  <2> QED BY <1>2, <2>1, <2>2
<1>5. WorkOK' BY <1>2, <1>4, TypeParts, BecomeType
<1>6. BusyOK' BY <1>1, <1>2, <1>4, TypeParts, BecomeBusy
<1>7. row' = row BY DEF LoadWebhook, rowVars
<1>8. JobExists' BY <1>1, <1>2, <1>4, <1>7, TypeParts, BecomeJob
<1>9. BoundsOK' BY TypeParts, FaultType DEF LoadWebhook, bounds, BoundsOK
<1>10. HookOK' /\ RowsOK' /\ ListOK' /\ EventOK' /\ BreakerOK' /\ HistoryOK'
  BY TypeParts DEF LoadWebhook, hookVars, rowVars, eventVars, breakerVars, history,
     HookOK, RowsOK, ListOK, EventOK, BreakerOK, HistoryOK
<1> QED BY <1>5, <1>6, <1>8, <1>9, <1>10, TypePartsNext

LEMMA AdmitType ==
  ASSUME TypeInv, NEW w \in Worker, Admit(w)
  PROVE  TypeInv'
<1> USE DEF TypeInv
<1>0. work[w] \in Work /\ work[w].pc = "admit" BY TypeParts DEF WorkOK, Admit
<1>1. /\ work[w].job \in Delivery
      /\ row[work[w].job].status # "absent"
      /\ work[w].url \in Url
  BY <1>0 DEF BusyOK, JobExists
<1>2. PICK rec \in {[work[w] EXCEPT !.pc = "reject"],
                   [work[w] EXCEPT !.pc = "post", !.current = TRUE]} : Become(w, rec)
  BY DEF Admit
<1>3. /\ rec \in Work /\ rec.pc # "idle" /\ rec.job = work[w].job /\ rec.url = work[w].url
  <2>1. CASE rec = [work[w] EXCEPT !.pc = "reject"] BY <1>0, <2>1 DEF Work
  <2>2. CASE rec = [work[w] EXCEPT !.pc = "post", !.current = TRUE] BY <1>0, <2>2 DEF Work
  <2> QED BY <1>2, <2>1, <2>2
<1>4. WorkOK' BY <1>2, <1>3, TypeParts, BecomeType
<1>5. BusyOK' BY <1>1, <1>2, <1>3, TypeParts, BecomeBusy
<1>6. row' = row BY DEF Admit, rowVars
<1>7. JobExists' BY <1>1, <1>2, <1>3, <1>6, TypeParts, BecomeJob
<1>8. HookOK' /\ RowsOK' /\ ListOK' /\ EventOK' /\ BreakerOK' /\ HistoryOK' /\ BoundsOK'
  BY TypeParts DEF Admit, hookVars, rowVars, eventVars, breakerVars, history, bounds,
     HookOK, RowsOK, ListOK, EventOK, BreakerOK, HistoryOK, BoundsOK
<1> QED BY <1>4, <1>5, <1>7, <1>8, TypePartsNext

(* A new generation changes no worker's place. *)
LEMMA OutdatedKeeps ==
  ASSUME WorkOK, NEW u, NEW w \in Worker
  PROVE  /\ Outdated(u)[w].pc = work[w].pc /\ Outdated(u)[w].job = work[w].job
         /\ Outdated(u)[w].url = work[w].url /\ Outdated(u)[w].answer = work[w].answer
         /\ Outdated(u)[w].count = work[w].count
         /\ ~work[w].current => Outdated(u)[w] = work[w]
  BY DEF Outdated, WorkOK, Work

LEMMA CountType ==
  ASSUME WorkOK, BreakerOK, NEW w \in Worker, NEW a, NEW rec \in Work, Count(w, a, rec),
         work[w].url \in Url
  PROVE  /\ WorkOK' /\ BreakerOK'
         /\ work'[w] = rec
         /\ \A v \in Worker \ {w} :
              /\ work'[v].pc = work[v].pc /\ work'[v].job = work[v].job
              /\ work'[v].url = work[v].url /\ work'[v].answer = work[v].answer
              /\ work'[v].count = work[v].count
              /\ ~work[v].current => work'[v] = work[v]
<1> DEFINE u == work[w].url
           trips == a # "ok" /\ (breaker[u] = "half-open" \/ Trips(failures[u]))
           turns == work[w].current /\ (trips \/ (a = "ok" /\ breaker[u] = "half-open"))
<1>1. work' = [Outdated(u) EXCEPT ![w] = rec] \/ work' = [work EXCEPT ![w] = rec]
  BY DEF Count
<1>2. Outdated(u) \in [Worker -> Work] BY OutdatedType
<1>3. WorkOK' /\ work'[w] = rec BY <1>1, <1>2 DEF WorkOK
<1>4. \A v \in Worker \ {w} :
        /\ work'[v].pc = work[v].pc /\ work'[v].job = work[v].job
        /\ work'[v].url = work[v].url /\ work'[v].answer = work[v].answer
        /\ work'[v].count = work[v].count
        /\ ~work[v].current => work'[v] = work[v]
  <2> TAKE v \in Worker \ {w}
  <2>1. CASE work' = [work EXCEPT ![w] = rec] BY <2>1 DEF WorkOK
  <2>2. CASE work' = [Outdated(u) EXCEPT ![w] = rec]
    <3>1. work'[v] = Outdated(u)[v] BY <1>2, <2>2
    <3> QED BY <3>1, OutdatedKeeps
  <2> QED BY <1>1, <2>1, <2>2
<1>5. breaker' \in [Url -> {"closed", "open", "half-open"}]
  BY DEF Count, BreakerOK
<1>6. failures' \in [Url -> 0..(Threshold - 1)]
  <2>1. failures[u] \in 0..(Threshold - 1) /\ Threshold \in Nat \ {0}
    BY ConstantsAssumption DEF BreakerOK
  <2>2. CASE ~work[w].current BY <2>2 DEF Count, BreakerOK
  <2>3. CASE work[w].current /\ (turns \/ a = "ok")
    BY <2>3, ConstantFacts DEF Count, BreakerOK
  <2>4. CASE work[w].current /\ ~(turns \/ a = "ok")
    <3>1. ~Trips(failures[u]) BY <2>4
    <3>2. failures[u] + 1 \in 0..(Threshold - 1) BY <2>1, <3>1 DEF Trips
    <3>3. failures' = [failures EXCEPT ![u] = failures[u] + 1] BY <2>4 DEF Count
    <3> QED BY <3>2, <3>3 DEF BreakerOK
  <2> QED BY <2>2, <2>3, <2>4
<1> QED BY <1>3, <1>4, <1>5, <1>6 DEF BreakerOK

LEMMA PostType ==
  ASSUME TypeInv, NEW w \in Worker, Post(w)
  PROVE  TypeInv'
<1> USE DEF TypeInv
<1>1. work[w] \in Work /\ work[w].pc = "post" BY TypeParts DEF WorkOK, Post
<1>2. /\ work[w].job \in Delivery
      /\ row[work[w].job].status # "absent"
      /\ work[w].url \in Url
  BY <1>1 DEF BusyOK, JobExists
<1>3. PICK a \in Answer :
        /\ answers' = [answers EXCEPT ![work[w].job] = @ \cup {a}]
        /\ Count(w, a, [work[w] EXCEPT !.pc = "apply", !.answer = a, !.current = FALSE])
  BY DEF Post
<1> DEFINE rec == [work[w] EXCEPT !.pc = "apply", !.answer = a, !.current = FALSE]
<1>4. rec \in Work /\ rec.pc = "apply" /\ rec.job = work[w].job BY <1>1 DEF Work
<1> HIDE DEF rec
<1>5. Count(w, a, rec) BY <1>3 DEF rec
<1>6. /\ WorkOK' /\ BreakerOK'
      /\ work'[w] = rec
      /\ \A v \in Worker \ {w} :
           /\ work'[v].pc = work[v].pc /\ work'[v].job = work[v].job
           /\ work'[v].url = work[v].url /\ work'[v].answer = work[v].answer
           /\ work'[v].count = work[v].count
           /\ ~work[v].current => work'[v] = work[v]
  BY <1>2, <1>4, <1>5, TypeParts, CountType
<1>7. BusyOK'
  <2>1. \A v \in Worker : work[v].pc = "idle" => ~work[v].current BY DEF BusyOK, Idle
  <2> QED BY <1>2, <1>4, <1>6, <2>1 DEF BusyOK
<1>8. row' = row BY DEF Post, rowVars
<1>9. JobExists' BY <1>2, <1>4, <1>6, <1>8 DEF JobExists
<1>10. HistoryOK'
  <2>1. UpTo(MaxAttempts + 1, posts[work[w].job]) \in 0..(MaxAttempts + 1)
    BY <1>2, UpToType, ConstantsAssumption, TypeParts DEF HistoryOK
  <2>2. posts' \in [Delivery -> 0..(MaxAttempts + 1)]
    BY <2>1, TypeParts DEF Post, HistoryOK
  <2>3. answers' \in [Delivery -> SUBSET Answer] BY <1>3, TypeParts DEF HistoryOK
  <2> QED BY <2>2, <2>3 DEF HistoryOK
<1>11. HookOK' /\ RowsOK' /\ ListOK' /\ EventOK' /\ BoundsOK'
  BY TypeParts DEF Post, hookVars, rowVars, eventVars, bounds, HookOK, RowsOK, ListOK,
     EventOK, BoundsOK
<1> QED BY <1>6, <1>7, <1>9, <1>10, <1>11, TypePartsNext

(* What the statements that record an outcome have in common. *)
LEMMA OutcomeType ==
  ASSUME TypeInv, NEW w \in Worker, work[w].pc # "idle",
         NEW status \in {"pending", "delivered", "dead"}, SetStatus(work[w].job, status),
         NEW rec \in {Idle, [work[w] EXCEPT !.pc = "disable"]}, Become(w, rec),
         UNCHANGED <<hookVars, eventVars, breakerVars, history, bounds>>
  PROVE  TypeInv'
<1> USE DEF TypeInv
<1>1. work[w] \in Work BY TypeParts DEF WorkOK
<1>2. work[w].job \in Delivery /\ row[work[w].job].status # "absent"
  BY DEF BusyOK, JobExists
<1>3. /\ rec \in Work
      /\ rec.pc = "idle" => rec = Idle
      /\ rec.pc # "idle" => rec.job = work[w].job
      /\ rec.pc \notin {"admit", "post"}
  <2>1. CASE rec = Idle BY <2>1, IdleType DEF Idle
  <2>2. CASE rec = [work[w] EXCEPT !.pc = "disable"] BY <1>1, <2>2 DEF Work
  <2> QED BY <2>1, <2>2
<1>4. WorkOK' BY <1>3, TypeParts, BecomeType
<1>5. BusyOK' BY <1>2, <1>3, TypeParts, BecomeBusy
<1>6. RowsOK' /\ ListOK' BY <1>2, TypeParts, SetStatusType
<1>7. \A c \in Delivery : /\ row'[c].hook = row[c].hook
                          /\ (row'[c].status = "absent") = (row[c].status = "absent")
  BY <1>2, TypeParts, SetStatusKeeps
<1>8. JobExists' BY <1>2, <1>3, <1>7, TypeParts, BecomeJob
<1>9. HookOK' /\ EventOK' /\ BreakerOK' /\ HistoryOK' /\ BoundsOK'
  BY TypeParts DEF hookVars, eventVars, breakerVars, history, bounds,
     HookOK, EventOK, BreakerOK, HistoryOK, BoundsOK
<1> QED BY <1>4, <1>5, <1>6, <1>8, <1>9, TypePartsNext

LEMMA ApplyType ==
  ASSUME TypeInv, NEW w \in Worker, Apply(w) \/ MarkDead(w) \/ Reject(w)
  PROVE  TypeInv'
<1>1. work[w].pc # "idle" BY DEF Apply, MarkDead, Reject
<1>2. PICK status \in {"pending", "delivered", "dead"} : SetStatus(work[w].job, status)
  BY DEF Apply, MarkDead, Reject, Reschedule
<1>3. PICK rec \in {Idle, [work[w] EXCEPT !.pc = "disable"]} : Become(w, rec)
  BY DEF Apply, MarkDead, Reject
<1>4. UNCHANGED <<hookVars, eventVars, breakerVars, history, bounds>>
  BY DEF Apply, MarkDead, Reject
<1> QED BY <1>1, <1>2, <1>3, <1>4, OutcomeType

LEMMA DisableType ==
  ASSUME TypeInv, NEW w \in Worker, DisableGone(w) \/ RecordFails(w)
  PROVE  TypeInv'
<1> USE DEF TypeInv
<1>1. Become(w, Idle) /\ row' = row BY DEF DisableGone, RecordFails, rowVars
<1>2. WorkOK' BY <1>1, IdleType, TypeParts, BecomeType
<1>3. Idle.pc = "idle" BY DEF Idle
<1>4. BusyOK' BY <1>1, <1>3, IdleType, TypeParts, BecomeBusy
<1>5. JobExists' BY <1>1, <1>3, TypeParts, BecomeJob
<1>6. HookOK'
  <2>1. CASE DisableGone(w)
    <3>1. hook' \in [Webhook -> {"absent", "active", "inactive", "deleted"}]
      BY <2>1, TypeParts DEF DisableGone, HookOK
    <3> QED BY <2>1, <3>1, TypeParts DEF DisableGone, HookOK
  <2>2. CASE RecordFails(w) BY <2>2, TypeParts DEF RecordFails, hookVars, HookOK
  <2> QED BY <2>1, <2>2
<1>7. BoundsOK'
  <2>1. CASE DisableGone(w) BY <2>1, TypeParts, FaultType DEF DisableGone, bounds, BoundsOK
  <2>2. CASE RecordFails(w) BY <2>2, TypeParts, FaultType DEF RecordFails
  <2> QED BY <2>1, <2>2
<1>8. RowsOK' /\ ListOK' /\ EventOK' /\ BreakerOK' /\ HistoryOK'
  BY TypeParts DEF DisableGone, RecordFails, rowVars, eventVars, breakerVars, history,
     RowsOK, ListOK, EventOK, BreakerOK, HistoryOK
<1> QED BY <1>2, <1>4, <1>5, <1>6, <1>7, <1>8, TypePartsNext

LEMMA TypeWorker ==
  ASSUME TypeInv, NEW w \in Worker, Step(w) \/ RecordFails(w)
  PROVE  TypeInv'
  BY PickType, LoadType, AdmitType, PostType, ApplyType, DisableType DEF Step

-----------------------------------------------------------------------------
(* The other steps: they leave the workers where they are. *)

(* BusyOK and JobExists while workers keep their place and rows theirs. *)
LEMMA BystanderType ==
  ASSUME BusyOK, JobExists, work' = work,
         \A d \in Delivery : /\ row[d].status # "absent" => row'[d].status # "absent"
                             /\ row'[d].status # "absent" => row'[d].hook \in Webhook
  PROVE  BusyOK' /\ JobExists'
<1>1. BusyOK' BY DEF BusyOK
<1>2. JobExists' BY DEF JobExists, BusyOK
<1> QED BY <1>1, <1>2

LEMMA EventType ==
  ASSUME TypeInv, NEW e \in Event, Handle(e) \/ EventAgain(e)
  PROVE  TypeInv'
<1> USE DEF TypeInv
<1>1. work' = work /\ HookOK' /\ WorkOK' /\ BreakerOK' /\ HistoryOK'
  BY TypeParts DEF Handle, StartEvent, EnqueueOne, EnqueueFails, MarkEventProcessed,
     EventAgain, hookVars, breakerVars, history, HookOK, WorkOK, BreakerOK, HistoryOK
<1>2. BoundsOK'
  BY TypeParts, FaultType DEF Handle, StartEvent, EnqueueOne, EnqueueFails,
     MarkEventProcessed, EventAgain, bounds, BoundsOK
<1>3. EventOK'
  <2>1. epc' \in [Event -> {"waiting", "listed", "done"}]
    BY TypeParts DEF Handle, StartEvent, EnqueueOne, EnqueueFails, MarkEventProcessed,
       EventAgain, EventOK
  <2>2. todo' \in [Event -> SUBSET Webhook]
    BY TypeParts DEF Handle, StartEvent, EnqueueOne, EnqueueFails, MarkEventProcessed,
       EventAgain, EventOK
  <2>3. processed' \subseteq Event
    BY TypeParts DEF Handle, StartEvent, EnqueueOne, EnqueueFails, MarkEventProcessed,
       EventAgain, EventOK
  <2> QED BY <2>1, <2>2, <2>3 DEF EventOK
<1>4. CASE EnqueueOne(e)
  <2>1. PICK h \in todo[e], d \in Delivery : CreateDelivery(d, h, e)
    BY <1>4 DEF EnqueueOne
  <2>2. h \in Webhook BY <2>1, TypeParts DEF EventOK
  <2>3. /\ RowsOK' /\ ListOK' /\ row'[d].hook = h /\ row'[d].status = "pending"
        /\ \A c \in Delivery : c # d => row'[c] = row[c]
    BY <2>1, <2>2, TypeParts, CreateType
  <2>4. BusyOK' /\ JobExists' BY <1>1, <2>2, <2>3, BystanderType DEF JobExists
  <2> QED BY <1>1, <1>2, <1>3, <2>3, <2>4, TypePartsNext
<1>5. CASE ~EnqueueOne(e)
  <2>1. UNCHANGED rowVars
    BY <1>5 DEF Handle, StartEvent, EnqueueFails, MarkEventProcessed, EventAgain
  <2>2. RowsOK' /\ ListOK' BY <2>1, TypeParts DEF rowVars, RowsOK, ListOK
  <2>3. BusyOK' /\ JobExists' BY <1>1, <2>1, BystanderType DEF JobExists, rowVars
  <2> QED BY <1>1, <1>2, <1>3, <2>2, <2>3, TypePartsNext
<1> QED BY <1>4, <1>5

LEMMA TriggerTestType ==
  ASSUME TypeInv, NEW h \in Webhook, TriggerTest(h)
  PROVE  TypeInv'
<1> USE DEF TypeInv
<1>1. PICK d \in Delivery : CreateDelivery(d, h, None) BY DEF TriggerTest
<1>2. /\ RowsOK' /\ ListOK' /\ row'[d].hook = h /\ row'[d].status = "pending"
      /\ \A c \in Delivery : c # d => row'[c] = row[c]
  BY <1>1, TypeParts, CreateType
<1>3. work' = work BY DEF TriggerTest
<1>4. BusyOK' /\ JobExists' BY <1>2, <1>3, BystanderType DEF JobExists
<1>5. BoundsOK' BY TypeParts, ChangeType DEF TriggerTest
<1>6. HookOK' /\ EventOK' /\ WorkOK' /\ BreakerOK' /\ HistoryOK'
  BY TypeParts DEF TriggerTest, hookVars, eventVars, breakerVars, history,
     HookOK, EventOK, WorkOK, BreakerOK, HistoryOK
<1> QED BY <1>2, <1>4, <1>5, <1>6, TypePartsNext

(* Requests that change webhooks, and no delivery. *)
LEMMA RequestType ==
  ASSUME TypeInv, NEW h \in Webhook,
         CreateWebhook(h) \/ SetWebhookActive(h) \/ UpdateWebhook(h)
  PROVE  TypeInv'
<1> USE DEF TypeInv
<1>1. HookOK'
  <2>1. hook' \in [Webhook -> {"absent", "active", "inactive", "deleted"}]
    BY TypeParts DEF CreateWebhook, SetWebhookActive, UpdateWebhook, HookOK
  <2>2. url' \in [Webhook -> Url]
    BY TypeParts DEF CreateWebhook, SetWebhookActive, UpdateWebhook, HookOK
  <2>3. leaving' \subseteq Webhook /\ project' \in {"known", "deleting", "deleted"}
    BY TypeParts DEF CreateWebhook, SetWebhookActive, UpdateWebhook, HookOK
  <2> QED BY <2>1, <2>2, <2>3 DEF HookOK
<1>2. BoundsOK'
  BY TypeParts, ChangeType DEF CreateWebhook, SetWebhookActive, UpdateWebhook
<1>3. UNCHANGED <<rowVars, eventVars, work, breakerVars, history>>
  BY DEF CreateWebhook, SetWebhookActive, UpdateWebhook
<1>4. RowsOK' /\ ListOK' /\ EventOK' /\ WorkOK' /\ BreakerOK' /\ HistoryOK'
  BY <1>3, TypeParts DEF rowVars, eventVars, breakerVars, history,
     RowsOK, ListOK, EventOK, WorkOK, BreakerOK, HistoryOK
<1>5. BusyOK' /\ JobExists' BY <1>3, BystanderType DEF JobExists, rowVars
<1> QED BY <1>1, <1>2, <1>4, <1>5, TypePartsNext

LEMMA ForgetType ==
  ASSUME TypeInv, ForgetProject
  PROVE  TypeInv'
<1> USE DEF TypeInv
<1>1. HookOK' BY TypeParts DEF ForgetProject, HookOK
<1>2. BoundsOK' BY TypeParts, ChangeType, FaultType DEF ForgetProject
<1>3. UNCHANGED <<rowVars, eventVars, work, breakerVars, history>> BY DEF ForgetProject
<1>4. RowsOK' /\ ListOK' /\ EventOK' /\ WorkOK' /\ BreakerOK' /\ HistoryOK'
  BY <1>3, TypeParts DEF rowVars, eventVars, breakerVars, history,
     RowsOK, ListOK, EventOK, WorkOK, BreakerOK, HistoryOK
<1>5. BusyOK' /\ JobExists' BY <1>3, BystanderType DEF JobExists, rowVars
<1> QED BY <1>1, <1>2, <1>4, <1>5, TypePartsNext

LEMMA MarkPendingDeadType ==
  ASSUME TypeInv, NEW h \in Webhook, MarkPendingDead(h)
  PROVE  TypeInv'
<1> USE DEF TypeInv
<1> DEFINE D == {d \in Delivery : row[d].hook = h /\ row[d].status = "pending"}
<1>1. row' = [d \in Delivery |-> IF d \in D THEN [row[d] EXCEPT !.status = "dead"] ELSE row[d]]
  BY DEF MarkPendingDead
<1>2. Leave(D) BY DEF MarkPendingDead
<1> HIDE DEF D
<1>3. ASSUME NEW d \in Delivery
      PROVE  /\ row'[d] \in Row /\ row'[d].hook = row[d].hook
             /\ (row'[d].status = "absent") => (row[d].status = "absent")
             /\ (row[d].status = "absent") => (row'[d].status = "absent")
  BY <1>1, TypeParts DEF RowsOK, Row, D
<1>4. RowsOK' BY <1>1, <1>3 DEF RowsOK
<1>5. ListOK' BY <1>2, TypeParts, LeaveType
<1>6. work' = work BY DEF MarkPendingDead
<1>7. BusyOK' /\ JobExists' BY <1>3, <1>6, BystanderType DEF JobExists
<1>8. BoundsOK' BY TypeParts, ChangeType DEF MarkPendingDead
<1>9. HookOK' /\ EventOK' /\ WorkOK' /\ BreakerOK' /\ HistoryOK'
  BY TypeParts DEF MarkPendingDead, eventVars, breakerVars, history,
     HookOK, EventOK, WorkOK, BreakerOK, HistoryOK
<1> QED BY <1>4, <1>5, <1>7, <1>8, <1>9, TypePartsNext

LEMMA DeleteType ==
  ASSUME TypeInv, NEW H \in SUBSET Webhook, DeleteHooks(H),
         url' \in [Webhook -> Url], leaving' \subseteq Webhook,
         project' \in {"known", "deleting", "deleted"}, BoundsOK',
         UNCHANGED <<eventVars, work, breakerVars, history>>
  PROVE  TypeInv'
<1> USE DEF TypeInv
<1>1. /\ hook' \in [Webhook -> {"absent", "active", "inactive", "deleted"}]
      /\ RowsOK' /\ ListOK'
      /\ \A c \in Delivery : /\ row'[c].hook = row[c].hook
                             /\ row[c].status # "absent" => row'[c].status # "absent"
  BY TypeParts, DeleteHooksType
<1>2. HookOK' BY <1>1 DEF HookOK
<1>3. ASSUME NEW c \in Delivery, row[c].status = "absent", row'[c].status # "absent"
      PROVE  row[c].hook \in Webhook
  <2>1. row[c] \in Row BY TypeParts DEF RowsOK
  <2>2. row'[c] = IF row[c].hook \in H THEN [row[c] EXCEPT !.status = "deleted"] ELSE row[c]
    BY DEF DeleteHooks
  <2> QED BY <1>3, <2>2
<1>4. BusyOK' /\ JobExists' BY <1>1, <1>3, BystanderType DEF JobExists
<1>5. EventOK' /\ WorkOK' /\ BreakerOK' /\ HistoryOK'
  BY TypeParts DEF eventVars, breakerVars, history, EventOK, WorkOK, BreakerOK, HistoryOK
<1> QED BY <1>1, <1>2, <1>4, <1>5, TypePartsNext

LEMMA DeleteWebhookType ==
  ASSUME TypeInv, NEW h \in Webhook, DeleteWebhook(h)
  PROVE  TypeInv'
<1> USE DEF TypeInv
<1>1. BoundsOK' BY TypeParts, FaultType DEF DeleteWebhook, bounds, BoundsOK
<1>2. /\ url' \in [Webhook -> Url] /\ leaving' \subseteq Webhook
      /\ project' \in {"known", "deleting", "deleted"}
  BY TypeParts DEF DeleteWebhook, HookOK
<1>3. UNCHANGED <<eventVars, work, breakerVars, history>> BY DEF DeleteWebhook
<1>4. CASE DeleteHooks({h}) BY <1>1, <1>2, <1>3, <1>4, DeleteType
<1>5. CASE UNCHANGED <<hook, rowVars>>
  <2>1. HookOK' BY <1>2, <1>5, TypeParts DEF HookOK
  <2>2. RowsOK' /\ ListOK' /\ EventOK' /\ WorkOK' /\ BreakerOK' /\ HistoryOK'
    BY <1>3, <1>5, TypeParts DEF rowVars, eventVars, breakerVars, history,
       RowsOK, ListOK, EventOK, WorkOK, BreakerOK, HistoryOK
  <2>3. BusyOK' /\ JobExists' BY <1>3, <1>5, BystanderType DEF JobExists, rowVars
  <2> QED BY <1>1, <2>1, <2>2, <2>3, TypePartsNext
<1> QED BY <1>4, <1>5 DEF DeleteWebhook

LEMMA DeleteProjectType ==
  ASSUME TypeInv, DeleteWebhooksByProject
  PROVE  TypeInv'
<1> USE DEF TypeInv
<1>1. BoundsOK' BY TypeParts DEF DeleteWebhooksByProject, bounds, BoundsOK
<1>2. /\ url' \in [Webhook -> Url] /\ leaving' \subseteq Webhook
      /\ project' \in {"known", "deleting", "deleted"}
  BY TypeParts DEF DeleteWebhooksByProject, HookOK
<1>3. DeleteHooks(Webhook) /\ UNCHANGED <<eventVars, work, breakerVars, history>>
  BY DEF DeleteWebhooksByProject
<1> QED BY <1>1, <1>2, <1>3, DeleteType

LEMMA BecomeDueType ==
  ASSUME TypeInv, NEW d \in Delivery, BecomeDue(d)
  PROVE  TypeInv'
<1> USE DEF TypeInv
<1>1. ListOK' BY TypeParts, EnterType DEF BecomeDue
<1>2. row' = row /\ work' = work BY DEF BecomeDue
<1>3. BusyOK' /\ JobExists' BY <1>2, BystanderType DEF JobExists
<1>4. HookOK' /\ RowsOK' /\ EventOK' /\ WorkOK' /\ BreakerOK' /\ HistoryOK' /\ BoundsOK'
  BY TypeParts DEF BecomeDue, hookVars, eventVars, breakerVars, history, bounds,
     HookOK, RowsOK, EventOK, WorkOK, BreakerOK, HistoryOK, BoundsOK
<1> QED BY <1>1, <1>3, <1>4, TypePartsNext

LEMMA BreakerType ==
  ASSUME TypeInv, NEW u \in Url, OpenTimeout(u) \/ ClosedInterval(u)
  PROVE  TypeInv'
<1> USE DEF TypeInv
<1>1. work' = Outdated(u) /\ row' = row BY DEF OpenTimeout, ClosedInterval, rowVars
<1>2. WorkOK' BY <1>1, TypeParts, OutdatedType DEF WorkOK
<1>3. \A w \in Worker : /\ work'[w].pc = work[w].pc /\ work'[w].job = work[w].job
                        /\ work'[w].url = work[w].url
                        /\ ~work[w].current => work'[w] = work[w]
  BY <1>1, TypeParts, OutdatedKeeps
<1>4. BusyOK'
  <2>1. \A w \in Worker : work[w].pc = "idle" => ~work[w].current BY DEF BusyOK, Idle
  <2> QED BY <1>3, <2>1 DEF BusyOK
<1>5. JobExists' BY <1>1, <1>3 DEF JobExists
<1>6. BreakerOK'
  BY TypeParts, ConstantFacts DEF OpenTimeout, ClosedInterval, BreakerOK
<1>7. HookOK' /\ RowsOK' /\ ListOK' /\ EventOK' /\ HistoryOK' /\ BoundsOK'
  BY TypeParts DEF OpenTimeout, ClosedInterval, hookVars, rowVars, eventVars, history, bounds,
     HookOK, RowsOK, ListOK, EventOK, HistoryOK, BoundsOK
<1> QED BY <1>2, <1>4, <1>5, <1>6, <1>7, TypePartsNext

LEMMA RestartType ==
  ASSUME TypeInv, Restart
  PROVE  TypeInv'
<1> USE DEF TypeInv
<1>1. work' = [w \in Worker |-> Idle] /\ row' = row BY DEF Restart, rowVars
<1>2. WorkOK' BY <1>1, IdleType DEF WorkOK
<1>3. BusyOK' BY <1>1 DEF BusyOK, Idle
<1>4. JobExists' BY <1>1 DEF JobExists, Idle
<1>5. BreakerOK' BY ConstantFacts DEF Restart, BreakerOK
<1>6. BoundsOK' BY TypeParts, FaultType DEF Restart
<1>7. HookOK' /\ RowsOK' /\ ListOK' /\ EventOK' /\ HistoryOK'
  BY TypeParts DEF Restart, rowVars, eventVars, history,
     HookOK, RowsOK, ListOK, EventOK, HistoryOK
<1> QED BY <1>2, <1>3, <1>4, <1>5, <1>6, <1>7, TypePartsNext

LEMMA StutterType ==
  ASSUME TypeInv, UNCHANGED vars
  PROVE  TypeInv'
<1>1. /\ HookOK' /\ RowsOK' /\ ListOK' /\ EventOK'
      /\ WorkOK' /\ BreakerOK' /\ HistoryOK' /\ BoundsOK'
  BY TypeParts DEF TypeInv, vars, hookVars, rowVars, eventVars, breakerVars, history, bounds,
     HookOK, RowsOK, ListOK, EventOK, WorkOK, BreakerOK, HistoryOK, BoundsOK
<1>2. BusyOK' /\ JobExists'
  BY DEF TypeInv, vars, rowVars, BusyOK, JobExists
<1> QED BY <1>1, <1>2, TypePartsNext DEF TypeInv

LEMMA TypeNext == TypeInv /\ [Next]_vars => TypeInv'
<1> SUFFICES ASSUME TypeInv, [Next]_vars PROVE TypeInv'
  OBVIOUS
<1>1. CASE \E w \in Worker : Step(w) \/ RecordFails(w) BY <1>1, TypeWorker
<1>2. CASE \E e \in Event : Handle(e) \/ EventAgain(e) BY <1>2, EventType
<1>3. CASE \E d \in Delivery : BecomeDue(d) BY <1>3, BecomeDueType
<1>4. CASE \E u \in Url : OpenTimeout(u) \/ ClosedInterval(u) BY <1>4, BreakerType
<1>5. CASE \E h \in Webhook : TriggerTest(h) BY <1>5, TriggerTestType
<1>6. CASE \E h \in Webhook : CreateWebhook(h) \/ SetWebhookActive(h) \/ UpdateWebhook(h)
  BY <1>6, RequestType
<1>7. CASE \E h \in Webhook : MarkPendingDead(h) BY <1>7, MarkPendingDeadType
<1>8. CASE \E h \in Webhook : DeleteWebhook(h) BY <1>8, DeleteWebhookType
<1>9. CASE Restart BY <1>9, RestartType
<1>10. CASE ForgetProject BY <1>10, ForgetType
<1>11. CASE DeleteWebhooksByProject BY <1>11, DeleteProjectType
<1>12. CASE UNCHANGED vars BY <1>12, StutterType
<1> QED
  BY <1>1, <1>2, <1>3, <1>4, <1>5, <1>6, <1>7, <1>8, <1>9, <1>10, <1>11, <1>12 DEF Next

(* The variables keep their types, and a busy worker's row exists, whatever *)
(* the workers, the requests and the faults do.                             *)
THEOREM TypeCorrect == Spec => []TypeOK
<1>1. TypeInv => TypeOK BY DEF TypeInv
<1> QED BY <1>1, TypeInit, TypeNext, PTL DEF Spec
-----------------------------------------------------------------------------
(* What is delivered was accepted *)

AcceptInv ==
  /\ \A w \in Worker : work[w].pc = "apply" => work[w].answer \in answers[work[w].job]
  /\ DeliveredWasAccepted

(* The steps that are not a worker's: none delivers a row. *)
Others ==
  \/ \E e \in Event : Handle(e) \/ EventAgain(e)
  \/ \E d \in Delivery : BecomeDue(d)
  \/ \E u \in Url : OpenTimeout(u) \/ ClosedInterval(u)
  \/ \E h \in Webhook : \/ TriggerTest(h) \/ CreateWebhook(h) \/ SetWebhookActive(h)
                        \/ UpdateWebhook(h) \/ MarkPendingDead(h) \/ DeleteWebhook(h)
  \/ Restart \/ ForgetProject \/ DeleteWebhooksByProject

LEMMA AcceptWorker ==
  ASSUME TypeInv, AcceptInv, NEW w \in Worker, Step(w) \/ RecordFails(w)
  PROVE  AcceptInv'
<1> USE DEF TypeInv
<1>0. work[w] \in Work /\ RowsOK BY TypeParts DEF WorkOK
<1>1. ASSUME NEW rec, Become(w, rec), rec.pc # "apply", answers' = answers,
             \A d \in Delivery : row'[d].status = "delivered" =>
                                   row[d].status = "delivered" \/ "ok" \in answers[d]
      PROVE  AcceptInv'
  BY <1>1, TypeParts DEF WorkOK, Become, AcceptInv, DeliveredWasAccepted
<1>2. Idle.pc = "idle" BY DEF Idle
<1>3. CASE Pick(w)
  <2>1. PICK d \in Delivery :
          Become(w, [Idle EXCEPT !.pc = "load", !.job = d, !.count = row[d].attempts])
    BY <1>3 DEF Pick
  <2>2. [Idle EXCEPT !.pc = "load", !.job = d, !.count = row[d].attempts].pc = "load"
    BY DEF Idle
  <2> QED BY <1>1, <1>3, <2>1, <2>2 DEF Pick, rowVars, history
<1>4. CASE LoadWebhook(w)
  <2>1. PICK rec \in {[work[w] EXCEPT !.pc = "admit", !.url = url[row[work[w].job].hook]],
                     [work[w] EXCEPT !.pc = "dead"]} : Become(w, rec)
    BY <1>4 DEF LoadWebhook
  <2>2. rec.pc # "apply" BY <1>0, <2>1 DEF Work
  <2> QED BY <1>1, <1>4, <2>1, <2>2 DEF LoadWebhook, rowVars, history
<1>5. CASE Admit(w)
  <2>1. PICK rec \in {[work[w] EXCEPT !.pc = "reject"],
                     [work[w] EXCEPT !.pc = "post", !.current = TRUE]} : Become(w, rec)
    BY <1>5 DEF Admit
  <2>2. rec.pc # "apply" BY <1>0, <2>1 DEF Work
  <2> QED BY <1>1, <1>5, <2>1, <2>2 DEF Admit, rowVars, history
<1>6. CASE Post(w)
  <2>1. PICK a \in Answer :
          /\ answers' = [answers EXCEPT ![work[w].job] = @ \cup {a}]
          /\ Count(w, a, [work[w] EXCEPT !.pc = "apply", !.answer = a, !.current = FALSE])
    BY <1>6 DEF Post
  <2> DEFINE rec == [work[w] EXCEPT !.pc = "apply", !.answer = a, !.current = FALSE]
  <2>2. rec \in Work /\ rec.answer = a /\ rec.job = work[w].job BY <1>0 DEF Work
  <2> HIDE DEF rec
  <2>3. work[w].url \in Url /\ work[w].job \in Delivery BY <1>6 DEF BusyOK, Post
  <2>4. /\ work'[w] = rec
        /\ \A v \in Worker \ {w} : /\ work'[v].pc = work[v].pc /\ work'[v].job = work[v].job
                                   /\ work'[v].answer = work[v].answer
    BY <2>1, <2>2, <2>3, TypeParts, CountType DEF rec
  <2>5. \A d \in Delivery : answers[d] \subseteq answers'[d] BY <2>1, TypeParts DEF HistoryOK
  <2>6. a \in answers'[work[w].job] BY <2>1, <2>3, TypeParts DEF HistoryOK
  <2>7. \A v \in Worker : work'[v].pc = "apply" => work'[v].answer \in answers'[work'[v].job]
    <3> SUFFICES ASSUME NEW v \in Worker, work'[v].pc = "apply"
                 PROVE  work'[v].answer \in answers'[work'[v].job]
      OBVIOUS
    <3>1. CASE v = w BY <2>2, <2>4, <2>6, <3>1
    <3>2. CASE v # w
      <4>1. work[v].pc = "apply" /\ work[v].job \in Delivery BY <2>4, <3>2 DEF BusyOK
      <4>2. work[v].answer \in answers[work[v].job] BY <4>1 DEF AcceptInv
      <4> QED BY <2>4, <2>5, <3>2, <4>1, <4>2
    <3> QED BY <3>1, <3>2
  <2>8. row' = row BY <1>6 DEF Post, rowVars
  <2> QED BY <2>5, <2>7, <2>8 DEF AcceptInv, DeliveredWasAccepted
<1>7. CASE Apply(w) \/ MarkDead(w) \/ Reject(w)
  <2>1. PICK rec \in {Idle, [work[w] EXCEPT !.pc = "disable"]} : Become(w, rec)
    BY <1>7 DEF Apply, MarkDead, Reject
  <2>2. rec.pc # "apply" BY <1>0, <1>2, <2>1 DEF Work
  <2>3. work[w].job \in Delivery BY <1>7 DEF BusyOK, Apply, MarkDead, Reject
  <2>4. PICK status \in {"pending", "delivered", "dead"} :
          /\ SetStatus(work[w].job, status)
          /\ status = "delivered" => work[w].pc = "apply" /\ work[w].answer = "ok"
    BY <1>7 DEF Apply, MarkDead, Reject, Reschedule, IsSuccess
  <2>5. \A d \in Delivery : row'[d].status = "delivered" =>
                              row[d].status = "delivered" \/ "ok" \in answers[d]
    <3> SUFFICES ASSUME NEW d \in Delivery, row'[d].status = "delivered",
                        row[d].status # "delivered"
                 PROVE  "ok" \in answers[d]
      OBVIOUS
    <3>1. d = work[w].job /\ status = "delivered"
      BY <1>0, <2>3, <2>4 DEF SetStatus, RowsOK, Row
    <3> QED BY <2>4, <3>1 DEF AcceptInv
  <2>6. answers' = answers BY <1>7 DEF Apply, MarkDead, Reject, history
  <2> QED BY <1>1, <2>1, <2>2, <2>5, <2>6
<1>8. CASE DisableGone(w) \/ RecordFails(w)
  BY <1>1, <1>2, <1>8 DEF DisableGone, RecordFails, rowVars, history
<1> QED BY <1>3, <1>4, <1>5, <1>6, <1>7, <1>8 DEF Step

LEMMA AcceptOthers ==
  ASSUME TypeInv, AcceptInv, Others
  PROVE  AcceptInv'
<1> USE DEF TypeInv
<1>1. answers' = answers
  BY DEF Others, Handle, StartEvent, EnqueueOne, EnqueueFails, MarkEventProcessed, EventAgain,
     BecomeDue, OpenTimeout, ClosedInterval, TriggerTest, CreateWebhook, SetWebhookActive,
     UpdateWebhook, MarkPendingDead, DeleteWebhook, Restart, ForgetProject,
     DeleteWebhooksByProject, history
<1>2. ASSUME NEW w \in Worker, work'[w].pc = "apply"
      PROVE  /\ work[w].pc = "apply"
             /\ work'[w].answer = work[w].answer /\ work'[w].job = work[w].job
  <2>1. CASE work' = work BY <1>2, <2>1
  <2>2. CASE Restart
    <3>1. work'[w].pc = "idle" BY <2>2 DEF Restart, Idle
    <3> QED BY <1>2, <3>1
  <2>3. ASSUME NEW u \in Url, OpenTimeout(u) \/ ClosedInterval(u)
        PROVE  /\ work'[w].pc = work[w].pc
               /\ work'[w].answer = work[w].answer /\ work'[w].job = work[w].job
    <3>1. work' = Outdated(u) BY <2>3 DEF OpenTimeout, ClosedInterval
    <3> QED BY <3>1, OutdatedKeeps, TypeParts
  <2>4. \/ work' = work \/ Restart
        \/ \E u \in Url : OpenTimeout(u) \/ ClosedInterval(u)
    BY DEF Others, Handle, StartEvent, EnqueueOne, EnqueueFails, MarkEventProcessed,
       EventAgain, BecomeDue, TriggerTest, CreateWebhook, SetWebhookActive, UpdateWebhook,
       MarkPendingDead, DeleteWebhook, ForgetProject, DeleteWebhooksByProject
  <2> QED BY <1>2, <2>1, <2>2, <2>3, <2>4
<1>3. ASSUME NEW d \in Delivery, row'[d].status = "delivered"
      PROVE  row[d].status = "delivered"
  <2>0. RowsOK BY TypeParts
  <2>1. CASE row' = row BY <1>3, <2>1
  <2>2. ASSUME NEW c \in Delivery, NEW h, NEW e, CreateDelivery(c, h, e)
        PROVE  row[d].status = "delivered"
    BY <1>3, <2>0, <2>2 DEF CreateDelivery, RowsOK, Row
  <2>3. ASSUME NEW h \in Webhook, MarkPendingDead(h)
        PROVE  row[d].status = "delivered"
    BY <1>3, <2>0, <2>3 DEF MarkPendingDead, RowsOK, Row
  <2>4. ASSUME NEW H, DeleteHooks(H)
        PROVE  row[d].status = "delivered"
    BY <1>3, <2>0, <2>4 DEF DeleteHooks, RowsOK, Row
  <2>5. \/ row' = row
        \/ \E c \in Delivery : \E h, e : CreateDelivery(c, h, e)
        \/ \E h \in Webhook : MarkPendingDead(h)
        \/ \E H : DeleteHooks(H)
    <3>1. CASE \E e \in Event : Handle(e) \/ EventAgain(e)
      BY <3>1 DEF Handle, StartEvent, EnqueueOne, EnqueueFails, MarkEventProcessed,
         EventAgain, rowVars
    <3>2. CASE \E h \in Webhook : TriggerTest(h) BY <3>2 DEF TriggerTest
    <3>3. CASE \E h \in Webhook : DeleteWebhook(h) BY <3>3 DEF DeleteWebhook, rowVars
    <3>4. CASE DeleteWebhooksByProject BY <3>4 DEF DeleteWebhooksByProject
    <3>5. CASE \/ \E c \in Delivery : BecomeDue(c)
               \/ \E u \in Url : OpenTimeout(u) \/ ClosedInterval(u)
               \/ \E h \in Webhook : CreateWebhook(h) \/ SetWebhookActive(h) \/ UpdateWebhook(h)
               \/ Restart \/ ForgetProject
      BY <3>5 DEF BecomeDue, OpenTimeout, ClosedInterval, CreateWebhook, SetWebhookActive,
         UpdateWebhook, Restart, ForgetProject, rowVars
    <3>6. CASE \E h \in Webhook : MarkPendingDead(h) BY <3>6
    <3> QED BY <3>1, <3>2, <3>3, <3>4, <3>5, <3>6 DEF Others
  <2> QED BY <2>1, <2>2, <2>3, <2>4, <2>5
<1> QED BY <1>1, <1>2, <1>3 DEF AcceptInv, DeliveredWasAccepted

LEMMA AcceptInit == ASSUME Init PROVE AcceptInv
  BY DEF Init, AcceptInv, DeliveredWasAccepted, Idle, NoRow

LEMMA AcceptNext ==
  ASSUME TypeInv, AcceptInv, [Next]_vars
  PROVE  AcceptInv'
<1>1. CASE \E w \in Worker : Step(w) \/ RecordFails(w) BY <1>1, AcceptWorker
<1>2. CASE Others BY <1>2, AcceptOthers
<1>3. CASE UNCHANGED vars
  BY <1>3 DEF AcceptInv, DeliveredWasAccepted, vars, rowVars, history
<1> QED BY <1>1, <1>2, <1>3 DEF Next, Others

(* Whichever workers race on a delivery, none records as delivered what no *)
(* POST of it was answered with success.                                   *)
THEOREM Accepted == Spec => []DeliveredWasAccepted
<1>1. TypeInv /\ AcceptInv /\ [Next]_vars => AcceptInv' BY AcceptNext
<1>2. AcceptInv => DeliveredWasAccepted BY DEF AcceptInv
<1> QED BY <1>1, <1>2, AcceptInit, TypeInit, TypeNext, PTL DEF Spec

-----------------------------------------------------------------------------
(* A single worker, and webhooks nobody changes *)

Alone == (\A v, w \in Worker : v = w) /\ MaxChanges = 0

Underway(w) == work[w].pc \in {"load", "admit", "post", "reject", "apply", "dead"}
Applying(d) == \E w \in Worker : work[w].pc = "apply" /\ work[w].job = d

(* What the worker has picked stays pending until it records the outcome. *)
PickedOK ==
  /\ leaving = {} /\ project = "known"
  /\ \A w \in Worker : Underway(w) => row[work[w].job].status = "pending"

(* Every POST but the one underway is counted in attempt_count.  A worker  *)
(* that is stopped after the POST would break that.                        *)
CountedOK ==
  faults = 0 =>
    /\ \A w \in Worker : Underway(w) => work[w].count = row[work[w].job].attempts
    /\ \A d \in Delivery :
         /\ posts[d] <= MaxAttempts
         /\ row[d].status = "absent" => posts[d] = 0
         /\ row[d].status = "pending" /\ ~Applying(d) => /\ posts[d] <= row[d].attempts
                                                         /\ posts[d] < MaxAttempts
         /\ row[d].status = "pending" => posts[d] <= row[d].attempts + 1

SoloInv == PickedOK /\ CountedOK

(* A final status stays in this step. *)
FinalKept == \A d \in Delivery : row[d].status \in Final => row'[d].status = row[d].status

LEMMA FaultShows ==
  ASSUME BoundsOK, Fault
  PROVE  faults' # 0
  BY ConstantsAssumption DEF BoundsOK, Fault

(* The worker goes on, and records nothing. *)
LEMMA SoloBecome ==
  ASSUME Alone, TypeInv, SoloInv, NEW w \in Worker, work[w].pc # "apply",
         NEW rec \in Work, Become(w, rec), rec.pc # "apply",
         rec.pc \in {"load", "admit", "post", "reject", "dead"} =>
           /\ rec.job \in Delivery
           /\ row[rec.job].status = "pending"
           /\ faults = 0 => rec.count = row[rec.job].attempts,
         UNCHANGED <<row, posts, leaving, project>>, faults' = 0 => faults = 0
  PROVE  SoloInv'
<1> USE DEF TypeInv, SoloInv
<1>1. work'[w] = rec BY TypeParts DEF Become, WorkOK
<1>2. \A v \in Worker : v = w BY DEF Alone
<1>3. PickedOK' BY <1>1, <1>2 DEF PickedOK, Underway
<1>4. CountedOK' BY <1>1, <1>2 DEF CountedOK, Underway, Applying
<1> QED BY <1>3, <1>4

LEMMA SoloRead ==
  ASSUME Alone, TypeInv, SoloInv, NEW w \in Worker, Pick(w) \/ LoadWebhook(w) \/ Admit(w)
  PROVE  SoloInv' /\ FinalKept
<1> USE DEF TypeInv, SoloInv
<1>0. work[w] \in Work BY TypeParts DEF WorkOK
<1>1. row' = row /\ posts' = posts /\ leaving' = leaving /\ project' = project
  BY DEF Pick, LoadWebhook, Admit, rowVars, hookVars, history
<1>2. faults' = 0 => faults = 0
  BY TypeParts, FaultShows DEF Pick, LoadWebhook, Admit, bounds
<1>3. FinalKept BY <1>1 DEF FinalKept
<1>4. CASE Pick(w)
  <2>1. PICK d \in Delivery :
          /\ First(d)
          /\ Become(w, [Idle EXCEPT !.pc = "load", !.job = d, !.count = row[d].attempts])
    BY <1>4 DEF Pick
  <2> DEFINE rec == [Idle EXCEPT !.pc = "load", !.job = d, !.count = row[d].attempts]
  <2>2. row[d].attempts \in 0..MaxAttempts BY TypeParts DEF RowsOK, Row
  <2>3. rec \in Work BY <2>2, IdleType DEF Work
  <2>4. rec.pc = "load" /\ rec.job = d /\ rec.count = row[d].attempts BY IdleType DEF Work
  <2>5. work[w].pc # "apply"
    <3>1. work[w] = Idle BY <1>4 DEF Pick
    <3> QED BY <3>1 DEF Idle
  <2>6. row[d].status = "pending" BY <2>1 DEF First
  <2> HIDE DEF rec
  <2>7. Become(w, rec) BY <2>1 DEF rec
  <2> QED BY <1>1, <1>2, <1>3, <2>3, <2>4, <2>5, <2>6, <2>7, SoloBecome
<1>5. CASE LoadWebhook(w) \/ Admit(w)
  <2> DEFINE h == row[work[w].job].hook
  <2>1. /\ work[w].pc \in {"load", "admit"} /\ work[w].job \in Delivery
        /\ work[w].pc = "admit" => work[w].url \in Url
        /\ work[w].pc = "load" => h \in Webhook
    BY <1>5 DEF LoadWebhook, Admit, BusyOK, JobExists
  <2>2. /\ row[work[w].job].status = "pending"
        /\ faults = 0 => work[w].count = row[work[w].job].attempts
    BY <2>1 DEF PickedOK, CountedOK, Underway
  <2>3. PICK rec \in {[work[w] EXCEPT !.pc = "admit", !.url = url[h]],
                     [work[w] EXCEPT !.pc = "dead"], [work[w] EXCEPT !.pc = "reject"],
                     [work[w] EXCEPT !.pc = "post", !.current = TRUE]} :
          /\ Become(w, rec)
          /\ rec = [work[w] EXCEPT !.pc = "admit", !.url = url[h]] => work[w].pc = "load"
    <3>1. CASE LoadWebhook(w) BY <3>1 DEF LoadWebhook
    <3>2. CASE Admit(w)
      <4>1. \E rec \in {[work[w] EXCEPT !.pc = "reject"],
                       [work[w] EXCEPT !.pc = "post", !.current = TRUE]} : Become(w, rec)
        BY <3>2 DEF Admit
      <4>2. \A rec \in {[work[w] EXCEPT !.pc = "reject"],
                       [work[w] EXCEPT !.pc = "post", !.current = TRUE]} : rec.pc # "admit"
        BY <1>0 DEF Work
      <4>3. [work[w] EXCEPT !.pc = "admit", !.url = url[h]].pc = "admit" BY <1>0 DEF Work
      <4> QED BY <4>1, <4>2, <4>3
    <3> QED BY <1>5, <3>1, <3>2
  <2>4. work[w].pc = "load" => url[h] \in Url BY <2>1, TypeParts DEF HookOK
  <2>5. /\ rec \in Work /\ rec.pc # "apply"
        /\ rec.job = work[w].job /\ rec.count = work[w].count
    <3>1. CASE rec = [work[w] EXCEPT !.pc = "admit", !.url = url[h]]
      BY <1>0, <2>3, <2>4, <3>1 DEF Work
    <3>2. CASE rec = [work[w] EXCEPT !.pc = "dead"] BY <1>0, <3>2 DEF Work
    <3>3. CASE rec = [work[w] EXCEPT !.pc = "reject"] BY <1>0, <3>3 DEF Work
    <3>4. CASE rec = [work[w] EXCEPT !.pc = "post", !.current = TRUE] BY <1>0, <3>4 DEF Work
    <3> QED BY <2>3, <3>1, <3>2, <3>3, <3>4
  <2> QED BY <1>1, <1>2, <1>3, <2>1, <2>2, <2>3, <2>5, SoloBecome
<1> QED BY <1>4, <1>5

LEMMA SoloPost ==
  ASSUME Alone, TypeInv, SoloInv, NEW w \in Worker, Post(w)
  PROVE  SoloInv' /\ FinalKept
<1> USE DEF TypeInv, SoloInv
<1>1. work[w] \in Work /\ work[w].pc = "post" BY TypeParts DEF WorkOK, Post
<1>2. work[w].job \in Delivery /\ work[w].url \in Url BY <1>1 DEF BusyOK
<1>3. \A v \in Worker : v = w BY DEF Alone
<1>4. PICK a \in Answer :
        Count(w, a, [work[w] EXCEPT !.pc = "apply", !.answer = a, !.current = FALSE])
  BY DEF Post
<1> DEFINE rec == [work[w] EXCEPT !.pc = "apply", !.answer = a, !.current = FALSE]
<1>5. rec \in Work /\ rec.pc = "apply" /\ rec.job = work[w].job /\ rec.count = work[w].count
  BY <1>1 DEF Work
<1> HIDE DEF rec
<1>6. work'[w] = rec BY <1>2, <1>4, <1>5, TypeParts, CountType DEF rec
<1>7. UNCHANGED <<row, leaving, project, faults>> BY DEF Post, rowVars, hookVars, bounds
<1>8. PickedOK' BY <1>1, <1>3, <1>5, <1>6, <1>7 DEF PickedOK, Underway
<1>9. CountedOK'
  <2> SUFFICES ASSUME faults = 0 PROVE CountedOK'
    BY <1>7 DEF CountedOK
  <2> DEFINE j == work[w].job
  <2>1. row[j].status = "pending" /\ work[w].count = row[j].attempts
    BY <1>1 DEF PickedOK, CountedOK, Underway
  <2>2. ~Applying(j) BY <1>1, <1>3 DEF Applying
  <2>3. posts[j] <= row[j].attempts /\ posts[j] < MaxAttempts
    BY <1>2, <2>1, <2>2 DEF CountedOK
  <2>4. posts[j] \in Nat /\ row[j].attempts \in Nat /\ MaxAttempts \in Nat
    BY <1>2, ConstantsAssumption, TypeParts DEF HistoryOK, RowsOK, Row
  <2>5. posts' = [posts EXCEPT ![j] = posts[j] + 1]
    <3>1. UpTo(MaxAttempts + 1, posts[j]) = posts[j] + 1 BY <2>3, <2>4 DEF UpTo
    <3> QED BY <3>1 DEF Post
  <2>6. posts'[j] = posts[j] + 1 /\ \A d \in Delivery : d # j => posts'[d] = posts[d]
    BY <2>5, <1>2, TypeParts DEF HistoryOK
  <2>7. \A d \in Delivery : d # j => ~Applying(d) BY <1>1, <1>3 DEF Applying
  <2>8. \A v \in Worker : Underway(v)' => work'[v].count = row'[work'[v].job].attempts
    BY <1>3, <1>5, <1>6, <1>7, <2>1
  <2>9. ASSUME NEW d \in Delivery
         PROVE  /\ posts'[d] <= MaxAttempts
                /\ row'[d].status = "absent" => posts'[d] = 0
                /\ row'[d].status = "pending" /\ ~Applying(d)' =>
                     posts'[d] <= row'[d].attempts /\ posts'[d] < MaxAttempts
                /\ row'[d].status = "pending" => posts'[d] <= row'[d].attempts + 1
    <3>1. CASE d = j
      <4>1. Applying(d)' BY <1>5, <1>6, <3>1 DEF Applying
      <4> QED BY <1>7, <2>1, <2>3, <2>4, <2>6, <3>1, <4>1
    <3>2. CASE d # j BY <1>7, <2>6, <2>7, <3>2 DEF CountedOK
    <3> QED BY <3>1, <3>2
  <2> QED BY <2>8, <2>9 DEF CountedOK
<1> QED BY <1>7, <1>8, <1>9 DEF FinalKept

LEMMA SoloRecord ==
  ASSUME Alone, TypeInv, AcceptInv, SoloInv, NEW w \in Worker,
         Apply(w) \/ MarkDead(w) \/ Reject(w)
  PROVE  SoloInv' /\ FinalKept
<1> USE DEF TypeInv, SoloInv
<1> DEFINE j == work[w].job
<1>1. work[w] \in Work /\ work[w].pc \in {"apply", "dead", "reject"}
  BY TypeParts DEF WorkOK, Apply, MarkDead, Reject
<1>2. j \in Delivery BY <1>1 DEF BusyOK
<1>3. \A v \in Worker : v = w BY DEF Alone
<1>4. /\ row[j].status = "pending"
      /\ faults = 0 => work[w].count = row[j].attempts
  BY <1>1 DEF PickedOK, CountedOK, Underway
<1>5. PICK status \in {"pending", "delivered", "dead"} :
        /\ SetStatus(j, status)
        /\ status = "pending" /\ work[w].pc = "apply" => ~Exhausted(work[w].count)
  <2>1. CASE Apply(w)
    <3>1. CASE IsSuccess(work[w].answer) BY <2>1, <3>1 DEF Apply
    <3>2. CASE ~IsSuccess(work[w].answer)
      <4>1. work[w].answer \in {"retry", "permanent", "gone"}
        <5>1. work[w].answer \in answers[j] BY <2>1 DEF AcceptInv, Apply
        <5> QED BY <1>2, <3>2, <5>1, ConstantsAssumption, TypeParts DEF HistoryOK, IsSuccess
      <4> QED BY <2>1, <3>2, <4>1 DEF Apply, Reschedule
    <3> QED BY <3>1, <3>2
  <2>2. CASE MarkDead(w) BY <2>2 DEF MarkDead
  <2>3. CASE Reject(w) BY <2>3 DEF Reject, Reschedule
  <2> QED BY <2>1, <2>2, <2>3
<1>6. PICK rec \in {Idle, [work[w] EXCEPT !.pc = "disable"]} : Become(w, rec)
  BY DEF Apply, MarkDead, Reject
<1>7. rec.pc \in {"idle", "disable"} BY <1>1, <1>6 DEF Work, Idle
<1>8. work'[w] = rec BY <1>6, TypeParts DEF Become, WorkOK
<1>9. UNCHANGED <<posts, leaving, project, faults>>
  BY DEF Apply, MarkDead, Reject, hookVars, history, bounds
<1>10. row' = [row EXCEPT ![j].status = status,
                          ![j].attempts = UpTo(MaxAttempts, row[j].attempts)]
  BY <1>4, <1>5 DEF SetStatus, Exists
<1>11. /\ row'[j].status = status
       /\ row'[j].attempts = UpTo(MaxAttempts, row[j].attempts)
       /\ \A d \in Delivery : d # j => row'[d] = row[d]
  BY <1>2, <1>10, TypeParts DEF RowsOK, Row
<1>12. FinalKept BY <1>4, <1>11 DEF FinalKept, Final
<1>13. \A v \in Worker : ~Underway(v)' BY <1>3, <1>7, <1>8 DEF Underway
<1>14. PickedOK' BY <1>9, <1>13 DEF PickedOK
<1>15. CountedOK'
  <2> SUFFICES ASSUME faults = 0 PROVE CountedOK'
    BY <1>9 DEF CountedOK
  <2>1. posts[j] \in Nat /\ row[j].attempts \in 0..MaxAttempts /\ MaxAttempts \in Nat
    BY <1>2, ConstantsAssumption, TypeParts DEF HistoryOK, RowsOK, Row
  <2>2. \A d \in Delivery : d # j => ~Applying(d) BY <1>3 DEF Applying
  <2>3. \A d \in Delivery : ~Applying(d)' BY <1>3, <1>7, <1>8 DEF Applying
  <2>4. work[w].pc # "apply" => ~Applying(j) BY <1>3 DEF Applying
  <2>5. status = "pending" => /\ posts[j] <= UpTo(MaxAttempts, row[j].attempts)
                              /\ posts[j] < MaxAttempts
    <3>1. CASE work[w].pc = "apply" /\ status = "pending"
      <4>1. row[j].attempts + 1 < MaxAttempts BY <1>4, <1>5, <2>1, <3>1 DEF Exhausted
      <4>2. posts[j] <= row[j].attempts + 1 BY <1>2, <1>4 DEF CountedOK
      <4> QED BY <2>1, <4>1, <4>2 DEF UpTo
    <3>2. CASE work[w].pc # "apply"
      <4>1. posts[j] <= row[j].attempts /\ posts[j] < MaxAttempts
        BY <1>2, <1>4, <2>4, <3>2 DEF CountedOK
      <4> QED BY <2>1, <4>1 DEF UpTo
    <3> QED BY <3>1, <3>2
  <2>6. posts[j] <= MaxAttempts BY <1>2 DEF CountedOK
  <2>7. ASSUME NEW d \in Delivery
        PROVE  /\ posts'[d] <= MaxAttempts
               /\ row'[d].status = "absent" => posts'[d] = 0
               /\ row'[d].status = "pending" /\ ~Applying(d)' =>
                    posts'[d] <= row'[d].attempts /\ posts'[d] < MaxAttempts
               /\ row'[d].status = "pending" => posts'[d] <= row'[d].attempts + 1
    <3>1. CASE d = j
      <4>1. UpTo(MaxAttempts, row[j].attempts) \in Nat BY <2>1, UpToType
      <4> QED BY <1>9, <1>11, <2>1, <2>5, <2>6, <3>1, <4>1
    <3>2. CASE d # j BY <1>9, <1>11, <2>2, <3>2 DEF CountedOK
    <3> QED BY <3>1, <3>2
  <2> QED BY <1>13, <2>7 DEF CountedOK
<1> QED BY <1>12, <1>14, <1>15

LEMMA SoloStop ==
  ASSUME Alone, TypeInv, SoloInv, NEW w \in Worker, DisableGone(w) \/ RecordFails(w)
  PROVE  SoloInv' /\ FinalKept
<1> USE DEF TypeInv, SoloInv
<1>1. UNCHANGED <<row, posts, leaving, project>> /\ Become(w, Idle)
  BY DEF DisableGone, RecordFails, rowVars, hookVars, history
<1>2. Idle \in Work /\ Idle.pc = "idle" BY IdleType DEF Idle
<1>3. CASE DisableGone(w)
  <2>1. work[w].pc # "apply" /\ (faults' = 0 => faults = 0)
    BY <1>3, TypeParts DEF DisableGone, Fault, bounds, BoundsOK
  <2> QED BY <1>1, <1>2, <2>1, SoloBecome DEF FinalKept
<1>4. CASE RecordFails(w)
  <2>1. faults' # 0 BY <1>4, TypeParts DEF RecordFails, Fault, BoundsOK
  <2>2. work'[w] = Idle BY <1>1, TypeParts DEF Become, WorkOK
  <2>3. PickedOK' BY <1>1, <1>2, <2>2 DEF PickedOK, Underway, Alone
  <2> QED BY <1>1, <2>1, <2>3 DEF CountedOK, FinalKept
<1> QED BY <1>3, <1>4

LEMMA SoloOthers ==
  ASSUME Alone, TypeInv, SoloInv, Others
  PROVE  SoloInv' /\ FinalKept
<1> USE DEF TypeInv, SoloInv
<1>1. ~Change BY TypeParts DEF Change, Alone, BoundsOK
<1>2. \/ \E e \in Event : Handle(e) \/ EventAgain(e)
      \/ \E d \in Delivery : BecomeDue(d)
      \/ \E u \in Url : OpenTimeout(u) \/ ClosedInterval(u)
      \/ Restart
  BY <1>1 DEF Others, TriggerTest, CreateWebhook, SetWebhookActive, UpdateWebhook,
     MarkPendingDead, DeleteWebhook, ForgetProject, DeleteWebhooksByProject, PickedOK
<1>3. UNCHANGED <<posts, project>> /\ leaving' = {} /\ (faults' = 0 => faults = 0)
  <2>1. UNCHANGED <<posts, project>> /\ leaving' = {}
    BY <1>2 DEF Handle, StartEvent, EnqueueOne, EnqueueFails, MarkEventProcessed,
       EventAgain, BecomeDue, OpenTimeout, ClosedInterval, Restart, hookVars, history, PickedOK
  <2>2. faults' = faults \/ Fault
    BY <1>2 DEF Handle, StartEvent, EnqueueOne, EnqueueFails, MarkEventProcessed,
       EventAgain, BecomeDue, OpenTimeout, ClosedInterval, Restart, bounds
  <2> QED BY <2>1, <2>2, TypeParts, FaultShows
<1>4. ASSUME NEW d \in Delivery, NEW h, NEW e, CreateDelivery(d, h, e), work' = work
      PROVE  SoloInv' /\ FinalKept
  <2>1. /\ row[d].status = "absent" /\ row'[d].status = "pending" /\ row'[d].attempts = 0
        /\ \A c \in Delivery : c # d => row'[c] = row[c]
    BY <1>4, TypeParts DEF CreateDelivery, RowsOK
  <2>2. \A w \in Worker : Underway(w) => /\ work[w].job \in Delivery
                                         /\ row'[work[w].job] = row[work[w].job]
    BY <2>1 DEF Underway, BusyOK, JobExists
  <2>3. PickedOK' BY <1>3, <1>4, <2>2 DEF PickedOK, Underway
  <2>4. CountedOK'
    <3> SUFFICES ASSUME faults = 0 PROVE CountedOK'
      BY <1>3 DEF CountedOK
    <3>1. posts[d] = 0 /\ MaxAttempts \in Nat \ {0} BY <2>1, ConstantsAssumption DEF CountedOK
    <3> QED BY <1>3, <1>4, <2>1, <2>2, <3>1 DEF CountedOK, Underway, Applying
  <2>5. FinalKept BY <2>1 DEF FinalKept, Final
  <2> QED BY <2>3, <2>4, <2>5
<1>5. ASSUME row' = row,
             \A w \in Worker : /\ work'[w].pc = work[w].pc /\ work'[w].job = work[w].job
                               /\ work'[w].count = work[w].count
      PROVE  SoloInv' /\ FinalKept
  <2>1. PickedOK' BY <1>3, <1>5 DEF PickedOK, Underway
  <2>2. CountedOK' BY <1>3, <1>5 DEF CountedOK, Underway, Applying
  <2> QED BY <1>5, <2>1, <2>2 DEF FinalKept
<1>6. CASE \E e \in Event : Handle(e) \/ EventAgain(e)
  <2>1. work' = work /\ (row' = row \/ \E d \in Delivery : \E h, e : CreateDelivery(d, h, e))
    BY <1>6 DEF Handle, StartEvent, EnqueueOne, EnqueueFails, MarkEventProcessed,
       EventAgain, rowVars
  <2> QED BY <1>4, <1>5, <2>1
<1>7. CASE \E d \in Delivery : BecomeDue(d) BY <1>5, <1>7 DEF BecomeDue
<1>8. CASE \E u \in Url : OpenTimeout(u) \/ ClosedInterval(u)
  <2>1. PICK u \in Url : work' = Outdated(u) BY <1>8 DEF OpenTimeout, ClosedInterval
  <2>2. row' = row BY <1>8 DEF OpenTimeout, ClosedInterval, rowVars
  <2> QED BY <1>5, <2>1, <2>2, OutdatedKeeps, TypeParts
<1>9. CASE Restart
  <2>1. row' = row /\ work' = [w \in Worker |-> Idle] BY <1>9 DEF Restart, rowVars
  <2>2. faults' # 0 BY <1>9, TypeParts DEF Restart, Fault, BoundsOK
  <2>3. \A w \in Worker : work'[w].pc = "idle" BY <2>1 DEF Idle
  <2>4. PickedOK' BY <1>3, <2>3 DEF PickedOK, Underway
  <2> QED BY <2>1, <2>2, <2>4 DEF CountedOK, FinalKept
<1> QED BY <1>2, <1>6, <1>7, <1>8, <1>9

LEMMA SoloInit == ASSUME Init PROVE SoloInv
<1>1. \A w \in Worker : ~Underway(w) BY DEF Init, Underway, Idle
<1>2. PickedOK BY <1>1 DEF Init, PickedOK
<1>3. CountedOK BY <1>1, ConstantsAssumption DEF Init, CountedOK, NoRow
<1> QED BY <1>2, <1>3 DEF SoloInv

LEMMA SoloNext ==
  ASSUME Alone, TypeInv, AcceptInv, SoloInv, [Next]_vars
  PROVE  SoloInv' /\ FinalKept
<1>1. CASE \E w \in Worker : Step(w) \/ RecordFails(w)
  BY <1>1, SoloRead, SoloPost, SoloRecord, SoloStop DEF Step
<1>2. CASE Others BY <1>2, SoloOthers
<1>3. CASE UNCHANGED vars
  <2>1. UNCHANGED <<row, work, posts, leaving, project, faults>>
    BY <1>3 DEF vars, hookVars, rowVars, history, bounds
  <2> QED BY <2>1 DEF SoloInv, PickedOK, CountedOK, Underway, Applying, FinalKept
<1> QED BY <1>1, <1>2, <1>3 DEF Next, Others

(* With one worker, and while nobody changes webhooks, a delivery that is   *)
(* delivered or dead stays so (docs/services/plugin.md:273), through        *)
(* restarts and failed statements.                                          *)
THEOREM FinalStaysAlone ==
  ASSUME Alone
  PROVE  Spec => FinalStaysFinal
<1>1. TypeInv /\ AcceptInv /\ SoloInv /\ [Next]_vars => SoloInv' BY SoloNext
<1>2. TypeInv /\ AcceptInv /\ SoloInv /\ [Next]_vars =>
        [\A d \in Delivery : row[d].status \in Final => row'[d].status = row[d].status]_vars
  BY SoloNext DEF FinalKept
<1> QED
  BY <1>1, <1>2, SoloInit, AcceptInit, AcceptNext, TypeInit, TypeNext, PTL
     DEF Spec, FinalStaysFinal

(* Under the same conditions no delivery is POSTed more than MaxAttempts    *)
(* times, as long as no statement fails and nothing restarts: a rejection   *)
(* by the open breaker uses up an attempt and adds no POST.                 *)
THEOREM AttemptsBounded ==
  ASSUME Alone
  PROVE  Spec => []AtMostMaxAttempts
<1>1. TypeInv /\ AcceptInv /\ SoloInv /\ [Next]_vars => SoloInv' BY SoloNext
<1>2. SoloInv => AtMostMaxAttempts BY DEF SoloInv, CountedOK, AtMostMaxAttempts
<1> QED BY <1>1, <1>2, SoloInit, AcceptInit, AcceptNext, TypeInit, TypeNext, PTL DEF Spec

-----------------------------------------------------------------------------
(* While no request changes a webhook, and the project lives *)

Quiet == changes = 0 => leaving = {} /\ project = "known"

(* The steps that are left. *)
QuietStep ==
  \/ \E w \in Worker : Step(w) \/ RecordFails(w)
  \/ \E e \in Event : Handle(e) \/ EventAgain(e)
  \/ \E d \in Delivery : BecomeDue(d)
  \/ \E u \in Url : OpenTimeout(u) \/ ClosedInterval(u)
  \/ Restart
  \/ UNCHANGED vars

LEMMA ChangeShows ==
  ASSUME BoundsOK, Change
  PROVE  changes' # 0
  BY DEF BoundsOK, Change

LEMMA QuietNext ==
  ASSUME TypeInv, Quiet, [Next]_vars, changes' = 0
  PROVE  QuietStep /\ changes = 0 /\ leaving' = {} /\ project' = "known"
<1>1. changes' = changes \/ Change
  BY DEF Next, Step, Pick, LoadWebhook, Admit, Post, Apply, DisableGone, MarkDead, Reject,
     RecordFails, Handle, StartEvent, EnqueueOne, EnqueueFails, MarkEventProcessed,
     EventAgain, BecomeDue, OpenTimeout, ClosedInterval, TriggerTest, CreateWebhook,
     SetWebhookActive, UpdateWebhook, MarkPendingDead, DeleteWebhook, Restart,
     ForgetProject, DeleteWebhooksByProject, Fault, bounds, vars
<1>2. ~Change /\ changes = 0 /\ leaving = {} /\ project = "known"
  BY <1>1, ChangeShows, TypeParts DEF TypeInv, Quiet
<1>3. QuietStep
  BY <1>2 DEF Next, QuietStep, TriggerTest, CreateWebhook, SetWebhookActive,
     UpdateWebhook, MarkPendingDead, DeleteWebhook, ForgetProject, DeleteWebhooksByProject
<1>4. UNCHANGED project /\ leaving' \in {leaving, {}}
  BY <1>3 DEF QuietStep, Step, Pick, LoadWebhook, Admit, Post, Apply, DisableGone, MarkDead,
     Reject, RecordFails, Handle, StartEvent, EnqueueOne, EnqueueFails, MarkEventProcessed,
     EventAgain, BecomeDue, OpenTimeout, ClosedInterval, Restart, hookVars, vars
<1> QED BY <1>2, <1>3, <1>4

(* Then a webhook is only ever switched off, by its own answer 410. *)
LEMMA QuietHooks ==
  ASSUME TypeInv, QuietStep, NEW h \in Webhook
  PROVE  hook'[h] = hook[h] \/ (hook[h] = "active" /\ hook'[h] = "inactive")
<1>1. hook' = hook \/ \E w \in Worker : DisableGone(w)
  BY DEF QuietStep, Step, Pick, LoadWebhook, Admit, Post, Apply, DisableGone, MarkDead,
     Reject, RecordFails, Handle, StartEvent, EnqueueOne, EnqueueFails, MarkEventProcessed,
     EventAgain, BecomeDue, OpenTimeout, ClosedInterval, Restart, hookVars, vars
<1>2. CASE \E w \in Worker : DisableGone(w)
  <2>1. PICK g : \/ hook' = [hook EXCEPT ![g] = IF @ = "active" THEN "inactive" ELSE @]
                 \/ hook' = hook
    BY <1>2 DEF DisableGone
  <2> QED BY <2>1, TypeParts DEF TypeInv, HookOK
<1> QED BY <1>1, <1>2

(* Rows appear, and are never another event's or another webhook's. *)
LEMMA QuietRows ==
  ASSUME TypeInv, QuietStep, NEW d \in Delivery, row[d].status # "absent"
  PROVE  /\ row'[d].status # "absent"
         /\ row'[d].event = row[d].event
         /\ row'[d].hook = row[d].hook
<1>0. RowsOK /\ ListOK BY TypeParts DEF TypeInv
<1>1. \/ row' = row
      \/ \E w \in Worker : Apply(w) \/ MarkDead(w) \/ Reject(w)
      \/ \E e \in Event : EnqueueOne(e)
  BY DEF QuietStep, Step, Pick, LoadWebhook, Admit, Post, DisableGone, RecordFails, Handle,
     StartEvent, EnqueueFails, MarkEventProcessed, EventAgain, BecomeDue, OpenTimeout,
     ClosedInterval, Restart, rowVars, vars
<1>2. ASSUME NEW w \in Worker, Apply(w) \/ MarkDead(w) \/ Reject(w)
      PROVE  /\ row'[d].status # "absent"
             /\ row'[d].event = row[d].event
             /\ row'[d].hook = row[d].hook
  <2>1. PICK status \in {"pending", "delivered", "dead"} : SetStatus(work[w].job, status)
    BY <1>2 DEF Apply, MarkDead, Reject, Reschedule
  <2>2. work[w].job \in Delivery
    BY <1>2 DEF Apply, MarkDead, Reject, TypeInv, BusyOK
  <2>3. /\ row'[d].hook = row[d].hook
        /\ row'[d].event = row[d].event
        /\ (row'[d].status = "absent") = (row[d].status = "absent")
    BY <1>0, <2>1, <2>2, SetStatusKeeps
  <2> QED BY <2>3
<1>3. ASSUME NEW e \in Event, EnqueueOne(e)
      PROVE  row'[d] = row[d]
  <2>1. PICK h \in todo[e], c \in Delivery : CreateDelivery(c, h, e)
    BY <1>3 DEF EnqueueOne
  <2>2. c # d /\ row'[d] = row[d]
    BY <1>0, <2>1 DEF CreateDelivery, RowsOK
  <2> QED BY <2>2
<1> QED BY <1>1, <1>2, <1>3

-----------------------------------------------------------------------------
(* Nothing of an event is lost.  A handler that has listed the webhooks    *)
(* has a row, or the webhook still to do, for each of them.                *)
Enqueued(e, h) ==
  \E d \in Delivery : row[d].status # "absent" /\ row[d].event = e /\ row[d].hook = h

EnqueueInv ==
  /\ Quiet
  /\ changes = 0 =>
       \A e \in Event, h \in Webhook :
         hook[h] = "active" =>
           /\ epc[e] = "listed" => h \in todo[e] \/ Enqueued(e, h)
           /\ e \in processed => Enqueued(e, h)

LEMMA EnqueueInit == ASSUME Init PROVE EnqueueInv
  BY DEF Init, EnqueueInv, Quiet

LEMMA EnqueueNext ==
  ASSUME TypeInv, EnqueueInv, [Next]_vars
  PROVE  EnqueueInv'
<1> SUFFICES ASSUME changes' = 0 PROVE EnqueueInv'
  BY DEF EnqueueInv, Quiet
<1>0. QuietStep /\ changes = 0 /\ leaving' = {} /\ project' = "known" /\ project = "known"
  BY QuietNext DEF EnqueueInv, Quiet
<1>1. Quiet'
  BY <1>0 DEF Quiet
<1> SUFFICES ASSUME NEW e \in Event, NEW h \in Webhook, hook'[h] = "active"
    PROVE  /\ epc'[e] = "listed" => h \in todo'[e] \/ Enqueued(e, h)'
           /\ e \in processed' => Enqueued(e, h)'
  BY <1>1 DEF EnqueueInv
<1>2. hook[h] = "active"
  BY <1>0, QuietHooks
<1>3. /\ epc[e] = "listed" => h \in todo[e] \/ Enqueued(e, h)
      /\ e \in processed => Enqueued(e, h)
  BY <1>0, <1>2 DEF EnqueueInv
<1>4. Enqueued(e, h) => Enqueued(e, h)'
  <2>1. SUFFICES ASSUME NEW d \in Delivery, row[d].status # "absent",
                        row[d].event = e, row[d].hook = h
        PROVE  Enqueued(e, h)'
    BY DEF Enqueued
  <2>2. row'[d].status # "absent" /\ row'[d].event = e /\ row'[d].hook = h
    BY <1>0, <2>1, QuietRows
  <2> QED BY <2>2 DEF Enqueued
<1>5. CASE UNCHANGED <<epc, todo, processed>>
  BY <1>3, <1>4, <1>5
<1>6. ASSUME NEW f \in Event, Handle(f) \/ EventAgain(f)
      PROVE  /\ epc'[e] = "listed" => h \in todo'[e] \/ Enqueued(e, h)'
             /\ e \in processed' => Enqueued(e, h)'
  <2>0. EventOK BY TypeParts DEF TypeInv
  <2>1. CASE f # e
    <3>1. /\ epc'[e] = epc[e] /\ todo'[e] = todo[e]
          /\ e \in processed' => e \in processed
      BY <1>6, <2>0, <2>1 DEF Handle, StartEvent, EnqueueOne, EnqueueFails,
         MarkEventProcessed, EventAgain, EventOK
    <3> QED BY <1>3, <1>4, <3>1
  <2>2. CASE f = e /\ StartEvent(e)
    <3>1. processed' = processed BY <2>2 DEF StartEvent
    <3>2. epc'[e] = "listed" => h \in todo'[e]
      BY <1>0, <1>2, <2>0, <2>2 DEF StartEvent, EventOK
    <3> QED BY <1>3, <1>4, <3>1, <3>2
  <2>3. CASE f = e /\ EnqueueOne(e)
    <3>1. PICK g \in todo[e], d \in Delivery :
            CreateDelivery(d, g, e) /\ todo' = [todo EXCEPT ![e] = @ \ {g}]
      BY <2>3 DEF EnqueueOne
    <3>2. processed' = processed /\ epc' = epc /\ epc[e] = "listed"
      BY <2>3 DEF EnqueueOne
    <3>3. todo'[e] = todo[e] \ {g}
      BY <2>0, <3>1 DEF EventOK
    <3>4. g = h => Enqueued(e, h)'
      <4>1. row'[d] = [status |-> "pending", hook |-> g, event |-> e, attempts |-> 0]
        BY <3>1, TypeParts DEF CreateDelivery, TypeInv, RowsOK
      <4>2. row'[d].status # "absent" /\ row'[d].event = e /\ row'[d].hook = g
        BY <4>1
      <4> QED BY <4>2 DEF Enqueued
    <3> QED BY <1>3, <1>4, <3>2, <3>3, <3>4
  <2>4. CASE f = e /\ MarkEventProcessed(e)
    <3>1. epc[e] = "listed" /\ todo[e] = {} /\ epc'[e] # "listed"
      BY <2>0, <2>4 DEF MarkEventProcessed, EventOK
    <3> QED BY <1>3, <1>4, <3>1
  <2>5. CASE f = e /\ (EnqueueFails(e) \/ EventAgain(e))
    <3>1. epc'[e] # "listed" /\ processed' = processed
      BY <2>0, <2>5 DEF EnqueueFails, EventAgain, EventOK
    <3> QED BY <1>3, <1>4, <3>1
  <2> QED BY <1>6, <2>1, <2>2, <2>3, <2>4, <2>5 DEF Handle
<1>7. \/ UNCHANGED <<epc, todo, processed>>
      \/ \E f \in Event : Handle(f) \/ EventAgain(f)
  BY <1>0 DEF QuietStep, Step, Pick, LoadWebhook, Admit, Post, Apply, DisableGone, MarkDead,
     Reject, RecordFails, BecomeDue, OpenTimeout, ClosedInterval, Restart, eventVars, vars
<1> QED BY <1>5, <1>6, <1>7

(* An event that is processed has a row for every active webhook, through  *)
(* redeliveries, failed statements and restarts: a handler marks it only   *)
(* after the last insert.                                                  *)
THEOREM NothingOfAnEventIsLost == Spec => []ProcessedIsEnqueued
<1>1. TypeInv /\ EnqueueInv => ProcessedIsEnqueued
  BY TypeParts DEF EnqueueInv, ProcessedIsEnqueued, Enqueued, TypeInv, EventOK
<1>2. TypeInv /\ EnqueueInv /\ [Next]_vars => EnqueueInv' BY EnqueueNext
<1>3. Init => EnqueueInv BY EnqueueInit
<1> QED BY <1>1, <1>2, <1>3, TypeInit, TypeNext, PTL DEF Spec

-----------------------------------------------------------------------------
(* A delivery is given up for a reason, whatever the workers do to each    *)
(* other: the attempts a worker counted are at most those the row has now, *)
(* and a worker that found no active webhook still finds none.             *)
Counting(w) == work[w].pc \in {"load", "admit", "post", "apply"}

HookThere(d) == hook[row[d].hook] \in {"active", "inactive"}

Reason(d) ==
  \/ answers[d] \cap {"permanent", "gone"} # {}
  \/ hook[row[d].hook] = "inactive"
  \/ row[d].attempts = MaxAttempts

ReasonInv ==
  /\ Quiet
  /\ changes = 0 /\ faults = 0 =>
       /\ \A d \in Delivery : row[d].status # "absent" => HookThere(d)
       /\ \A d \in Delivery : row[d].status = "dead" => Reason(d)
       /\ \A w \in Worker : Counting(w) => work[w].count <= row[work[w].job].attempts
       /\ \A w \in Worker : work[w].pc = "dead" => hook[row[work[w].job].hook] = "inactive"

LEMMA ReasonInit == ASSUME Init PROVE ReasonInv
  BY DEF Init, ReasonInv, Quiet, NoRow, Idle, Counting

(* What a step leaves of the reasons: the rows' webhooks, and counts that  *)
(* only grow.                                                              *)
LEMMA ReasonKeeps ==
  ASSUME TypeInv, QuietStep, NEW d \in Delivery, row[d].status # "absent", HookThere(d)
  PROVE  /\ HookThere(d)'
         /\ hook[row[d].hook] = "inactive" => hook'[row'[d].hook] = "inactive"
         /\ answers[d] \subseteq answers'[d]
         /\ row[d].attempts <= row'[d].attempts
         /\ row'[d].attempts \in 0..MaxAttempts
<1>0. RowsOK /\ HistoryOK BY TypeParts DEF TypeInv
<1>1. row'[d].hook = row[d].hook /\ row[d].hook \in Webhook
  BY QuietRows DEF TypeInv, JobExists
<1>2. hook'[row[d].hook] = hook[row[d].hook]
        \/ (hook[row[d].hook] = "active" /\ hook'[row[d].hook] = "inactive")
  BY <1>1, QuietHooks
<1>3. answers[d] \subseteq answers'[d]
  <2>1. answers' = answers \/ \E w \in Worker : Post(w)
    BY DEF QuietStep, Step, Pick, LoadWebhook, Admit, Apply, DisableGone, MarkDead, Reject,
       RecordFails, Handle, StartEvent, EnqueueOne, EnqueueFails, MarkEventProcessed,
       EventAgain, BecomeDue, OpenTimeout, ClosedInterval, Restart, history, vars
  <2>2. ASSUME NEW w \in Worker, Post(w) PROVE answers[d] \subseteq answers'[d]
    <3>1. PICK a \in Answer : answers' = [answers EXCEPT ![work[w].job] = @ \cup {a}]
      BY <2>2 DEF Post
    <3> QED BY <1>0, <3>1 DEF HistoryOK
  <2> QED BY <2>1, <2>2
<1>4. row[d].attempts \in 0..MaxAttempts /\ MaxAttempts \in Nat
  BY <1>0, ConstantsAssumption DEF RowsOK, Row
<1>5. row'[d].attempts \in {row[d].attempts, UpTo(MaxAttempts, row[d].attempts)}
  <2>1. \/ row' = row
        \/ \E w \in Worker : Apply(w) \/ MarkDead(w) \/ Reject(w)
        \/ \E e \in Event : EnqueueOne(e)
    BY DEF QuietStep, Step, Pick, LoadWebhook, Admit, Post, DisableGone, RecordFails, Handle,
       StartEvent, EnqueueFails, MarkEventProcessed, EventAgain, BecomeDue, OpenTimeout,
       ClosedInterval, Restart, rowVars, vars
  <2>2. ASSUME NEW w \in Worker, Apply(w) \/ MarkDead(w) \/ Reject(w)
        PROVE  row'[d].attempts \in {row[d].attempts, UpTo(MaxAttempts, row[d].attempts)}
    <3>1. PICK status \in {"pending", "delivered", "dead"} : SetStatus(work[w].job, status)
      BY <2>2 DEF Apply, MarkDead, Reject, Reschedule
    <3> QED BY <1>0, <3>1 DEF SetStatus, RowsOK, Row
  <2>3. ASSUME NEW e \in Event, EnqueueOne(e) PROVE row'[d] = row[d]
    <3>1. PICK h \in todo[e], c \in Delivery : CreateDelivery(c, h, e)
      BY <2>3 DEF EnqueueOne
    <3> QED BY <1>0, <3>1 DEF CreateDelivery, RowsOK
  <2> QED BY <2>1, <2>2, <2>3
<1>6. /\ row[d].attempts <= UpTo(MaxAttempts, row[d].attempts)
      /\ UpTo(MaxAttempts, row[d].attempts) \in 0..MaxAttempts
  BY <1>4 DEF UpTo
<1>7. row[d].attempts <= row'[d].attempts /\ row'[d].attempts \in 0..MaxAttempts
  BY <1>4, <1>5, <1>6
<1> QED BY <1>1, <1>2, <1>3, <1>7 DEF HookThere

LEMMA ReasonStays ==
  ASSUME TypeInv, QuietStep, NEW d \in Delivery, row[d].status # "absent", HookThere(d),
         Reason(d)
  PROVE  Reason(d)'
<1>1. /\ hook[row[d].hook] = "inactive" => hook'[row'[d].hook] = "inactive"
      /\ answers[d] \subseteq answers'[d]
      /\ row[d].attempts <= row'[d].attempts
      /\ row'[d].attempts \in 0..MaxAttempts
  BY ReasonKeeps
<1>2. row[d].attempts = MaxAttempts => row'[d].attempts = MaxAttempts
  BY <1>1, ConstantsAssumption
<1>3. answers[d] \cap {"permanent", "gone"} # {} => answers'[d] \cap {"permanent", "gone"} # {}
  BY <1>1
<1> QED BY <1>1, <1>2, <1>3 DEF Reason

(* A row that a step makes dead has its reason. *)
LEMMA DeadHasReason ==
  ASSUME TypeInv, AcceptInv, ReasonInv, changes = 0, faults = 0, NEW w \in Worker,
         Apply(w) \/ MarkDead(w) \/ Reject(w), NEW d \in Delivery,
         row[d].status # "dead", row'[d].status = "dead"
  PROVE  Reason(d)'
<1>0. RowsOK /\ HistoryOK /\ WorkOK BY TypeParts DEF TypeInv
<1>1. /\ work[w].job \in Delivery
      /\ UNCHANGED <<answers, hook>>
  BY DEF Apply, MarkDead, Reject, history, hookVars, TypeInv, BusyOK
<1>2. PICK status \in {"pending", "delivered", "dead"} : SetStatus(work[w].job, status)
  BY DEF Apply, MarkDead, Reject, Reschedule
<1>3. /\ d = work[w].job /\ status = "dead"
      /\ row'[d].attempts = UpTo(MaxAttempts, row[d].attempts)
      /\ row'[d].hook = row[d].hook
  BY <1>0, <1>1, <1>2 DEF SetStatus, Exists, RowsOK, Row
<1>4. CASE MarkDead(w)
  <2>1. hook[row[d].hook] = "inactive"
    BY <1>3, <1>4 DEF ReasonInv, MarkDead
  <2> QED BY <1>1, <1>3, <2>1 DEF Reason
<1>5. CASE Reject(w)
  <2>1. SetStatus(d, "pending") BY <1>3, <1>5 DEF Reject, Reschedule
  <2>2. row'[d].status # "dead" BY <1>0, <2>1 DEF SetStatus, RowsOK, Row
  <2> QED BY <2>2
<1>6. CASE Apply(w)
  <2>1. work[w].pc = "apply" /\ work[w].answer \in answers[d]
    BY <1>3, <1>6 DEF Apply, AcceptInv
  <2>2. CASE work[w].answer \in {"permanent", "gone"}
    BY <1>1, <2>1, <2>2 DEF Reason
  <2>3. CASE work[w].answer \notin {"permanent", "gone"}
    <3>1. work[w].answer \in Answer
      BY <1>0, <1>1, <1>3, <2>1 DEF HistoryOK
    <3>2. work[w].answer \in {"ok", "retry"}
      BY <2>3, <3>1, ConstantsAssumption
    <3>3. ~(SetStatus(d, "pending") \/ SetStatus(d, "delivered"))
      <4>1. SetStatus(d, "pending") => row'[d].status # "dead"
        BY <1>0 DEF SetStatus, RowsOK, Row
      <4>2. SetStatus(d, "delivered") => row'[d].status # "dead"
        BY <1>0 DEF SetStatus, RowsOK, Row
      <4> QED BY <4>1, <4>2
    <3>4. Exhausted(work[w].count)
      BY <1>3, <1>6, <3>2, <3>3 DEF Apply, IsSuccess, Reschedule
    <3>5. work[w].count <= row[d].attempts
      BY <1>3, <2>1 DEF ReasonInv, Counting
    <3>6. work[w].count \in Nat /\ row[d].attempts \in 0..MaxAttempts /\ MaxAttempts \in Nat
      BY <1>0, ConstantsAssumption DEF WorkOK, Work, RowsOK, Row
    <3>7. UpTo(MaxAttempts, row[d].attempts) = MaxAttempts
      BY <3>4, <3>5, <3>6 DEF Exhausted, UpTo
    <3> QED BY <1>3, <3>7 DEF Reason
  <2> QED BY <2>2, <2>3
<1> QED BY <1>4, <1>5, <1>6

LEMMA ReasonNext ==
  ASSUME TypeInv, AcceptInv, ReasonInv, [Next]_vars
  PROVE  ReasonInv'
<1>0. Quiet'
  <2> SUFFICES ASSUME changes' = 0 PROVE leaving' = {} /\ project' = "known"
    BY DEF Quiet
  <2> QED BY QuietNext DEF ReasonInv
<1> SUFFICES ASSUME changes' = 0, faults' = 0 PROVE ReasonInv'
  BY <1>0 DEF ReasonInv
<1>1. QuietStep /\ changes = 0
  BY QuietNext DEF ReasonInv
<1>2. ~Fault /\ faults = 0
  <2>1. ~Fault BY TypeParts, FaultShows DEF TypeInv
  <2>2. faults' = faults \/ Fault
    BY <1>1 DEF QuietStep, Step, Pick, LoadWebhook, Admit, Post, Apply, DisableGone,
       MarkDead, Reject, RecordFails, Handle, StartEvent, EnqueueOne, EnqueueFails,
       MarkEventProcessed, EventAgain, BecomeDue, OpenTimeout, ClosedInterval, Restart,
       bounds, vars
  <2> QED BY <2>1, <2>2
<1>t. RowsOK /\ WorkOK /\ ListOK /\ BreakerOK BY TypeParts DEF TypeInv
<1>3. \A d \in Delivery : row[d].status # "absent" => HookThere(d)
  BY <1>1, <1>2 DEF ReasonInv
<1>4. \/ row' = row
      \/ \E w \in Worker : Apply(w) \/ MarkDead(w) \/ Reject(w)
      \/ \E e \in Event : EnqueueOne(e)
  BY <1>1 DEF QuietStep, Step, Pick, LoadWebhook, Admit, Post, DisableGone, RecordFails,
     Handle, StartEvent, EnqueueFails, MarkEventProcessed, EventAgain, BecomeDue,
     OpenTimeout, ClosedInterval, Restart, rowVars, vars
<1>5. ASSUME NEW e \in Event, EnqueueOne(e), NEW d \in Delivery, row[d].status = "absent",
             row'[d].status # "absent"
      PROVE  HookThere(d)' /\ row'[d].status # "dead"
  <2>1. PICK h \in todo[e], c \in Delivery : CreateDelivery(c, h, e)
    BY <1>5 DEF EnqueueOne
  <2>2. c = d
    BY <1>t, <1>5, <2>1 DEF CreateDelivery, RowsOK
  <2>3. row'[d] = [status |-> "pending", hook |-> h, event |-> e, attempts |-> 0]
    BY <1>t, <2>1, <2>2 DEF CreateDelivery, RowsOK
  <2>4. row'[d].status = "pending" /\ row'[d].hook = h
    BY <2>3
  <2>5. hook' = hook /\ hook[h] \in {"active", "inactive"}
    BY <1>5, <2>1 DEF EnqueueOne, hookVars, CreateDelivery
  <2> QED BY <2>4, <2>5 DEF HookThere
<1>6. ASSUME NEW w \in Worker, Apply(w) \/ MarkDead(w) \/ Reject(w), NEW d \in Delivery,
             row[d].status = "absent"
      PROVE  row'[d].status = "absent"
  <2>1. PICK status \in {"pending", "delivered", "dead"} : SetStatus(work[w].job, status)
    BY <1>6 DEF Apply, MarkDead, Reject, Reschedule
  <2>2. work[w].job \in Delivery
    BY <1>6 DEF Apply, MarkDead, Reject, TypeInv, BusyOK
  <2>3. (row'[d].status = "absent") = (row[d].status = "absent")
    BY <1>t, <2>1, <2>2, SetStatusKeeps
  <2> QED BY <1>6, <2>3
<1>7. \A d \in Delivery : row'[d].status # "absent" => HookThere(d)'
  <2> SUFFICES ASSUME NEW d \in Delivery, row'[d].status # "absent" PROVE HookThere(d)'
    OBVIOUS
  <2>1. CASE row[d].status # "absent"
    BY <1>1, <1>3, <2>1, ReasonKeeps
  <2>2. CASE row[d].status = "absent"
    BY <1>4, <1>5, <1>6, <2>2
  <2> QED BY <2>1, <2>2
<1>8. \A d \in Delivery : row'[d].status = "dead" => Reason(d)'
  <2> SUFFICES ASSUME NEW d \in Delivery, row'[d].status = "dead" PROVE Reason(d)'
    OBVIOUS
  <2>1. CASE row[d].status = "dead"
    <3>1. Reason(d) /\ HookThere(d) /\ row[d].status # "absent"
      BY <1>1, <1>2, <1>3, <2>1 DEF ReasonInv
    <3> QED BY <1>1, <3>1, ReasonStays
  <2>2. CASE row[d].status # "dead"
    <3>1. CASE \E w \in Worker : Apply(w) \/ MarkDead(w) \/ Reject(w)
      BY <1>1, <1>2, <2>2, <3>1, DeadHasReason
    <3>2. CASE \E e \in Event : EnqueueOne(e)
      <4>1. PICK e \in Event : EnqueueOne(e) BY <3>2
      <4>2. row[d].status = "absent"
        <5>1. PICK h \in todo[e], c \in Delivery : CreateDelivery(c, h, e)
          BY <4>1 DEF EnqueueOne
        <5> QED BY <1>t, <2>2, <5>1 DEF CreateDelivery, RowsOK
      <4> QED BY <1>5, <4>1, <4>2
    <3> QED BY <1>4, <2>2, <3>1, <3>2
  <2> QED BY <2>1, <2>2
  (* A worker that keeps its job and its count. *)
<1>9. ASSUME NEW w \in Worker, work[w].pc # "idle"
      PROVE  /\ hook[row[work[w].job].hook] = "inactive" =>
                  hook'[row'[work[w].job].hook] = "inactive"
             /\ work[w].count <= row[work[w].job].attempts =>
                  work[w].count <= row'[work[w].job].attempts
  <2>1. work[w].job \in Delivery /\ row[work[w].job].status # "absent"
    BY <1>9 DEF TypeInv, BusyOK, JobExists
  <2>2. HookThere(work[w].job) BY <1>3, <2>1
  <2>3. /\ hook[row[work[w].job].hook] = "inactive" =>
             hook'[row'[work[w].job].hook] = "inactive"
        /\ row[work[w].job].attempts <= row'[work[w].job].attempts
        /\ row'[work[w].job].attempts \in 0..MaxAttempts
    BY <1>1, <2>1, <2>2, ReasonKeeps
  <2>4. work[w].count \in Nat /\ row[work[w].job].attempts \in Nat
    BY <1>t, <2>1 DEF WorkOK, Work, RowsOK, Row
  <2>5. \A n, m, k \in Nat : n <= m /\ m <= k => n <= k
    OBVIOUS
  <2> QED BY <2>3, <2>4, <2>5
<1>10. ASSUME NEW w \in Worker
       PROVE  /\ Counting(w)' => work'[w].count <= row'[work'[w].job].attempts
              /\ work'[w].pc = "dead" => hook'[row'[work'[w].job].hook] = "inactive"
  <2>0. /\ Counting(w) => work[w].count <= row[work[w].job].attempts
        /\ work[w].pc = "dead" => hook[row[work[w].job].hook] = "inactive"
    BY <1>1, <1>2 DEF ReasonInv
  <2>1. CASE /\ work'[w].job = work[w].job /\ work'[w].count = work[w].count
             /\ work[w].pc # "idle"
             /\ Counting(w)' => Counting(w)
             /\ work'[w].pc = "dead" =>
                  work[w].pc = "dead" \/ hook[row[work[w].job].hook] = "inactive"
    BY <1>9, <2>0, <2>1
  <2>2. CASE work'[w].pc = "idle" \/ work'[w].pc = "disable"
    BY <2>2 DEF Counting
  <2>3. CASE \E v \in Worker : (Step(v) \/ RecordFails(v)) /\ v # w
    <3>1. PICK v \in Worker : (Step(v) \/ RecordFails(v)) /\ v # w
      BY <2>3
    <3>2. /\ work'[w].pc = work[w].pc /\ work'[w].job = work[w].job
          /\ work'[w].count = work[w].count
      <4>1. CASE Post(v)
        <5>1. PICK a \in Answer :
                Count(v, a, [work[v] EXCEPT !.pc = "apply", !.answer = a, !.current = FALSE])
          BY <4>1 DEF Post
        <5>2. /\ work[v].url \in Url
              /\ [work[v] EXCEPT !.pc = "apply", !.answer = a, !.current = FALSE] \in Work
          BY <1>t, <4>1 DEF Post, TypeInv, BusyOK, WorkOK, Work
        <5> QED BY <1>t, <3>1, <5>1, <5>2, CountType, SMTT(20)
      <4>2. CASE ~Post(v)
        <5>1. \E rec : Become(v, rec)
          BY <3>1, <4>2 DEF Step, Pick, LoadWebhook, Admit, Apply, DisableGone, MarkDead,
             Reject, RecordFails
        <5>2. PICK rec : Become(v, rec) BY <5>1
        <5> QED BY <1>t, <3>1, <5>2 DEF Become, WorkOK
      <4> QED BY <4>1, <4>2
    <3> QED BY <2>1, <2>2, <3>2 DEF Counting
  <2>4. CASE Step(w) \/ RecordFails(w)
    <3>0. work[w] \in Work BY <1>t DEF WorkOK
    <3>1. CASE Pick(w)
      <4>1. PICK d \in Delivery :
              Become(w, [Idle EXCEPT !.pc = "load", !.job = d, !.count = row[d].attempts])
        BY <3>1 DEF Pick
      <4>2. /\ work'[w].pc = "load" /\ work'[w].job = d /\ work'[w].count = row[d].attempts
        BY <1>t, <4>1 DEF Become, WorkOK, Idle
      <4>3. row' = row /\ row[d].attempts \in Nat
        BY <1>t, <3>1 DEF Pick, rowVars, RowsOK, Row
      <4>4. \A n \in Nat : n <= n OBVIOUS
      <4> QED BY <4>2, <4>3, <4>4
    <3>2. CASE LoadWebhook(w)
      <4> DEFINE h == row[work[w].job].hook
      <4>0. work[w].pc = "load" /\ work[w].job \in Delivery
            /\ row[work[w].job].status # "absent"
        BY <3>2 DEF LoadWebhook, TypeInv, BusyOK, JobExists
      <4>1. hook[h] \in {"active", "inactive"}
        BY <1>3, <4>0 DEF HookThere
      <4>2. \/ Become(w, [work[w] EXCEPT !.pc = "admit", !.url = url[h]])
            \/ hook[h] # "active" /\ Become(w, [work[w] EXCEPT !.pc = "dead"])
        BY <1>2, <3>2 DEF LoadWebhook
      <4>3. /\ work'[w].job = work[w].job /\ work'[w].count = work[w].count
            /\ work'[w].pc = "dead" => hook[h] # "active"
        <5>1. CASE Become(w, [work[w] EXCEPT !.pc = "admit", !.url = url[h]])
          <6>1. work'[w] = [work[w] EXCEPT !.pc = "admit", !.url = url[h]]
            BY <1>t, <5>1 DEF Become, WorkOK
          <6> QED BY <3>0, <6>1 DEF Work
        <5>2. CASE hook[h] # "active" /\ Become(w, [work[w] EXCEPT !.pc = "dead"])
          <6>1. work'[w] = [work[w] EXCEPT !.pc = "dead"]
            BY <1>t, <5>2 DEF Become, WorkOK
          <6> QED BY <3>0, <5>2, <6>1 DEF Work
        <5> QED BY <4>2, <5>1, <5>2
      <4> QED BY <2>1, <4>0, <4>1, <4>3 DEF Counting
    <3>3. CASE Admit(w)
      <4>1. \/ Become(w, [work[w] EXCEPT !.pc = "reject"])
            \/ Become(w, [work[w] EXCEPT !.pc = "post", !.current = TRUE])
        BY <3>3 DEF Admit
      <4>2. /\ work'[w].job = work[w].job /\ work'[w].count = work[w].count
            /\ work'[w].pc # "dead" /\ work[w].pc = "admit"
        <5>1. PICK rec \in {[work[w] EXCEPT !.pc = "reject"],
                           [work[w] EXCEPT !.pc = "post", !.current = TRUE]} :
                work'[w] = rec
          BY <1>t, <4>1 DEF Become, WorkOK
        <5>2. CASE rec = [work[w] EXCEPT !.pc = "reject"]
          BY <3>0, <3>3, <5>1, <5>2 DEF Work, Admit
        <5>3. CASE rec = [work[w] EXCEPT !.pc = "post", !.current = TRUE]
          BY <3>0, <3>3, <5>1, <5>3 DEF Work, Admit
        <5> QED BY <5>1, <5>2, <5>3
      <4> QED BY <2>1, <4>2 DEF Counting
    <3>4. CASE Post(w)
      <4>1. PICK a \in Answer :
              Count(w, a, [work[w] EXCEPT !.pc = "apply", !.answer = a, !.current = FALSE])
        BY <3>4 DEF Post
      <4>2. /\ work[w].url \in Url /\ work[w].pc = "post"
            /\ [work[w] EXCEPT !.pc = "apply", !.answer = a, !.current = FALSE] \in Work
        BY <3>0, <3>4 DEF Post, TypeInv, BusyOK, Work
      <4>3. work'[w] = [work[w] EXCEPT !.pc = "apply", !.answer = a, !.current = FALSE]
        BY <1>t, <4>1, <4>2, CountType
      <4>4. /\ work'[w].job = work[w].job /\ work'[w].count = work[w].count
            /\ work'[w].pc # "dead"
        BY <3>0, <4>3 DEF Work
      <4> QED BY <2>1, <4>2, <4>4 DEF Counting
    <3>5. CASE Apply(w) \/ MarkDead(w) \/ Reject(w) \/ DisableGone(w) \/ RecordFails(w)
      <4>1. Become(w, Idle) \/ Become(w, [work[w] EXCEPT !.pc = "disable"])
        BY <3>5 DEF Apply, MarkDead, Reject, DisableGone, RecordFails
      <4>2. work'[w].pc \in {"idle", "disable"}
        BY <1>t, <3>0, <4>1 DEF Become, WorkOK, Work, Idle
      <4> QED BY <2>2, <4>2
    <3> QED BY <2>4, <3>1, <3>2, <3>3, <3>4, <3>5 DEF Step
  <2>5. CASE work' = work \/ \E u \in Url : OpenTimeout(u) \/ ClosedInterval(u)
    <3>1. /\ work'[w].pc = work[w].pc /\ work'[w].job = work[w].job
          /\ work'[w].count = work[w].count
      <4>1. CASE work' = work BY <4>1
      <4>2. CASE \E u \in Url : OpenTimeout(u) \/ ClosedInterval(u)
        <5>1. PICK u \in Url : work' = Outdated(u)
          BY <4>2 DEF OpenTimeout, ClosedInterval
        <5> QED BY <1>t, <5>1, OutdatedKeeps
      <4> QED BY <2>5, <4>1, <4>2
    <3> QED BY <2>1, <2>2, <3>1 DEF Counting
  <2>6. \/ \E v \in Worker : Step(v) \/ RecordFails(v)
        \/ work' = work
        \/ \E u \in Url : OpenTimeout(u) \/ ClosedInterval(u)
    BY <1>1, <1>2 DEF QuietStep, Handle, StartEvent, EnqueueOne, EnqueueFails,
       MarkEventProcessed, EventAgain, BecomeDue, Restart, vars
  <2> QED BY <2>3, <2>4, <2>5, <2>6
<1> QED BY <1>0, <1>7, <1>8, <1>10 DEF ReasonInv

(* While nobody changes webhooks and nothing fails, a delivery is given up *)
(* only for a permanent answer, a webhook that was switched off, or all    *)
(* its attempts counted, with any number of workers on the same row.       *)
THEOREM GivenUpForAReason == Spec => []DeadForAReason
<1>1. ReasonInv => DeadForAReason
  BY DEF ReasonInv, DeadForAReason, Reason
<1>2. TypeInv /\ AcceptInv /\ ReasonInv /\ [Next]_vars => ReasonInv' BY ReasonNext
<1>3. Init => ReasonInv BY ReasonInit
<1>4. Init => AcceptInv BY AcceptInit
<1> QED BY <1>1, <1>2, <1>3, <1>4, AcceptNext, TypeInit, TypeNext, PTL DEF Spec
=============================================================================
