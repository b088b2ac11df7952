------------------------------ MODULE Invitations ------------------------------
(***************************************************************************)
(* The invitations to one project: services/domain/project                 *)
(* (domain/service_impl.go, repository/postgres.go).                       *)
(*                                                                         *)
(* The repository handed to a transaction runs the statements about        *)
(* invitations on the pool all the same: what they write is committed at   *)
(* once, stays when the transaction is rolled back, and needs a second     *)
(* connection while the transaction holds the first.                       *)
(*                                                                         *)
(* Requests run concurrently.  What the permission check reads, the roles  *)
(* and the permission cache are the subject of ProjectMembers; here the    *)
(* check lets a request pass or refuses it.                                *)
(***************************************************************************)
EXTENDS Naturals, Sequences, FiniteSets

CONSTANTS
  User,         \* known users who may be invited
  Invitation,   \* the rows of the table, each with a token of its own
  Request,      \* requests that may be in progress at once
  PoolSize,     \* connections of the pool
  MaxChanges,   \* bound: members added or removed by other means
  MaxFaults     \* bound: failed statements and requests cut short

Nobody == "nobody"
NoToken == "none"

ASSUME ConstantsAssumption ==
  /\ NoToken \notin Invitation
  /\ IsFiniteSet(Request)
  /\ PoolSize \in Nat
  /\ MaxChanges \in Nat
  /\ MaxFaults \in Nat

VARIABLES
  member,       \* the members among the users
  status,       \* of each invitation: "none" without a row
  invitee,      \* whom it is for
  expired,      \* the invitations older than seven days
  call,         \* of each request: where it is, its user and its invitation
  held,         \* connections of the pool that transactions hold
  sent,         \* history: invitations whose project.invitation.sent is in the outbox
  answers,      \* history: of each invitation, the answers that were committed
  refused,      \* history: invitations accepted by someone who was a member already
  contested,    \* history: users invited, and tokens answered, by two requests at once
  changes, faults

rows == <<status, invitee, expired>>
outbox == <<sent, answers, refused>>
vars == <<member, rows, call, held, outbox, contested, changes, faults>>

Idle == [pc |-> "idle", op |-> "none", user |-> Nobody, token |-> NoToken]

Init ==
  /\ member = {}
  /\ status = [t \in Invitation |-> "none"]
  /\ invitee = [t \in Invitation |-> Nobody]
  /\ expired = {}
  /\ call = [r \in Request |-> Idle]
  /\ held = 0
  /\ sent = {}
  /\ answers = [t \in Invitation |-> <<>>]
  /\ refused = {}
  /\ contested = {}
  /\ changes = 0
  /\ faults = 0

-----------------------------------------------------------------------------
Fault == faults < MaxFaults /\ faults' = faults + 1

(* A statement that is not the transaction's takes a connection of its own. *)
Connection == held < PoolSize

At(r, label) == call[r].pc = label
InTransaction(r) == call[r].pc \in {"insert", "mark", "commit"}

Goto(r, label) ==
  call' = [call EXCEPT ![r] = IF label = "idle" THEN Idle ELSE [@ EXCEPT !.pc = label]]

(* POST .../invitations, as long as there are rows for all of them. *)
Invite(r, u) ==
  /\ At(r, "idle")
  /\ Cardinality({q \in Request : call[q].op = "invite" /\ call[q].token = NoToken})
       < Cardinality({t \in Invitation : status[t] = "none"})
  /\ call' = [call EXCEPT ![r] = [pc |-> "permit", op |-> "invite", user |-> u,
                                  token |-> NoToken]]
  /\ contested' = contested \cup
       {v \in {u} : \E q \in Request : call[q].op = "invite" /\ call[q].user = u}
  /\ UNCHANGED <<member, rows, held, outbox, changes, faults>>

(* POST .../invitations/{token}:accept and :decline.  Whoever may read the *)
(* members can list the tokens.                                            *)
Answer(r, op, u, t) ==
  /\ At(r, "idle")
  /\ status[t] # "none"
  /\ call' = [call EXCEPT ![r] = [pc |-> "read", op |-> op, user |-> u, token |-> t]]
  /\ contested' = contested \cup {s \in {t} : \E q \in Request : call[q].token = t}
  /\ UNCHANGED <<member, rows, held, outbox, changes, faults>>

-----------------------------------------------------------------------------
(* CreateInvitation *)

(* requirePermission, ValidRole and GetKnownUserByEmail. *)
MayInvite(r) ==
  /\ At(r, "permit")
  /\ Connection
  /\ Goto(r, "member") \/ Goto(r, "idle")
  /\ UNCHANGED <<member, rows, held, outbox, contested, changes, faults>>

(* A failed read is taken for a user who is no member. *)
CheckMember(r) ==
  /\ At(r, "member")
  /\ Connection
  /\ \/ Goto(r, IF call[r].user \in member THEN "idle" ELSE "pending") /\ UNCHANGED faults
     \/ Goto(r, "pending") /\ Fault
  /\ UNCHANGED <<member, rows, held, outbox, contested, changes>>

PendingFor(u) == {t \in Invitation : status[t] = "pending" /\ invitee[t] = u}

CheckPendingUnexpired(r) ==                 \* mutant: ... AND expires_at > now()
  /\ At(r, "pending")
  /\ Connection
  /\ Goto(r, IF PendingFor(call[r].user) \subseteq expired THEN "begin" ELSE "idle")
  /\ UNCHANGED <<member, rows, held, outbox, contested, changes, faults>>

(* Expired invitations are pending ones; a failed read finds none. *)
CheckPending(r) ==
  /\ At(r, "pending")
  /\ Connection
  /\ \/ Goto(r, IF PendingFor(call[r].user) = {} THEN "begin" ELSE "idle")
        /\ UNCHANGED faults
     \/ Goto(r, "begin") /\ Fault
  /\ UNCHANGED <<member, rows, held, outbox, contested, changes>>

-----------------------------------------------------------------------------
(* AcceptInvitation and DeclineInvitation *)

ReadStale(r) ==                             \* mutant: answers whatever is there
  /\ At(r, "read")
  /\ Connection
  /\ Goto(r, IF call[r].user = invitee[call[r].token] THEN "begin" ELSE "idle")
  /\ UNCHANGED <<member, rows, held, outbox, contested, changes, faults>>

(* The invitation must be the user's and pending, and unless it is         *)
(* declined it must not have expired.                                      *)
GetInvitationByToken(r) ==
  /\ At(r, "read")
  /\ Connection
  /\ LET t == call[r].token
         valid == /\ call[r].user = invitee[t]
                  /\ status[t] = "pending"
                  /\ call[r].op = "accept" => t \notin expired
     IN \/ Goto(r, IF valid THEN "begin" ELSE "idle") /\ UNCHANGED faults
        \/ Goto(r, "idle") /\ Fault
  /\ UNCHANGED <<member, rows, held, outbox, contested, changes>>

-----------------------------------------------------------------------------
(* WithTransaction *)

Begin(r) ==
  /\ At(r, "begin")
  /\ Connection
  /\ \/ /\ Goto(r, IF call[r].op = "invite" THEN "insert" ELSE "mark")
        /\ held' = held + 1
        /\ UNCHANGED faults
     \/ Goto(r, "idle") /\ Fault /\ UNCHANGED held
  /\ UNCHANGED <<member, rows, outbox, contested, changes>>

(* Its connection goes back to the pool. *)
Finish(r) == Goto(r, "idle") /\ held' = held - 1

(* The row is written by itself, not by the transaction. *)
CreateInvitation(r) ==
  /\ At(r, "insert")
  /\ Connection
  /\ \/ \E t \in Invitation :
          /\ status[t] = "none"
          /\ status' = [status EXCEPT ![t] = "pending"]
          /\ invitee' = [invitee EXCEPT ![t] = call[r].user]
          /\ call' = [call EXCEPT ![r] = [@ EXCEPT !.pc = "commit", !.token = t]]
          /\ UNCHANGED <<held, faults>>
     \/ Finish(r) /\ Fault /\ UNCHANGED <<status, invitee>>
  /\ UNCHANGED <<member, expired, outbox, contested, changes>>

(* Neither does the status belong to the transaction, and nothing compares *)
(* it with what was read.                                                  *)
UpdateInvitationStatus(r) ==
  /\ At(r, "mark")
  /\ Connection
  /\ \/ /\ status' = [status EXCEPT ![call[r].token] =
                        IF call[r].op = "accept" THEN "accepted" ELSE "declined"]
        /\ Goto(r, "commit")
        /\ UNCHANGED <<held, faults>>
     \/ Finish(r) /\ Fault /\ UNCHANGED status
  /\ UNCHANGED <<member, invitee, expired, outbox, contested, changes>>

(* What the transaction itself writes: the membership and the events. *)
Written(r) ==
  LET t == call[r].token
  IN CASE call[r].op = "invite" ->
            sent' = sent \cup {t} /\ UNCHANGED <<member, answers, refused>>
       [] call[r].op = "decline" ->
            /\ answers' = [answers EXCEPT ![t] = Append(@, "declined")]
            /\ UNCHANGED <<member, sent, refused>>
       [] call[r].user \in member ->        \* AddMember fails on its key
            refused' = refused \cup {t} /\ UNCHANGED <<member, sent, answers>>
       [] OTHER ->
            /\ member' = member \cup {call[r].user}
            /\ answers' = [answers EXCEPT ![t] = Append(@, "accepted")]
            /\ UNCHANGED <<sent, refused>>

CommitAndKeep(r) ==                         \* mutant: no rollback for a member
  /\ At(r, "commit")
  /\ Goto(r, "idle")
  /\ held' = IF call[r].op = "accept" /\ call[r].user \in member THEN held ELSE held - 1
  /\ Written(r)
  /\ UNCHANGED <<rows, contested, changes, faults>>

(* The rest of the transaction, which uses its own connection, and its end. *)
Commit(r) ==
  /\ At(r, "commit")
  /\ Finish(r)
  /\ \/ Written(r) /\ UNCHANGED faults
     \/ Fault /\ UNCHANGED <<member, outbox>>
  /\ UNCHANGED <<rows, contested, changes>>

(* The process stops, or the client goes away and the context is cancelled. *)
CutShort(r) ==
  /\ ~At(r, "idle")
  /\ Fault
  /\ IF InTransaction(r) THEN Finish(r) ELSE Goto(r, "idle") /\ UNCHANGED held
  /\ UNCHANGED <<member, rows, outbox, contested, changes>>

-----------------------------------------------------------------------------
(* Owners add and remove members meanwhile, and time passes. *)

Change == changes < MaxChanges /\ changes' = changes + 1

AddMember(u) ==
  /\ Change
  /\ u \notin member
  /\ member' = member \cup {u}
  /\ UNCHANGED <<rows, call, held, outbox, contested, faults>>

RemoveMember(u) ==
  /\ Change
  /\ u \in member
  /\ member' = member \ {u}
  /\ UNCHANGED <<rows, call, held, outbox, contested, faults>>

Expire(t) ==
  /\ status[t] = "pending"
  /\ t \notin expired
  /\ expired' = expired \cup {t}
  /\ UNCHANGED <<member, status, invitee, call, held, outbox, contested, changes, faults>>

-----------------------------------------------------------------------------
Step(r) ==
  \/ MayInvite(r) \/ CheckMember(r) \/ CheckPending(r) \/ GetInvitationByToken(r)
  \/ Begin(r) \/ CreateInvitation(r) \/ UpdateInvitationStatus(r) \/ Commit(r)

Next ==
  \/ \E r \in Request :
       \/ \E u \in User : Invite(r, u)
       \/ \E op \in {"accept", "decline"}, u \in User, t \in Invitation : Answer(r, op, u, t)
       \/ Step(r) \/ CutShort(r)
  \/ \E u \in User : AddMember(u) \/ RemoveMember(u)
  \/ \E t \in Invitation : Expire(t)

Spec == Init /\ [][Next]_vars

-----------------------------------------------------------------------------
(* Properties *)

(* The types of the variables. *)
TypeOK ==
  /\ member \subseteq User
  /\ status \in [Invitation -> {"none", "pending", "accepted", "declined"}]
  /\ invitee \in [Invitation -> User \cup {Nobody}]
  /\ expired \subseteq Invitation
  /\ call \in [Request -> [pc : {"idle", "permit", "member", "pending", "read", "begin",
                                 "insert", "mark", "commit"},
                           op : {"none", "invite", "accept", "decline"},
                           user : User \cup {Nobody},
                           token : Invitation \cup {NoToken}]]
  /\ held \in 0..PoolSize
  /\ sent \subseteq Invitation
  /\ answers \in [Invitation -> Seq({"accepted", "declined"})]
  /\ refused \subseteq Invitation
  /\ contested \subseteq User \cup Invitation
  /\ changes \in 0..MaxChanges
  /\ faults \in 0..MaxFaults

Committing(t) == \E r \in Request : At(r, "commit") /\ call[r].token = t

(* The status written outside the transaction agrees with what the         *)
(* transaction committed, once and for all: an invitation nobody answered  *)
(* twice at once has at most one answer, which is its status; and unless a *)
(* call failed or the user was a member already, an invitation that is     *)
(* accepted or declined has that answer (AcceptInvitation,                 *)
(* DeclineInvitation).                                                     *)
AnswersAgree ==
  \A t \in Invitation \ contested :
    /\ Len(answers[t]) <= 1
    /\ answers[t] # <<>> => answers[t] = <<status[t]>>
    /\ faults = 0 /\ status[t] \in {"accepted", "declined"} =>
         answers[t] # <<>> \/ t \in refused \/ Committing(t)

(* Only two requests at once invite a user twice: of the invitations to    *)
(* anyone else at most one is pending, expired or not (CreateInvitation).  *)
OnePending ==
  faults = 0 =>
    \A u \in User \ contested : \A s, t \in PendingFor(u) : s = t

(* With more connections than requests a transaction always finds the      *)
(* second connection it needs, whatever failed before (WithTransaction and *)
(* the statements that bypass it).  With as many as requests they may wait *)
(* for one another for ever.                                               *)
ConnectionLeft == PoolSize > Cardinality(Request) => Connection

(* An acceptance that fails leaves the invitation pending. *)
RefusalKeepsPending == \A t \in refused : status[t] = "pending"

(* No invitation has two answers. *)
AnsweredOnce == \A t \in Invitation : Len(answers[t]) <= 1

(* Every invitation is announced. *)
PendingWasSent ==
  \A t \in Invitation : status[t] # "none" => t \in sent \/ Committing(t)
=============================================================================
