----------------------------- MODULE EventDispatch -----------------------------
(***************************************************************************)
(* Whom an event is a notification for and which channels hear of it: the  *)
(* payloads that the task and project services write, and what the         *)
(* notification service's dispatcher (events/dispatcher.go) reads in them. *)
(*                                                                         *)
(* A payload holds the users of the event by the name of their field; of   *)
(* the other fields only the ids of channels matter, and every producer    *)
(* writes those its handler reads.  A field that is missing or null is     *)
(* read as Nobody, the nil UUID.                                           *)
(***************************************************************************)
EXTENDS SequencesExt

Nobody == "nobody"

Payload(type, users, mentions) == [type |-> type, users |-> users, mentions |-> mentions]

Get(e, field) == IF field \in DOMAIN e.users THEN e.users[field] ELSE Nobody

-----------------------------------------------------------------------------
(* What the services write.  A deed is who did what to whom: of is the one *)
(* who is assigned, added, removed or invited, the assignee of a deleted   *)
(* task or one that is commented on, the inviter of an invitation that is  *)
(* answered.                                                               *)

AssignTask(d) ==
  IF d.op = "assign"
  THEN Payload("task.assigned", [assignee_id |-> d.of, assigned_by |-> d.by], {})
  ELSE Payload("task.unassigned", [previous_assignee_id |-> d.of, assigned_by |-> d.by], {})

(* A member who left the project is taken off his tasks. *)
UnassignRemoved(d) == Payload("task.unassigned", [previous_assignee_id |-> d.of], {})

DeleteTask(d) == Payload("task.deleted", [assignee_id |-> d.of, deleted_by |-> d.by], {})
CreateComment(d) == Payload("task.commented", [author_id |-> d.by], d.mentions)
AddMember(d) == Payload("project.member.added", [user_id |-> d.of, invited_by |-> d.by], {})
RemoveMember(d) == Payload("project.member.removed", [user_id |-> d.of], {})

InviteMember(d) ==
  Payload("project.invitation.sent", [invitee_id |-> d.of, invited_by |-> d.by], {})

AcceptInvitation(d) ==
  Payload("project.invitation.accepted", [invitee_id |-> d.by, invited_by |-> d.of], {})

(* The second event of the acceptance *)
JoinProject(d) == Payload("project.member.added", [user_id |-> d.by, added_by |-> d.of], {})

DeclineInvitation(d) ==
  Payload("project.invitation.declined", [invitee_id |-> d.by, invited_by |-> d.of], {})

Written(d) ==
  CASE d.op \in {"assign", "unassign"} -> AssignTask(d)
    [] d.op = "left"    -> UnassignRemoved(d)
    [] d.op = "delete"  -> DeleteTask(d)
    [] d.op = "comment" -> CreateComment(d)
    [] d.op = "add"     -> AddMember(d)
    [] d.op = "remove"  -> RemoveMember(d)
    [] d.op = "invite"  -> InviteMember(d)
    [] d.op = "accept"  -> AcceptInvitation(d)
    [] d.op = "join"    -> JoinProject(d)
    [] d.op = "decline" -> DeclineInvitation(d)
    [] OTHER            -> Payload(d.op, << >>, {})     \* its own type, and no users

-----------------------------------------------------------------------------
(* The handlers: a notification is a user and its kind. *)

Result(told, pushes) == [told |-> told, pushes |-> pushes]
Tell(u, kind) == IF u = Nobody THEN {} ELSE {<<u, kind>>}
TellOther(u, by, kind) == IF u = by THEN {} ELSE Tell(u, kind)

(* The event types that are told to channels only *)
ChannelsOf(t) ==
  CASE t = "task.created" -> <<"board">>
    [] t \in {"task.updated", "task.moved", "task.status.changed"} -> <<"board", "task">>
    [] t \in {"task.comment.updated", "task.comment.deleted",
              "task.attachment.added", "task.attachment.removed"} -> <<"task">>
    [] t \in {"document.uploaded", "board.created"} -> <<"project">>
    [] t \in {"boardtype.registered", "boardtype.updated", "boardtype.deleted"} -> <<"boardtypes">>
    [] OTHER -> << >>                     \* a type without a handler is ignored

TaskAssigned(e) ==
  Result(TellOther(Get(e, "assignee_id"), Get(e, "assigned_by"), "task_assigned"), <<"task">>)

TaskUnassigned(e) ==
  Result(TellOther(Get(e, "previous_assignee_id"), Get(e, "unassigned_by"), "task_unassigned"),
         <<"task">>)

TaskDeleted(e) ==
  Result(TellOther(Get(e, "assignee_id"), Get(e, "deleted_by"), "task_deleted"),
         <<"board", "task">>)

TaskCommented(e) ==
  LET author == Get(e, "author_id")
      mentioned == e.mentions \ {author}
      assignee == Get(e, "assignee_id")
  IN Result({<<u, "mention">> : u \in mentioned}
              \cup IF assignee \in mentioned THEN {}
                   ELSE TellOther(assignee, author, "comment_on_my_task"),
            <<"task">>)

MemberAdded(e) == Result(Tell(Get(e, "user_id"), "project_member_added"), <<"project">>)
MemberRemoved(e) == Result(Tell(Get(e, "user_id"), "project_member_removed"), <<"project">>)
ProjectDeleted == Result({}, <<"project">>)
InvitationSent(e) == Result(Tell(Get(e, "invitee_id"), "project_invitation_sent"), << >>)

InvitationAccepted(e) ==
  Result(Tell(Get(e, "invited_by"), "project_invitation_accepted"), <<"project">>)

InvitationDeclined(e) ==
  Result(Tell(Get(e, "invited_by"), "project_invitation_declined"), << >>)

Dispatch(e) ==
  CASE e.type = "task.assigned"   -> TaskAssigned(e)
    [] e.type = "task.unassigned" -> TaskUnassigned(e)
    [] e.type = "task.deleted"    -> TaskDeleted(e)
    [] e.type = "task.commented"  -> TaskCommented(e)
    [] e.type = "project.member.added"        -> MemberAdded(e)
    [] e.type = "project.member.removed"      -> MemberRemoved(e)
    [] e.type = "project.deleted"             -> ProjectDeleted
    [] e.type = "project.invitation.sent"     -> InvitationSent(e)
    [] e.type = "project.invitation.accepted" -> InvitationAccepted(e)
    [] e.type = "project.invitation.declined" -> InvitationDeclined(e)
    [] OTHER -> Result({}, ChannelsOf(e.type))
=============================================================================
