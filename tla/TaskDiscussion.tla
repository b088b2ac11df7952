------------------------------ MODULE TaskDiscussion ------------------------------
(***************************************************************************)
(* The comments and attachments of one task: services/domain/task, the     *)
(* second half of domain/service_impl.go, and the handlers of              *)
(* user.registered, user.deleted and document.deleted.                     *)
(*                                                                         *)
(* A transaction is one step, but for the one of UpdateComment: what its   *)
(* DELETE of the mentions sees was decided before its UPDATE has waited    *)
(* for the row.                                                            *)
(***************************************************************************)
EXTENDS Naturals

CONSTANTS
  Comment, Attachment,  \* their UUIDs, in any order
  Body, User, Document,
  Mentions,             \* whom each body mentions
  Request,              \* requests that may be in progress at once
  MaxCalls              \* bound: requests

None == "none"

ASSUME ConstantsAssumption ==
  /\ Mentions \in [Body -> SUBSET User]
  /\ MaxCalls \in Nat
  /\ None \notin Document
NoCall == [op |-> None, about |-> None, body |-> None, read |-> None, cleared |-> {}]

VARIABLES
  live,          \* is the task's deleted_at null?
  user,          \* known_users: "unknown", "known" or "deleted"
  document,      \* the document: "live", "deleted", and "handled" by this service
  state,         \* of each comment: "absent", "live" or "deleted"
  body,          \* its text
  mentions,      \* comment_mentions
  archive,       \* comment_history: the archived bodies of each comment
  had,           \* history: the bodies each comment has had before
  attached,      \* task_attachments: the document of each attachment, or None
  removed,       \* history: how often the row of an attachment was deleted
  gone,          \* history: how often an event told that it went
  pc, call,      \* of each request: where it is, what it was asked and has read
  stale,         \* history: has what the request read changed since?
  excused,       \* history: comments and documents a stale request wrote about
  calls

world == <<live, user, document>>
comments == <<state, body, mentions, archive, had>>
attachments == <<attached, removed, gone>>
requests == <<pc, call, stale>>
vars == <<world, comments, attachments, requests, excused, calls>>

Init ==
  /\ live = TRUE
  /\ user = [u \in User |-> "unknown"]
  /\ document = [d \in Document |-> "live"]
  /\ state = [c \in Comment |-> "absent"]
  /\ body = [c \in Comment |-> None]
  /\ mentions = [c \in Comment |-> {}]
  /\ archive = [c \in Comment |-> {}] /\ had = archive
  /\ attached = [a \in Attachment |-> None]
  /\ removed = [a \in Attachment |-> 0] /\ gone = removed
  /\ pc = [r \in Request |-> "idle"]
  /\ call = [r \in Request |-> NoCall]
  /\ stale = [r \in Request |-> FALSE]
  /\ excused = {} /\ calls = 0

Busy(r) == pc[r] # "idle"
Goto(r, label) == /\ pc' = [pc EXCEPT ![r] = label]
                  /\ call' = IF label = "idle" THEN [call EXCEPT ![r] = NoCall] ELSE call
Keep(r, label, c) == /\ pc' = [pc EXCEPT ![r] = label]
                     /\ call' = [call EXCEPT ![r] = c]
Outdate(about, rs) ==
  stale' = [s \in Request |-> stale[s] \/ (s \in rs /\ Busy(s) /\ call[s].about \in about)]
Excuse(r, x) == excused' = IF stale[r] THEN excused \cup {x} ELSE excused
OnlyRead == UNCHANGED <<world, comments, attachments, excused, calls>>

-----------------------------------------------------------------------------
(* The rest of the system *)

DeleteTask ==
  /\ live
  /\ live' = FALSE
  /\ UNCHANGED <<user, document, comments, attachments, requests, excused, calls>>

HandleUserRegistered(u) ==
  /\ user[u] = "unknown"
  /\ user' = [user EXCEPT ![u] = "known"]
  /\ UNCHANGED <<live, document, comments, attachments, requests, excused, calls>>

MarkKnownUserDeleted(u) ==
  /\ user[u] = "known"
  /\ user' = [user EXCEPT ![u] = "deleted"]
  /\ UNCHANGED <<live, document, comments, attachments, requests, excused, calls>>

DeleteDocument(d) ==
  /\ document[d] = "live"
  /\ document' = [document EXCEPT ![d] = "deleted"]
  /\ UNCHANGED <<live, user, comments, attachments, requests, excused, calls>>

Attached(d) == {a \in Attachment : attached[a] = d}
Detach(as) == /\ attached' = [a \in Attachment |-> IF a \in as THEN None ELSE attached[a]]
              /\ removed' = [a \in Attachment |-> IF a \in as THEN removed[a] + 1 ELSE removed[a]]

(* DeleteAttachmentsByDocument: no event is removed. *)
HandleDocumentDeleted(d) ==
  /\ document[d] = "deleted"
  /\ document' = [document EXCEPT ![d] = "handled"]
  /\ Detach(Attached(d))
  /\ Outdate({d} \cup Attached(d), Request)
  /\ UNCHANGED <<live, user, comments, gone, pc, call, excused, calls>>

-----------------------------------------------------------------------------
(* Requests begin with what they read of the task, of the comment or of    *)
(* the attachment.                                                         *)
Ask(r, c, label) ==
  /\ ~Busy(r) /\ calls < MaxCalls
  /\ calls' = calls + 1
  /\ Keep(r, label, c)
  /\ stale' = [stale EXCEPT ![r] = FALSE]
  /\ UNCHANGED <<world, comments, attachments, excused>>

Known(us) == {u \in us : user[u] = "known"}

(* The mentions are resolved before the transaction. *)
BeginCreateComment(r) ==
  /\ live
  /\ \E b \in Body :
       Ask(r, [NoCall EXCEPT !.op = "comment", !.body = b, !.cleared = Known(Mentions[b])],
           "commit")

BeginUpdateComment(r) ==
  \E c \in Comment, b \in Body :
    /\ state[c] = "live"
    /\ Ask(r, [NoCall EXCEPT !.op = "update", !.about = c, !.body = b, !.read = body[c]], "clear")

BeginDeleteComment(r) ==
  \E c \in Comment : /\ state[c] = "live"
                     /\ Ask(r, [NoCall EXCEPT !.op = "delete", !.about = c], "commit")

BeginAddAttachment(r) ==
  /\ live
  /\ \E d \in Document : Ask(r, [NoCall EXCEPT !.op = "attach", !.about = d], "document")

BeginRemoveAttachment(r) ==
  \E a \in Attachment :
    /\ live /\ attached[a] # None
    /\ Ask(r, [NoCall EXCEPT !.op = "detach", !.about = a, !.read = attached[a]], "commit")

(* Any statement may fail: nothing has been written. *)
RequestFails(r) ==
  /\ Busy(r)
  /\ Goto(r, "idle")
  /\ UNCHANGED <<world, comments, attachments, stale, excused, calls>>

(* The INSERT references the task's row, which is there when it is deleted. *)
CreateComment(r) ==
  /\ pc[r] = "commit" /\ call[r].op = "comment"
  /\ \E c \in Comment :
       /\ state[c] = "absent"
       /\ state' = [state EXCEPT ![c] = "live"]
       /\ body' = [body EXCEPT ![c] = call[r].body]
       /\ mentions' = [mentions EXCEPT ![c] = call[r].cleared]
  /\ Goto(r, "idle")
  /\ UNCHANGED <<world, archive, had, attachments, stale, excused, calls>>

(* The rows that DELETE sees; they go when the transaction commits. *)
ClearMentions(r) ==
  /\ pc[r] = "clear"
  /\ Keep(r, "commit", [call[r] EXCEPT !.cleared = mentions[call[r].about]])
  /\ OnlyRead /\ UNCHANGED stale

ArchiveNew(r) ==                     \* mutant: archives the new body
  /\ pc[r] = "commit" /\ call[r].op = "update"
  /\ LET c == call[r].about
     IN /\ state[c] = "live"
        /\ archive' = [archive EXCEPT ![c] = @ \cup {call[r].body}]
        /\ had' = [had EXCEPT ![c] = @ \cup {body[c]}]
        /\ body' = [body EXCEPT ![c] = call[r].body]
        /\ mentions' = [mentions EXCEPT ![c] = Known(Mentions[call[r].body])]
        /\ Excuse(r, c) /\ Outdate({c}, Request \ {r})
  /\ Goto(r, "idle")
  /\ UNCHANGED <<world, state, attachments, calls>>

(* The UPDATE finds no row when the comment has been deleted, and all is   *)
(* rolled back.  Archived is the body read at the beginning.               *)
UpdateComment(r) ==
  /\ pc[r] = "commit" /\ call[r].op = "update"
  /\ LET c == call[r].about
         new == call[r].body
     IN IF state[c] = "live"
        THEN /\ archive' = [archive EXCEPT ![c] = @ \cup {call[r].read}]
             /\ had' = [had EXCEPT ![c] = @ \cup {body[c]}]
             /\ body' = [body EXCEPT ![c] = new]
             /\ mentions' = [mentions EXCEPT ![c] = (@ \ call[r].cleared) \cup Known(Mentions[new])]
             /\ Excuse(r, c) /\ Outdate({c}, Request \ {r})
        ELSE UNCHANGED <<archive, had, body, mentions, excused, stale>>
  /\ Goto(r, "idle")
  /\ UNCHANGED <<world, state, attachments, calls>>

DeleteComment(r) ==
  /\ pc[r] = "commit" /\ call[r].op = "delete"
  /\ state' = [state EXCEPT ![call[r].about] = "deleted"]
  /\ Goto(r, "idle")
  /\ UNCHANGED <<world, body, mentions, archive, had, attachments, stale, excused, calls>>

GetDocumentInfo(r) ==
  /\ pc[r] = "document"
  /\ Goto(r, IF document[call[r].about] = "live" THEN "commit" ELSE "idle")
  /\ OnlyRead /\ UNCHANGED stale

(* UNIQUE (task_id, document_id) *)
AddAttachment(r) ==
  /\ pc[r] = "commit" /\ call[r].op = "attach"
  /\ LET d == call[r].about
     IN IF Attached(d) = {}
        THEN /\ \E a \in Attachment :
                  /\ attached[a] = None /\ removed[a] = 0
                  /\ attached' = [attached EXCEPT ![a] = d]
             /\ Excuse(r, d)
        ELSE UNCHANGED <<attached, excused>>
  /\ Goto(r, "idle")
  /\ UNCHANGED <<world, comments, removed, gone, stale, calls>>

RemoveUntold(r) ==                   \* mutant: no event
  /\ pc[r] = "commit" /\ call[r].op = "detach"
  /\ Detach({call[r].about} \cap {a \in Attachment : attached[a] # None})
  /\ Goto(r, "idle")
  /\ UNCHANGED <<world, comments, gone, stale, excused, calls>>

(* No look at whether the DELETE found the row *)
RemoveAttachment(r) ==
  /\ pc[r] = "commit" /\ call[r].op = "detach"
  /\ LET a == call[r].about
     IN /\ Detach({a} \ {k \in Attachment : attached[k] = None})
        /\ gone' = [gone EXCEPT ![a] = @ + 1]
        /\ Excuse(r, call[r].read) /\ Outdate({a}, Request \ {r})
  /\ Goto(r, "idle")
  /\ UNCHANGED <<world, comments, calls>>

Next ==
  \/ DeleteTask
  \/ \E u \in User : HandleUserRegistered(u) \/ MarkKnownUserDeleted(u)
  \/ \E d \in Document : DeleteDocument(d) \/ HandleDocumentDeleted(d)
  \/ \E r \in Request :
       \/ BeginCreateComment(r) \/ BeginUpdateComment(r) \/ BeginDeleteComment(r)
       \/ BeginAddAttachment(r) \/ BeginRemoveAttachment(r) \/ RequestFails(r)
       \/ CreateComment(r) \/ ClearMentions(r) \/ UpdateComment(r) \/ DeleteComment(r)
       \/ GetDocumentInfo(r) \/ AddAttachment(r) \/ RemoveAttachment(r)

Spec == Init /\ [][Next]_vars

-----------------------------------------------------------------------------
(* No body a comment has had is lost, unless two edits of it overlapped    *)
(* (UpdateComment).                                                        *)
EditsKept ==
  \A c \in Comment \ excused : had[c] \subseteq archive[c]

(* Its mentions are of its body, under the same condition (ClearMentions). *)
MentionsOfBody ==
  \A c \in Comment \ excused : state[c] = "live" => mentions[c] \subseteq Mentions[body[c]]

(* A comment tells the truth about what it was and whom it mentions. *)
CommentsKept == EditsKept /\ MentionsOfBody

(* A document whose deletion was handled is attached only by a request     *)
(* that had asked for it before.                                           *)
AttachmentsExist ==
  \A a \in Attachment :
    attached[a] # None => document[attached[a]] # "handled" \/ attached[a] \in excused

(* Whoever counts the events knows which attachments were removed, if none *)
(* was removed twice at a time and its document is still there.            *)
RemovalTold ==
  \A a \in Attachment :
    gone[a] # removed[a] => \E d \in Document : d \in excused \/ document[d] = "handled"

(* What is attached exists, and what was removed is told of. *)
AttachmentsFollow == AttachmentsExist /\ RemovalTold

-----------------------------------------------------------------------------
(* task.md:2046: an edit archives the old body. *)
EveryEditKept == \A c \in Comment : had[c] \subseteq archive[c]
=============================================================================
