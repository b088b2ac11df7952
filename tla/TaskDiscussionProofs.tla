------------------------- MODULE TaskDiscussionProofs -------------------------
(***************************************************************************)
(* What TLAPS proves of TaskDiscussion, for any comments, attachments,     *)
(* bodies, users, documents and requests: that a comment tells the truth   *)
(* about what it was and whom it mentions, and that attachments follow     *)
(* their documents, unless requests overlapped.                            *)
(***************************************************************************)
EXTENDS TaskDiscussion, TLAPS

Op == {None, "comment", "update", "delete", "attach", "detach"}
CallRecord ==
  [op : Op, about : Comment \cup Document \cup Attachment \cup {None}, body : Body \cup {None},
   read : Body \cup Document \cup {None}, cleared : SUBSET User]

(* The types by their parts. *)
WorldOK == /\ user \in [User -> {"unknown", "known", "deleted"}]
           /\ document \in [Document -> {"live", "deleted", "handled"}]
CommentOK == /\ state \in [Comment -> {"absent", "live", "deleted"}]
             /\ body \in [Comment -> Body \cup {None}]
             /\ mentions \in [Comment -> SUBSET User]
             /\ archive \in [Comment -> SUBSET (Body \cup Document \cup {None})]
             /\ had \in [Comment -> SUBSET (Body \cup {None})]
AttachmentOK == /\ attached \in [Attachment -> Document \cup {None}]
                /\ removed \in [Attachment -> Nat]
                /\ gone \in [Attachment -> Nat]
RequestOK == /\ pc \in [Request -> {"idle", "clear", "document", "commit"}]
             /\ call \in [Request -> CallRecord]
             /\ stale \in [Request -> BOOLEAN]
Types == WorldOK /\ CommentOK /\ AttachmentOK /\ RequestOK

(* What a request is about, where it stands. *)
Placed(r) ==
  /\ pc[r] = "idle" <=> call[r].op = None
  /\ pc[r] = "clear" => call[r].op = "update"
  /\ pc[r] = "document" => call[r].op = "attach"
  /\ call[r].op = "comment" =>
       call[r].body \in Body /\ call[r].cleared \subseteq Mentions[call[r].body]
  /\ call[r].op \in {"update", "delete"} =>
       call[r].about \in Comment /\ state[call[r].about] # "absent"
  /\ call[r].op = "update" => call[r].body \in Body
  /\ call[r].op = "attach" => call[r].about \in Document
  /\ call[r].op = "detach" => call[r].about \in Attachment /\ call[r].read \in Document

(* What a request has read is still so unless it is stale. *)
Fresh(r) ==
  /\ call[r].op = "update" => call[r].read = body[call[r].about]
  /\ call[r].op = "update" /\ pc[r] = "commit" => call[r].cleared = mentions[call[r].about]
  /\ call[r].op = "attach" /\ pc[r] = "commit" => document[call[r].about] # "handled"
  /\ call[r].op = "detach" => attached[call[r].about] = call[r].read

Requests == \A r \in Request : Placed(r) /\ (stale[r] \/ Fresh(r))

IInv == Types /\ Requests /\ CommentsKept /\ AttachmentsFollow

USE ConstantsAssumption DEF None

-----------------------------------------------------------------------------
LEMMA InitHolds == ASSUME Init PROVE IInv
<1>1. Types
  BY DEF Init, Types, WorldOK, CommentOK, AttachmentOK, RequestOK, NoCall, CallRecord, Op
<1>2. Requests
  BY DEF Init, Requests, Placed, Fresh, NoCall
<1>3. CommentsKept
  BY DEF Init, CommentsKept, EditsKept, MentionsOfBody
<1>4. AttachmentsFollow
  BY DEF Init, AttachmentsFollow, AttachmentsExist, RemovalTold
<1> QED BY <1>1, <1>2, <1>3, <1>4 DEF IInv

-----------------------------------------------------------------------------
(* Every action keeps the types. *)

LEMMA GotoTypes ==
  ASSUME RequestOK, NEW r \in Request, NEW label \in {"idle", "clear", "document", "commit"},
         Goto(r, label), UNCHANGED stale
  PROVE  RequestOK'
  BY DEF RequestOK, Goto, NoCall, CallRecord, Op

LEMMA AskTypes ==
  ASSUME Types, NEW r \in Request, NEW label \in {"idle", "clear", "document", "commit"},
         NEW c \in CallRecord, Ask(r, c, label)
  PROVE  Types'
  BY DEF Types, WorldOK, CommentOK, AttachmentOK, RequestOK, Ask, Keep, world, comments,
         attachments

LEMMA OutdateTypes ==
  ASSUME stale \in [Request -> BOOLEAN], NEW about, NEW rs, Outdate(about, rs)
  PROVE  stale' \in [Request -> BOOLEAN]
  BY DEF Outdate

LEMMA DetachTypes ==
  ASSUME attached \in [Attachment -> Document \cup {None}], removed \in [Attachment -> Nat],
         NEW as, Detach(as)
  PROVE  /\ attached' \in [Attachment -> Document \cup {None}]
         /\ removed' \in [Attachment -> Nat]
<1>1. \A a \in Attachment : (IF a \in as THEN None ELSE attached[a]) \in Document \cup {None}
  OBVIOUS
<1>2. \A a \in Attachment : removed[a] \in Nat /\ removed[a] + 1 \in Nat
  OBVIOUS
<1>3. \A a \in Attachment : (IF a \in as THEN removed[a] + 1 ELSE removed[a]) \in Nat
  BY <1>2, Zenon
<1> QED BY <1>1, <1>3 DEF Detach

LEMMA BeginTypes ==
  ASSUME Types, NEW r \in Request,
         \/ BeginCreateComment(r) \/ BeginUpdateComment(r) \/ BeginDeleteComment(r)
         \/ BeginAddAttachment(r) \/ BeginRemoveAttachment(r)
  PROVE  Types'
<1>1. CASE BeginCreateComment(r)
  <2>1. PICK b \in Body :
          Ask(r, [NoCall EXCEPT !.op = "comment", !.body = b, !.cleared = Known(Mentions[b])],
              "commit")
    BY <1>1 DEF BeginCreateComment
  <2>2. [NoCall EXCEPT !.op = "comment", !.body = b, !.cleared = Known(Mentions[b])] \in CallRecord
    BY DEF NoCall, CallRecord, Op, Known
  <2> QED BY <2>1, <2>2, AskTypes
<1>2. CASE BeginUpdateComment(r)
  <2>1. PICK c \in Comment, b \in Body :
          Ask(r, [NoCall EXCEPT !.op = "update", !.about = c, !.body = b, !.read = body[c]],
              "clear")
    BY <1>2 DEF BeginUpdateComment
  <2>2. [NoCall EXCEPT !.op = "update", !.about = c, !.body = b, !.read = body[c]] \in CallRecord
    BY DEF NoCall, CallRecord, Op, Types, CommentOK
  <2> QED BY <2>1, <2>2, AskTypes
<1>3. CASE BeginDeleteComment(r)
  <2>1. PICK c \in Comment : Ask(r, [NoCall EXCEPT !.op = "delete", !.about = c], "commit")
    BY <1>3 DEF BeginDeleteComment
  <2>2. [NoCall EXCEPT !.op = "delete", !.about = c] \in CallRecord
    BY DEF NoCall, CallRecord, Op
  <2> QED BY <2>1, <2>2, AskTypes
<1>4. CASE BeginAddAttachment(r)
  <2>1. PICK d \in Document : Ask(r, [NoCall EXCEPT !.op = "attach", !.about = d], "document")
    BY <1>4 DEF BeginAddAttachment
  <2>2. [NoCall EXCEPT !.op = "attach", !.about = d] \in CallRecord
    BY DEF NoCall, CallRecord, Op
  <2> QED BY <2>1, <2>2, AskTypes
<1>5. CASE BeginRemoveAttachment(r)
  <2>1. PICK a \in Attachment :
          Ask(r, [NoCall EXCEPT !.op = "detach", !.about = a, !.read = attached[a]], "commit")
    BY <1>5 DEF BeginRemoveAttachment
  <2>2. [NoCall EXCEPT !.op = "detach", !.about = a, !.read = attached[a]] \in CallRecord
    BY DEF NoCall, CallRecord, Op, Types, AttachmentOK
  <2> QED BY <2>1, <2>2, AskTypes
<1> QED BY <1>1, <1>2, <1>3, <1>4, <1>5

LEMMA UpdateTypes ==
  ASSUME Types, Requests, NEW r \in Request, UpdateComment(r)
  PROVE  Types'
<1> DEFINE c == call[r].about
           new == call[r].body
<1>1. c \in Comment /\ new \in Body
  BY DEF UpdateComment, Requests, Placed
<1>2. call[r].read \in Body \cup Document \cup {None} /\ call[r].cleared \subseteq User
  BY DEF Types, RequestOK, CallRecord
<1>3. UNCHANGED <<world, state, attachments>> /\ Goto(r, "idle")
  BY DEF UpdateComment
<1>4. CASE UNCHANGED <<archive, had, body, mentions, excused, stale>>
  BY <1>3, <1>4, GotoTypes
     DEF Types, WorldOK, CommentOK, AttachmentOK, world, attachments, RequestOK
<1>5. CASE /\ archive' = [archive EXCEPT ![c] = @ \cup {call[r].read}]
           /\ had' = [had EXCEPT ![c] = @ \cup {body[c]}]
           /\ body' = [body EXCEPT ![c] = new]
           /\ mentions' = [mentions EXCEPT ![c] = (@ \ call[r].cleared) \cup Known(Mentions[new])]
           /\ Outdate({c}, Request \ {r})
  <2>1. CommentOK'
    <3>1. Known(Mentions[new]) \subseteq User BY <1>1 DEF Known
    <3>2. PICK cleared : cleared = call[r].cleared OBVIOUS
    <3>3. PICK known : known = Known(Mentions[new]) OBVIOUS
    <3>4. PICK read : read = call[r].read OBVIOUS
    <3> HIDE DEF c, new
    <3>5. mentions' \in [Comment -> SUBSET User]
      BY <1>1, <1>2, <1>5, <3>1, <3>2, <3>3 DEF Types, CommentOK
    <3>6. archive' \in [Comment -> SUBSET (Body \cup Document \cup {None})]
      BY <1>1, <1>2, <1>5, <3>4 DEF Types, CommentOK
    <3>7. had' \in [Comment -> SUBSET (Body \cup {None})] /\ body' \in [Comment -> Body \cup {None}]
      BY <1>1, <1>5 DEF Types, CommentOK
    <3> QED BY <1>3, <3>5, <3>6, <3>7 DEF Types, CommentOK
  <2>2. RequestOK'
    <3>1. stale' \in [Request -> BOOLEAN] BY <1>5, OutdateTypes DEF Types, RequestOK
    <3>2. pc' \in [Request -> {"idle", "clear", "document", "commit"}]
      BY <1>3 DEF Goto, Types, RequestOK
    <3>3. call' \in [Request -> CallRecord]
      BY <1>3 DEF Goto, Types, RequestOK, NoCall, CallRecord, Op
    <3> QED BY <3>1, <3>2, <3>3 DEF RequestOK
  <2> QED BY <1>3, <2>1, <2>2 DEF Types, WorldOK, AttachmentOK, world, attachments
<1> QED BY <1>4, <1>5 DEF UpdateComment

LEMMA RemoveTypes ==
  ASSUME Types, Requests, NEW r \in Request, RemoveAttachment(r)
  PROVE  Types'
<1>1. call[r].about \in Attachment
  BY DEF RemoveAttachment, Requests, Placed
<1>2. UNCHANGED <<world, comments>> /\ Goto(r, "idle")
  BY DEF RemoveAttachment
<1>3. AttachmentOK'
  <2>1. attached' \in [Attachment -> Document \cup {None}] /\ removed' \in [Attachment -> Nat]
    BY DetachTypes DEF RemoveAttachment, Types, AttachmentOK
  <2>2. gone' \in [Attachment -> Nat]
    <3>1. PICK a \in Attachment : a = call[r].about BY <1>1
    <3>2. gone' = [gone EXCEPT ![a] = @ + 1] BY <3>1 DEF RemoveAttachment
    <3> QED BY <3>2 DEF Types, AttachmentOK
  <2> QED BY <2>1, <2>2 DEF AttachmentOK
<1>4. RequestOK'
  <2>1. stale' \in [Request -> BOOLEAN]
    BY OutdateTypes DEF RemoveAttachment, Types, RequestOK
  <2>2. pc' \in [Request -> {"idle", "clear", "document", "commit"}]
    BY <1>2 DEF Goto, Types, RequestOK
  <2>3. call' \in [Request -> CallRecord]
    BY <1>2 DEF Goto, Types, RequestOK, NoCall, CallRecord, Op
  <2> QED BY <2>1, <2>2, <2>3 DEF RequestOK
<1> QED BY <1>2, <1>3, <1>4 DEF Types, WorldOK, CommentOK, world, comments

LEMMA OtherTypes ==
  ASSUME Types, Requests, NEW r \in Request,
         \/ RequestFails(r) \/ CreateComment(r) \/ ClearMentions(r) \/ DeleteComment(r)
         \/ GetDocumentInfo(r) \/ AddAttachment(r)
  PROVE  Types'
<1>1. CASE RequestFails(r)
  BY <1>1, GotoTypes
     DEF RequestFails, Types, WorldOK, CommentOK, AttachmentOK, world, comments, attachments
<1>2. CASE CreateComment(r)
  <2>1. call[r].body \in Body /\ call[r].cleared \subseteq User /\ Goto(r, "idle")
    BY <1>2 DEF CreateComment, Requests, Placed, Types, RequestOK, CallRecord
  <2>2. PICK text, us : text = call[r].body /\ us = call[r].cleared OBVIOUS
  <2>3. PICK c \in Comment : /\ state' = [state EXCEPT ![c] = "live"]
                             /\ body' = [body EXCEPT ![c] = text]
                             /\ mentions' = [mentions EXCEPT ![c] = us]
    BY <1>2, <2>2 DEF CreateComment
  <2>4. CommentOK'
    BY <1>2, <2>1, <2>2, <2>3 DEF CreateComment, Types, CommentOK
  <2> QED BY <1>2, <2>1, <2>4, GotoTypes
         DEF CreateComment, Types, WorldOK, AttachmentOK, world, attachments
<1>3. CASE ClearMentions(r)
  <2>1. call[r].about \in Comment
    BY <1>3 DEF ClearMentions, Requests, Placed
  <2>2. mentions[call[r].about] \subseteq User BY <2>1 DEF Types, CommentOK
  <2>3. [call[r] EXCEPT !.cleared = mentions[call[r].about]] \in CallRecord
    BY <2>2 DEF Types, RequestOK, CallRecord
  <2>4. PICK k \in CallRecord : k = [call[r] EXCEPT !.cleared = mentions[call[r].about]] BY <2>3
  <2>5. RequestOK'
    BY <1>3, <2>4 DEF ClearMentions, Keep, Types, RequestOK
  <2> QED BY <1>3, <2>5
         DEF ClearMentions, OnlyRead, Types, WorldOK, CommentOK, AttachmentOK, world, comments,
             attachments
<1>4. CASE DeleteComment(r)
  <2>1. CommentOK'
    BY <1>4 DEF DeleteComment, Types, CommentOK
  <2> QED BY <1>4, <2>1, GotoTypes
         DEF DeleteComment, Types, WorldOK, AttachmentOK, world, attachments
<1>5. CASE GetDocumentInfo(r)
  <2>1. RequestOK'
    <3>1. PICK label \in {"idle", "commit"} : Goto(r, label) BY <1>5 DEF GetDocumentInfo
    <3> QED BY <1>5, <3>1, GotoTypes DEF GetDocumentInfo, Types
  <2> QED BY <1>5, <2>1
         DEF GetDocumentInfo, OnlyRead, Types, WorldOK, CommentOK, AttachmentOK, world, comments,
             attachments
<1>6. CASE AddAttachment(r)
  <2>1. PICK d \in Document : d = call[r].about
    BY <1>6 DEF AddAttachment, Requests, Placed
  <2>2. attached' \in [Attachment -> Document \cup {None}]
    <3>1. \/ UNCHANGED attached
          \/ \E a \in Attachment : attached' = [attached EXCEPT ![a] = d]
      BY <1>6, <2>1 DEF AddAttachment
    <3> QED BY <3>1 DEF Types, AttachmentOK
  <2>3. RequestOK' BY <1>6, GotoTypes DEF AddAttachment, Types
  <2> QED BY <1>6, <2>2, <2>3
         DEF AddAttachment, Types, WorldOK, CommentOK, AttachmentOK, world, comments
<1> QED BY <1>1, <1>2, <1>3, <1>4, <1>5, <1>6

LEMMA WorldTypes ==
  ASSUME Types,
         \/ DeleteTask
         \/ \E u \in User : HandleUserRegistered(u) \/ MarkKnownUserDeleted(u)
         \/ \E d \in Document : DeleteDocument(d) \/ HandleDocumentDeleted(d)
  PROVE  Types'
<1>1. CASE DeleteTask
  BY <1>1 DEF DeleteTask, Types, WorldOK, CommentOK, AttachmentOK, RequestOK, comments,
     attachments, requests
<1>2. CASE \E u \in User : HandleUserRegistered(u) \/ MarkKnownUserDeleted(u)
  <2>1. UNCHANGED <<document, comments, attachments, requests>>
    BY <1>2 DEF HandleUserRegistered, MarkKnownUserDeleted
  <2>2. user' \in [User -> {"unknown", "known", "deleted"}]
    BY <1>2 DEF HandleUserRegistered, MarkKnownUserDeleted, Types, WorldOK
  <2> QED BY <2>1, <2>2
         DEF Types, WorldOK, CommentOK, AttachmentOK, RequestOK, comments, attachments, requests
<1>3. ASSUME NEW d \in Document, DeleteDocument(d) PROVE Types'
  BY <1>3 DEF DeleteDocument, Types, WorldOK, CommentOK, AttachmentOK, RequestOK, comments,
     attachments, requests
<1>4. ASSUME NEW d \in Document, HandleDocumentDeleted(d) PROVE Types'
  <2>1. AttachmentOK'
    BY <1>4, DetachTypes DEF HandleDocumentDeleted, Types, AttachmentOK
  <2>2. RequestOK'
    BY <1>4, OutdateTypes DEF HandleDocumentDeleted, Types, RequestOK
  <2>3. WorldOK'
    BY <1>4 DEF HandleDocumentDeleted, Types, WorldOK
  <2> QED BY <1>4, <2>1, <2>2, <2>3 DEF HandleDocumentDeleted, Types, CommentOK, comments
<1> QED BY <1>1, <1>2, <1>3, <1>4

LEMMA TypesKept == ASSUME Types, Requests, [Next]_vars PROVE Types'
<1>1. CASE UNCHANGED vars
  BY <1>1 DEF vars, world, comments, attachments, requests, Types, WorldOK, CommentOK,
     AttachmentOK, RequestOK
<1> QED BY <1>1, BeginTypes, UpdateTypes, RemoveTypes, OtherTypes, WorldTypes DEF Next

-----------------------------------------------------------------------------
(* What a request has read stays so, or the request becomes stale.         *)

LEMMA StaysPut ==
  ASSUME Types, NEW s \in Request, Placed(s), stale[s] \/ Fresh(s),
         pc'[s] = pc[s], call'[s] = call[s], stale[s] => stale'[s],
         \A c \in Comment : state[c] # "absent" => state'[c] # "absent",
         ~stale'[s] =>
           /\ \A c \in Comment : call[s].about = c /\ state[c] # "absent" =>
                body'[c] = body[c] /\ mentions'[c] = mentions[c]
           /\ \A d \in Document : call[s].about = d /\ document[d] # "handled" =>
                document'[d] # "handled"
           /\ \A a \in Attachment : call[s].about = a /\ attached[a] # None =>
                attached'[a] = attached[a]
  PROVE  Placed(s)' /\ (stale[s] \/ Fresh(s))'
<1>1. Placed(s)'
  BY DEF Placed
<1>2. CASE stale'[s] BY <1>1, <1>2
<1>3. CASE ~stale'[s]
  <2>1. Fresh(s) BY <1>3
  <2>2. call[s].op = "update" => call[s].about \in Comment /\ state[call[s].about] # "absent"
    BY DEF Placed
  <2>3. call[s].op = "attach" => call[s].about \in Document BY DEF Placed
  <2>4. call[s].op = "detach" =>
          call[s].about \in Attachment /\ attached[call[s].about] # None
    BY <2>1 DEF Placed, Fresh
  <2>5. Fresh(s)' BY <1>3, <2>1, <2>2, <2>3, <2>4 DEF Fresh
  <2> QED BY <1>1, <2>5
<1> QED BY <1>2, <1>3

LEMMA IdlePlaced ==
  ASSUME Types, NEW r \in Request, Goto(r, "idle")
  PROVE  Placed(r)' /\ Fresh(r)'
<1>1. pc'[r] = "idle" /\ call'[r] = NoCall
  BY DEF Goto, Types, RequestOK
<1> QED BY <1>1 DEF Placed, Fresh, NoCall

LEMMA OthersAlone ==
  ASSUME Types, NEW r \in Request, NEW s \in Request, s # r, NEW label,
         Goto(r, label) \/ (\E c : Keep(r, label, c))
  PROVE  pc'[s] = pc[s] /\ call'[s] = call[s]
  BY DEF Types, RequestOK, Goto, Keep

(* Who is asked about what is written is stale. *)
LEMMA OutdateStale ==
  ASSUME Types, NEW about, NEW rs, Outdate(about, rs), NEW s \in Request
  PROVE  /\ stale[s] => stale'[s]
         /\ s \in rs /\ pc[s] # "idle" /\ call[s].about \in about => stale'[s]
<1>1. stale'[s] = (stale[s] \/ (s \in rs /\ pc[s] # "idle" /\ call[s].about \in about))
  BY DEF Outdate, Busy
<1> QED BY <1>1

(* A request that begins has read what is so. *)
LEMMA AskRequests ==
  ASSUME Types, Requests, NEW r \in Request, NEW label \in {"clear", "document", "commit"},
         NEW c \in CallRecord, Ask(r, c, label),
         pc'[r] = label /\ call'[r] = c => Placed(r)' /\ Fresh(r)'
  PROVE  Requests'
<1>1. pc'[r] = label /\ call'[r] = c
  BY DEF Ask, Keep, Types, RequestOK
<1>2. ASSUME NEW s \in Request, s # r PROVE Placed(s)' /\ (stale[s] \/ Fresh(s))'
  <2>1. pc'[s] = pc[s] /\ call'[s] = call[s] BY <1>2, OthersAlone DEF Ask
  <2>2. stale'[s] = stale[s] BY <1>2 DEF Ask, Types, RequestOK
  <2>3. UNCHANGED <<state, body, mentions, document, attached>>
    BY DEF Ask, world, comments, attachments
  <2> QED BY <2>1, <2>2, <2>3, StaysPut DEF Requests
<1> QED BY <1>1, <1>2 DEF Requests

LEMMA BeginRequests ==
  ASSUME Types, Requests, NEW r \in Request,
         \/ BeginCreateComment(r) \/ BeginUpdateComment(r) \/ BeginDeleteComment(r)
         \/ BeginAddAttachment(r) \/ BeginRemoveAttachment(r)
  PROVE  Requests'
<1>0. ASSUME NEW c, NEW label, Ask(r, c, label)
      PROVE  UNCHANGED <<state, body, mentions, document, attached>>
  BY <1>0 DEF Ask, world, comments, attachments
<1>1. CASE BeginCreateComment(r)
  <2>1. PICK b \in Body :
          Ask(r, [NoCall EXCEPT !.op = "comment", !.body = b, !.cleared = Known(Mentions[b])],
              "commit")
    BY <1>1 DEF BeginCreateComment
  <2> DEFINE k == [NoCall EXCEPT !.op = "comment", !.body = b, !.cleared = Known(Mentions[b])]
  <2>2. k \in CallRecord BY DEF NoCall, CallRecord, Op, Known
  <2>3. /\ k.op = "comment" /\ k.body = b
        /\ k.cleared \subseteq Mentions[b]
    BY DEF NoCall, Known
  <2> HIDE DEF k
  <2>4. pc'[r] = "commit" /\ call'[r] = k => Placed(r)' /\ Fresh(r)'
    BY <2>3 DEF Placed, Fresh
  <2> QED BY <2>1, <2>2, <2>4, AskRequests DEF k
<1>2. CASE BeginUpdateComment(r)
  <2>1. PICK c \in Comment, b \in Body :
          /\ state[c] = "live"
          /\ Ask(r, [NoCall EXCEPT !.op = "update", !.about = c, !.body = b, !.read = body[c]],
                 "clear")
    BY <1>2 DEF BeginUpdateComment
  <2> DEFINE k == [NoCall EXCEPT !.op = "update", !.about = c, !.body = b, !.read = body[c]]
  <2>2. k \in CallRecord BY DEF NoCall, CallRecord, Op, Types, CommentOK
  <2>3. k.op = "update" /\ k.body = b /\ k.about = c /\ k.read = body[c]
    BY DEF NoCall
  <2> HIDE DEF k
  <2>4. pc'[r] = "clear" /\ call'[r] = k => Placed(r)' /\ Fresh(r)'
    BY <2>1, <2>3, <1>0 DEF Placed, Fresh
  <2> QED BY <2>1, <2>2, <2>4, AskRequests DEF k
<1>3. CASE BeginDeleteComment(r)
  <2>1. PICK c \in Comment :
          state[c] = "live" /\ Ask(r, [NoCall EXCEPT !.op = "delete", !.about = c], "commit")
    BY <1>3 DEF BeginDeleteComment
  <2> DEFINE k == [NoCall EXCEPT !.op = "delete", !.about = c]
  <2>2. k \in CallRecord BY DEF NoCall, CallRecord, Op
  <2>3. k.op = "delete" /\ k.about = c BY DEF NoCall
  <2> HIDE DEF k
  <2>4. pc'[r] = "commit" /\ call'[r] = k => Placed(r)' /\ Fresh(r)'
    BY <2>1, <2>3, <1>0 DEF Placed, Fresh
  <2> QED BY <2>1, <2>2, <2>4, AskRequests DEF k
<1>4. CASE BeginAddAttachment(r)
  <2>1. PICK d \in Document : Ask(r, [NoCall EXCEPT !.op = "attach", !.about = d], "document")
    BY <1>4 DEF BeginAddAttachment
  <2> DEFINE k == [NoCall EXCEPT !.op = "attach", !.about = d]
  <2>2. k \in CallRecord BY DEF NoCall, CallRecord, Op
  <2>3. k.op = "attach" /\ k.about = d BY DEF NoCall
  <2> HIDE DEF k
  <2>4. pc'[r] = "document" /\ call'[r] = k => Placed(r)' /\ Fresh(r)'
    BY <2>3 DEF Placed, Fresh
  <2> QED BY <2>1, <2>2, <2>4, AskRequests DEF k
<1>5. CASE BeginRemoveAttachment(r)
  <2>1. PICK a \in Attachment :
          /\ attached[a] # None
          /\ Ask(r, [NoCall EXCEPT !.op = "detach", !.about = a, !.read = attached[a]], "commit")
    BY <1>5 DEF BeginRemoveAttachment
  <2> DEFINE k == [NoCall EXCEPT !.op = "detach", !.about = a, !.read = attached[a]]
  <2>2. k \in CallRecord BY DEF NoCall, CallRecord, Op, Types, AttachmentOK
  <2>3. k.op = "detach" /\ k.about = a /\ k.read = attached[a] /\ attached[a] \in Document
    BY <2>1 DEF NoCall, Types, AttachmentOK
  <2> HIDE DEF k
  <2>4. pc'[r] = "commit" /\ call'[r] = k => Placed(r)' /\ Fresh(r)'
    BY <2>1, <2>3, <1>0 DEF Placed, Fresh
  <2> QED BY <2>1, <2>2, <2>4, AskRequests DEF k
<1> QED BY <1>1, <1>2, <1>3, <1>4, <1>5

(* A request that ends leaves the others what they have read, or stale. *)
LEMMA EndRequests ==
  ASSUME Types, Requests, NEW r \in Request, Goto(r, "idle"),
         \A s \in Request : stale[s] => stale'[s],
         \A c \in Comment : state[c] # "absent" => state'[c] # "absent",
         document' = document,
         \A s \in Request : s # r /\ pc[s] # "idle" /\ ~stale'[s] =>
           /\ \A c \in Comment : call[s].about = c /\ state[c] # "absent" =>
                body'[c] = body[c] /\ mentions'[c] = mentions[c]
           /\ \A a \in Attachment : call[s].about = a /\ attached[a] # None =>
                attached'[a] = attached[a]
  PROVE  Requests'
<1>1. Placed(r)' /\ Fresh(r)' BY IdlePlaced
<1>2. ASSUME NEW s \in Request, s # r PROVE Placed(s)' /\ (stale[s] \/ Fresh(s))'
  <2>1. pc'[s] = pc[s] /\ call'[s] = call[s] BY <1>2, OthersAlone
  <2>2. Placed(s) /\ (stale[s] \/ Fresh(s)) BY DEF Requests
  <2>3. CASE pc[s] = "idle" BY <2>1, <2>2, <2>3 DEF Placed, Fresh
  <2>4. CASE pc[s] # "idle" BY <1>2, <2>1, <2>2, <2>4, StaysPut
  <2> QED BY <2>3, <2>4
<1> QED BY <1>1, <1>2 DEF Requests

LEMMA StepRequests ==
  ASSUME Types, Requests, NEW r \in Request,
         \/ RequestFails(r) \/ CreateComment(r) \/ UpdateComment(r) \/ DeleteComment(r)
         \/ AddAttachment(r) \/ RemoveAttachment(r)
  PROVE  Requests'
<1>1. CASE RequestFails(r)
  BY <1>1, EndRequests DEF RequestFails, world, comments, attachments
<1>2. CASE CreateComment(r)
  <2>1. PICK c \in Comment : /\ state[c] = "absent"
                             /\ state' = [state EXCEPT ![c] = "live"]
                             /\ body' = [body EXCEPT ![c] = call[r].body]
                             /\ mentions' = [mentions EXCEPT ![c] = call[r].cleared]
    BY <1>2 DEF CreateComment
  <2>2. \A k \in Comment : state[k] # "absent" =>
          state'[k] = state[k] /\ body'[k] = body[k] /\ mentions'[k] = mentions[k]
    BY <2>1 DEF Types, CommentOK
  <2> QED BY <1>2, <2>2, EndRequests DEF CreateComment, world, attachments
<1>3. CASE UpdateComment(r)
  <2>1. UNCHANGED <<world, state, attachments>> /\ Goto(r, "idle") BY <1>3 DEF UpdateComment
  <2>2. CASE UNCHANGED <<archive, had, body, mentions, excused, stale>>
    BY <2>1, <2>2, EndRequests DEF world, attachments
  <2>3. CASE ~UNCHANGED <<archive, had, body, mentions, excused, stale>>
    <3> DEFINE c == call[r].about
    <3>1. /\ \E x : body' = [body EXCEPT ![c] = x]
          /\ \E x : mentions' = [mentions EXCEPT ![c] = x]
          /\ Outdate({c}, Request \ {r})
      BY <1>3, <2>3 DEF UpdateComment
    <3> HIDE DEF c
    <3>2. \A k \in Comment : k # c => body'[k] = body[k] /\ mentions'[k] = mentions[k]
      BY <3>1 DEF Types, CommentOK
    <3>3. \A s \in Request : stale[s] => stale'[s] BY <3>1, OutdateStale
    <3>4. \A s \in Request : s # r /\ pc[s] # "idle" /\ ~stale'[s] => call[s].about # c
      BY <3>1, OutdateStale
    <3> QED BY <2>1, <3>2, <3>3, <3>4, EndRequests DEF world, attachments
  <2> QED BY <2>2, <2>3
<1>4. CASE DeleteComment(r)
  <2>1. \A c \in Comment : state[c] # "absent" => state'[c] # "absent"
    BY <1>4 DEF DeleteComment, Types, CommentOK
  <2> QED BY <1>4, <2>1, EndRequests DEF DeleteComment, world, attachments
<1>5. CASE AddAttachment(r)
  <2>1. \/ UNCHANGED attached
        \/ \E a \in Attachment :
             attached[a] = None /\ \E d : attached' = [attached EXCEPT ![a] = d]
    BY <1>5 DEF AddAttachment
  <2>2. \A a \in Attachment : attached[a] # None => attached'[a] = attached[a]
    BY <2>1 DEF Types, AttachmentOK
  <2> QED BY <1>5, <2>2, EndRequests DEF AddAttachment, world, comments
<1>6. CASE RemoveAttachment(r)
  <2> DEFINE a == call[r].about
  <2>1. Outdate({a}, Request \ {r}) /\ Detach({a} \ {k \in Attachment : attached[k] = None})
    BY <1>6 DEF RemoveAttachment
  <2> HIDE DEF a
  <2>2. \A k \in Attachment : k # a => attached'[k] = attached[k]
    BY <2>1 DEF Detach
  <2>3. \A s \in Request : stale[s] => stale'[s] BY <2>1, OutdateStale
  <2>4. \A s \in Request : s # r /\ pc[s] # "idle" /\ ~stale'[s] => call[s].about # a
    BY <2>1, OutdateStale
  <2> QED BY <1>6, <2>2, <2>3, <2>4, EndRequests DEF RemoveAttachment, world, comments
<1> QED BY <1>1, <1>2, <1>3, <1>4, <1>5, <1>6

(* ClearMentions and GetDocumentInfo only read. *)
LEMMA ReadRequests ==
  ASSUME Types, Requests, NEW r \in Request, ClearMentions(r) \/ GetDocumentInfo(r)
  PROVE  Requests'
<1>1. UNCHANGED <<state, body, mentions, document, attached, stale>>
  BY DEF ClearMentions, GetDocumentInfo, OnlyRead, world, comments, attachments
<1>2. ASSUME NEW s \in Request, s # r PROVE Placed(s)' /\ (stale[s] \/ Fresh(s))'
  <2>1. (\E label : Goto(r, label)) \/ (\E label, c : Keep(r, label, c))
    BY DEF ClearMentions, GetDocumentInfo
  <2>2. pc'[s] = pc[s] /\ call'[s] = call[s] BY <1>2, <2>1, OthersAlone
  <2> QED BY <1>1, <2>2, StaysPut DEF Requests
<1>3. CASE ClearMentions(r)
  <2>1. Placed(r) /\ pc[r] = "clear" /\ call[r].op = "update" /\ (stale[r] \/ Fresh(r))
    BY <1>3 DEF Requests, ClearMentions, Placed
  <2>2. pc'[r] = "commit" /\ call'[r] = [call[r] EXCEPT !.cleared = mentions[call[r].about]]
    BY <1>3 DEF ClearMentions, Keep, Types, RequestOK
  <2>3. /\ call'[r].op = "update" /\ call'[r].about = call[r].about
        /\ call'[r].body = call[r].body /\ call'[r].read = call[r].read
        /\ call'[r].cleared = mentions[call[r].about]
    BY <2>1, <2>2 DEF Types, RequestOK, CallRecord
  <2>4. Placed(r)' BY <1>1, <2>1, <2>2, <2>3 DEF Placed
  <2>5. (stale[r] \/ Fresh(r))' BY <1>1, <2>1, <2>2, <2>3 DEF Fresh
  <2> QED BY <1>2, <2>4, <2>5 DEF Requests
<1>4. CASE GetDocumentInfo(r)
  <2>1. Placed(r) /\ pc[r] = "document" /\ call[r].op = "attach" /\ (stale[r] \/ Fresh(r))
    BY <1>4 DEF Requests, GetDocumentInfo, Placed
  <2>2. CASE document[call[r].about] # "live"
    BY <1>2, <1>4, <2>2, IdlePlaced DEF GetDocumentInfo, Requests
  <2>3. CASE document[call[r].about] = "live"
    <3>1. pc'[r] = "commit" /\ call' = call
      BY <1>4, <2>3 DEF GetDocumentInfo, Goto, Types, RequestOK
    <3>2. Placed(r)' /\ Fresh(r)' BY <1>1, <2>1, <2>3, <3>1 DEF Placed, Fresh
    <3> QED BY <1>2, <3>2 DEF Requests
  <2> QED BY <2>2, <2>3
<1> QED BY <1>3, <1>4

LEMMA WorldRequests ==
  ASSUME Types, Requests,
         \/ DeleteTask
         \/ \E u \in User : HandleUserRegistered(u) \/ MarkKnownUserDeleted(u)
         \/ \E d \in Document : DeleteDocument(d) \/ HandleDocumentDeleted(d)
  PROVE  Requests'
<1>1. CASE \/ DeleteTask
           \/ \E u \in User : HandleUserRegistered(u) \/ MarkKnownUserDeleted(u)
  <2>1. UNCHANGED <<document, comments, attachments, requests>>
    BY <1>1 DEF DeleteTask, HandleUserRegistered, MarkKnownUserDeleted
  <2> QED BY <2>1 DEF comments, attachments, requests, Requests, Placed, Fresh
<1>2. ASSUME NEW d \in Document, DeleteDocument(d), NEW s \in Request
      PROVE  Placed(s)' /\ (stale[s] \/ Fresh(s))'
  <2>1. UNCHANGED <<comments, attachments, requests>> BY <1>2 DEF DeleteDocument
  <2>2. \A k \in Document : document[k] # "handled" => document'[k] # "handled"
    BY <1>2 DEF DeleteDocument, Types, WorldOK
  <2> QED BY <2>1, <2>2, StaysPut DEF Requests, comments, attachments, requests
<1>3. ASSUME NEW d \in Document, HandleDocumentDeleted(d), NEW s \in Request
      PROVE  Placed(s)' /\ (stale[s] \/ Fresh(s))'
  <2>1. UNCHANGED <<comments, pc, call>> /\ Outdate({d} \cup Attached(d), Request)
    BY <1>3 DEF HandleDocumentDeleted
  <2>2. \A k \in Document : k # d => document'[k] = document[k]
    BY <1>3 DEF HandleDocumentDeleted, Types, WorldOK
  <2>3. \A a \in Attachment : a \notin Attached(d) => attached'[a] = attached[a]
    BY <1>3 DEF HandleDocumentDeleted, Detach
  <2>4. /\ stale[s] => stale'[s]
        /\ pc[s] # "idle" /\ ~stale'[s] => call[s].about # d /\ call[s].about \notin Attached(d)
    BY <2>1, OutdateStale
  <2>5. CASE pc[s] = "idle"
    BY <2>1, <2>5 DEF Requests, Placed, Fresh, comments
  <2>6. CASE pc[s] # "idle"
    BY <2>1, <2>2, <2>3, <2>4, <2>6, StaysPut DEF Requests, comments
  <2> QED BY <2>5, <2>6
<1> QED BY <1>1, <1>2, <1>3 DEF Requests

LEMMA RequestsKept == ASSUME Types, Requests, [Next]_vars PROVE Requests'
<1>1. CASE UNCHANGED vars
  BY <1>1 DEF vars, world, comments, attachments, requests, Requests, Placed, Fresh
<1> QED BY <1>1, BeginRequests, StepRequests, ReadRequests, WorldRequests DEF Next

-----------------------------------------------------------------------------
(* What a comment was, and whom it mentions                                *)

LEMMA UpdateComments ==
  ASSUME Types, Requests, CommentsKept, NEW r \in Request, UpdateComment(r)
  PROVE  CommentsKept'
<1>1. Placed(r) /\ (stale[r] \/ Fresh(r)) BY DEF Requests
<1>2. state' = state BY DEF UpdateComment
<1>3. CASE UNCHANGED <<archive, had, body, mentions, excused, stale>>
  BY <1>2, <1>3 DEF CommentsKept, EditsKept, MentionsOfBody
<1>4. CASE ~UNCHANGED <<archive, had, body, mentions, excused, stale>>
  <2>1. PICK c, new, read, cleared, known :
          /\ c = call[r].about /\ new = call[r].body /\ read = call[r].read
          /\ cleared = call[r].cleared /\ known = Known(Mentions[new])
    OBVIOUS
  <2>2. /\ archive' = [archive EXCEPT ![c] = @ \cup {read}]
        /\ had' = [had EXCEPT ![c] = @ \cup {body[c]}]
        /\ body' = [body EXCEPT ![c] = new]
        /\ mentions' = [mentions EXCEPT ![c] = (@ \ cleared) \cup known]
        /\ Excuse(r, c)
    BY <1>4, <2>1 DEF UpdateComment
  <2>3. c \in Comment /\ new \in Body /\ known \subseteq Mentions[new]
    BY <1>1, <2>1 DEF UpdateComment, Placed, Known
  <2>4. excused \subseteq excused' BY <2>2 DEF Excuse
  <2>5. c \notin excused' => read = body[c] /\ cleared = mentions[c]
    BY <1>1, <2>1, <2>2 DEF Excuse, Fresh, UpdateComment
  <2>6. \A k \in Comment : k # c => /\ archive'[k] = archive[k] /\ had'[k] = had[k]
                                   /\ body'[k] = body[k] /\ mentions'[k] = mentions[k]
    BY <2>2 DEF Types, CommentOK
  <2>7. /\ archive'[c] = archive[c] \cup {read} /\ had'[c] = had[c] \cup {body[c]}
        /\ body'[c] = new /\ mentions'[c] = (mentions[c] \ cleared) \cup known
    BY <2>2, <2>3 DEF Types, CommentOK
  <2>8. EditsKept'
    BY <2>4, <2>5, <2>6, <2>7 DEF CommentsKept, EditsKept
  <2>9. MentionsOfBody'
    BY <1>2, <2>3, <2>4, <2>5, <2>6, <2>7 DEF CommentsKept, MentionsOfBody
  <2> QED BY <2>8, <2>9 DEF CommentsKept
<1> QED BY <1>3, <1>4

LEMMA OtherComments ==
  ASSUME Types, Requests, CommentsKept, [Next]_vars,
         ~(\E r \in Request : UpdateComment(r))
  PROVE  CommentsKept'
<1>1. ASSUME NEW r \in Request, CreateComment(r) PROVE CommentsKept'
  <2>1. PICK text, us : text = call[r].body /\ us = call[r].cleared OBVIOUS
  <2>2. PICK c \in Comment : /\ state' = [state EXCEPT ![c] = "live"]
                             /\ body' = [body EXCEPT ![c] = text]
                             /\ mentions' = [mentions EXCEPT ![c] = us]
    BY <1>1, <2>1 DEF CreateComment
  <2>3. us \subseteq Mentions[text] BY <1>1, <2>1 DEF CreateComment, Requests, Placed
  <2>4. UNCHANGED <<archive, had, excused>> BY <1>1 DEF CreateComment
  <2>5. \A k \in Comment :
          \/ state'[k] = state[k] /\ body'[k] = body[k] /\ mentions'[k] = mentions[k]
          \/ body'[k] = text /\ mentions'[k] = us
    BY <2>2 DEF Types, CommentOK
  <2> QED BY <2>3, <2>4, <2>5 DEF CommentsKept, EditsKept, MentionsOfBody
<1>2. ASSUME NEW r \in Request, DeleteComment(r) PROVE CommentsKept'
  <2>1. \A k \in Comment : state'[k] = "live" => state[k] = "live"
    BY <1>2 DEF DeleteComment, Types, CommentOK
  <2> QED BY <1>2, <2>1 DEF DeleteComment, CommentsKept, EditsKept, MentionsOfBody
<1>3. ASSUME comments' = comments, excused \subseteq excused' PROVE CommentsKept'
  BY <1>3 DEF comments, CommentsKept, EditsKept, MentionsOfBody
<1>4. ASSUME NEW r \in Request,
             \/ BeginCreateComment(r) \/ BeginUpdateComment(r) \/ BeginDeleteComment(r)
             \/ BeginAddAttachment(r) \/ BeginRemoveAttachment(r) \/ RequestFails(r)
             \/ ClearMentions(r) \/ GetDocumentInfo(r) \/ AddAttachment(r) \/ RemoveAttachment(r)
      PROVE  CommentsKept'
  <2>1. comments' = comments
    BY <1>4 DEF BeginCreateComment, BeginUpdateComment, BeginDeleteComment, BeginAddAttachment,
       BeginRemoveAttachment, RequestFails, ClearMentions, GetDocumentInfo, AddAttachment,
       RemoveAttachment, Ask, OnlyRead
  <2>2. excused \subseteq excused'
    BY <1>4 DEF BeginCreateComment, BeginUpdateComment, BeginDeleteComment, BeginAddAttachment,
       BeginRemoveAttachment, RequestFails, ClearMentions, GetDocumentInfo, AddAttachment,
       RemoveAttachment, Ask, OnlyRead, Excuse
  <2> QED BY <1>3, <2>1, <2>2
<1>5. CASE \/ DeleteTask
           \/ \E u \in User : HandleUserRegistered(u) \/ MarkKnownUserDeleted(u)
           \/ \E d \in Document : DeleteDocument(d) \/ HandleDocumentDeleted(d)
  BY <1>3, <1>5 DEF DeleteTask, HandleUserRegistered, MarkKnownUserDeleted, DeleteDocument,
     HandleDocumentDeleted
<1>6. CASE UNCHANGED vars BY <1>3, <1>6 DEF vars
<1> QED BY <1>1, <1>2, <1>4, <1>5, <1>6 DEF Next

-----------------------------------------------------------------------------
(* Attachments and their documents                                         *)

LEMMA AddAttachments ==
  ASSUME Types, Requests, AttachmentsFollow, NEW r \in Request, AddAttachment(r)
  PROVE  AttachmentsFollow'
<1>1. Placed(r) /\ (stale[r] \/ Fresh(r)) BY DEF Requests
<1>2. UNCHANGED <<document, removed, gone>> BY DEF AddAttachment, world
<1>3. excused \subseteq excused' BY DEF AddAttachment, Excuse
<1>4. RemovalTold' BY <1>2, <1>3 DEF AttachmentsFollow, RemovalTold
<1>5. PICK d : d = call[r].about OBVIOUS
<1>6. \/ UNCHANGED attached
      \/ /\ \E a \in Attachment : attached' = [attached EXCEPT ![a] = d]
         /\ Excuse(r, d)
  BY <1>5 DEF AddAttachment
<1>7. CASE UNCHANGED attached
  BY <1>2, <1>3, <1>4, <1>7 DEF AttachmentsFollow, AttachmentsExist
<1>8. CASE /\ \E a \in Attachment : attached' = [attached EXCEPT ![a] = d]
           /\ Excuse(r, d)
  <2>1. document[d] # "handled" \/ d \in excused'
    BY <1>1, <1>5, <1>8 DEF Excuse, Fresh, AddAttachment
  <2>2. \A a \in Attachment : attached'[a] = attached[a] \/ attached'[a] = d
    BY <1>8 DEF Types, AttachmentOK
  <2> QED BY <1>2, <1>3, <1>4, <2>1, <2>2 DEF AttachmentsFollow, AttachmentsExist
<1> QED BY <1>6, <1>7, <1>8

LEMMA RemoveAttachments ==
  ASSUME Types, Requests, AttachmentsFollow, NEW r \in Request, RemoveAttachment(r)
  PROVE  AttachmentsFollow'
<1>1. Placed(r) /\ (stale[r] \/ Fresh(r)) /\ call[r].op = "detach"
  BY DEF Requests, RemoveAttachment
<1>2. PICK a, read : a = call[r].about /\ read = call[r].read OBVIOUS
<1>3. /\ Detach({a} \ {k \in Attachment : attached[k] = None})
      /\ gone' = [gone EXCEPT ![a] = @ + 1] /\ Excuse(r, read) /\ document' = document
  BY <1>2 DEF RemoveAttachment, world
<1>4. a \in Attachment /\ read \in Document BY <1>1, <1>2 DEF Placed
<1>5. excused \subseteq excused' BY <1>3 DEF Excuse
<1>6. \A k \in Attachment : attached'[k] = attached[k] \/ attached'[k] = None
  BY <1>3 DEF Detach
<1>7. AttachmentsExist'
  BY <1>3, <1>5, <1>6 DEF AttachmentsFollow, AttachmentsExist
<1>8. \A k \in Attachment : k # a => removed'[k] = removed[k] /\ gone'[k] = gone[k]
  BY <1>3 DEF Detach, Types, AttachmentOK
<1>9. gone'[a] = gone[a] + 1
  BY <1>3, <1>4 DEF Types, AttachmentOK
<1>10. CASE stale[r]
  <2>1. read \in excused' BY <1>3, <1>10 DEF Excuse
  <2> QED BY <1>4, <1>7, <2>1 DEF AttachmentsFollow, RemovalTold
<1>11. CASE ~stale[r]
  <2>1. attached[a] # None BY <1>1, <1>2, <1>4, <1>11 DEF Fresh
  <2>2. removed'[a] = removed[a] + 1 BY <1>3, <1>4, <2>1 DEF Detach
  <2>3. \A k \in Attachment : gone'[k] # removed'[k] => gone[k] # removed[k]
    BY <1>8, <1>9, <2>2
  <2>4. RemovalTold' BY <1>3, <1>5, <2>3 DEF AttachmentsFollow, RemovalTold
  <2> QED BY <1>7, <2>4 DEF AttachmentsFollow
<1> QED BY <1>10, <1>11

LEMMA DocumentAttachments ==
  ASSUME Types, AttachmentsFollow, NEW d \in Document,
         DeleteDocument(d) \/ HandleDocumentDeleted(d)
  PROVE  AttachmentsFollow'
<1>1. excused' = excused BY DEF DeleteDocument, HandleDocumentDeleted
<1>2. CASE DeleteDocument(d)
  <2>1. \A k \in Document : document'[k] = "handled" <=> document[k] = "handled"
    BY <1>2 DEF DeleteDocument, Types, WorldOK
  <2>2. UNCHANGED <<attached, removed, gone>> BY <1>2 DEF DeleteDocument, attachments
  <2>3. \A a \in Attachment : attached[a] # None => attached[a] \in Document
    BY DEF Types, AttachmentOK
  <2> QED BY <1>1, <2>1, <2>2, <2>3 DEF AttachmentsFollow, AttachmentsExist, RemovalTold
<1>3. CASE HandleDocumentDeleted(d)
  <2>1. document'[d] = "handled" /\ \A k \in Document : k # d => document'[k] = document[k]
    BY <1>3 DEF HandleDocumentDeleted, Types, WorldOK
  <2>2. RemovalTold' BY <2>1 DEF RemovalTold
  <2>3. \A a \in Attachment : /\ attached[a] = d => attached'[a] = None
                              /\ attached[a] # d => attached'[a] = attached[a]
    BY <1>3 DEF HandleDocumentDeleted, Detach, Attached
  <2>4. \A a \in Attachment : attached[a] # None => attached[a] \in Document
    BY DEF Types, AttachmentOK
  <2>5. AttachmentsExist'
    BY <1>1, <2>1, <2>3, <2>4 DEF AttachmentsFollow, AttachmentsExist
  <2> QED BY <2>2, <2>5 DEF AttachmentsFollow
<1> QED BY <1>2, <1>3

LEMMA AttachmentsStep ==
  ASSUME Types, Requests, AttachmentsFollow, [Next]_vars
  PROVE  AttachmentsFollow'
<1>1. ASSUME UNCHANGED <<document, attachments>>, excused \subseteq excused'
      PROVE  AttachmentsFollow'
  BY <1>1 DEF attachments, AttachmentsFollow, AttachmentsExist, RemovalTold
<1>2. ASSUME NEW r \in Request,
             \/ BeginCreateComment(r) \/ BeginUpdateComment(r) \/ BeginDeleteComment(r)
             \/ BeginAddAttachment(r) \/ BeginRemoveAttachment(r) \/ RequestFails(r)
             \/ CreateComment(r) \/ ClearMentions(r) \/ DeleteComment(r) \/ GetDocumentInfo(r)
      PROVE  AttachmentsFollow'
  BY <1>1, <1>2 DEF BeginCreateComment, BeginUpdateComment, BeginDeleteComment,
     BeginAddAttachment, BeginRemoveAttachment, RequestFails, CreateComment, ClearMentions,
     DeleteComment, GetDocumentInfo, Ask, OnlyRead, world
<1>3. ASSUME NEW r \in Request, UpdateComment(r) PROVE AttachmentsFollow'
  <2>1. excused \subseteq excused' BY <1>3 DEF UpdateComment, Excuse
  <2> QED BY <1>1, <1>3, <2>1 DEF UpdateComment, world
<1>4. CASE \/ DeleteTask
           \/ \E u \in User : HandleUserRegistered(u) \/ MarkKnownUserDeleted(u)
  BY <1>1, <1>4 DEF DeleteTask, HandleUserRegistered, MarkKnownUserDeleted
<1>5. CASE UNCHANGED vars BY <1>1, <1>5 DEF vars, world
<1> QED BY <1>2, <1>3, <1>4, <1>5, AddAttachments, RemoveAttachments, DocumentAttachments
    DEF Next

-----------------------------------------------------------------------------
LEMMA Invariant == Spec => []IInv
<1>1. IInv /\ [Next]_vars => IInv'
  BY TypesKept, RequestsKept, UpdateComments, OtherComments, AttachmentsStep DEF IInv
<1> QED BY <1>1, InitHolds, PTL DEF Spec

(* For any number of requests at once: no body a comment has had is lost   *)
(* and its mentions are of its body, unless two edits of it overlapped     *)
(* (UpdateComment, which reads before its transaction).                    *)
THEOREM CommentsAlwaysKept == Spec => []CommentsKept
<1>1. IInv => CommentsKept BY DEF IInv
<1> QED BY <1>1, Invariant, PTL

(* For any number of requests and documents: a document whose deletion was *)
(* handled is attached only by a request that had asked for it before, and *)
(* the events count the removals (AddAttachment, RemoveAttachment and the  *)
(* handler of document.deleted).                                           *)
THEOREM AttachmentsAlwaysFollow == Spec => []AttachmentsFollow
<1>1. IInv => AttachmentsFollow BY DEF IInv
<1> QED BY <1>1, Invariant, PTL
=============================================================================
