---------------------------- MODULE DocumentUpload ----------------------------
(***************************************************************************)
(* One document of the document service: the two-phase upload, its         *)
(* versions, deletion, and the cleanup worker of every replica             *)
(* (services/domain/document: domain/service_upload.go, service_modify.go, *)
(* cleanup/worker.go, events/consumer.go).                                 *)
(*                                                                         *)
(* PostgreSQL and the object store share no transaction.  Every read, every*)
(* call of the store and every transaction is a step of its own.  Outbox   *)
(* rows are inserted by the transactions shown here; what becomes of them  *)
(* is the subject of OutboxBus.  Names, sizes and content types are left   *)
(* out: an upload URL is signed for the declared size, so what is stored   *)
(* has it.                                                                 *)
(***************************************************************************)
EXTENDS Naturals

CONSTANTS
  Client,       \* requests that may be in progress at once
  Cleaner,      \* the cleanup workers, one per replica
  MaxVersion,   \* bound: versions of the document
  MaxFaults     \* bound: failed calls, requests and runs cut short

ASSUME ConstantsAssumption ==
  /\ MaxVersion \in Nat \ {0}
  /\ MaxFaults \in Nat

Version == 1..MaxVersion

VARIABLES
  project,      \* known_projects: "known", "deleting" (its documents are) or "deleted"
  status,       \* documents.status; "none" before, "gone" after the row exists
  marked,       \* is documents.deleted_at set?
  current,      \* documents.current_version, 0 for null
  version,      \* document_versions.status; "none" without a row
  stored,       \* the versions whose object is in the store
  holder,       \* the clients that were given the upload URL of a version
  old,          \* versions older than pendingGracePeriod; their URLs have expired
  due,          \* is deleted_at older than retentionPeriod?
  call,         \* of each request: where it is and what it has read
  clean,        \* of each worker: where its run is and what it has listed
  faults

docVars == <<status, marked, current, due>>
rowVars == <<version, old>>
storeVars == <<stored, holder>>
vars == <<project, docVars, rowVars, storeVars, call, clean, faults>>

Idle == [pc |-> "idle", op |-> "none", n |-> 0, seen |-> "none"]
Resting == [pc |-> "idle", list |-> {}]

Init ==
  /\ project = "known"
  /\ status = "none"
  /\ marked = FALSE
  /\ current = 0
  /\ version = [n \in Version |-> "none"]
  /\ stored = {}
  /\ holder = [n \in Version |-> {}]
  /\ old = {}
  /\ due = FALSE
  /\ call = [c \in Client |-> Idle]
  /\ clean = [k \in Cleaner |-> Resting]
  /\ faults = 0

-----------------------------------------------------------------------------
(* The statements, none of which looks at the state of the row it changes. *)

Fault == faults < MaxFaults /\ faults' = faults + 1
HasRow == status \notin {"none", "gone"}

(* SoftDeleteDocument *)
SoftDelete ==
  IF HasRow
  THEN status' = "deleted" /\ marked' = TRUE /\ due' = FALSE /\ UNCHANGED current
  ELSE UNCHANGED docVars

(* CreateVersion: UNIQUE (document_id, version_number), and a foreign key. *)
MayCreateUnchecked(n) == TRUE                           \* mutant: no unique key
MayCreate(n) == version[n] = "none"
CreateVersion(n) == version' = [version EXCEPT ![n] = "pending"] /\ UNCHANGED old

-----------------------------------------------------------------------------
(* Requests.  One that is denied by the project service, or refused with   *)
(* an error, changes nothing.                                              *)

Goto(c, rec) == call' = [call EXCEPT ![c] = rec]
Refuse(c) == Goto(c, Idle) /\ UNCHANGED <<docVars, rowVars, storeVars, faults>>

(* The client receives the URL, or the answer is lost. *)
HandOut(c, n) ==
  \/ holder' = [holder EXCEPT ![n] = @ \cup {c}] /\ UNCHANGED faults
  \/ Fault /\ UNCHANGED holder

(* InitiateUpload: KnownProjectExists *)
CheckProject(c) ==
  /\ call[c] = Idle
  /\ status = "none"
  /\ project # "deleted"
  /\ Goto(c, [pc |-> "create", op |-> "none", n |-> 0, seen |-> "none"])
  /\ UNCHANGED <<project, docVars, rowVars, storeVars, clean, faults>>

(* InitiateUpload: its transaction.  Another request in this place creates *)
(* another document.                                                       *)
CreateDocument(c) ==
  /\ call[c].pc = "create"
  /\ \/ /\ status = "none"
        /\ status' = "pending"
        /\ CreateVersion(1)
        /\ HandOut(c, 1)
        /\ Goto(c, Idle)
        /\ UNCHANGED <<marked, current, due, stored>>
     \/ status # "none" /\ Refuse(c)
  /\ UNCHANGED <<project, clean>>

(* GetDocument for InitiateNewVersion, RestoreVersion and DeleteDocument,  *)
(* GetDocumentInternal for ConfirmUpload.                                  *)
Visible(op) == CASE op = "delete"  -> status \in {"pending", "active"} /\ ~marked
                 [] op = "confirm" -> status \in {"pending", "active"}
                 [] OTHER          -> status = "active" /\ ~marked

ReadDocument(c) ==
  /\ call[c] = Idle
  /\ \E op \in {"new", "confirm", "restore", "delete"}, n \in Version :
       /\ Visible(op)
       /\ op \in {"new", "delete"} => n = 1
       /\ Goto(c, [pc |-> op, op |-> op, n |-> n, seen |-> status])
  /\ UNCHANGED <<project, docVars, rowVars, storeVars, clean, faults>>

(* InitiateNewVersion: GetMaxVersionNumber *)
IsMaxVersionNumber(m) ==
  LET numbers == {n \in Version : version[n] # "none"}
  IN m \in numbers \union {0} /\ \A n \in numbers : n <= m

ReadMax(c) ==
  /\ call[c].pc = "new"
  /\ \E m \in 0..MaxVersion :
       /\ IsMaxVersionNumber(m)
       /\ \/ /\ m < MaxVersion
             /\ Goto(c, [call[c] EXCEPT !.pc = "insert", !.n = m + 1])
             /\ UNCHANGED <<docVars, rowVars, storeVars, faults>>
          \/ m = MaxVersion /\ Refuse(c)               \* the bound
  /\ UNCHANGED <<project, clean>>

InsertVersion(c) ==
  /\ call[c].pc = "insert"
  /\ LET n == call[c].n
     IN \/ /\ HasRow
           /\ MayCreate(n)
           /\ CreateVersion(n)
           /\ HandOut(c, n)
           /\ Goto(c, Idle)
           /\ UNCHANGED <<docVars, stored>>
        \/ ~(HasRow /\ MayCreate(n)) /\ Refuse(c)
  /\ UNCHANGED <<project, clean>>

(* GetVersion.  A version already uploaded is not confirmed again. *)
ReadVersion(c) ==
  /\ call[c].pc \in {"confirm", "restore"}
  /\ LET next == CASE call[c].op = "confirm" /\ version[call[c].n] = "pending"  -> "head"
                   [] call[c].op = "restore" /\ version[call[c].n] = "uploaded" -> "set"
                   [] OTHER -> "refuse"
     IN IF next = "refuse" THEN Refuse(c)
        ELSE /\ Goto(c, [call[c] EXCEPT !.pc = next])
             /\ UNCHANGED <<docVars, rowVars, storeVars, faults>>
  /\ UNCHANGED <<project, clean>>

(* ConfirmUpload: the object must be there. *)
FoundAnyway(n) == TRUE                                  \* mutant: the answer ignored
Found(n) == n \in stored
HeadObject(c) ==
  /\ call[c].pc = "head"
  /\ IF Found(call[c].n)
     THEN /\ Goto(c, [call[c] EXCEPT !.pc = "set"])
          /\ UNCHANGED <<docVars, rowVars, storeVars, faults>>
     ELSE Refuse(c)
  /\ UNCHANGED <<project, clean>>

(* The transactions of ConfirmUpload (MarkVersionUploaded, and             *)
(* ActivateDocument if the document was pending when it was read, else     *)
(* SetCurrentVersion) and of RestoreVersion (SetCurrentVersion).           *)
SetCurrentVersion(c) ==
  /\ call[c].pc = "set"
  /\ LET n == call[c].n
         confirms == call[c].op = "confirm"
     IN IF ~HasRow THEN Refuse(c)
        ELSE /\ current' = n
             /\ version' = IF confirms THEN [version EXCEPT ![n] = "uploaded"] ELSE version
             /\ status' = IF confirms /\ call[c].seen = "pending" THEN "active" ELSE status
             /\ Goto(c, Idle)
             /\ UNCHANGED <<marked, due, old, storeVars, faults>>
  /\ UNCHANGED <<project, clean>>

DeleteDocument(c) ==
  /\ call[c].pc = "delete"
  /\ SoftDelete
  /\ Goto(c, Idle)
  /\ UNCHANGED <<project, rowVars, storeVars, clean, faults>>

(* An error, or the end of the process, before the request's transaction. *)
RequestFails(c) ==
  /\ call[c] # Idle
  /\ Fault
  /\ Goto(c, Idle)
  /\ UNCHANGED <<project, docVars, rowVars, storeVars, clean>>

-----------------------------------------------------------------------------
(* The clock and the clients *)

(* A client that has the URL stores the object, or stores it again. *)
Put(n) ==
  /\ holder[n] # {}
  /\ n \notin old
  /\ stored' = stored \cup {n}
  /\ UNCHANGED <<project, docVars, rowVars, holder, call, clean, faults>>

(* A version, older than those after it, leaves the grace period; its URL, *)
(* good for uploadURLTTL, has expired by then.                             *)
GrowOld(n) ==
  /\ version[n] # "none"
  /\ n \notin old
  /\ \A m \in 1..(n - 1) : m \in old
  /\ old' = old \cup {n}
  /\ UNCHANGED <<project, docVars, version, storeVars, call, clean, faults>>

(* Thirty days after its deletion.  A request or a run of the cleanup that *)
(* began before it has ended, and every version is older than two hours.   *)
RetentionEnds ==
  /\ status = "deleted"
  /\ ~due
  /\ \A c \in Client : call[c] = Idle
  /\ \A k \in Cleaner : clean[k].pc # "expire"
  /\ \A n \in Version : version[n] # "none" => n \in old
  /\ due' = TRUE
  /\ UNCHANGED <<project, status, marked, current, rowVars, storeVars, call, clean, faults>>

-----------------------------------------------------------------------------
(* The cleanup worker: runOnce, at every tick *)

Move(k, rec) == clean' = [clean EXCEPT ![k] = rec]

(* expirePendingVersions *)
ExpiredFirst == {n \in {1} : version[n] = "pending" /\ n \in old}   \* mutant: uploads only
Expired == {n \in Version : version[n] = "pending" /\ n \in old}
ListPendingVersions(k) ==
  /\ clean[k] = Resting
  /\ Move(k, [pc |-> "versions", list |-> Expired])
  /\ UNCHANGED <<project, docVars, rowVars, storeVars, call, faults>>

MarkVersionFailed(k) ==
  /\ clean[k].pc = "versions"
  /\ \E n \in clean[k].list :
       /\ Move(k, [clean[k] EXCEPT !.list = @ \ {n}])
       /\ \/ /\ version' = IF version[n] = "none" THEN version
                           ELSE [version EXCEPT ![n] = "failed"]
             /\ UNCHANGED faults
          \/ Fault /\ UNCHANGED version
  /\ UNCHANGED <<project, docVars, old, storeVars, call>>

(* expirePendingDocuments: a document is as old as its first version. *)
ListPendingDocuments(k) ==
  /\ clean[k].pc = "versions"
  /\ clean[k].list = {}
  /\ Move(k, [clean[k] EXCEPT !.pc = IF status = "pending" /\ 1 \in old THEN "expire"
                                     ELSE "deleted"])
  /\ UNCHANGED <<project, docVars, rowVars, storeVars, call, faults>>

ExpireDocument(k) ==
  /\ clean[k].pc = "expire"
  /\ Move(k, [clean[k] EXCEPT !.pc = "deleted"])
  /\ \/ SoftDelete /\ UNCHANGED faults
     \/ Fault /\ UNCHANGED docVars
  /\ UNCHANGED <<project, rowVars, storeVars, call>>

(* hardDeleteExpired: ListSoftDeletedOlderThan *)
IsCollectableUsed == status = "deleted" /\ due /\ current # 0   \* mutant: an inner join
IsCollectable == status = "deleted" /\ due

ListSoftDeleted(k) ==
  /\ clean[k].pc = "deleted"
  /\ Move(k, IF IsCollectable THEN [clean[k] EXCEPT !.pc = "list"] ELSE Resting)
  /\ UNCHANGED <<project, docVars, rowVars, storeVars, call, faults>>

(* deleteDocumentObjects *)
ListedUploaded == {n \in Version : version[n] = "uploaded"}   \* mutant: only good versions
Listed == {n \in Version : version[n] # "none"}
ListVersions(k) ==
  /\ clean[k].pc = "list"
  /\ Move(k, [pc |-> "objects", list |-> Listed])
  /\ UNCHANGED <<project, docVars, rowVars, storeVars, call, faults>>

(* DeleteObjects reports the objects it could not delete in its output,    *)
(* which nobody reads, and fails as a whole if it cannot reach the store.  *)
DeleteObjects(k) ==
  /\ clean[k].pc = "objects"
  /\ \/ /\ stored' = stored \ clean[k].list
        /\ Move(k, [pc |-> "row", list |-> {}])
        /\ UNCHANGED faults
     \/ /\ Fault
        /\ \E n \in clean[k].list : stored' = stored \ (clean[k].list \ {n})
        /\ Move(k, [pc |-> "row", list |-> {}])
  /\ UNCHANGED <<project, docVars, rowVars, holder, call>>

(* HardDeleteDocument, with ON DELETE CASCADE *)
HardDelete(k) ==
  /\ clean[k].pc = "row"
  /\ IF HasRow
     THEN /\ status' = "gone"
          /\ current' = 0
          /\ version' = [n \in Version |-> "none"]
     ELSE UNCHANGED <<status, current, version>>
  /\ Move(k, Resting)
  /\ UNCHANGED <<project, marked, due, old, storeVars, call, faults>>

(* An error that ends the run, or the end of the process. *)
RunFails(k) ==
  /\ clean[k] # Resting
  /\ Fault
  /\ Move(k, Resting)
  /\ UNCHANGED <<project, docVars, rowVars, storeVars, call>>

-----------------------------------------------------------------------------
(* onProjectDeleted: two statements.  The event comes again after an error *)
(* of the second, or of its acknowledgement.                               *)

SoftDeleteByProject ==
  /\ \/ project = "known" /\ project' = "deleting" /\ UNCHANGED faults
     \/ project # "known" /\ UNCHANGED project /\ Fault
  /\ IF status = "deleted" THEN UNCHANGED docVars ELSE SoftDelete
  /\ UNCHANGED <<rowVars, storeVars, call, clean>>

MarkKnownProjectDeleted ==
  /\ project = "deleting"
  /\ project' = "deleted"
  /\ UNCHANGED <<docVars, rowVars, storeVars, call, clean, faults>>

-----------------------------------------------------------------------------
Proceed(c) == \/ CreateDocument(c) \/ ReadMax(c) \/ InsertVersion(c) \/ ReadVersion(c)
              \/ HeadObject(c) \/ SetCurrentVersion(c) \/ DeleteDocument(c)

Clean(k) == \/ ListPendingVersions(k) \/ MarkVersionFailed(k) \/ ListPendingDocuments(k)
            \/ ExpireDocument(k) \/ ListSoftDeleted(k) \/ ListVersions(k)
            \/ DeleteObjects(k) \/ HardDelete(k)

Next ==
  \/ \E c \in Client : CheckProject(c) \/ ReadDocument(c) \/ Proceed(c) \/ RequestFails(c)
  \/ \E k \in Cleaner : Clean(k) \/ RunFails(k)
  \/ \E n \in Version : Put(n) \/ GrowOld(n)
  \/ RetentionEnds \/ SoftDeleteByProject \/ MarkKnownProjectDeleted

Spec == Init /\ [][Next]_vars

(* Every ticker ticks, requests end and time passes. *)
FairSpec == /\ Spec
            /\ \A c \in Client : WF_vars(Proceed(c))
            /\ \A k \in Cleaner : WF_vars(Clean(k))
            /\ \A n \in Version : WF_vars(GrowOld(n))
            /\ WF_vars(RetentionEnds)

-----------------------------------------------------------------------------
(* Properties *)

(* The types of the variables. *)
TypeOK ==
  /\ project \in {"known", "deleting", "deleted"}
  /\ status \in {"none", "pending", "active", "deleted", "gone"}
  /\ marked \in BOOLEAN
  /\ current \in 0..MaxVersion
  /\ version \in [Version -> {"none", "pending", "uploaded", "failed"}]
  /\ stored \subseteq Version
  /\ holder \in [Version -> SUBSET Client]
  /\ old \subseteq Version
  /\ due \in BOOLEAN
  /\ call \in [Client -> [pc : {"idle", "create", "new", "insert", "confirm", "head",
                                "restore", "set", "delete"},
                          op : {"none", "new", "confirm", "restore", "delete"},
                          n : 0..MaxVersion,
                          seen : {"none", "pending", "active"}]]
  /\ clean \in [Cleaner -> [pc : {"idle", "versions", "expire", "deleted", "list",
                                  "objects", "row"},
                            list : SUBSET Version]]
  /\ faults \in 0..MaxFaults

(* An active document has a current version that was confirmed, and its    *)
(* object is in the store, whatever races or fails (ConfirmUpload,         *)
(* RestoreVersion, hardDeleteExpired).                                     *)
CurrentHasObject ==
  status = "active" =>
    /\ current \in stored
    /\ version[current] \in {"uploaded", "failed"}

(* No two clients are given the upload URL of one key (InitiateNewVersion  *)
(* reads the next number outside its transaction).                         *)
OneUploader == \A n \in Version : \A c, d \in holder[n] : c = d

(* docs/services/document.md:1750: the hard delete leaves no object of any *)
(* version behind, unless the store fails.                                 *)
NoOrphans == faults = 0 /\ status = "gone" => stored = {}

(* docs/services/document.md:560: no version stays pending. *)
EveryUploadEnds ==
  \A n \in Version : version[n] = "pending" ~> version[n] # "pending"

(* docs/services/document.md:567: a deleted document is collected in the   *)
(* end, unless a confirmation that was under way made it active again.     *)
DeletedIsCollected == status = "deleted" ~> status \in {"active", "gone"}

(* docs/services/document.md:1469: the cleanup takes pending versions and  *)
(* pending documents only, never one that was confirmed meanwhile.         *)
CleanupSparesConfirmed ==
  [][clean' # clean =>
       /\ status = "active" => status' = "active"
       /\ \A n \in Version : version[n] = "uploaded" => version'[n] # "failed"]_vars

(* docs/services/document.md:361: pending, active and deleted are three    *)
(* separate states; deleted_at belongs to the last.                        *)
StatesSeparate == marked => status \in {"deleted", "gone"}
=============================================================================
