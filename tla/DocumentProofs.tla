---------------------------- MODULE DocumentProofs ----------------------------
(***************************************************************************)
(* What TLAPS proves of DocumentUpload, for any number of requests,        *)
(* cleanup workers, versions and faults: its types; that an active document*)
(* has the object of its current version; that no two clients are given    *)
(* the URL of one key; and that the hard delete leaves no object behind.   *)
(* The first and the last rest on one fact: once the retention period has  *)
(* ended nothing but the cleanup touches the document any more.            *)
(*                                                                         *)
(* Of Listings, for any number of rows and pages of any size: that who     *)
(* reads a listing to its end is sent each row that stayed, once.          *)
(***************************************************************************)
EXTENDS DocumentUpload, Listings, FiniteSetTheorems, SequenceTheorems, TLAPS

(* The type invariant by its parts. *)
Call == [pc : {"idle", "create", "new", "insert", "confirm", "head", "restore", "set",
               "delete"},
         op : {"none", "new", "confirm", "restore", "delete"},
         n : 0..MaxVersion, seen : {"none", "pending", "active"}]
Run == [pc : {"idle", "versions", "expire", "deleted", "list", "objects", "row"},
        list : SUBSET Version]

DocOK == /\ project \in {"known", "deleting", "deleted"}
         /\ status \in {"none", "pending", "active", "deleted", "gone"}
         /\ marked \in BOOLEAN
         /\ current \in 0..MaxVersion
         /\ due \in BOOLEAN
RowOK == /\ version \in [Version -> {"none", "pending", "uploaded", "failed"}]
         /\ old \subseteq Version
StoreOK == /\ stored \subseteq Version
           /\ holder \in [Version -> SUBSET Client]
CallOK == call \in [Client -> Call]
CleanOK == clean \in [Cleaner -> Run]
FaultsOK == faults \in 0..MaxFaults

(* A request past its reads is about a version; only ConfirmUpload looks   *)
(* for the object.                                                         *)
NumberOK == \A c \in Client :
  /\ call[c].pc \in {"insert", "confirm", "head", "restore", "set"} => call[c].n \in Version
  /\ call[c].pc = "head" => call[c].op = "confirm"

(* Once the retention period is over, no request, no worker that would     *)
(* delete the document anew and no unexpired URL is left.                  *)
SettledOK ==
  due => /\ status \in {"deleted", "gone"}
         /\ \A c \in Client : call[c] = Idle
         /\ \A k \in Cleaner : clean[k].pc # "expire"
         /\ \A n \in Version : version[n] # "none" \/ holder[n] # {} => n \in old

(* Objects and rows are removed only then. *)
PurgeOK == /\ \A k \in Cleaner : clean[k].pc \in {"list", "objects", "row"} => due
           /\ status = "gone" => due

(* What a request has found in the store is still there, and so is what    *)
(* was confirmed.                                                          *)
FoundOK ==
  /\ \A c \in Client :
       call[c].pc = "set" =>
         /\ call[c].n \in stored
         /\ call[c].op # "confirm" => version[call[c].n] \in {"uploaded", "failed"}
  /\ ~due => \A n \in Version : version[n] = "uploaded" => n \in stored

(* A URL is given out with the row of its version, and only with it can    *)
(* the object come into the store.                                         *)
HolderOK ==
  /\ \A n \in Version : holder[n] # {} => /\ status # "none"
                                          /\ status = "gone" \/ version[n] # "none"
  /\ \A n \in stored : holder[n] # {}

(* The progress of a hard delete that meets no failure. *)
PurgedOK ==
  faults = 0 => /\ \A k \in Cleaner : clean[k].pc = "objects" => stored \subseteq clean[k].list
                /\ \A k \in Cleaner : clean[k].pc = "row" => stored = {}
                /\ status = "gone" => stored = {}

IInv == /\ TypeOK /\ NumberOK /\ SettledOK /\ PurgeOK /\ FoundOK /\ CurrentHasObject
        /\ HolderOK /\ OneUploader /\ PurgedOK

-----------------------------------------------------------------------------
(* Types *)

LEMMA Numbers == /\ \A n \in Version : n \in 0..MaxVersion
                 /\ \A m \in 0..MaxVersion : m < MaxVersion => m + 1 \in 0..MaxVersion
                 /\ \A m \in 0..MaxVersion : m < MaxVersion => m + 1 \in Version
                 /\ 0 \in 0..MaxVersion
                 /\ 1 \in Version
  BY ConstantsAssumption DEF Version

LEMMA TypeParts == TypeOK <=> DocOK /\ RowOK /\ StoreOK /\ CallOK /\ CleanOK /\ FaultsOK
  BY DEF TypeOK, DocOK, RowOK, StoreOK, CallOK, CleanOK, FaultsOK, Call, Run

LEMMA TypePartsNext ==
  TypeOK' <=> DocOK' /\ RowOK' /\ StoreOK' /\ CallOK' /\ CleanOK' /\ FaultsOK'
  BY DEF TypeOK, DocOK, RowOK, StoreOK, CallOK, CleanOK, FaultsOK, Call, Run

LEMMA FaultType == TypeOK /\ Fault => faults' \in 0..MaxFaults
  BY ConstantsAssumption DEF TypeOK, Fault

LEMMA TypeInit == Init => TypeOK
<1> SUFFICES ASSUME Init PROVE TypeOK
  OBVIOUS
<1>1. DocOK /\ RowOK /\ StoreOK
  BY Numbers DEF Init, DocOK, RowOK, StoreOK
<1>2. CallOK
  BY Numbers DEF Init, CallOK, Call, Idle
<1>3. CleanOK
  BY DEF Init, CleanOK, Run, Resting
<1>4. FaultsOK
  BY ConstantsAssumption DEF Init, FaultsOK
<1>5. QED
  BY <1>1, <1>2, <1>3, <1>4, TypeParts

(* What ReadMax does to its request, without the arithmetic. *)
Becomes(c, r) == /\ r \in Call
                 /\ r.pc \in {"idle", "insert"}
                 /\ r.pc = "insert" => r.n \in Version
                 /\ call' = [call EXCEPT ![c] = r]

LEMMA ReadMaxStep ==
  ASSUME TypeOK, NEW c \in Client, ReadMax(c)
  PROVE  /\ \E r : Becomes(c, r)
         /\ UNCHANGED <<project, docVars, rowVars, storeVars, clean, faults>>
<1>1. PICK m \in 0..MaxVersion :
        \/ m < MaxVersion /\ Goto(c, [call[c] EXCEPT !.pc = "insert", !.n = m + 1])
        \/ Refuse(c)
  BY DEF ReadMax
<1>2. UNCHANGED <<project, docVars, rowVars, storeVars, clean, faults>>
  BY DEF ReadMax, Refuse
<1>3. call[c] \in Call
  BY TypeParts DEF CallOK
<1>4. CASE m < MaxVersion /\ Goto(c, [call[c] EXCEPT !.pc = "insert", !.n = m + 1])
  <2> DEFINE j == m + 1
             r == [call[c] EXCEPT !.pc = "insert", !.n = j]
  <2>1. j \in Version /\ j \in 0..MaxVersion
    BY <1>4, Numbers
  <2>2. call' = [call EXCEPT ![c] = r]
    BY <1>4 DEF Goto
  <2> HIDE DEF j
  <2>3. r \in Call /\ r.pc = "insert" /\ r.n = j
    BY <2>1, <1>3 DEF Call
  <2> HIDE DEF r
  <2>4. QED
    BY <1>2, <2>1, <2>2, <2>3 DEF Becomes
<1>5. CASE Refuse(c)
  <2>1. Idle \in Call /\ Idle.pc = "idle"
    BY Numbers DEF Idle, Call
  <2>2. QED
    BY <1>2, <1>5, <2>1 DEF Refuse, Goto, Becomes
<1>6. QED
  BY <1>1, <1>4, <1>5

(* Every step keeps the types. *)
LEMMA TypeStep == TypeOK /\ [Next]_vars => TypeOK'
<1> SUFFICES ASSUME TypeOK, [Next]_vars PROVE TypeOK'
  OBVIOUS
<1> USE ConstantsAssumption, Numbers
<1>1. ASSUME NEW c \in Client, CheckProject(c) PROVE TypeOK'
  BY <1>1 DEF CheckProject, Goto, docVars, rowVars, storeVars, TypeOK
<1>2. ASSUME NEW c \in Client, ReadDocument(c) PROVE TypeOK'
  BY <1>2 DEF ReadDocument, Goto, Visible, docVars, rowVars, storeVars, TypeOK
<1>3. ASSUME NEW c \in Client, CreateDocument(c) PROVE TypeOK'
  <2>1. DocOK' /\ RowOK'
    BY <1>3 DEF CreateDocument, Refuse, CreateVersion, docVars, rowVars, TypeOK, DocOK, RowOK
  <2>2. StoreOK'
    BY <1>3 DEF CreateDocument, Refuse, HandOut, storeVars, TypeOK, StoreOK
  <2>3. CallOK'
    BY <1>3 DEF CreateDocument, Refuse, Goto, Idle, TypeOK, CallOK, Call
  <2>4. CleanOK' /\ FaultsOK'
    BY <1>3, FaultType DEF CreateDocument, Refuse, HandOut, TypeOK, CleanOK, Run, FaultsOK
  <2>5. QED
    BY <2>1, <2>2, <2>3, <2>4, TypePartsNext
<1>4. ASSUME NEW c \in Client, ReadMax(c) PROVE TypeOK'
  <2>0. PICK r : Becomes(c, r)
    BY <1>4, ReadMaxStep
  <2>1. CallOK'
    BY <2>0, TypeParts DEF CallOK, Becomes
  <2>2. UNCHANGED <<project, docVars, rowVars, storeVars, clean, faults>>
    BY <1>4, ReadMaxStep
  <2>3. QED
    BY <2>1, <2>2, TypeParts, TypePartsNext
       DEF docVars, rowVars, storeVars, DocOK, RowOK, StoreOK, CleanOK, FaultsOK
<1>5. ASSUME NEW c \in Client, InsertVersion(c) PROVE TypeOK'
  <2>1. DocOK' /\ CleanOK'
    BY <1>5 DEF InsertVersion, Refuse, docVars, TypeOK, DocOK, CleanOK, Run
  <2>2. RowOK'
    BY <1>5 DEF InsertVersion, Refuse, CreateVersion, rowVars, TypeOK, RowOK
  <2>3. StoreOK'
    BY <1>5 DEF InsertVersion, Refuse, HandOut, storeVars, TypeOK, StoreOK
  <2>4. CallOK'
    BY <1>5 DEF InsertVersion, Refuse, Goto, Idle, TypeOK, CallOK, Call
  <2>5. FaultsOK'
    BY <1>5, FaultType DEF InsertVersion, Refuse, HandOut, TypeOK, FaultsOK
  <2>6. QED
    BY <2>1, <2>2, <2>3, <2>4, <2>5, TypePartsNext
<1>6. ASSUME NEW c \in Client, ReadVersion(c) PROVE TypeOK'
  <2>1. \/ Refuse(c)
        \/ /\ \E next \in {"head", "set"} : Goto(c, [call[c] EXCEPT !.pc = next])
           /\ UNCHANGED <<docVars, rowVars, storeVars, faults>>
    <3> DEFINE next == CASE call[c].op = "confirm" /\ version[call[c].n] = "pending"  -> "head"
                         [] call[c].op = "restore" /\ version[call[c].n] = "uploaded" -> "set"
                         [] OTHER -> "refuse"
    <3>1. next \in {"head", "set", "refuse"} OBVIOUS
    <3>2. IF next = "refuse" THEN Refuse(c)
          ELSE /\ Goto(c, [call[c] EXCEPT !.pc = next])
               /\ UNCHANGED <<docVars, rowVars, storeVars, faults>>
      BY <1>6 DEF ReadVersion
    <3> HIDE DEF next
    <3> QED BY <3>1, <3>2
  <2>2. UNCHANGED <<project, clean>> /\ UNCHANGED <<docVars, rowVars, storeVars, faults>>
    BY <1>6, <2>1 DEF ReadVersion, Refuse
  <2>3. CallOK'
    BY <2>1, TypeParts DEF Goto, Refuse, Idle, CallOK, Call
  <2>4. QED
    BY <2>2, <2>3, TypeParts, TypePartsNext
       DEF docVars, rowVars, storeVars, DocOK, RowOK, StoreOK, CleanOK, FaultsOK
<1>7. ASSUME NEW c \in Client, HeadObject(c) PROVE TypeOK'
  <2>1. UNCHANGED <<project, clean>> /\ UNCHANGED <<docVars, rowVars, storeVars, faults>>
    BY <1>7 DEF HeadObject, Refuse
  <2>2. CallOK'
    BY <1>7, TypeParts DEF HeadObject, Goto, Refuse, Idle, CallOK, Call
  <2>3. QED
    BY <2>1, <2>2, TypeParts, TypePartsNext
       DEF docVars, rowVars, storeVars, DocOK, RowOK, StoreOK, CleanOK, FaultsOK
<1>8. ASSUME NEW c \in Client, SetCurrentVersion(c) PROVE TypeOK'
  BY <1>8 DEF SetCurrentVersion, Goto, Refuse, Idle, HasRow, docVars, rowVars,
       storeVars, TypeOK
<1>9. ASSUME NEW c \in Client, DeleteDocument(c) PROVE TypeOK'
  BY <1>9 DEF DeleteDocument, Goto, Idle, SoftDelete, HasRow, docVars,
       rowVars, storeVars, TypeOK
<1>10. ASSUME NEW c \in Client, RequestFails(c) PROVE TypeOK'
  BY <1>10 DEF RequestFails, Goto, Idle, Fault, docVars, rowVars, storeVars,
       TypeOK
<1>11. ASSUME NEW k \in Cleaner, ListPendingVersions(k) PROVE TypeOK'
  BY <1>11 DEF ListPendingVersions, Move, Expired, docVars, rowVars,
       storeVars, TypeOK
<1>12. ASSUME NEW k \in Cleaner, MarkVersionFailed(k) PROVE TypeOK'
  <2>1. RowOK' /\ CleanOK'
    BY <1>12 DEF MarkVersionFailed, Move, TypeOK, RowOK, CleanOK, Run
  <2>2. FaultsOK'
    BY <1>12, FaultType DEF MarkVersionFailed, TypeOK, FaultsOK
  <2>3. QED
    BY <1>12, <2>1, <2>2, TypePartsNext, TypeParts
       DEF MarkVersionFailed, docVars, storeVars, DocOK, StoreOK, CallOK
<1>13. ASSUME NEW k \in Cleaner, ListPendingDocuments(k) PROVE TypeOK'
  BY <1>13 DEF ListPendingDocuments, Move, docVars, rowVars, storeVars, TypeOK
<1>14. ASSUME NEW k \in Cleaner, ExpireDocument(k) PROVE TypeOK'
  <2>1. DocOK'
    BY <1>14 DEF ExpireDocument, SoftDelete, docVars, TypeOK, DocOK
  <2>2. CleanOK'
    BY <1>14 DEF ExpireDocument, Move, TypeOK, CleanOK, Run
  <2>3. FaultsOK'
    BY <1>14, FaultType DEF ExpireDocument, TypeOK, FaultsOK
  <2>4. QED
    BY <1>14, <2>1, <2>2, <2>3, TypePartsNext, TypeParts
       DEF ExpireDocument, rowVars, storeVars, RowOK, StoreOK, CallOK
<1>15. ASSUME NEW k \in Cleaner, ListSoftDeleted(k) PROVE TypeOK'
  BY <1>15 DEF ListSoftDeleted, Move, Resting, docVars, rowVars, storeVars,
       TypeOK
<1>16. ASSUME NEW k \in Cleaner, ListVersions(k) PROVE TypeOK'
  BY <1>16 DEF ListVersions, Move, Listed, docVars, rowVars, storeVars, TypeOK
<1>17. ASSUME NEW k \in Cleaner, DeleteObjects(k) PROVE TypeOK'
  BY <1>17 DEF DeleteObjects, Move, Fault, docVars, rowVars, storeVars, TypeOK
<1>18. ASSUME NEW k \in Cleaner, HardDelete(k) PROVE TypeOK'
  BY <1>18 DEF HardDelete, Move, Resting, HasRow, docVars, rowVars, storeVars,
       TypeOK
<1>19. ASSUME NEW k \in Cleaner, RunFails(k) PROVE TypeOK'
  BY <1>19 DEF RunFails, Move, Resting, Fault, docVars, rowVars, storeVars,
       TypeOK
<1>20. ASSUME NEW n \in Version, Put(n) PROVE TypeOK'
  BY <1>20 DEF Put, docVars, rowVars, storeVars, TypeOK
<1>21. ASSUME NEW n \in Version, GrowOld(n) PROVE TypeOK'
  BY <1>21 DEF GrowOld, docVars, rowVars, storeVars, TypeOK
<1>22. CASE RetentionEnds
  BY <1>22 DEF RetentionEnds, docVars, rowVars, storeVars, TypeOK
<1>23. CASE SoftDeleteByProject
  <2>1. DocOK'
    BY <1>23 DEF SoftDeleteByProject, SoftDelete, docVars, TypeOK, DocOK
  <2>2. FaultsOK'
    BY <1>23, FaultType DEF SoftDeleteByProject, TypeOK, FaultsOK
  <2>3. QED
    BY <1>23, <2>1, <2>2, TypePartsNext, TypeParts
       DEF SoftDeleteByProject, rowVars, storeVars, RowOK, StoreOK, CallOK, CleanOK
<1>24. CASE MarkKnownProjectDeleted
  BY <1>24 DEF MarkKnownProjectDeleted, docVars, rowVars, storeVars, TypeOK
<1>25. CASE UNCHANGED vars
  BY <1>25 DEF vars, docVars, rowVars, storeVars, TypeOK
<1>26. QED
  BY <1>1, <1>2, <1>3, <1>4, <1>5, <1>6, <1>7, <1>8, <1>9, <1>10, <1>11,
       <1>12, <1>13, <1>14, <1>15, <1>16, <1>17, <1>18, <1>19, <1>20, <1>21,
       <1>22, <1>23, <1>24, <1>25 DEF Next, Proceed, Clean

(* Every behaviour keeps the types (all variables of DocumentUpload). *)
THEOREM TypeCorrect == Spec => []TypeOK
  BY TypeInit, TypeStep, PTL DEF Spec

-----------------------------------------------------------------------------
(* The inductive invariant *)

LEMMA Parts ==
  IInv => /\ call \in [Client -> Call] /\ clean \in [Cleaner -> Run]
          /\ version \in [Version -> {"none", "pending", "uploaded", "failed"}]
          /\ holder \in [Version -> SUBSET Client]
          /\ stored \subseteq Version /\ old \subseteq Version
          /\ status \in {"none", "pending", "active", "deleted", "gone"}
          /\ due \in BOOLEAN
          /\ faults \in 0..MaxFaults
  BY TypeParts DEF IInv, DocOK, RowOK, StoreOK, CallOK, CleanOK, FaultsOK

(* A request that goes on has its number. *)
LEMMA NumberStep == IInv /\ TypeOK' /\ [Next]_vars => NumberOK'
<1> SUFFICES ASSUME IInv, TypeOK', [Next]_vars PROVE NumberOK'
  OBVIOUS
<1> USE Numbers, Parts
<1>1. ASSUME NEW c \in Client, CheckProject(c) PROVE NumberOK'
  BY <1>1 DEF CheckProject, Goto, docVars, rowVars, storeVars, IInv, NumberOK,
       Call
<1>2. ASSUME NEW c \in Client, ReadDocument(c) PROVE NumberOK'
  BY <1>2 DEF ReadDocument, Goto, Visible, docVars, rowVars, storeVars, IInv,
       NumberOK, Call
<1>3. ASSUME NEW c \in Client, CreateDocument(c) PROVE NumberOK'
  BY <1>3 DEF CreateDocument, Goto, Refuse, HandOut, CreateVersion, Fault,
       Idle, docVars, rowVars, storeVars, IInv, NumberOK, Call
<1>4. ASSUME NEW c \in Client, ReadMax(c) PROVE NumberOK'
  <2>1. PICK r : Becomes(c, r)
    BY <1>4, ReadMaxStep DEF IInv
  <2>2. QED
    BY <2>1 DEF IInv, NumberOK, Becomes
<1>5. ASSUME NEW c \in Client, InsertVersion(c) PROVE NumberOK'
  BY <1>5 DEF InsertVersion, Goto, Refuse, HandOut, CreateVersion, Fault,
       Idle, docVars, rowVars, storeVars, IInv, NumberOK, Call
<1>6. ASSUME NEW c \in Client, ReadVersion(c) PROVE NumberOK'
  BY <1>6 DEF ReadVersion, Goto, Refuse, Idle, docVars, rowVars, storeVars,
       IInv, NumberOK, Call
<1>7. ASSUME NEW c \in Client, HeadObject(c) PROVE NumberOK'
  BY <1>7 DEF HeadObject, Goto, Refuse, Idle, docVars, rowVars, storeVars,
       IInv, NumberOK, Call
<1>8. ASSUME NEW c \in Client, SetCurrentVersion(c) PROVE NumberOK'
  BY <1>8 DEF SetCurrentVersion, Goto, Refuse, Idle, HasRow, docVars, rowVars,
       storeVars, IInv, NumberOK, Call
<1>9. ASSUME NEW c \in Client, DeleteDocument(c) PROVE NumberOK'
  BY <1>9 DEF DeleteDocument, Goto, Idle, SoftDelete, HasRow, docVars,
       rowVars, storeVars, IInv, NumberOK, Call
<1>10. ASSUME NEW c \in Client, RequestFails(c) PROVE NumberOK'
  BY <1>10 DEF RequestFails, Goto, Idle, Fault, docVars, rowVars, storeVars,
       IInv, NumberOK, Call
<1>11. CASE UNCHANGED <<call>>
  BY <1>11 DEF IInv, NumberOK, Call
<1>12. QED
  BY <1>1, <1>2, <1>3, <1>4, <1>5, <1>6, <1>7, <1>8, <1>9, <1>10, <1>11 DEF
       Next, Proceed, Clean, vars, docVars, rowVars, storeVars,
       ListPendingVersions, Move, MarkVersionFailed, Fault,
       ListPendingDocuments, ExpireDocument, SoftDelete, ListSoftDeleted,
       ListVersions, DeleteObjects, HardDelete, RunFails, Put, GrowOld,
       RetentionEnds, SoftDeleteByProject, MarkKnownProjectDeleted

(* A request in progress shows that the retention period is not over. *)
LEMMA BusyNotDue ==
  ASSUME IInv, NEW c \in Client, Proceed(c) \/ RequestFails(c)
  PROVE  ~due /\ ~due'
<1>1. call[c] # Idle
  <2>1. CASE CreateDocument(c) \/ ReadMax(c) \/ InsertVersion(c) \/ DeleteDocument(c)
    <3>1. call[c].pc \in {"create", "new", "insert", "delete"}
      BY <2>1 DEF CreateDocument, ReadMax, InsertVersion, DeleteDocument
    <3>2. QED
      BY <3>1 DEF Idle
  <2>2. CASE ReadVersion(c) \/ HeadObject(c) \/ SetCurrentVersion(c) \/ RequestFails(c)
    BY <2>2 DEF ReadVersion, HeadObject, SetCurrentVersion, RequestFails, Idle
  <2>3. QED
    BY <2>1, <2>2 DEF Proceed
<1>2. ~due
  BY <1>1 DEF IInv, SettledOK
<1>3. CASE CreateDocument(c) \/ InsertVersion(c) \/ ReadVersion(c) \/ HeadObject(c)
  BY <1>2, <1>3 DEF CreateDocument, InsertVersion, ReadVersion, HeadObject, Refuse, docVars
<1>4. CASE ReadMax(c)
  BY <1>2, <1>4, ReadMaxStep DEF IInv, docVars
<1>5. CASE SetCurrentVersion(c)
  BY <1>2, <1>5 DEF SetCurrentVersion, Refuse, docVars
<1>6. CASE DeleteDocument(c) \/ RequestFails(c)
  BY <1>2, <1>6 DEF DeleteDocument, RequestFails, SoftDelete, docVars
<1>7. QED
  BY <1>2, <1>3, <1>4, <1>5, <1>6 DEF Proceed

(* Once over, the retention period stays over, and the document is left alone. *)
LEMMA SettledStep == IInv /\ TypeOK' /\ [Next]_vars => SettledOK'
<1> SUFFICES ASSUME IInv, TypeOK', [Next]_vars PROVE SettledOK'
  OBVIOUS
<1> USE Numbers, Parts
<1>0. ASSUME NEW c \in Client, Proceed(c) \/ RequestFails(c) PROVE SettledOK'
  BY <1>0, BusyNotDue DEF SettledOK
<1>1. ASSUME NEW c \in Client, CheckProject(c) PROVE SettledOK'
  BY <1>1 DEF CheckProject, Goto, docVars, rowVars, storeVars, IInv,
       SettledOK, PurgeOK, HolderOK, Call, Run, Idle
<1>2. ASSUME NEW c \in Client, ReadDocument(c) PROVE SettledOK'
  BY <1>2 DEF ReadDocument, Goto, Visible, docVars, rowVars, storeVars, IInv,
       SettledOK, PurgeOK, HolderOK, Call, Run, Idle
<1>3. ASSUME NEW k \in Cleaner, ListPendingVersions(k) PROVE SettledOK'
  BY <1>3 DEF ListPendingVersions, Move, Expired, docVars, rowVars, storeVars,
       IInv, SettledOK, PurgeOK, HolderOK, Call, Run, Idle
<1>4. ASSUME NEW k \in Cleaner, MarkVersionFailed(k) PROVE SettledOK'
  BY <1>4 DEF MarkVersionFailed, Move, Fault, docVars, rowVars, storeVars,
       IInv, SettledOK, PurgeOK, HolderOK, Call, Run, Idle
<1>5. ASSUME NEW k \in Cleaner, ListPendingDocuments(k) PROVE SettledOK'
  BY <1>5 DEF ListPendingDocuments, Move, docVars, rowVars, storeVars, IInv,
       SettledOK, PurgeOK, HolderOK, Call, Run, Idle
<1>6. ASSUME NEW k \in Cleaner, ExpireDocument(k) PROVE SettledOK'
  BY <1>6 DEF ExpireDocument, Move, SoftDelete, HasRow, Fault, docVars,
       rowVars, storeVars, IInv, SettledOK, PurgeOK, HolderOK, Call, Run, Idle
<1>7. ASSUME NEW k \in Cleaner, ListSoftDeleted(k) PROVE SettledOK'
  BY <1>7 DEF ListSoftDeleted, Move, Resting, docVars, rowVars, storeVars,
       IInv, SettledOK, PurgeOK, HolderOK, Call, Run, Idle
<1>8. ASSUME NEW k \in Cleaner, ListVersions(k) PROVE SettledOK'
  BY <1>8 DEF ListVersions, Move, Listed, docVars, rowVars, storeVars, IInv,
       SettledOK, PurgeOK, HolderOK, Call, Run, Idle
<1>9. ASSUME NEW k \in Cleaner, DeleteObjects(k) PROVE SettledOK'
  BY <1>9 DEF DeleteObjects, Move, Fault, docVars, rowVars, storeVars, IInv,
       SettledOK, PurgeOK, HolderOK, Call, Run, Idle
<1>10. ASSUME NEW k \in Cleaner, HardDelete(k) PROVE SettledOK'
  BY <1>10 DEF HardDelete, Move, Resting, HasRow, docVars, rowVars, storeVars,
       IInv, SettledOK, PurgeOK, HolderOK, Call, Run, Idle
<1>11. ASSUME NEW k \in Cleaner, RunFails(k) PROVE SettledOK'
  BY <1>11 DEF RunFails, Move, Resting, Fault, docVars, rowVars, storeVars,
       IInv, SettledOK, PurgeOK, HolderOK, Call, Run, Idle
<1>12. ASSUME NEW n \in Version, GrowOld(n) PROVE SettledOK'
  BY <1>12 DEF GrowOld, docVars, rowVars, storeVars, IInv, SettledOK, PurgeOK,
       HolderOK, Call, Run, Idle
<1>13. CASE RetentionEnds
  BY <1>13 DEF RetentionEnds, docVars, rowVars, storeVars, IInv, SettledOK,
       PurgeOK, HolderOK, Call, Run, Idle
<1>14. CASE SoftDeleteByProject
  BY <1>14 DEF SoftDeleteByProject, SoftDelete, HasRow, Fault, docVars,
       rowVars, storeVars, IInv, SettledOK, PurgeOK, HolderOK, Call, Run, Idle
<1>15. CASE UNCHANGED <<due, status, call, clean, version, holder, old>>
  BY <1>15 DEF IInv, SettledOK, PurgeOK, HolderOK, Call, Run, Idle
<1>16. QED
  BY <1>0, <1>1, <1>2, <1>3, <1>4, <1>5, <1>6, <1>7, <1>8, <1>9, <1>10, <1>11,
       <1>12, <1>13, <1>14, <1>15, ZenonT(40) DEF Next, Proceed, Clean, vars, docVars,
       rowVars, storeVars, CreateDocument, Goto, Refuse, HandOut,
       CreateVersion, Fault, ReadMax, InsertVersion, ReadVersion, HeadObject,
       SetCurrentVersion, DeleteDocument, SoftDelete, RequestFails, Put,
       MarkKnownProjectDeleted

(* Rows and objects go only after the retention period. *)
LEMMA PurgeStep == IInv /\ TypeOK' /\ [Next]_vars => PurgeOK'
<1> SUFFICES ASSUME IInv, TypeOK', [Next]_vars PROVE PurgeOK'
  OBVIOUS
<1> USE Numbers, Parts
<1>1. ASSUME NEW c \in Client, CreateDocument(c) PROVE PurgeOK'
  BY <1>1 DEF CreateDocument, Goto, Refuse, HandOut, CreateVersion, Fault,
       Idle, docVars, rowVars, storeVars, IInv, SettledOK, PurgeOK, Run
<1>2. ASSUME NEW c \in Client, SetCurrentVersion(c) PROVE PurgeOK'
  BY <1>2 DEF SetCurrentVersion, Goto, Refuse, Idle, HasRow, docVars, rowVars,
       storeVars, IInv, SettledOK, PurgeOK, Run
<1>3. ASSUME NEW c \in Client, DeleteDocument(c) PROVE PurgeOK'
  BY <1>3 DEF DeleteDocument, Goto, Idle, SoftDelete, HasRow, docVars,
       rowVars, storeVars, IInv, SettledOK, PurgeOK, Run
<1>4. ASSUME NEW k \in Cleaner, ListPendingVersions(k) PROVE PurgeOK'
  BY <1>4 DEF ListPendingVersions, Move, Expired, docVars, rowVars, storeVars,
       IInv, SettledOK, PurgeOK, Idle, Run
<1>5. ASSUME NEW k \in Cleaner, MarkVersionFailed(k) PROVE PurgeOK'
  BY <1>5 DEF MarkVersionFailed, Move, Fault, docVars, rowVars, storeVars,
       IInv, SettledOK, PurgeOK, Idle, Run
<1>6. ASSUME NEW k \in Cleaner, ListPendingDocuments(k) PROVE PurgeOK'
  BY <1>6 DEF ListPendingDocuments, Move, docVars, rowVars, storeVars, IInv,
       SettledOK, PurgeOK, Idle, Run
<1>7. ASSUME NEW k \in Cleaner, ExpireDocument(k) PROVE PurgeOK'
  BY <1>7 DEF ExpireDocument, Move, SoftDelete, HasRow, Fault, docVars,
       rowVars, storeVars, IInv, SettledOK, PurgeOK, Idle, Run
<1>8. ASSUME NEW k \in Cleaner, ListSoftDeleted(k) PROVE PurgeOK'
  BY <1>8 DEF ListSoftDeleted, IsCollectable, Move, Resting, docVars, rowVars, storeVars,
       IInv, SettledOK, PurgeOK, Idle, Run
<1>9. ASSUME NEW k \in Cleaner, ListVersions(k) PROVE PurgeOK'
  BY <1>9 DEF ListVersions, Move, Listed, docVars, rowVars, storeVars, IInv,
       SettledOK, PurgeOK, Idle, Run
<1>10. ASSUME NEW k \in Cleaner, DeleteObjects(k) PROVE PurgeOK'
  BY <1>10 DEF DeleteObjects, Move, Fault, docVars, rowVars, storeVars, IInv,
       SettledOK, PurgeOK, Idle, Run
<1>11. ASSUME NEW k \in Cleaner, HardDelete(k) PROVE PurgeOK'
  BY <1>11 DEF HardDelete, Move, Resting, HasRow, docVars, rowVars, storeVars,
       IInv, SettledOK, PurgeOK, Idle, Run
<1>12. ASSUME NEW k \in Cleaner, RunFails(k) PROVE PurgeOK'
  BY <1>12 DEF RunFails, Move, Resting, Fault, docVars, rowVars, storeVars,
       IInv, SettledOK, PurgeOK, Idle, Run
<1>13. CASE RetentionEnds
  BY <1>13 DEF RetentionEnds, docVars, rowVars, storeVars, IInv, SettledOK,
       PurgeOK, Idle, Run
<1>14. CASE SoftDeleteByProject
  BY <1>14 DEF SoftDeleteByProject, SoftDelete, HasRow, Fault, docVars,
       rowVars, storeVars, IInv, SettledOK, PurgeOK, Idle, Run
<1>15. CASE UNCHANGED <<due, status, clean>>
  BY <1>15 DEF IInv, SettledOK, PurgeOK, Idle, Run
<1>16. QED
  BY <1>1, <1>2, <1>3, <1>4, <1>5, <1>6, <1>7, <1>8, <1>9, <1>10, <1>11,
       <1>12, <1>13, <1>14, <1>15 DEF Next, Proceed, Clean, vars, docVars,
       rowVars, storeVars, CheckProject, Goto, ReadDocument, ReadMax, Refuse,
       InsertVersion, HandOut, CreateVersion, Fault, ReadVersion, HeadObject,
       RequestFails, Put, GrowOld, MarkKnownProjectDeleted

(* What was found in the store, or confirmed, is still there. *)
LEMMA FoundStep == IInv /\ TypeOK' /\ [Next]_vars => FoundOK'
<1> SUFFICES ASSUME IInv, TypeOK', [Next]_vars PROVE FoundOK'
  OBVIOUS
<1> USE Numbers, Parts
<1>1. ASSUME NEW c \in Client, CheckProject(c) PROVE FoundOK'
  BY <1>1 DEF CheckProject, Goto, docVars, rowVars, storeVars, IInv,
       SettledOK, PurgeOK, FoundOK, NumberOK, HolderOK, Call, Run, Idle
<1>2. ASSUME NEW c \in Client, ReadDocument(c) PROVE FoundOK'
  BY <1>2 DEF ReadDocument, Goto, Visible, docVars, rowVars, storeVars, IInv,
       SettledOK, PurgeOK, FoundOK, NumberOK, HolderOK, Call, Run, Idle
<1>3. ASSUME NEW c \in Client, CreateDocument(c) PROVE FoundOK'
  BY <1>3 DEF CreateDocument, Goto, Refuse, HandOut, CreateVersion, Fault,
       Idle, docVars, rowVars, storeVars, IInv, SettledOK, PurgeOK, FoundOK,
       NumberOK, HolderOK, Call, Run
<1>4. ASSUME NEW c \in Client, ReadMax(c) PROVE FoundOK'
  <2>1. PICK r : Becomes(c, r)
    BY <1>4, ReadMaxStep DEF IInv
  <2>2. UNCHANGED <<due, version, stored>>
    BY <1>4, ReadMaxStep DEF IInv, docVars, rowVars, storeVars
  <2>3. QED
    BY <2>1, <2>2 DEF IInv, FoundOK, Becomes
<1>5. ASSUME NEW c \in Client, InsertVersion(c) PROVE FoundOK'
  BY <1>5 DEF InsertVersion, MayCreate, Goto, Refuse, HandOut, CreateVersion, Fault,
       Idle, docVars, rowVars, storeVars, IInv, SettledOK, PurgeOK, FoundOK,
       NumberOK, HolderOK, Call, Run
<1>6. ASSUME NEW c \in Client, ReadVersion(c) PROVE FoundOK'
  BY <1>6 DEF ReadVersion, Goto, Refuse, Idle, docVars, rowVars, storeVars,
       IInv, SettledOK, PurgeOK, FoundOK, NumberOK, HolderOK, Call, Run
<1>7. ASSUME NEW c \in Client, HeadObject(c) PROVE FoundOK'
  BY <1>7 DEF HeadObject, Found, Goto, Refuse, Idle, docVars, rowVars, storeVars,
       IInv, SettledOK, PurgeOK, FoundOK, NumberOK, HolderOK, Call, Run
<1>8. ASSUME NEW c \in Client, SetCurrentVersion(c) PROVE FoundOK'
  BY <1>8 DEF SetCurrentVersion, Goto, Refuse, Idle, HasRow, docVars, rowVars,
       storeVars, IInv, SettledOK, PurgeOK, FoundOK, NumberOK, HolderOK, Call,
       Run
<1>9. ASSUME NEW c \in Client, DeleteDocument(c) PROVE FoundOK'
  BY <1>9 DEF DeleteDocument, Goto, Idle, SoftDelete, HasRow, docVars,
       rowVars, storeVars, IInv, SettledOK, PurgeOK, FoundOK, NumberOK,
       HolderOK, Call, Run
<1>10. ASSUME NEW c \in Client, RequestFails(c) PROVE FoundOK'
  BY <1>10 DEF RequestFails, Goto, Idle, Fault, docVars, rowVars, storeVars,
       IInv, SettledOK, PurgeOK, FoundOK, NumberOK, HolderOK, Call, Run
<1>11. ASSUME NEW k \in Cleaner, MarkVersionFailed(k) PROVE FoundOK'
  BY <1>11 DEF MarkVersionFailed, Move, Fault, docVars, rowVars, storeVars,
       IInv, SettledOK, PurgeOK, FoundOK, NumberOK, HolderOK, Call, Run, Idle
<1>12. ASSUME NEW k \in Cleaner, DeleteObjects(k) PROVE FoundOK'
  BY <1>12 DEF DeleteObjects, Move, Fault, docVars, rowVars, storeVars, IInv,
       SettledOK, PurgeOK, FoundOK, NumberOK, HolderOK, Call, Run, Idle
<1>13. ASSUME NEW k \in Cleaner, HardDelete(k) PROVE FoundOK'
  BY <1>13 DEF HardDelete, Move, Resting, HasRow, docVars, rowVars, storeVars,
       IInv, SettledOK, PurgeOK, FoundOK, NumberOK, HolderOK, Call, Run, Idle
<1>14. ASSUME NEW n \in Version, Put(n) PROVE FoundOK'
  BY <1>14 DEF Put, docVars, rowVars, storeVars, IInv, SettledOK, PurgeOK,
       FoundOK, NumberOK, HolderOK, Call, Run, Idle
<1>15. ASSUME NEW k \in Cleaner, ExpireDocument(k) PROVE FoundOK'
  BY <1>15 DEF ExpireDocument, Move, SoftDelete, HasRow, Fault, docVars,
       rowVars, storeVars, IInv, SettledOK, PurgeOK, FoundOK, NumberOK,
       HolderOK, Call, Run, Idle
<1>16. CASE RetentionEnds
  BY <1>16 DEF RetentionEnds, docVars, rowVars, storeVars, IInv, SettledOK,
       PurgeOK, FoundOK, NumberOK, HolderOK, Call, Run, Idle
<1>17. CASE SoftDeleteByProject
  BY <1>17 DEF SoftDeleteByProject, SoftDelete, HasRow, Fault, docVars,
       rowVars, storeVars, IInv, SettledOK, PurgeOK, FoundOK, NumberOK,
       HolderOK, Call, Run, Idle
<1>18. CASE UNCHANGED <<due, version, stored, call>>
  BY <1>18 DEF IInv, SettledOK, PurgeOK, FoundOK, NumberOK, HolderOK, Call,
       Run, Idle
<1>19. QED
  BY <1>1, <1>2, <1>3, <1>4, <1>5, <1>6, <1>7, <1>8, <1>9, <1>10, <1>11,
       <1>12, <1>13, <1>14, <1>15, <1>16, <1>17, <1>18 DEF Next, Proceed,
       Clean, vars, docVars, rowVars, storeVars, ListPendingVersions, Move,
       ListPendingDocuments, ListSoftDeleted, ListVersions, RunFails, Fault,
       GrowOld, MarkKnownProjectDeleted

(* An active document keeps the object of its current version. *)
LEMMA CurrentStep == IInv /\ TypeOK' /\ [Next]_vars => CurrentHasObject'
<1> SUFFICES ASSUME IInv, TypeOK', [Next]_vars PROVE CurrentHasObject'
  OBVIOUS
<1> USE Numbers, Parts
<1>1. ASSUME NEW c \in Client, CreateDocument(c) PROVE CurrentHasObject'
  BY <1>1 DEF CreateDocument, Goto, Refuse, HandOut, CreateVersion, Fault,
       Idle, docVars, rowVars, storeVars, IInv, SettledOK, PurgeOK, FoundOK,
       NumberOK, CurrentHasObject, Call, Run
<1>2. ASSUME NEW c \in Client, InsertVersion(c) PROVE CurrentHasObject'
  BY <1>2 DEF InsertVersion, Goto, Refuse, HandOut, CreateVersion, Fault,
       Idle, MayCreate, docVars, rowVars, storeVars, IInv, SettledOK, PurgeOK,
       FoundOK, NumberOK, CurrentHasObject, Call, Run
<1>3. ASSUME NEW c \in Client, SetCurrentVersion(c) PROVE CurrentHasObject'
  BY <1>3 DEF SetCurrentVersion, Goto, Refuse, Idle, HasRow, docVars, rowVars,
       storeVars, IInv, SettledOK, PurgeOK, FoundOK, NumberOK,
       CurrentHasObject, Call, Run
<1>4. ASSUME NEW c \in Client, DeleteDocument(c) PROVE CurrentHasObject'
  BY <1>4 DEF DeleteDocument, Goto, Idle, SoftDelete, HasRow, docVars,
       rowVars, storeVars, IInv, SettledOK, PurgeOK, FoundOK, NumberOK,
       CurrentHasObject, Call, Run
<1>5. ASSUME NEW k \in Cleaner, MarkVersionFailed(k) PROVE CurrentHasObject'
  BY <1>5 DEF MarkVersionFailed, Move, Fault, docVars, rowVars, storeVars,
       IInv, SettledOK, PurgeOK, FoundOK, NumberOK, CurrentHasObject, Call,
       Run, Idle
<1>6. ASSUME NEW k \in Cleaner, ExpireDocument(k) PROVE CurrentHasObject'
  BY <1>6 DEF ExpireDocument, Move, SoftDelete, HasRow, Fault, docVars,
       rowVars, storeVars, IInv, SettledOK, PurgeOK, FoundOK, NumberOK,
       CurrentHasObject, Call, Run, Idle
<1>7. ASSUME NEW k \in Cleaner, DeleteObjects(k) PROVE CurrentHasObject'
  BY <1>7 DEF DeleteObjects, Move, Fault, docVars, rowVars, storeVars, IInv,
       SettledOK, PurgeOK, FoundOK, NumberOK, CurrentHasObject, Call, Run,
       Idle
<1>8. ASSUME NEW k \in Cleaner, HardDelete(k) PROVE CurrentHasObject'
  BY <1>8 DEF HardDelete, Move, Resting, HasRow, docVars, rowVars, storeVars,
       IInv, SettledOK, PurgeOK, FoundOK, NumberOK, CurrentHasObject, Call,
       Run, Idle
<1>9. ASSUME NEW n \in Version, Put(n) PROVE CurrentHasObject'
  BY <1>9 DEF Put, docVars, rowVars, storeVars, IInv, SettledOK, PurgeOK,
       FoundOK, NumberOK, CurrentHasObject, Call, Run, Idle
<1>10. CASE SoftDeleteByProject
  BY <1>10 DEF SoftDeleteByProject, SoftDelete, HasRow, Fault, docVars,
       rowVars, storeVars, IInv, SettledOK, PurgeOK, FoundOK, NumberOK,
       CurrentHasObject, Call, Run, Idle
<1>11. CASE UNCHANGED <<status, current, version, stored>>
  BY <1>11 DEF IInv, SettledOK, PurgeOK, FoundOK, NumberOK, CurrentHasObject,
       Call, Run, Idle
<1>12. QED
  BY <1>1, <1>2, <1>3, <1>4, <1>5, <1>6, <1>7, <1>8, <1>9, <1>10, <1>11 DEF
       Next, Proceed, Clean, vars, docVars, rowVars, storeVars, CheckProject,
       Goto, ReadDocument, ReadMax, Refuse, ReadVersion, HeadObject,
       RequestFails, Fault, ListPendingVersions, Move, ListPendingDocuments,
       ListSoftDeleted, ListVersions, RunFails, GrowOld, RetentionEnds,
       MarkKnownProjectDeleted

(* URLs come with rows, and objects with URLs. *)
LEMMA HolderStep == IInv /\ TypeOK' /\ [Next]_vars => HolderOK'
<1> SUFFICES ASSUME IInv, TypeOK', [Next]_vars PROVE HolderOK'
  OBVIOUS
<1> USE Numbers, Parts
<1>1. ASSUME NEW c \in Client, CreateDocument(c) PROVE HolderOK'
  BY <1>1 DEF CreateDocument, Goto, Refuse, HandOut, CreateVersion, Fault,
       Idle, docVars, rowVars, storeVars, IInv, HolderOK, NumberOK, Call, Run
<1>2. ASSUME NEW c \in Client, InsertVersion(c) PROVE HolderOK'
  <2> DEFINE n == call[c].n
  <2>1. CASE Refuse(c)
    BY <2>1 DEF Refuse, docVars, rowVars, storeVars, IInv, HolderOK
  <2>2. CASE HasRow /\ CreateVersion(n) /\ HandOut(c, n) /\ UNCHANGED <<docVars, stored>>
    <3>1. n \in Version
      BY <1>2 DEF InsertVersion, IInv, NumberOK
    <3>2. UNCHANGED <<status, stored>> /\ status \notin {"none", "gone"}
      BY <2>2 DEF docVars, HasRow
    <3>3. /\ version' = [version EXCEPT ![n] = "pending"]
          /\ holder' = holder \/ holder' = [holder EXCEPT ![n] = @ \cup {c}]
      BY <2>2 DEF CreateVersion, HandOut
    <3> HIDE DEF n
    <3>4. QED
      BY <3>1, <3>2, <3>3 DEF IInv, HolderOK
  <2>3. QED
    BY <1>2, <2>1, <2>2 DEF InsertVersion
<1>3. ASSUME NEW c \in Client, SetCurrentVersion(c) PROVE HolderOK'
  BY <1>3 DEF SetCurrentVersion, Goto, Refuse, Idle, HasRow, docVars, rowVars,
       storeVars, IInv, HolderOK, NumberOK, Call, Run
<1>4. ASSUME NEW c \in Client, DeleteDocument(c) PROVE HolderOK'
  BY <1>4 DEF DeleteDocument, Goto, Idle, SoftDelete, HasRow, docVars,
       rowVars, storeVars, IInv, HolderOK, NumberOK, Call, Run
<1>5. ASSUME NEW k \in Cleaner, MarkVersionFailed(k) PROVE HolderOK'
  BY <1>5 DEF MarkVersionFailed, Move, Fault, docVars, rowVars, storeVars,
       IInv, HolderOK, NumberOK, Call, Run
<1>6. ASSUME NEW k \in Cleaner, ExpireDocument(k) PROVE HolderOK'
  BY <1>6 DEF ExpireDocument, Move, SoftDelete, HasRow, Fault, docVars,
       rowVars, storeVars, IInv, HolderOK, NumberOK, Call, Run
<1>7. ASSUME NEW k \in Cleaner, DeleteObjects(k) PROVE HolderOK'
  BY <1>7 DEF DeleteObjects, Move, Fault, docVars, rowVars, storeVars, IInv,
       HolderOK, NumberOK, Call, Run
<1>8. ASSUME NEW k \in Cleaner, HardDelete(k) PROVE HolderOK'
  BY <1>8 DEF HardDelete, Move, Resting, HasRow, docVars, rowVars, storeVars,
       IInv, HolderOK, NumberOK, Call, Run
<1>9. ASSUME NEW n \in Version, Put(n) PROVE HolderOK'
  BY <1>9 DEF Put, docVars, rowVars, storeVars, IInv, HolderOK, NumberOK,
       Call, Run
<1>10. CASE SoftDeleteByProject
  BY <1>10 DEF SoftDeleteByProject, SoftDelete, HasRow, Fault, docVars,
       rowVars, storeVars, IInv, HolderOK, NumberOK, Call, Run
<1>11. CASE UNCHANGED <<status, version, stored, holder>>
  BY <1>11 DEF IInv, HolderOK, NumberOK, Call, Run
<1>12. QED
  BY <1>1, <1>2, <1>3, <1>4, <1>5, <1>6, <1>7, <1>8, <1>9, <1>10, <1>11 DEF
       Next, Proceed, Clean, vars, docVars, rowVars, storeVars, CheckProject,
       Goto, ReadDocument, ReadMax, Refuse, ReadVersion, HeadObject,
       RequestFails, Fault, ListPendingVersions, Move, ListPendingDocuments,
       ListSoftDeleted, ListVersions, RunFails, GrowOld, RetentionEnds,
       MarkKnownProjectDeleted

(* A key is given to one client only. *)
LEMMA UploaderStep == IInv /\ TypeOK' /\ [Next]_vars => OneUploader'
<1> SUFFICES ASSUME IInv, TypeOK', [Next]_vars PROVE OneUploader'
  OBVIOUS
<1> USE Numbers, Parts
<1>1. ASSUME NEW c \in Client, CreateDocument(c) PROVE OneUploader'
  BY <1>1 DEF CreateDocument, Goto, Refuse, HandOut, CreateVersion, Fault,
       Idle, docVars, rowVars, storeVars, IInv, HolderOK, OneUploader
<1>2. ASSUME NEW c \in Client, InsertVersion(c) PROVE OneUploader'
  <2> DEFINE n == call[c].n
  <2>1. CASE Refuse(c)
    BY <2>1 DEF Refuse, storeVars, IInv, OneUploader
  <2>2. CASE HasRow /\ MayCreate(n) /\ HandOut(c, n)
    <3>1. n \in Version
      BY <1>2 DEF InsertVersion, IInv, NumberOK
    <3>2. holder[n] = {}
      BY <2>2, <3>1 DEF HasRow, MayCreate, IInv, HolderOK
    <3>3. holder' = holder \/ holder' = [holder EXCEPT ![n] = @ \cup {c}]
      BY <2>2 DEF HandOut
    <3> HIDE DEF n
    <3>4. QED
      BY <3>1, <3>2, <3>3 DEF IInv, OneUploader
  <2>3. QED
    BY <1>2, <2>1, <2>2 DEF InsertVersion
<1>3. CASE UNCHANGED <<holder>>
  BY <1>3 DEF IInv, HolderOK, OneUploader
<1>4. QED
  BY <1>1, <1>2, <1>3 DEF Next, Proceed, Clean, vars, docVars, rowVars,
       storeVars, CheckProject, Goto, ReadDocument, ReadMax, Refuse,
       ReadVersion, HeadObject, SetCurrentVersion, DeleteDocument, SoftDelete,
       RequestFails, Fault, ListPendingVersions, Move, MarkVersionFailed,
       ListPendingDocuments, ExpireDocument, ListSoftDeleted, ListVersions,
       DeleteObjects, HardDelete, RunFails, Put, GrowOld, RetentionEnds,
       SoftDeleteByProject, MarkKnownProjectDeleted

(* A hard delete that meets no failure removes every object. *)
LEMMA PurgedStep == IInv /\ TypeOK' /\ [Next]_vars => PurgedOK'
<1> SUFFICES ASSUME IInv, TypeOK', [Next]_vars PROVE PurgedOK'
  OBVIOUS
<1> USE Numbers, Parts
<1>1. ASSUME NEW c \in Client, CreateDocument(c) PROVE PurgedOK'
  BY <1>1 DEF CreateDocument, Goto, Refuse, HandOut, CreateVersion, Fault,
       Idle, docVars, rowVars, storeVars, IInv, SettledOK, PurgeOK, HolderOK,
       PurgedOK, Call, Run
<1>2. ASSUME NEW c \in Client, InsertVersion(c) PROVE PurgedOK'
  <2>1. UNCHANGED <<status, stored, clean>>
    BY <1>2 DEF InsertVersion, Refuse, docVars, storeVars
  <2>2. faults' = 0 => faults = 0
    BY <1>2 DEF InsertVersion, Refuse, HandOut, Fault
  <2>3. QED
    BY <2>1, <2>2 DEF IInv, PurgedOK
<1>3. ASSUME NEW c \in Client, SetCurrentVersion(c) PROVE PurgedOK'
  BY <1>3 DEF SetCurrentVersion, Goto, Refuse, Idle, HasRow, docVars, rowVars,
       storeVars, IInv, SettledOK, PurgeOK, HolderOK, PurgedOK, Call, Run
<1>4. ASSUME NEW c \in Client, DeleteDocument(c) PROVE PurgedOK'
  BY <1>4 DEF DeleteDocument, Goto, Idle, SoftDelete, HasRow, docVars,
       rowVars, storeVars, IInv, SettledOK, PurgeOK, HolderOK, PurgedOK, Call,
       Run
<1>5. ASSUME NEW c \in Client, RequestFails(c) PROVE PurgedOK'
  BY <1>5 DEF RequestFails, Goto, Idle, Fault, docVars, rowVars, storeVars,
       IInv, SettledOK, PurgeOK, HolderOK, PurgedOK, Call, Run
<1>6. ASSUME NEW k \in Cleaner, ListPendingVersions(k) PROVE PurgedOK'
  BY <1>6 DEF ListPendingVersions, Move, Expired, docVars, rowVars, storeVars,
       IInv, SettledOK, PurgeOK, HolderOK, PurgedOK, Call, Run, Idle
<1>7. ASSUME NEW k \in Cleaner, MarkVersionFailed(k) PROVE PurgedOK'
  BY <1>7 DEF MarkVersionFailed, Move, Fault, docVars, rowVars, storeVars,
       IInv, SettledOK, PurgeOK, HolderOK, PurgedOK, Call, Run, Idle
<1>8. ASSUME NEW k \in Cleaner, ListPendingDocuments(k) PROVE PurgedOK'
  BY <1>8 DEF ListPendingDocuments, Move, docVars, rowVars, storeVars, IInv,
       SettledOK, PurgeOK, HolderOK, PurgedOK, Call, Run, Idle
<1>9. ASSUME NEW k \in Cleaner, ExpireDocument(k) PROVE PurgedOK'
  BY <1>9 DEF ExpireDocument, Move, SoftDelete, HasRow, Fault, docVars,
       rowVars, storeVars, IInv, SettledOK, PurgeOK, HolderOK, PurgedOK, Call,
       Run, Idle
<1>10. ASSUME NEW k \in Cleaner, ListSoftDeleted(k) PROVE PurgedOK'
  BY <1>10 DEF ListSoftDeleted, Move, Resting, IsCollectable, docVars,
       rowVars, storeVars, IInv, SettledOK, PurgeOK, HolderOK, PurgedOK, Call,
       Run, Idle
<1>11. ASSUME NEW k \in Cleaner, ListVersions(k) PROVE PurgedOK'
  BY <1>11 DEF ListVersions, Move, Listed, docVars, rowVars, storeVars, IInv,
       SettledOK, PurgeOK, HolderOK, PurgedOK, Call, Run, Idle
<1>12. ASSUME NEW k \in Cleaner, DeleteObjects(k) PROVE PurgedOK'
  BY <1>12 DEF DeleteObjects, Move, Fault, docVars, rowVars, storeVars, IInv,
       SettledOK, PurgeOK, HolderOK, PurgedOK, Call, Run, Idle
<1>13. ASSUME NEW k \in Cleaner, HardDelete(k) PROVE PurgedOK'
  BY <1>13 DEF HardDelete, Move, Resting, HasRow, docVars, rowVars, storeVars,
       IInv, SettledOK, PurgeOK, HolderOK, PurgedOK, Call, Run, Idle
<1>14. ASSUME NEW k \in Cleaner, RunFails(k) PROVE PurgedOK'
  BY <1>14 DEF RunFails, Move, Resting, Fault, docVars, rowVars, storeVars,
       IInv, SettledOK, PurgeOK, HolderOK, PurgedOK, Call, Run, Idle
<1>15. ASSUME NEW n \in Version, Put(n) PROVE PurgedOK'
  BY <1>15 DEF Put, docVars, rowVars, storeVars, IInv, SettledOK, PurgeOK,
       HolderOK, PurgedOK, Call, Run, Idle
<1>16. CASE RetentionEnds
  BY <1>16 DEF RetentionEnds, docVars, rowVars, storeVars, IInv, SettledOK,
       PurgeOK, HolderOK, PurgedOK, Call, Run, Idle
<1>17. CASE SoftDeleteByProject
  BY <1>17 DEF SoftDeleteByProject, SoftDelete, HasRow, Fault, docVars,
       rowVars, storeVars, IInv, SettledOK, PurgeOK, HolderOK, PurgedOK, Call,
       Run, Idle
<1>18. CASE UNCHANGED <<status, stored, clean, faults>>
  BY <1>18 DEF IInv, SettledOK, PurgeOK, HolderOK, PurgedOK, Call, Run, Idle
<1>19. QED
  BY <1>1, <1>2, <1>3, <1>4, <1>5, <1>6, <1>7, <1>8, <1>9, <1>10, <1>11,
       <1>12, <1>13, <1>14, <1>15, <1>16, <1>17, <1>18 DEF Next, Proceed,
       Clean, vars, docVars, rowVars, storeVars, CheckProject, Goto,
       ReadDocument, ReadMax, Refuse, ReadVersion, HeadObject, GrowOld,
       MarkKnownProjectDeleted

LEMMA Invariant == Spec => []IInv
<1>1. Init => IInv
  <2>1. Init => TypeOK
    BY TypeInit
  <2>2. Init => IInv
    BY <2>1 DEF Init, IInv, NumberOK, SettledOK, PurgeOK, FoundOK, CurrentHasObject,
                HolderOK, OneUploader, PurgedOK, Idle, Resting
  <2>3. QED
    BY <2>2
<1>2. IInv /\ [Next]_vars => IInv'
  <2>1. IInv /\ [Next]_vars => TypeOK'
    BY TypeStep DEF IInv
  <2>2. QED
    BY <2>1, NumberStep, SettledStep, PurgeStep, FoundStep, CurrentStep, HolderStep,
       UploaderStep, PurgedStep DEF IInv
<1>3. QED
  BY <1>1, <1>2, PTL DEF Spec

-----------------------------------------------------------------------------
(* The theorems *)

(* An active document has the object of its current version, whatever      *)
(* requests, cleanup runs and failures overlap (ConfirmUpload,             *)
(* RestoreVersion, hardDeleteExpired).                                     *)
THEOREM CurrentStored == Spec => []CurrentHasObject
<1>1. IInv => CurrentHasObject
  BY DEF IInv
<1>2. QED
  BY <1>1, Invariant, PTL

(* Requests that compute the same next version number do not both receive  *)
(* its upload URL (InitiateNewVersion).                                    *)
THEOREM KeyNotShared == Spec => []OneUploader
<1>1. IInv => OneUploader
  BY DEF IInv
<1>2. QED
  BY <1>1, Invariant, PTL

(* Without a failure of the store or the process, a hard delete, by any    *)
(* number of replicas at once, leaves no object (deleteDocumentObjects).   *)
THEOREM NothingOrphaned == Spec => []NoOrphans
<1>1. IInv => NoOrphans
  BY DEF IInv, PurgedOK, NoOrphans
<1>2. QED
  BY <1>1, Invariant, PTL

-----------------------------------------------------------------------------
(* Rows in order                                                           *)

(* How many of S come before i *)
RankIn(S, R, i) == Cardinality({j \in S : <<j, i>> \in R})
Orders(S, R) ==
  /\ \A i \in S : <<i, i>> \notin R
  /\ \A i, j \in S : i # j => <<i, j>> \in R \/ <<j, i>> \in R
  /\ \A i, j, k \in S : <<i, j>> \in R /\ <<j, k>> \in R => <<i, k>> \in R

(* Numbers below the size of a set, all different, are all there are. *)
LEMMA EachNumberIsUsed ==
  ASSUME NEW S, IsFiniteSet(S), NEW rank \in [S -> 0..(Cardinality(S) - 1)],
         \A i, j \in S : rank[i] = rank[j] => i = j
  PROVE  \A n \in 1..Cardinality(S) : \E i \in S : rank[i] = n - 1
<1> DEFINE T == 0..(Cardinality(S) - 1)
<1>1. Cardinality(S) \in Nat BY FS_CardinalityType
<1>2. IsFiniteSet(T) /\ Cardinality(T) = Cardinality(S)
  <2>1. PICK size : size = Cardinality(S) OBVIOUS
  <2>2. size \in Nat /\ size - 1 \in Int BY <1>1, <2>1
  <2>3. /\ IsFiniteSet(0..(size - 1))
        /\ Cardinality(0..(size - 1)) = IF 0 > size - 1 THEN 0 ELSE (size - 1) - 0 + 1
    BY <2>2, FS_Interval
  <2>4. IF 0 > size - 1 THEN size = 0 ELSE size = (size - 1) - 0 + 1 BY <2>2
  <2> QED BY <2>1, <2>3, <2>4
<1>3. rank \in Injection(S, T) BY DEF Injection, IsInjective
<1>4. rank \in Surjection(S, T)
  <2> HIDE DEF T
  <2> QED BY <1>2, <1>3, FS_Injection
<1>5. \A t \in T : \E i \in S : rank[i] = t BY <1>4 DEF Surjection
<1>6. \A n \in 1..Cardinality(S) : n - 1 \in T BY <1>1
<1> QED BY <1>5, <1>6

(* No two have one rank, so that each rank is somebody's. *)
LEMMA EveryRankIsTaken ==
  ASSUME NEW S, IsFiniteSet(S), NEW R, Orders(S, R)
  PROVE  /\ Cardinality(S) \in Nat
         /\ \A i \in S : RankIn(S, R, i) \in 0..(Cardinality(S) - 1)
         /\ \A i, j \in S : <<i, j>> \in R => RankIn(S, R, i) < RankIn(S, R, j)
         /\ \A n \in 1..Cardinality(S) : \E i \in S : RankIn(S, R, i) = n - 1
<1> DEFINE ahead(i) == {j \in S : <<j, i>> \in R}
<1>1. Cardinality(S) \in Nat BY FS_CardinalityType
<1>2. ASSUME NEW i \in S
      PROVE  IsFiniteSet(ahead(i)) /\ RankIn(S, R, i) \in 0..(Cardinality(S) - 1)
  <2>1. IsFiniteSet(S \ {i}) /\ Cardinality(S \ {i}) = Cardinality(S) - 1 BY FS_RemoveElement
  <2>2. ahead(i) \in SUBSET (S \ {i}) BY DEF Orders
  <2>3. IsFiniteSet(ahead(i)) /\ Cardinality(ahead(i)) <= Cardinality(S) - 1
    <3> HIDE DEF ahead
    <3>1. IsFiniteSet(ahead(i)) /\ Cardinality(ahead(i)) <= Cardinality(S \ {i})
      BY <2>1, <2>2, FS_Subset
    <3> QED BY <2>1, <3>1
  <2>4. Cardinality(ahead(i)) \in Nat BY <2>3, FS_CardinalityType
  <2> QED BY <1>1, <2>3, <2>4 DEF RankIn
<1>3. ASSUME NEW i \in S, NEW j \in S, <<i, j>> \in R PROVE RankIn(S, R, i) < RankIn(S, R, j)
  <2>1. ahead(i) \in SUBSET ahead(j) BY <1>3 DEF Orders
  <2>2. i \in ahead(j) /\ i \notin ahead(i) BY <1>3 DEF Orders
  <2>3. ahead(i) # ahead(j) BY <2>2
  <2>4. Cardinality(ahead(i)) <= Cardinality(ahead(j)) /\ Cardinality(ahead(i)) # Cardinality(ahead(j))
    BY <1>2, <2>1, <2>3, FS_Subset
  <2>5. Cardinality(ahead(i)) \in Nat /\ Cardinality(ahead(j)) \in Nat
    BY <1>2, FS_CardinalityType
  <2> QED BY <2>4, <2>5 DEF RankIn
<1>4. \A n \in 1..Cardinality(S) : \E i \in S : RankIn(S, R, i) = n - 1
  <2>1. PICK rank : rank = [i \in S |-> RankIn(S, R, i)] OBVIOUS
  <2>2. \A i \in S : rank[i] = RankIn(S, R, i) BY <2>1
  <2>3. \A i \in S : rank[i] \in 0..(Cardinality(S) - 1) BY <1>2, <2>2
  <2>4. rank \in [S -> 0..(Cardinality(S) - 1)] BY <2>1, <2>3
  <2>5. \A i, j \in S : <<i, j>> \in R => rank[i] < rank[j] BY <1>3, <2>2
  <2>6. ASSUME NEW i \in S, NEW j \in S, rank[i] = rank[j] PROVE i = j
    <3>1. rank[i] \in Int BY <1>1, <2>3
    <3>2. <<i, j>> \notin R /\ <<j, i>> \notin R BY <2>5, <2>6, <3>1
    <3> QED BY <3>2 DEF Orders
  <2> QED BY <2>2, <2>4, <2>6, EachNumberIsUsed
<1> QED BY <1>1, <1>2, <1>3, <1>4

Ranked(s, S, R) == \A n \in 1..Cardinality(S) : RankIn(S, R, s[n]) = n - 1
Lists(s, S, R) ==
  /\ s \in Seq(S) /\ Len(s) = Cardinality(S) /\ Len(s) \in Nat
  /\ \A m, n \in 1..Len(s) : m < n => <<s[m], s[n]>> \in R
  /\ \A i \in S : \E n \in 1..Len(s) : s[n] = i

(* A sequence in which n - 1 of S come before the n-th has all of S, in    *)
(* order.                                                                  *)
LEMMA InOrderIs ==
  ASSUME NEW S, IsFiniteSet(S), NEW R, Orders(S, R),
         NEW s \in [1..Cardinality(S) -> S], Ranked(s, S, R)
  PROVE  Lists(s, S, R)
<1>1. Cardinality(S) \in Nat BY EveryRankIsTaken
<1>2. ASSUME NEW n \in 1..Cardinality(S) PROVE s[n] \in S /\ RankIn(S, R, s[n]) = n - 1
  BY DEF Ranked
<1>3. s \in [1..Cardinality(S) -> S] OBVIOUS
<1>4. s \in Seq(S) /\ Len(s) = Cardinality(S) BY <1>1, <1>3
<1>5. ASSUME NEW i \in S, NEW j \in S, RankIn(S, R, i) < RankIn(S, R, j) PROVE <<i, j>> \in R
  <2>1. RankIn(S, R, i) \in Nat /\ RankIn(S, R, j) \in Nat /\ i # j
        /\ (<<j, i>> \in R => RankIn(S, R, j) < RankIn(S, R, i))
    BY <1>1, <1>5, EveryRankIsTaken
  <2>2. <<j, i>> \notin R BY <1>5, <2>1
  <2> QED BY <2>1, <2>2 DEF Orders
<1>6. ASSUME NEW m \in 1..Len(s), NEW n \in 1..Len(s), m < n PROVE <<s[m], s[n]>> \in R
  BY <1>1, <1>2, <1>4, <1>5, <1>6
<1>7. ASSUME NEW i \in S PROVE \E n \in 1..Len(s) : s[n] = i
  <2>1. RankIn(S, R, i) \in 0..(Cardinality(S) - 1) BY EveryRankIsTaken
  <2>2. PICK n \in 1..Cardinality(S) : RankIn(S, R, i) = n - 1
    <3>1. RankIn(S, R, i) + 1 \in 1..Cardinality(S) /\ RankIn(S, R, i) = (RankIn(S, R, i) + 1) - 1
      BY <1>1, <2>1
    <3> QED BY <3>1
  <2>3. s[n] \in S /\ RankIn(S, R, s[n]) = RankIn(S, R, i) BY <1>2, <2>2
  <2>4. PICK r : r = RankIn(S, R, i) OBVIOUS
  <2>5. r \in Int BY <1>1, <2>1, <2>4
  <2>6. \A j, k \in S : <<j, k>> \in R => RankIn(S, R, j) < RankIn(S, R, k) BY EveryRankIsTaken
  <2>7. <<s[n], i>> \notin R /\ <<i, s[n]>> \notin R BY <2>3, <2>4, <2>5, <2>6
  <2>8. s[n] = i BY <2>3, <2>7 DEF Orders
  <2> QED BY <1>4, <2>8
<1> QED BY <1>1, <1>4, <1>6, <1>7 DEF Lists

-----------------------------------------------------------------------------
(* The rows of a listing, in its order                                     *)

Newest == {p \in Item \X Item : Older(p[2], stamp[p[1]], p[1])}
Oldest == {p \in Item \X Item : Older(p[1], stamp[p[2]], p[2])}

LEMMA RowsAreOrdered ==
  ASSUME stamp \in [Item -> Nat]
  PROVE  /\ \A i, j \in Item : <<i, j>> \in Newest <=> Older(j, stamp[i], i)
         /\ \A i, j \in Item : <<i, j>> \in Oldest <=> Older(i, stamp[j], j)
         /\ \A S \in SUBSET Item : Orders(S, Newest) /\ Orders(S, Oldest)
<1>1. \A i, j \in Item : <<i, j>> \in Newest <=> Older(j, stamp[i], i) BY DEF Newest
<1>2. \A i, j \in Item : <<i, j>> \in Oldest <=> Older(i, stamp[j], j) BY DEF Oldest
<1>3. \A i \in Item : i \in Int /\ stamp[i] \in Int BY ListingsAssumption
<1>4. \A i \in Item : ~Older(i, stamp[i], i) BY <1>3 DEF Older
<1>5. \A i, j \in Item : i # j => Older(i, stamp[j], j) \/ Older(j, stamp[i], i)
  BY <1>3 DEF Older
<1>6. \A i, j, k \in Item : Older(i, stamp[j], j) /\ Older(j, stamp[k], k) => Older(i, stamp[k], k)
  BY <1>3 DEF Older
<1>7. \A S \in SUBSET Item : Orders(S, Newest) BY <1>1, <1>4, <1>5, <1>6 DEF Orders
<1>8. \A S \in SUBSET Item : Orders(S, Oldest) BY <1>2, <1>4, <1>5, <1>6 DEF Orders
<1> QED BY <1>1, <1>2, <1>7, <1>8

LEMMA NewestFirstIs ==
  ASSUME stamp \in [Item -> Nat], NEW S \in SUBSET Item
  PROVE  IsFiniteSet(S) /\ Lists(NewestFirst(S), S, Newest)
<1>1. IsFiniteSet(S) BY ListingsAssumption, FS_Subset
<1>2. Orders(S, Newest) BY RowsAreOrdered
<1> DEFINE s == NewestFirst(S)
<1>3. \A i \in S : {j \in S : Older(i, stamp[j], j)} = {j \in S : <<j, i>> \in Newest}
  BY RowsAreOrdered
<1>4. ASSUME NEW n \in 1..Cardinality(S) PROVE s[n] \in S /\ RankIn(S, Newest, s[n]) = n - 1
  <2>1. PICK i \in S : RankIn(S, Newest, i) = n - 1 BY <1>1, <1>2, EveryRankIsTaken
  <2>2. Cardinality({j \in S : Older(i, stamp[j], j)}) = n - 1 BY <1>3, <2>1 DEF RankIn
  <2>3. s[n] = CHOOSE k \in S : Cardinality({j \in S : Older(k, stamp[j], j)}) = n - 1
    BY DEF NewestFirst
  <2>4. s[n] \in S /\ Cardinality({j \in S : Older(s[n], stamp[j], j)}) = n - 1
    <3> HIDE DEF s
    <3> QED BY <2>2, <2>3
  <2> HIDE DEF s
  <2> QED BY <1>3, <2>4 DEF RankIn
<1>5. s \in [1..Cardinality(S) -> S]
  <2> DEFINE nth(n) == CHOOSE k \in S : Cardinality({j \in S : Older(k, stamp[j], j)}) = n - 1
  <2>1. \A n \in 1..Cardinality(S) : s[n] = nth(n) BY DEF NewestFirst
  <2>2. \A n \in 1..Cardinality(S) : nth(n) \in S BY <1>4, <2>1
  <2>3. s = [n \in 1..Cardinality(S) |-> nth(n)] BY DEF NewestFirst
  <2> HIDE DEF nth, s
  <2> QED BY <2>2, <2>3
<1> HIDE DEF s
<1>6. Ranked(s, S, Newest) BY <1>4 DEF Ranked
<1>7. Lists(s, S, Newest) BY <1>1, <1>2, <1>5, <1>6, InOrderIs
<1> QED BY <1>1, <1>7 DEF s

LEMMA OldestFirstIs ==
  ASSUME stamp \in [Item -> Nat], NEW S \in SUBSET Item
  PROVE  IsFiniteSet(S) /\ Lists(OldestFirst(S), S, Oldest)
<1>1. IsFiniteSet(S) BY ListingsAssumption, FS_Subset
<1>2. Orders(S, Oldest) BY RowsAreOrdered
<1> DEFINE s == OldestFirst(S)
<1>3. \A i \in S : {j \in S : Older(j, stamp[i], i)} = {j \in S : <<j, i>> \in Oldest}
  BY RowsAreOrdered
<1>4. ASSUME NEW n \in 1..Cardinality(S) PROVE s[n] \in S /\ RankIn(S, Oldest, s[n]) = n - 1
  <2>1. PICK i \in S : RankIn(S, Oldest, i) = n - 1 BY <1>1, <1>2, EveryRankIsTaken
  <2>2. Cardinality({j \in S : Older(j, stamp[i], i)}) = n - 1 BY <1>3, <2>1 DEF RankIn
  <2>3. s[n] = CHOOSE k \in S : Cardinality({j \in S : Older(j, stamp[k], k)}) = n - 1
    BY DEF OldestFirst
  <2>4. s[n] \in S /\ Cardinality({j \in S : Older(j, stamp[s[n]], s[n])}) = n - 1
    <3> HIDE DEF s
    <3> QED BY <2>2, <2>3
  <2> HIDE DEF s
  <2> QED BY <1>3, <2>4 DEF RankIn
<1>5. s \in [1..Cardinality(S) -> S]
  <2> DEFINE nth(n) == CHOOSE k \in S : Cardinality({j \in S : Older(j, stamp[k], k)}) = n - 1
  <2>1. \A n \in 1..Cardinality(S) : s[n] = nth(n) BY DEF OldestFirst
  <2>2. \A n \in 1..Cardinality(S) : nth(n) \in S BY <1>4, <2>1
  <2>3. s = [n \in 1..Cardinality(S) |-> nth(n)] BY DEF OldestFirst
  <2> HIDE DEF nth, s
  <2> QED BY <2>2, <2>3
<1> HIDE DEF s
<1>6. Ranked(s, S, Oldest) BY <1>4 DEF Ranked
<1>7. Lists(s, S, Oldest) BY <1>1, <1>2, <1>5, <1>6, InOrderIs
<1> QED BY <1>1, <1>7 DEF s

-----------------------------------------------------------------------------
(* Pages                                                                   *)

LEMMA LimitIs ==
  ASSUME NEW S, NEW s \in Seq(S), NEW n \in Nat
  PROVE  /\ Limit(s, n) \in Seq(S)
         /\ Len(Limit(s, n)) = IF n < Len(s) THEN n ELSE Len(s)
         /\ \A m \in 1..Len(Limit(s, n)) : m \in 1..Len(s) /\ Limit(s, n)[m] = s[m]
  BY DEF Limit

(* What a page of n rows is of S in the order R: rows in order, all of     *)
(* them without a cursor, and else all but some that come after the last   *)
Row(p) == p.rows[Len(p.rows)]
On(i, s) == \E n \in 1..Len(s) : s[n] = i
GoodPage(p, S, R) ==
  /\ p.rows \in Seq(S)
  /\ \A m, n \in 1..Len(p.rows) : m < n => <<p.rows[m], p.rows[n]>> \in R
  /\ \/ p.next = {} /\ \A i \in S : On(i, p.rows)
     \/ /\ Len(p.rows) > 0 /\ p.next = CursorAt(Row(p))
        /\ \A i \in S : On(i, p.rows) \/ <<Row(p), i>> \in R

(* The first n rows, whatever the page says of the rest *)
LEMMA FirstRows ==
  ASSUME NEW S, NEW R, NEW s, Lists(s, S, R), NEW n \in Nat \ {0}
  PROVE  LET rows == Limit(s, n)
         IN /\ rows \in Seq(S)
            /\ \A m, k \in 1..Len(rows) : m < k => <<rows[m], rows[k]>> \in R
            /\ Len(s) <= n => Len(rows) = Len(s) /\ \A i \in S : On(i, rows)
            /\ Len(s) >= n => /\ Len(rows) = n /\ rows[n] = s[n]
                              /\ \A i \in S : On(i, rows) \/ <<rows[n], i>> \in R
<1>1. PICK rows : rows = Limit(s, n) OBVIOUS
<1>2. s \in Seq(S) /\ Len(s) \in Nat BY DEF Lists
<1>3. rows \in Seq(S) /\ Len(rows) = (IF n < Len(s) THEN n ELSE Len(s)) BY <1>1, <1>2, LimitIs
<1>4. \A m \in 1..Len(rows) : m \in 1..Len(s) /\ rows[m] = s[m] BY <1>1, <1>2, LimitIs
<1>5. \A m, k \in 1..Len(rows) : m < k => <<rows[m], rows[k]>> \in R BY <1>4 DEF Lists
<1>6. ASSUME Len(s) <= n PROVE Len(rows) = Len(s) /\ \A i \in S : On(i, rows)
  <2>1. Len(rows) = Len(s) BY <1>2, <1>3, <1>6
  <2> QED BY <1>4, <2>1 DEF On, Lists
<1>7. ASSUME Len(s) >= n
      PROVE  /\ Len(rows) = n /\ rows[n] = s[n]
             /\ \A i \in S : On(i, rows) \/ <<rows[n], i>> \in R
  <2>1. Len(rows) = n BY <1>2, <1>3, <1>7
  <2>2. rows[n] = s[n] BY <1>4, <2>1
  <2>3. ASSUME NEW i \in S PROVE On(i, rows) \/ <<rows[n], i>> \in R
    <3>1. PICK k \in 1..Len(s) : s[k] = i BY DEF Lists
    <3>2. CASE k <= n
      <4>1. k \in 1..Len(rows) BY <1>2, <2>1, <3>2
      <4> QED BY <1>4, <3>1, <4>1 DEF On
    <3>3. CASE n < k
      <4>1. n \in 1..Len(s) BY <1>2, <1>7
      <4> QED BY <2>2, <3>1, <3>3, <4>1 DEF Lists
    <3> QED BY <1>2, <3>2, <3>3
  <2> QED BY <2>1, <2>2, <2>3
<1> QED BY <1>1, <1>3, <1>5, <1>6, <1>7

(* One row more tells of the rest, or a page that is full promises one. *)
LEMMA PagesAreGood ==
  ASSUME NEW S, NEW R, NEW s, Lists(s, S, R), NEW n \in Nat \ {0}
  PROVE  /\ GoodPage(PageOf(Limit(s, n + 1), n), S, R)
         /\ Len(s) <= n => PageOf(Limit(s, n + 1), n).next = {}
         /\ LET rows == Limit(s, n)
            IN GoodPage([rows |-> rows, next |-> IF Len(rows) = n THEN CursorAt(rows[n]) ELSE {}],
                        S, R)
<1>1. PICK rows : rows = Limit(s, n) OBVIOUS
<1>2. PICK more : more = Limit(s, n + 1) OBVIOUS
<1>3. s \in Seq(S) /\ Len(s) \in Nat BY DEF Lists
<1>4. more \in Seq(S) /\ Len(more) = (IF n + 1 < Len(s) THEN n + 1 ELSE Len(s))
      /\ \A m \in 1..Len(more) : m \in 1..Len(s) /\ more[m] = s[m]
  <2>1. n + 1 \in Nat OBVIOUS
  <2> QED BY <1>2, <1>3, <2>1, LimitIs
<1>5. rows \in Seq(S) /\ Len(rows) = (IF n < Len(s) THEN n ELSE Len(s))
      /\ \A m \in 1..Len(rows) : rows[m] = s[m]
  BY <1>1, <1>3, LimitIs
<1>6. Limit(more, n) = rows
  <2>1. PICK t : t = Limit(more, n) OBVIOUS
  <2>2. t \in Seq(S) /\ Len(t) = (IF n < Len(more) THEN n ELSE Len(more))
        /\ \A m \in 1..Len(t) : m \in 1..Len(more) /\ t[m] = more[m]
    BY <1>4, <2>1, LimitIs
  <2>3. Len(t) = Len(rows) BY <1>3, <1>4, <1>5, <2>2
  <2>4. \A m \in 1..Len(t) : t[m] = rows[m] BY <1>4, <1>5, <2>2, <2>3
  <2> QED BY <1>5, <2>1, <2>2, <2>3, <2>4, SeqEqual
<1>7. \A m, k \in 1..Len(rows) : m < k => <<rows[m], rows[k]>> \in R BY <1>1, FirstRows
<1>8. Len(s) <= n => \A i \in S : On(i, rows) BY <1>1, FirstRows
<1>9. Len(s) >= n => Len(rows) = n /\ rows[n] = s[n] /\ \A i \in S : On(i, rows) \/ <<rows[n], i>> \in R
  BY <1>1, FirstRows
<1>10. ASSUME NEW p, p.rows = rows,
              \/ p.next = {} /\ Len(s) <= n
              \/ p.next = CursorAt(rows[n]) /\ Len(s) >= n
       PROVE  GoodPage(p, S, R)
  <2>1. CASE p.next = {} /\ Len(s) <= n BY <1>5, <1>7, <1>8, <1>10, <2>1 DEF GoodPage
  <2>2. CASE p.next = CursorAt(rows[n]) /\ Len(s) >= n
    <3>1. Len(p.rows) > 0 /\ Row(p) = rows[n] BY <1>9, <1>10, <2>2 DEF Row
    <3> QED BY <1>5, <1>7, <1>9, <1>10, <2>2, <3>1 DEF GoodPage
  <2> QED BY <1>10, <2>1, <2>2
<1>11. /\ GoodPage(PageOf(more, n), S, R)
       /\ Len(s) <= n => PageOf(more, n).next = {}
  <2>1. PICK p : p = PageOf(more, n) OBVIOUS
  <2>2. p.rows = rows /\ p.next = IF Len(more) > n THEN CursorAt(more[n]) ELSE {}
    BY <1>6, <2>1 DEF PageOf
  <2>3. CASE Len(more) > n
    <3>1. Len(s) > n BY <1>3, <1>4, <2>3
    <3>2. more[n] = rows[n] BY <1>3, <1>4, <1>9, <2>3, <3>1
    <3> QED BY <1>3, <1>10, <2>1, <2>2, <2>3, <3>1, <3>2
  <2>4. CASE ~(Len(more) > n)
    <3>1. Len(s) <= n BY <1>3, <1>4, <2>4
    <3> QED BY <1>10, <2>1, <2>2, <2>4, <3>1
  <2> QED BY <2>3, <2>4
<1>12. GoodPage([rows |-> rows, next |-> IF Len(rows) = n THEN CursorAt(rows[n]) ELSE {}], S, R)
  <2>1. PICK p : p = [rows |-> rows, next |-> IF Len(rows) = n THEN CursorAt(rows[n]) ELSE {}]
    OBVIOUS
  <2>2. p.rows = rows /\ p.next = IF Len(rows) = n THEN CursorAt(rows[n]) ELSE {} BY <2>1
  <2>3. CASE Len(rows) = n
    <3>1. Len(s) >= n BY <1>3, <1>5, <2>3
    <3> QED BY <1>10, <2>1, <2>2, <2>3, <3>1
  <2>4. CASE Len(rows) # n
    <3>1. Len(s) <= n BY <1>3, <1>5, <2>4
    <3> QED BY <1>10, <2>1, <2>2, <2>4, <3>1
  <2> QED BY <2>3, <2>4
<1> QED BY <1>1, <1>2, <1>11, <1>12

-----------------------------------------------------------------------------
(* Reading to the end                                                      *)

(* Where the services keep their promise: no two deliveries of a webhook   *)
(* have one time, since of the cursor only that is used, and a board has   *)
(* no more tasks than a page, since the cursor of a task is never decoded. *)
ReadingsInScope ==
  \A x \in Readings :
     /\ x.what = "deliveries" => ~x.ties
     /\ x.what = "tasks" => \A asked \in x.limits : Cardinality(Item) <= Clamped(asked)

ListingTypes ==
  /\ reading \in Readings /\ stamp \in [Item -> Nat]
  /\ there \subseteq Item /\ stayed \subseteq there
  /\ listed \in Seq(Item)

NoTies == \A i, j \in Item : stamp[i] = stamp[j] => i = j

(* A cursor is that of the row sent last, and the rows still to come are   *)
(* older than it.                                                          *)
Ahead(i) == reader = "asks" /\ \A c \in cursor : Older(i, c.at, c.id)
NewestSent ==
  /\ \A a, b \in 1..Len(listed) : a < b => Older(listed[b], stamp[listed[a]], listed[a])
  /\ cursor = {} \/ (Len(listed) > 0 /\ cursor = CursorAt(listed[Len(listed)]))
  /\ cursor = {} /\ reader = "asks" => Len(listed) = 0
  /\ \A i \in stayed : On(i, listed) \/ Ahead(i)

(* A board is sent with the first page. *)
BoardSent ==
  /\ \/ reader = "asks" /\ Len(listed) = 0 /\ cursor = {}
     \/ reader = "done" /\ \A i \in stayed : On(i, listed)
  /\ \A a, b \in 1..Len(listed) :
       a < b /\ {listed[a], listed[b]} \subseteq stayed =>
         Older(listed[a], stamp[listed[b]], listed[b])

ListingInv ==
  /\ ListingTypes
  /\ reading.what = "deliveries" => NoTies
  /\ IF reading.what = "tasks" THEN BoardSent ELSE NewestSent

LEMMA ListedOnceHolds ==
  ASSUME ListingInv
  PROVE  ListedOnce
<1> USE DEF ListingInv
<1>1. CASE reading.what = "tasks" BY <1>1 DEF BoardSent, ListedOnce, On
<1>2. CASE reading.what # "tasks" BY <1>2 DEF NewestSent, Ahead, ListedOnce, On
<1> QED BY <1>1, <1>2

LEMMA ClampedIs ==
  ASSUME NEW asked \in Int
  PROVE  Clamped(asked) \in Nat \ {0}
  BY ListingsAssumption DEF Clamped

(* A page of what is ahead, newest first, is sent. *)
LEMMA NewestAnswered ==
  ASSUME ListingInv, reading.what # "tasks", reader = "asks",
         NEW S, S = {i \in there : Ahead(i)},
         NEW p, GoodPage(p, S, Newest),
         Answer(p, IF p.next = {} THEN "done" ELSE "asks")
  PROVE  ListingInv'
<1> USE DEF ListingInv
<1>1. PICK rows : rows = p.rows OBVIOUS
<1>2. PICK L : L = listed OBVIOUS
<1>3. listed' = L \o rows BY <1>1, <1>2 DEF Answer
<1>4. S \subseteq Item BY DEF ListingTypes
<1>5. rows \in Seq(S) /\ rows \in Seq(Item) /\ L \in Seq(Item)
  BY <1>1, <1>2, <1>4 DEF GoodPage, ListingTypes
<1>6. PICK K : K = L \o rows OBVIOUS
<1>7. /\ K \in Seq(Item) /\ Len(K) = Len(L) + Len(rows) /\ Len(L) \in Nat /\ Len(rows) \in Nat
      /\ \A n \in 1..Len(L) : K[n] = L[n]
      /\ \A n \in 1..Len(rows) : K[Len(L) + n] = rows[n]
  BY <1>5, <1>6
<1>8. UNCHANGED <<reading, there, gone, stamp, stayed, changes>> /\ cursor' = p.next
      /\ reader' = (IF p.next = {} THEN "done" ELSE "asks")
  BY DEF Answer
<1>9. ListingTypes' BY <1>3, <1>6, <1>7, <1>8 DEF ListingTypes
<1>10. stamp \in [Item -> Nat] /\ \A i \in Item : i \in Int /\ stamp[i] \in Int
  BY ListingsAssumption DEF ListingTypes
<1>11. \A i, j \in Item : <<i, j>> \in Newest <=> Older(j, stamp[i], i) BY <1>10, RowsAreOrdered
<1>12. \A i, j, k \in Item :
         Older(i, stamp[j], j) /\ Older(j, stamp[k], k) => Older(i, stamp[k], k)
  BY <1>10 DEF Older
<1>13. \A m, n \in 1..Len(rows) : m < n => Older(rows[n], stamp[rows[m]], rows[m])
  <2>1. \A n \in 1..Len(rows) : rows[n] \in Item BY <1>5
  <2>2. \A m, n \in 1..Len(rows) : m < n => <<rows[m], rows[n]>> \in Newest
    BY <1>1 DEF GoodPage
  <2> QED BY <1>11, <2>1, <2>2
<1>14. \A a, b \in 1..Len(L) : a < b => Older(L[b], stamp[L[a]], L[a])
  BY <1>2 DEF NewestSent
<1>15. ASSUME NEW a \in 1..Len(L), NEW m \in 1..Len(rows)
       PROVE  Older(rows[m], stamp[L[a]], L[a])
  <2>1. PICK last : last = L[Len(L)] OBVIOUS
  <2>2. Len(L) > 0 /\ last \in Item /\ L[a] \in Item /\ rows[m] \in Item
    BY <1>5, <1>7, <2>1
  <2>3. cursor = CursorAt(last) BY <1>2, <2>1, <2>2 DEF NewestSent
  <2>4. Older(rows[m], stamp[last], last)
    <3>1. rows[m] \in S BY <1>5
    <3> QED BY <2>3, <3>1 DEF Ahead, CursorAt
  <2>5. CASE a = Len(L) BY <2>1, <2>4, <2>5
  <2>6. CASE a < Len(L)
    <3>1. Older(last, stamp[L[a]], L[a]) BY <1>7, <1>14, <2>1, <2>2, <2>6
    <3> QED BY <1>12, <2>2, <2>4, <3>1
  <2> QED BY <1>7, <2>5, <2>6
<1>16. ASSUME NEW a \in 1..Len(K), NEW b \in 1..Len(K), a < b
       PROVE  Older(K[b], stamp[K[a]], K[a])
  <2>1. CASE b <= Len(L)
    <3>1. a \in 1..Len(L) /\ b \in 1..Len(L) BY <1>7, <1>16, <2>1
    <3>2. K[a] = L[a] /\ K[b] = L[b] BY <1>7, <3>1
    <3> QED BY <1>14, <1>16, <3>1, <3>2
  <2>2. CASE a <= Len(L) /\ Len(L) < b
    <3>1. PICK m : m = b - Len(L) OBVIOUS
    <3>2. a \in 1..Len(L) /\ m \in 1..Len(rows) /\ Len(L) + m = b BY <1>7, <2>2, <3>1
    <3>3. K[a] = L[a] /\ K[b] = rows[m] BY <1>7, <3>2
    <3> QED BY <1>15, <3>2, <3>3
  <2>3. CASE Len(L) < a
    <3>1. PICK m : m = b - Len(L) OBVIOUS
    <3>2. PICK k : k = a - Len(L) OBVIOUS
    <3>3. /\ k \in 1..Len(rows) /\ m \in 1..Len(rows) /\ k < m
          /\ Len(L) + m = b /\ Len(L) + k = a
      BY <1>7, <1>16, <2>3, <3>1, <3>2
    <3>4. K[a] = rows[k] /\ K[b] = rows[m] BY <1>7, <3>3
    <3> QED BY <1>13, <3>3, <3>4
  <2> QED BY <1>7, <2>1, <2>2, <2>3
<1>17. \A i \in Item : On(i, L) \/ On(i, rows) => On(i, K)
  <2>1. \A n \in 1..Len(L) : n \in 1..Len(K) BY <1>7
  <2>2. \A n \in 1..Len(rows) : Len(L) + n \in 1..Len(K) BY <1>7
  <2> QED BY <1>7, <2>1, <2>2 DEF On
<1>18. cursor' = {} \/ (Len(K) > 0 /\ cursor' = CursorAt(K[Len(K)])')
  <2>1. CASE p.next = {} BY <1>8, <2>1
  <2>2. CASE Len(rows) > 0 /\ p.next = CursorAt(Row(p))
    <3>1. Len(rows) \in 1..Len(rows) /\ Len(K) > 0 BY <1>7, <2>2
    <3>2. K[Len(K)] = rows[Len(rows)] BY <1>7, <3>1
    <3>3. Row(p) = K[Len(K)] BY <1>1, <3>2 DEF Row
    <3> QED BY <1>8, <2>2, <3>1, <3>3 DEF CursorAt
  <2> QED BY <1>1, <2>1, <2>2 DEF GoodPage
<1>19. ASSUME NEW i \in stayed' PROVE On(i, K) \/ Ahead(i)'
  <2>1. i \in stayed /\ i \in there /\ i \in Item BY <1>8, <1>19 DEF ListingTypes
  <2>2. CASE On(i, L) BY <1>17, <2>1, <2>2
  <2>3. CASE Ahead(i)
    <3>1. i \in S BY <2>1, <2>3
    <3>2. CASE On(i, rows) BY <1>17, <2>1, <3>2
    <3>3. CASE ~On(i, rows)
      <4>1. Len(rows) > 0 /\ p.next = CursorAt(Row(p)) /\ <<Row(p), i>> \in Newest
        BY <1>1, <3>1, <3>3 DEF GoodPage
      <4>2. Row(p) \in Item BY <1>1, <1>5, <1>7, <4>1 DEF Row
      <4>3. Older(i, stamp[Row(p)], Row(p)) BY <1>11, <2>1, <4>1, <4>2
      <4>4. p.next # {} /\ reader' = "asks" BY <1>8, <4>1 DEF CursorAt
      <4>5. \A c \in cursor' : Older(i, c.at, c.id) BY <1>8, <4>1, <4>3 DEF CursorAt
      <4> QED BY <1>8, <4>4, <4>5 DEF Ahead, Older
    <3> QED BY <3>2, <3>3
  <2> QED BY <1>2, <2>1, <2>2, <2>3 DEF NewestSent
<1>20. NewestSent'
  <2>1. listed' = K BY <1>3, <1>6
  <2>2. (\A a, b \in 1..Len(listed) :
           a < b => Older(listed[b], stamp[listed[a]], listed[a]))'
    BY <1>8, <1>16, <2>1 DEF Older
  <2>3. (\A i \in stayed : On(i, listed) \/ Ahead(i))' BY <1>19, <2>1
  <2>4. (cursor = {} /\ reader = "asks" => Len(listed) = 0)' BY <1>8
  <2>5. (cursor = {} \/ (Len(listed) > 0 /\ cursor = CursorAt(listed[Len(listed)])))'
    BY <1>18, <2>1 DEF CursorAt
  <2> QED BY <2>2, <2>3, <2>4, <2>5 DEF NewestSent
<1>21. (reading.what = "deliveries" => NoTies)' BY <1>8 DEF NoTies
<1> QED BY <1>8, <1>9, <1>20, <1>21

LEMMA NewestIsSent ==
  ASSUME ListingInv, ReadingsInScope, ListDocuments \/ ListNotifications \/ ListDeliveries
  PROVE  ListingInv'
<1> DEFINE S == {i \in there : Ahead(i)}
<1>1. reader = "asks" /\ reading.what \in {"documents", "notifications", "deliveries"}
  BY DEF ListDocuments, ListNotifications, ListDeliveries, Serve
<1>2. reading \in Readings /\ reading.limits \subseteq Int /\ stamp \in [Item -> Nat]
      /\ there \subseteq Item
  BY ListingsAssumption DEF ListingInv, ListingTypes
<1>3. NewestSent BY <1>1 DEF ListingInv
<1>4. PICK R : R = S OBVIOUS
<1>5. R \in SUBSET Item BY <1>2, <1>4
<1>6. Lists(NewestFirst(R), R, Newest) BY <1>2, <1>5, NewestFirstIs
<1>7. PICK s : s = NewestFirst(R) OBVIOUS
<1>8. Lists(s, R, Newest) BY <1>6, <1>7
<1>9. {i \in there : \A c \in cursor : Older(i, c.at, c.id)} = R BY <1>1, <1>4 DEF Ahead
<1>10. ASSUME NEW p, GoodPage(p, R, Newest),
              Answer(p, IF p.next = {} THEN "done" ELSE "asks")
       PROVE  ListingInv'
  BY <1>1, <1>4, <1>10, NewestAnswered
<1>11. CASE ListDocuments
  <2>1. PICK asked \in reading.limits :
          Answer(DocumentPage(asked), IF DocumentPage(asked).next = {} THEN "done" ELSE "asks")
    BY <1>11 DEF ListDocuments, Serve
  <2>2. PICK n : n = Clamped(asked) OBVIOUS
  <2>3. n \in Nat \ {0} BY <1>2, <2>2, ClampedIs
  <2>4. DocumentPage(asked) = PageOf(Limit(s, n + 1), n)
    BY <1>7, <1>9, <2>2 DEF DocumentPage, ListDocumentsByProject
  <2>5. GoodPage(DocumentPage(asked), R, Newest) BY <1>8, <2>3, <2>4, PagesAreGood
  <2> QED BY <1>10, <2>1, <2>5
<1>12. CASE ListNotifications
  <2>1. PICK asked \in reading.limits :
          Answer(NotificationPage(asked),
                 IF NotificationPage(asked).next = {} THEN "done" ELSE "asks")
    BY <1>12 DEF ListNotifications, Serve
  <2>2. PICK n : n = Clamped(asked) OBVIOUS
  <2>3. n \in Nat \ {0} BY <1>2, <2>2, ClampedIs
  <2>4. NotificationPage(asked) = PageOf(Limit(s, n + 1), n)
    BY <1>7, <1>9, <2>2 DEF NotificationPage, NotificationsOfUser
  <2>5. GoodPage(NotificationPage(asked), R, Newest) BY <1>8, <2>3, <2>4, PagesAreGood
  <2> QED BY <1>10, <2>1, <2>5
<1>13. CASE ListDeliveries
  <2>1. PICK asked \in reading.limits :
          Answer(DeliveryPage(asked), IF DeliveryPage(asked).next = {} THEN "done" ELSE "asks")
    BY <1>13 DEF ListDeliveries, Serve
  <2>2. PICK n : n = IF asked <= 0 THEN DefaultLimit ELSE IF asked > MaxLimit THEN MaxLimit ELSE asked
    OBVIOUS
  <2>3. n \in Nat \ {0} BY <1>2, <2>1, <2>2, ListingsAssumption
  <2>4. NoTies BY <1>13 DEF ListDeliveries, Serve, ListingInv
  <2>5. {i \in there : \A at \in CursorTime : stamp[i] < at} = R
    <3>1. CASE cursor = {}
      <4>1. CursorTime = {} BY <3>1 DEF CursorTime
      <4> QED BY <1>9, <3>1, <4>1
    <3>2. CASE Len(listed) > 0 /\ cursor = CursorAt(listed[Len(listed)])
      <4>1. PICK last : last = listed[Len(listed)] OBVIOUS
      <4>2. last \in Item BY <3>2, <4>1 DEF ListingInv, ListingTypes
      <4>3. CursorTime = {stamp[last]} BY <3>2, <4>1 DEF CursorTime, CursorAt
      <4>4. \A i \in there : Older(i, stamp[last], last) <=> stamp[i] < stamp[last]
        <5>1. \A i \in Item : i \in Int /\ stamp[i] \in Int BY <1>2, ListingsAssumption
        <5> QED BY <1>2, <2>4, <4>2, <5>1 DEF NoTies, Older
      <4>5. \A i \in there : i \in R <=> Older(i, stamp[last], last)
        BY <1>9, <3>2, <4>1 DEF CursorAt
      <4> QED BY <1>4, <4>3, <4>4, <4>5
    <3> QED BY <1>3, <3>1, <3>2 DEF NewestSent
  <2>6. PICK rows : rows = Limit(s, n) OBVIOUS
  <2>7. DeliveryPage(asked) = [rows |-> rows, next |-> IF Len(rows) = n THEN CursorAt(rows[n]) ELSE {}]
    BY <1>7, <2>2, <2>5, <2>6 DEF DeliveryPage, ListDeliveriesByWebhook
  <2>8. GoodPage(DeliveryPage(asked), R, Newest) BY <1>8, <2>3, <2>6, <2>7, PagesAreGood
  <2> QED BY <1>10, <2>1, <2>8
<1> QED BY <1>11, <1>12, <1>13

LEMMA BoardIsSent ==
  ASSUME ListingInv, ReadingsInScope, ListTasks
  PROVE  ListingInv'
<1>1. reader = "asks" /\ reading.what = "tasks" BY DEF ListTasks
<1>2. reading \in Readings /\ reading.limits \subseteq Int /\ stamp \in [Item -> Nat]
      /\ there \subseteq Item /\ stayed \subseteq there /\ listed \in Seq(Item)
  BY ListingsAssumption DEF ListingInv, ListingTypes
<1>3. BoardSent BY <1>1 DEF ListingInv
<1>4. Len(listed) = 0 /\ cursor = {} BY <1>1, <1>3 DEF BoardSent
<1>5. PICK asked \in reading.limits :
        Answer(TaskPage(asked),
               IF TaskPage(asked).next = {} \/ TaskPage(asked).rows = << >> THEN "done"
               ELSE IF Len(listed \o TaskPage(asked).rows) >= MaxListed THEN "cut" ELSE "asks")
  BY DEF ListTasks
<1>6. PICK n : n = Clamped(asked) OBVIOUS
<1>7. n \in Nat \ {0} BY <1>2, <1>6, ClampedIs
<1>8. PICK S : S = there OBVIOUS
<1>9. S \in SUBSET Item BY <1>2, <1>8
<1>10. PICK s : s = OldestFirst(S) OBVIOUS
<1>11. Lists(s, S, Oldest) /\ IsFiniteSet(S) BY <1>2, <1>9, <1>10, OldestFirstIs
<1>12. {i \in there : \A place \in CursorText : stamp[i] > place} = S
  <2>1. CursorText = {} BY <1>4 DEF CursorText
  <2> QED BY <1>8, <2>1
<1>13. PICK p : p = TaskPage(asked) OBVIOUS
<1>14. p = PageOf(Limit(s, n + 1), n)
  BY <1>6, <1>10, <1>12, <1>13 DEF TaskPage, ListTasksByBoard
<1>15. GoodPage(p, S, Oldest) BY <1>7, <1>11, <1>14, PagesAreGood
<1>16. Len(s) <= n
  <2>1. Cardinality(Item) <= n BY <1>1, <1>2, <1>6 DEF ReadingsInScope
  <2>2. Cardinality(S) <= Cardinality(Item) BY <1>9, ListingsAssumption, FS_Subset
  <2>3. Cardinality(S) \in Nat /\ Cardinality(Item) \in Nat
    BY <1>11, ListingsAssumption, FS_CardinalityType
  <2> QED BY <1>7, <1>11, <2>1, <2>2, <2>3 DEF Lists
<1>17. p.next = {} BY <1>7, <1>11, <1>14, <1>16, PagesAreGood
<1>18. UNCHANGED <<reading, there, gone, stamp, stayed, changes>> /\ reader' = "done"
       /\ listed' = listed \o p.rows
  BY <1>5, <1>13, <1>17 DEF Answer
<1>19. PICK rows : rows = p.rows OBVIOUS
<1>20. rows \in Seq(Item) BY <1>9, <1>15, <1>19 DEF GoodPage
<1>21. listed' = rows
  <2>1. listed = << >> BY <1>2, <1>4, EmptySeq
  <2> QED BY <1>18, <1>19, <1>20, <2>1
<1>22. \A i \in S : On(i, rows) BY <1>15, <1>17, <1>19 DEF GoodPage, CursorAt
<1>23. \A a, b \in 1..Len(rows) : a < b => Older(rows[a], stamp[rows[b]], rows[b])
  <2>1. \A m \in 1..Len(rows) : rows[m] \in Item BY <1>20
  <2>2. \A a, b \in 1..Len(rows) : a < b => <<rows[a], rows[b]>> \in Oldest
    BY <1>15, <1>19 DEF GoodPage
  <2> QED BY <1>2, <2>1, <2>2, RowsAreOrdered
<1>24. (\A i \in stayed : On(i, listed))' BY <1>2, <1>8, <1>18, <1>21, <1>22
<1>25. (\A a, b \in 1..Len(listed) :
          a < b => Older(listed[a], stamp[listed[b]], listed[b]))'
  BY <1>18, <1>21, <1>23 DEF Older
<1>26. BoardSent' BY <1>18, <1>24, <1>25 DEF BoardSent
<1>27. ListingTypes' BY <1>2, <1>18, <1>20, <1>21 DEF ListingTypes
<1> QED BY <1>1, <1>18, <1>26, <1>27 DEF ListingInv

(* Rows that come, go and move leave what was sent as it is. *)
LEMMA RowsMayChange ==
  ASSUME ListingInv, NEW i \in Item, Appears(i) \/ Leaves(i) \/ Moves(i)
  PROVE  ListingInv'
<1> USE DEF ListingInv
<1>1. reading' = reading /\ reader' = reader /\ cursor' = cursor /\ listed' = listed
  BY DEF Appears, Leaves, Moves, OnlyRows
<1>2. stayed' \subseteq stayed /\ stayed' \subseteq there' /\ there' \subseteq Item
  BY DEF Appears, Leaves, Moves, ListingTypes
<1>3. stamp' \in [Item -> Nat] /\ \A j \in stayed' : stamp'[j] = stamp[j]
  BY ListingsAssumption DEF Appears, Leaves, Moves, ListingTypes
<1>4. reading.what # "tasks" => stamp' = stamp BY DEF Appears, Leaves, Moves
<1>5. ListingTypes' BY <1>1, <1>2, <1>3 DEF ListingTypes
<1>6. CASE reading.what = "tasks"
  <2>1. BoardSent' BY <1>1, <1>2, <1>3, <1>6 DEF BoardSent, Older
  <2> QED BY <1>1, <1>5, <1>6, <2>1
<1>7. CASE reading.what # "tasks"
  <2>1. NewestSent' BY <1>1, <1>2, <1>4, <1>7 DEF NewestSent, Ahead, Older, CursorAt
  <2>2. (reading.what = "deliveries" => NoTies)' BY <1>1, <1>4, <1>7 DEF NoTies
  <2> QED BY <1>1, <1>5, <1>7, <2>1, <2>2
<1> QED BY <1>6, <1>7

LEMMA ListingBegins ==
  ASSUME ListingInit(Readings), ReadingsInScope
  PROVE  ListingInv
<1> USE DEF ListingInit
<1>1. stamp \in [Item -> Nat] BY ListingsAssumption
<1>2. ListingTypes BY <1>1, EmptySeq DEF ListingTypes
<1>3. Len(listed) = 0 /\ cursor = {} /\ reader = "asks" OBVIOUS
<1>4. BoardSent BY <1>3 DEF BoardSent
<1>5. NewestSent BY <1>3 DEF NewestSent, Ahead
<1>6. reading.what = "deliveries" => NoTies BY DEF ReadingsInScope, NoTies
<1> QED BY <1>2, <1>4, <1>5, <1>6 DEF ListingInv

(* For every number of rows, every page size and every change of the rows  *)
(* between two pages: who reads the documents of a project, the            *)
(* notifications of a user, the deliveries of a webhook or the tasks of a  *)
(* board to the end has been sent each row that stayed, once, in order.    *)
THEOREM EachIsListedOnce ==
  ASSUME ReadingsInScope
  PROVE  ListingSpec => []ListedOnce
<1>1. ListingInit(Readings) => ListingInv BY ListingBegins
<1>2. ListingInv /\ [ListingNext]_listingVars => ListingInv'
  <2> SUFFICES ASSUME ListingInv, [ListingNext]_listingVars PROVE ListingInv'
    OBVIOUS
  <2>1. ASSUME NEW i \in Item, Appears(i) \/ Leaves(i) \/ Moves(i) PROVE ListingInv'
    BY <2>1, RowsMayChange
  <2>2. CASE ListDocuments \/ ListNotifications \/ ListDeliveries BY <2>2, NewestIsSent
  <2>3. CASE ListTasks BY <2>3, BoardIsSent
  <2>4. CASE UNCHANGED listingVars
    BY <2>4 DEF listingVars, ListingInv, ListingTypes, NoTies, NewestSent, BoardSent, Ahead, Older,
                CursorAt, On
  <2> QED BY <2>1, <2>2, <2>3, <2>4 DEF ListingNext
<1>3. ListingInv => ListedOnce BY ListedOnceHolds
<1> QED BY <1>1, <1>2, <1>3, PTL DEF ListingSpec
===============================================================================
