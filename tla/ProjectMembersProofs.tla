-------------------------- MODULE ProjectMembersProofs -------------------------
(***************************************************************************)
(* What TLAPS proves of ProjectMembers, for any users, any number of calls *)
(* and of faults: its types and, if one request runs at a time and until   *)
(* the first account is deleted, that the project keeps an owner and that  *)
(* the cache is stale only while an eviction is due.  TLC shows that two   *)
(* requests, and deleted accounts, break the last two.                     *)
(***************************************************************************)
EXTENDS ProjectMembers, TLAPS

(* The next step of a request, whichever it is, keeps pc and call typed. *)
LEMMA GotoType ==
  ASSUME TypeOK, NEW r \in Request, NEW label \in Label, Goto(r, label)
  PROVE  /\ pc' \in [Request -> Label]
         /\ call' \in [Request -> Gets \cup Changes \cup {NoCall}]
  BY DEF TypeOK, Goto

LEMMA BeginType ==
  ASSUME TypeOK, NEW r \in Request, NEW c \in Gets \cup Changes, NEW label \in Label,
         Begin(r, c, label)
  PROVE  /\ pc' \in [Request -> Label]
         /\ call' \in [Request -> Gets \cup Changes \cup {NoCall}]
  BY DEF TypeOK, Begin

LEMMA CallUsers ==
  ASSUME TypeOK, NEW r \in Request
  PROVE  /\ call[r].by \in User
         /\ call[r].user \in User
         /\ call[r].role \in Role
  BY ConstantsAssumption DEF TypeOK, Gets, Changes, Calls, NoCall, Role

LEMMA FaultType ==
  ASSUME TypeOK, Fault
  PROVE  faults' \in 0..MaxFaults
  BY ConstantsAssumption DEF TypeOK, Fault

LEMMA TypeInit == Init => TypeOK
<1> SUFFICES ASSUME Init PROVE TypeOK
  OBVIOUS
<1>1. member \in [User -> Role \cup {NoRole}]
  BY DEF Init, Role
<1>2. cache \in [User -> Role \cup {NoRole, Absent}]
  BY DEF Init
<1>3. pc \in [Request -> Label]
  BY DEF Init, Label
<1>4. calls \in 0..MaxCalls /\ faults \in 0..MaxFaults
  BY ConstantsAssumption DEF Init
<1> QED BY <1>1, <1>2, <1>3, <1>4 DEF Init, TypeOK

(* Requests: where each may go is a label, what it writes is typed. *)
LEMMA TypeStep ==
  ASSUME TypeOK, NEW r \in Request, Get(r) \/ Change(r) \/ Step(r) \/ CutShort(r)
  PROVE  TypeOK'
<1> USE CallUsers DEF Label
<1>1. CASE Get(r)
  <2>1. "cache" \in Label OBVIOUS
  <2>2. PICK c \in Gets : Begin(r, c, "cache") BY <1>1 DEF Get
  <2> QED BY <1>1, <2>1, <2>2, BeginType DEF Get, TypeOK
<1>2. CASE Change(r)
  <2>1. PICK c \in Changes :
          Begin(r, c, IF c.op = "remove" /\ c.by = c.user THEN "self" ELSE "cache")
    BY <1>2 DEF Change
  <2>2. (IF c.op = "remove" /\ c.by = c.user THEN "self" ELSE "cache") \in Label OBVIOUS
  <2>3. calls' \in 0..MaxCalls BY <1>2, ConstantsAssumption DEF Change, TypeOK
  <2> QED BY <1>2, <2>1, <2>2, <2>3, BeginType DEF Change, TypeOK
<1>3. ASSUME NEW role, Decide(r, role)
      PROVE  /\ pc' \in [Request -> Label]
             /\ call' \in [Request -> Gets \cup Changes \cup {NoCall}]
  BY <1>3, GotoType DEF Decide
<1>4. CASE CacheGet(r)
  <2>1. "load" \in Label OBVIOUS
  <2>2. faults' \in 0..MaxFaults BY <1>4, FaultType DEF CacheGet, TypeOK
  <2> QED BY <1>3, <1>4, <2>1, <2>2, GotoType DEF CacheGet, TypeOK
<1>5. CASE GetMemberRole(r)
  <2>1. PICK role \in Role \cup {NoRole} : /\ Read(call[r].by, role)
                                           /\ seen' = [seen EXCEPT ![r] = role]
    BY <1>5 DEF GetMemberRole
  <2>2. faults' \in 0..MaxFaults BY <2>1, FaultType DEF Read, TypeOK
  <2>3. "fill" \in Label OBVIOUS
  <2>4. seen' \in [Request -> Role \cup {NoRole}] BY <2>1 DEF TypeOK
  <2> QED BY <1>5, <2>2, <2>3, <2>4, GotoType DEF GetMemberRole, TypeOK
<1>6. CASE CacheSet(r)
  <2>1. cache' \in [User -> Role \cup {NoRole, Absent}] BY <1>6 DEF CacheSet, TypeOK
  <2>2. faults' \in 0..MaxFaults BY <1>6, FaultType DEF CacheSet, TypeOK
  <2>3. seen' \in [Request -> Role \cup {NoRole}] BY <1>6 DEF CacheSet, TypeOK
  <2> QED BY <1>3, <1>6, <2>1, <2>2, <2>3 DEF CacheSet, TypeOK
<1>7. CASE CheckKnown(r) \/ CheckSelf(r) \/ CountOwners(r)
  <2>1. PICK label \in Label : Goto(r, label)
    BY <1>7 DEF CheckKnown, CheckSelf, CountOwners
  <2> QED BY <1>7, <2>1, GotoType DEF CheckKnown, CheckSelf, CountOwners, TypeOK
<1>8. CASE GetMember(r)
  <2>1. PICK role \in Role \cup {NoRole} :
          /\ Read(call[r].user, role)
          /\ Goto(r, IF (call[r].op = "add") # (role = NoRole) THEN "idle"
                     ELSE IF role = "owner" /\ TakesOwner(r) THEN "count" ELSE "commit")
    BY <1>8 DEF GetMember
  <2>2. PICK label \in Label : Goto(r, label) BY <2>1
  <2>3. faults' \in 0..MaxFaults BY <2>1, FaultType DEF Read, TypeOK
  <2> QED BY <1>8, <2>2, <2>3, GotoType DEF GetMember, TypeOK
<1>9. CASE Commit(r)
  <2>1. PICK label \in Label : Goto(r, label) BY <1>9 DEF Commit
  <2>2. /\ member' \in [User -> Role \cup {NoRole}]
        /\ announced' \in [User -> Role \cup {NoRole}]
    BY <1>9 DEF Commit, TypeOK
  <2> QED BY <1>9, <2>1, <2>2, GotoType DEF Commit, TypeOK
<1>10. CASE CacheDelete(r)
  <2>1. cache' \in [User -> Role \cup {NoRole, Absent}] BY <1>10 DEF CacheDelete, TypeOK
  <2>2. faults' \in 0..MaxFaults BY <1>10, FaultType DEF CacheDelete, TypeOK
  <2>3. "idle" \in Label OBVIOUS
  <2> QED BY <1>10, <2>1, <2>2, <2>3, GotoType DEF CacheDelete, TypeOK
<1>11. CASE SoftDelete(r)
  <2>1. PICK label \in Label : Goto(r, label) BY <1>11 DEF SoftDelete
  <2> QED BY <1>11, <2>1, GotoType DEF SoftDelete, TypeOK
<1>12. CASE InsertProjectDeleted(r)
  <2>1. "idle" \in Label OBVIOUS
  <2>2. told' \in BOOLEAN /\ faults' \in 0..MaxFaults
    BY <1>12, FaultType DEF InsertProjectDeleted, TypeOK
  <2> QED BY <1>12, <2>1, <2>2, GotoType DEF InsertProjectDeleted, TypeOK
<1>13. CASE CutShort(r)
  <2>1. "idle" \in Label OBVIOUS
  <2>2. seen' \in [Request -> Role \cup {NoRole}] BY <1>13 DEF CutShort, TypeOK
  <2> QED BY <1>13, <2>1, <2>2, FaultType, GotoType DEF CutShort, TypeOK
<1> QED
  BY <1>1, <1>2, <1>4, <1>5, <1>6, <1>7, <1>8, <1>9, <1>10, <1>11, <1>12, <1>13 DEF Step

(* The steps that belong to no request. *)
Background(u) == \/ Expire(u) \/ UserRegistered(u) \/ RemoveAllMemberships(u)
                 \/ MarkKnownUserDeleted(u) \/ UserDeletedAgain(u)

LEMMA TypeBackground ==
  ASSUME TypeOK, NEW u \in User, Background(u)
  PROVE  TypeOK'
<1>1. CASE Expire(u) BY <1>1 DEF Expire, TypeOK, requestVars
<1>2. CASE UserRegistered(u) BY <1>2 DEF UserRegistered, TypeOK, requestVars
<1>3. CASE RemoveAllMemberships(u) BY <1>3 DEF RemoveAllMemberships, TypeOK, requestVars
<1>4. CASE MarkKnownUserDeleted(u) BY <1>4 DEF MarkKnownUserDeleted, TypeOK, requestVars
<1>5. CASE UserDeletedAgain(u)
  BY <1>5, FaultType DEF UserDeletedAgain, TypeOK, requestVars
<1> QED BY <1>1, <1>2, <1>3, <1>4, <1>5 DEF Background

LEMMA TypeNext == TypeOK /\ [Next]_vars => TypeOK'
<1> SUFFICES ASSUME TypeOK, [Next]_vars PROVE TypeOK'
  OBVIOUS
<1>1. CASE \E r \in Request : Get(r) \/ Change(r) \/ Step(r) \/ CutShort(r)
  BY <1>1, TypeStep
<1>2. CASE \E u \in User : Background(u)
  BY <1>2, TypeBackground
<1>3. CASE UNCHANGED vars
  BY <1>3 DEF vars, requestVars, TypeOK
<1> QED BY <1>1, <1>2, <1>3 DEF Next, Background

(* Type correctness. *)
THEOREM TypeCorrect == Spec => []TypeOK
  BY TypeInit, TypeNext, PTL DEF Spec

-----------------------------------------------------------------------------
(* One request at a time. *)
Sequential == \A r, s \in Request : r = s

(* Why an owner is left: whoever is about to take the role of an owner has *)
(* seen another one, and nobody else changes members meanwhile.            *)
CountStillHolds ==
  \A r \in Request :
    pc[r] = "commit" /\ TakesOwner(r) /\ call[r].op # "add" /\ member[call[r].user] = "owner"
      => SeveralOwners

OwnerInv == OwnerKept /\ CountStillHolds

LEMMA OwnerInit == Init => OwnerInv
  BY ConstantsAssumption DEF Init, OwnerInv, OwnerKept, CountStillHolds

(* An account once deleted stays so, and requests delete none. *)
LEMMA AccountsStep ==
  ASSUME NEW r \in Request, Get(r) \/ Change(r) \/ Step(r) \/ CutShort(r)
  PROVE  AccountsKept' = AccountsKept
<1>1. deletion' = deletion
  BY DEF Get, Change, Step, CutShort, CacheGet, GetMemberRole, CacheSet, CheckKnown,
         CheckSelf, GetMember, CountOwners, Commit, CacheDelete, SoftDelete,
         InsertProjectDeleted
<1> QED BY <1>1 DEF AccountsKept

LEMMA AccountsBackground ==
  ASSUME TypeOK, AccountsKept', NEW u \in User, Background(u) \/ UNCHANGED vars
  PROVE  /\ AccountsKept
         /\ Expire(u) \/ UserRegistered(u) \/ UNCHANGED vars
<1>1. CASE Expire(u) \/ UserRegistered(u) \/ UNCHANGED vars
  <2>1. deletion' = deletion BY <1>1 DEF Expire, UserRegistered, vars
  <2> QED BY <1>1, <2>1 DEF AccountsKept
<1>2. CASE RemoveAllMemberships(u) \/ MarkKnownUserDeleted(u) \/ UserDeletedAgain(u)
  <2>1. deletion'[u] # "none"
    BY <1>2 DEF RemoveAllMemberships, MarkKnownUserDeleted, UserDeletedAgain, TypeOK
  <2> QED BY <2>1 DEF AccountsKept
<1> QED BY <1>1, <1>2 DEF Background

(* A request whose step leaves the members alone keeps OwnerInv unless it  *)
(* goes on to commit.                                                      *)
LEMMA OwnerUndisturbed ==
  ASSUME Sequential, TypeOK, OwnerInv, NEW r \in Request, member' = member,
         pc' \in [Request -> Label], pc'[r] # "commit"
  PROVE  OwnerInv'
  BY DEF Sequential, OwnerInv, OwnerKept, CountStillHolds, SeveralOwners, TakesOwner

LEMMA OwnerStep ==
  ASSUME Sequential, TypeOK, TypeOK', OwnerInv, NEW r \in Request,
         Get(r) \/ Change(r) \/ Step(r) \/ CutShort(r)
  PROVE  OwnerInv'
<1>0. pc' \in [Request -> Label] BY DEF TypeOK
<1>1. CASE \/ Get(r) \/ Change(r) \/ CacheGet(r) \/ GetMemberRole(r) \/ CacheSet(r)
           \/ CheckKnown(r) \/ CheckSelf(r) \/ CacheDelete(r) \/ SoftDelete(r)
           \/ InsertProjectDeleted(r) \/ CutShort(r)
  <2>1. member' = member
    BY <1>1 DEF Get, Change, CacheGet, GetMemberRole, CacheSet, CheckKnown, CheckSelf,
                CacheDelete, SoftDelete, InsertProjectDeleted, CutShort
  <2>2. pc'[r] # "commit"
    BY <1>1 DEF Get, Change, CacheGet, GetMemberRole, CacheSet, CheckKnown, CheckSelf,
                CacheDelete, SoftDelete, InsertProjectDeleted, CutShort, Decide, Goto,
                Begin, TypeOK
  <2> QED BY <1>0, <2>1, <2>2, OwnerUndisturbed
<1>2. CASE GetMember(r)
  <2>1. PICK role \in Role \cup {NoRole} :
          /\ Read(call[r].user, role)
          /\ Goto(r, IF (call[r].op = "add") # (role = NoRole) THEN "idle"
                     ELSE IF role = "owner" /\ TakesOwner(r) THEN "count" ELSE "commit")
    BY <1>2 DEF GetMember
  <2>2. member' = member BY <1>2 DEF GetMember
  <2>3. CASE pc'[r] # "commit" BY <1>0, <2>2, <2>3, OwnerUndisturbed
  <2>4. CASE pc'[r] = "commit"
    <3>1. /\ (call[r].op = "add") = (role = NoRole)
          /\ ~(role = "owner" /\ TakesOwner(r))
          /\ call' = call
      BY <2>1, <2>4 DEF Goto, TypeOK
    <3>2. role = member[call[r].user] \/ role = NoRole BY <2>1 DEF Read
    <3>3. ~(call[r].op # "add" /\ TakesOwner(r) /\ member[call[r].user] = "owner")
      BY <3>1, <3>2
    <3> QED BY <2>2, <3>1, <3>3
            DEF Sequential, OwnerInv, OwnerKept, CountStillHolds, SeveralOwners, TakesOwner
  <2> QED BY <2>3, <2>4
<1>3. CASE CountOwners(r)
  <2>1. member' = member BY <1>3 DEF CountOwners
  <2>2. CASE SeveralOwners
    BY <2>1, <2>2 DEF OwnerInv, OwnerKept, CountStillHolds, SeveralOwners
  <2>3. CASE ~SeveralOwners
    <3>1. pc'[r] # "commit" BY <1>3, <2>3 DEF CountOwners, Goto, TypeOK
    <3> QED BY <1>0, <2>1, <3>1, OwnerUndisturbed
  <2> QED BY <2>2, <2>3
<1>4. CASE Commit(r)
  <2>1. pc[r] = "commit" /\ pc'[r] # "commit" BY <1>4 DEF Commit, Goto, TypeOK
  <2>2. CASE member' = member BY <1>0, <2>1, <2>2, OwnerUndisturbed
  <2>3. CASE member' # member
    <3> DEFINE u == call[r].user
               role == IF call[r].op = "remove" THEN NoRole ELSE call[r].role
    <3>1. /\ member' = [member EXCEPT ![u] = role]
          /\ call[r].op = "add" => member[u] = NoRole
      BY <1>4, <2>3 DEF Commit
    <3>2. CountStillHolds' BY <2>1 DEF Sequential, CountStillHolds
    <3>3. u \in User BY CallUsers
    <3>4. PICK v \in User : member[v] = "owner" BY DEF OwnerInv, OwnerKept
    <3>5. CASE v # u
      <4>1. member'[v] = "owner" BY <3>1, <3>4, <3>5 DEF TypeOK
      <4> QED BY <3>2, <4>1 DEF OwnerInv, OwnerKept
    <3>6. CASE v = u /\ role = "owner"
      <4>1. member'[u] = "owner" BY <3>1, <3>3, <3>6 DEF TypeOK
      <4> QED BY <3>2, <3>3, <4>1 DEF OwnerInv, OwnerKept
    <3>7. CASE v = u /\ role # "owner"
      <4>1. call[r].op # "add" BY <3>1, <3>4, <3>7 DEF NoRole
      <4>2. TakesOwner(r) BY <3>7 DEF TakesOwner
      <4>3. SeveralOwners
        BY <2>1, <3>4, <3>7, <4>1, <4>2 DEF OwnerInv, CountStillHolds
      <4>4. PICK w \in User : w # u /\ member[w] = "owner" BY <4>3 DEF SeveralOwners
      <4>5. member'[w] = "owner" BY <3>1, <4>4 DEF TypeOK
      <4> QED BY <3>2, <4>5 DEF OwnerInv, OwnerKept
    <3> QED BY <3>5, <3>6, <3>7
  <2> QED BY <2>2, <2>3
<1> QED BY <1>1, <1>2, <1>3, <1>4 DEF Step

(* As long as no account is deleted nothing but a request changes members. *)
LEMMA OwnerBackground ==
  ASSUME OwnerInv, NEW u \in User, Expire(u) \/ UserRegistered(u) \/ UNCHANGED vars
  PROVE  OwnerInv'
<1>1. /\ member' = member /\ pc' = pc /\ call' = call
  BY DEF Expire, UserRegistered, vars, requestVars
<1> QED BY <1>1 DEF OwnerInv, OwnerKept, CountStillHolds, SeveralOwners, TakesOwner

LEMMA OwnerNext ==
  ASSUME Sequential, TypeOK, TypeOK', AccountsKept => OwnerInv, [Next]_vars
  PROVE  AccountsKept' => OwnerInv'
<1> SUFFICES ASSUME AccountsKept' PROVE OwnerInv'
  OBVIOUS
<1>1. CASE \E r \in Request : Get(r) \/ Change(r) \/ Step(r) \/ CutShort(r)
  BY <1>1, AccountsStep, OwnerStep
<1>2. CASE (\E u \in User : Background(u)) \/ UNCHANGED vars
  BY <1>2, AccountsBackground, OwnerBackground, ConstantsAssumption
<1> QED BY <1>1, <1>2 DEF Next, Background

(* The project keeps an owner when its requests come one by one.  This is  *)
(* what the check-then-act of UpdateMemberRole and RemoveMember is worth.  *)
THEOREM OwnerKeptSequentially ==
  ASSUME Sequential
  PROVE  Spec => []RequestsKeepOwner
<1>1. Init => (AccountsKept => OwnerInv)
  BY OwnerInit
<1>2. TypeOK /\ TypeOK' /\ (AccountsKept => OwnerInv) /\ [Next]_vars
        => (AccountsKept => OwnerInv)'
  BY OwnerNext
<1>3. (AccountsKept => OwnerInv) => RequestsKeepOwner
  BY DEF OwnerInv, RequestsKeepOwner
<1> QED BY <1>1, <1>2, <1>3, TypeCorrect, PTL DEF Spec

-----------------------------------------------------------------------------
(* Why the cache is fresh: without faults every change is followed by its  *)
(* eviction, and what is about to be cached has not changed since its read.*)
FillHolds ==
  faults = 0 /\ AccountsKept =>
    \A r \in Request : pc[r] = "fill" => seen[r] = member[call[r].by]

CacheInv == StaleOnlyBeforeEviction /\ FillHolds

LEMMA CacheInit == Init => CacheInv
  BY DEF Init, CacheInv, StaleOnlyBeforeEviction, FillHolds, Fresh

(* Nothing fails in a step that leaves faults at 0. *)
LEMMA NoFault ==
  ASSUME TypeOK, faults' = 0, Fault \/ UNCHANGED faults
  PROVE  faults = 0 /\ ~Fault
  BY DEF TypeOK, Fault

(* A step of a request that has no eviction due and changes neither the    *)
(* members nor the cache.                                                  *)
LEMMA CacheUndisturbed ==
  ASSUME Sequential, TypeOK, CacheInv, NEW r \in Request, AccountsKept,
         faults' = 0 => faults = 0, member' = member, cache' = cache, pc[r] # "evict", pc'[r] # "fill"
  PROVE  CacheInv'
  BY DEF Sequential, CacheInv, StaleOnlyBeforeEviction, FillHolds, Fresh

LEMMA CacheStep ==
  ASSUME Sequential, TypeOK, TypeOK', CacheInv, NEW r \in Request,
         Get(r) \/ Change(r) \/ Step(r) \/ CutShort(r)
  PROVE  CacheInv'
<1> SUFFICES ASSUME faults' = 0, AccountsKept' PROVE CacheInv'
  BY DEF CacheInv, StaleOnlyBeforeEviction, FillHolds
<1>0. AccountsKept BY AccountsStep
<1> USE <1>0
<1>1. CASE \/ Get(r) \/ Change(r) \/ CacheGet(r) \/ CheckKnown(r) \/ CheckSelf(r)
           \/ GetMember(r) \/ CountOwners(r) \/ SoftDelete(r) \/ InsertProjectDeleted(r)
  <2>1. /\ member' = member /\ cache' = cache /\ pc[r] # "evict"
        /\ Fault \/ UNCHANGED faults
    BY <1>1 DEF Get, Change, CacheGet, CheckKnown, CheckSelf, GetMember, CountOwners,
                SoftDelete, InsertProjectDeleted, Read
  <2>2. pc'[r] # "fill"
    BY <1>1 DEF Get, Change, CacheGet, CheckKnown, CheckSelf, GetMember, CountOwners,
                SoftDelete, InsertProjectDeleted, Decide, Goto, Begin, TypeOK
  <2> QED BY <2>1, <2>2, NoFault, CacheUndisturbed
<1>2. CASE GetMemberRole(r)
  <2>1. /\ faults = 0 /\ member' = member /\ cache' = cache
        /\ pc[r] # "evict" /\ call' = call
    BY <1>2, NoFault DEF GetMemberRole, Read, Goto, TypeOK
  <2>2. seen'[r] = member[call[r].by]
    BY <1>2, NoFault DEF GetMemberRole, Read, TypeOK
  <2> QED BY <2>1, <2>2
          DEF Sequential, CacheInv, StaleOnlyBeforeEviction, FillHolds, Fresh
<1>3. CASE CacheSet(r)
  <2>1. /\ faults = 0 /\ member' = member /\ pc[r] = "fill"
        /\ cache' = [cache EXCEPT ![call[r].by] = seen[r]]
    BY <1>3, NoFault DEF CacheSet
  <2>2. pc'[r] # "fill" BY <1>3 DEF CacheSet, Decide, Goto, TypeOK
  <2>3. seen[r] = member[call[r].by] BY <2>1 DEF CacheInv, FillHolds
  <2>4. \A u \in User : Fresh(u)
    BY <2>1 DEF Sequential, CacheInv, StaleOnlyBeforeEviction
  <2>5. \A u \in User : Fresh(u)'
    BY <2>1, <2>3, <2>4 DEF Fresh, TypeOK
  <2> QED BY <2>2, <2>5 DEF Sequential, CacheInv, StaleOnlyBeforeEviction, FillHolds
<1>4. CASE Commit(r)
  <2>1. /\ faults = 0 /\ cache' = cache /\ pc[r] = "commit" /\ pc'[r] # "fill"
    BY <1>4 DEF Commit, Goto, TypeOK
  <2>2. CASE member' = member BY <2>1, <2>2, CacheUndisturbed
  <2>3. CASE member' # member
    <3>1. /\ pc'[r] = "evict" /\ call' = call
          /\ \A u \in User : u # call[r].user => member'[u] = member[u]
      BY <1>4, <2>3 DEF Commit, Goto, TypeOK
    <3>2. \A u \in User : Fresh(u)
      BY <2>1 DEF Sequential, CacheInv, StaleOnlyBeforeEviction
    <3>3. \A u \in User : u # call[r].user => Fresh(u)'
      BY <2>1, <3>1, <3>2 DEF Fresh
    <3> QED BY <2>1, <3>1, <3>3
            DEF Sequential, CacheInv, StaleOnlyBeforeEviction, FillHolds
  <2> QED BY <2>2, <2>3
<1>5. CASE CacheDelete(r)
  <2>1. /\ faults = 0 /\ member' = member /\ pc'[r] # "fill"
        /\ cache' = [cache EXCEPT ![call[r].user] = Absent]
    BY <1>5, NoFault DEF CacheDelete, Goto, TypeOK
  <2>2. \A u \in User : u # call[r].user => Fresh(u)
    BY <2>1 DEF Sequential, CacheInv, StaleOnlyBeforeEviction
  <2>3. \A u \in User : Fresh(u)' BY <2>1, <2>2 DEF Fresh, TypeOK
  <2> QED BY <2>1, <2>3 DEF Sequential, CacheInv, StaleOnlyBeforeEviction, FillHolds
<1>6. CASE CutShort(r)
  BY <1>6, NoFault DEF CutShort
<1> QED BY <1>1, <1>2, <1>3, <1>4, <1>5, <1>6 DEF Step

LEMMA CacheBackground ==
  ASSUME Sequential, TypeOK, CacheInv, NEW u \in User, Background(u) \/ UNCHANGED vars
  PROVE  CacheInv'
<1> SUFFICES ASSUME faults' = 0, AccountsKept' PROVE CacheInv'
  BY DEF CacheInv, StaleOnlyBeforeEviction, FillHolds
<1>0. AccountsKept /\ (Expire(u) \/ UserRegistered(u) \/ UNCHANGED vars)
  BY AccountsBackground
<1> USE <1>0
<1>1. CASE Expire(u)
  BY <1>1 DEF Expire, CacheInv, StaleOnlyBeforeEviction, FillHolds, Fresh, TypeOK, requestVars
<1>2. CASE ~Expire(u)
  <2>1. /\ faults = 0 /\ member' = member /\ cache' = cache
        /\ pc' = pc /\ call' = call /\ seen' = seen
    BY <1>2, NoFault DEF UserRegistered, vars, requestVars
  <2> QED BY <2>1 DEF CacheInv, StaleOnlyBeforeEviction, FillHolds, Fresh
<1> QED BY <1>1, <1>2

(* When requests come one by one and nothing fails, a cached permission is *)
(* wrong only between a commit and the eviction that follows it.           *)
THEOREM FreshSequentially ==
  ASSUME Sequential
  PROVE  Spec => []StaleOnlyBeforeEviction
<1>1. TypeOK /\ TypeOK' /\ CacheInv /\ [Next]_vars => CacheInv'
  BY CacheStep, CacheBackground, ConstantsAssumption DEF Next, Background
<1>2. CacheInv => StaleOnlyBeforeEviction
  BY DEF CacheInv
<1> QED BY <1>1, <1>2, CacheInit, TypeCorrect, PTL DEF Spec
=============================================================================
