---------------------------- MODULE ProjectMembers ----------------------------
(***************************************************************************)
(* The members of one project and the permission cache in front of them:   *)
(* services/domain/project (domain/service_impl.go, cache/redis.go,        *)
(* events/consumer.go).                                                    *)
(*                                                                         *)
(* Requests run concurrently, on any replica.  Every read of the database, *)
(* every access to Redis and every commit is a step of its own; a business *)
(* transaction is one step, because the row it changes is locked until its *)
(* commit.  A cached PermissionSet is represented by its role.             *)
(***************************************************************************)
EXTENDS Naturals

CONSTANTS
  User,
  Creator,      \* who created the project
  Request,      \* requests that may be in progress at once
  Deletable,    \* users whose account may be deleted
  MaxCalls,     \* bound: requests that change something
  MaxFaults     \* bound: failed calls of the database or Redis, requests cut short

ASSUME ConstantsAssumption ==
  /\ Creator \in User
  /\ Deletable \subseteq User
  /\ MaxCalls \in Nat
  /\ MaxFaults \in Nat

Role == {"owner", "editor", "viewer"}
NoRole == "none"        \* not a member
Absent == "absent"      \* not in the cache

(* What a request asks for; role is of use to add and update only. *)
NoCall == [op |-> "none", by |-> Creator, user |-> Creator, role |-> "viewer"]
Calls(ops, roles) == [op : ops, by : User, user : User, role : roles]
Gets == {c \in Calls({"get"}, {"viewer"}) : c.user = c.by}
Changes == Calls({"add", "update"}, Role) \cup Calls({"remove"}, {"viewer"})
             \cup {c \in Calls({"delete"}, {"viewer"}) : c.user = c.by}

VARIABLES
  member,     \* project_members: the role of each user
  live,       \* is projects.deleted_at null?
  known,      \* known_users: "unknown", "known" or "deleted"
  cache,      \* Redis: the role cached for each user
  pc, call,   \* of each request: where it is, and what it was asked to do
  seen,       \* the role it read and will cache
  deletion,   \* where the handling of each user's user.deleted is
  announced,  \* history: the membership the outbox events tell of each user
  told,       \* history: is project.deleted in the outbox?
  calls, faults

requestVars == <<pc, call, seen>>
vars == <<member, live, known, cache, requestVars, deletion, announced, told,
          calls, faults>>

(* CountOwners > 1 *)
SeveralOwners == \E u, v \in User : u # v /\ member[u] = "owner" /\ member[v] = "owner"

Init ==
  /\ member = [u \in User |-> IF u = Creator THEN "owner" ELSE NoRole]
  /\ live = TRUE
  /\ known = [u \in User |-> "unknown"]
  /\ cache = [u \in User |-> Absent]
  /\ pc = [r \in Request |-> "idle"]
  /\ call = [r \in Request |-> NoCall]
  /\ seen = [r \in Request |-> NoRole]
  /\ deletion = [u \in User |-> "none"]
  /\ announced = member
  /\ told = FALSE
  /\ calls = 0
  /\ faults = 0

-----------------------------------------------------------------------------
Goto(r, label) == /\ pc' = [pc EXCEPT ![r] = label]
                  /\ call' = [call EXCEPT ![r] = IF label = "idle" THEN NoCall ELSE @]
Begin(r, c, label) == /\ pc' = [pc EXCEPT ![r] = label]
                      /\ call' = [call EXCEPT ![r] = c]
Fault == faults < MaxFaults /\ faults' = faults + 1

(* What reading a user's row yields.  The callers take a failed read for a *)
(* row that is not there.                                                  *)
Read(u, role) ==
  \/ role = member[u] /\ UNCHANGED faults
  \/ role = NoRole /\ Fault

(* A request for a user's permissions, from this service or another one. *)
Get(r) ==
  /\ pc[r] = "idle"
  /\ \E c \in Gets : Begin(r, c, "cache")
  /\ UNCHANGED <<member, live, known, cache, seen, deletion, announced, told, calls, faults>>

(* A request to change the members or to delete the project.  Leaving a    *)
(* project needs no permission.                                            *)
Change(r) ==
  /\ pc[r] = "idle"
  /\ calls < MaxCalls
  /\ calls' = calls + 1
  /\ \E c \in Changes :
       Begin(r, c, IF c.op = "remove" /\ c.by = c.user THEN "self" ELSE "cache")
  /\ UNCHANGED <<member, live, known, cache, seen, deletion, announced, told, faults>>

-----------------------------------------------------------------------------
(* GetPermissions and requirePermission *)

(* member:invite, member:update, member:remove and project:delete are      *)
(* permissions of the owner alone.                                         *)
MayManage(role) == role = "owner"

Decide(r, role) ==
  Goto(r, IF call[r].op = "get" \/ ~MayManage(role) THEN "idle"
          ELSE CASE call[r].op = "add" -> "known"
                 [] call[r].op = "delete" -> "delete"
                 [] OTHER -> "target")

CacheGet(r) ==
  /\ pc[r] = "cache"
  /\ LET hit == cache[call[r].by]
     IN \/ hit # Absent /\ Decide(r, hit) /\ UNCHANGED faults
        \/ hit = Absent /\ Goto(r, "load") /\ UNCHANGED faults
        \/ hit # Absent /\ Goto(r, "load") /\ Fault
  /\ UNCHANGED <<member, live, known, cache, seen, deletion, announced, told, calls>>

GetMemberRole(r) ==
  /\ pc[r] = "load"
  /\ \E role \in Role \cup {NoRole} :
       /\ Read(call[r].by, role)
       /\ seen' = [seen EXCEPT ![r] = role]
  /\ Goto(r, "fill")
  /\ UNCHANGED <<member, live, known, cache, deletion, announced, told, calls>>

(* cache.Set, also for a user who is no member; its error is ignored. *)
CacheSet(r) ==
  /\ pc[r] = "fill"
  /\ \/ cache' = [cache EXCEPT ![call[r].by] = seen[r]] /\ UNCHANGED faults
     \/ Fault /\ UNCHANGED cache
  /\ Decide(r, seen[r])
  /\ seen' = [seen EXCEPT ![r] = NoRole]
  /\ UNCHANGED <<member, live, known, deletion, announced, told, calls>>

-----------------------------------------------------------------------------
(* AddMember, UpdateMemberRole, RemoveMember *)

CheckKnown(r) ==
  /\ pc[r] = "known"
  /\ Goto(r, IF known[call[r].user] = "known" THEN "target" ELSE "idle")
  /\ UNCHANGED <<member, live, known, cache, seen, deletion, announced, told, calls,
                 faults>>

(* A member who wants to leave must be one. *)
CheckSelf(r) ==
  /\ pc[r] = "self"
  /\ Goto(r, IF member[call[r].by] = NoRole THEN "idle" ELSE "target")
  /\ UNCHANGED <<member, live, known, cache, seen, deletion, announced, told, calls,
                 faults>>

(* Does the call take the role of owner from its user? *)
TakesOwner(r) == call[r].op = "remove" \/ call[r].role # "owner"

GetMember(r) ==
  /\ pc[r] = "target"
  /\ \E role \in Role \cup {NoRole} :
       /\ Read(call[r].user, role)
       /\ Goto(r, IF (call[r].op = "add") # (role = NoRole) THEN "idle"
                  ELSE IF role = "owner" /\ TakesOwner(r) THEN "count" ELSE "commit")
  /\ UNCHANGED <<member, live, known, cache, seen, deletion, announced, told, calls>>

CountOwnersAny(r) ==                                \* mutant: count < 1
  /\ pc[r] = "count"
  /\ Goto(r, IF \E u \in User : member[u] = "owner" THEN "commit" ELSE "idle")
  /\ UNCHANGED <<member, live, known, cache, seen, deletion, announced, told, calls,
                 faults>>

CountOwners(r) ==
  /\ pc[r] = "count"
  /\ Goto(r, IF SeveralOwners THEN "commit" ELSE "idle")
  /\ UNCHANGED <<member, live, known, cache, seen, deletion, announced, told, calls,
                 faults>>

(* The transaction: the member's row and the outbox event.  INSERT fails   *)
(* on a member, UPDATE .. RETURNING on a user who is none, and DELETE      *)
(* affects no row but does not say so.                                     *)
Commit(r) ==
  /\ pc[r] = "commit"
  /\ LET u == call[r].user
         fails == CASE call[r].op = "add" -> member[u] # NoRole
                    [] call[r].op = "update" -> member[u] = NoRole
                    [] OTHER -> FALSE
         role == IF call[r].op = "remove" THEN NoRole ELSE call[r].role
     IN IF fails
        THEN Goto(r, "idle") /\ UNCHANGED <<member, announced>>
        ELSE /\ member' = [member EXCEPT ![u] = role]
             /\ announced' = [announced EXCEPT ![u] = role]
             /\ Goto(r, "evict")
  /\ UNCHANGED <<live, known, cache, seen, deletion, told, calls, faults>>

CacheDeleteRequester(r) ==                          \* mutant: evicts the requester
  /\ pc[r] = "evict"
  /\ \/ cache' = [cache EXCEPT ![call[r].by] = Absent] /\ UNCHANGED faults
     \/ Fault /\ UNCHANGED cache
  /\ Goto(r, "idle")
  /\ UNCHANGED <<member, live, known, seen, deletion, announced, told, calls>>

(* cache.Delete after the commit; its error is ignored. *)
CacheDelete(r) ==
  /\ pc[r] = "evict"
  /\ \/ cache' = [cache EXCEPT ![call[r].user] = Absent] /\ UNCHANGED faults
     \/ Fault /\ UNCHANGED cache
  /\ Goto(r, "idle")
  /\ UNCHANGED <<member, live, known, seen, deletion, announced, told, calls>>

-----------------------------------------------------------------------------
(* DeleteProject: two statements in no transaction, and the error of the   *)
(* second is ignored.                                                      *)
SoftDelete(r) ==
  /\ pc[r] = "delete"
  /\ live' = FALSE
  /\ Goto(r, IF live THEN "announce" ELSE "idle")
  /\ UNCHANGED <<member, known, cache, seen, deletion, announced, told, calls, faults>>

InsertProjectDeleted(r) ==
  /\ pc[r] = "announce"
  /\ \/ told' = TRUE /\ UNCHANGED faults
     \/ Fault /\ UNCHANGED told
  /\ Goto(r, "idle")
  /\ UNCHANGED <<member, live, known, cache, seen, deletion, announced, calls>>

(* The process stops, or the client goes away and the context is cancelled. *)
CutShort(r) ==
  /\ pc[r] # "idle"
  /\ Fault
  /\ Goto(r, "idle")
  /\ seen' = [seen EXCEPT ![r] = NoRole]
  /\ UNCHANGED <<member, live, known, cache, deletion, announced, told, calls>>

(* mutant: members are cached without a TTL *)
ExpireOnlyDenials(u) ==
  /\ cache[u] = NoRole
  /\ cache' = [cache EXCEPT ![u] = Absent]
  /\ UNCHANGED <<member, live, known, requestVars, deletion, announced, told, calls, faults>>

(* The entry's TTL of 60 seconds is over. *)
Expire(u) ==
  /\ cache[u] # Absent
  /\ cache' = [cache EXCEPT ![u] = Absent]
  /\ UNCHANGED <<member, live, known, requestVars, deletion, announced, told, calls, faults>>

-----------------------------------------------------------------------------
(* The consumer of user.registered and user.deleted *)

UserRegistered(u) ==
  /\ known[u] = "unknown"
  /\ known' = [known EXCEPT ![u] = "known"]
  /\ UNCHANGED <<member, live, cache, requestVars, deletion, announced, told, calls, faults>>

RemoveAllMemberships(u) ==
  /\ u \in Deletable
  /\ deletion[u] \in {"none", "again"}
  /\ deletion' = [deletion EXCEPT ![u] = "removed"]
  /\ member' = [member EXCEPT ![u] = NoRole]
  /\ UNCHANGED <<live, known, cache, requestVars, announced, told, calls, faults>>

MarkKnownUserDeleted(u) ==
  /\ deletion[u] = "removed"
  /\ deletion' = [deletion EXCEPT ![u] = "done"]
  /\ known' = [known EXCEPT ![u] = IF @ = "known" THEN "deleted" ELSE @]
  /\ UNCHANGED <<member, live, cache, requestVars, announced, told, calls, faults>>

(* The handler fails between its two statements, and the event comes again. *)
UserDeletedAgain(u) ==
  /\ deletion[u] = "removed"
  /\ Fault
  /\ deletion' = [deletion EXCEPT ![u] = "again"]
  /\ UNCHANGED <<member, live, known, cache, requestVars, announced, told, calls>>

-----------------------------------------------------------------------------
Step(r) == \/ CacheGet(r) \/ GetMemberRole(r) \/ CacheSet(r)
           \/ CheckKnown(r) \/ CheckSelf(r) \/ GetMember(r) \/ CountOwners(r)
           \/ Commit(r) \/ CacheDelete(r)
           \/ SoftDelete(r) \/ InsertProjectDeleted(r)

Next == \/ \E r \in Request : Get(r) \/ Change(r) \/ Step(r) \/ CutShort(r)
        \/ \E u \in User : \/ Expire(u)
                           \/ UserRegistered(u)
                           \/ RemoveAllMemberships(u)
                           \/ MarkKnownUserDeleted(u)
                           \/ UserDeletedAgain(u)

Spec == Init /\ [][Next]_vars

(* A request goes on until it is answered, and Redis expires its keys. *)
FairSpec == /\ Spec
            /\ \A r \in Request : WF_vars(Step(r))
            /\ \A u \in User : WF_vars(Expire(u))

-----------------------------------------------------------------------------
(* Properties *)

Label == {"idle", "cache", "load", "fill", "known", "self", "target", "count", "commit",
          "evict", "delete", "announce"}

(* The types of the variables. *)
TypeOK ==
  /\ member \in [User -> Role \cup {NoRole}]
  /\ live \in BOOLEAN
  /\ known \in [User -> {"unknown", "known", "deleted"}]
  /\ cache \in [User -> Role \cup {NoRole, Absent}]
  /\ pc \in [Request -> Label]
  /\ call \in [Request -> Gets \cup Changes \cup {NoCall}]
  /\ seen \in [Request -> Role \cup {NoRole}]
  /\ deletion \in [User -> {"none", "removed", "again", "done"}]
  /\ announced \in [User -> Role \cup {NoRole}]
  /\ told \in BOOLEAN
  /\ calls \in 0..MaxCalls
  /\ faults \in 0..MaxFaults

(* docs/services/project.md:110, :120 and :1680: a project never loses its *)
(* last owner.                                                             *)
OwnerKept == \E u \in User : member[u] = "owner"

AccountsKept == \A u \in User : deletion[u] = "none"

(* ... to a request that changes its members: only the deletion of the     *)
(* owner's account may leave it without one (UpdateMemberRole,             *)
(* RemoveMember).                                                          *)
RequestsKeepOwner == AccountsKept => OwnerKept

Fresh(u) == cache[u] \in {Absent, member[u]}

(* Once the members stop changing, the cache tells the truth for good:     *)
(* whatever it missed (a failed or forgotten eviction, a value read before *)
(* a change and stored after it) is gone when the TTL of 60 seconds is.    *)
CacheConverges == <>[](\A u \in User : Fresh(u))

(* docs/services/project.md:1143: eviction takes effect at once, and the   *)
(* TTL is for missed evictions only.  So without faults and deleted        *)
(* accounts, whose memberships end without an eviction, an entry is stale  *)
(* only while the change it missed has not been evicted yet.               *)
StaleOnlyBeforeEviction ==
  faults = 0 /\ AccountsKept =>
    \A u \in User : Fresh(u) \/ \E r \in Request : pc[r] = "evict" /\ call[r].user = u

(* docs/services/project.md:1218: the memberships of a deleted user are    *)
(* removed.                                                                *)
DeletedUserIsNoMember == \A u \in User : deletion[u] = "done" => member[u] = NoRole

(* docs/services/project.md:1218: ... and each removal is announced. *)
MembershipAnnounced == \A u \in User : announced[u] = member[u]

(* docs/services/project.md:1678: no change of data without its event. *)
DeletionAnnounced == live \/ told \/ \E r \in Request : pc[r] = "announce"
=============================================================================
