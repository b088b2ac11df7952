----------------------------- MODULE PermissionChain -----------------------------
(***************************************************************************)
(* How other services learn of what a user may do in a project: the        *)
(* projectclients of task, document, notification and plugin, the          *)
(* endpoint of the project service that answers them, and the two caches   *)
(* on the way, for one user of one project.                                *)
(*                                                                         *)
(* Roles are reduced to being a member.  Time is counted in ticks: a call  *)
(* takes less than one, so that at most one passes while it is under way.  *)
(* An entry that has no ticks left expires before the next.  A client that *)
(* does not get an answer, for its timeout, its breaker or since its own   *)
(* client has gone, gives up; the endpoint may go on.                      *)
(***************************************************************************)
EXTENDS Naturals

CONSTANTS
  Caller,        \* the instances of services that ask; each has a cache
  Asking,        \* requests that may be in progress at once
  SharedTTL,     \* of the project service's cache in Redis
  CopyTTL,       \* of a caller's cache
  UrlTTL,        \* of a presigned download URL
  MaxChanges     \* bound: how often the membership changes

ASSUME ChainAssumption ==
  {SharedTTL, CopyTTL, UrlTTL, MaxChanges} \subseteq Nat \ {0}

Nobody == "nobody"
Nothing == [held |-> FALSE, member |-> FALSE, ttl |-> 0]
NoAsking == [at |-> "idle", by |-> Nobody, member |-> FALSE, old |-> FALSE]

VARIABLES
  belongs,       \* project_members: is the user a member?
  since,         \* history: the ticks since he last left
  evicting,      \* is the eviction that follows a change still to come?
  shared,        \* the entry in Redis
  copy,          \* the entry of each caller
  asking,        \* of each request: where it is, who asks, what it was answered,
                 \* and has a tick passed since it began?
  url,           \* the last download URL he was given
  changed

chainVars == <<belongs, since, evicting, shared, copy, asking, url, changed>>

ChainInit ==
  /\ belongs = TRUE /\ since = 0 /\ evicting = FALSE
  /\ shared = Nothing
  /\ copy = [c \in Caller |-> Nothing]
  /\ asking = [q \in Asking |-> NoAsking]
  /\ url = Nothing /\ changed = 0

Longest == SharedTTL + CopyTTL + UrlTTL + 4     \* where since stops

Fresh(member, ttl) == [held |-> TRUE, member |-> member, ttl |-> ttl]
At(q) == asking[q].at
Now(q, at) == asking' = [asking EXCEPT ![q].at = at]
Done(q) == asking' = [asking EXCEPT ![q] = NoAsking]

-----------------------------------------------------------------------------
(* The membership *)

ChangeMembership ==
  /\ changed < MaxChanges /\ ~evicting
  /\ belongs' = ~belongs /\ since' = 0
  /\ evicting' = TRUE /\ changed' = changed + 1
  /\ UNCHANGED <<shared, copy, asking, url>>

(* cache.Delete; its error is discarded. *)
Evict ==
  /\ evicting /\ evicting' = FALSE
  /\ \E failed \in BOOLEAN : shared' = IF failed THEN shared ELSE Nothing
  /\ UNCHANGED <<belongs, since, copy, asking, url, changed>>

-----------------------------------------------------------------------------
(* The caller *)

Begun(q, c, at) == asking' = [asking EXCEPT ![q] = [NoAsking EXCEPT !.at = at, !.by = c]]

LookUpAndRenew(q, c) ==              \* mutant: an entry that is used lives on
  /\ At(q) = "idle"
  /\ Begun(q, c, IF copy[c].held THEN "sign" ELSE "get")
  /\ copy' = [copy EXCEPT ![c].ttl = IF copy[c].held THEN CopyTTL ELSE 0]
  /\ UNCHANGED <<belongs, since, evicting, shared, url, changed>>

(* A request that the cache allows nothing, or that is none of the         *)
(* document service's, changes nothing that is looked at here.             *)
LookUp(q, c) ==
  /\ At(q) = "idle"
  /\ \/ ~copy[c].held
     \/ copy[c].member /\ c = "document"
  /\ Begun(q, c, IF copy[c].held THEN "sign" ELSE "get")
  /\ UNCHANGED <<belongs, since, evicting, shared, copy, url, changed>>

StoreCopy(q) ==
  /\ At(q) = "reply"
  /\ LET c == asking[q].by
     IN /\ copy' = [copy EXCEPT ![c] = Fresh(asking[q].member, CopyTTL)]
        /\ IF asking[q].member /\ c = "document" THEN Now(q, "sign") ELSE Done(q)
  /\ UNCHANGED <<belongs, since, evicting, shared, url, changed>>

GetDownloadURL(q) ==
  /\ At(q) = "sign"
  /\ url' = Fresh(TRUE, UrlTTL)
  /\ Done(q)
  /\ UNCHANGED <<belongs, since, evicting, shared, copy, changed>>

(* The caller gives up; an endpoint that is at work may stay so. *)
GiveUp(q) ==
  /\ At(q) # "idle" /\ asking[q].by # Nobody
  /\ \/ Done(q)
     \/ /\ At(q) \in {"role", "fill"}
        /\ asking' = [asking EXCEPT ![q].by = Nobody]
  /\ UNCHANGED <<belongs, since, evicting, shared, copy, url, changed>>

-----------------------------------------------------------------------------
(* The endpoint: it always answers, at worst that there is no membership. *)

Answered(q, member) ==
  asking' = [asking EXCEPT ![q].at = IF asking[q].by = Nobody THEN "idle" ELSE "reply",
                           ![q].member = member]

(* The entry in Redis, if it can be read *)
GetShared(q) ==
  /\ At(q) = "get"
  /\ \/ shared.held /\ Answered(q, shared.member)
     \/ Now(q, "role")
  /\ UNCHANGED <<belongs, since, evicting, shared, copy, url, changed>>

(* A failed read is taken for no membership. *)
ReadRole(q) ==
  /\ At(q) = "role"
  /\ \E member \in {belongs, FALSE} :
       asking' = [asking EXCEPT ![q].at = "fill", ![q].member = member]
  /\ UNCHANGED <<belongs, since, evicting, shared, copy, url, changed>>

SetShared(q) ==
  /\ At(q) = "fill"
  /\ \E failed \in BOOLEAN :
       shared' = IF failed THEN shared ELSE Fresh(asking[q].member, SharedTTL)
  /\ IF asking[q].by = Nobody THEN Done(q) ELSE Answered(q, asking[q].member)
  /\ UNCHANGED <<belongs, since, evicting, copy, url, changed>>

-----------------------------------------------------------------------------
(* Time *)

Ends(entry) == entry.held /\ entry.ttl = 0
Older(entry) == IF entry.held THEN [entry EXCEPT !.ttl = @ - 1] ELSE entry

SharedExpires ==
  /\ Ends(shared) /\ shared' = Nothing
  /\ UNCHANGED <<belongs, since, evicting, copy, asking, url, changed>>

CopyExpires(c) ==
  /\ Ends(copy[c]) /\ copy' = [copy EXCEPT ![c] = Nothing]
  /\ UNCHANGED <<belongs, since, evicting, shared, asking, url, changed>>

UrlExpires ==
  /\ Ends(url) /\ url' = Nothing
  /\ UNCHANGED <<belongs, since, evicting, shared, copy, asking, changed>>

Tick ==
  /\ ~Ends(shared) /\ ~Ends(url) /\ \A c \in Caller : ~Ends(copy[c])
  /\ \A q \in Asking : ~asking[q].old
  /\ since' = IF since < Longest THEN since + 1 ELSE since
  /\ shared' = Older(shared) /\ url' = Older(url)
  /\ copy' = [c \in Caller |-> Older(copy[c])]
  /\ asking' = [q \in Asking |-> [asking[q] EXCEPT !.old = At(q) # "idle"]]
  /\ UNCHANGED <<belongs, evicting, changed>>

ChainNext ==
  \/ ChangeMembership \/ Evict
  \/ \E q \in Asking : \/ \E c \in Caller : LookUp(q, c)
                       \/ StoreCopy(q) \/ GetDownloadURL(q) \/ GiveUp(q)
                       \/ GetShared(q) \/ ReadRole(q) \/ SetShared(q)
  \/ SharedExpires \/ UrlExpires \/ Tick
  \/ \E c \in Caller : CopyExpires(c)

-----------------------------------------------------------------------------
(* Who has left is refused by every service once both caches have expired  *)
(* that may have been filled, one after the other, from a read before he   *)
(* left; and a download URL he was given ends its own time after that.     *)
AccessEnds ==
  ~belongs =>
    /\ \A c \in Caller : copy[c].held /\ copy[c].member => since <= SharedTTL + CopyTTL + 2
    /\ url.held => since <= SharedTTL + CopyTTL + UrlTTL + 3
=============================================================================
