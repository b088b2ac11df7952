--------------------------- MODULE TokenVerification ---------------------------
(***************************************************************************)
(* What the services accept: access tokens, signed with a key of the auth  *)
(* service (auth/internal/keys) that a service knows from the key set it   *)
(* fetched (shared/go/authmiddleware), and personal access tokens, which a *)
(* service has introspected (authclient).                                  *)
(*                                                                         *)
(* Caches expire at any time.  A fetch may fail, be refused by a breaker   *)
(* or time out at any time; nothing is kept then.  No key is ever retired: *)
(* nothing calls RetireSigningKey.                                         *)
(***************************************************************************)
EXTENDS Naturals, Sequences, FiniteSets, TLC

CONSTANTS
  Replica,     \* of the auth service; each creates at most one key, of its name
  Service,     \* processes that verify tokens
  Pat,         \* personal access tokens
  Check        \* verifications in progress at once

None == "none"
NoCheck == [pc |-> "idle", at |-> None, what |-> None, answer |-> {}, late |-> FALSE]

VARIABLES
  keys,        \* signing_keys, the newest last
  replica,     \* of each replica: "new", "creating" or "up"
  signing,     \* the manager's cached active key
  signed,      \* the keys some access token was signed with
  jwks,        \* the key set each service has fetched
  fresh,       \* is it younger than the cache's TTL?
  pat,         \* "absent", "live", "expired" or "revoked"
  entry,       \* the tokens each service has a cached answer for
  outdated,    \* history: those whose token was alive only when it was given
  check        \* of each verification: where it is, in which service, of what,
               \* the answer fetched, and whether that is out of date (PAT) or
               \* an older answer was stored after its own (key set)

keyVars == <<keys, replica, signing>>
cacheVars == <<jwks, fresh, entry, outdated>>
verifyVars == <<keyVars, signed, cacheVars, pat, check>>

VerifyInit ==
  /\ keys = << >> /\ signed = {}
  /\ replica = [p \in Replica |-> "new"]
  /\ signing = [p \in Replica |-> None]
  /\ jwks = [s \in Service |-> {}]
  /\ fresh = [s \in Service |-> FALSE]
  /\ pat = [a \in Pat |-> "absent"]
  /\ entry = [s \in Service |-> {}] /\ outdated = {}
  /\ check = [c \in Check |-> NoCheck]

-----------------------------------------------------------------------------
(* The signing keys *)

Stored == {keys[i] : i \in 1..Len(keys)}
ActiveSigningKey == keys[Len(keys)]

EnsureActiveKey(p) ==
  /\ replica[p] = "new"
  /\ replica' = [replica EXCEPT ![p] = IF keys = << >> THEN "creating" ELSE "up"]
  /\ UNCHANGED <<keys, signing, signed, cacheVars, pat, check>>

CreateSigningKey(p) ==
  /\ replica[p] = "creating"
  /\ keys' = Append(keys, p)
  /\ replica' = [replica EXCEPT ![p] = "up"]
  /\ UNCHANGED <<signing, signed, cacheVars, pat, check>>

(* Manager.ActiveKey: the key that replica p signs with now *)
KeyOf(p) == IF signing[p] # None THEN signing[p] ELSE ActiveSigningKey

KeyExpires(p) ==
  /\ signing[p] # None
  /\ signing' = [signing EXCEPT ![p] = None]
  /\ UNCHANGED <<keys, replica, signed, cacheVars, pat, check>>

-----------------------------------------------------------------------------
(* Verification of an access token *)

Step(c, label) == check' = [check EXCEPT ![c].pc = label]
Finish(c) == check' = [check EXCEPT ![c] = NoCheck]
Begin(c, s, what, label) ==
  /\ check[c] = NoCheck
  /\ check' = [check EXCEPT ![c] = [NoCheck EXCEPT !.pc = label, !.at = s, !.what = what]]

(* A key that is in the cached set needs no step: the token is accepted. *)
LookupCached(c, s, k) ==
  /\ k \in signed /\ ~(fresh[s] /\ k \in jwks[s])
  /\ Begin(c, s, k, "fetch")
  /\ UNCHANGED <<keyVars, signed, cacheVars, pat>>

ListActiveKeyOnly == {ActiveSigningKey}      \* mutant: without the older keys

ListValidatingSigningKeys == Stored

FetchKeys(c) ==
  /\ check[c].pc = "fetch"
  /\ check' = [check EXCEPT ![c].pc = "store", ![c].answer = ListValidatingSigningKeys]
  /\ UNCHANGED <<keyVars, signed, cacheVars, pat>>

(* The answers of two refreshes may be stored in the other order. *)
StoreKeys(c) ==
  /\ check[c].pc = "store"
  /\ LET s == check[c].at
     IN /\ jwks' = [jwks EXCEPT ![s] = check[c].answer]
        /\ fresh' = [fresh EXCEPT ![s] = TRUE]
        /\ check' = [d \in Check |->
                       IF d = c THEN [check[d] EXCEPT !.pc = "again"]
                       ELSE IF check[d].pc = "again" /\ check[d].at = s
                                 /\ ~(jwks[s] \subseteq check[c].answer)
                            THEN [check[d] EXCEPT !.late = TRUE] ELSE check[d]]
  /\ UNCHANGED <<keyVars, signed, entry, outdated, pat>>

(* The token is accepted if the key is there now. *)
LookupAgain(c) ==
  /\ check[c].pc = "again"
  /\ Finish(c)
  /\ UNCHANGED <<keyVars, signed, cacheVars, pat>>

KeySetExpires(s) ==
  /\ fresh[s]
  /\ fresh' = [fresh EXCEPT ![s] = FALSE]
  /\ UNCHANGED <<keyVars, signed, jwks, entry, outdated, pat, check>>

FetchFails(c) ==
  /\ check[c].pc \in {"fetch", "ask"}
  /\ Finish(c)
  /\ UNCHANGED <<keyVars, signed, cacheVars, pat>>

-----------------------------------------------------------------------------
(* Personal access tokens *)

CreatePAT(a) ==
  /\ pat[a] = "absent"
  /\ pat' = [pat EXCEPT ![a] = "live"]
  /\ UNCHANGED <<keyVars, signed, cacheVars, check>>

(* The token ends; answers given before are out of date from now on. *)
End(a, state) ==
  /\ pat' = [pat EXCEPT ![a] = state]
  /\ outdated' = outdated \cup {<<s, a>> : s \in {x \in Service : a \in entry[x]}}
  /\ check' = [c \in Check |-> IF check[c].what = a /\ check[c].pc = "keep"
                               THEN [check[c] EXCEPT !.late = TRUE] ELSE check[c]]
  /\ UNCHANGED <<keyVars, signed, jwks, fresh, entry>>

RevokePAT(a) == pat[a] \in {"live", "expired"} /\ End(a, "revoked")
PATExpires(a) == pat[a] = "live" /\ End(a, "expired")

(* An answer in the cache needs no step: the token is accepted. *)
Introspect(c, s, a) ==
  /\ pat[a] # "absent" /\ a \notin entry[s]
  /\ Begin(c, s, a, "ask")
  /\ UNCHANGED <<keyVars, signed, cacheVars, pat>>

(* The token's row, read with its hash *)
GetPersonalAccessTokenByHash(a) == pat[a]

IntrospectExpiryOnly(c) ==           \* mutant: does not look at revoked_at
  /\ check[c].pc = "ask"
  /\ IF GetPersonalAccessTokenByHash(check[c].what) # "expired" THEN Step(c, "keep") ELSE Finish(c)
  /\ UNCHANGED <<keyVars, signed, cacheVars, pat>>

IntrospectPAT(c) ==
  /\ check[c].pc = "ask"
  /\ IF GetPersonalAccessTokenByHash(check[c].what) = "live" THEN Step(c, "keep") ELSE Finish(c)
  /\ UNCHANGED <<keyVars, signed, cacheVars, pat>>

KeepAnswer(c) ==
  /\ check[c].pc = "keep"
  /\ LET s == check[c].at  a == check[c].what
     IN /\ entry' = [entry EXCEPT ![s] = @ \cup {a}]
        /\ outdated' = IF check[c].late THEN outdated \cup {<<s, a>>} ELSE outdated \ {<<s, a>>}
  /\ Finish(c)
  /\ UNCHANGED <<keyVars, signed, jwks, fresh, pat>>

AnswerExpires(s, a) ==
  /\ a \in entry[s]
  /\ entry' = [entry EXCEPT ![s] = @ \ {a}]
  /\ outdated' = outdated \ {<<s, a>>}
  /\ UNCHANGED <<keyVars, signed, jwks, fresh, pat, check>>

-----------------------------------------------------------------------------
StartKeys == \E p \in Replica : EnsureActiveKey(p) \/ CreateSigningKey(p) \/ KeyExpires(p)

VerifyJWT ==
  \/ \E c \in Check, s \in Service, k \in Replica : LookupCached(c, s, k)
  \/ \E c \in Check : FetchKeys(c) \/ StoreKeys(c) \/ LookupAgain(c) \/ FetchFails(c)
  \/ \E s \in Service : KeySetExpires(s)

VerifyPAT ==
  \/ \E a \in Pat : CreatePAT(a) \/ RevokePAT(a) \/ PATExpires(a)
  \/ \E c \in Check, s \in Service, a \in Pat : Introspect(c, s, a)
  \/ \E c \in Check : IntrospectPAT(c) \/ KeepAnswer(c) \/ FetchFails(c)
  \/ \E s \in Service, a \in Pat : AnswerExpires(s, a)

-----------------------------------------------------------------------------
(* A service that has refreshed its key set finds in it the key of any     *)
(* token that was ever issued, although replicas that start together       *)
(* create a key each and go on signing with a cached one: a valid token is *)
(* refused only if an answer older than its own refresh was stored later.  *)
RefreshFindsKey ==
  \A c \in Check :
    check[c].pc = "again" /\ ~check[c].late => check[c].what \in jwks[check[c].at]

(* A revoked or expired personal access token is accepted only on an       *)
(* answer that was given before it ended, and for one TTL of the cache.    *)
EndedPatRefused ==
  \A s \in Service : \A a \in entry[s] : pat[a] # "live" => <<s, a>> \in outdated
=============================================================================
