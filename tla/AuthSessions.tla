------------------------------ MODULE AuthSessions ------------------------------
(***************************************************************************)
(* The sessions of one user of the auth service: login, refresh, logout,   *)
(* the reset of the password, and the OAuth authorization code             *)
(* (auth/internal/domain/service_impl.go, api/oauth.go), which issue the   *)
(* tokens that TokenVerification verifies.                                 *)
(*                                                                         *)
(* Only Register uses a transaction: in every other operation each         *)
(* statement is a step, and requests interleave between them.  The rate    *)
(* limit and a wrong password refuse a request before it changes anything. *)
(* A session is the chain of refresh tokens that began with a login; it is *)
(* named after the first.  Passwords are numbered: a reset makes the next. *)
(***************************************************************************)
EXTENDS TokenVerification

CONSTANTS
  Token,       \* refresh tokens
  Reset,       \* password reset tokens
  Code,        \* authorization codes
  Client,      \* OAuth clients
  Uri,         \* their redirect URIs, as the kinds of URI there are
  Verifier,    \* PKCE verifiers; a challenge is named after its verifier
  Request,     \* requests that may be in progress at once
  Scenarios    \* bounds: what happens in one behaviour, the clients there are at
               \* first, the requests there are, the requests at once, the
               \* requests cut short

ASSUME ConstantsAssumption ==
  \A x \in Scenarios : /\ {x.calls, x.atOnce, x.faults} \subseteq Nat
                        /\ x.clients \in [Client -> SUBSET Uri]

NoToken == [st |-> "absent", session |-> None, password |-> 0]
NoClaim == [client |-> None, uri |-> None, verifier |-> None]
NoCode == [st |-> "absent", password |-> 0, claim |-> NoClaim]
NoCall == [op |-> None, at |-> None, about |-> None, session |-> None, password |-> 0,
           key |-> None, claim |-> NoClaim]

VARIABLES
  password,    \* users.password_hash, as the number of the password
  token,       \* refresh_tokens: state, and of which session and password it is
  reset,       \* password_reset_tokens: "absent", "live", "expired" or "used"
  client,      \* Redis: of each client its redirect URIs, {} once it expired
  code,        \* Redis: the code, whom it is for, the password its user entered
  pc, call,    \* of each request: where it is, what it was asked and has read
  ended,       \* history: sessions ended by a logout, a reset or a reuse
  cleared,     \* history: the password whose reset has last revoked all tokens
  late,        \* history: tokens issued for a password after it was changed
  parallel,    \* history: sessions of which a token was revoked after a refresh
               \* had read it, and resets confirmed twice at a time or not to
               \* the end
  registered,  \* history: the URIs each client has ever registered
  grants,      \* history: of each code, whom it was exchanged by
  changes,     \* history: the passwords set with each reset
  scenario, calls, faults

tokenVars == <<token, ended, cleared, late, parallel, grants>>
resetVars == <<password, reset, changes>>
oauthVars == <<client, registered, code>>
requestVars == <<pc, call>>
bounds == <<scenario, calls, faults>>
vars == <<verifyVars, tokenVars, resetVars, oauthVars, requestVars, bounds>>

Init ==
  /\ VerifyInit
  /\ password = 0
  /\ token = [t \in Token |-> NoToken]
  /\ reset = [k \in Reset |-> "absent"]
  /\ code = [k \in Code |-> NoCode]
  /\ scenario \in Scenarios /\ calls = 0 /\ faults = 0
  /\ client = scenario.clients /\ registered = scenario.clients
  /\ pc = [r \in Request |-> "idle"]
  /\ call = [r \in Request |-> NoCall]
  /\ ended = {} /\ cleared = 0 /\ late = {} /\ parallel = {}
  /\ grants = [k \in Code |-> <<>>]
  /\ changes = [k \in Reset |-> 0]

Busy(r) == pc[r] # "idle"
Goto(r, label) == /\ pc' = [pc EXCEPT ![r] = label]
                  /\ call' = IF label = "idle" THEN [call EXCEPT ![r] = NoCall] ELSE call
Keep(r, label, c) == /\ pc' = [pc EXCEPT ![r] = label]
                     /\ call' = [call EXCEPT ![r] = c]
(* A request begins at a replica that is up, with its first read. *)
Ask(r, op) ==
  /\ ~Busy(r) /\ calls < scenario.calls /\ op \in scenario.ops
  /\ Cardinality({s \in Request : Busy(s)}) < scenario.atOnce
  /\ calls' = calls + 1
Up == {p \in Replica : replica[p] = "up"}
OnlyAsked == UNCHANGED <<verifyVars, scenario, faults>>
OnlyCalled == UNCHANGED <<verifyVars, bounds>>

Live == {t \in Token : token[t].st = "live"}
Revoke(ts) == [t \in Token |-> IF t \in ts /\ token[t].st # "absent"
                               THEN [token[t] EXCEPT !.st = "revoked"] ELSE token[t]]
(* Of the tokens revoked, those that another request is about to replace *)
Overtaken(ts, r) ==
  {token[t].session : t \in {u \in ts : /\ token[u].st # "revoked"
                                       /\ \E s \in Request \ {r} :
                                            pc[s] = "revoke" /\ call[s].about = u}}

-----------------------------------------------------------------------------
(* Login: the user is read and the password checked; then tokens are       *)
(* issued.                                                                 *)
Login(r) ==
  /\ Ask(r, "login")
  /\ \E p \in Up : Keep(r, "key", [NoCall EXCEPT !.op = "login", !.at = p, !.password = password])
  /\ OnlyAsked /\ UNCHANGED <<tokenVars, resetVars, oauthVars>>

(* ActiveKey; the access token is signed with it. *)
SignAccessToken(r) ==
  /\ pc[r] = "key"
  /\ LET p == call[r].at
     IN /\ signing' = [signing EXCEPT ![p] = KeyOf(p)]
        /\ Keep(r, "issue", [call[r] EXCEPT !.key = KeyOf(p)])
  /\ UNCHANGED <<keys, replica, signed, cacheVars, pat, check, tokenVars, resetVars, oauthVars, bounds>>

CreateRefreshToken(t, session, pass) ==
  [token EXCEPT ![t] = [st |-> "live", session |-> session, password |-> pass]]

(* The refresh token is stored, and the answer with both tokens.  The      *)
(* update of the old token's replaced_by that follows a refresh finds no   *)
(* row, since that token is revoked.                                       *)
IssuePair(r) ==
  /\ pc[r] = "issue"
  /\ \E t \in Token :
       /\ token[t].st = "absent"
       /\ LET c == call[r]
              session == IF c.op = "refresh" THEN c.session ELSE t
          IN /\ token' = CreateRefreshToken(t, session, c.password)
             /\ late' = IF c.password < password THEN late \cup {t} ELSE late
             /\ grants' = IF c.op = "exchange" THEN [grants EXCEPT ![c.about] = Append(@, c.claim)] ELSE grants
             /\ signed' = signed \cup {c.key}
  /\ Goto(r, "idle")
  /\ UNCHANGED <<keyVars, cacheVars, pat, check, ended, cleared, parallel, resetVars, oauthVars, bounds>>

TokenExpires(t) ==
  /\ t \in Live
  /\ token' = [token EXCEPT ![t].st = "expired"]
  /\ UNCHANGED <<verifyVars, ended, cleared, late, parallel, grants, resetVars, oauthVars, requestVars, bounds>>

-----------------------------------------------------------------------------
(* Refresh *)

GetRefreshTokenByHash(p, t) ==
  [NoCall EXCEPT !.op = "refresh", !.at = p, !.about = t, !.session = token[t].session,
                 !.password = token[t].password]

RefreshUnlessExpired(r) ==           \* mutant: does not look at revoked_at
  /\ Ask(r, "refresh")
  /\ \E p \in Up, t \in Token :
       /\ token[t].st \in {"live", "revoked"}
       /\ Keep(r, "revoke", GetRefreshTokenByHash(p, t))
  /\ OnlyAsked /\ UNCHANGED <<tokenVars, resetVars, oauthVars>>

(* A token that was revoked ends all sessions; an expired one is refused. *)
Refresh(r) ==
  /\ Ask(r, "refresh")
  /\ \E p \in Up, t \in Token :
       /\ token[t].st \in {"live", "revoked"}
       /\ Keep(r, IF token[t].st = "revoked" THEN "all" ELSE "revoke", GetRefreshTokenByHash(p, t))
  /\ OnlyAsked /\ UNCHANGED <<tokenVars, resetVars, oauthVars>>

(* UPDATE ... WHERE revoked_at IS NULL; whether it found the row is not    *)
(* looked at.                                                              *)
RevokeRefreshToken(r) ==
  /\ pc[r] = "revoke"
  /\ LET c == call[r]
     IN /\ token' = Revoke({c.about})
        /\ parallel' = parallel \cup Overtaken({c.about}, r)
        /\ Goto(r, "key")
  /\ OnlyCalled /\ UNCHANGED <<ended, cleared, late, grants, resetVars, oauthVars>>

(* The last step of a reset, and what a reused refresh token leads to.     *)
(* Sessions whose tokens have all expired or been revoked have ended       *)
(* before.                                                                 *)
RevokeAllUserTokens(r) ==
  /\ pc[r] = "all"
  /\ token' = Revoke(Token)
  /\ ended' = ended \cup {token[t].session : t \in Live}
  /\ cleared' = IF call[r].op = "confirm" /\ call[r].password > cleared
                THEN call[r].password ELSE cleared
  /\ parallel' = parallel \cup Overtaken(Token, r)
  /\ Goto(r, "idle")
  /\ OnlyCalled /\ UNCHANGED <<late, grants, resetVars, oauthVars>>

(* Logout: its read decides nothing. *)
Logout(r) ==
  /\ Ask(r, "logout")
  /\ \E t \in Token :
       /\ token[t].st # "absent"
       /\ token' = Revoke({t})
       /\ ended' = IF t \in Live THEN ended \cup {token[t].session} ELSE ended
       /\ parallel' = parallel \cup Overtaken({t}, r)
  /\ OnlyAsked /\ UNCHANGED <<requestVars, cleared, late, grants, resetVars, oauthVars>>

-----------------------------------------------------------------------------
(* The reset of the password *)

CreatePasswordResetToken(k) == reset[k] = "absent" /\ reset' = [reset EXCEPT ![k] = "live"]

RequestPasswordReset(r) ==
  /\ Ask(r, "reset")
  /\ \E k \in Reset : CreatePasswordResetToken(k)
  /\ OnlyAsked /\ UNCHANGED <<requestVars, tokenVars, password, changes, oauthVars>>

ResetExpires(k) ==
  /\ reset[k] = "live"
  /\ reset' = [reset EXCEPT ![k] = "expired"]
  /\ UNCHANGED <<verifyVars, tokenVars, password, changes, oauthVars, requestVars, bounds>>

Confirming(k) == {r \in Request : call[r].op = "confirm" /\ call[r].about = k}

ValidResetToken == {k \in Reset : reset[k] = "live"}

ConfirmPasswordReset(r) ==
  /\ Ask(r, "confirm")
  /\ \E k \in ValidResetToken :
       /\ Keep(r, "hash", [NoCall EXCEPT !.op = "confirm", !.about = k])
       /\ parallel' = IF Confirming(k) # {} THEN parallel \cup {k} ELSE parallel
  /\ OnlyAsked /\ UNCHANGED <<token, ended, cleared, late, grants, resetVars, oauthVars>>

UpdatePasswordHash(r) ==
  /\ pc[r] = "hash"
  /\ password' = password + 1
  /\ changes' = [changes EXCEPT ![call[r].about] = @ + 1]
  /\ Keep(r, "used", [call[r] EXCEPT !.password = password + 1])
  /\ OnlyCalled /\ UNCHANGED <<tokenVars, reset, oauthVars>>

MarkUsedOnly(r) ==                   \* mutant: the tokens stay
  /\ pc[r] = "used"
  /\ reset' = [reset EXCEPT ![call[r].about] = "used"]
  /\ cleared' = call[r].password
  /\ Goto(r, "idle")
  /\ OnlyCalled /\ UNCHANGED <<token, ended, late, parallel, grants, password, changes, oauthVars>>

MarkPasswordResetTokenUsed(r) ==
  /\ pc[r] = "used"
  /\ reset' = [reset EXCEPT ![call[r].about] = "used"]
  /\ Goto(r, "all")
  /\ OnlyCalled /\ UNCHANGED <<tokenVars, password, changes, oauthVars>>

-----------------------------------------------------------------------------
(* OAuth: registration, authorization code, exchange.  A request that is   *)
(* refused before it changes anything is left out.                         *)

IsAllowedRedirectURI(u) == u \in {"https", "loopback", "app"}

RegisterAny(r) ==                    \* mutant: URIs are not looked at
  /\ Ask(r, "register")
  /\ \E c \in Client, uris \in SUBSET Uri \ {{}} :
       /\ registered[c] = {}
       /\ client' = [client EXCEPT ![c] = uris]
       /\ registered' = [registered EXCEPT ![c] = uris]
  /\ OnlyAsked /\ UNCHANGED <<requestVars, tokenVars, resetVars, code>>

(* Dynamic registration: all URIs have to be allowed; the name is new. *)
RegisterClient(r) ==
  /\ Ask(r, "register")
  /\ \E c \in Client, uris \in SUBSET Uri \ {{}} :
       /\ registered[c] = {}
       /\ \A u \in uris : IsAllowedRedirectURI(u)
       /\ client' = [client EXCEPT ![c] = uris]
       /\ registered' = [registered EXCEPT ![c] = uris]
  /\ OnlyAsked /\ UNCHANGED <<requestVars, tokenVars, resetVars, code>>

ClientExpires(c) ==
  /\ client[c] # {}
  /\ client' = [client EXCEPT ![c] = {}]
  /\ UNCHANGED <<verifyVars, tokenVars, resetVars, registered, code, requestVars, bounds>>

(* The client is looked up; the URI has to be one of its own. *)
MayRedirect(claim) == claim.uri \in client[claim.client]

(* The page with the login is shown, for what it was asked with. *)
AuthorizeForm(r) ==
  /\ Ask(r, "authorize")
  /\ \E p \in Up, claim \in [client : Client, uri : Uri, verifier : Verifier] :
       /\ MayRedirect(claim)
       /\ Keep(r, "submit", [NoCall EXCEPT !.op = "authorize", !.at = p, !.claim = claim])
  /\ OnlyAsked /\ UNCHANGED <<tokenVars, resetVars, oauthVars>>

(* The form comes back and is checked as if it were new. *)
AuthorizeSubmit(r) ==
  /\ pc[r] = "submit"
  /\ Goto(r, IF MayRedirect(call[r].claim) THEN "user" ELSE "idle")
  /\ OnlyCalled /\ UNCHANGED <<tokenVars, resetVars, oauthVars>>

AuthenticateForOAuth(r) ==
  /\ pc[r] = "user"
  /\ Keep(r, "code", [call[r] EXCEPT !.password = password])
  /\ OnlyCalled /\ UNCHANGED <<tokenVars, resetVars, oauthVars>>

StoreCode(r) ==
  /\ pc[r] = "code"
  /\ \E k \in Code :
       /\ code[k].st = "absent"
       /\ code' = [code EXCEPT ![k] = [st |-> "live", password |-> call[r].password,
                                       claim |-> call[r].claim]]
  /\ Goto(r, "idle")
  /\ OnlyCalled /\ UNCHANGED <<tokenVars, resetVars, client, registered>>

CodeExpires(k) ==
  /\ code[k].st = "live"
  /\ code' = [code EXCEPT ![k].st = "gone"]
  /\ UNCHANGED <<verifyVars, tokenVars, resetVars, client, registered, requestVars, bounds>>

VerifyPKCE(verifier, challenge) == verifier # None /\ challenge # None /\ verifier = challenge

(* The token endpoint with what it was given *)
TokenAuthCode(r, k, claim) ==
  IF /\ claim.client = code[k].claim.client /\ claim.uri = code[k].claim.uri
     /\ VerifyPKCE(claim.verifier, code[k].claim.verifier)
  THEN \E p \in Up : Keep(r, "owner", [NoCall EXCEPT !.op = "exchange", !.at = p, !.about = k,
                                        !.password = code[k].password, !.claim = claim])
  ELSE UNCHANGED requestVars

GetCode(r) ==                        \* mutant: GET, not GETDEL
  /\ Ask(r, "exchange")
  /\ \E k \in Code :
       /\ code[k].st = "live"
       /\ \E claim \in {code[k].claim, NoClaim} : TokenAuthCode(r, k, claim)
  /\ OnlyAsked /\ UNCHANGED <<tokenVars, resetVars, oauthVars>>

(* GETDEL comes first: one who is refused has used up the code. *)
ConsumeCode(r) ==
  /\ Ask(r, "exchange")
  /\ \E k \in Code :
       /\ code[k].st = "live"
       /\ code' = [code EXCEPT ![k].st = "gone"]
       /\ \E claim \in {code[k].claim, NoClaim} : TokenAuthCode(r, k, claim)
  /\ OnlyAsked /\ UNCHANGED <<tokenVars, resetVars, client, registered>>

(* The user is read by his id: his password is not looked at again. *)
IssueTokensForUser(r) ==
  /\ pc[r] = "owner"
  /\ Goto(r, "key")
  /\ OnlyCalled /\ UNCHANGED <<tokenVars, resetVars, oauthVars>>

-----------------------------------------------------------------------------
(* A statement fails, or the process ends. *)
RequestFails(r) ==
  /\ Busy(r)
  /\ faults < scenario.faults /\ faults' = faults + 1
  /\ parallel' = IF pc[r] = "used" THEN parallel \cup {call[r].about} ELSE parallel
  /\ Goto(r, "idle")
  /\ UNCHANGED <<verifyVars, token, ended, cleared, late, grants, resetVars, oauthVars, scenario, calls>>

Session(r) ==
  \/ Login(r) \/ SignAccessToken(r) \/ IssuePair(r)
  \/ Refresh(r) \/ RevokeRefreshToken(r) \/ RevokeAllUserTokens(r) \/ Logout(r)
  \/ RequestPasswordReset(r) \/ ConfirmPasswordReset(r)
  \/ UpdatePasswordHash(r) \/ MarkPasswordResetTokenUsed(r)
  \/ RegisterClient(r) \/ AuthorizeForm(r) \/ AuthorizeSubmit(r)
  \/ AuthenticateForOAuth(r) \/ StoreCode(r) \/ ConsumeCode(r) \/ IssueTokensForUser(r)

Expiry ==
  \/ \E t \in Token : TokenExpires(t)
  \/ \E k \in Reset : ResetExpires(k)
  \/ \E k \in Code : CodeExpires(k)
  \/ \E c \in Client : ClientExpires(c)

OnlyVerifies == UNCHANGED <<tokenVars, resetVars, oauthVars, requestVars, bounds>>

Next ==
  \/ \E r \in Request : Session(r) \/ RequestFails(r)
  \/ "expiry" \in scenario.ops /\ Expiry
  \/ StartKeys /\ OnlyVerifies
  \/ "jwt" \in scenario.ops /\ VerifyJWT /\ OnlyVerifies
  \/ "pat" \in scenario.ops /\ VerifyPAT /\ OnlyVerifies

Spec == Init /\ [][Next]_vars

-----------------------------------------------------------------------------
(* A session has one refresh token that works, and none once it was ended  *)
(* by a logout, a reset or the reuse of a token, unless a refresh had read *)
(* a token that was revoked before it was replaced.                        *)
OneTokenPerSession ==
  \A s \in Token \ parallel :
    LET valid == {t \in Live : token[t].session = s}
    IN Cardinality(valid) <= IF s \in ended THEN 0 ELSE 1

(* Once a reset has ended, a token that a login with an older password led *)
(* to works only if it was issued after that password had been changed, by *)
(* a request or for a code that had checked it before.                     *)
OldPasswordOut ==
  \A t \in Live : token[t].password < cleared => t \in late

(* A code begins one session, of the client that asked for it, who got it  *)
(* at an allowed URI it had registered; and a reset token sets one password *)
(* unless it was confirmed twice at a time or a confirmation was cut short. *)
UsedOnce ==
  /\ \A k \in Code : /\ Len(grants[k]) <= 1
                      /\ \A i \in DOMAIN grants[k] :
                           LET claim == grants[k][i]
                           IN /\ claim = code[k].claim
                              /\ claim.uri \in registered[claim.client]
                              /\ IsAllowedRedirectURI(claim.uri)
  /\ \A k \in Reset \ parallel : changes[k] <= 1

-----------------------------------------------------------------------------
(* What the documentation says and the code does not keep *)

(* auth.md:1470: a refresh token is replaced by one. *)
OneTokenAlways ==
  \A s \in Token : Cardinality({t \in Live : token[t].session = s}) <= 1
=============================================================================
