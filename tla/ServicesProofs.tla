----------------------------- MODULE ServicesProofs -----------------------------
(***************************************************************************)
(* What TLAPS proves of what every service relies on: of AuthSessions with *)
(* TokenVerification, LoginLimit, McpGate, PermissionChain, ServiceProcess *)
(* and of their composition in MCServices, for any replicas, tokens,       *)
(* requests, limits, TTLs and any number of faults.                        *)
(***************************************************************************)
EXTENDS MCServices, FiniteSetTheorems, TLAPS

-----------------------------------------------------------------------------
(* AuthSessions: the types, and what a request is about where it stands.   *)

Label == {"idle", "key", "issue", "revoke", "all", "hash", "used", "submit", "user",
          "code", "owner"}
Claim == [client : Client \cup {None}, uri : Uri \cup {None}, verifier : Verifier \cup {None}]
CallRecord ==
  [op : {None, "login", "refresh", "confirm", "authorize", "exchange"},
   at : Replica \cup {None}, about : Token \cup Reset \cup Code \cup {None},
   session : Token \cup {None}, password : Nat, key : Replica \cup {None}, claim : Claim]
TokenRecord == [st : {"absent", "live", "expired", "revoked"}, session : Token \cup {None},
                password : Nat]
CodeRecord == [st : {"absent", "live", "gone"}, password : Nat, claim : Claim]
CheckRecord ==
  [pc : {"idle", "fetch", "store", "again", "ask", "keep"}, at : Service \cup {None},
   what : Replica \cup Pat \cup {None}, answer : SUBSET Replica, late : BOOLEAN]

Sited(rec) == /\ rec.pc # "idle" => rec.at \in Service
              /\ rec.pc \in {"ask", "keep"} => rec.what \in Pat

VerifyTypes ==
  /\ keys \in Seq(Replica)
  /\ replica \in [Replica -> {"new", "creating", "up"}]
  /\ signing \in [Replica -> Replica \cup {None}]
  /\ jwks \in [Service -> SUBSET Replica]
  /\ pat \in [Pat -> {"absent", "live", "expired", "revoked"}]
  /\ entry \in [Service -> SUBSET Pat]
  /\ check \in [Check -> CheckRecord]
  /\ \A c \in Check : Sited(check[c])

RowTypes ==
  /\ password \in Nat /\ cleared \in Nat
  /\ token \in [Token -> TokenRecord]
  /\ reset \in [Reset -> {"absent", "live", "expired", "used"}]
  /\ client \in [Client -> SUBSET Uri]
  /\ registered \in [Client -> SUBSET Uri]
  /\ code \in [Code -> CodeRecord]
  /\ grants \in [Code -> Seq(Claim)]
  /\ changes \in [Reset -> Nat]

CallTypes == pc \in [Request -> Label] /\ call \in [Request -> CallRecord]

(* Where a request stands determines what it is about. *)
Placed(r) ==
  /\ pc[r] = "idle" => call[r] = NoCall
  /\ pc[r] = "revoke" => call[r].op = "refresh"
  /\ pc[r] \in {"key", "issue"} => call[r].op \in {"login", "refresh", "exchange"}
  /\ pc[r] = "all" => call[r].op \in {"refresh", "confirm"}
  /\ pc[r] \in {"hash", "used"} => call[r].op = "confirm"
  /\ pc[r] \in {"submit", "user", "code"} => call[r].op = "authorize"
  /\ pc[r] = "owner" => call[r].op = "exchange"
  /\ call[r].op = "refresh" => call[r].about \in Token
  /\ call[r].op = "confirm" => call[r].about \in Reset
  /\ call[r].op = "exchange" => call[r].about \in Code

Basics == VerifyTypes /\ RowTypes /\ CallTypes /\ \A r \in Request : Placed(r)

LEMMA NoCallFacts ==
  /\ NoCall \in CallRecord /\ NoCall.op = None
  /\ NoCall.op \notin {"login", "refresh", "confirm", "authorize", "exchange"}
  /\ NoClaim \in Claim
  BY DEF NoCall, NoClaim, CallRecord, Claim, None

LEMMA NoCheckFacts == NoCheck \in CheckRecord /\ NoCheck.pc = "idle" /\ Sited(NoCheck)
  BY DEF NoCheck, CheckRecord, None, Sited

(* One request is at another label, and has c in hand. *)
Moves(r, label, c) ==
  /\ pc'[r] = label /\ call'[r] = c
  /\ \A s \in Request \ {r} : pc'[s] = pc[s] /\ call'[s] = call[s]

LEMMA KeepMoves ==
  ASSUME CallTypes, NEW r \in Request, NEW label \in Label, NEW c \in CallRecord,
         Keep(r, label, c)
  PROVE  CallTypes' /\ Moves(r, label, c)
  BY DEF CallTypes, Keep, Moves

LEMMA GotoMoves ==
  ASSUME CallTypes, NEW r \in Request, NEW label \in Label, Goto(r, label)
  PROVE  CallTypes' /\ Moves(r, label, IF label = "idle" THEN NoCall ELSE call[r])
  BY NoCallFacts DEF CallTypes, Goto, Moves

LEMMA BasicsInit ==
  ASSUME Init
  PROVE  Basics
<1>1. VerifyTypes
  BY NoCheckFacts DEF Init, VerifyInit, VerifyTypes, None
<1>2. RowTypes
  <2>1. NoToken \in TokenRecord /\ NoCode \in CodeRecord
    BY NoCallFacts DEF NoToken, NoCode, TokenRecord, CodeRecord, None
  <2>2. scenario.clients \in [Client -> SUBSET Uri]
    BY ConstantsAssumption DEF Init
  <2> QED BY <2>1, <2>2 DEF Init, RowTypes
<1>3. CallTypes /\ \A r \in Request : Placed(r)
  BY NoCallFacts DEF Init, CallTypes, Placed, Label
<1> QED BY <1>1, <1>2, <1>3 DEF Basics

(* What the requests and the time do to the rows' types *)
LEMMA RevokeGives ==
  ASSUME RowTypes, NEW ts
  PROVE  /\ Revoke(ts) \in [Token -> TokenRecord]
         /\ \A t \in Token : /\ Revoke(ts)[t].session = token[t].session
                             /\ Revoke(ts)[t].password = token[t].password
                             /\ t \notin ts => Revoke(ts)[t] = token[t]
                             /\ t \in ts /\ token[t].st # "absent" =>
                                  Revoke(ts)[t].st = "revoked"
                             /\ token[t].st = "absent" <=> Revoke(ts)[t].st = "absent"
  BY DEF Revoke, RowTypes, TokenRecord

(* The steps of the verification leave the rest, and vice versa. *)
LEMMA VerifyBasics ==
  ASSUME Basics, StartKeys \/ VerifyJWT \/ VerifyPAT, OnlyVerifies
  PROVE  Basics'
<1> USE DEF Basics
<1>0. UNCHANGED <<password, cleared, token, reset, client, registered, code, grants, changes,
                 pc, call>>
  BY DEF OnlyVerifies, tokenVars, resetVars, oauthVars, requestVars
<1>1. RowTypes' /\ CallTypes' /\ \A r \in Request : Placed(r)'
  BY <1>0 DEF RowTypes, CallTypes, Placed
<1>2. CASE StartKeys
  <2>1. PICK p \in Replica : EnsureActiveKey(p) \/ CreateSigningKey(p) \/ KeyExpires(p)
    BY <1>2 DEF StartKeys
  <2>2. UNCHANGED <<jwks, pat, entry, check>>
    BY <2>1 DEF EnsureActiveKey, CreateSigningKey, KeyExpires, cacheVars
  <2>3. /\ keys' \in Seq(Replica)
        /\ replica' \in [Replica -> {"new", "creating", "up"}]
        /\ signing' \in [Replica -> Replica \cup {None}]
    <3>1. CASE EnsureActiveKey(p) BY <3>1 DEF EnsureActiveKey, VerifyTypes
    <3>2. CASE CreateSigningKey(p)
      <4>1. Append(keys, p) \in Seq(Replica) BY DEF VerifyTypes
      <4> QED BY <3>2, <4>1 DEF CreateSigningKey, VerifyTypes
    <3>3. CASE KeyExpires(p) BY <3>3 DEF KeyExpires, VerifyTypes
    <3> QED BY <2>1, <3>1, <3>2, <3>3
  <2> QED BY <1>1, <2>2, <2>3 DEF VerifyTypes
<1>3. ASSUME NEW c \in Check, NEW rec \in CheckRecord, check' = [check EXCEPT ![c] = rec],
             Sited(rec)
      PROVE  /\ check' \in [Check -> CheckRecord]
             /\ \A d \in Check : Sited(check'[d])
  BY <1>3 DEF VerifyTypes
<1>4. CASE VerifyJWT
  <2>0. UNCHANGED <<keys, replica, signing, pat, entry>>
    BY <1>4 DEF VerifyJWT, LookupCached, FetchKeys, StoreKeys, LookupAgain, FetchFails,
       KeySetExpires, keyVars, cacheVars
  <2>1. ASSUME NEW c \in Check, NEW s \in Service, NEW k \in Replica, LookupCached(c, s, k)
        PROVE  VerifyTypes'
    <3>1. [NoCheck EXCEPT !.pc = "fetch", !.at = s, !.what = k] \in CheckRecord
      BY DEF NoCheck, CheckRecord
    <3>2. Sited([NoCheck EXCEPT !.pc = "fetch", !.at = s, !.what = k])
      BY DEF NoCheck, Sited
    <3> QED BY <1>3, <2>0, <2>1, <3>1, <3>2 DEF LookupCached, Begin, cacheVars, VerifyTypes
  <2>2. ASSUME NEW c \in Check, FetchKeys(c) PROVE VerifyTypes'
    <3>1. Stored \subseteq Replica
      BY DEF Stored, VerifyTypes
    <3>2. [check[c] EXCEPT !.pc = "store", !.answer = Stored] \in CheckRecord
      BY <3>1 DEF VerifyTypes, CheckRecord
    <3>3. Sited([check[c] EXCEPT !.pc = "store", !.answer = Stored])
      BY <2>2 DEF FetchKeys, VerifyTypes, CheckRecord, Sited
    <3>4. check' = [check EXCEPT ![c] = [check[c] EXCEPT !.pc = "store", !.answer = Stored]]
      BY <2>2 DEF FetchKeys, ListValidatingSigningKeys, VerifyTypes
    <3> QED BY <1>3, <2>0, <2>2, <3>2, <3>3, <3>4 DEF FetchKeys, cacheVars, VerifyTypes
  <2>3. ASSUME NEW c \in Check, StoreKeys(c) PROVE VerifyTypes'
    <3>1. check[c] \in CheckRecord /\ check[c].at \in Service
      BY <2>3 DEF StoreKeys, VerifyTypes, Sited
    <3>2. jwks' \in [Service -> SUBSET Replica]
      BY <2>3, <3>1 DEF StoreKeys, VerifyTypes, CheckRecord
    <3>3. ASSUME NEW d \in Check
          PROVE  check'[d] \in CheckRecord /\ Sited(check'[d])
      <4>0. check[d] \in CheckRecord /\ Sited(check[d])
        BY DEF VerifyTypes
      <4>1. CASE d = c
        <5>1. check'[d] = [check[d] EXCEPT !.pc = "again"]
          BY <2>3, <4>1 DEF StoreKeys
        <5> QED BY <3>1, <4>0, <4>1, <5>1 DEF CheckRecord, Sited
      <4>2. CASE check'[d] = check[d]
        BY <4>0, <4>2
      <4>3. CASE check'[d] = [check[d] EXCEPT !.late = TRUE]
        BY <4>0, <4>3 DEF CheckRecord, Sited
      <4> QED BY <2>3, <4>1, <4>2, <4>3 DEF StoreKeys
    <3>4. check' \in [Check -> CheckRecord]
      <4>1. check' = [d \in Check |-> check'[d]]
        BY <2>3 DEF StoreKeys
      <4> QED BY <3>3, <4>1
    <3> QED BY <2>0, <3>2, <3>3, <3>4 DEF VerifyTypes
  <2>4. ASSUME NEW c \in Check, LookupAgain(c) \/ FetchFails(c) PROVE VerifyTypes'
    <3>1. check' = [check EXCEPT ![c] = NoCheck] /\ jwks' = jwks
      BY <2>4 DEF LookupAgain, FetchFails, Finish, cacheVars
    <3> QED BY <1>3, <2>0, <3>1, NoCheckFacts DEF VerifyTypes
  <2>5. ASSUME NEW s \in Service, KeySetExpires(s) PROVE VerifyTypes'
    BY <2>0, <2>5 DEF KeySetExpires, VerifyTypes
  <2> QED BY <1>1, <1>4, <2>1, <2>2, <2>3, <2>4, <2>5 DEF VerifyJWT
<1>5. CASE VerifyPAT
  <2>0. UNCHANGED <<keys, replica, signing, jwks>>
    BY <1>5 DEF VerifyPAT, CreatePAT, RevokePAT, PATExpires, End, Introspect, IntrospectPAT,
       KeepAnswer, FetchFails, AnswerExpires, keyVars, cacheVars
  <2>1. ASSUME NEW a \in Pat, CreatePAT(a) PROVE VerifyTypes'
    BY <2>0, <2>1 DEF CreatePAT, VerifyTypes, cacheVars
  <2>2. ASSUME NEW a \in Pat, NEW state \in {"revoked", "expired"}, End(a, state)
        PROVE  VerifyTypes'
    <3>1. ASSUME NEW d \in Check
          PROVE  check'[d] \in CheckRecord /\ Sited(check'[d])
      <4>1. check'[d] \in {check[d], [check[d] EXCEPT !.late = TRUE]}
        BY <2>2 DEF End
      <4>2. check[d] \in CheckRecord /\ Sited(check[d])
        BY DEF VerifyTypes
      <4>3. CASE check'[d] = [check[d] EXCEPT !.late = TRUE]
        BY <4>2, <4>3 DEF CheckRecord, Sited
      <4> QED BY <4>1, <4>2, <4>3
    <3>2. check' = [d \in Check |-> check'[d]]
      BY <2>2 DEF End
    <3>3. check' \in [Check -> CheckRecord]
      BY <3>1, <3>2
    <3>4. pat' \in [Pat -> {"absent", "live", "expired", "revoked"}] /\ entry' = entry
      BY <2>2 DEF End, VerifyTypes
    <3> QED BY <2>0, <3>1, <3>3, <3>4 DEF VerifyTypes
  <2>3. ASSUME NEW c \in Check, NEW s \in Service, NEW a \in Pat, Introspect(c, s, a)
        PROVE  VerifyTypes'
    <3>1. [NoCheck EXCEPT !.pc = "ask", !.at = s, !.what = a] \in CheckRecord
      BY DEF NoCheck, CheckRecord
    <3>2. Sited([NoCheck EXCEPT !.pc = "ask", !.at = s, !.what = a])
      BY DEF NoCheck, Sited
    <3> QED BY <1>3, <2>0, <2>3, <3>1, <3>2 DEF Introspect, Begin, cacheVars, VerifyTypes
  <2>4. ASSUME NEW c \in Check, IntrospectPAT(c) \/ FetchFails(c) PROVE VerifyTypes'
    <3>0. UNCHANGED <<pat, entry>>
      BY <2>4 DEF IntrospectPAT, FetchFails, cacheVars
    <3>1. CASE Finish(c)
      BY <1>3, <2>0, <3>0, <3>1, NoCheckFacts DEF Finish, VerifyTypes
    <3>2. CASE IntrospectPAT(c) /\ Step(c, "keep")
      <4>1. check' = [check EXCEPT ![c] = [check[c] EXCEPT !.pc = "keep"]]
        BY <3>2 DEF Step, VerifyTypes
      <4>2. /\ [check[c] EXCEPT !.pc = "keep"] \in CheckRecord
            /\ Sited([check[c] EXCEPT !.pc = "keep"])
        BY <3>2 DEF IntrospectPAT, VerifyTypes, CheckRecord, Sited
      <4> QED BY <1>3, <2>0, <3>0, <4>1, <4>2 DEF VerifyTypes
    <3> QED BY <2>4, <3>1, <3>2 DEF IntrospectPAT, FetchFails
  <2>5. ASSUME NEW c \in Check, KeepAnswer(c) PROVE VerifyTypes'
    <3>1. entry' \in [Service -> SUBSET Pat]
      <4>1. check[c].what \in Pat /\ check[c].at \in Service
        BY <2>5 DEF KeepAnswer, VerifyTypes, Sited
      <4> QED BY <2>5, <4>1 DEF KeepAnswer, VerifyTypes
    <3> QED BY <1>3, <2>0, <2>5, <3>1, NoCheckFacts DEF KeepAnswer, Finish, VerifyTypes
  <2>6. ASSUME NEW s \in Service, NEW a \in Pat, AnswerExpires(s, a) PROVE VerifyTypes'
    BY <2>0, <2>6 DEF AnswerExpires, VerifyTypes
  <2> QED BY <1>1, <1>5, <2>1, <2>2, <2>3, <2>4, <2>5, <2>6
             DEF VerifyPAT, RevokePAT, PATExpires
<1> QED BY <1>2, <1>4, <1>5

(* Nothing else befalls the verification than a key that is cached. *)
LEMMA UnverifiedBasics ==
  ASSUME VerifyTypes, UNCHANGED <<keys, replica, jwks, pat, entry, check>>,
         signing' \in [Replica -> Replica \cup {None}]
  PROVE  VerifyTypes'
  BY DEF VerifyTypes

(* Requests other than r stay placed. *)
LEMMA MovedPlaced ==
  ASSUME \A r \in Request : Placed(r), NEW r \in Request, NEW label, NEW c, Moves(r, label, c),
         Placed(r)'
  PROVE  \A s \in Request : Placed(s)'
<1>1. ASSUME NEW s \in Request, s # r PROVE Placed(s)'
  BY <1>1 DEF Placed, Moves
<1> QED BY <1>1

(* The rows that a request does not touch keep their types. *)
LEMMA KeyOfType ==
  ASSUME VerifyTypes, NEW p \in Replica, replica[p] = "up" => keys # <<>>,
         replica[p] = "up"
  PROVE  KeyOf(p) \in Replica
<1>1. keys[Len(keys)] \in Replica
  BY DEF VerifyTypes
<1> QED BY <1>1 DEF KeyOf, ActiveSigningKey, VerifyTypes

(* A replica that is up has found or stored a key, and stays up. *)
UpInv ==
  /\ \A p \in Replica : replica[p] = "up" => keys # <<>>
  /\ \A r \in Request : pc[r] \in {"key", "revoke", "owner"} => call[r].at \in Up

LEMMA UpInit == ASSUME Init PROVE UpInv
  BY DEF Init, VerifyInit, UpInv

(* Steps of requests that keep the tokens' rows but perhaps move on *)
LEMMA BeginBasics ==
  ASSUME Basics, UpInv, NEW r \in Request,
         Login(r) \/ SignAccessToken(r) \/ Refresh(r) \/ ConfirmPasswordReset(r)
           \/ AuthorizeForm(r) \/ AuthenticateForOAuth(r)
  PROVE  Basics'
<1> USE DEF Basics
<1>1. ASSUME UNCHANGED <<keys, replica, jwks, pat, entry, check>>,
             signing' \in [Replica -> Replica \cup {None}],
             UNCHANGED <<password, cleared, token, reset, client, registered, code, grants,
                         changes>>,
             NEW label \in Label, NEW c \in CallRecord, Keep(r, label, c),
             label # "idle",
             label = "revoke" => c.op = "refresh",
             label \in {"key", "issue"} => c.op \in {"login", "refresh", "exchange"},
             label = "all" => c.op \in {"refresh", "confirm"},
             label \in {"hash", "used"} => c.op = "confirm",
             label \in {"submit", "user", "code"} => c.op = "authorize",
             label = "owner" => c.op = "exchange",
             c.op = "refresh" => c.about \in Token,
             c.op = "confirm" => c.about \in Reset,
             c.op = "exchange" => c.about \in Code
      PROVE  Basics'
  <2>1. VerifyTypes' /\ RowTypes'
    BY <1>1, UnverifiedBasics DEF RowTypes
  <2>2. CallTypes' /\ Moves(r, label, c)
    BY <1>1, KeepMoves
  <2>3. Placed(r)'
    BY <1>1, <2>2 DEF Placed, Moves
  <2> QED BY <2>1, <2>2, <2>3, MovedPlaced
<1>2. signing \in [Replica -> Replica \cup {None}]
  BY DEF VerifyTypes
<1>3. CASE Login(r)
  <2>1. PICK p \in Up :
          Keep(r, "key", [NoCall EXCEPT !.op = "login", !.at = p, !.password = password])
    BY <1>3 DEF Login
  <2> DEFINE c == [NoCall EXCEPT !.op = "login", !.at = p, !.password = password]
  <2>2. c \in CallRecord /\ c.op = "login"
    BY NoCallFacts DEF RowTypes, CallRecord, Up
  <2> HIDE DEF c
  <2>3. /\ UNCHANGED <<keys, replica, signing, jwks, pat, entry, check>>
        /\ UNCHANGED <<password, cleared, token, reset, client, registered, code, grants,
                       changes>>
    BY <1>3 DEF Login, OnlyAsked, verifyVars, keyVars, cacheVars, tokenVars, resetVars, oauthVars
  <2> QED BY <1>1, <1>2, <2>1, <2>2, <2>3 DEF Label, c
<1>4. CASE SignAccessToken(r)
  <2> DEFINE p == call[r].at
             c == [call[r] EXCEPT !.key = KeyOf(p)]
  <2>1. pc[r] = "key" /\ p \in Replica /\ KeyOf(p) \in Replica
    BY <1>4, KeyOfType DEF SignAccessToken, UpInv, Up
  <2>2. /\ c \in CallRecord /\ c.op = call[r].op /\ c.about = call[r].about
        /\ call[r].op \in {"login", "refresh", "exchange"}
    BY <2>1 DEF CallTypes, CallRecord, Placed
  <2>3. /\ UNCHANGED <<keys, replica, jwks, pat, entry, check>>
        /\ UNCHANGED <<password, cleared, token, reset, client, registered, code, grants,
                       changes>>
    BY <1>4 DEF SignAccessToken, cacheVars, tokenVars, resetVars, oauthVars
  <2>4. signing' \in [Replica -> Replica \cup {None}] /\ Keep(r, "issue", c)
    BY <1>2, <1>4, <2>1 DEF SignAccessToken
  <2>5. Placed(r) OBVIOUS
  <2> HIDE DEF c
  <2> QED BY <1>1, <2>2, <2>3, <2>4, <2>5 DEF Label, Placed
<1>5. CASE Refresh(r)
  <2>1. PICK p \in Up, t \in Token, label \in {"all", "revoke"} :
          Keep(r, label, GetRefreshTokenByHash(p, t))
    BY <1>5 DEF Refresh
  <2> DEFINE c == GetRefreshTokenByHash(p, t)
  <2>2. c \in CallRecord /\ c.op = "refresh" /\ c.about = t
    BY NoCallFacts DEF RowTypes, TokenRecord, CallRecord, Up, GetRefreshTokenByHash
  <2> HIDE DEF c
  <2>3. /\ UNCHANGED <<keys, replica, signing, jwks, pat, entry, check>>
        /\ UNCHANGED <<password, cleared, token, reset, client, registered, code, grants,
                       changes>>
    BY <1>5 DEF Refresh, OnlyAsked, verifyVars, keyVars, cacheVars, tokenVars, resetVars,
       oauthVars
  <2> QED BY <1>1, <1>2, <2>1, <2>2, <2>3 DEF Label, c
<1>6. CASE ConfirmPasswordReset(r)
  <2>1. PICK k \in ValidResetToken :
          Keep(r, "hash", [NoCall EXCEPT !.op = "confirm", !.about = k])
    BY <1>6 DEF ConfirmPasswordReset
  <2> DEFINE c == [NoCall EXCEPT !.op = "confirm", !.about = k]
  <2>2. c \in CallRecord /\ c.op = "confirm" /\ c.about = k /\ k \in Reset
    BY NoCallFacts DEF CallRecord, ValidResetToken
  <2> HIDE DEF c
  <2>3. /\ UNCHANGED <<keys, replica, signing, jwks, pat, entry, check>>
        /\ UNCHANGED <<password, cleared, token, reset, client, registered, code, grants,
                       changes>>
    BY <1>6 DEF ConfirmPasswordReset, OnlyAsked, verifyVars, keyVars, cacheVars, resetVars,
       oauthVars
  <2> QED BY <1>1, <1>2, <2>1, <2>2, <2>3 DEF Label, c
<1>7. CASE AuthorizeForm(r)
  <2>1. PICK p \in Up, claim \in [client : Client, uri : Uri, verifier : Verifier] :
          Keep(r, "submit", [NoCall EXCEPT !.op = "authorize", !.at = p, !.claim = claim])
    BY <1>7 DEF AuthorizeForm
  <2> DEFINE c == [NoCall EXCEPT !.op = "authorize", !.at = p, !.claim = claim]
  <2>2. c \in CallRecord /\ c.op = "authorize"
    BY NoCallFacts DEF CallRecord, Claim, Up
  <2> HIDE DEF c
  <2>3. /\ UNCHANGED <<keys, replica, signing, jwks, pat, entry, check>>
        /\ UNCHANGED <<password, cleared, token, reset, client, registered, code, grants,
                       changes>>
    BY <1>7 DEF AuthorizeForm, OnlyAsked, verifyVars, keyVars, cacheVars, tokenVars, resetVars,
       oauthVars
  <2> QED BY <1>1, <1>2, <2>1, <2>2, <2>3 DEF Label, c
<1>8. CASE AuthenticateForOAuth(r)
  <2> DEFINE c == [call[r] EXCEPT !.password = password]
  <2>1. c \in CallRecord /\ c.op = "authorize"
    BY <1>8, ZenonT(30) DEF AuthenticateForOAuth, CallTypes, CallRecord, RowTypes, Placed
  <2>2. Keep(r, "code", c)
    BY <1>8 DEF AuthenticateForOAuth
  <2> HIDE DEF c
  <2>3. /\ UNCHANGED <<keys, replica, signing, jwks, pat, entry, check>>
        /\ UNCHANGED <<password, cleared, token, reset, client, registered, code, grants,
                       changes>>
    BY <1>8 DEF AuthenticateForOAuth, OnlyCalled, verifyVars, keyVars, cacheVars, tokenVars,
       resetVars, oauthVars
  <2> QED BY <1>1, <1>2, <2>1, <2>2, <2>3 DEF Label
<1> QED BY <1>3, <1>4, <1>5, <1>6, <1>7, <1>8

(* Steps of requests that change rows, and go on or end *)
LEMMA EndBasics ==
  ASSUME Basics, NEW r \in Request,
         \/ IssuePair(r) \/ RevokeRefreshToken(r) \/ RevokeAllUserTokens(r)
         \/ MarkPasswordResetTokenUsed(r) \/ AuthorizeSubmit(r) \/ StoreCode(r)
         \/ IssueTokensForUser(r) \/ RequestFails(r)
  PROVE  Basics'
<1> USE DEF Basics
<1>1. /\ UNCHANGED <<keys, replica, signing, jwks, pat, entry, check>>
      /\ UNCHANGED <<password, client, registered, changes>>
  BY DEF IssuePair, RevokeRefreshToken, RevokeAllUserTokens, MarkPasswordResetTokenUsed,
     AuthorizeSubmit, StoreCode, IssueTokensForUser, RequestFails, OnlyCalled, verifyVars,
     keyVars, cacheVars, tokenVars, resetVars, oauthVars
<1>2. VerifyTypes'
  BY <1>1, UnverifiedBasics DEF VerifyTypes
<1>3. ASSUME RowTypes', NEW label \in Label, Goto(r, label),
             label \notin {"revoke", "issue", "hash", "used", "submit", "owner", "code"},
             label = "key" => call[r].op \in {"refresh", "exchange"},
             label = "all" => call[r].op = "confirm",
             label = "user" => call[r].op = "authorize"
      PROVE  Basics'
  <2>1. CallTypes' /\ Moves(r, label, IF label = "idle" THEN NoCall ELSE call[r])
    BY <1>3, GotoMoves
  <2>2. Placed(r)'
    BY <1>3, <2>1, NoCallFacts DEF Placed, Moves
  <2> QED BY <1>2, <1>3, <2>1, <2>2, MovedPlaced
<1>4. call[r] \in CallRecord /\ Placed(r)
  BY DEF CallTypes
<1>5. CASE IssuePair(r)
  <2>1. PICK t \in Token :
          LET c == call[r]
              session == IF c.op = "refresh" THEN c.session ELSE t
          IN /\ token' = CreateRefreshToken(t, session, c.password)
             /\ grants' = IF c.op = "exchange" THEN [grants EXCEPT ![c.about] = Append(@, c.claim)]
                          ELSE grants
    BY <1>5 DEF IssuePair
  <2>2. token' \in [Token -> TokenRecord]
    BY <1>4, <2>1 DEF CreateRefreshToken, CallRecord, RowTypes, TokenRecord
  <2>3. grants' \in [Code -> Seq(Claim)]
    <3>1. CASE call[r].op = "exchange"
      <4>1. call[r].about \in Code /\ call[r].claim \in Claim
        BY <1>4, <3>1 DEF Placed, CallRecord
      <4>2. Append(grants[call[r].about], call[r].claim) \in Seq(Claim)
        BY <4>1 DEF RowTypes
      <4> QED BY <2>1, <3>1, <4>2 DEF RowTypes
    <3>2. CASE call[r].op # "exchange" BY <2>1, <3>2 DEF RowTypes
    <3> QED BY <3>1, <3>2
  <2>4. UNCHANGED <<reset, code, cleared>> /\ Goto(r, "idle")
    BY <1>5 DEF IssuePair, resetVars, oauthVars
  <2>5. RowTypes' BY <1>1, <2>2, <2>3, <2>4 DEF RowTypes
  <2> QED BY <1>3, <2>4, <2>5 DEF Label
<1>6. CASE RevokeRefreshToken(r)
  <2>1. token' = Revoke({call[r].about}) /\ Goto(r, "key") /\ call[r].op = "refresh"
    BY <1>4, <1>6 DEF RevokeRefreshToken, Placed
  <2>2. UNCHANGED <<reset, code, cleared, grants>>
    BY <1>6 DEF RevokeRefreshToken, resetVars, oauthVars
  <2>3. RowTypes' BY <1>1, <2>1, <2>2, RevokeGives DEF RowTypes
  <2> QED BY <1>3, <2>1, <2>3 DEF Label
<1>7. CASE RevokeAllUserTokens(r)
  <2>1. /\ token' = Revoke(Token) /\ Goto(r, "idle")
        /\ cleared' \in {cleared, call[r].password}
    BY <1>7 DEF RevokeAllUserTokens
  <2>2. UNCHANGED <<reset, code, grants>>
    BY <1>7 DEF RevokeAllUserTokens, resetVars, oauthVars
  <2>3. RowTypes' BY <1>1, <1>4, <2>1, <2>2, RevokeGives DEF RowTypes, CallRecord
  <2> QED BY <1>3, <2>1, <2>3 DEF Label
<1>8. CASE MarkPasswordResetTokenUsed(r)
  <2>1. Goto(r, "all") /\ call[r].op = "confirm"
    BY <1>4, <1>8 DEF MarkPasswordResetTokenUsed, Placed
  <2>2. RowTypes' BY <1>1, <1>8 DEF MarkPasswordResetTokenUsed, RowTypes, tokenVars, oauthVars
  <2> QED BY <1>3, <2>1, <2>2 DEF Label
<1>9. CASE AuthorizeSubmit(r)
  <2>1. (Goto(r, "user") \/ Goto(r, "idle")) /\ call[r].op = "authorize"
    BY <1>4, <1>9 DEF AuthorizeSubmit, Placed
  <2>2. RowTypes' BY <1>1, <1>9 DEF AuthorizeSubmit, RowTypes, tokenVars, resetVars, oauthVars
  <2> QED BY <1>3, <2>1, <2>2 DEF Label
<1>10. CASE StoreCode(r)
  <2>1. PICK k \in Code :
          code' = [code EXCEPT ![k] = [st |-> "live", password |-> call[r].password,
                                       claim |-> call[r].claim]]
    BY <1>10 DEF StoreCode
  <2>2. code' \in [Code -> CodeRecord]
    BY <1>4, <2>1 DEF RowTypes, CodeRecord, CallRecord
  <2>3. RowTypes' BY <1>1, <1>10, <2>2 DEF StoreCode, RowTypes, tokenVars, resetVars
  <2> QED BY <1>3, <1>10, <2>3 DEF StoreCode, Label
<1>11. CASE IssueTokensForUser(r)
  <2>1. Goto(r, "key") /\ call[r].op = "exchange"
    BY <1>4, <1>11 DEF IssueTokensForUser, Placed
  <2>2. RowTypes' BY <1>1, <1>11 DEF IssueTokensForUser, RowTypes, tokenVars, resetVars, oauthVars
  <2> QED BY <1>3, <2>1, <2>2 DEF Label
<1>12. CASE RequestFails(r)
  <2>1. RowTypes' BY <1>1, <1>12 DEF RequestFails, RowTypes, resetVars, oauthVars
  <2> QED BY <1>3, <1>12, <2>1 DEF RequestFails, Label
<1> QED BY <1>5, <1>6, <1>7, <1>8, <1>9, <1>10, <1>11, <1>12

(* The code that a token request presents is one it has the claim of. *)
LEMMA ExchangeGives ==
  ASSUME Basics, NEW r \in Request, NEW k \in Code, NEW claim \in {code[k].claim, NoClaim},
         TokenAuthCode(r, k, claim)
  PROVE  \/ UNCHANGED requestVars
         \/ \E c \in CallRecord : /\ Keep(r, "owner", c)
                                  /\ c.op = "exchange" /\ c.about = k
                                  /\ c.claim = code[k].claim /\ c.at \in Up
<1>1. CASE UNCHANGED requestVars BY <1>1
<1>2. CASE ~UNCHANGED requestVars
  <2>1. /\ VerifyPKCE(claim.verifier, code[k].claim.verifier)
        /\ \E p \in Up : Keep(r, "owner", [NoCall EXCEPT !.op = "exchange", !.at = p,
                                !.about = k, !.password = code[k].password, !.claim = claim])
    BY <1>2 DEF TokenAuthCode
  <2>2. claim # NoClaim
    BY <2>1 DEF VerifyPKCE, NoClaim
  <2>3. PICK p \in Up : Keep(r, "owner", [NoCall EXCEPT !.op = "exchange", !.at = p,
                                !.about = k, !.password = code[k].password, !.claim = claim])
    BY <2>1
  <2> DEFINE c == [NoCall EXCEPT !.op = "exchange", !.at = p, !.about = k,
                                 !.password = code[k].password, !.claim = claim]
  <2>4. claim = code[k].claim /\ claim \in Claim /\ code[k].password \in Nat
    BY <2>2 DEF Basics, RowTypes, CodeRecord
  <2>5. p \in Replica BY DEF Up
  <2>6. c \in CallRecord /\ c.op = "exchange" /\ c.about = k /\ c.claim = claim /\ c.at = p
    BY <2>4, <2>5, NoCallFacts DEF CallRecord
  <2> HIDE DEF c
  <2> QED BY <2>3, <2>4, <2>6 DEF c
<1> QED BY <1>1, <1>2

LEMMA ChangeBasics ==
  ASSUME Basics, NEW r \in Request,
         \/ UpdatePasswordHash(r) \/ ConsumeCode(r) \/ Logout(r)
         \/ RequestPasswordReset(r) \/ RegisterClient(r)
  PROVE  Basics'
<1> USE DEF Basics
<1>1. UNCHANGED <<keys, replica, signing, jwks, pat, entry, check>>
  BY DEF UpdatePasswordHash, ConsumeCode, Logout, RequestPasswordReset, RegisterClient,
     OnlyCalled, OnlyAsked, verifyVars, keyVars, cacheVars
<1>2. VerifyTypes'
  BY <1>1, UnverifiedBasics DEF VerifyTypes
<1>3. call[r] \in CallRecord /\ Placed(r)
  BY DEF CallTypes
<1>4. ASSUME UNCHANGED <<pc, call>>, RowTypes' PROVE Basics'
  BY <1>2, <1>4 DEF CallTypes, Placed
<1>5. CASE UpdatePasswordHash(r)
  <2> DEFINE c == [call[r] EXCEPT !.password = password + 1]
  <2>1. password + 1 \in Nat /\ call[r].about \in Reset /\ call[r].op = "confirm"
    BY <1>3, <1>5 DEF UpdatePasswordHash, RowTypes, Placed
  <2>2. c \in CallRecord /\ c.op = "confirm" /\ c.about = call[r].about
    BY <1>3, <2>1 DEF CallRecord
  <2>3. Keep(r, "used", c) BY <1>5 DEF UpdatePasswordHash
  <2> HIDE DEF c
  <2>4. CallTypes' /\ Moves(r, "used", c) BY <2>2, <2>3, KeepMoves DEF Label
  <2>5. Placed(r)' BY <2>1, <2>2, <2>4 DEF Placed, Moves
  <2>6. changes' \in [Reset -> Nat]
    <3>1. changes[call[r].about] + 1 \in Nat BY <2>1 DEF RowTypes
    <3> QED BY <1>5, <3>1 DEF UpdatePasswordHash, RowTypes
  <2>7. RowTypes'
    BY <1>5, <2>1, <2>6 DEF UpdatePasswordHash, RowTypes, tokenVars, oauthVars
  <2> QED BY <1>2, <2>4, <2>5, <2>7, MovedPlaced
<1>6. CASE ConsumeCode(r)
  <2>0. PICK k \in Code :
          /\ code' = [code EXCEPT ![k].st = "gone"]
          /\ \E claim \in {code[k].claim, NoClaim} : TokenAuthCode(r, k, claim)
    BY <1>6 DEF ConsumeCode
  <2>1. PICK claim \in {code[k].claim, NoClaim} :
          /\ code' = [code EXCEPT ![k].st = "gone"]
          /\ TokenAuthCode(r, k, claim)
    BY <2>0
  <2>2. code' \in [Code -> CodeRecord]
    BY <2>1 DEF RowTypes, CodeRecord
  <2>3. RowTypes' BY <1>6, <2>2 DEF ConsumeCode, RowTypes, tokenVars, resetVars
  <2>4. CASE UNCHANGED requestVars BY <1>4, <2>3, <2>4 DEF requestVars
  <2>5. CASE ~UNCHANGED requestVars
    <3>1. PICK c \in CallRecord : Keep(r, "owner", c) /\ c.op = "exchange" /\ c.about = k
      BY <2>1, <2>5, ExchangeGives
    <3>2. CallTypes' /\ Moves(r, "owner", c) BY <3>1, KeepMoves DEF Label
    <3>3. Placed(r)' BY <3>1, <3>2 DEF Placed, Moves
    <3> QED BY <1>2, <2>3, <3>2, <3>3, MovedPlaced
  <2> QED BY <2>4, <2>5
<1>7. CASE Logout(r)
  <2>1. PICK t \in Token : token' = Revoke({t}) BY <1>7 DEF Logout
  <2>2. RowTypes' BY <1>7, <2>1, RevokeGives DEF Logout, RowTypes, resetVars, oauthVars
  <2> QED BY <1>4, <1>7, <2>2 DEF Logout, requestVars
<1>8. CASE RequestPasswordReset(r)
  <2>1. RowTypes'
    BY <1>8 DEF RequestPasswordReset, CreatePasswordResetToken, RowTypes, tokenVars, oauthVars
  <2> QED BY <1>4, <1>8, <2>1 DEF RequestPasswordReset, requestVars
<1>9. CASE RegisterClient(r)
  <2>1. RowTypes' BY <1>9 DEF RegisterClient, RowTypes, tokenVars, resetVars
  <2> QED BY <1>4, <1>9, <2>1 DEF RegisterClient, requestVars
<1> QED BY <1>5, <1>6, <1>7, <1>8, <1>9

LEMMA ExpiryBasics ==
  ASSUME Basics, Expiry
  PROVE  Basics'
<1>1. UNCHANGED <<keys, replica, signing, jwks, pat, entry, check, pc, call>>
  BY DEF Expiry, TokenExpires, ResetExpires, CodeExpires, ClientExpires, verifyVars, keyVars,
     cacheVars, requestVars
<1>2. RowTypes'
  <2>1. ASSUME NEW t \in Token, TokenExpires(t) PROVE RowTypes'
    BY <2>1 DEF Basics, TokenExpires, RowTypes, TokenRecord, resetVars, oauthVars
  <2>2. ASSUME NEW k \in Reset, ResetExpires(k) PROVE RowTypes'
    BY <2>2 DEF Basics, ResetExpires, RowTypes, tokenVars, oauthVars
  <2>3. ASSUME NEW k \in Code, CodeExpires(k) PROVE RowTypes'
    BY <2>3 DEF Basics, CodeExpires, RowTypes, CodeRecord, tokenVars, resetVars
  <2>4. ASSUME NEW c \in Client, ClientExpires(c) PROVE RowTypes'
    BY <2>4 DEF Basics, ClientExpires, RowTypes, tokenVars, resetVars
  <2> QED BY <2>1, <2>2, <2>3, <2>4 DEF Expiry
<1> QED BY <1>1, <1>2 DEF Basics, VerifyTypes, CallTypes, Placed

LEMMA BasicsNext ==
  ASSUME Basics, UpInv, [Next]_vars
  PROVE  Basics'
<1>1. CASE \E r \in Request : Session(r) \/ RequestFails(r)
  BY <1>1, BeginBasics, EndBasics, ChangeBasics DEF Session
<1>2. CASE Expiry BY <1>2, ExpiryBasics
<1>3. CASE (StartKeys \/ VerifyJWT \/ VerifyPAT) /\ OnlyVerifies BY <1>3, VerifyBasics
<1>4. CASE UNCHANGED vars
  BY <1>4 DEF vars, verifyVars, keyVars, cacheVars, tokenVars, resetVars, oauthVars,
     requestVars, Basics, VerifyTypes, RowTypes, CallTypes, Placed
<1> QED BY <1>1, <1>2, <1>3, <1>4 DEF Next

(* ConsumeCode and Refresh begin at a replica that is up. *)
LEMMA UpNext ==
  ASSUME Basics, UpInv, [Next]_vars
  PROVE  UpInv'
<1>0. VerifyTypes /\ CallTypes
  BY DEF Basics
<1>1. ASSUME UNCHANGED <<keys, replica>>,
             \A s \in Request : pc'[s] \in {"key", "revoke", "owner"} => call'[s].at \in Up
      PROVE  UpInv'
  BY <1>1 DEF UpInv, Up
<1>2. ASSUME NEW r \in Request, Session(r) \/ RequestFails(r) PROVE UpInv'
  <2>1. UNCHANGED <<keys, replica>>
    BY <1>2 DEF Session, RequestFails, Login, SignAccessToken, IssuePair, Refresh,
       RevokeRefreshToken, RevokeAllUserTokens, Logout, RequestPasswordReset,
       ConfirmPasswordReset, UpdatePasswordHash, MarkPasswordResetTokenUsed, RegisterClient,
       AuthorizeForm, AuthorizeSubmit, AuthenticateForOAuth, StoreCode, ConsumeCode,
       IssueTokensForUser, OnlyAsked, OnlyCalled, verifyVars, keyVars
  <2>2. ASSUME NEW label, NEW c, Keep(r, label, c),
               label \in {"key", "revoke", "owner"} => c.at \in Up
        PROVE  UpInv'
    <3>1. \A s \in Request : \/ pc'[s] = pc[s] /\ call'[s] = call[s]
                             \/ pc'[s] = label /\ call'[s] = c
      BY <1>0, <2>2 DEF Keep, CallTypes
    <3> QED BY <1>1, <2>1, <2>2, <3>1 DEF UpInv
  <2>3. ASSUME NEW label \in Label, Goto(r, label),
               label = "key" => pc[r] \in {"revoke", "owner"},
               label \notin {"revoke", "owner"}
        PROVE  UpInv'
    <3>1. Moves(r, label, IF label = "idle" THEN NoCall ELSE call[r])
      BY <1>0, <2>3, GotoMoves
    <3>2. \A s \in Request : pc'[s] \in {"key", "revoke", "owner"} => call'[s].at \in Up
      BY <2>3, <3>1 DEF UpInv, Moves
    <3> QED BY <1>1, <2>1, <3>2
  <2>4. CASE UNCHANGED requestVars
    BY <1>1, <2>1, <2>4 DEF UpInv, requestVars
  <2>5. CASE Login(r)
    <3>1. PICK p \in Up :
            Keep(r, "key", [NoCall EXCEPT !.op = "login", !.at = p, !.password = password])
      BY <2>5 DEF Login
    <3>2. [NoCall EXCEPT !.op = "login", !.at = p, !.password = password].at = p
      BY DEF NoCall
    <3> QED BY <2>2, <3>1, <3>2
  <2>6. CASE Refresh(r)
    <3>1. PICK p \in Up, t \in Token, label \in {"all", "revoke"} :
            Keep(r, label, GetRefreshTokenByHash(p, t))
      BY <2>6 DEF Refresh
    <3>2. GetRefreshTokenByHash(p, t).at = p
      BY DEF GetRefreshTokenByHash, NoCall
    <3> QED BY <2>2, <3>1, <3>2
  <2>7. CASE ConsumeCode(r)
    <3>0. PICK k \in Code : \E claim \in {code[k].claim, NoClaim} : TokenAuthCode(r, k, claim)
      BY <2>7 DEF ConsumeCode
    <3>1. PICK claim \in {code[k].claim, NoClaim} : TokenAuthCode(r, k, claim)
      BY <3>0
    <3>2. \/ UNCHANGED requestVars
          \/ \E c \in CallRecord : Keep(r, "owner", c) /\ c.at \in Up
      BY <3>1, ExchangeGives
    <3> QED BY <2>2, <2>4, <3>2
  <2>8. CASE \/ SignAccessToken(r) \/ ConfirmPasswordReset(r) \/ UpdatePasswordHash(r)
             \/ AuthorizeForm(r) \/ AuthenticateForOAuth(r)
    <3>1. PICK label \in {"issue", "hash", "used", "submit", "code"} : \E c : Keep(r, label, c)
      BY <2>8 DEF SignAccessToken, ConfirmPasswordReset, UpdatePasswordHash, AuthorizeForm,
         AuthenticateForOAuth
    <3> QED BY <2>2, <3>1
  <2>9. CASE \/ IssuePair(r) \/ RevokeRefreshToken(r) \/ RevokeAllUserTokens(r)
             \/ MarkPasswordResetTokenUsed(r) \/ AuthorizeSubmit(r) \/ StoreCode(r)
             \/ IssueTokensForUser(r) \/ RequestFails(r)
    <3>1. PICK label \in {"idle", "key", "all", "user"} :
            Goto(r, label) /\ (label = "key" => pc[r] \in {"revoke", "owner"})
      BY <2>9 DEF IssuePair, RevokeRefreshToken, RevokeAllUserTokens,
         MarkPasswordResetTokenUsed, AuthorizeSubmit, StoreCode, IssueTokensForUser, RequestFails
    <3> QED BY <2>3, <3>1 DEF Label
  <2>10. CASE Logout(r) \/ RequestPasswordReset(r) \/ RegisterClient(r)
    BY <2>4, <2>10 DEF Logout, RequestPasswordReset, RegisterClient
  <2> QED BY <1>2, <2>5, <2>6, <2>7, <2>8, <2>9, <2>10 DEF Session
<1>3. CASE StartKeys /\ OnlyVerifies
  <2>1. PICK p \in Replica : EnsureActiveKey(p) \/ CreateSigningKey(p) \/ KeyExpires(p)
    BY <1>3 DEF StartKeys
  <2>2. UNCHANGED <<pc, call>> BY <1>3 DEF OnlyVerifies, requestVars
  <2>3. CASE EnsureActiveKey(p)
    <3>1. /\ \A q \in Replica : replica'[q] = "up" => replica[q] = "up" \/ keys # <<>>
          /\ \A q \in Replica : replica[q] = "up" => replica'[q] = "up"
          /\ keys' = keys
      BY <1>0, <2>3 DEF EnsureActiveKey, VerifyTypes
    <3> QED BY <2>2, <3>1 DEF UpInv, Up
  <2>4. CASE CreateSigningKey(p)
    <3>1. keys' # <<>>
      BY <1>0, <2>4 DEF CreateSigningKey, VerifyTypes
    <3>2. \A q \in Replica : replica[q] = "up" => replica'[q] = "up"
      BY <1>0, <2>4 DEF CreateSigningKey, VerifyTypes
    <3> QED BY <2>2, <3>1, <3>2 DEF UpInv, Up
  <2>5. CASE KeyExpires(p)
    <3>1. UNCHANGED <<keys, replica>> BY <2>5 DEF KeyExpires
    <3> QED BY <1>1, <2>2, <3>1 DEF UpInv
  <2> QED BY <2>1, <2>3, <2>4, <2>5
<1>4. CASE Expiry \/ ((VerifyJWT \/ VerifyPAT) /\ OnlyVerifies) \/ UNCHANGED vars
  <2>1. UNCHANGED <<keys, replica, pc, call>>
    BY <1>4 DEF Expiry, TokenExpires, ResetExpires, CodeExpires, ClientExpires, VerifyJWT,
       LookupCached, FetchKeys, StoreKeys, LookupAgain, FetchFails, KeySetExpires, VerifyPAT,
       CreatePAT, RevokePAT, PATExpires, End, Introspect, IntrospectPAT, KeepAnswer,
       AnswerExpires, OnlyVerifies, verifyVars, keyVars, requestVars, vars
  <2> QED BY <1>1, <2>1 DEF UpInv
<1> QED BY <1>2, <1>3, <1>4 DEF Next

LEMMA BasicsHold == Spec => [](Basics /\ UpInv)
<1>1. Init => Basics /\ UpInv BY BasicsInit, UpInit
<1>2. Basics /\ UpInv /\ [Next]_vars => (Basics /\ UpInv)' BY BasicsNext, UpNext
<1> QED BY <1>1, <1>2, PTL DEF Spec

-----------------------------------------------------------------------------
(* TokenVerification: the keys that tokens were signed with, those that    *)
(* replicas sign with and those that services look for have been stored.   *)
(* So the answer to a service that looks for one holds it, and what it     *)
(* then finds in its cache was in that answer or in one stored since that  *)
(* held at least as much, unless its check is marked late.                 *)
KeyInv ==
  /\ signed \subseteq Stored
  /\ \A p \in Replica : signing[p] # None => signing[p] \in Stored
  /\ \A r \in Request : pc[r] = "issue" => call[r].key \in Stored
  /\ \A c \in Check :
       /\ check[c].pc \in {"fetch", "store", "again"} => check[c].what \in Stored
       /\ check[c].pc = "store" => check[c].what \in check[c].answer
  /\ RefreshFindsKey

LEMMA KeyInit == ASSUME Init PROVE KeyInv
  BY NoCheckFacts DEF Init, VerifyInit, KeyInv, RefreshFindsKey, Stored, None

LEMMA KeyOfStored ==
  ASSUME VerifyTypes, UpInv, KeyInv, NEW p \in Up
  PROVE  KeyOf(p) \in Stored
<1>1. CASE signing[p] # None BY <1>1 DEF KeyInv, KeyOf, Up
<1>2. CASE signing[p] = None
  <2>1. keys # <<>> BY DEF UpInv, Up
  <2>2. Len(keys) \in 1..Len(keys) BY <2>1 DEF VerifyTypes
  <2> QED BY <1>2, <2>2 DEF KeyOf, ActiveSigningKey, Stored
<1> QED BY <1>1, <1>2

LEMMA StoredGrows ==
  ASSUME VerifyTypes, NEW p \in Replica, keys' = Append(keys, p)
  PROVE  Stored \subseteq Stored'
<1>1. \A i \in 1..Len(keys) : i \in 1..Len(keys') /\ keys'[i] = keys[i]
  BY DEF VerifyTypes
<1> QED BY <1>1 DEF Stored

(* What the keys' steps, and those of requests, have to show *)
LEMMA KeyByKeys ==
  ASSUME KeyInv, Stored \subseteq Stored', UNCHANGED <<jwks, check>>,
         signed' \subseteq Stored',
         \A p \in Replica : signing'[p] # None => signing'[p] \in Stored',
         \A r \in Request : pc'[r] = "issue" => call'[r].key \in Stored'
  PROVE  KeyInv'
  BY DEF KeyInv, RefreshFindsKey

LEMMA KeyByChecks ==
  ASSUME KeyInv, UNCHANGED <<keys, signing, signed, pc, call>>,
         \A c \in Check :
           /\ check'[c].pc \in {"fetch", "store", "again"} => check'[c].what \in Stored
           /\ check'[c].pc = "store" => check'[c].what \in check'[c].answer
           /\ check'[c].pc = "again" /\ ~check'[c].late =>
                check'[c].what \in jwks'[check'[c].at]
  PROVE  KeyInv'
  BY DEF KeyInv, RefreshFindsKey, Stored

LEMMA KeyStartKeys ==
  ASSUME Basics, KeyInv, StartKeys, OnlyVerifies
  PROVE  KeyInv'
<1>0. VerifyTypes BY DEF Basics
<1>1. UNCHANGED <<signed, jwks, check, pc, call>>
  BY DEF StartKeys, EnsureActiveKey, CreateSigningKey, KeyExpires, cacheVars, OnlyVerifies,
     requestVars
<1>2. PICK p \in Replica : EnsureActiveKey(p) \/ CreateSigningKey(p) \/ KeyExpires(p)
  BY DEF StartKeys
<1>3. CASE CreateSigningKey(p)
  <2>1. Stored \subseteq Stored' /\ signing' = signing
    BY <1>0, <1>3, StoredGrows DEF CreateSigningKey
  <2> QED BY <1>1, <2>1, KeyByKeys DEF KeyInv
<1>4. CASE EnsureActiveKey(p) \/ KeyExpires(p)
  <2>1. Stored' = Stored
    BY <1>4 DEF EnsureActiveKey, KeyExpires, Stored
  <2>2. \A q \in Replica : signing'[q] # None => signing'[q] = signing[q]
    BY <1>0, <1>4 DEF EnsureActiveKey, KeyExpires, VerifyTypes
  <2> QED BY <1>1, <2>1, <2>2, KeyByKeys DEF KeyInv
<1> QED BY <1>2, <1>3, <1>4

LEMMA KeyChecks ==
  ASSUME Basics, KeyInv, VerifyJWT \/ VerifyPAT, OnlyVerifies
  PROVE  KeyInv'
<1>0. VerifyTypes BY DEF Basics
<1>1. UNCHANGED <<keys, signing, signed, pc, call>>
  BY DEF VerifyJWT, LookupCached, FetchKeys, StoreKeys, LookupAgain, FetchFails, KeySetExpires,
     VerifyPAT, CreatePAT, RevokePAT, PATExpires, End, Introspect, IntrospectPAT, KeepAnswer,
     AnswerExpires, OnlyVerifies, keyVars, requestVars
<1>2. ASSUME NEW c \in Check, NEW rec, check' = [check EXCEPT ![c] = rec], jwks' = jwks,
             rec.pc \in {"fetch", "store", "again"} => rec.what \in Stored,
             rec.pc = "store" => rec.what \in rec.answer,
             rec.pc = "again" /\ ~rec.late => rec.what \in jwks[rec.at]
      PROVE  KeyInv'
  <2>1. \A d \in Check : check'[d] = IF d = c THEN rec ELSE check[d]
    BY <1>0, <1>2 DEF VerifyTypes
  <2> QED BY <1>1, <1>2, <2>1, KeyByChecks DEF KeyInv, RefreshFindsKey
<1>3. ASSUME UNCHANGED <<jwks, check>> PROVE KeyInv'
  BY <1>1, <1>3, KeyByChecks DEF KeyInv, RefreshFindsKey
<1>4. ASSUME NEW c \in Check, NEW s \in Service, NEW k, NEW label \in {"fetch", "ask"},
             Begin(c, s, k, label), UNCHANGED jwks, label = "fetch" => k \in signed
      PROVE  KeyInv'
  <2> DEFINE rec == [NoCheck EXCEPT !.pc = label, !.at = s, !.what = k]
  <2>1. check' = [check EXCEPT ![c] = rec] BY <1>4 DEF Begin
  <2>2. rec.pc = label /\ rec.what = k BY DEF NoCheck
  <2>3. signed \subseteq Stored BY DEF KeyInv
  <2> HIDE DEF rec
  <2> QED BY <1>2, <1>4, <2>1, <2>2, <2>3
<1>5. ASSUME NEW c \in Check, Finish(c), UNCHANGED jwks PROVE KeyInv'
  BY <1>2, <1>5, NoCheckFacts DEF Finish
<1>6. ASSUME NEW c \in Check, FetchKeys(c) PROVE KeyInv'
  <2> DEFINE rec == [check[c] EXCEPT !.pc = "store", !.answer = Stored]
  <2>1. check' = [check EXCEPT ![c] = rec] /\ jwks' = jwks
    BY <1>0, <1>6 DEF FetchKeys, ListValidatingSigningKeys, VerifyTypes, cacheVars
  <2>2. rec.pc = "store" /\ rec.what = check[c].what /\ rec.answer = Stored
    BY <1>0 DEF VerifyTypes, CheckRecord
  <2>3. check[c].what \in Stored BY <1>6 DEF FetchKeys, KeyInv
  <2> HIDE DEF rec
  <2> QED BY <1>2, <2>1, <2>2, <2>3
<1>7. ASSUME NEW c \in Check, StoreKeys(c) PROVE KeyInv'
  <2> DEFINE s == check[c].at
  <2>0. /\ s \in Service /\ check[c].pc = "store"
        /\ check[c].what \in Stored /\ check[c].what \in check[c].answer
    BY <1>0, <1>7 DEF StoreKeys, VerifyTypes, Sited, KeyInv
  <2>1. \A x \in Service : jwks'[x] = IF x = s THEN check[c].answer ELSE jwks[x]
    BY <1>0, <1>7 DEF StoreKeys, VerifyTypes
  <2>2. ASSUME NEW d \in Check
        PROVE  /\ check'[d].pc \in {"fetch", "store", "again"} => check'[d].what \in Stored
               /\ check'[d].pc = "store" => check'[d].what \in check'[d].answer
               /\ check'[d].pc = "again" /\ ~check'[d].late =>
                    check'[d].what \in jwks'[check'[d].at]
    <3>1. check[d] \in CheckRecord /\ check[c] \in CheckRecord /\ Sited(check[d])
      BY <1>0 DEF VerifyTypes
    <3>2. CASE d = c
      <4>1. check'[d] = [check[c] EXCEPT !.pc = "again"]
        BY <1>7, <3>2 DEF StoreKeys
      <4>2. check'[d].pc = "again" /\ check'[d].what = check[c].what /\ check'[d].at = s
        BY <3>1, <4>1 DEF CheckRecord
      <4> QED BY <2>0, <2>1, <4>2
    <3>3. CASE d # c /\ check[d].pc = "again" /\ check[d].at = s
                 /\ ~(jwks[s] \subseteq check[c].answer)
      <4>1. check'[d] = [check[d] EXCEPT !.late = TRUE]
        BY <1>7, <3>3 DEF StoreKeys
      <4>2. check'[d].pc = "again" /\ check'[d].what = check[d].what /\ check'[d].late
        BY <3>1, <3>3, <4>1 DEF CheckRecord
      <4> QED BY <3>3, <4>2 DEF KeyInv
    <3>4. CASE d # c /\ ~(check[d].pc = "again" /\ check[d].at = s
                            /\ ~(jwks[s] \subseteq check[c].answer))
      <4>1. check'[d] = check[d]
        BY <1>7, <3>4 DEF StoreKeys
      <4>2. check[d].pc = "again" => check[d].at \in Service
        BY <3>1 DEF Sited
      <4> QED BY <2>1, <3>4, <4>1, <4>2 DEF KeyInv, RefreshFindsKey
    <3> QED BY <3>2, <3>3, <3>4
  <2> QED BY <1>1, <2>2, KeyByChecks
<1>8. ASSUME NEW a \in Pat, NEW state, End(a, state) PROVE KeyInv'
  <2>1. jwks' = jwks BY <1>8 DEF End
  <2>2. ASSUME NEW d \in Check
        PROVE  check'[d] = check[d] \/ check'[d].pc = "keep"
    <3>1. check[d] \in CheckRecord BY <1>0 DEF VerifyTypes
    <3> QED BY <1>8, <3>1 DEF End, CheckRecord
  <2> QED BY <1>1, <2>1, <2>2, KeyByChecks DEF KeyInv, RefreshFindsKey
<1>9. ASSUME NEW c \in Check, IntrospectPAT(c) PROVE KeyInv'
  <2>1. CASE Step(c, "keep")
    <3>1. check' = [check EXCEPT ![c] = [check[c] EXCEPT !.pc = "keep"]] /\ jwks' = jwks
      BY <1>0, <1>9, <2>1 DEF Step, IntrospectPAT, VerifyTypes, cacheVars
    <3>2. [check[c] EXCEPT !.pc = "keep"].pc = "keep"
      BY <1>0 DEF VerifyTypes, CheckRecord
    <3> QED BY <1>2, <3>1, <3>2
  <2>2. CASE Finish(c) BY <1>5, <1>9, <2>2 DEF IntrospectPAT, cacheVars
  <2> QED BY <1>9, <2>1, <2>2 DEF IntrospectPAT
<1>10. CASE VerifyJWT
  <2>1. ASSUME NEW c \in Check, NEW s \in Service, NEW k \in Replica, LookupCached(c, s, k)
        PROVE  KeyInv'
    BY <1>4, <2>1 DEF LookupCached, cacheVars
  <2>2. ASSUME NEW c \in Check, LookupAgain(c) \/ FetchFails(c) PROVE KeyInv'
    BY <1>5, <2>2 DEF LookupAgain, FetchFails, cacheVars
  <2>3. ASSUME NEW s \in Service, KeySetExpires(s) PROVE KeyInv'
    BY <1>3, <2>3 DEF KeySetExpires
  <2> QED BY <1>6, <1>7, <1>10, <2>1, <2>2, <2>3 DEF VerifyJWT
<1>11. CASE VerifyPAT
  <2>1. ASSUME NEW a \in Pat, CreatePAT(a) PROVE KeyInv'
    BY <1>3, <2>1 DEF CreatePAT, cacheVars
  <2>2. ASSUME NEW c \in Check, NEW s \in Service, NEW a \in Pat, Introspect(c, s, a)
        PROVE  KeyInv'
    BY <1>4, <2>2 DEF Introspect, cacheVars
  <2>3. ASSUME NEW c \in Check, KeepAnswer(c) \/ FetchFails(c) PROVE KeyInv'
    BY <1>5, <2>3 DEF KeepAnswer, FetchFails, cacheVars
  <2>4. ASSUME NEW s \in Service, NEW a \in Pat, AnswerExpires(s, a) PROVE KeyInv'
    BY <1>3, <2>4 DEF AnswerExpires
  <2> QED BY <1>8, <1>9, <1>11, <2>1, <2>2, <2>3, <2>4 DEF VerifyPAT, RevokePAT, PATExpires
<1> QED BY <1>10, <1>11

LEMMA KeyNext ==
  ASSUME Basics, UpInv, KeyInv, [Next]_vars
  PROVE  KeyInv'
<1>0. VerifyTypes /\ CallTypes BY DEF Basics
<1>1. ASSUME NEW r \in Request, Session(r) \/ RequestFails(r) PROVE KeyInv'
  <2>1. UNCHANGED <<keys, jwks, check>>
    BY <1>1 DEF Session, RequestFails, Login, SignAccessToken, IssuePair, Refresh,
       RevokeRefreshToken, RevokeAllUserTokens, Logout, RequestPasswordReset,
       ConfirmPasswordReset, UpdatePasswordHash, MarkPasswordResetTokenUsed, RegisterClient,
       AuthorizeForm, AuthorizeSubmit, AuthenticateForOAuth, StoreCode, ConsumeCode,
       IssueTokensForUser, OnlyAsked, OnlyCalled, verifyVars, keyVars, cacheVars
  <2>2. Stored' = Stored BY <2>1 DEF Stored
  <2>3. CASE SignAccessToken(r)
    <3> DEFINE k == KeyOf(call[r].at)
               c == [call[r] EXCEPT !.key = k]
    <3>1. call[r].at \in Up /\ k \in Stored
      BY <1>0, <2>3, KeyOfStored DEF SignAccessToken, UpInv
    <3>2. c.key = k BY <1>0 DEF CallTypes, CallRecord
    <3>3. Keep(r, "issue", c) /\ signed' = signed
      BY <2>3 DEF SignAccessToken
    <3>4. \A q \in Replica : signing'[q] # signing[q] => signing'[q] = k
      BY <1>0, <2>3 DEF SignAccessToken, VerifyTypes
    <3> HIDE DEF k, c
    <3>5. \A s \in Request : pc'[s] = "issue" => call'[s].key \in Stored
      BY <1>0, <3>1, <3>2, <3>3 DEF Keep, CallTypes, KeyInv
    <3>6. \A q \in Replica : signing'[q] # None => signing'[q] \in Stored
      BY <3>1, <3>4 DEF KeyInv
    <3>7. signed' \subseteq Stored BY <3>3 DEF KeyInv
    <3> QED BY <2>1, <2>2, <3>5, <3>6, <3>7, KeyByKeys
  <2>4. CASE ~SignAccessToken(r)
    <3>1. signing' = signing /\ \A s \in Request : pc'[s] = "issue" => pc[s] = "issue" /\ call'[s] = call[s]
      <4>1. signing' = signing
        BY <1>1, <2>4 DEF Session, RequestFails, Login, IssuePair, Refresh,
           RevokeRefreshToken, RevokeAllUserTokens, Logout, RequestPasswordReset,
           ConfirmPasswordReset, UpdatePasswordHash, MarkPasswordResetTokenUsed, RegisterClient,
           AuthorizeForm, AuthorizeSubmit, AuthenticateForOAuth, StoreCode, ConsumeCode,
           IssueTokensForUser, OnlyAsked, OnlyCalled, verifyVars, keyVars
      <4>2. \/ UNCHANGED requestVars
            \/ \E label \in Label \ {"issue"} : Goto(r, label) \/ \E c : Keep(r, label, c)
        BY <1>1, <2>4 DEF Session, RequestFails, Login, IssuePair, Refresh,
           RevokeRefreshToken, RevokeAllUserTokens, Logout, RequestPasswordReset,
           ConfirmPasswordReset, UpdatePasswordHash, MarkPasswordResetTokenUsed, RegisterClient,
           AuthorizeForm, AuthorizeSubmit, AuthenticateForOAuth, StoreCode, ConsumeCode,
           TokenAuthCode, IssueTokensForUser, Label
      <4> QED BY <1>0, <4>1, <4>2 DEF Goto, Keep, CallTypes, requestVars
    <3>2. signed' \subseteq Stored
      <4>1. CASE IssuePair(r)
        <5>1. signed' = signed \cup {call[r].key} /\ pc[r] = "issue"
          BY <4>1 DEF IssuePair
        <5> QED BY <5>1 DEF KeyInv
      <4>2. CASE ~IssuePair(r)
        <5>1. signed' = signed
          BY <1>1, <2>4, <4>2 DEF Session, RequestFails, Login, Refresh,
             RevokeRefreshToken, RevokeAllUserTokens, Logout, RequestPasswordReset,
             ConfirmPasswordReset, UpdatePasswordHash, MarkPasswordResetTokenUsed,
             RegisterClient, AuthorizeForm, AuthorizeSubmit, AuthenticateForOAuth, StoreCode,
             ConsumeCode, IssueTokensForUser, OnlyAsked, OnlyCalled, verifyVars
        <5> QED BY <5>1 DEF KeyInv
      <4> QED BY <4>1, <4>2
    <3> QED BY <2>1, <2>2, <3>1, <3>2, KeyByKeys DEF KeyInv
  <2> QED BY <2>3, <2>4
<1>2. CASE StartKeys /\ OnlyVerifies BY <1>2, KeyStartKeys
<1>3. CASE (VerifyJWT \/ VerifyPAT) /\ OnlyVerifies BY <1>3, KeyChecks
<1>4. CASE Expiry \/ UNCHANGED vars
  <2>1. UNCHANGED <<keys, signing, signed, jwks, check, pc, call>>
    BY <1>4 DEF Expiry, TokenExpires, ResetExpires, CodeExpires, ClientExpires, verifyVars,
       keyVars, cacheVars, requestVars, vars
  <2> QED BY <2>1, KeyByKeys DEF KeyInv, Stored
<1> QED BY <1>1, <1>2, <1>3, <1>4 DEF Next

(* Whatever replicas started together and created keys, and whatever they  *)
(* went on signing with: a service that has refreshed its key set finds    *)
(* the key of the token it verifies, unless an older answer was stored     *)
(* after its own (Provider.refresh and KeyForKID of authmiddleware).       *)
THEOREM RefreshAlwaysFindsKey == Spec => []RefreshFindsKey
<1>1. Init => KeyInv BY KeyInit
<1>2. Basics /\ UpInv /\ KeyInv /\ [Next]_vars => KeyInv' BY KeyNext
<1>3. KeyInv => RefreshFindsKey BY DEF KeyInv
<1> QED BY <1>1, <1>2, <1>3, BasicsHold, PTL DEF Spec

(* The answer that a check is about to keep is of a live token unless it   *)
(* is marked late, and what is marked stays so while it is kept.           *)
PatInv ==
  /\ \A c \in Check : check[c].pc = "keep" /\ ~check[c].late => pat[check[c].what] = "live"
  /\ EndedPatRefused

LEMMA PatInit == ASSUME Init PROVE PatInv
  BY NoCheckFacts DEF Init, VerifyInit, PatInv, EndedPatRefused

LEMMA PatNext ==
  ASSUME Basics, PatInv, [Next]_vars
  PROVE  PatInv'
<1>0. VerifyTypes BY DEF Basics
<1>1. ASSUME UNCHANGED <<pat, entry, outdated>>,
             \A c \in Check : check'[c].pc = "keep" /\ ~check'[c].late =>
                                pat[check'[c].what] = "live"
      PROVE  PatInv'
  BY <1>1 DEF PatInv, EndedPatRefused
<1>2. ASSUME UNCHANGED <<pat, entry, outdated>>, NEW c \in Check, NEW rec,
             check' = [check EXCEPT ![c] = rec], rec.pc # "keep" \/ pat[rec.what] = "live"
      PROVE  PatInv'
  <2>1. \A d \in Check : check'[d] = IF d = c THEN rec ELSE check[d]
    BY <1>0, <1>2 DEF VerifyTypes
  <2> QED BY <1>1, <1>2, <2>1 DEF PatInv
<1>3. ASSUME UNCHANGED <<pat, entry, outdated, check>> PROVE PatInv'
  BY <1>1, <1>3 DEF PatInv
<1>4. ASSUME NEW c \in Check, FetchFails(c) \/ LookupAgain(c) PROVE PatInv'
  BY <1>2, <1>4, NoCheckFacts DEF FetchFails, LookupAgain, Finish, cacheVars
<1>5. ASSUME NEW c \in Check, NEW s, NEW k, NEW label, label # "keep", Begin(c, s, k, label),
             UNCHANGED <<pat, entry, outdated>>
      PROVE  PatInv'
  <2> DEFINE rec == [NoCheck EXCEPT !.pc = label, !.at = s, !.what = k]
  <2>1. check' = [check EXCEPT ![c] = rec] BY <1>5 DEF Begin
  <2>2. rec.pc = label BY DEF NoCheck
  <2> HIDE DEF rec
  <2> QED BY <1>2, <1>5, <2>1, <2>2
<1>6. CASE VerifyJWT
  <2>1. UNCHANGED <<pat, entry, outdated>>
    BY <1>6 DEF VerifyJWT, LookupCached, FetchKeys, StoreKeys, LookupAgain, FetchFails,
       KeySetExpires, cacheVars
  <2>2. ASSUME NEW c \in Check, NEW s \in Service, NEW k \in Replica, LookupCached(c, s, k)
        PROVE  PatInv'
    BY <1>5, <2>1, <2>2 DEF LookupCached
  <2>3. ASSUME NEW c \in Check, FetchKeys(c) PROVE PatInv'
    <3> DEFINE rec == [check[c] EXCEPT !.pc = "store", !.answer = Stored]
    <3>1. check' = [check EXCEPT ![c] = rec]
      BY <1>0, <2>3 DEF FetchKeys, ListValidatingSigningKeys, VerifyTypes
    <3>2. rec.pc = "store" BY <1>0 DEF VerifyTypes, CheckRecord
    <3> HIDE DEF rec
    <3> QED BY <1>2, <2>1, <3>1, <3>2
  <2>4. ASSUME NEW c \in Check, StoreKeys(c) PROVE PatInv'
    <3>1. ASSUME NEW d \in Check
          PROVE  check'[d].pc = "keep" => check'[d] = check[d]
      <4>1. check[d] \in CheckRecord BY <1>0 DEF VerifyTypes
      <4>2. CASE d = c
        <5>1. check'[d] = [check[d] EXCEPT !.pc = "again"] BY <2>4, <4>2 DEF StoreKeys
        <5> QED BY <4>1, <5>1 DEF CheckRecord
      <4>3. CASE d # c /\ check[d].pc = "again"
        <5>1. check'[d] \in {check[d], [check[d] EXCEPT !.late = TRUE]}
          BY <2>4, <4>3 DEF StoreKeys
        <5> QED BY <4>1, <4>3, <5>1 DEF CheckRecord
      <4>4. CASE d # c /\ check[d].pc # "again" BY <2>4, <4>4 DEF StoreKeys
      <4> QED BY <4>2, <4>3, <4>4
    <3> QED BY <1>1, <2>1, <3>1 DEF PatInv
  <2>5. ASSUME NEW s \in Service, KeySetExpires(s) PROVE PatInv'
    BY <1>3, <2>1, <2>5 DEF KeySetExpires
  <2> QED BY <1>4, <1>6, <2>2, <2>3, <2>4, <2>5 DEF VerifyJWT
<1>7. ASSUME NEW a \in Pat, CreatePAT(a) PROVE PatInv'
  <2>1. \A b : b \in Pat /\ pat[b] = "live" => pat'[b] = "live"
    BY <1>0, <1>7 DEF CreatePAT, VerifyTypes
  <2>2. \A b \in Pat : b # a => pat'[b] = pat[b]
    BY <1>0, <1>7 DEF CreatePAT, VerifyTypes
  <2>3. pat'[a] = "live" /\ UNCHANGED <<entry, outdated, check>>
    BY <1>0, <1>7 DEF CreatePAT, VerifyTypes, cacheVars
  <2>4. \A c \in Check : check[c].pc = "keep" => check[c].what \in Pat
    BY <1>0 DEF VerifyTypes, Sited
  <2>5. \A s \in Service : entry[s] \subseteq Pat
    BY <1>0 DEF VerifyTypes
  <2> QED BY <2>1, <2>2, <2>3, <2>4, <2>5 DEF PatInv, EndedPatRefused
<1>8. ASSUME NEW a \in Pat, NEW state, End(a, state) PROVE PatInv'
  <2>1. /\ entry' = entry
        /\ \A b \in Pat : b # a => pat'[b] = pat[b]
        /\ outdated' = outdated \cup {<<s, a>> : s \in {x \in Service : a \in entry[x]}}
    BY <1>0, <1>8 DEF End, VerifyTypes
  <2>2. \A c \in Check : check'[c].pc = "keep" /\ ~check'[c].late => pat'[check'[c].what] = "live"
    <3> TAKE c \in Check
    <3>1. check[c] \in CheckRecord /\ Sited(check[c]) BY <1>0 DEF VerifyTypes
    <3>2. CASE check[c].what = a /\ check[c].pc = "keep"
      <4>1. check'[c] = [check[c] EXCEPT !.late = TRUE] BY <1>8, <3>2 DEF End
      <4> QED BY <3>1, <4>1 DEF CheckRecord
    <3>3. CASE ~(check[c].what = a /\ check[c].pc = "keep")
      <4>1. check'[c] = check[c] BY <1>8, <3>3 DEF End
      <4> QED BY <2>1, <3>1, <3>3, <4>1 DEF PatInv, Sited
    <3> QED BY <3>2, <3>3
  <2>3. \A s \in Service : entry[s] \subseteq Pat
    BY <1>0 DEF VerifyTypes
  <2> QED BY <2>1, <2>2, <2>3 DEF PatInv, EndedPatRefused
<1>9. ASSUME NEW c \in Check, IntrospectPAT(c) PROVE PatInv'
  <2>1. UNCHANGED <<pat, entry, outdated>> BY <1>9 DEF IntrospectPAT, cacheVars
  <2>2. CASE Step(c, "keep") /\ pat[check[c].what] = "live"
    <3> DEFINE rec == [check[c] EXCEPT !.pc = "keep"]
    <3>1. check' = [check EXCEPT ![c] = rec]
      BY <1>0, <2>2 DEF Step, VerifyTypes
    <3>2. rec.what = check[c].what BY <1>0 DEF VerifyTypes, CheckRecord
    <3> HIDE DEF rec
    <3> QED BY <1>2, <2>1, <2>2, <3>1, <3>2
  <2>3. CASE Finish(c) BY <1>2, <2>1, <2>3, NoCheckFacts DEF Finish
  <2> QED BY <1>9, <2>2, <2>3 DEF IntrospectPAT, GetPersonalAccessTokenByHash
<1>10. ASSUME NEW c \in Check, KeepAnswer(c) PROVE PatInv'
  <2> DEFINE s == check[c].at
             a == check[c].what
  <2>1. s \in Service /\ a \in Pat BY <1>0, <1>10 DEF KeepAnswer, VerifyTypes, Sited
  <2>2. /\ \A x \in Service : entry'[x] = IF x = s THEN entry[x] \cup {a} ELSE entry[x]
        /\ outdated' = IF check[c].late THEN outdated \cup {<<s, a>>} ELSE outdated \ {<<s, a>>}
        /\ check' = [check EXCEPT ![c] = NoCheck] /\ pat' = pat /\ check[c].pc = "keep"
    BY <1>0, <1>10, <2>1 DEF KeepAnswer, VerifyTypes, Finish
  <2>3. \A d \in Check : check'[d].pc = "keep" => check'[d] = check[d]
    BY <1>0, <2>2, NoCheckFacts DEF VerifyTypes
  <2> HIDE DEF s, a
  <2>4. ~check[c].late => pat[a] = "live" BY <2>2 DEF PatInv, a
  <2>5. ASSUME NEW x \in Service, NEW b \in entry'[x], pat[b] # "live"
        PROVE  <<x, b>> \in outdated'
    <3>1. CASE x = s /\ b = a BY <2>2, <2>4, <2>5, <3>1
    <3>2. CASE ~(x = s /\ b = a)
      <4>1. b \in entry[x] BY <2>2, <3>2
      <4>2. <<x, b>> \in outdated BY <2>5, <4>1 DEF PatInv, EndedPatRefused
      <4> QED BY <2>2, <3>2, <4>2
    <3> QED BY <3>1, <3>2
  <2> QED BY <2>2, <2>3, <2>5 DEF PatInv, EndedPatRefused
<1>11. ASSUME NEW s \in Service, NEW a \in Pat, AnswerExpires(s, a) PROVE PatInv'
  <2>1. /\ \A x \in Service : entry'[x] = IF x = s THEN entry[x] \ {a} ELSE entry[x]
        /\ outdated' = outdated \ {<<s, a>>} /\ UNCHANGED <<pat, check>>
    BY <1>0, <1>11 DEF AnswerExpires, VerifyTypes
  <2>2. ASSUME NEW x \in Service, NEW b \in entry'[x], pat[b] # "live"
        PROVE  <<x, b>> \in outdated'
    <3>1. b \in entry[x] /\ ~(x = s /\ b = a) BY <2>1, <2>2
    <3>2. <<x, b>> \in outdated BY <2>2, <3>1 DEF PatInv, EndedPatRefused
    <3> QED BY <2>1, <3>1, <3>2
  <2> QED BY <2>1, <2>2 DEF PatInv, EndedPatRefused
<1>12. CASE VerifyPAT
  <2>1. ASSUME NEW c \in Check, NEW s \in Service, NEW a \in Pat, Introspect(c, s, a)
        PROVE  PatInv'
    BY <1>5, <2>1 DEF Introspect, cacheVars
  <2> QED BY <1>4, <1>7, <1>8, <1>9, <1>10, <1>11, <1>12, <2>1
          DEF VerifyPAT, RevokePAT, PATExpires
<1>13. CASE ~VerifyJWT /\ ~VerifyPAT
  <2>1. ASSUME NEW r \in Request, Session(r) \/ RequestFails(r)
        PROVE  UNCHANGED <<pat, entry, outdated, check>>
    BY <2>1 DEF Session, RequestFails, Login, SignAccessToken, IssuePair, Refresh,
       RevokeRefreshToken, RevokeAllUserTokens, Logout, RequestPasswordReset,
       ConfirmPasswordReset, UpdatePasswordHash, MarkPasswordResetTokenUsed, RegisterClient,
       AuthorizeForm, AuthorizeSubmit, AuthenticateForOAuth, StoreCode, ConsumeCode,
       IssueTokensForUser, OnlyAsked, OnlyCalled, verifyVars, cacheVars
  <2>2. StartKeys \/ Expiry \/ UNCHANGED vars => UNCHANGED <<pat, entry, outdated, check>>
    BY DEF StartKeys, EnsureActiveKey, CreateSigningKey, KeyExpires, Expiry, TokenExpires,
       ResetExpires, CodeExpires, ClientExpires, verifyVars, cacheVars, vars
  <2> QED BY <1>3, <1>13, <2>1, <2>2 DEF Next
<1> QED BY <1>6, <1>12, <1>13

LEMMA EndedPatAlwaysRefused == Spec => []EndedPatRefused
<1>1. Init => PatInv BY PatInit
<1>2. Basics /\ PatInv /\ [Next]_vars => PatInv' BY PatNext
<1>3. PatInv => EndedPatRefused BY DEF PatInv
<1> QED BY <1>1, <1>2, <1>3, BasicsHold, PTL DEF Spec

-----------------------------------------------------------------------------
(* AuthSessions: the refresh tokens of a session.  What makes the next one *)
(* is a token that is not revoked or a refresh that has revoked one; of a  *)
(* session that is not among the parallel ones there is at most one of     *)
(* both, and a refresh that is to revoke a token finds it not revoked.     *)

Unrevoked(t) == token[t].st \in {"live", "expired"}
Of(t, s) == Unrevoked(t) /\ token[t].session = s
Known(s) == s \in Token /\ token[s].st # "absent"
Renews(r, s) == pc[r] \in {"key", "issue"} /\ call[r].op = "refresh" /\ call[r].session = s
Revokes(r, s) == pc[r] = "revoke" /\ call[r].session = s

Alone(s) ==
  /\ \A t, u \in Token : Of(t, s) /\ Of(u, s) => t = u
  /\ \A q, r \in Request : Renews(q, s) /\ Renews(r, s) => q = r
  /\ \A t \in Token, r \in Request : ~(Of(t, s) /\ Renews(r, s))
  /\ s \in ended => /\ \A t \in Token : ~Of(t, s)
                    /\ \A r \in Request : ~Renews(r, s)
  /\ \A r \in Request : Revokes(r, s) => call[r].about \in Token /\ Of(call[r].about, s)

SessionInv ==
  /\ \A t \in Token : token[t].st # "absent" => Known(token[t].session)
  /\ \A r \in Request : \A s : Renews(r, s) \/ Revokes(r, s) => Known(s)
  /\ \A s \in ended : Known(s)
  /\ \A s \in Token \ parallel : Alone(s)

LEMMA SessionInit == ASSUME Init PROVE SessionInv
  BY DEF Init, NoToken, SessionInv, Alone, Of, Unrevoked, Known, Renews, Revokes

LEMMA SessionCounts ==
  ASSUME SessionInv
  PROVE  OneTokenPerSession
<1> SUFFICES ASSUME NEW s \in Token \ parallel
             PROVE  LET valids == {t \in Live : token[t].session = s}
                    IN Cardinality(valids) <= IF s \in ended THEN 0 ELSE 1
  BY DEF OneTokenPerSession
<1> DEFINE valids == {t \in Live : token[t].session = s}
<1>1. \A t \in valids : t \in Token /\ Of(t, s)
  BY DEF Live, Of, Unrevoked
<1>2. Alone(s) BY DEF SessionInv
<1> HIDE DEF valids
<1>3. CASE valids = {}
  <2>1. Cardinality(valids) = 0 BY <1>3, FS_EmptySet
  <2> QED BY <2>1 DEF valids
<1>4. CASE valids # {}
  <2>1. PICK t : t \in valids BY <1>4
  <2>2. valids = {t} BY <1>1, <1>2, <2>1 DEF Alone
  <2>3. Cardinality(valids) = 1 BY <2>2, FS_Singleton
  <2>4. s \notin ended BY <1>1, <1>2, <2>1 DEF Alone
  <2> QED BY <2>3, <2>4 DEF valids
<1> QED BY <1>3, <1>4

(* Steps that leave the tokens as revoked as they were, and no request     *)
(* nearer to a new one                                                     *)
LEMMA SessionKept ==
  ASSUME SessionInv,
         \A t \in Token : /\ token'[t].session = token[t].session
                          /\ token'[t].st = "absent" <=> token[t].st = "absent"
                          /\ Unrevoked(t)' <=> Unrevoked(t),
         ended' = ended, parallel \subseteq parallel',
         \A r \in Request : \A s : /\ Renews(r, s)' => Renews(r, s)
                                   /\ Revokes(r, s)' => Revokes(r, s) /\ call'[r].about = call[r].about
  PROVE  SessionInv'
<1>1. \A s : Known(s)' <=> Known(s) BY DEF Known
<1>2. \A t \in Token : \A s : Of(t, s)' <=> Of(t, s) BY DEF Of
<1>3. ASSUME NEW s \in Token \ parallel' PROVE Alone(s)'
  <2>1. Alone(s) BY DEF SessionInv
  <2>2. /\ \A t, u \in Token : Of(t, s)' /\ Of(u, s)' => t = u
        /\ \A q, r \in Request : Renews(q, s)' /\ Renews(r, s)' => q = r
        /\ \A t \in Token, r \in Request : ~(Of(t, s)' /\ Renews(r, s)')
        /\ s \in ended' => /\ \A t \in Token : ~Of(t, s)'
                           /\ \A r \in Request : ~Renews(r, s)'
    BY <1>2, <2>1 DEF Alone
  <2>3. ASSUME NEW r \in Request, Revokes(r, s)'
        PROVE  (call[r].about \in Token)' /\ Of(call[r].about, s)'
    <3>1. PICK u : u = call[r].about OBVIOUS
    <3>2. u \in Token /\ Of(u, s) /\ call'[r].about = u
      BY <2>1, <2>3, <3>1 DEF Alone
    <3>3. Of(u, s)' BY <1>2, <3>2
    <3> QED BY <3>2, <3>3 DEF Of, Unrevoked
  <2> QED BY <2>2, <2>3 DEF Alone
<1>4. \A t \in Token : token'[t].st # "absent" => Known(token[t].session)'
  <2> TAKE t \in Token
  <2>1. token'[t].st # "absent" => Known(token[t].session)
    BY DEF SessionInv
  <2>2. PICK s : s = token[t].session OBVIOUS
  <2>3. Known(s) => Known(s)' BY <1>1
  <2> QED BY <2>1, <2>2, <2>3 DEF Known
<1>5. \A r \in Request : \A s : Renews(r, s)' \/ Revokes(r, s)' => Known(s)'
  BY <1>1 DEF SessionInv
<1>6. \A s \in ended' : Known(s)' BY <1>1 DEF SessionInv
<1> QED BY <1>3, <1>4, <1>5, <1>6 DEF SessionInv

(* Tokens ts are revoked, by a request that is not about to replace one or *)
(* by one that replaces the only one of them.                              *)
LEMMA SessionRevokes ==
  ASSUME SessionInv, RowTypes, NEW r \in Request, NEW ts \in SUBSET Token,
         token' = Revoke(ts), parallel' = parallel \cup Overtaken(ts, r),
         ended' \subseteq ended \cup {token[t].session : t \in Live \cap ts},
         \A q \in Request : \A s :
           /\ Revokes(q, s)' => /\ q # r /\ Revokes(q, s) /\ call'[q].about = call[q].about
           /\ Renews(q, s)' => \/ Renews(q, s)
                               \/ /\ q = r /\ Revokes(r, s) /\ ts = {call[r].about}
                                  /\ ended' = ended
  PROVE  SessionInv'
<1>1. \A t \in Token : /\ token'[t].session = token[t].session
                       /\ t \notin ts => token'[t] = token[t]
                       /\ t \in ts => token'[t].st \in {"absent", "revoked"}
                       /\ token[t].st = "absent" <=> token'[t].st = "absent"
  BY RevokeGives DEF RowTypes, TokenRecord
<1>2. \A s : Known(s)' <=> Known(s) BY <1>1 DEF Known
<1>3. \A t \in Token : \A s : Of(t, s)' <=> Of(t, s) /\ t \notin ts
  BY <1>1 DEF Of, Unrevoked
<1>4. \A q \in Request : \A s : Renews(q, s)' \/ Revokes(q, s)' => Known(s)'
  BY <1>2 DEF SessionInv
<1>5. \A t \in Token : token'[t].st # "absent" => Known(token[t].session)'
  <2> TAKE t \in Token
  <2>1. token'[t].st # "absent" => Known(token[t].session)
    BY <1>1 DEF SessionInv
  <2>2. PICK s : s = token[t].session OBVIOUS
  <2>3. Known(s) => Known(s)' BY <1>2
  <2> QED BY <1>1, <2>1, <2>2, <2>3 DEF Known
<1>6. \A s \in ended' : Known(s)'
  <2>1. \A t \in Live : t \in Token /\ token[t].st # "absent" BY DEF Live
  <2> QED BY <1>2, <2>1 DEF SessionInv
<1>7. ASSUME NEW s \in Token \ parallel' PROVE Alone(s)'
  <2>0. s \notin parallel /\ s \notin Overtaken(ts, r) OBVIOUS
  <2>1. Alone(s) BY <2>0 DEF SessionInv
  <2>2. \A t \in Live : t \in Token /\ Of(t, token[t].session) BY DEF Live, Of, Unrevoked
  <2>3. \A t, u \in Token : Of(t, s)' /\ Of(u, s)' => t = u
    BY <1>3, <2>1 DEF Alone
  <2>4. ASSUME NEW q \in Request, Revokes(q, s)'
        PROVE  (call[q].about \in Token)' /\ Of(call[q].about, s)'
    <3>0. PICK u : u = call[q].about OBVIOUS
    <3>1. q # r /\ Revokes(q, s) /\ call'[q].about = u BY <2>4, <3>0
    <3>2. u \in Token /\ Of(u, s) BY <2>1, <3>0, <3>1 DEF Alone
    <3>3. u \notin ts
      <4> SUFFICES ASSUME u \in ts PROVE FALSE OBVIOUS
      <4>1. token[u].st # "revoked" /\ token[u].session = s /\ pc[q] = "revoke"
        BY <3>1, <3>2 DEF Of, Unrevoked, Revokes
      <4>2. s \in Overtaken(ts, r)
        BY <3>0, <3>1, <4>1 DEF Overtaken
      <4> QED BY <2>0, <4>2
    <3>4. Of(u, s)' BY <1>3, <3>2, <3>3
    <3> QED BY <3>1, <3>2, <3>4 DEF Of, Unrevoked
  <2>5. CASE \A q \in Request : Renews(q, s)' => Renews(q, s)
    <3>1. /\ \A p, q \in Request : Renews(p, s)' /\ Renews(q, s)' => p = q
          /\ \A t \in Token, q \in Request : ~(Of(t, s)' /\ Renews(q, s)')
      BY <1>3, <2>1, <2>5 DEF Alone
    <3>2. s \in ended' => /\ \A t \in Token : ~Of(t, s)'
                          /\ \A q \in Request : ~Renews(q, s)'
      <4>1. CASE s \in ended BY <1>3, <2>1, <2>5, <4>1 DEF Alone
      <4>2. CASE s \notin ended /\ s \in ended'
        <5>1. PICK t \in Live \cap ts : token[t].session = s BY <4>2
        <5>2. t \in Token /\ Of(t, s) BY <2>2, <5>1
        <5> QED BY <1>3, <2>1, <2>5, <5>1, <5>2 DEF Alone
      <4> QED BY <4>1, <4>2
    <3> QED BY <2>3, <2>4, <3>1, <3>2 DEF Alone
  <2>6. CASE ~\A q \in Request : Renews(q, s)' => Renews(q, s)
    <3>1. /\ Renews(r, s)' /\ Revokes(r, s) /\ ts = {call[r].about} /\ ended' = ended
          /\ \A q \in Request : Renews(q, s)' /\ q # r => Renews(q, s)
      BY <2>6
    <3>2. call[r].about \in Token /\ Of(call[r].about, s) BY <2>1, <3>1 DEF Alone
    <3>3. \A q \in Request : ~Renews(q, s) BY <2>1, <3>2 DEF Alone
    <3>4. s \notin ended' BY <2>1, <3>1, <3>2 DEF Alone
    <3>5. \A t \in Token : ~Of(t, s)' BY <1>3, <2>1, <3>1, <3>2 DEF Alone
    <3>6. \A p, q \in Request : Renews(p, s)' /\ Renews(q, s)' => p = q
      BY <3>1, <3>3
    <3> QED BY <2>3, <2>4, <3>4, <3>5, <3>6 DEF Alone
  <2> QED BY <2>5, <2>6
<1> QED BY <1>4, <1>5, <1>6, <1>7 DEF SessionInv

(* The next token of a session, or the first of a new one *)
LEMMA SessionIssues ==
  ASSUME Basics, SessionInv, NEW r \in Request, IssuePair(r)
  PROVE  SessionInv'
<1>0. CallTypes /\ RowTypes /\ Placed(r) /\ pc[r] = "issue"
  BY DEF Basics, IssuePair
<1> DEFINE c == call[r]
<1>1. PICK t \in Token :
        /\ token[t].st = "absent"
        /\ token' = CreateRefreshToken(t, IF c.op = "refresh" THEN c.session ELSE t, c.password)
  BY DEF IssuePair
<1>2. PICK session : session = IF c.op = "refresh" THEN c.session ELSE t OBVIOUS
<1>3. UNCHANGED <<ended, parallel>> /\ Goto(r, "idle")
  BY DEF IssuePair
<1>4. /\ \A u \in Token : u # t => token'[u] = token[u]
      /\ token'[t].st = "live" /\ token'[t].session = session
  BY <1>0, <1>1, <1>2 DEF CreateRefreshToken, RowTypes
<1>5. \A q \in Request : \A s :
        /\ Revokes(q, s)' => Revokes(q, s) /\ q # r /\ call'[q] = call[q]
        /\ Renews(q, s)' => Renews(q, s) /\ q # r
  <2>1. /\ \A q \in Request \ {r} : pc'[q] = pc[q] /\ call'[q] = call[q]
        /\ pc'[r] = "idle"
    BY <1>0, <1>3, GotoMoves DEF Moves, Label
  <2> QED BY <2>1 DEF Revokes, Renews
<1>6. Known(session)' /\ \A s : Known(s) => Known(s)' /\ s # t
  <2>1. \A s : Known(s) => Known(s)' /\ s # t BY <1>1, <1>4 DEF Known
  <2>2. c.op = "refresh" => Renews(r, c.session)
    BY <1>0 DEF Renews
  <2>3. CASE c.op = "refresh"
    <3>1. Known(session) BY <1>2, <2>2, <2>3 DEF SessionInv
    <3> QED BY <2>1, <3>1
  <2>4. CASE c.op # "refresh" BY <1>2, <1>4, <2>1, <2>4 DEF Known
  <2> QED BY <2>1, <2>3, <2>4
<1>7. \A u \in Token : token'[u].st # "absent" => Known(token[u].session)'
  <2> TAKE u \in Token
  <2>1. CASE u = t BY <1>4, <1>6, <2>1 DEF Known
  <2>2. CASE u # t
    <3>1. PICK s : s = token[u].session OBVIOUS
    <3>2. token[u].st # "absent" => Known(s)' BY <1>6, <3>1 DEF SessionInv
    <3> QED BY <1>4, <2>2, <3>1, <3>2 DEF Known
  <2> QED BY <2>1, <2>2
<1> HIDE DEF c
<1>8. \A q \in Request : \A s : Renews(q, s)' \/ Revokes(q, s)' => Known(s)'
  BY <1>5, <1>6 DEF SessionInv
<1>9. \A s \in ended' : Known(s)' BY <1>3, <1>6 DEF SessionInv
<1>10. \A u \in Token : \A s : Of(u, s)' <=> IF u = t THEN s = session ELSE Of(u, s)
  BY <1>4 DEF Of, Unrevoked
<1>11. ~Unrevoked(t) BY <1>1 DEF Unrevoked
<1>12. ASSUME NEW s \in Token \ parallel' PROVE Alone(s)'
  <2>1. Alone(s) /\ s \notin parallel BY <1>3 DEF SessionInv
  <2>2. ASSUME NEW q \in Request, Revokes(q, s)'
        PROVE  (call[q].about \in Token)' /\ Of(call[q].about, s)'
    <3>0. PICK u : u = call[q].about OBVIOUS
    <3>1. u \in Token /\ Of(u, s) /\ call'[q] = call[q]
      BY <1>5, <2>1, <2>2, <3>0 DEF Alone
    <3>2. u # t BY <1>11, <3>1 DEF Of
    <3>3. Of(u, s)' BY <1>10, <3>1, <3>2
    <3> QED BY <3>0, <3>1, <3>3 DEF Of, Unrevoked
  <2>3. CASE s # session
    <3>1. \A u \in Token : Of(u, s)' <=> Of(u, s)
      BY <1>10, <1>11, <2>3 DEF Of
    <3> QED BY <1>3, <1>5, <2>1, <2>2, <3>1 DEF Alone
  <2>4. CASE s = session
    <3>1. /\ \A u \in Token : ~Of(u, s)
          /\ \A q \in Request : q # r => ~Renews(q, s)
          /\ s \notin ended
      <4>1. CASE c.op = "refresh"
        <5>1. Renews(r, s) BY <1>0, <1>2, <2>4, <4>1 DEF Renews, c
        <5> QED BY <2>1, <5>1 DEF Alone
      <4>2. CASE c.op # "refresh"
        <5>1. s = t /\ ~Known(t) BY <1>1, <1>2, <2>4, <4>2 DEF Known
        <5>2. \A u \in Token : Of(u, s) => Known(s)
          BY DEF Of, Unrevoked, SessionInv
        <5> QED BY <5>1, <5>2 DEF SessionInv
      <4> QED BY <4>1, <4>2
    <3>2. \A u \in Token : Of(u, s)' => u = t BY <1>10, <3>1
    <3>3. \A q \in Request : ~Renews(q, s)' BY <1>5, <3>1
    <3> QED BY <1>3, <2>2, <3>1, <3>2, <3>3 DEF Alone
  <2> QED BY <2>3, <2>4
<1> QED BY <1>7, <1>8, <1>9, <1>12 DEF SessionInv

(* A token is read for a refresh. *)
LEMMA SessionRefreshes ==
  ASSUME Basics, SessionInv, NEW r \in Request, Refresh(r)
  PROVE  SessionInv'
<1>0. CallTypes /\ RowTypes BY DEF Basics
<1>1. PICK p \in Up, t \in Token :
        /\ token[t].st \in {"live", "revoked"}
        /\ Keep(r, IF token[t].st = "revoked" THEN "all" ELSE "revoke",
                GetRefreshTokenByHash(p, t))
  BY DEF Refresh
<1>2. UNCHANGED <<token, ended, parallel>> BY DEF Refresh, tokenVars
<1> DEFINE c == GetRefreshTokenByHash(p, t)
<1>3. c.about = t /\ c.session = token[t].session
  BY DEF GetRefreshTokenByHash, NoCall
<1> HIDE DEF c
<1>4. /\ \A q \in Request \ {r} : pc'[q] = pc[q] /\ call'[q] = call[q]
      /\ pc'[r] = (IF token[t].st = "revoked" THEN "all" ELSE "revoke") /\ call'[r] = c
  BY <1>0, <1>1 DEF Keep, CallTypes, c
<1>5. /\ \A q \in Request \ {r} : \A s : (Renews(q, s)' <=> Renews(q, s))
                                         /\ (Revokes(q, s)' <=> Revokes(q, s))
      /\ \A s : ~Renews(r, s)'
      /\ \A s : Revokes(r, s)' => s = token[t].session /\ token[t].st = "live"
  BY <1>1, <1>3, <1>4 DEF Renews, Revokes
<1>6. /\ \A u \in Token : \A s : Of(u, s)' <=> Of(u, s)
      /\ \A s : Known(s)' <=> Known(s)
  BY <1>2 DEF Of, Unrevoked, Known
<1>7. \A u \in Token : token'[u].st # "absent" => Known(token[u].session)'
  BY <1>2, <1>6 DEF SessionInv
<1>8. \A q \in Request : \A s : Renews(q, s)' \/ Revokes(q, s)' => Known(s)'
  <2>1. token[t].st = "live" => Known(token[t].session) BY DEF SessionInv
  <2> QED BY <1>5, <1>6, <2>1 DEF SessionInv
<1>9. ASSUME NEW s \in Token \ parallel' PROVE Alone(s)'
  <2>1. Alone(s) BY <1>2 DEF SessionInv
  <2>2. ASSUME NEW q \in Request, Revokes(q, s)'
        PROVE  (call[q].about \in Token)' /\ Of(call[q].about, s)'
    <3>1. CASE q = r
      <4>1. call'[q].about = t /\ Of(t, s) BY <1>3, <1>4, <1>5, <2>2, <3>1 DEF Of, Unrevoked
      <4>2. Of(t, s)' BY <1>6, <4>1
      <4> QED BY <4>1, <4>2 DEF Of, Unrevoked
    <3>2. CASE q # r
      <4>1. call'[q] = call[q] /\ Revokes(q, s) BY <1>4, <1>5, <2>2, <3>2
      <4>2. call[q].about \in Token /\ Of(call[q].about, s) BY <2>1, <4>1 DEF Alone
      <4> QED BY <1>2, <4>1, <4>2 DEF Of, Unrevoked
    <3> QED BY <3>1, <3>2
  <2>3. \A q \in Request : Renews(q, s)' => Renews(q, s) BY <1>5
  <2> QED BY <1>2, <1>6, <2>1, <2>2, <2>3 DEF Alone
<1>10. \A s \in ended' : Known(s)' BY <1>2, <1>6 DEF SessionInv
<1> QED BY <1>7, <1>8, <1>9, <1>10 DEF SessionInv

(* No other step of a request brings it nearer to a new token. *)
LEMMA SessionMoves ==
  ASSUME CallTypes, NEW r \in Request, NEW label \in Label, NEW c, Moves(r, label, c),
         \/ label \notin {"revoke", "key", "issue"}
         \/ label # "revoke" /\ c.op # "refresh"
         \/ label = "issue" /\ pc[r] = "key" /\ c.op = call[r].op /\ c.session = call[r].session
  PROVE  \A q \in Request : \A s :
           /\ Renews(q, s)' => Renews(q, s)
           /\ Revokes(q, s)' => q # r /\ Revokes(q, s) /\ call'[q].about = call[q].about
<1>1. \A q \in Request : q # r => pc'[q] = pc[q] /\ call'[q] = call[q] BY DEF Moves
<1>2. pc'[r] = label /\ call'[r] = c BY DEF Moves
<1> QED BY <1>1, <1>2 DEF Renews, Revokes

LEMMA SessionNext ==
  ASSUME Basics, UpInv, SessionInv, [Next]_vars
  PROVE  SessionInv'
<1>0. CallTypes /\ RowTypes BY DEF Basics
<1>1. ASSUME UNCHANGED <<token, ended>>, parallel \subseteq parallel',
             \A q \in Request : \A s :
               /\ Renews(q, s)' => Renews(q, s)
               /\ Revokes(q, s)' => Revokes(q, s) /\ call'[q].about = call[q].about
      PROVE  SessionInv'
  BY <1>1, SessionKept DEF Unrevoked
<1>2. ASSUME UNCHANGED <<token, ended>>, parallel \subseteq parallel', UNCHANGED <<pc, call>>
      PROVE  SessionInv'
  BY <1>1, <1>2 DEF Renews, Revokes
<1>3. ASSUME NEW r \in Request, Session(r) \/ RequestFails(r) PROVE SessionInv'
  <2>1. ASSUME NEW label \in Label \ {"revoke", "key", "issue"},
               Goto(r, label) \/ \E c \in CallRecord : Keep(r, label, c)
        PROVE  \A q \in Request : \A s :
                 /\ Renews(q, s)' => Renews(q, s)
                 /\ Revokes(q, s)' => q # r /\ Revokes(q, s) /\ call'[q].about = call[q].about
    <3>1. \E c : Moves(r, label, c) BY <1>0, <2>1, GotoMoves, KeepMoves
    <3> QED BY <1>0, <3>1, SessionMoves
  <2>2. CASE IssuePair(r) BY <2>2, SessionIssues
  <2>3. CASE Refresh(r) BY <2>3, SessionRefreshes
  <2>4. CASE RevokeRefreshToken(r)
    <3>1. /\ pc[r] = "revoke" /\ call[r].op = "refresh" /\ call[r].about \in Token
          /\ token' = Revoke({call[r].about}) /\ ended' = ended
          /\ parallel' = parallel \cup Overtaken({call[r].about}, r) /\ Goto(r, "key")
      BY <2>4 DEF RevokeRefreshToken, Basics, Placed
    <3>2. Moves(r, "key", call[r])
      BY <1>0, <3>1, GotoMoves DEF Label
    <3>3. \A q \in Request : \A s :
            /\ Revokes(q, s)' => q # r /\ Revokes(q, s) /\ call'[q].about = call[q].about
            /\ Renews(q, s)' => Renews(q, s) \/ (q = r /\ Revokes(r, s))
      BY <3>1, <3>2 DEF Moves, Renews, Revokes
    <3> QED BY <1>0, <3>1, <3>3, SessionRevokes
  <2>5. CASE RevokeAllUserTokens(r)
    <3>1. /\ token' = Revoke(Token) /\ ended' = ended \cup {token[t].session : t \in Live}
          /\ parallel' = parallel \cup Overtaken(Token, r) /\ Goto(r, "idle")
      BY <2>5 DEF RevokeAllUserTokens
    <3>2. Live \cap Token = Live BY DEF Live
    <3> QED BY <1>0, <2>1, <3>1, <3>2, SessionRevokes DEF Label
  <2>6. CASE Logout(r)
    <3>1. PICK t \in Token :
            /\ token' = Revoke({t}) /\ parallel' = parallel \cup Overtaken({t}, r)
            /\ ended' = IF t \in Live THEN ended \cup {token[t].session} ELSE ended
      BY <2>6 DEF Logout
    <3>2. UNCHANGED <<pc, call>> /\ pc[r] = "idle" BY <2>6 DEF Logout, requestVars, Ask, Busy
    <3>3. ended' \subseteq ended \cup {token[u].session : u \in Live \cap {t}} BY <3>1
    <3>4. \A q \in Request : \A s :
            /\ Revokes(q, s)' => q # r /\ Revokes(q, s) /\ call'[q].about = call[q].about
            /\ Renews(q, s)' => Renews(q, s)
      BY <3>2 DEF Renews, Revokes
    <3> QED BY <1>0, <3>1, <3>3, <3>4, SessionRevokes
  <2>7. CASE Login(r) \/ SignAccessToken(r) \/ IssueTokensForUser(r) \/ ConsumeCode(r)
    <3>1. UNCHANGED <<token, ended, parallel>>
      BY <2>7 DEF Login, SignAccessToken, IssueTokensForUser, ConsumeCode, tokenVars
    <3>2. CASE Login(r)
      <4>1. PICK p \in Up :
              Keep(r, "key", [NoCall EXCEPT !.op = "login", !.at = p, !.password = password])
        BY <3>2 DEF Login
      <4> DEFINE c == [NoCall EXCEPT !.op = "login", !.at = p, !.password = password]
      <4>2. c.op = "login" /\ c \in CallRecord
        BY <1>0, NoCallFacts DEF NoCall, CallRecord, Up, RowTypes
      <4> HIDE DEF c
      <4>3. Moves(r, "key", c) BY <1>0, <4>1, <4>2, KeepMoves DEF Label, c
      <4>4. \A q \in Request : \A s :
              /\ Renews(q, s)' => Renews(q, s)
              /\ Revokes(q, s)' => Revokes(q, s) /\ call'[q].about = call[q].about
        BY <1>0, <4>2, <4>3, SessionMoves DEF Label
      <4> QED BY <1>1, <3>1, <4>4
    <3>3. CASE SignAccessToken(r)
      <4> DEFINE c == [call[r] EXCEPT !.key = KeyOf(call[r].at)]
      <4>1. pc[r] = "key" /\ Keep(r, "issue", c) BY <3>3 DEF SignAccessToken
      <4>2. c.op = call[r].op /\ c.session = call[r].session BY <1>0 DEF CallTypes, CallRecord
      <4> HIDE DEF c
      <4>3. Moves(r, "issue", c) BY <1>0, <4>1 DEF Moves, Keep, CallTypes
      <4>4. \A q \in Request : \A s :
              /\ Renews(q, s)' => Renews(q, s)
              /\ Revokes(q, s)' => Revokes(q, s) /\ call'[q].about = call[q].about
        BY <1>0, <4>1, <4>2, <4>3, SessionMoves DEF Label
      <4> QED BY <1>1, <3>1, <4>4
    <3>4. CASE IssueTokensForUser(r)
      <4>1. Goto(r, "key") /\ call[r].op = "exchange"
        BY <3>4 DEF IssueTokensForUser, Basics, Placed
      <4>2. Moves(r, "key", call[r])
        BY <1>0, <4>1, GotoMoves DEF Label
      <4>3. \A q \in Request : \A s :
              /\ Renews(q, s)' => Renews(q, s)
              /\ Revokes(q, s)' => Revokes(q, s) /\ call'[q].about = call[q].about
        BY <1>0, <4>1, <4>2, SessionMoves DEF Label
      <4> QED BY <1>1, <3>1, <4>3
    <3>5. CASE ConsumeCode(r)
      <4>0. PICK k \in Code : \E claim \in {code[k].claim, NoClaim} : TokenAuthCode(r, k, claim)
        BY <3>5 DEF ConsumeCode
      <4>1. PICK claim \in {code[k].claim, NoClaim} : TokenAuthCode(r, k, claim)
        BY <4>0
      <4>2. CASE UNCHANGED requestVars BY <1>2, <3>1, <4>2 DEF requestVars
      <4>3. CASE \E c \in CallRecord : Keep(r, "owner", c)
        <5>1. \A q \in Request : \A s :
                /\ Renews(q, s)' => Renews(q, s)
                /\ Revokes(q, s)' => Revokes(q, s) /\ call'[q].about = call[q].about
          BY <2>1, <4>3 DEF Label
        <5> QED BY <1>1, <3>1, <5>1
      <4> QED BY <4>1, <4>2, <4>3, ExchangeGives
    <3> QED BY <2>7, <3>2, <3>3, <3>4, <3>5
  <2>8. CASE \/ ConfirmPasswordReset(r) \/ UpdatePasswordHash(r) \/ MarkPasswordResetTokenUsed(r)
             \/ AuthorizeForm(r) \/ AuthorizeSubmit(r) \/ AuthenticateForOAuth(r) \/ StoreCode(r)
             \/ RequestFails(r)
    <3>1. UNCHANGED <<token, ended>> /\ parallel \subseteq parallel'
      BY <2>8 DEF ConfirmPasswordReset, UpdatePasswordHash, MarkPasswordResetTokenUsed,
         AuthorizeForm, AuthorizeSubmit, AuthenticateForOAuth, StoreCode, RequestFails, tokenVars
    <3>2. \E label \in Label \ {"revoke", "key", "issue"} : Goto(r, label) \/ \E c : Keep(r, label, c)
      BY <2>8 DEF ConfirmPasswordReset, UpdatePasswordHash, MarkPasswordResetTokenUsed,
         AuthorizeForm, AuthorizeSubmit, AuthenticateForOAuth, StoreCode, RequestFails, Label
    <3>3. PICK label \in Label \ {"revoke", "key", "issue"} :
            Goto(r, label) \/ \E c : Keep(r, label, c)
      BY <3>2
    <3>4. \E c : Moves(r, label, c)
      BY <1>0, <3>3, GotoMoves DEF Moves, Keep, CallTypes
    <3>5. \A q \in Request : \A s :
            /\ Renews(q, s)' => Renews(q, s)
            /\ Revokes(q, s)' => Revokes(q, s) /\ call'[q].about = call[q].about
      BY <1>0, <3>4, SessionMoves
    <3> QED BY <1>1, <3>1, <3>5
  <2>9. CASE RequestPasswordReset(r) \/ RegisterClient(r)
    BY <1>2, <2>9 DEF RequestPasswordReset, RegisterClient, tokenVars, requestVars
  <2> QED BY <1>3, <2>2, <2>3, <2>4, <2>5, <2>6, <2>7, <2>8, <2>9 DEF Session
<1>4. CASE Expiry
  <2>1. UNCHANGED <<ended, parallel, pc, call>>
    BY <1>4 DEF Expiry, TokenExpires, ResetExpires, CodeExpires, ClientExpires, tokenVars,
       requestVars
  <2>2. \A t \in Token : /\ token'[t].session = token[t].session
                         /\ token'[t].st = "absent" <=> token[t].st = "absent"
                         /\ Unrevoked(t)' <=> Unrevoked(t)
    <3>1. CASE \E t \in Token : TokenExpires(t)
      BY <1>0, <3>1 DEF TokenExpires, Live, RowTypes, TokenRecord, Unrevoked
    <3>2. CASE token' = token BY <3>2 DEF Unrevoked
    <3> QED BY <1>4, <3>1, <3>2 DEF Expiry, ResetExpires, CodeExpires, ClientExpires, tokenVars
  <2>3. \A q \in Request : \A s :
          /\ Renews(q, s)' => Renews(q, s)
          /\ Revokes(q, s)' => Revokes(q, s) /\ call'[q].about = call[q].about
    BY <2>1 DEF Renews, Revokes
  <2> QED BY <2>1, <2>2, <2>3, SessionKept
<1>5. CASE (StartKeys \/ VerifyJWT \/ VerifyPAT) /\ OnlyVerifies
  BY <1>2, <1>5 DEF OnlyVerifies, tokenVars, requestVars
<1>6. CASE UNCHANGED vars BY <1>2, <1>6 DEF vars, tokenVars, requestVars
<1> QED BY <1>3, <1>4, <1>5, <1>6 DEF Next

(* Logins, refreshes, logouts, resets and exchanges of any number of       *)
(* requests, each statement a step of its own: a session has at most one   *)
(* refresh token that works, and none once it was ended, unless a refresh  *)
(* had read a token that was revoked before it was replaced (Refresh,      *)
(* Logout and RevokeAllUserTokens of the auth service).                    *)
THEOREM OneTokenOfASession == Spec => []OneTokenPerSession
<1>1. Init => SessionInv BY SessionInit
<1>2. Basics /\ UpInv /\ SessionInv /\ [Next]_vars => SessionInv' BY SessionNext
<1>3. SessionInv => OneTokenPerSession BY SessionCounts
<1> QED BY <1>1, <1>2, <1>3, BasicsHold, PTL DEF Spec

(* Passwords only get newer, and a reset revokes every token there is: a   *)
(* token of an older one that works was issued late.                       *)
PasswordInv ==
  /\ cleared <= password
  /\ \A r \in Request : call[r].op = "confirm" => call[r].password <= password
  /\ OldPasswordOut

LEMMA PasswordInit == ASSUME Init PROVE PasswordInv
  BY DEF Init, NoToken, NoCall, None, PasswordInv, OldPasswordOut, Live

LEMMA PasswordKept ==
  ASSUME PasswordInv, RowTypes, CallTypes, UNCHANGED <<password, cleared>>,
         \A t \in Live' : t \in Live /\ token'[t].password = token[t].password,
         late \subseteq late',
         \A r \in Request : call'[r].op = "confirm" =>
           call'[r].password = 0 \/ (call[r].op = "confirm" /\ call'[r].password = call[r].password)
  PROVE  PasswordInv'
<1>1. \A r \in Request : call'[r].op = "confirm" => call'[r].password <= password'
  <2> SUFFICES ASSUME NEW r \in Request, call'[r].op = "confirm"
               PROVE  call'[r].password <= password
    OBVIOUS
  <2>1. CASE call'[r].password = 0
    <3>1. password \in Nat BY DEF RowTypes
    <3> QED BY <2>1, <3>1
  <2>2. CASE call[r].op = "confirm" /\ call'[r].password = call[r].password
    BY <2>2 DEF PasswordInv
  <2> QED BY <2>1, <2>2
<1>2. OldPasswordOut' BY DEF PasswordInv, OldPasswordOut
<1> QED BY <1>1, <1>2 DEF PasswordInv

(* Requests that go elsewhere with what they had, or with something else   *)
(* than a confirmation, set no password.                                   *)
LEMMA PasswordMoves ==
  ASSUME CallTypes, NEW r \in Request, NEW label, NEW c, Moves(r, label, c),
         c.op = "confirm" => c.password = 0 \/ (c.op = call[r].op /\ c.password = call[r].password)
  PROVE  \A q \in Request : call'[q].op = "confirm" =>
           call'[q].password = 0 \/ (call[q].op = "confirm" /\ call'[q].password = call[q].password)
  BY DEF Moves

LEMMA PasswordNext ==
  ASSUME Basics, PasswordInv, [Next]_vars
  PROVE  PasswordInv'
<1>0. CallTypes /\ RowTypes BY DEF Basics
<1>1. ASSUME UNCHANGED <<password, cleared, token, late, call>> PROVE PasswordInv'
  BY <1>0, <1>1, PasswordKept DEF Live
<1>2. ASSUME NEW r \in Request, Session(r) \/ RequestFails(r) PROVE PasswordInv'
  <2>0. NoCall.op # "confirm" BY DEF NoCall, None
  <2>1. ASSUME NEW label \in Label,
               \/ Goto(r, label)
               \/ \E c \in CallRecord :
                    /\ Keep(r, label, c)
                    /\ c.op = "confirm" =>
                         c.password = 0 \/ (c.op = call[r].op /\ c.password = call[r].password)
        PROVE  \A q \in Request : call'[q].op = "confirm" =>
                 call'[q].password = 0
                   \/ (call[q].op = "confirm" /\ call'[q].password = call[q].password)
    <3>1. \E c : /\ Moves(r, label, c)
                 /\ c.op = "confirm" =>
                      c.password = 0 \/ (c.op = call[r].op /\ c.password = call[r].password)
      BY <1>0, <2>0, <2>1, GotoMoves, KeepMoves
    <3> QED BY <1>0, <3>1, PasswordMoves
  <2>2. CASE IssuePair(r)
    <3>1. PICK t \in Token :
            /\ \E session : token' = CreateRefreshToken(t, session, call[r].password)
            /\ late' = IF call[r].password < password THEN late \cup {t} ELSE late
      BY <2>2 DEF IssuePair
    <3>2. UNCHANGED <<password, cleared>> /\ Goto(r, "idle") BY <2>2 DEF IssuePair, resetVars
    <3>3. \A q \in Request : call'[q].op = "confirm" =>
            call[q].op = "confirm" /\ call'[q].password = call[q].password
      BY <1>0, <2>0, <3>2, GotoMoves DEF Moves, Label
    <3>4. token'[t].password = call[r].password
          /\ \A u \in Token : u # t => token'[u] = token[u]
      BY <1>0, <3>1 DEF CreateRefreshToken, RowTypes
    <3>5. call[r].password \in Nat /\ cleared \in Nat /\ password \in Nat /\ cleared <= password
      BY <1>0 DEF CallTypes, CallRecord, RowTypes, PasswordInv
    <3>6. call[r].password < cleared => call[r].password < password
      BY <3>5
    <3>7. OldPasswordOut'
      <4> SUFFICES ASSUME NEW u \in Live', token'[u].password < cleared' PROVE u \in late'
        BY DEF OldPasswordOut
      <4>1. u \in Token BY DEF Live
      <4>2. CASE u = t BY <3>1, <3>2, <3>4, <3>6, <4>2
      <4>3. CASE u # t
        <5>1. token'[u] = token[u] /\ u \in Live BY <3>4, <4>1, <4>3 DEF Live
        <5> QED BY <3>1, <3>2, <5>1 DEF PasswordInv, OldPasswordOut
      <4> QED BY <4>2, <4>3
    <3> QED BY <3>2, <3>3, <3>7 DEF PasswordInv
  <2>3. CASE RevokeAllUserTokens(r)
    <3>1. /\ token' = Revoke(Token) /\ password' = password /\ Goto(r, "idle")
          /\ cleared' = IF call[r].op = "confirm" /\ call[r].password > cleared
                        THEN call[r].password ELSE cleared
      BY <2>3 DEF RevokeAllUserTokens, resetVars
    <3>2. \A q \in Request : call'[q].op = "confirm" =>
            call[q].op = "confirm" /\ call'[q].password = call[q].password
      BY <1>0, <2>0, <3>1, GotoMoves DEF Moves, Label
    <3>3. Live' = {} BY <1>0, <3>1, RevokeGives DEF Live
    <3>4. cleared' <= password' BY <3>1 DEF PasswordInv
    <3> QED BY <3>1, <3>2, <3>3, <3>4 DEF PasswordInv, OldPasswordOut
  <2>4. CASE UpdatePasswordHash(r)
    <3> DEFINE c == [call[r] EXCEPT !.password = password + 1]
    <3>1. /\ password' = password + 1 /\ Keep(r, "used", c)
          /\ UNCHANGED <<token, cleared, late>>
      BY <2>4 DEF UpdatePasswordHash, tokenVars
    <3>2. password \in Nat /\ cleared \in Nat BY <1>0 DEF RowTypes
    <3>3. \A q \in Request : call[q].password \in Nat BY <1>0 DEF CallTypes, CallRecord
    <3>4. c.password = password + 1
      BY <1>0 DEF CallTypes, CallRecord
    <3> HIDE DEF c
    <3>5. \A q \in Request : call'[q] = call[q] \/ call'[q] = c
      BY <1>0, <3>1 DEF Keep, CallTypes
    <3>6. \A q \in Request : call'[q].op = "confirm" => call'[q].password <= password'
      <4> TAKE q \in Request
      <4>1. CASE call'[q] = c BY <3>1, <3>2, <3>4, <4>1
      <4>2. CASE call'[q] = call[q]
        <5>1. call[q].op = "confirm" => call[q].password <= password BY DEF PasswordInv
        <5>2. call[q].op = "confirm" => call[q].password <= password + 1
          BY <3>2, <3>3, <5>1
        <5> QED BY <3>1, <4>2, <5>2
      <4> QED BY <3>5, <4>1, <4>2
    <3>7. cleared <= password + 1 BY <3>2 DEF PasswordInv
    <3>8. OldPasswordOut' BY <3>1 DEF PasswordInv, OldPasswordOut, Live
    <3> QED BY <3>1, <3>6, <3>7, <3>8 DEF PasswordInv
  <2>5. CASE RevokeRefreshToken(r) \/ Logout(r)
    <3>1. /\ \E ts : token' = Revoke(ts)
          /\ UNCHANGED <<password, cleared, late>>
      BY <2>5 DEF RevokeRefreshToken, Logout, resetVars
    <3>2. \A t \in Live' : t \in Live /\ token'[t].password = token[t].password
      BY <1>0, <3>1, RevokeGives DEF Live, Revoke, RowTypes, TokenRecord
    <3>3. UNCHANGED call \/ Goto(r, "key")
      BY <2>5 DEF RevokeRefreshToken, Logout, requestVars
    <3>4. CASE UNCHANGED call BY <1>0, <3>1, <3>2, <3>4, PasswordKept
    <3>5. CASE Goto(r, "key")
      <4>1. \A q \in Request : call'[q].op = "confirm" =>
              call'[q].password = 0
                \/ (call[q].op = "confirm" /\ call'[q].password = call[q].password)
        BY <2>1, <3>5 DEF Label
      <4> QED BY <1>0, <3>1, <3>2, <4>1, PasswordKept
    <3> QED BY <3>3, <3>4, <3>5
  <2>6. ASSUME NEW label \in Label,
               \/ Goto(r, label)
               \/ \E c \in CallRecord :
                    /\ Keep(r, label, c)
                    /\ c.op = "confirm" =>
                         c.password = 0 \/ (c.op = call[r].op /\ c.password = call[r].password),
               UNCHANGED <<password, cleared, token, late>>
        PROVE  PasswordInv'
    BY <1>0, <2>1, <2>6, PasswordKept DEF Live
  <2>7. CASE Login(r)
    <3>1. PICK p \in Up :
            Keep(r, "key", [NoCall EXCEPT !.op = "login", !.at = p, !.password = password])
      BY <2>7 DEF Login
    <3> DEFINE c == [NoCall EXCEPT !.op = "login", !.at = p, !.password = password]
    <3>2. c.op = "login" /\ c \in CallRecord
      BY <1>0, NoCallFacts DEF NoCall, CallRecord, Up, RowTypes
    <3>3. Keep(r, "key", c) BY <3>1
    <3>4. UNCHANGED <<password, cleared, token, late>> BY <2>7 DEF Login, tokenVars, resetVars
    <3> HIDE DEF c
    <3> QED BY <2>6, <3>2, <3>3, <3>4 DEF Label
  <2>8. CASE SignAccessToken(r)
    <3> DEFINE c == [call[r] EXCEPT !.key = KeyOf(call[r].at)]
    <3>1. /\ Keep(r, "issue", c) /\ pc[r] = "key"
          /\ UNCHANGED <<password, cleared, token, late>>
      BY <2>8 DEF SignAccessToken, tokenVars, resetVars
    <3>2. c.op = call[r].op /\ c.password = call[r].password BY <1>0 DEF CallTypes, CallRecord
    <3> HIDE DEF c
    <3>3. Moves(r, "issue", c) BY <1>0, <3>1 DEF Moves, Keep, CallTypes
    <3>4. \A q \in Request : call'[q].op = "confirm" =>
            call'[q].password = 0
              \/ (call[q].op = "confirm" /\ call'[q].password = call[q].password)
      BY <1>0, <3>2, <3>3, PasswordMoves
    <3> QED BY <1>0, <3>1, <3>4, PasswordKept DEF Live
  <2>9. CASE Refresh(r)
    <3>1. PICK p \in Up, t \in Token, label \in {"all", "revoke"} :
            Keep(r, label, GetRefreshTokenByHash(p, t))
      BY <2>9 DEF Refresh
    <3> DEFINE c == GetRefreshTokenByHash(p, t)
    <3>2. c \in CallRecord /\ c.op = "refresh"
      BY <1>0, NoCallFacts DEF RowTypes, TokenRecord, CallRecord, Up, GetRefreshTokenByHash
    <3>3. Keep(r, label, c) /\ UNCHANGED <<password, cleared, token, late>>
      BY <2>9, <3>1 DEF Refresh, tokenVars, resetVars
    <3> HIDE DEF c
    <3> QED BY <2>6, <3>2, <3>3 DEF Label
  <2>10. CASE ConfirmPasswordReset(r)
    <3>1. PICK k \in ValidResetToken :
            Keep(r, "hash", [NoCall EXCEPT !.op = "confirm", !.about = k])
      BY <2>10 DEF ConfirmPasswordReset
    <3> DEFINE c == [NoCall EXCEPT !.op = "confirm", !.about = k]
    <3>2. c \in CallRecord /\ c.password = 0
      BY NoCallFacts DEF NoCall, CallRecord, ValidResetToken
    <3>3. Keep(r, "hash", c) /\ UNCHANGED <<password, cleared, token, late>>
      BY <2>10, <3>1 DEF ConfirmPasswordReset, resetVars
    <3> HIDE DEF c
    <3> QED BY <2>6, <3>2, <3>3 DEF Label
  <2>11. CASE AuthorizeForm(r) \/ AuthenticateForOAuth(r)
    <3>1. UNCHANGED <<password, cleared, token, late>>
      BY <2>11 DEF AuthorizeForm, AuthenticateForOAuth, tokenVars, resetVars
    <3>2. \E label \in Label : \E c : Keep(r, label, c) /\ c.op = "authorize"
      <4>1. CASE AuthorizeForm(r)
        <5>1. PICK p \in Up, claim \in [client : Client, uri : Uri, verifier : Verifier] :
                Keep(r, "submit", [NoCall EXCEPT !.op = "authorize", !.at = p, !.claim = claim])
          BY <4>1 DEF AuthorizeForm
        <5> DEFINE c == [NoCall EXCEPT !.op = "authorize", !.at = p, !.claim = claim]
        <5>2. c.op = "authorize" /\ Keep(r, "submit", c) BY <5>1 DEF NoCall
        <5> HIDE DEF c
        <5> QED BY <5>2 DEF Label
      <4>2. CASE AuthenticateForOAuth(r)
        <5> DEFINE c == [call[r] EXCEPT !.password = password]
        <5>1. c.op = "authorize" /\ Keep(r, "code", c)
          BY <4>2 DEF AuthenticateForOAuth, Basics, CallTypes, CallRecord, Placed
        <5> HIDE DEF c
        <5> QED BY <5>1 DEF Label
      <4> QED BY <2>11, <4>1, <4>2
    <3>3. PICK label, c : label \in Label /\ Keep(r, label, c) /\ c.op = "authorize" BY <3>2
    <3>4. Moves(r, label, c) BY <1>0, <3>3 DEF Moves, Keep, CallTypes
    <3>5. \A q \in Request : call'[q].op = "confirm" =>
            call'[q].password = 0
              \/ (call[q].op = "confirm" /\ call'[q].password = call[q].password)
      BY <1>0, <3>3, <3>4, PasswordMoves
    <3> QED BY <1>0, <3>1, <3>5, PasswordKept DEF Live
  <2>12. CASE ConsumeCode(r)
    <3>1. PICK k \in Code : \E claim \in {code[k].claim, NoClaim} : TokenAuthCode(r, k, claim)
      BY <2>12 DEF ConsumeCode
    <3>2. PICK claim \in {code[k].claim, NoClaim} : TokenAuthCode(r, k, claim)
      BY <3>1
    <3>3. UNCHANGED <<password, cleared, token, late>> BY <2>12 DEF ConsumeCode, tokenVars, resetVars
    <3>4. CASE UNCHANGED requestVars BY <1>1, <3>3, <3>4 DEF requestVars
    <3>5. CASE \E c \in CallRecord : Keep(r, "owner", c) /\ c.op = "exchange"
      BY <2>6, <3>3, <3>5 DEF Label
    <3> QED BY <3>2, <3>4, <3>5, ExchangeGives
  <2>13. CASE \/ MarkPasswordResetTokenUsed(r) \/ AuthorizeSubmit(r) \/ StoreCode(r)
              \/ IssueTokensForUser(r) \/ RequestFails(r)
    <3>1. UNCHANGED <<password, cleared, token, late>>
      BY <2>13 DEF MarkPasswordResetTokenUsed, AuthorizeSubmit, StoreCode, IssueTokensForUser,
         RequestFails, tokenVars, resetVars
    <3>2. \E label \in Label : Goto(r, label)
      BY <2>13 DEF MarkPasswordResetTokenUsed, AuthorizeSubmit, StoreCode, IssueTokensForUser,
         RequestFails, Label
    <3> QED BY <2>6, <3>1, <3>2
  <2>14. CASE RequestPasswordReset(r) \/ RegisterClient(r)
    BY <1>1, <2>14 DEF RequestPasswordReset, RegisterClient, tokenVars, resetVars, requestVars
  <2> QED BY <1>2, <2>2, <2>3, <2>4, <2>5, <2>7, <2>8, <2>9, <2>10, <2>11, <2>12, <2>13, <2>14
          DEF Session
<1>3. CASE Expiry
  <2>1. UNCHANGED <<password, cleared, late, call>>
    BY <1>3 DEF Expiry, TokenExpires, ResetExpires, CodeExpires, ClientExpires, tokenVars,
       resetVars, requestVars
  <2>2. \A t \in Live' : t \in Live /\ token'[t].password = token[t].password
    <3>1. CASE \E t \in Token : TokenExpires(t)
      BY <1>0, <3>1 DEF TokenExpires, Live, RowTypes, TokenRecord
    <3>2. CASE token' = token BY <3>2 DEF Live
    <3> QED BY <1>3, <3>1, <3>2 DEF Expiry, ResetExpires, CodeExpires, ClientExpires, tokenVars
  <2> QED BY <1>0, <2>1, <2>2, PasswordKept
<1>4. CASE (StartKeys \/ VerifyJWT \/ VerifyPAT) /\ OnlyVerifies
  BY <1>1, <1>4 DEF OnlyVerifies, tokenVars, resetVars, requestVars
<1>5. CASE UNCHANGED vars BY <1>1, <1>5 DEF vars, tokenVars, resetVars, requestVars
<1> QED BY <1>2, <1>3, <1>4, <1>5 DEF Next

LEMMA OldPasswordAlwaysOut == Spec => []OldPasswordOut
<1>1. Init => PasswordInv BY PasswordInit
<1>2. Basics /\ PasswordInv /\ [Next]_vars => PasswordInv' BY PasswordNext
<1>3. PasswordInv => OldPasswordOut BY DEF PasswordInv
<1> QED BY <1>1, <1>2, <1>3, BasicsHold, PTL DEF Spec

(* A request that asks for a code, exchanges one or confirms a reset has   *)
(* begun to do so with what it is about and whom it is for.                *)
Begins(r) == AuthorizeForm(r) \/ ConsumeCode(r) \/ ConfirmPasswordReset(r)
Carries(q, ops) ==
  call'[q].op \in ops =>
    call'[q].op = call[q].op /\ call'[q].about = call[q].about /\ call'[q].claim = call[q].claim

LEMMA CarriesOn ==
  ASSUME Basics, [Next]_vars, \A r \in Request : ~Begins(r)
  PROVE  \A q \in Request : Carries(q, {"authorize", "exchange", "confirm"})
<1>0. CallTypes /\ RowTypes BY DEF Basics
<1>1. ASSUME UNCHANGED call PROVE \A q \in Request : Carries(q, {"authorize", "exchange", "confirm"})
  BY <1>1 DEF Carries
<1>2. ASSUME NEW r \in Request, NEW label, NEW c, Keep(r, label, c),
             \/ c.op \in {"login", "refresh"}
             \/ c.op = call[r].op /\ c.about = call[r].about /\ c.claim = call[r].claim
      PROVE  \A q \in Request : Carries(q, {"authorize", "exchange", "confirm"})
  <2>1. \A q \in Request : call'[q] = IF q = r THEN c ELSE call[q]
    BY <1>0, <1>2 DEF Keep, CallTypes
  <2> QED BY <1>2, <2>1 DEF Carries
<1>3. ASSUME NEW r \in Request, NEW label, Goto(r, label)
      PROVE  \A q \in Request : Carries(q, {"authorize", "exchange", "confirm"})
  <2>1. \A q \in Request : call'[q] = call[q] \/ call'[q] = NoCall
    BY <1>0, <1>3 DEF Goto, CallTypes
  <2> QED BY <2>1, NoCallFacts DEF Carries
<1>4. ASSUME NEW r \in Request, Session(r) \/ RequestFails(r)
      PROVE  \A q \in Request : Carries(q, {"authorize", "exchange", "confirm"})
  <2>1. CASE Login(r)
    <3>1. PICK p \in Up :
            Keep(r, "key", [NoCall EXCEPT !.op = "login", !.at = p, !.password = password])
      BY <2>1 DEF Login
    <3>2. [NoCall EXCEPT !.op = "login", !.at = p, !.password = password].op = "login"
      BY DEF NoCall
    <3> QED BY <1>2, <3>1, <3>2
  <2>2. CASE Refresh(r)
    <3>1. PICK p \in Up, t \in Token, label \in {"all", "revoke"} :
            Keep(r, label, GetRefreshTokenByHash(p, t))
      BY <2>2 DEF Refresh
    <3>2. GetRefreshTokenByHash(p, t).op = "refresh" BY DEF GetRefreshTokenByHash, NoCall
    <3> QED BY <1>2, <3>1, <3>2
  <2>3. ASSUME NEW n, NEW label, Keep(r, label, [call[r] EXCEPT !.password = n])
        PROVE  \A q \in Request : Carries(q, {"authorize", "exchange", "confirm"})
    <3> DEFINE c == [call[r] EXCEPT !.password = n]
    <3>1. c.op = call[r].op /\ c.about = call[r].about /\ c.claim = call[r].claim
      BY <1>0 DEF CallTypes, CallRecord
    <3> HIDE DEF c
    <3> QED BY <1>2, <2>3, <3>1 DEF c
  <2>4. CASE SignAccessToken(r)
    <3> DEFINE c == [call[r] EXCEPT !.key = KeyOf(call[r].at)]
    <3>1. c.op = call[r].op /\ c.about = call[r].about /\ c.claim = call[r].claim
      BY <1>0 DEF CallTypes, CallRecord
    <3>2. Keep(r, "issue", c) BY <2>4 DEF SignAccessToken
    <3> HIDE DEF c
    <3> QED BY <1>2, <3>1, <3>2
  <2>5. CASE UpdatePasswordHash(r) \/ AuthenticateForOAuth(r)
    BY <2>3, <2>5 DEF UpdatePasswordHash, AuthenticateForOAuth
  <2>6. CASE Logout(r) \/ RequestPasswordReset(r) \/ RegisterClient(r)
    BY <1>1, <2>6 DEF Logout, RequestPasswordReset, RegisterClient, requestVars
  <2>7. CASE \/ IssuePair(r) \/ RevokeRefreshToken(r) \/ RevokeAllUserTokens(r)
             \/ MarkPasswordResetTokenUsed(r) \/ AuthorizeSubmit(r) \/ StoreCode(r)
             \/ IssueTokensForUser(r) \/ RequestFails(r)
    <3>1. \E label : Goto(r, label)
      BY <2>7 DEF IssuePair, RevokeRefreshToken, RevokeAllUserTokens,
         MarkPasswordResetTokenUsed, AuthorizeSubmit, StoreCode, IssueTokensForUser, RequestFails
    <3> QED BY <1>3, <3>1
  <2> QED BY <1>4, <2>1, <2>2, <2>4, <2>5, <2>6, <2>7 DEF Session, Begins
<1>5. CASE Expiry \/ ((StartKeys \/ VerifyJWT \/ VerifyPAT) /\ OnlyVerifies) \/ UNCHANGED vars
  BY <1>1, <1>5 DEF Expiry, TokenExpires, ResetExpires, CodeExpires, ClientExpires,
     OnlyVerifies, requestVars, vars
<1> QED BY <1>4, <1>5 DEF Next

(* Authorization codes.  A code is of a claim that was registered and      *)
(* allowed; its one exchange is in progress or done once it is gone.       *)
Good(claim) == /\ claim.client \in Client /\ claim.uri \in registered[claim.client]
               /\ IsAllowedRedirectURI(claim.uri)
Exchanges(r, k) == call[r].op = "exchange" /\ call[r].about = k

CodeInv ==
  /\ \A c \in Client : client[c] \subseteq registered[c]
  /\ \A c \in Client : \A u \in registered[c] : IsAllowedRedirectURI(u)
  /\ \A r \in Request : call[r].op = "authorize" => Good(call[r].claim)
  /\ \A k \in Code :
       /\ code[k].st # "absent" => Good(code[k].claim)
       /\ code[k].st # "gone" => grants[k] = <<>> /\ \A r \in Request : ~Exchanges(r, k)
       /\ \A q, r \in Request : Exchanges(q, k) /\ Exchanges(r, k) => q = r
       /\ \A r \in Request : Exchanges(r, k) => grants[k] = <<>> /\ call[r].claim = code[k].claim
       /\ grants[k] # <<>> => grants[k] = <<code[k].claim>>

LEMMA CodeInit ==
  ASSUME Init,
         \A x \in Scenarios : \A c \in Client : \A u \in x.clients[c] : IsAllowedRedirectURI(u)
  PROVE  CodeInv
  BY DEF Init, CodeInv, NoCall, NoCode, None, Exchanges

LEMMA CodeGives ==
  ASSUME Basics, CodeInv
  PROVE  \A k \in Code : /\ Len(grants[k]) <= 1
                         /\ \A i \in DOMAIN grants[k] :
                              LET claim == grants[k][i]
                              IN /\ claim = code[k].claim
                                 /\ claim.uri \in registered[claim.client]
                                 /\ IsAllowedRedirectURI(claim.uri)
<1> SUFFICES ASSUME NEW k \in Code
             PROVE  /\ Len(grants[k]) <= 1
                    /\ \A i \in DOMAIN grants[k] :
                         LET claim == grants[k][i]
                         IN /\ claim = code[k].claim
                            /\ claim.uri \in registered[claim.client]
                            /\ IsAllowedRedirectURI(claim.uri)
  OBVIOUS
<1>1. CASE grants[k] = <<>> BY <1>1
<1>2. CASE grants[k] # <<>>
  <2>1. grants[k] = <<code[k].claim>> /\ Good(code[k].claim)
    BY <1>2 DEF Basics, RowTypes, CodeRecord, CodeInv
  <2>2. Len(grants[k]) = 1 /\ DOMAIN grants[k] = {1} /\ grants[k][1] = code[k].claim
    BY <2>1
  <2> QED BY <2>1, <2>2 DEF Good
<1> QED BY <1>1, <1>2

(* Steps that leave the codes and exchanges, or end some of them *)
LEMMA CodeKept ==
  ASSUME CodeInv,
         \A c \in Client : client'[c] \subseteq registered'[c],
         \A c \in Client : /\ registered[c] \subseteq registered'[c]
                           /\ \A u \in registered'[c] : IsAllowedRedirectURI(u),
         grants' = grants,
         \A k \in Code : /\ code'[k].claim = code[k].claim
                         /\ code'[k].st = code[k].st \/ (code[k].st = "live" /\ code'[k].st = "gone"),
         \A q \in Request : Carries(q, {"authorize", "exchange", "confirm"})
  PROVE  CodeInv'
<1>1. \A claim : Good(claim) => Good(claim)' BY DEF Good
<1>2. \A r \in Request : call'[r].op = "authorize" => Good(call[r].claim)'
  <2> TAKE r \in Request
  <2> HAVE call'[r].op = "authorize"
  <2>1. PICK claim : claim = call[r].claim OBVIOUS
  <2>2. call[r].op = "authorize" /\ call'[r].claim = claim BY <2>1 DEF Carries
  <2>3. Good(claim)' BY <1>1, <2>1, <2>2 DEF CodeInv
  <2> QED BY <2>2, <2>3
<1>3. ASSUME NEW k \in Code, code'[k].st # "absent" PROVE Good(code[k].claim)'
  <2>1. PICK claim : claim = code[k].claim OBVIOUS
  <2>2. Good(claim)' BY <1>1, <1>3, <2>1 DEF CodeInv
  <2> QED BY <2>1, <2>2
<1>4. \A r \in Request : \A k \in Code :
        Exchanges(r, k)' => Exchanges(r, k) /\ call'[r].claim = call[r].claim
  BY DEF Exchanges, Carries
<1> QED BY <1>2, <1>3, <1>4 DEF CodeInv

LEMMA CodeNext ==
  ASSUME Basics, CodeInv, [Next]_vars
  PROVE  CodeInv'
<1>0. CallTypes /\ RowTypes BY DEF Basics
<1>1. ASSUME NEW r \in Request, AuthorizeForm(r) PROVE CodeInv'
  <2>1. PICK p \in Up, claim \in [client : Client, uri : Uri, verifier : Verifier] :
          /\ MayRedirect(claim)
          /\ Keep(r, "submit", [NoCall EXCEPT !.op = "authorize", !.at = p, !.claim = claim])
    BY <1>1 DEF AuthorizeForm
  <2> DEFINE c == [NoCall EXCEPT !.op = "authorize", !.at = p, !.claim = claim]
  <2>2. c.op = "authorize" /\ c.claim = claim BY DEF NoCall
  <2> HIDE DEF c
  <2>3. UNCHANGED <<client, registered, code, grants>>
    BY <1>1 DEF AuthorizeForm, tokenVars, oauthVars
  <2>4. Good(claim) BY <2>1 DEF MayRedirect, CodeInv, Good
  <2>5. \A q \in Request : call'[q] = IF q = r THEN c ELSE call[q]
    BY <1>0, <2>1 DEF Keep, CallTypes, c
  <2>6. \A x : Good(x)' <=> Good(x) BY <2>3 DEF Good
  <2>7. \A q \in Request : \A k : Exchanges(q, k)' <=> Exchanges(q, k) /\ q # r
    BY <2>2, <2>5 DEF Exchanges
  <2>8. \A q \in Request : call'[q].op = "authorize" => Good(call[q].claim)'
    <3> TAKE q \in Request
    <3>1. PICK x : x = call'[q].claim OBVIOUS
    <3>2. call'[q].op = "authorize" => Good(x) BY <2>2, <2>4, <2>5, <3>1 DEF CodeInv
    <3>3. Good(x) => Good(x)' BY <2>6
    <3> QED BY <3>1, <3>2, <3>3
  <2>9. ASSUME NEW k \in Code, code[k].st # "absent" PROVE Good(code[k].claim)'
    <3>1. Good(code[k].claim) BY <2>9 DEF CodeInv
    <3> QED BY <2>3, <3>1 DEF Good
  <2> QED BY <2>3, <2>5, <2>7, <2>8, <2>9 DEF CodeInv
<1>2. ASSUME NEW r \in Request, ConfirmPasswordReset(r) PROVE CodeInv'
  <2>1. PICK k \in ValidResetToken :
          Keep(r, "hash", [NoCall EXCEPT !.op = "confirm", !.about = k])
    BY <1>2 DEF ConfirmPasswordReset
  <2> DEFINE c == [NoCall EXCEPT !.op = "confirm", !.about = k]
  <2>2. c.op = "confirm" BY DEF NoCall
  <2> HIDE DEF c
  <2>3. UNCHANGED <<client, registered, code, grants>>
    BY <1>2 DEF ConfirmPasswordReset, oauthVars
  <2>4. \A q \in Request : call'[q] = IF q = r THEN c ELSE call[q]
    BY <1>0, <2>1 DEF Keep, CallTypes, c
  <2>5. \A q \in Request : \A l : Exchanges(q, l)' <=> Exchanges(q, l) /\ q # r
    BY <2>2, <2>4 DEF Exchanges
  <2>6. \A q \in Request : call'[q].op = "authorize" => Good(call[q].claim)'
    BY <2>2, <2>3, <2>4 DEF CodeInv, Good
  <2>7. ASSUME NEW l \in Code, code[l].st # "absent" PROVE Good(code[l].claim)'
    <3>1. Good(code[l].claim) BY <2>7 DEF CodeInv
    <3> QED BY <2>3, <3>1 DEF Good
  <2> QED BY <2>3, <2>4, <2>5, <2>6, <2>7 DEF CodeInv
<1>3. ASSUME NEW r \in Request, ConsumeCode(r) PROVE CodeInv'
  <2>1. PICK k \in Code :
          /\ code[k].st = "live" /\ code' = [code EXCEPT ![k].st = "gone"]
          /\ \E claim \in {code[k].claim, NoClaim} : TokenAuthCode(r, k, claim)
    BY <1>3 DEF ConsumeCode
  <2>2. UNCHANGED <<client, registered, grants>> BY <1>3 DEF ConsumeCode, tokenVars
  <2>3. /\ \A l \in Code : code'[l].claim = code[l].claim
        /\ \A l \in Code : code'[l].st = IF l = k THEN "gone" ELSE code[l].st
    BY <1>0, <2>1 DEF RowTypes, CodeRecord
  <2>4. \/ UNCHANGED requestVars
        \/ \E c \in CallRecord : /\ Keep(r, "owner", c) /\ c.op = "exchange" /\ c.about = k
                                 /\ c.claim = code[k].claim
    <3>1. PICK claim \in {code[k].claim, NoClaim} : TokenAuthCode(r, k, claim) BY <2>1
    <3> QED BY <3>1, ExchangeGives
  <2>5. CASE UNCHANGED requestVars
    <3>1. \A q \in Request : Carries(q, {"authorize", "exchange", "confirm"})
      BY <2>5 DEF Carries, requestVars
    <3> QED BY <2>1, <2>2, <2>3, <3>1, CodeKept DEF CodeInv
  <2>6. CASE \E c \in CallRecord : /\ Keep(r, "owner", c) /\ c.op = "exchange" /\ c.about = k
                                   /\ c.claim = code[k].claim
    <3>1. PICK c \in CallRecord : /\ Keep(r, "owner", c) /\ c.op = "exchange" /\ c.about = k
                                  /\ c.claim = code[k].claim
      BY <2>6
    <3>2. \A q \in Request : call'[q] = IF q = r THEN c ELSE call[q]
      BY <1>0, <3>1 DEF Keep, CallTypes
    <3>3. grants[k] = <<>> /\ \A q \in Request : ~Exchanges(q, k)
      BY <2>1 DEF CodeInv
    <3>4. \A q \in Request : \A l : Exchanges(q, l)' <=> IF q = r THEN l = k ELSE Exchanges(q, l)
      BY <3>1, <3>2 DEF Exchanges
    <3>5. \A q \in Request : call'[q].op = "authorize" => Good(call[q].claim)'
      BY <2>2, <3>1, <3>2 DEF CodeInv, Good
    <3>6. ASSUME NEW l \in Code, code'[l].st # "absent" PROVE Good(code[l].claim)'
      <4>1. Good(code[l].claim) BY <2>1, <2>3, <3>6 DEF CodeInv
      <4> QED BY <2>2, <2>3, <4>1 DEF Good
    <3>7. ASSUME NEW l \in Code, code'[l].st # "gone"
          PROVE  grants'[l] = <<>> /\ \A q \in Request : ~Exchanges(q, l)'
      BY <2>2, <2>3, <3>4, <3>7 DEF CodeInv
    <3>8. ASSUME NEW l \in Code
          PROVE  /\ \A q, s \in Request : Exchanges(q, l)' /\ Exchanges(s, l)' => q = s
                 /\ \A q \in Request : Exchanges(q, l)' =>
                      grants'[l] = <<>> /\ call'[q].claim = code'[l].claim
                 /\ grants'[l] # <<>> => grants'[l] = <<code'[l].claim>>
      <4>1. CASE l = k BY <2>2, <2>3, <3>1, <3>2, <3>3, <3>4, <4>1
      <4>2. CASE l # k
        <5>1. \A q \in Request : Exchanges(q, l)' => Exchanges(q, l) /\ call'[q] = call[q]
          BY <3>2, <3>4, <4>2
        <5> QED BY <2>2, <2>3, <5>1 DEF CodeInv
      <4> QED BY <4>1, <4>2
    <3>9. /\ \A c2 \in Client : client'[c2] \subseteq registered'[c2]
          /\ \A c2 \in Client : \A u \in registered'[c2] : IsAllowedRedirectURI(u)
      BY <2>2 DEF CodeInv
    <3> QED BY <3>5, <3>6, <3>7, <3>8, <3>9 DEF CodeInv
  <2> QED BY <2>4, <2>5, <2>6
<1>4. CASE \A r \in Request : ~Begins(r)
  <2>1. \A q \in Request : Carries(q, {"authorize", "exchange", "confirm"})
    BY <1>4, CarriesOn
  <2>2. ASSUME UNCHANGED <<client, registered, code, grants>> PROVE CodeInv'
    BY <2>1, <2>2, CodeKept DEF CodeInv
  <2>3. ASSUME NEW r \in Request, IssuePair(r) PROVE CodeInv'
    <3>1. /\ UNCHANGED <<client, registered, code>> /\ Goto(r, "idle")
          /\ grants' = IF call[r].op = "exchange"
                       THEN [grants EXCEPT ![call[r].about] = Append(@, call[r].claim)]
                       ELSE grants
      BY <2>3 DEF IssuePair, oauthVars
    <3>2. CASE call[r].op # "exchange" BY <2>2, <3>1, <3>2
    <3>3. CASE call[r].op = "exchange"
      <4>0. PICK k : k = call[r].about OBVIOUS
      <4>1. k \in Code /\ Exchanges(r, k)
        BY <3>3, <4>0 DEF Basics, Placed, Exchanges
      <4>2. grants[k] = <<>> /\ call[r].claim = code[k].claim /\ code[k].st = "gone"
        BY <1>0, <4>1 DEF CodeInv, RowTypes, CodeRecord
      <4>3. grants'[k] = <<code[k].claim>>
            /\ \A l \in Code : l # k => grants'[l] = grants[l]
        BY <1>0, <3>1, <3>3, <4>0, <4>1, <4>2 DEF RowTypes
      <4>4. call'[r] = NoCall /\ \A q \in Request : q # r => call'[q] = call[q]
        BY <1>0, <3>1, GotoMoves DEF Moves, Label
      <4>5. \A q \in Request : \A l \in Code : Exchanges(q, l)' => Exchanges(q, l) /\ q # r /\ l # k
        <5>1. \A q \in Request : \A l \in Code : Exchanges(q, l)' => Exchanges(q, l) /\ q # r
          BY <4>4, NoCallFacts DEF Exchanges
        <5> QED BY <4>1, <5>1 DEF CodeInv
      <4>6. \A q \in Request : call'[q].op = "authorize" => Good(call[q].claim)'
        BY <3>1, <4>4, NoCallFacts DEF CodeInv, Good
      <4>7. ASSUME NEW l \in Code
            PROVE  /\ code'[l].st # "absent" => Good(code[l].claim)'
                   /\ code'[l].st # "gone" =>
                        grants'[l] = <<>> /\ \A q \in Request : ~Exchanges(q, l)'
                   /\ \A q, s \in Request : Exchanges(q, l)' /\ Exchanges(s, l)' => q = s
                   /\ \A q \in Request : Exchanges(q, l)' =>
                        grants'[l] = <<>> /\ call'[q].claim = code'[l].claim
                   /\ grants'[l] # <<>> => grants'[l] = <<code'[l].claim>>
        <5>1. code'[l].st # "absent" => Good(code[l].claim)'
          BY <3>1 DEF CodeInv, Good
        <5>2. CASE l = k BY <3>1, <4>2, <4>3, <4>5, <5>1, <5>2
        <5>3. CASE l # k
          <6>1. grants'[l] = grants[l] /\ code'[l] = code[l] BY <3>1, <4>3, <5>3
          <6>2. \A q \in Request : Exchanges(q, l)' => Exchanges(q, l) /\ call'[q] = call[q]
            BY <4>4, <4>5
          <6>3. code'[l].st # "gone" => grants'[l] = <<>> /\ \A q \in Request : ~Exchanges(q, l)'
            BY <6>1, <6>2 DEF CodeInv
          <6>4. /\ \A q, s \in Request : Exchanges(q, l)' /\ Exchanges(s, l)' => q = s
                /\ \A q \in Request : Exchanges(q, l)' =>
                     grants'[l] = <<>> /\ call'[q].claim = code'[l].claim
            BY <6>1, <6>2 DEF CodeInv
          <6>5. grants'[l] # <<>> => grants'[l] = <<code'[l].claim>>
            BY <6>1 DEF CodeInv
          <6> QED BY <5>1, <6>3, <6>4, <6>5
        <5> QED BY <5>2, <5>3
      <4>8. /\ \A c \in Client : client'[c] \subseteq registered'[c]
            /\ \A c \in Client : \A u \in registered'[c] : IsAllowedRedirectURI(u)
        BY <3>1 DEF CodeInv
      <4> QED BY <4>6, <4>7, <4>8 DEF CodeInv
    <3> QED BY <3>2, <3>3
  <2>4. ASSUME NEW r \in Request, StoreCode(r) PROVE CodeInv'
    <3>1. PICK k \in Code :
            /\ code[k].st = "absent"
            /\ code' = [code EXCEPT ![k] = [st |-> "live", password |-> call[r].password,
                                            claim |-> call[r].claim]]
      BY <2>4 DEF StoreCode
    <3>2. UNCHANGED <<client, registered, grants>> /\ call[r].op = "authorize" /\ Goto(r, "idle")
      BY <2>4 DEF StoreCode, tokenVars, Basics, Placed
    <3>3. /\ code'[k].st = "live" /\ code'[k].claim = call[r].claim
          /\ \A l \in Code : l # k => code'[l] = code[l]
      BY <1>0, <3>1 DEF RowTypes
    <3>4. \A q \in Request : \A l \in Code :
            Exchanges(q, l)' => Exchanges(q, l) /\ l # k /\ call'[q].claim = call[q].claim
      <4>1. \A q \in Request : \A l \in Code :
              Exchanges(q, l)' => Exchanges(q, l) /\ call'[q].claim = call[q].claim
        BY <2>1 DEF Exchanges, Carries
      <4> QED BY <3>1, <4>1 DEF CodeInv
    <3>5. \A x : Good(x)' <=> Good(x) BY <3>2 DEF Good
    <3>6. \A q \in Request : call'[q].op = "authorize" => Good(call[q].claim)'
      <4> TAKE q \in Request
      <4>1. PICK x : x = call'[q].claim OBVIOUS
      <4>2. call'[q].op = "authorize" => Good(x) BY <2>1, <4>1 DEF CodeInv, Carries
      <4>3. Good(x) => Good(x)' BY <3>5
      <4> QED BY <4>1, <4>2, <4>3
    <3>7. ASSUME NEW l \in Code, code'[l].st # "absent" PROVE Good(code[l].claim)'
      <4>1. PICK x : x = code'[l].claim OBVIOUS
      <4>2. CASE l = k
        <5>1. Good(x) BY <3>2, <3>3, <4>1, <4>2 DEF CodeInv
        <5>2. Good(x)' BY <3>5, <5>1
        <5> QED BY <4>1, <5>2
      <4>3. CASE l # k
        <5>1. Good(x) BY <3>3, <3>7, <4>1, <4>3 DEF CodeInv
        <5>2. Good(x)' BY <3>5, <5>1
        <5> QED BY <4>1, <5>2
      <4> QED BY <4>2, <4>3
    <3>8. ASSUME NEW l \in Code
          PROVE  /\ code'[l].st # "gone" =>
                      grants'[l] = <<>> /\ \A q \in Request : ~Exchanges(q, l)'
                 /\ \A q, s \in Request : Exchanges(q, l)' /\ Exchanges(s, l)' => q = s
                 /\ \A q \in Request : Exchanges(q, l)' =>
                      grants'[l] = <<>> /\ call'[q].claim = code'[l].claim
                 /\ grants'[l] # <<>> => grants'[l] = <<code'[l].claim>>
      <4>1. CASE l = k
        <5>1. grants[k] = <<>> BY <3>1 DEF CodeInv
        <5> QED BY <3>2, <3>4, <4>1, <5>1
      <4>2. CASE l # k BY <3>2, <3>3, <3>4, <4>2 DEF CodeInv
      <4> QED BY <4>1, <4>2
    <3>9. /\ \A c \in Client : client'[c] \subseteq registered'[c]
          /\ \A c \in Client : \A u \in registered'[c] : IsAllowedRedirectURI(u)
      BY <3>2 DEF CodeInv
    <3> QED BY <3>6, <3>7, <3>8, <3>9 DEF CodeInv
  <2>5. ASSUME NEW r \in Request, RegisterClient(r) PROVE CodeInv'
    <3>1. PICK c \in Client, uris \in SUBSET Uri \ {{}} :
            /\ registered[c] = {} /\ \A u \in uris : IsAllowedRedirectURI(u)
            /\ client' = [client EXCEPT ![c] = uris]
            /\ registered' = [registered EXCEPT ![c] = uris]
      BY <2>5 DEF RegisterClient
    <3>2. UNCHANGED <<code, grants>> BY <2>5 DEF RegisterClient, tokenVars
    <3>3. \A d \in Client : /\ client'[d] = IF d = c THEN uris ELSE client[d]
                            /\ registered'[d] = IF d = c THEN uris ELSE registered[d]
      BY <1>0, <3>1 DEF RowTypes
    <3> QED BY <2>1, <3>1, <3>2, <3>3, CodeKept DEF CodeInv
  <2>6. CASE Expiry
    <3>1. ASSUME NEW k \in Code, CodeExpires(k) PROVE CodeInv'
      <4>1. UNCHANGED <<client, registered, grants>> BY <3>1 DEF CodeExpires, tokenVars
      <4>2. \A l \in Code : /\ code'[l].claim = code[l].claim
                            /\ code'[l].st = code[l].st
                                 \/ (code[l].st = "live" /\ code'[l].st = "gone")
        BY <1>0, <3>1 DEF CodeExpires, RowTypes, CodeRecord
      <4> QED BY <2>1, <4>1, <4>2, CodeKept DEF CodeInv
    <3>2. ASSUME NEW c \in Client, ClientExpires(c) PROVE CodeInv'
      <4>1. UNCHANGED <<registered, code, grants>> BY <3>2 DEF ClientExpires, tokenVars
      <4>2. \A d \in Client : client'[d] \subseteq client[d]
        BY <1>0, <3>2 DEF ClientExpires, RowTypes
      <4>3. \A d \in Client : client'[d] \subseteq registered'[d]
        BY <4>1, <4>2 DEF CodeInv
      <4> QED BY <2>1, <4>1, <4>3, CodeKept DEF CodeInv
    <3>3. ASSUME NEW t \in Token, TokenExpires(t) PROVE CodeInv'
      BY <2>2, <3>3 DEF TokenExpires, oauthVars
    <3>4. ASSUME NEW k \in Reset, ResetExpires(k) PROVE CodeInv'
      BY <2>2, <3>4 DEF ResetExpires, tokenVars, oauthVars
    <3> QED BY <2>6, <3>1, <3>2, <3>3, <3>4 DEF Expiry
  <2>7. ASSUME NEW r \in Request,
               \/ Login(r) \/ SignAccessToken(r) \/ Refresh(r) \/ RevokeRefreshToken(r)
               \/ RevokeAllUserTokens(r) \/ Logout(r) \/ RequestPasswordReset(r)
               \/ UpdatePasswordHash(r) \/ MarkPasswordResetTokenUsed(r) \/ AuthorizeSubmit(r)
               \/ AuthenticateForOAuth(r) \/ IssueTokensForUser(r) \/ RequestFails(r)
        PROVE  CodeInv'
    BY <2>2, <2>7 DEF Login, SignAccessToken, Refresh, RevokeRefreshToken, RevokeAllUserTokens,
       Logout, RequestPasswordReset, UpdatePasswordHash, MarkPasswordResetTokenUsed,
       AuthorizeSubmit, AuthenticateForOAuth, IssueTokensForUser, RequestFails, tokenVars,
       oauthVars
  <2>8. CASE (StartKeys \/ VerifyJWT \/ VerifyPAT) /\ OnlyVerifies
    BY <2>2, <2>8 DEF OnlyVerifies, tokenVars, oauthVars
  <2>9. CASE UNCHANGED vars BY <2>2, <2>9 DEF vars, tokenVars, oauthVars
  <2> QED BY <1>4, <2>3, <2>4, <2>5, <2>6, <2>7, <2>8, <2>9 DEF Next, Session, Begins
<1> QED BY <1>1, <1>2, <1>3, <1>4 DEF Begins

(* Resets.  Of one that is not among the parallel ones a single            *)
(* confirmation is in progress; it finds no password set, and leaves the   *)
(* reset in a state that no other one begins from, or is about to.         *)
Confirms(r, k) == call[r].op = "confirm" /\ call[r].about = k
Marks(r, k) == Confirms(r, k) /\ pc[r] = "used"
Over(k) == reset[k] \in {"expired", "used"}

Single(k) ==
  /\ \A q, r \in Request : Confirms(q, k) /\ Confirms(r, k) => q = r
  /\ \A r \in Request : Confirms(r, k) /\ pc[r] = "hash" => changes[k] = 0
  /\ changes[k] # 0 => Over(k) \/ \E r \in Request : Marks(r, k)
  /\ changes[k] <= 1

ResetInv == \A k \in Reset \ parallel : Single(k)

LEMMA ResetInit == ASSUME Init PROVE ResetInv
  BY DEF Init, NoCall, None, ResetInv, Single, Confirms

(* Steps after which a reset is over that was, and after which one whose   *)
(* password is set is still to be marked, is over or is among the parallel *)
LEMMA ResetKept ==
  ASSUME ResetInv, changes' = changes, parallel \subseteq parallel',
         \A k \in Reset : Over(k) => Over(k)',
         \A q \in Request : \A k \in Reset \ parallel' :
           /\ Confirms(q, k)' => Confirms(q, k) /\ (pc'[q] = "hash" => pc[q] = "hash")
           /\ Marks(q, k) => Marks(q, k)' \/ Over(k)'
  PROVE  ResetInv'
<1> SUFFICES ASSUME NEW k \in Reset \ parallel' PROVE Single(k)'
  BY DEF ResetInv
<1>1. Single(k) BY DEF ResetInv
<1>2. changes'[k] # 0 => Over(k)' \/ \E r \in Request : Marks(r, k)'
  BY <1>1 DEF Single
<1> QED BY <1>1, <1>2 DEF Single

LEMMA ResetNext ==
  ASSUME Basics, ResetInv, [Next]_vars
  PROVE  ResetInv'
<1>0. CallTypes /\ RowTypes BY DEF Basics
<1>1. ASSUME NEW r \in Request, ConfirmPasswordReset(r) PROVE ResetInv'
  <2>1. PICK k \in ValidResetToken :
          /\ Keep(r, "hash", [NoCall EXCEPT !.op = "confirm", !.about = k])
          /\ parallel' = IF Confirming(k) # {} THEN parallel \cup {k} ELSE parallel
    BY <1>1 DEF ConfirmPasswordReset
  <2> DEFINE c == [NoCall EXCEPT !.op = "confirm", !.about = k]
  <2>2. c.op = "confirm" /\ c.about = k BY DEF NoCall
  <2> HIDE DEF c
  <2>3. UNCHANGED <<reset, changes>> /\ pc[r] = "idle" /\ call[r] = NoCall
    BY <1>1 DEF ConfirmPasswordReset, resetVars, Ask, Busy, Basics, Placed
  <2>4. /\ \A q \in Request : call'[q] = IF q = r THEN c ELSE call[q]
        /\ \A q \in Request : pc'[q] = IF q = r THEN "hash" ELSE pc[q]
    BY <1>0, <2>1 DEF Keep, CallTypes, c
  <2>5. \A q \in Request : \A l : /\ Confirms(q, l)' <=> IF q = r THEN l = k ELSE Confirms(q, l)
                                  /\ Marks(q, l)' <=> q # r /\ Marks(q, l)
    BY <2>2, <2>4 DEF Confirms, Marks
  <2>6. \A l : ~Marks(r, l) BY <2>3 DEF Marks
  <2> SUFFICES ASSUME NEW l \in Reset \ parallel' PROVE Single(l)'
    BY DEF ResetInv
  <2>7. Single(l) BY <2>1 DEF ResetInv
  <2>8. Over(l)' <=> Over(l) BY <2>3 DEF Over
  <2>9. changes'[l] # 0 => Over(l)' \/ \E q \in Request : Marks(q, l)'
    BY <2>3, <2>5, <2>6, <2>7, <2>8 DEF Single
  <2>10. CASE l = k
    <3>1. \A q \in Request : ~Confirms(q, k)
      BY <2>1, <2>10 DEF Confirming, Confirms
    <3>2. ~Over(k) /\ \A q \in Request : ~Marks(q, k)
      BY <3>1 DEF ValidResetToken, Over, Marks
    <3>3. changes[k] = 0 BY <2>7, <2>10, <3>2 DEF Single
    <3>4. \A q \in Request : Confirms(q, l)' => q = r BY <2>5, <2>10, <3>1
    <3>5. \A p, q \in Request : Confirms(p, l)' /\ Confirms(q, l)' => p = q
      BY <3>4
    <3>6. \A q \in Request : Confirms(q, l)' /\ pc'[q] = "hash" => changes'[l] = 0
      BY <2>3, <2>10, <3>3
    <3>7. changes'[l] <= 1 BY <2>3, <2>10, <3>3
    <3> QED BY <2>9, <3>5, <3>6, <3>7 DEF Single
  <2>11. CASE l # k
    <3>1. \A q \in Request : Confirms(q, l)' => Confirms(q, l) /\ pc'[q] = pc[q]
      BY <2>4, <2>5, <2>11
    <3> QED BY <2>3, <2>7, <2>9, <3>1 DEF Single
  <2> QED BY <2>10, <2>11
<1>2. ASSUME NEW r \in Request, UpdatePasswordHash(r) PROVE ResetInv'
  <2> DEFINE c == [call[r] EXCEPT !.password = password + 1]
  <2>0. PICK k : k = call[r].about OBVIOUS
  <2>1. /\ pc[r] = "hash" /\ Keep(r, "used", c) /\ UNCHANGED <<reset, parallel>>
        /\ changes' = [changes EXCEPT ![k] = @ + 1]
    BY <1>2, <2>0 DEF UpdatePasswordHash, tokenVars
  <2>2. k \in Reset /\ Confirms(r, k)
    BY <2>0, <2>1 DEF Basics, Placed, Confirms
  <2>3. c.op = "confirm" /\ c.about = k
    BY <1>0, <2>0, <2>2 DEF CallTypes, CallRecord, Confirms
  <2> HIDE DEF c
  <2>4. /\ \A q \in Request : call'[q] = IF q = r THEN c ELSE call[q]
        /\ \A q \in Request : pc'[q] = IF q = r THEN "used" ELSE pc[q]
    BY <1>0, <2>1 DEF Keep, CallTypes
  <2>5. \A q \in Request : \A l :
          /\ Confirms(q, l)' <=> Confirms(q, l)
          /\ Marks(q, l)' <=> (Marks(q, l) /\ q # r) \/ (q = r /\ l = k)
    BY <2>0, <2>2, <2>3, <2>4 DEF Confirms, Marks
  <2>6. \A l : ~Marks(r, l) BY <2>1 DEF Marks
  <2> SUFFICES ASSUME NEW l \in Reset \ parallel' PROVE Single(l)'
    BY DEF ResetInv
  <2>7. Single(l) BY <2>1 DEF ResetInv
  <2>8. \A p, q \in Request : Confirms(p, l)' /\ Confirms(q, l)' => p = q
    BY <2>5, <2>7 DEF Single
  <2>9. CASE l = k
    <3>1. changes[l] = 0 BY <2>1, <2>2, <2>7, <2>9 DEF Single
    <3>2. changes'[l] = 1 BY <1>0, <2>1, <2>2, <2>9, <3>1 DEF RowTypes
    <3>3. \A q \in Request : Confirms(q, l)' => q = r BY <2>2, <2>5, <2>7, <2>9 DEF Single
    <3>4. \A q \in Request : Confirms(q, l)' => pc'[q] = "used" BY <2>4, <3>3
    <3>5. Marks(r, l)' BY <2>5, <2>9
    <3>6. changes'[l] <= 1 BY <3>2
    <3> QED BY <2>8, <3>4, <3>5, <3>6 DEF Single
  <2>10. CASE l # k
    <3>1. changes'[l] = changes[l] BY <1>0, <2>1, <2>10 DEF RowTypes
    <3>2. \A q \in Request : Confirms(q, l)' /\ pc'[q] = "hash" => Confirms(q, l) /\ pc[q] = "hash"
      BY <2>4, <2>5
    <3>3. \A q \in Request : Marks(q, l) => Marks(q, l)' BY <2>5, <2>6
    <3>4. Over(l)' <=> Over(l) BY <2>1 DEF Over
    <3> QED BY <2>7, <2>8, <3>1, <3>2, <3>3, <3>4 DEF Single
  <2> QED BY <2>9, <2>10
(* A request that stands elsewhere than at "used" marks nothing. *)
<1>3. ASSUME changes' = changes, parallel \subseteq parallel',
             \A k \in Reset : Over(k) => Over(k)',
             \A q \in Request : Carries(q, {"authorize", "exchange", "confirm"}),
             \A q \in Request : pc'[q] = "hash" => pc[q] = "hash",
             \A q \in Request : pc[q] = "used" => pc'[q] = "used" /\ call'[q] = call[q]
      PROVE  ResetInv'
  BY <1>3, ResetKept DEF Confirms, Marks, Carries
<1>4. CASE \A r \in Request : ~ConfirmPasswordReset(r) /\ ~UpdatePasswordHash(r)
  <2>1. ASSUME NEW r \in Request, NEW c \in CallRecord, NEW label \in Label,
               Keep(r, label, c) \/ Goto(r, label), label # "hash", pc[r] # "used",
               UNCHANGED <<reset, changes>>, parallel \subseteq parallel',
               \A q \in Request : Carries(q, {"authorize", "exchange", "confirm"})
        PROVE  ResetInv'
    <3>1. \A q \in Request : q # r => pc'[q] = pc[q] /\ call'[q] = call[q]
      BY <1>0, <2>1, GotoMoves, KeepMoves DEF Moves
    <3>2. pc'[r] = label BY <1>0, <2>1 DEF Goto, Keep, CallTypes
    <3> QED BY <1>3, <2>1, <3>1, <3>2 DEF Over
  <2>2. ASSUME UNCHANGED <<changes, pc, call>>, parallel \subseteq parallel',
               \A k \in Reset : Over(k) => Over(k)'
        PROVE  ResetInv'
    BY <1>3, <2>2 DEF Carries
  <2>3. ASSUME NEW r \in Request, AuthorizeForm(r) \/ ConsumeCode(r) PROVE ResetInv'
    <3>1. UNCHANGED <<reset, changes, parallel>> /\ pc[r] = "idle"
      BY <2>3 DEF AuthorizeForm, ConsumeCode, tokenVars, resetVars, Ask, Busy
    <3>2. \/ UNCHANGED <<pc, call>>
          \/ \E label \in {"submit", "owner"} : \E c : /\ Keep(r, label, c)
                                                       /\ c.op \in {"authorize", "exchange"}
      <4>1. CASE AuthorizeForm(r)
        <5>1. PICK p \in Up, claim \in [client : Client, uri : Uri, verifier : Verifier] :
                Keep(r, "submit", [NoCall EXCEPT !.op = "authorize", !.at = p, !.claim = claim])
          BY <4>1 DEF AuthorizeForm
        <5> DEFINE c == [NoCall EXCEPT !.op = "authorize", !.at = p, !.claim = claim]
        <5>2. c.op = "authorize" /\ Keep(r, "submit", c) BY <5>1 DEF NoCall
        <5> HIDE DEF c
        <5> QED BY <5>2
      <4>2. CASE ConsumeCode(r)
        <5>1. PICK k \in Code : \E claim \in {code[k].claim, NoClaim} : TokenAuthCode(r, k, claim)
          BY <4>2 DEF ConsumeCode
        <5>2. PICK claim \in {code[k].claim, NoClaim} : TokenAuthCode(r, k, claim)
          BY <5>1
        <5> QED BY <5>2, ExchangeGives DEF requestVars
      <4> QED BY <2>3, <4>1, <4>2
    <3>3. CASE UNCHANGED <<pc, call>> BY <2>2, <3>1, <3>3 DEF Over
    <3>4. CASE \E label \in {"submit", "owner"} : \E c :
                 Keep(r, label, c) /\ c.op \in {"authorize", "exchange"}
      <4>1. PICK label, c :
                   label \in {"submit", "owner"} /\ Keep(r, label, c) /\ c.op \in {"authorize", "exchange"}
        BY <3>4
      <4>2. \A q \in Request : /\ call'[q] = IF q = r THEN c ELSE call[q]
                               /\ pc'[q] = IF q = r THEN label ELSE pc[q]
        BY <1>0, <4>1 DEF Keep, CallTypes
      <4>3. \A q \in Request : \A k :
              /\ Confirms(q, k)' => Confirms(q, k) /\ pc'[q] = pc[q]
              /\ Marks(q, k) => Marks(q, k)'
        BY <3>1, <4>1, <4>2 DEF Confirms, Marks
      <4>4. \A k \in Reset : Over(k) => Over(k)' BY <3>1 DEF Over
      <4> QED BY <3>1, <4>3, <4>4, ResetKept
    <3> QED BY <3>2, <3>3, <3>4
  <2>4. CASE \A r \in Request : ~Begins(r)
    <3>0. \A q \in Request : Carries(q, {"authorize", "exchange", "confirm"})
      BY <2>4, CarriesOn
    <3>1. ASSUME NEW r \in Request, MarkPasswordResetTokenUsed(r) PROVE ResetInv'
      <4>0. PICK k : k = call[r].about OBVIOUS
      <4>1. /\ pc[r] = "used" /\ Goto(r, "all") /\ UNCHANGED <<changes, parallel>>
            /\ reset' = [reset EXCEPT ![k] = "used"]
        BY <3>1, <4>0 DEF MarkPasswordResetTokenUsed, tokenVars
      <4>2. k \in Reset BY <4>0, <4>1 DEF Basics, Placed
      <4>3. Moves(r, "all", call[r]) BY <1>0, <4>1, GotoMoves DEF Label
      <4>4. \A l \in Reset : Over(l) \/ l = k => Over(l)'
        BY <1>0, <4>1, <4>2 DEF Over, RowTypes
      <4>5. \A q \in Request : \A l :
              /\ Confirms(q, l)' => Confirms(q, l) /\ (pc'[q] = "hash" => pc[q] = "hash")
              /\ Marks(q, l) => Marks(q, l)' \/ l = k
        BY <4>0, <4>3 DEF Moves, Confirms, Marks
      <4> QED BY <4>1, <4>4, <4>5, ResetKept
    <3>2. ASSUME NEW r \in Request, RequestFails(r) PROVE ResetInv'
      <4>1. /\ UNCHANGED <<changes, reset>> /\ Goto(r, "idle")
            /\ parallel' = IF pc[r] = "used" THEN parallel \cup {call[r].about} ELSE parallel
        BY <3>2 DEF RequestFails, resetVars
      <4>2. \A l \in Reset : Over(l) => Over(l)' BY <4>1 DEF Over
      <4>3. Moves(r, "idle", NoCall) BY <1>0, <4>1, GotoMoves DEF Label
      <4>4. \A q \in Request : \A l :
              /\ Confirms(q, l)' => Confirms(q, l) /\ (pc'[q] = "hash" => pc[q] = "hash")
              /\ Marks(q, l) => Marks(q, l)' \/ l \in parallel'
        BY <4>1, <4>3, NoCallFacts DEF Moves, Confirms, Marks
      <4> QED BY <4>1, <4>2, <4>4, ResetKept
    <3>3. ASSUME NEW r \in Request,
                 \/ Login(r) \/ SignAccessToken(r) \/ IssuePair(r) \/ Refresh(r)
                 \/ RevokeRefreshToken(r) \/ RevokeAllUserTokens(r) \/ AuthorizeSubmit(r)
                 \/ AuthenticateForOAuth(r) \/ StoreCode(r) \/ IssueTokensForUser(r)
          PROVE  ResetInv'
      <4>1. UNCHANGED <<reset, changes>> /\ parallel \subseteq parallel' /\ pc[r] # "used"
        BY <3>3 DEF Login, SignAccessToken, IssuePair, Refresh, RevokeRefreshToken,
           RevokeAllUserTokens, AuthorizeSubmit, AuthenticateForOAuth, StoreCode,
           IssueTokensForUser, tokenVars, resetVars, Ask, Busy
      <4>2. \E label \in Label \ {"hash"} : \E c : Keep(r, label, c) \/ Goto(r, label)
        BY <3>3 DEF Login, SignAccessToken, IssuePair, Refresh, RevokeRefreshToken,
           RevokeAllUserTokens, AuthorizeSubmit, AuthenticateForOAuth, StoreCode,
           IssueTokensForUser, Label
      <4>3. PICK label, c : label \in Label \ {"hash"} /\ (Keep(r, label, c) \/ Goto(r, label))
        BY <4>2
      <4>4. pc'[r] = label /\ \A q \in Request : q # r => pc'[q] = pc[q] /\ call'[q] = call[q]
        BY <1>0, <4>3 DEF Keep, Goto, CallTypes
      <4>5. \A q \in Request : pc'[q] = "hash" => pc[q] = "hash" BY <4>3, <4>4
      <4>6. \A q \in Request : pc[q] = "used" => pc'[q] = "used" /\ call'[q] = call[q]
        BY <4>1, <4>4
      <4>7. \A k \in Reset : Over(k) => Over(k)' BY <4>1 DEF Over
      <4> QED BY <1>3, <3>0, <4>1, <4>5, <4>6, <4>7
    <3>4. ASSUME NEW r \in Request, RequestPasswordReset(r) PROVE ResetInv'
      <4>1. PICK k \in Reset : reset[k] = "absent" /\ reset' = [reset EXCEPT ![k] = "live"]
        BY <3>4 DEF RequestPasswordReset, CreatePasswordResetToken
      <4>2. UNCHANGED <<changes, pc, call, parallel>>
        BY <3>4 DEF RequestPasswordReset, tokenVars, requestVars
      <4>3. \A l \in Reset : Over(l) => Over(l)' BY <1>0, <4>1 DEF Over, RowTypes
      <4> QED BY <2>2, <4>2, <4>3
    <3>5. ASSUME NEW r \in Request, Logout(r) \/ RegisterClient(r) PROVE ResetInv'
      <4>1. UNCHANGED <<reset, changes, pc, call>> /\ parallel \subseteq parallel'
        BY <3>5 DEF Logout, RegisterClient, tokenVars, resetVars, requestVars
      <4> QED BY <2>2, <4>1 DEF Over
    <3>6. CASE Expiry
      <4>1. UNCHANGED <<changes, pc, call, parallel>>
        BY <3>6 DEF Expiry, TokenExpires, ResetExpires, CodeExpires, ClientExpires, tokenVars,
           resetVars, requestVars
      <4>2. \A l \in Reset : Over(l) => Over(l)'
        BY <1>0, <3>6 DEF Expiry, TokenExpires, ResetExpires, CodeExpires, ClientExpires,
           resetVars, Over, RowTypes
      <4> QED BY <2>2, <4>1, <4>2
    <3>7. CASE ((StartKeys \/ VerifyJWT \/ VerifyPAT) /\ OnlyVerifies) \/ UNCHANGED vars
      <4>1. UNCHANGED <<reset, changes, pc, call, parallel>>
        BY <3>7 DEF OnlyVerifies, vars, tokenVars, resetVars, requestVars
      <4> QED BY <2>2, <4>1 DEF Over
    <3> QED BY <1>4, <2>4, <3>1, <3>2, <3>3, <3>4, <3>5, <3>6, <3>7 DEF Next, Session, Begins
  <2> QED BY <1>4, <2>3, <2>4 DEF Begins
<1> QED BY <1>1, <1>2, <1>4

(* Each is used once: a code for one session, of the client that asked for *)
(* it at a URI it had registered and that is allowed (AuthorizeHandler and *)
(* handleAuthorizationCode of oauth.go); a reset for one password, unless  *)
(* confirmed twice at a time or cut short (ConfirmPasswordReset).  The     *)
(* clients there are at first have only allowed URIs.                      *)
THEOREM EachIsUsedOnce ==
  ASSUME \A x \in Scenarios : \A c \in Client : \A u \in x.clients[c] : IsAllowedRedirectURI(u)
  PROVE  Spec => []UsedOnce
<1>1. Init => CodeInv /\ ResetInv BY CodeInit, ResetInit
<1>2. Basics /\ CodeInv /\ ResetInv /\ [Next]_vars => (CodeInv /\ ResetInv)'
  BY CodeNext, ResetNext
<1>3. Basics /\ CodeInv /\ ResetInv => UsedOnce
  BY CodeGives DEF UsedOnce, ResetInv, Single
<1> QED BY <1>1, <1>2, <1>3, BasicsHold, PTL DEF Spec

-----------------------------------------------------------------------------
(* LoginLimit.  An attempt's own time differs little from when it ended;   *)
(* the time of one that was allowed is kept for as long as it counts; and  *)
(* each time that is kept is that of an attempt that has ended.            *)

AttemptRecord ==
  [at : {"none", "asking", "allowed", "refused", "open"}, begun : Nat, stamp : Nat, done : Nat]
HasEnded(b) == attempt[b].at \in {"allowed", "refused", "open"}

LimitTypes ==
  /\ tick \in Nat /\ stamps \in SUBSET Nat /\ IsFiniteSet(stamps) /\ keptTo \in Nat
  /\ attempt \in [1..Attempts -> AttemptRecord]

Timed(b) ==
  /\ attempt[b].at # "none" => /\ attempt[b].begun <= tick
                               /\ attempt[b].begun <= attempt[b].stamp
                               /\ attempt[b].stamp <= attempt[b].begun + Skew
  /\ attempt[b].at = "asking" => tick <= attempt[b].begun + MaxDelay
  /\ HasEnded(b) => /\ attempt[b].begun <= attempt[b].done
                    /\ attempt[b].done <= attempt[b].begun + MaxDelay
                    /\ attempt[b].done <= tick
  /\ attempt[b].at = "allowed" => /\ attempt[b].done + Window + 1 <= keptTo
                                  /\ \/ attempt[b].stamp \in stamps
                                     \/ attempt[b].stamp + Window <= tick + Skew

AllowedIn(t) == {b \in 1..Attempts : /\ attempt[b].at = "allowed"
                                     /\ attempt[b].done \in t..(t + Window - Differ - 1)}
Windows == \A t \in Nat : Cardinality({attempt[a].stamp : a \in AllowedIn(t)}) <= MaxAttempts

Before(a) ==
  {b \in 1..Attempts \ {a} :
     /\ attempt[b].at \in {"allowed", "refused", "open"}
     /\ attempt[b].done \in (attempt[a].done - Window - Differ + 1)..attempt[a].done}
Refusals ==
  \A a \in 1..Attempts : attempt[a].at = "refused" => Cardinality(Before(a)) >= MaxAttempts

LimitInv ==
  /\ LimitTypes
  /\ \A b \in 1..Attempts : Timed(b)
  /\ \A s \in stamps : \E b \in 1..Attempts : HasEnded(b) /\ attempt[b].stamp = s
  /\ Windows /\ Refusals

LEMMA LimitConstants ==
  /\ Attempts \in Nat /\ MaxAttempts \in Nat /\ Window \in Nat /\ MaxDelay \in Nat
  /\ Skew \in Nat /\ MaxTime \in Nat
  /\ Differ \in Nat /\ Differ = MaxDelay + Skew /\ Differ < Window
  BY LimitAssumption DEF Differ

LEMMA LimitBegins == ASSUME LimitInit PROVE LimitInv
<1>1. LimitTypes
  BY FS_EmptySet DEF LimitInit, LimitTypes, NoAttempt, AttemptRecord
<1>2. \A b \in 1..Attempts : attempt[b].at = "none"
  BY DEF LimitInit, NoAttempt
<1>3. \A b \in 1..Attempts : Timed(b)
  BY <1>2 DEF Timed, HasEnded
<1>4. Windows
  <2> SUFFICES ASSUME NEW t \in Nat
               PROVE  Cardinality({attempt[a].stamp : a \in AllowedIn(t)}) <= MaxAttempts
    BY DEF Windows
  <2>1. {attempt[a].stamp : a \in AllowedIn(t)} = {} BY <1>2 DEF AllowedIn
  <2>2. Cardinality({attempt[a].stamp : a \in AllowedIn(t)}) = 0 BY <2>1, FS_EmptySet
  <2> QED BY <2>2, LimitConstants
<1>5. Refusals BY <1>2 DEF Refusals
<1> QED BY <1>1, <1>3, <1>4, <1>5 DEF LimitInv, LimitInit

LEMMA LimitGives == ASSUME LimitInv PROVE AttemptsLimited
<1>1. \A t \in 0..tick :
        Cardinality({attempt[a].stamp : a \in {b \in 1..Attempts :
          /\ attempt[b].at = "allowed"
          /\ attempt[b].done \in t..(t + Window - Differ - 1)}}) <= MaxAttempts
  <2> TAKE t \in 0..tick
  <2>1. t \in Nat BY DEF LimitInv, LimitTypes
  <2> QED BY <2>1 DEF LimitInv, Windows, AllowedIn
<1>2. \A a \in 1..Attempts : attempt[a].at = "refused" =>
        Cardinality({b \in 1..Attempts \ {a} :
          /\ attempt[b].at \in {"allowed", "refused", "open"}
          /\ attempt[b].done \in (attempt[a].done - Window - Differ + 1)..attempt[a].done})
          >= MaxAttempts
  BY DEF LimitInv, Refusals, Before
<1> QED BY <1>1, <1>2 DEF AttemptsLimited

(* No fewer attempts have ended than there are times of them. *)
LEMMA AttemptsOfTimes ==
  ASSUME NEW S, NEW T, IsFiniteSet(T), NEW f, \A s \in S : \E b \in T : f[b] = s
  PROVE  IsFiniteSet(S) /\ Cardinality(S) <= Cardinality(T)
<1> DEFINE g == [s \in S |-> CHOOSE b \in T : f[b] = s]
<1>1. \A s \in S : g[s] \in T /\ f[g[s]] = s OBVIOUS
<1>2. g \in Injection(S, T) BY <1>1 DEF Injection, IsInjective
<1> QED BY <1>2, FS_Injection

(* Steps that let no attempt end *)
LEMMA LimitKept ==
  ASSUME LimitInv, LimitTypes', \A b \in 1..Attempts : Timed(b)',
         stamps' \subseteq stamps,
         \A b \in 1..Attempts : /\ HasEnded(b) => attempt'[b] = attempt[b]
                                /\ HasEnded(b)' => HasEnded(b)
  PROVE  LimitInv'
<1>1. \A s \in stamps' : \E b \in 1..Attempts : HasEnded(b)' /\ attempt'[b].stamp = s
  <2> TAKE s \in stamps'
  <2>1. PICK b \in 1..Attempts : HasEnded(b) /\ attempt[b].stamp = s BY DEF LimitInv
  <2>2. attempt'[b] = attempt[b] BY <2>1
  <2>3. HasEnded(b)' BY <2>1, <2>2 DEF HasEnded
  <2> QED BY <2>1, <2>2, <2>3
<1>2. Windows'
  <2> SUFFICES ASSUME NEW t \in Nat
               PROVE  Cardinality({attempt'[a].stamp : a \in AllowedIn(t)'}) <= MaxAttempts
    BY DEF Windows
  <2>1. AllowedIn(t)' = AllowedIn(t) BY DEF AllowedIn, HasEnded
  <2>2. \A a \in AllowedIn(t) : attempt'[a] = attempt[a] BY DEF AllowedIn, HasEnded
  <2>3. {attempt'[a].stamp : a \in AllowedIn(t)'} = {attempt[a].stamp : a \in AllowedIn(t)}
    BY <2>1, <2>2
  <2>4. Cardinality({attempt[a].stamp : a \in AllowedIn(t)}) <= MaxAttempts
    BY DEF LimitInv, Windows
  <2> QED BY <2>3, <2>4
<1>3. Refusals'
  <2> SUFFICES ASSUME NEW a \in 1..Attempts, attempt'[a].at = "refused"
               PROVE  Cardinality(Before(a)') >= MaxAttempts
    BY DEF Refusals
  <2>1. attempt'[a] = attempt[a] BY DEF HasEnded
  <2>2. Before(a)' = Before(a) BY <2>1 DEF Before, HasEnded
  <2>3. Cardinality(Before(a)) >= MaxAttempts BY <2>1 DEF LimitInv, Refusals
  <2> QED BY <2>2, <2>3
<1> QED BY <1>1, <1>2, <1>3 DEF LimitInv

LEMMA AllowKeeps ==
  ASSUME LimitInv, NEW a \in 1..Attempts, Allow(a)
  PROVE  LimitInv'
<1>1. LimitTypes BY DEF LimitInv
<1>2. PICK ahead \in 0..Skew :
        attempt' = [attempt EXCEPT ![a] = [at |-> "asking", begun |-> tick,
                                           stamp |-> tick + ahead, done |-> 0]]
  BY DEF Allow
<1>3. /\ attempt[a].at = "none" /\ UNCHANGED <<tick, stamps, keptTo>>
      /\ tick \in Nat /\ ahead \in Nat /\ ahead <= Skew /\ Skew \in Nat /\ MaxDelay \in Nat
  BY <1>1, LimitConstants DEF Allow, LimitTypes
<1>4. /\ attempt'[a] = [at |-> "asking", begun |-> tick, stamp |-> tick + ahead, done |-> 0]
      /\ \A b \in 1..Attempts : b # a => attempt'[b] = attempt[b]
  BY <1>1, <1>2 DEF LimitTypes
<1>5. LimitTypes'
  <2>1. [at |-> "asking", begun |-> tick, stamp |-> tick + ahead, done |-> 0] \in AttemptRecord
    BY <1>3 DEF AttemptRecord
  <2> QED BY <1>1, <1>2, <1>3, <2>1 DEF LimitTypes
<1>6. ASSUME NEW b \in 1..Attempts PROVE Timed(b)'
  <2>1. CASE b = a
    <3>1. /\ attempt'[b].at = "asking" /\ attempt'[b].begun = tick
          /\ attempt'[b].stamp = tick + ahead
      BY <1>4, <2>1
    <3>2. tick <= tick + ahead /\ tick + ahead <= tick + Skew /\ tick <= tick + MaxDelay
      BY <1>3
    <3> QED BY <1>3, <3>1, <3>2 DEF Timed, HasEnded
  <2>2. CASE b # a
    <3>1. Timed(b) BY DEF LimitInv
    <3> QED BY <1>3, <1>4, <2>2, <3>1 DEF Timed, HasEnded
  <2> QED BY <2>1, <2>2
<1>7. \A b \in 1..Attempts : /\ HasEnded(b) => attempt'[b] = attempt[b]
                             /\ HasEnded(b)' => HasEnded(b)
  BY <1>3, <1>4 DEF HasEnded
<1> QED BY <1>3, <1>5, <1>6, <1>7, LimitKept

LEMMA TimeKeeps ==
  ASSUME LimitInv, WindowExpires \/ ClockTicks
  PROVE  LimitInv'
<1>1. LimitTypes BY DEF LimitInv
<1>2. attempt' = attempt /\ keptTo' = keptTo /\ stamps' \subseteq stamps /\ tick \in Nat
      /\ tick' \in {tick, tick + 1}
  BY <1>1 DEF WindowExpires, ClockTicks, LimitTypes
<1>3. LimitTypes'
  <2>1. IsFiniteSet(stamps') BY <1>1, <1>2, FS_Subset DEF LimitTypes
  <2>2. tick' \in Nat BY <1>2
  <2> QED BY <1>1, <1>2, <2>1, <2>2 DEF LimitTypes
<1>4. ASSUME NEW b \in 1..Attempts PROVE Timed(b)'
  <2>1. Timed(b) /\ attempt[b] \in AttemptRecord BY <1>1 DEF LimitInv, LimitTypes
  <2> DEFINE x == attempt[b]
  <2>2. x.begun \in Nat /\ x.stamp \in Nat /\ x.done \in Nat BY <2>1 DEF AttemptRecord
  <2>3. CASE WindowExpires
    <3>1. tick' = tick /\ tick = keptTo BY <2>3 DEF WindowExpires
    <3>2. x.at = "allowed" => x.stamp + Window <= tick + Skew
      <4> SUFFICES ASSUME x.at = "allowed" PROVE x.stamp + Window <= tick + Skew OBVIOUS
      <4>1. /\ x.stamp <= x.begun + Skew /\ x.begun <= x.done
            /\ x.done + Window + 1 <= tick
        BY <2>1, <3>1 DEF Timed, HasEnded
      <4> QED BY <1>2, <2>2, <4>1, LimitConstants
    <3> QED BY <1>2, <2>1, <3>1, <3>2 DEF Timed, HasEnded
  <2>4. CASE ClockTicks
    <3>1. /\ tick' = tick + 1 /\ stamps' = stamps
          /\ x.at = "asking" => tick < x.begun + MaxDelay
      BY <2>4 DEF ClockTicks
    <3> HIDE DEF x
    <3>2. \A n \in Nat : n <= tick => n <= tick + 1 BY <1>2
    <3>3. tick < x.begun + MaxDelay => tick + 1 <= x.begun + MaxDelay
      BY <1>2, <2>2, LimitConstants
    <3>4. x.stamp + Window <= tick + Skew => x.stamp + Window <= tick + 1 + Skew
      BY <1>2, <2>2, LimitConstants
    <3> USE DEF x
    <3>5. /\ x.at # "none" => x.begun <= tick + 1 /\ x.begun <= x.stamp /\ x.stamp <= x.begun + Skew
          /\ x.at = "asking" => tick + 1 <= x.begun + MaxDelay
          /\ HasEnded(b) => x.begun <= x.done /\ x.done <= x.begun + MaxDelay /\ x.done <= tick + 1
          /\ x.at = "allowed" => /\ x.done + Window + 1 <= keptTo
                                 /\ \/ x.stamp \in stamps
                                    \/ x.stamp + Window <= tick + 1 + Skew
      BY <2>1, <2>2, <3>1, <3>2, <3>3, <3>4 DEF Timed
    <3> QED BY <1>2, <3>1, <3>5 DEF Timed, HasEnded
  <2> QED BY <2>3, <2>4
<1>5. \A b \in 1..Attempts : /\ HasEnded(b) => attempt'[b] = attempt[b]
                             /\ HasEnded(b)' => HasEnded(b)
  BY <1>2 DEF HasEnded
<1> QED BY <1>2, <1>3, <1>4, <1>5, LimitKept

(* An attempt ends; its time is stored, or the limiter has failed. *)
EndsAs(a, at) ==
  /\ attempt[a].at = "asking" /\ Ended(a, at) /\ at \in {"allowed", "refused", "open"}
  /\ tick' = tick
  /\ Added(a) \/ (at = "open" /\ UNCHANGED <<stamps, keptTo>>)

LEMMA EndsTimed ==
  ASSUME LimitInv, NEW a \in 1..Attempts, NEW at, EndsAs(a, at)
  PROVE  /\ LimitTypes' /\ \A b \in 1..Attempts : Timed(b)'
         /\ \A s \in stamps' : \E b \in 1..Attempts : HasEnded(b)' /\ attempt'[b].stamp = s
         /\ attempt'[a].at = at /\ attempt'[a].done = tick
         /\ attempt'[a].stamp = attempt[a].stamp
         /\ \A b \in 1..Attempts : b # a => attempt'[b] = attempt[b]
<1>0. LimitTypes /\ Timed(a) /\ tick \in Nat /\ keptTo \in Nat
  BY DEF LimitInv, LimitTypes
<1> DEFINE x == attempt[a]
<1>1. x \in AttemptRecord BY <1>0 DEF LimitTypes
<1>2. x.begun \in Nat /\ x.stamp \in Nat /\ x.begun <= tick /\ x.stamp <= tick + Skew
      /\ tick <= x.begun + MaxDelay /\ x.begun <= x.stamp /\ x.stamp <= x.begun + Skew
  <2>1. x.begun \in Nat /\ x.stamp \in Nat BY <1>1 DEF AttemptRecord
  <2>2. /\ x.begun <= tick /\ tick <= x.begun + MaxDelay
        /\ x.begun <= x.stamp /\ x.stamp <= x.begun + Skew
    BY <1>0 DEF EndsAs, Timed
  <2> QED BY <1>0, <2>1, <2>2, LimitConstants
<1>3. attempt' = [attempt EXCEPT ![a] = [x EXCEPT !.at = at, !.done = tick]]
  BY <1>0 DEF EndsAs, Ended, LimitTypes
<1>4. /\ [x EXCEPT !.at = at, !.done = tick] \in AttemptRecord
      /\ [x EXCEPT !.at = at, !.done = tick].at = at
      /\ [x EXCEPT !.at = at, !.done = tick].done = tick
      /\ [x EXCEPT !.at = at, !.done = tick].begun = x.begun
      /\ [x EXCEPT !.at = at, !.done = tick].stamp = x.stamp
  BY <1>0, <1>1 DEF AttemptRecord, EndsAs
<1>5. /\ attempt'[a].at = at /\ attempt'[a].done = tick
      /\ attempt'[a].begun = x.begun /\ attempt'[a].stamp = x.stamp
      /\ \A b \in 1..Attempts : b # a => attempt'[b] = attempt[b]
  BY <1>0, <1>3, <1>4 DEF LimitTypes
<1>6. attempt' \in [1..Attempts -> AttemptRecord]
  BY <1>0, <1>3, <1>4 DEF LimitTypes
<1> HIDE DEF x
<1>7. tick' = tick /\ at \in {"allowed", "refused", "open"} BY DEF EndsAs
<1>8. CASE Added(a)
  <2>1. stamps' = Recent(a) \cup {x.stamp} /\ keptTo' = tick + Window + 1
    BY <1>8 DEF Added, x
  <2>2. IsFiniteSet(Recent(a)) /\ Recent(a) \subseteq stamps
    <3>1. Recent(a) \in SUBSET stamps BY DEF Recent
    <3> QED BY <1>0, <3>1, FS_Subset DEF LimitTypes
  <2>3. IsFiniteSet(stamps') BY <2>1, <2>2, FS_AddElement
  <2>4. LimitTypes'
    <3>1. keptTo' \in Nat BY <1>0, <2>1, LimitConstants
    <3>2. stamps' \in SUBSET Nat BY <1>0, <1>2, <2>1, <2>2 DEF LimitTypes
    <3> QED BY <1>0, <1>6, <1>7, <2>3, <3>1, <3>2 DEF LimitTypes
  <2>5. ASSUME NEW b \in 1..Attempts PROVE Timed(b)'
    <3>1. CASE b = a
      <4>1. tick + Window + 1 <= keptTo' /\ x.stamp \in stamps' BY <1>0, <2>1, LimitConstants
      <4>2. tick <= tick BY <1>0
      <4> QED BY <1>2, <1>5, <1>7, <3>1, <4>1, <4>2 DEF Timed, HasEnded
    <3>2. CASE b # a
      <4>1. Timed(b) /\ attempt[b] \in AttemptRecord BY <1>0 DEF LimitInv, LimitTypes
      <4> DEFINE y == attempt[b]
      <4>2. attempt'[b] = y BY <1>5, <3>2
      <4>3. y.stamp \in Nat /\ y.done \in Nat BY <4>1 DEF AttemptRecord
      <4>4. y.done <= tick => y.done + Window + 1 <= keptTo'
        BY <1>0, <2>1, <4>3, LimitConstants
      <4>5. y.stamp \in stamps => y.stamp \in stamps' \/ y.stamp + Window <= tick + Skew
        <5>1. CASE y.stamp > attempt[a].stamp - Window BY <2>1, <5>1 DEF Recent
        <5>2. CASE ~(y.stamp > x.stamp - Window)
          BY <1>0, <1>2, <4>3, <5>2, LimitConstants
        <5> QED BY <5>1, <5>2 DEF x
      <4>6. y.at = "allowed" => y.done <= tick BY <4>1 DEF Timed, HasEnded
      <4> QED BY <1>7, <4>1, <4>2, <4>4, <4>5, <4>6 DEF Timed, HasEnded
    <3> QED BY <3>1, <3>2
  <2>6. ASSUME NEW s \in stamps'
        PROVE  \E b \in 1..Attempts : HasEnded(b)' /\ attempt'[b].stamp = s
    <3>1. CASE s = x.stamp BY <1>5, <1>7, <3>1 DEF HasEnded
    <3>2. CASE s \in stamps
      <4>1. PICK b \in 1..Attempts : HasEnded(b) /\ attempt[b].stamp = s
        BY <3>2 DEF LimitInv
      <4>2. b # a BY <4>1 DEF HasEnded, EndsAs
      <4>3. attempt'[b] = attempt[b] BY <1>5, <4>2
      <4>4. HasEnded(b)' BY <4>1, <4>3 DEF HasEnded
      <4> QED BY <4>1, <4>3, <4>4
    <3> QED BY <2>1, <2>2, <3>1, <3>2
  <2> QED BY <1>5, <2>4, <2>5, <2>6 DEF x
<1>9. CASE at = "open" /\ UNCHANGED <<stamps, keptTo>>
  <2>1. LimitTypes' BY <1>0, <1>6, <1>7, <1>9 DEF LimitTypes
  <2>2. ASSUME NEW b \in 1..Attempts PROVE Timed(b)'
    <3>1. CASE b = a
      <4>1. tick <= tick BY <1>0
      <4> QED BY <1>2, <1>5, <1>7, <1>9, <3>1, <4>1 DEF Timed, HasEnded
    <3>2. CASE b # a
      <4>1. Timed(b) BY DEF LimitInv
      <4> QED BY <1>5, <1>7, <1>9, <3>2, <4>1 DEF Timed, HasEnded
    <3> QED BY <3>1, <3>2
  <2>3. ASSUME NEW s \in stamps'
        PROVE  \E b \in 1..Attempts : HasEnded(b)' /\ attempt'[b].stamp = s
    <3>1. PICK b \in 1..Attempts : HasEnded(b) /\ attempt[b].stamp = s
      BY <1>9 DEF LimitInv
    <3>2. b # a BY <3>1 DEF HasEnded, EndsAs
    <3>3. attempt'[b] = attempt[b] BY <1>5, <3>2
    <3>4. HasEnded(b)' BY <3>1, <3>3 DEF HasEnded
    <3> QED BY <3>1, <3>3, <3>4
  <2> QED BY <1>5, <2>1, <2>2, <2>3 DEF x
<1> QED BY <1>8, <1>9 DEF EndsAs

(* Who is refused: of every recent time an attempt ended within what the   *)
(* clocks and the calls may differ.                                        *)
LEMMA EndsRefused ==
  ASSUME LimitInv, NEW a \in 1..Attempts, NEW at, EndsAs(a, at),
         at = "refused" => ~(Cardinality(Recent(a)) < MaxAttempts)
  PROVE  Refusals'
<1>0. LimitTypes /\ Timed(a) /\ tick \in Nat /\ attempt[a] \in AttemptRecord
  BY DEF LimitInv, LimitTypes
<1>1. /\ attempt'[a].at = at /\ attempt'[a].done = tick
      /\ \A b \in 1..Attempts : b # a => attempt'[b] = attempt[b]
  BY EndsTimed
<1>2. \A c \in 1..Attempts : IsFiniteSet(Before(c)) /\ IsFiniteSet(Before(c)')
  <2> TAKE c \in 1..Attempts
  <2>1. IsFiniteSet(1..Attempts) BY LimitConstants, FS_Interval
  <2>2. Before(c) \in SUBSET (1..Attempts) /\ Before(c)' \in SUBSET (1..Attempts)
    BY DEF Before
  <2> QED BY <2>1, <2>2, FS_Subset
<1> SUFFICES ASSUME NEW c \in 1..Attempts, attempt'[c].at = "refused"
             PROVE  Cardinality(Before(c)') >= MaxAttempts
  BY DEF Refusals
<1>3. CASE c # a
  <2>1. attempt'[c] = attempt[c] BY <1>1, <1>3
  <2>2. Cardinality(Before(c)) >= MaxAttempts BY <2>1 DEF LimitInv, Refusals
  <2>3. a \notin Before(c) BY DEF Before, EndsAs
  <2>4. Before(c) \subseteq Before(c)' BY <1>1, <2>1, <2>3 DEF Before
  <2>5. Cardinality(Before(c)) <= Cardinality(Before(c)')
    BY <1>2, <2>4, FS_Subset
  <2>6. Cardinality(Before(c)) \in Nat /\ Cardinality(Before(c)') \in Nat
    BY <1>2, FS_CardinalityType
  <2> QED BY <2>2, <2>5, <2>6, LimitConstants
<1>4. CASE c = a
  <2> DEFINE x == attempt[a]
  <2>1. /\ x.begun \in Nat /\ x.stamp \in Nat /\ x.begun <= x.stamp /\ tick <= x.begun + MaxDelay
    BY <1>0 DEF Timed, AttemptRecord, EndsAs
  <2>2. ASSUME NEW s \in Recent(a)
        PROVE  \E b \in Before(a)' : attempt'[b].stamp = s
    <3>1. s \in stamps /\ s \in Nat /\ s > x.stamp - Window
      BY <1>0, <2>2 DEF Recent, LimitTypes
    <3>2. PICK b \in 1..Attempts : HasEnded(b) /\ attempt[b].stamp = s
      BY <3>1 DEF LimitInv
    <3> DEFINE y == attempt[b]
    <3>3. b # a /\ attempt'[b] = y BY <1>1, <3>2 DEF HasEnded, EndsAs
    <3>4. y.begun \in Nat /\ y.done \in Nat
      BY <1>0 DEF LimitTypes, AttemptRecord
    <3>5. y.begun <= y.done /\ s <= y.begun + Skew /\ y.done <= tick
      <4>1. Timed(b) BY DEF LimitInv
      <4> QED BY <3>2, <4>1 DEF Timed, HasEnded
    <3> HIDE DEF x, y
    <3>6. y.done \in (tick - Window - Differ + 1)..tick
      <4>1. y.done >= tick - Window - Differ + 1
        BY <1>0, <2>1, <3>1, <3>4, <3>5, LimitConstants
      <4>2. tick - Window - Differ + 1 \in Int BY <1>0, LimitConstants
      <4> QED BY <1>0, <3>4, <3>5, <4>1, <4>2
    <3>7. b \in Before(a)'
      BY <1>1, <3>2, <3>3, <3>6 DEF Before, HasEnded, y
    <3> QED BY <3>2, <3>3, <3>7 DEF y
  <2> DEFINE f == [b \in Before(a)' |-> attempt'[b].stamp]
  <2>3. \A s \in Recent(a) : \E b \in Before(a)' : f[b] = s BY <2>2
  <2> HIDE DEF f
  <2>4. Cardinality(Recent(a)) <= Cardinality(Before(a)') /\ IsFiniteSet(Recent(a))
    BY <1>2, <2>3, AttemptsOfTimes
  <2>5. Cardinality(Recent(a)) \in Nat /\ Cardinality(Before(a)') \in Nat
    BY <1>2, <2>4, FS_CardinalityType
  <2>6. ~(Cardinality(Recent(a)) < MaxAttempts) BY <1>1, <1>4
  <2>7. Cardinality(Before(a)') >= MaxAttempts
    BY <2>4, <2>5, <2>6, LimitConstants
  <2> QED BY <1>4, <2>7
<1> QED BY <1>3, <1>4

(* Who is allowed is one of those whose times are recent, of which there   *)
(* were fewer than the limit; and so are all that ended in a window of his *)
LEMMA EndsAllowed ==
  ASSUME LimitInv, NEW a \in 1..Attempts, NEW at, EndsAs(a, at),
         at = "allowed" => Cardinality(Recent(a)) < MaxAttempts
  PROVE  Windows'
<1>0. LimitTypes /\ Timed(a) /\ tick \in Nat /\ attempt[a] \in AttemptRecord
  BY DEF LimitInv, LimitTypes
<1>1. /\ attempt'[a].at = at /\ attempt'[a].done = tick /\ attempt'[a].stamp = attempt[a].stamp
      /\ \A b \in 1..Attempts : b # a => attempt'[b] = attempt[b]
  BY EndsTimed
<1> SUFFICES ASSUME NEW t \in Nat
             PROVE  Cardinality({attempt'[b].stamp : b \in AllowedIn(t)'}) <= MaxAttempts
  BY DEF Windows
<1>2. a \notin AllowedIn(t) BY DEF AllowedIn, EndsAs
<1>3. \A b \in 1..Attempts : b # a => (b \in AllowedIn(t)' <=> b \in AllowedIn(t))
  BY <1>1 DEF AllowedIn
<1>4. Cardinality({attempt[b].stamp : b \in AllowedIn(t)}) <= MaxAttempts
  BY DEF LimitInv, Windows
<1>5. \A b \in AllowedIn(t)' : b \in 1..Attempts BY DEF AllowedIn
<1>6. \A b \in AllowedIn(t) : b \in 1..Attempts BY DEF AllowedIn
<1>7. CASE a \notin AllowedIn(t)'
  <2>1. AllowedIn(t)' = AllowedIn(t) BY <1>2, <1>3, <1>5, <1>6, <1>7
  <2>2. {attempt'[b].stamp : b \in AllowedIn(t)'} = {attempt[b].stamp : b \in AllowedIn(t)}
    BY <1>1, <1>2, <1>6, <2>1
  <2> QED BY <1>4, <2>2
<1>8. CASE a \in AllowedIn(t)'
  <2> DEFINE x == attempt[a]
  <2>1. at = "allowed" /\ tick \in t..(t + Window - Differ - 1)
    BY <1>1, <1>8 DEF AllowedIn
  <2>2. tick <= t + Window - Differ - 1 /\ t <= tick
    BY <2>1, LimitConstants
  <2>3. x.begun \in Nat /\ x.stamp \in Nat /\ x.begun <= tick /\ x.stamp <= x.begun + Skew
    BY <1>0 DEF Timed, AttemptRecord, EndsAs
  <2>4. ASSUME NEW b \in AllowedIn(t) PROVE attempt[b].stamp \in Recent(a)
    <3> DEFINE y == attempt[b]
    <3>1. b \in 1..Attempts /\ y.at = "allowed" /\ y.done \in t..(t + Window - Differ - 1)
      BY DEF AllowedIn
    <3>2. y.done >= t BY <3>1, LimitConstants
    <3>3. y \in AttemptRecord /\ Timed(b) BY <1>0, <3>1 DEF LimitInv, LimitTypes
    <3>4. y.begun \in Nat /\ y.stamp \in Nat /\ y.done \in Nat BY <3>3 DEF AttemptRecord
    <3>5. /\ y.begun <= y.stamp /\ y.done <= y.begun + MaxDelay
          /\ y.stamp \in stamps \/ y.stamp + Window <= tick + Skew
      BY <3>1, <3>3 DEF Timed, HasEnded
    <3> HIDE DEF x, y
    <3>6. y.stamp + Window > tick + Skew
      BY <1>0, <2>2, <3>2, <3>4, <3>5, LimitConstants
    <3>7. ~(y.stamp + Window <= tick + Skew)
      BY <1>0, <3>4, <3>6, LimitConstants
    <3>8. y.stamp > x.stamp - Window
      BY <1>0, <2>3, <3>4, <3>6, LimitConstants
    <3>9. y.stamp \in stamps BY <3>5, <3>7
    <3> QED BY <3>8, <3>9 DEF Recent, x, y
  <2> DEFINE S == {attempt'[b].stamp : b \in AllowedIn(t)'}
  <2>5. S \subseteq Recent(a) \cup {x.stamp}
    <3>1. ASSUME NEW b \in AllowedIn(t)' PROVE attempt'[b].stamp \in Recent(a) \cup {x.stamp}
      <4>1. CASE b = a BY <1>1, <4>1
      <4>2. CASE b # a
        <5>1. b \in AllowedIn(t) /\ attempt'[b] = attempt[b] BY <1>1, <1>3, <1>5, <4>2
        <5> QED BY <2>4, <5>1
      <4> QED BY <4>1, <4>2
    <3> QED BY <3>1
  <2> HIDE DEF S, x
  <2>6. IsFiniteSet(Recent(a))
    <3>1. Recent(a) \in SUBSET stamps BY DEF Recent
    <3> QED BY <1>0, <3>1, FS_Subset DEF LimitTypes
  <2>7. /\ IsFiniteSet(Recent(a) \cup {x.stamp})
        /\ Cardinality(Recent(a) \cup {x.stamp}) \in
             {Cardinality(Recent(a)), Cardinality(Recent(a)) + 1}
    BY <2>6, FS_AddElement
  <2>8. Cardinality(S) <= Cardinality(Recent(a) \cup {x.stamp}) /\ IsFiniteSet(S)
    BY <2>5, <2>7, FS_Subset
  <2>9. Cardinality(S) \in Nat /\ Cardinality(Recent(a)) \in Nat
    BY <2>6, <2>8, FS_CardinalityType
  <2>10. Cardinality(Recent(a)) < MaxAttempts BY <2>1
  <2>11. Cardinality(S) <= MaxAttempts
    BY <2>7, <2>8, <2>9, <2>10, LimitConstants
  <2> QED BY <2>11 DEF S
<1> QED BY <1>7, <1>8

LEMMA LimitSteps == ASSUME LimitInv, [LimitNext]_limitVars PROVE LimitInv'
<1>1. ASSUME NEW a \in 1..Attempts, NEW at, EndsAs(a, at),
             at = "allowed" => Cardinality(Recent(a)) < MaxAttempts,
             at = "refused" => ~(Cardinality(Recent(a)) < MaxAttempts)
      PROVE  LimitInv'
  BY <1>1, EndsTimed, EndsRefused, EndsAllowed DEF LimitInv
<1>2. ASSUME NEW a \in 1..Attempts, Exec(a) PROVE LimitInv'
  <2>1. CASE Cardinality(Recent(a)) < MaxAttempts
    <3>1. EndsAs(a, "allowed") BY <1>2, <2>1 DEF Exec, EndsAs
    <3> QED BY <1>1, <2>1, <3>1
  <2>2. CASE ~(Cardinality(Recent(a)) < MaxAttempts)
    <3>1. EndsAs(a, "refused") BY <1>2, <2>2 DEF Exec, EndsAs
    <3> QED BY <1>1, <2>2, <3>1
  <2> QED BY <2>1, <2>2
<1>3. ASSUME NEW a \in 1..Attempts, ExecFails(a) PROVE LimitInv'
  <2>1. EndsAs(a, "open") BY <1>3 DEF ExecFails, EndsAs
  <2> QED BY <1>1, <2>1
<1>4. CASE UNCHANGED limitVars
  <2>1. LimitTypes' /\ \A b \in 1..Attempts : Timed(b)'
    BY <1>4 DEF limitVars, LimitInv, LimitTypes, Timed, HasEnded
  <2> QED BY <1>4, <2>1, LimitKept DEF limitVars, HasEnded
<1> QED BY <1>2, <1>3, <1>4, AllowKeeps, TimeKeeps DEF LimitNext

LEMMA LimitHolds ==
  LimitInit /\ [][LimitNext]_limitVars => []AttemptsLimited
<1>1. LimitInit => LimitInv BY LimitBegins
<1>2. LimitInv /\ [LimitNext]_limitVars => LimitInv' BY LimitSteps
<1>3. LimitInv => AttemptsLimited BY LimitGives
<1> QED BY <1>1, <1>2, <1>3, PTL

-----------------------------------------------------------------------------
(* McpGate.  A request that waits for an answer, or has one, has been      *)
(* under way no longer than a call takes, and it was accepted for a token  *)
(* that lived when the call began.                                         *)

UseRecord == [at : {"idle", "asking", "answered"}, token : Bearer \cup {"none"}, begun : Nat]

GateTypes ==
  /\ clock \in Nat /\ lives \in [Bearer -> Nat] /\ use \in [Use -> UseRecord]
  /\ DOMAIN valid \subseteq Bearer /\ IsFiniteSet(DOMAIN valid)
  /\ \A t \in DOMAIN valid : valid[t] \in Nat

UnderWay(q) ==
  /\ use[q].at # "idle" => /\ use[q].token \in Bearer
                           /\ use[q].begun <= clock /\ clock <= use[q].begun + MaxCall
  /\ use[q].at = "answered" => use[q].begun < lives[use[q].token]

GateInv == GateTypes /\ GateCloses /\ \A q \in Use : UnderWay(q)

LEMMA GateBegins == ASSUME NEW times \in SUBSET Nat, GateInit(times) PROVE GateInv
<1>0. GateTTL \in Nat /\ MaxCall \in Nat /\ MaxValid \in Nat
  BY GateAssumption
<1>1. DOMAIN valid = {}
  BY DEF GateInit
<1>2. IsFiniteSet({}) /\ Cardinality({}) = 0
  BY FS_EmptySet
<1>3. \A q \in Use : use[q].at = "idle"
  BY DEF GateInit, NotUsed
<1>4. use \in [Use -> UseRecord]
  BY DEF GateInit, NotUsed, UseRecord
<1>5. GateTypes
  BY <1>1, <1>2, <1>4 DEF GateInit, GateTypes
<1>6. GateCloses
  BY <1>0, <1>1, <1>2 DEF GateCloses
<1> QED
  BY <1>3, <1>5, <1>6 DEF GateInv, UnderWay

(* What a request does changes nothing else than its own record. *)
LEMMA UseKeeps ==
  ASSUME GateInv, NEW q \in Use, NEW r, r \in UseRecord, use' = [use EXCEPT ![q] = r],
         UNCHANGED <<clock, lives>>,
         r.at # "idle" => /\ r.token \in Bearer
                          /\ r.begun <= clock /\ clock <= r.begun + MaxCall,
         r.at = "answered" => r.begun < lives[r.token]
  PROVE  (use \in [Use -> UseRecord])' /\ (\A p \in Use : UnderWay(p))'
<1>0. use \in [Use -> UseRecord]
  BY DEF GateInv, GateTypes
<1>1. (use \in [Use -> UseRecord])'
  BY <1>0
<1>2. \A p \in Use : use'[p] = IF p = q THEN r ELSE use[p]
  BY <1>0
<1> QED
  BY <1>1, <1>2 DEF GateInv, UnderWay

LEMMA GateStays == ASSUME GateInv, [GateNext]_gateVars PROVE GateInv'
<1>0. GateTTL \in Nat /\ MaxCall \in Nat /\ MaxValid \in Nat
  BY GateAssumption
<1>1. GateTypes /\ \A q \in Use : UnderWay(q)
  BY DEF GateInv
<1>2. ASSUME UNCHANGED valid, UNCHANGED <<clock, lives>>, NEW q \in Use, NEW r \in UseRecord,
             use' = [use EXCEPT ![q] = r],
             r.at # "idle" => /\ r.token \in Bearer
                              /\ r.begun <= clock /\ clock <= r.begun + MaxCall,
             r.at = "answered" => r.begun < lives[r.token]
      PROVE  GateInv'
  <2>1. (use \in [Use -> UseRecord])' /\ (\A p \in Use : UnderWay(p))'
    BY <1>2, UseKeeps
  <2>2. GateTypes' /\ GateCloses'
    BY <1>1, <1>2, <2>1 DEF GateTypes, GateCloses, GateInv
  <2> QED
    BY <2>1, <2>2 DEF GateInv
<1>3. ASSUME NEW q \in Use, RequestEnds(q)
      PROVE  /\ NotUsed \in UseRecord /\ NotUsed.at = "idle"
             /\ use' = [use EXCEPT ![q] = NotUsed]
  BY <1>3 DEF RequestEnds, NotUsed, UseRecord
<1>4. ASSUME NEW q \in Use, NEW t \in Bearer, Get(q, t) PROVE GateInv'
  <2> DEFINE r == [at |-> "asking", token |-> t, begun |-> clock]
  <2>1. r \in UseRecord /\ r.at = "asking" /\ r.token = t /\ r.begun = clock
    BY <1>1 DEF UseRecord, GateTypes
  <2>2. use' = [use EXCEPT ![q] = r] /\ UNCHANGED <<clock, lives>>
    BY <1>4 DEF Get, Calls
  <2> HIDE DEF r
  <2>3. (use \in [Use -> UseRecord])' /\ (\A p \in Use : UnderWay(p))'
    <3>1. clock \in Nat /\ clock <= clock + MaxCall
      BY <1>0, <1>1 DEF GateTypes
    <3>2. /\ r.at # "idle" => /\ r.token \in Bearer
                              /\ r.begun <= clock /\ clock <= r.begun + MaxCall
          /\ r.at = "answered" => r.begun < lives[r.token]
      BY <2>1, <3>1
    <3> QED
      BY <2>1, <2>2, <3>2, UseKeeps
  <2>4. DOMAIN valid' = DOMAIN valid \ {t} /\ \A s \in DOMAIN valid' : valid'[s] = valid[s]
    BY <1>4 DEF Get
  <2>5. /\ IsFiniteSet(DOMAIN valid')
        /\ Cardinality(DOMAIN valid') <= Cardinality(DOMAIN valid)
        /\ Cardinality(DOMAIN valid') \in Nat /\ Cardinality(DOMAIN valid) \in Nat
    <3>1. IsFiniteSet(DOMAIN valid) /\ DOMAIN valid' \subseteq DOMAIN valid
      BY <1>1, <2>4 DEF GateTypes
    <3> QED
      BY <3>1, FS_Subset, FS_CardinalityType
  <2>6. GateTypes'
    BY <1>1, <2>2, <2>3, <2>4, <2>5 DEF GateTypes
  <2>7. GateCloses'
    BY <1>0, <2>2, <2>4, <2>5 DEF GateInv, GateCloses
  <2> QED
    BY <2>3, <2>6, <2>7 DEF GateInv
<1>5. ASSUME NEW q \in Use, ValidateToken(q) PROVE GateInv'
  <2>1. CASE RequestEnds(q)
    BY <1>2, <1>3, <1>5, <2>1 DEF ValidateToken
  <2>2. CASE clock < lives[use[q].token] /\ use' = [use EXCEPT ![q].at = "answered"]
    <3> DEFINE r == [use[q] EXCEPT !.at = "answered"]
    <3>1. use[q] \in UseRecord
      BY <1>1 DEF GateTypes
    <3>2. r \in UseRecord /\ r.at = "answered" /\ r.token = use[q].token /\ r.begun = use[q].begun
      BY <3>1 DEF UseRecord
    <3>3. use' = [use EXCEPT ![q] = r]
      BY <2>2
    <3> HIDE DEF r
    <3>4. use[q].begun \in Nat /\ clock \in Nat /\ lives \in [Bearer -> Nat]
      BY <1>1, <3>1 DEF GateTypes, UseRecord
    <3>5. use[q].at = "asking"
      BY <1>5 DEF ValidateToken
    <3>6. /\ use[q].token \in Bearer /\ use[q].begun <= clock
          /\ clock <= use[q].begun + MaxCall
      BY <1>1, <3>5 DEF UnderWay
    <3>7. use[q].begun < lives[use[q].token]
      BY <2>2, <3>4, <3>6
    <3> QED
      BY <1>2, <1>5, <3>2, <3>3, <3>6, <3>7 DEF ValidateToken
  <2> QED
    BY <1>5, <2>1, <2>2 DEF ValidateToken
<1>6. ASSUME NEW q \in Use, ReplyLost(q) PROVE GateInv'
  BY <1>2, <1>3, <1>6 DEF ReplyLost
<1>7. ASSUME NEW q \in Use, Put(q) PROVE GateInv'
  <2>1. PICK new : new = use[q].token
    OBVIOUS
  <2>2. PICK kept : kept = IF Cardinality(DOMAIN valid) > MaxValid THEN {} ELSE DOMAIN valid
    OBVIOUS
  <2>3. /\ valid' = [t \in kept \cup {new} |-> IF t = new THEN clock + GateTTL ELSE valid[t]]
        /\ RequestEnds(q) /\ UNCHANGED <<clock, lives>> /\ use[q].at = "answered"
    BY <1>7, <2>1, <2>2 DEF Put
  <2>4. (use \in [Use -> UseRecord])' /\ (\A p \in Use : UnderWay(p))'
    <3>1. NotUsed \in UseRecord /\ NotUsed.at = "idle"
      BY DEF NotUsed, UseRecord
    <3> QED
      BY <1>3, <2>3, <3>1, UseKeeps
  <2>5. /\ new \in Bearer /\ clock <= use[q].begun + MaxCall /\ use[q].begun < lives[new]
        /\ use[q].begun \in Nat /\ clock \in Nat /\ lives \in [Bearer -> Nat]
    BY <1>1, <2>1, <2>3 DEF UnderWay, GateTypes, UseRecord
  <2>6. kept \subseteq DOMAIN valid /\ IsFiniteSet(kept)
    BY <1>1, <2>2, FS_EmptySet DEF GateTypes
  <2>7. Cardinality(kept) \in Nat /\ Cardinality(kept) <= MaxValid
    <3>1. Cardinality(DOMAIN valid) \in Nat
      BY <1>1, FS_CardinalityType DEF GateTypes
    <3>2. Cardinality({}) = 0
      BY FS_EmptySet
    <3> QED
      BY <1>0, <2>2, <3>1, <3>2
  <2>8. /\ IsFiniteSet(kept \cup {new})
        /\ Cardinality(kept \cup {new}) \in Nat
        /\ Cardinality(kept \cup {new}) <= Cardinality(kept) + 1
    BY <2>6, <2>7, FS_AddElement, FS_CardinalityType
  <2>9. DOMAIN valid' = kept \cup {new}
    BY <2>3, Zenon
  <2>10. \A t \in kept \cup {new} : /\ t \in Bearer /\ valid'[t] \in Nat
                                    /\ valid'[t] < lives[t] + MaxCall + GateTTL
    <3> TAKE t \in kept \cup {new}
    <3>1. CASE t = new
      <4>1. valid'[t] = clock + GateTTL
        BY <2>3, <3>1
      <4> QED
        BY <1>0, <2>5, <3>1, <4>1
    <3>2. CASE t # new
      <4>1. valid'[t] = valid[t] /\ t \in DOMAIN valid
        BY <2>3, <2>6, <3>2
      <4> QED
        BY <1>1, <4>1 DEF GateInv, GateTypes, GateCloses
    <3> QED
      BY <3>1, <3>2
  <2>11. GateTypes'
    BY <1>1, <2>3, <2>4, <2>8, <2>9, <2>10 DEF GateTypes
  <2>12. GateCloses'
    <3>1. \A t \in DOMAIN valid' : valid'[t] < lives'[t] + MaxCall + GateTTL
      BY <2>3, <2>9, <2>10
    <3>2. Cardinality(DOMAIN valid') <= MaxValid + 1
      BY <1>0, <2>7, <2>8, <2>9
    <3> QED
      BY <3>1, <3>2 DEF GateCloses
  <2> QED
    BY <2>4, <2>11, <2>12 DEF GateInv
<1>8. ASSUME GateTick PROVE GateInv'
  <2>1. GateTypes' /\ GateCloses'
    BY <1>1, <1>8 DEF GateTick, GateTypes, GateCloses, GateInv
  <2>2. ASSUME NEW q \in Use PROVE UnderWay(q)'
    <3>1. use[q].begun \in Nat /\ clock \in Nat /\ clock' = clock + 1 /\ use' = use /\ lives' = lives
      BY <1>1, <1>8 DEF GateTick, GateTypes, UseRecord
    <3>2. use[q].at # "idle" => clock < use[q].begun + MaxCall
      BY <1>8 DEF GateTick
    <3>3. UnderWay(q)
      BY <1>1
    <3> QED
      BY <1>0, <3>1, <3>2, <3>3 DEF UnderWay
  <2> QED
    BY <2>1, <2>2 DEF GateInv
<1>9. CASE UNCHANGED gateVars
  BY <1>9 DEF gateVars, GateInv, GateTypes, GateCloses, UnderWay
<1> QED
  BY <1>4, <1>5, <1>6, <1>7, <1>8, <1>9 DEF GateNext

(* An expired session token is let in no longer than a call and an entry   *)
(* last, and the cache keeps at most one token more than it may.           *)
LEMMA GateHolds ==
  ASSUME NEW times \in SUBSET Nat
  PROVE  GateInit(times) /\ [][GateNext]_gateVars => []GateCloses
<1>1. GateInit(times) => GateInv
  BY GateBegins
<1>2. GateInv /\ [GateNext]_gateVars => GateInv'
  BY GateStays
<1>3. GateInv => GateCloses
  BY DEF GateInv
<1> QED
  BY <1>1, <1>2, <1>3, PTL

-----------------------------------------------------------------------------
(* PermissionChain.  What was read before he left is passed on within the  *)
(* time of a call, and then lives as long as the entry that holds it.  The *)
(* bounds add up along the chain: the read, the shared entry, the reply,   *)
(* the copy, the URL.  (old: a tick has passed since the request began.)   *)

Held(n) == [held : BOOLEAN, member : BOOLEAN, ttl : 0..n]
AskingRecord ==
  [at : {"idle", "get", "role", "fill", "reply", "sign"}, by : Caller \cup {Nobody},
   member : BOOLEAN, old : BOOLEAN]

ChainTypes ==
  /\ belongs \in BOOLEAN /\ since \in Nat
  /\ shared \in Held(SharedTTL) /\ copy \in [Caller -> Held(CopyTTL)] /\ url \in Held(UrlTTL)
  /\ asking \in [Asking -> AskingRecord]

ReadEnds == 0
SharedEnds == SharedTTL + 1
CopyEnds == SharedTTL + CopyTTL + 2
UrlEnds == SharedTTL + CopyTTL + UrlTTL + 3

Late(r) == IF r.old THEN 1 ELSE 0
PassedOn(r) ==
  /\ r.at = "fill" /\ r.member => since <= ReadEnds + Late(r)
  /\ r.at = "reply" /\ r.member => since <= SharedEnds + Late(r)
  /\ r.at = "sign" => since <= CopyEnds + Late(r)

ChainEnds ==
  /\ shared.held /\ shared.member => since + shared.ttl <= SharedEnds
  /\ \A c \in Caller : copy[c].held /\ copy[c].member => since + copy[c].ttl <= CopyEnds
  /\ url.held => since + url.ttl <= UrlEnds
AskingEnds == \A q \in Asking : PassedOn(asking[q])

ChainInv == ChainTypes /\ (~belongs => ChainEnds /\ AskingEnds)

LEMMA ChainConstants ==
  /\ SharedTTL \in Nat /\ CopyTTL \in Nat /\ UrlTTL \in Nat
  /\ ReadEnds \in Nat /\ SharedEnds \in Nat /\ CopyEnds \in Nat /\ UrlEnds \in Nat
  /\ 0 \in 0..SharedTTL /\ 0 \in 0..CopyTTL /\ 0 \in 0..UrlTTL
  BY ChainAssumption DEF ReadEnds, SharedEnds, CopyEnds, UrlEnds

LEMMA ChainRecords ==
  /\ NoAsking \in AskingRecord /\ NoAsking.at = "idle" /\ ~NoAsking.old /\ ~NoAsking.member
  /\ \A n \in Nat : Nothing \in Held(n) /\ ~Nothing.held
  /\ \A n \in Nat, m \in BOOLEAN : /\ Fresh(m, n) \in Held(n) /\ Fresh(m, n).held
                                   /\ Fresh(m, n).member = m /\ Fresh(m, n).ttl = n
  BY DEF NoAsking, AskingRecord, Nothing, Held, Fresh

LEMMA ChainBegins == ASSUME ChainInit PROVE ChainInv
  BY ChainRecords, ChainConstants DEF ChainInit, ChainInv, ChainTypes

(* A request that takes a step leaves the others where they are. *)
LEMMA AskingKeeps ==
  ASSUME ChainInv, UNCHANGED <<belongs, since>>, NEW q \in Asking, NEW r \in AskingRecord,
         asking' = [asking EXCEPT ![q] = r], ~belongs => PassedOn(r)
  PROVE  (asking \in [Asking -> AskingRecord])' /\ (~belongs' => AskingEnds')
<1>1. asking \in [Asking -> AskingRecord]
  BY DEF ChainInv, ChainTypes
<1>2. (asking \in [Asking -> AskingRecord])'
  BY <1>1
<1>3. \A p \in Asking : asking'[p] = IF p = q THEN r ELSE asking[p]
  BY <1>1
<1>4. ASSUME ~belongs PROVE AskingEnds'
  <2>1. AskingEnds
    BY <1>4 DEF ChainInv
  <2> SUFFICES ASSUME NEW p \in Asking PROVE PassedOn(asking[p])'
    BY DEF AskingEnds
  <2> QED
    BY <1>3, <1>4, <2>1 DEF AskingEnds, PassedOn, Late
<1> QED
  BY <1>2, <1>4

(* A step of the endpoint's that stores nothing *)
LEMMA AskingMoves ==
  ASSUME ChainInv, NEW q \in Asking, NEW r \in AskingRecord, asking' = [asking EXCEPT ![q] = r],
         ~belongs => PassedOn(r), UNCHANGED <<belongs, since, shared, copy, url>>
  PROVE  ChainInv'
<1>1. (asking \in [Asking -> AskingRecord])' /\ (~belongs' => AskingEnds')
  BY AskingKeeps
<1> QED
  BY <1>1 DEF ChainInv, ChainTypes, ChainEnds

LEMMA LookUpEnds ==
  ASSUME ChainInv, NEW q \in Asking, NEW c \in Caller, LookUp(q, c) PROVE ChainInv'
<1> DEFINE at == IF copy[c].held THEN "sign" ELSE "get"
           r == [NoAsking EXCEPT !.at = at, !.by = c]
<1>1. r \in AskingRecord /\ r.at = at /\ r.old = FALSE
  BY ChainRecords DEF AskingRecord
<1>2. asking' = [asking EXCEPT ![q] = r]
  BY DEF LookUp, Begun
<1>3. ASSUME ~belongs, at = "sign" PROVE since <= CopyEnds
  <2>1. copy[c].held /\ copy[c].member
    BY <1>3 DEF LookUp
  <2>2. since + copy[c].ttl <= CopyEnds
    BY <1>3, <2>1 DEF ChainInv, ChainEnds
  <2>3. copy[c].ttl \in 0..CopyTTL /\ since \in Nat
    BY DEF ChainInv, ChainTypes, Held
  <2> QED
    BY <2>2, <2>3, ChainConstants
<1>4. at \in {"sign", "get"}
  OBVIOUS
<1>5. since \in Nat
  BY DEF ChainInv, ChainTypes
<1> HIDE DEF r, at
<1>6. ~belongs => PassedOn(r)
  BY <1>1, <1>3, <1>4, <1>5, ChainConstants DEF PassedOn, Late
<1>7. UNCHANGED <<belongs, since, shared, copy, url>>
  BY DEF LookUp
<1> QED
  BY <1>1, <1>2, <1>6, <1>7, AskingMoves

LEMMA StoreCopyEnds ==
  ASSUME ChainInv, NEW q \in Asking, StoreCopy(q) PROVE ChainInv'
<1>1. PICK c : c = asking[q].by
  OBVIOUS
<1>2. PICK r : r = IF asking[q].member /\ c = "document" THEN [asking[q] EXCEPT !.at = "sign"]
                                                        ELSE NoAsking
  OBVIOUS
<1>3. asking[q] \in AskingRecord /\ asking \in [Asking -> AskingRecord] /\ since \in Nat
  BY DEF ChainInv, ChainTypes
<1>4. /\ copy' = [copy EXCEPT ![c] = Fresh(asking[q].member, CopyTTL)]
      /\ asking' = [asking EXCEPT ![q] = r] /\ asking[q].at = "reply"
      /\ UNCHANGED <<belongs, since, shared, url>>
  <2>1. CASE asking[q].member /\ c = "document"
    <3>1. asking' = [asking EXCEPT ![q].at = "sign"]
      BY <1>1, <2>1 DEF StoreCopy, Now
    <3> QED
      BY <1>1, <1>2, <2>1, <3>1 DEF StoreCopy, At
  <2>2. CASE ~(asking[q].member /\ c = "document")
    BY <1>1, <1>2, <2>2 DEF StoreCopy, At, Done
  <2> QED
    BY <2>1, <2>2
<1>5. /\ r \in AskingRecord
      /\ r.at = "idle" \/ (r.at = "sign" /\ r.old = asking[q].old /\ asking[q].member)
  BY <1>2, <1>3, ChainRecords DEF AskingRecord
<1>6. ~belongs /\ asking[q].member => since <= SharedEnds + Late(asking[q])
  BY <1>4 DEF ChainInv, AskingEnds, PassedOn
<1>7. ~belongs => PassedOn(r)
  <2>1. CASE r.at = "idle"
    BY <2>1 DEF PassedOn
  <2>2. CASE r.at = "sign" /\ r.old = asking[q].old /\ asking[q].member
    BY <1>3, <1>6, <2>2, ChainConstants DEF PassedOn, Late, SharedEnds, CopyEnds
  <2> QED
    BY <1>5, <2>1, <2>2
<1>8. (asking \in [Asking -> AskingRecord])' /\ (~belongs' => AskingEnds')
  BY <1>4, <1>5, <1>7, AskingKeeps
<1>9. copy \in [Caller -> Held(CopyTTL)] /\ asking[q].member \in BOOLEAN
  BY <1>3 DEF ChainInv, ChainTypes, AskingRecord
<1>10. PICK new : new = Fresh(asking[q].member, CopyTTL)
  OBVIOUS
<1>11. new \in Held(CopyTTL) /\ new.member = asking[q].member /\ new.ttl = CopyTTL
  BY <1>9, <1>10, ChainRecords, ChainConstants
<1>12. copy' = [copy EXCEPT ![c] = new]
  BY <1>4, <1>10
<1>13. (copy \in [Caller -> Held(CopyTTL)])'
  BY <1>9, <1>11, <1>12
<1>14. \A d \in Caller : copy'[d] = IF d = c THEN new ELSE copy[d]
  BY <1>9, <1>12
<1>15. ASSUME ~belongs PROVE ChainEnds'
  <2>1. ChainEnds
    BY <1>15 DEF ChainInv
  <2>2. new.held /\ new.member => since + new.ttl <= CopyEnds
    BY <1>3, <1>6, <1>11, <1>15, ChainConstants DEF Late, SharedEnds, CopyEnds
  <2>3. \A d \in Caller : copy'[d].held /\ copy'[d].member => since' + copy'[d].ttl <= CopyEnds
    BY <1>4, <1>14, <2>1, <2>2 DEF ChainEnds
  <2> QED
    BY <1>4, <2>1, <2>3 DEF ChainEnds
<1> QED
  BY <1>4, <1>8, <1>13, <1>15 DEF ChainInv, ChainTypes

LEMMA DownloadEnds ==
  ASSUME ChainInv, NEW q \in Asking, GetDownloadURL(q) PROVE ChainInv'
<1>1. /\ url' = Fresh(TRUE, UrlTTL) /\ asking' = [asking EXCEPT ![q] = NoAsking]
      /\ UNCHANGED <<belongs, since, shared, copy>> /\ asking[q].at = "sign"
  BY DEF GetDownloadURL, Done, At
<1>2. NoAsking \in AskingRecord /\ PassedOn(NoAsking)
  BY ChainRecords DEF PassedOn
<1>3. (asking \in [Asking -> AskingRecord])' /\ (~belongs' => AskingEnds')
  BY <1>1, <1>2, AskingKeeps
<1>4. url' \in Held(UrlTTL) /\ url'.ttl = UrlTTL
  BY <1>1, ChainRecords, ChainConstants
<1>5. ASSUME ~belongs PROVE ChainEnds'
  <2>1. ChainEnds /\ PassedOn(asking[q]) /\ since \in Nat
    BY <1>5 DEF ChainInv, AskingEnds, ChainTypes
  <2>2. since <= CopyEnds + 1
    BY <1>1, <2>1, ChainConstants DEF PassedOn, Late
  <2>3. since + UrlTTL <= UrlEnds
    BY <2>1, <2>2, ChainConstants DEF CopyEnds, UrlEnds
  <2> QED
    BY <1>1, <1>4, <2>1, <2>3 DEF ChainEnds
<1> QED
  BY <1>1, <1>3, <1>4, <1>5 DEF ChainInv, ChainTypes

LEMMA GiveUpEnds ==
  ASSUME ChainInv, NEW q \in Asking, GiveUp(q) PROVE ChainInv'
<1>1. UNCHANGED <<belongs, since, shared, copy, url>>
  BY DEF GiveUp
<1>2. NoAsking \in AskingRecord /\ PassedOn(NoAsking)
  BY ChainRecords DEF PassedOn
<1>3. asking[q] \in AskingRecord /\ (~belongs => PassedOn(asking[q]))
  BY DEF ChainInv, ChainTypes, AskingEnds
<1>4. CASE asking' = [asking EXCEPT ![q] = NoAsking]
  BY <1>1, <1>2, <1>4, AskingMoves
<1>5. CASE asking' = [asking EXCEPT ![q].by = Nobody]
  <2>1. PICK r : r = [asking[q] EXCEPT !.by = Nobody]
    OBVIOUS
  <2>2. /\ r \in AskingRecord /\ r.at = asking[q].at /\ r.old = asking[q].old
        /\ r.member = asking[q].member
    BY <1>3, <2>1 DEF AskingRecord
  <2>3. asking' = [asking EXCEPT ![q] = r]
    BY <1>5, <2>1
  <2>4. ~belongs => PassedOn(r)
    BY <1>3, <2>2 DEF PassedOn, Late
  <2> QED
    BY <1>1, <2>2, <2>3, <2>4, AskingMoves
<1> QED
  BY <1>4, <1>5 DEF GiveUp, Done

LEMMA GetSharedEnds ==
  ASSUME ChainInv, NEW q \in Asking, GetShared(q) PROVE ChainInv'
<1>1. UNCHANGED <<belongs, since, shared, copy, url>>
  BY DEF GetShared
<1>2. asking[q] \in AskingRecord /\ since \in Nat /\ shared \in Held(SharedTTL)
  BY DEF ChainInv, ChainTypes
<1>3. CASE shared.held /\ Answered(q, shared.member)
  <2>1. PICK at : at = IF asking[q].by = Nobody THEN "idle" ELSE "reply"
    OBVIOUS
  <2>2. PICK r : r = [asking[q] EXCEPT !.at = at, !.member = shared.member]
    OBVIOUS
  <2>3. r \in AskingRecord /\ r.at = at /\ r.old = asking[q].old /\ r.member = shared.member
    <3>1. shared.member \in BOOLEAN /\ at \in {"idle", "reply"}
      BY <1>2, <2>1 DEF Held
    <3> QED
      BY <1>2, <2>2, <3>1 DEF AskingRecord
  <2>4. asking' = [asking EXCEPT ![q] = r]
    BY <1>3, <2>1, <2>2 DEF Answered
  <2>5. ASSUME ~belongs PROVE PassedOn(r)
    <3>1. shared.member => since + shared.ttl <= SharedEnds
      BY <1>3, <2>5 DEF ChainInv, ChainEnds
    <3>2. shared.ttl \in 0..SharedTTL
      BY <1>2 DEF Held
    <3>3. at \in {"idle", "reply"}
      BY <2>1
    <3>4. r.member => since <= SharedEnds + Late(r)
      BY <1>2, <2>3, <3>1, <3>2, ChainConstants DEF Late
    <3> QED
      BY <2>3, <3>3, <3>4 DEF PassedOn
  <2> QED
    BY <1>1, <2>3, <2>4, <2>5, AskingMoves
<1>4. CASE Now(q, "role")
  <2>1. PICK r : r = [asking[q] EXCEPT !.at = "role"]
    OBVIOUS
  <2>2. r \in AskingRecord /\ r.at = "role"
    BY <1>2, <2>1 DEF AskingRecord
  <2>3. asking' = [asking EXCEPT ![q] = r]
    BY <1>4, <2>1 DEF Now
  <2>4. PassedOn(r)
    BY <2>2 DEF PassedOn
  <2> QED
    BY <1>1, <2>2, <2>3, <2>4, AskingMoves
<1> QED
  BY <1>3, <1>4 DEF GetShared

LEMMA ReadRoleEnds ==
  ASSUME ChainInv, NEW q \in Asking, ReadRole(q) PROVE ChainInv'
<1>1. UNCHANGED <<belongs, since, shared, copy, url>>
  BY DEF ReadRole
<1>2. asking[q] \in AskingRecord /\ belongs \in BOOLEAN
  BY DEF ChainInv, ChainTypes
<1>3. PICK member \in {belongs, FALSE} :
        asking' = [asking EXCEPT ![q].at = "fill", ![q].member = member]
  BY DEF ReadRole
<1>4. PICK r : r = [asking[q] EXCEPT !.at = "fill", !.member = member]
  OBVIOUS
<1>5. r \in AskingRecord /\ r.at = "fill" /\ r.member = member
  BY <1>2, <1>4 DEF AskingRecord
<1>6. asking' = [asking EXCEPT ![q] = r]
  BY <1>3, <1>4
<1>7. ~belongs => PassedOn(r)
  BY <1>5 DEF PassedOn
<1> QED
  BY <1>1, <1>5, <1>6, <1>7, AskingMoves

LEMMA SetSharedEnds ==
  ASSUME ChainInv, NEW q \in Asking, SetShared(q) PROVE ChainInv'
<1>1. UNCHANGED <<belongs, since, copy, url>> /\ asking[q].at = "fill"
  BY DEF SetShared, At
<1>2. /\ asking[q] \in AskingRecord /\ asking[q].member \in BOOLEAN /\ since \in Nat
      /\ shared \in Held(SharedTTL)
  BY DEF ChainInv, ChainTypes, AskingRecord
<1>3. ~belongs /\ asking[q].member => since <= ReadEnds + Late(asking[q])
  BY <1>1 DEF ChainInv, AskingEnds, PassedOn
<1>4. ~belongs /\ asking[q].member => since <= 1
  BY <1>2, <1>3 DEF Late, ReadEnds
<1>5. shared' \in Held(SharedTTL)
  BY <1>2, ChainRecords, ChainConstants DEF SetShared
<1>6. ASSUME ~belongs PROVE shared'.held /\ shared'.member => since + shared'.ttl <= SharedEnds
  <2>1. CASE shared' = shared
    BY <1>6, <2>1 DEF ChainInv, ChainEnds
  <2>2. CASE shared' = Fresh(asking[q].member, SharedTTL)
    <3>1. shared'.member = asking[q].member /\ shared'.ttl = SharedTTL
      BY <1>2, <2>2, ChainRecords, ChainConstants
    <3> QED
      BY <1>2, <1>4, <1>6, <3>1, ChainConstants DEF SharedEnds
  <2> QED
    BY <2>1, <2>2 DEF SetShared
<1>7. (asking \in [Asking -> AskingRecord])' /\ (~belongs' => AskingEnds')
  <2>1. CASE asking' = [asking EXCEPT ![q] = NoAsking]
    <3>1. NoAsking \in AskingRecord /\ PassedOn(NoAsking)
      BY ChainRecords DEF PassedOn
    <3> QED
      BY <1>1, <2>1, <3>1, AskingKeeps
  <2>2. CASE asking[q].by # Nobody /\ Answered(q, asking[q].member)
    <3>1. PICK r : r = [asking[q] EXCEPT !.at = "reply", !.member = asking[q].member]
      OBVIOUS
    <3>2. /\ r \in AskingRecord /\ r.at = "reply" /\ r.old = asking[q].old
          /\ r.member = asking[q].member
      BY <1>2, <3>1 DEF AskingRecord
    <3>3. asking' = [asking EXCEPT ![q] = r]
      BY <2>2, <3>1 DEF Answered
    <3>4. ~belongs => PassedOn(r)
      BY <1>2, <1>4, <3>2, ChainConstants DEF PassedOn, Late, SharedEnds
    <3> QED
      BY <1>1, <3>2, <3>3, <3>4, AskingKeeps
  <2> QED
    BY <2>1, <2>2 DEF SetShared, Done
<1>8. ASSUME ~belongs PROVE ChainEnds'
  <2>1. ChainEnds
    BY <1>8 DEF ChainInv
  <2> QED
    BY <1>1, <1>6, <1>8, <2>1 DEF ChainEnds
<1> QED
  BY <1>1, <1>5, <1>7, <1>8 DEF ChainInv, ChainTypes

LEMMA ChangeEnds == ASSUME ChainInv, ChangeMembership PROVE ChainInv'
<1>1. since' = 0 /\ belongs' \in BOOLEAN /\ UNCHANGED <<shared, copy, asking, url>>
  BY DEF ChangeMembership
<1>2. ChainTypes
  BY DEF ChainInv
<1>3. ChainTypes'
  BY <1>1, <1>2 DEF ChainTypes
<1>4. ChainEnds'
  <2>1. shared.ttl <= SharedEnds /\ shared.ttl \in Nat
    BY <1>2, ChainConstants DEF ChainTypes, Held, SharedEnds
  <2>2. \A c \in Caller : copy[c].ttl <= CopyEnds /\ copy[c].ttl \in Nat
    BY <1>2, ChainConstants DEF ChainTypes, Held, CopyEnds
  <2>3. url.ttl <= UrlEnds /\ url.ttl \in Nat
    BY <1>2, ChainConstants DEF ChainTypes, Held, UrlEnds
  <2> QED
    BY <1>1, <2>1, <2>2, <2>3 DEF ChainEnds
<1>5. AskingEnds'
  <2> SUFFICES ASSUME NEW q \in Asking PROVE PassedOn(asking[q])'
    BY DEF AskingEnds
  <2> QED
    BY <1>1, ChainConstants DEF PassedOn, Late
<1> QED
  BY <1>3, <1>4, <1>5 DEF ChainInv

(* An entry that goes leaves nothing to be relied on. *)
LEMMA EntriesGo ==
  ASSUME ChainInv, UNCHANGED <<belongs, since, asking>>,
         shared' \in {shared, Nothing}, url' \in {url, Nothing},
         \/ UNCHANGED copy
         \/ \E c \in Caller : copy' = [copy EXCEPT ![c] = Nothing]
  PROVE  ChainInv'
<1>1. Nothing \in Held(SharedTTL) /\ Nothing \in Held(CopyTTL) /\ Nothing \in Held(UrlTTL)
      /\ ~Nothing.held
  BY ChainRecords, ChainConstants
<1>2. ChainTypes /\ copy \in [Caller -> Held(CopyTTL)]
  BY DEF ChainInv, ChainTypes
<1>3. \A c \in Caller : copy'[c] \in {copy[c], Nothing}
  BY <1>2
<1>4. (copy \in [Caller -> Held(CopyTTL)])'
  BY <1>1, <1>2
<1>5. ChainTypes'
  BY <1>1, <1>2, <1>4 DEF ChainTypes
<1>6. ASSUME ~belongs PROVE ChainEnds' /\ AskingEnds'
  <2>1. ChainEnds /\ AskingEnds
    BY <1>6 DEF ChainInv
  <2>2. ChainEnds'
    BY <1>1, <1>3, <2>1 DEF ChainEnds
  <2>3. AskingEnds'
    BY <2>1 DEF AskingEnds, PassedOn, Late
  <2> QED
    BY <2>2, <2>3
<1> QED
  BY <1>5, <1>6 DEF ChainInv

LEMMA TickEnds == ASSUME ChainInv, Tick PROVE ChainInv'
<1>1. ChainTypes
  BY DEF ChainInv
<1>2. since \in Nat /\ since' \in Nat /\ since' <= since + 1
  BY <1>1 DEF ChainTypes, Tick
<1>3. ASSUME NEW n \in Nat, NEW e \in Held(n), ~Ends(e)
      PROVE  /\ Older(e) \in Held(n) /\ Older(e).held = e.held /\ Older(e).member = e.member
             /\ e.held => Older(e).ttl = e.ttl - 1 /\ e.ttl \in Nat
  BY <1>3 DEF Held, Ends, Older
<1>4. /\ shared' = Older(shared) /\ url' = Older(url) /\ ~Ends(shared) /\ ~Ends(url)
      /\ shared \in Held(SharedTTL) /\ url \in Held(UrlTTL)
      /\ copy \in [Caller -> Held(CopyTTL)] /\ UNCHANGED belongs
  BY <1>1 DEF Tick, ChainTypes
<1>5. /\ copy' = [c \in Caller |-> Older(copy[c])]
      /\ \A c \in Caller : ~Ends(copy[c]) /\ copy[c] \in Held(CopyTTL)
  BY <1>4 DEF Tick
<1>6. /\ shared' \in Held(SharedTTL) /\ shared'.held = shared.held
      /\ shared'.member = shared.member
      /\ shared.held => shared'.ttl = shared.ttl - 1 /\ shared.ttl \in Nat
  BY <1>3, <1>4, ChainConstants
<1>7. /\ url' \in Held(UrlTTL) /\ url'.held = url.held
      /\ url.held => url'.ttl = url.ttl - 1 /\ url.ttl \in Nat
  BY <1>3, <1>4, ChainConstants
<1>8. \A c \in Caller : /\ copy'[c] \in Held(CopyTTL) /\ copy'[c].held = copy[c].held
                        /\ copy'[c].member = copy[c].member
                        /\ copy[c].held => copy'[c].ttl = copy[c].ttl - 1 /\ copy[c].ttl \in Nat
  BY <1>3, <1>5, ChainConstants
<1>9. /\ asking \in [Asking -> AskingRecord]
      /\ asking' = [q \in Asking |-> [asking[q] EXCEPT !.old = At(q) # "idle"]]
      /\ \A q \in Asking : ~asking[q].old
  BY <1>1 DEF Tick, ChainTypes
<1>10. \A q \in Asking : /\ asking'[q] \in AskingRecord /\ asking'[q].at = asking[q].at
                         /\ asking'[q].member = asking[q].member
                         /\ asking'[q].at # "idle" => asking'[q].old = TRUE
  <2> TAKE q \in Asking
  <2>1. asking[q] \in AskingRecord /\ asking'[q] = [asking[q] EXCEPT !.old = asking[q].at # "idle"]
    BY <1>9 DEF At
  <2>2. PICK o \in BOOLEAN : o = (asking[q].at # "idle")
    OBVIOUS
  <2>3. asking'[q] = [asking[q] EXCEPT !.old = o]
    BY <2>1, <2>2
  <2> QED
    BY <2>1, <2>2, <2>3 DEF AskingRecord
<1>11. (asking \in [Asking -> AskingRecord])' /\ (copy \in [Caller -> Held(CopyTTL)])'
  <2>1. asking' \in [Asking -> AskingRecord]
    BY <1>9, <1>10
  <2>2. copy' \in [Caller -> Held(CopyTTL)]
    BY <1>5, <1>8
  <2> QED
    BY <2>1, <2>2
<1>12. ChainTypes'
  BY <1>1, <1>2, <1>4, <1>6, <1>7, <1>11 DEF ChainTypes
<1>13. ASSUME ~belongs PROVE ChainEnds'
  <2>1. ChainEnds
    BY <1>13 DEF ChainInv
  <2>2. shared'.held /\ shared'.member => since' + shared'.ttl <= SharedEnds
    BY <1>2, <1>6, <2>1, ChainConstants DEF ChainEnds
  <2>3. \A c \in Caller : copy'[c].held /\ copy'[c].member => since' + copy'[c].ttl <= CopyEnds
    <3> TAKE c \in Caller
    <3>1. copy[c].held /\ copy[c].member => since + copy[c].ttl <= CopyEnds
      BY <2>1 DEF ChainEnds
    <3> QED
      BY <1>2, <1>8, <3>1, ChainConstants
  <2>4. url'.held => since' + url'.ttl <= UrlEnds
    BY <1>2, <1>7, <2>1, ChainConstants DEF ChainEnds
  <2> QED
    BY <2>2, <2>3, <2>4 DEF ChainEnds
<1>14. ASSUME ~belongs PROVE AskingEnds'
  <2>1. AskingEnds
    BY <1>14 DEF ChainInv
  <2> SUFFICES ASSUME NEW q \in Asking PROVE PassedOn(asking[q])'
    BY DEF AskingEnds
  <2>2. PassedOn(asking[q]) /\ Late(asking[q]) = 0
    BY <1>9, <2>1 DEF AskingEnds, Late
  <2>3. asking'[q].at # "idle" => (IF asking'[q].old THEN 1 ELSE 0) = 1
    BY <1>10
  <2> QED
    BY <1>2, <1>10, <2>2, <2>3, ChainConstants DEF PassedOn, Late
<1> QED
  BY <1>4, <1>12, <1>13, <1>14 DEF ChainInv

LEMMA ChainStays == ASSUME ChainInv, [ChainNext]_chainVars PROVE ChainInv'
<1>1. CASE ChangeMembership
  BY <1>1, ChangeEnds
<1>2. CASE Evict
  BY <1>2, EntriesGo DEF Evict
<1>3. CASE \E q \in Asking : \/ \E c \in Caller : LookUp(q, c)
                             \/ StoreCopy(q) \/ GetDownloadURL(q) \/ GiveUp(q)
                             \/ GetShared(q) \/ ReadRole(q) \/ SetShared(q)
  BY <1>3, LookUpEnds, StoreCopyEnds, DownloadEnds, GiveUpEnds, GetSharedEnds, ReadRoleEnds,
     SetSharedEnds
<1>4. CASE SharedExpires
  BY <1>4, EntriesGo DEF SharedExpires
<1>5. CASE UrlExpires
  BY <1>5, EntriesGo DEF UrlExpires
<1>6. CASE Tick
  BY <1>6, TickEnds
<1>7. CASE \E c \in Caller : CopyExpires(c)
  BY <1>7, EntriesGo DEF CopyExpires
<1>8. CASE UNCHANGED chainVars
  BY <1>8, EntriesGo DEF chainVars
<1> QED
  BY <1>1, <1>2, <1>3, <1>4, <1>5, <1>6, <1>7, <1>8 DEF ChainNext

(* Who has left a project is refused everywhere once the entries have      *)
(* ended that may, one after the other, hold what was read before.         *)
LEMMA AccessAlwaysEnds == ChainInit /\ [][ChainNext]_chainVars => []AccessEnds
<1>1. ChainInv => AccessEnds
  <2> SUFFICES ASSUME ChainInv, ~belongs
               PROVE  /\ \A c \in Caller : copy[c].held /\ copy[c].member
                                              => since <= SharedTTL + CopyTTL + 2
                      /\ url.held => since <= SharedTTL + CopyTTL + UrlTTL + 3
    BY DEF AccessEnds
  <2>1. ChainEnds /\ since \in Nat
    BY DEF ChainInv, ChainTypes
  <2>2. (\A c \in Caller : copy[c].ttl \in Nat) /\ url.ttl \in Nat
    BY DEF ChainInv, ChainTypes, Held
  <2> QED
    BY <2>1, <2>2, ChainConstants DEF ChainEnds, CopyEnds, UrlEnds
<1> QED
  BY <1>1, ChainBegins, ChainStays, PTL

-----------------------------------------------------------------------------
(* The composition: a behaviour of MCSpec is one of each component.        *)

LEMMA EachAlone ==
  MCSpec => /\ Spec
            /\ LimitInit /\ [][LimitNext]_limitVars
            /\ ChainInit /\ [][ChainNext]_chainVars
            /\ \/ GateInit({1, 2}) /\ [][GateNext]_gateVars
               \/ GateInit({1}) /\ [][GateNext]_gateVars
<1>1. MCInit => Init /\ LimitInit /\ ChainInit /\ (GateInit({1, 2}) \/ GateInit({1}))
  BY DEF MCInit
<1>2. [MCNext]_<<vars, limitVars, gateVars, chainVars, processVars>> =>
         /\ [Next]_vars /\ [LimitNext]_limitVars /\ [ChainNext]_chainVars /\ [GateNext]_gateVars
  BY DEF MCNext
<1> QED
  BY <1>1, <1>2, PTL DEF MCSpec, Spec

(* An old password opens nothing, and no password is guessed at any rate.  *)
THEOREM PasswordsAreGuarded == MCSpec => []PasswordsGuard
<1>1. OldPasswordOut /\ AttemptsLimited => PasswordsGuard
  BY DEF PasswordsGuard
<1> QED
  BY <1>1, EachAlone, OldPasswordAlwaysOut, LimitHolds, PTL

(* No answer is relied on for ever: neither about a personal access token, *)
(* nor about a session token, nor about a membership.                      *)
THEOREM NoAnswerForEver == MCSpec => []AnswersEnd
<1>1. EndedPatRefused /\ GateCloses /\ AccessEnds => AnswersEnd
  BY DEF AnswersEnd
<1>2. GateInit({1, 2}) /\ [][GateNext]_gateVars => []GateCloses
  BY GateHolds
<1>3. GateInit({1}) /\ [][GateNext]_gateVars => []GateCloses
  BY GateHolds
<1> QED
  BY <1>1, <1>2, <1>3, EachAlone, EndedPatAlwaysRefused, AccessAlwaysEnds, PTL

-----------------------------------------------------------------------------
(* ServiceProcess: in what order every main does what it does.             *)

Steps == Program[service]
Connection == {"postgres", "redis", "rabbitmq", "publisher", "consumer"}

Ordered ==
  LET last == Len(Steps)
  IN /\ last \in Nat \ {0}
     /\ \A k \in 1..last : Steps[k].op = "serve" <=> k = last
     /\ \E k \in 1..(last - 1) : Steps[k].op = "notify"
     /\ \A x \in Needs : \E j \in 1..(last - 1) : Steps[j] = Open(x)
     /\ \A k \in 1..last : Steps[k].op = "go" =>
          /\ Steps[k].of \in Routine
          /\ \A x \in Uses(Steps[k].of) : \E j \in 1..(k - 1) : Steps[j] = Open(x)
     /\ \A k \in 1..last : Steps[k].op = "open" => Steps[k].of \in Connection
     /\ Unwinds(service) => \A j, k \in 1..last :
          j < k /\ Steps[j].op = "go" => Steps[k].op \notin {"open", "ping", "make"}

LEMMA AuthOrdered == ASSUME service = "auth" PROVE Ordered
<1>1. Steps = AuthMain /\ Len(Steps) = 11
  BY DEF Steps, Program, AuthMain
<1>2. /\ Steps[1] = Open("postgres") /\ Steps[2] = Ping("postgres") /\ Steps[3] = Open("redis")
      /\ Steps[4] = Ping("redis") /\ Steps[5] = Open("rabbitmq") /\ Steps[6] = Make("mail")
      /\ Steps[7] = Ping("postgres") /\ Steps[8] = Open("publisher") /\ Steps[9] = Go("outbox")
      /\ Steps[10] = Notify /\ Steps[11] = Serve
  BY <1>1 DEF AuthMain
<1>3. \A k \in 1..11 : k = 1 \/ k = 2 \/ k = 3 \/ k = 4 \/ k = 5 \/ k = 6 \/ k = 7 \/ k = 8
                       \/ k = 9 \/ k = 10 \/ k = 11
  OBVIOUS
<1>4. \A k \in 1..11 : Steps[k].op = "serve" <=> k = 11
  BY <1>2, <1>3 DEF Open, Ping, Make, Go, Notify, Serve
<1>5. Steps[10].op = "notify" /\ 10 \in 1..10
  BY <1>2 DEF Notify
<1>6. \A x \in Needs : \E j \in 1..10 : Steps[j] = Open(x)
  BY <1>2 DEF Needs
<1>7. ASSUME NEW k \in 1..11, Steps[k].op = "go"
      PROVE  /\ Steps[k].of \in Routine
             /\ \A x \in Uses(Steps[k].of) : \E j \in 1..(k - 1) : Steps[j] = Open(x)
  <2>1. k = 9
    BY <1>2, <1>3, <1>7 DEF Open, Ping, Make, Go, Notify, Serve
  <2>2. Steps[k].of = "outbox"
    BY <1>2, <2>1 DEF Go
  <2>3. Uses("outbox") = {"postgres", "publisher", "rabbitmq"}
    BY DEF Uses
  <2>4. \A x \in Uses("outbox") : \E j \in 1..8 : Steps[j] = Open(x)
    BY <1>2, <2>3
  <2> QED
    BY <2>1, <2>2, <2>4 DEF Routine
<1>8. \A k \in 1..11 : Steps[k].op = "open" => Steps[k].of \in Connection
  BY <1>2, <1>3 DEF Connection, Open, Ping, Make, Go, Notify, Serve
<1>9. ASSUME NEW j \in 1..11, NEW k \in 1..11, j < k, Steps[j].op = "go"
      PROVE  Steps[k].op \notin {"open", "ping", "make"}
  <2>1. j = 9
    BY <1>2, <1>3, <1>9 DEF Open, Ping, Make, Go, Notify, Serve
  <2>2. k = 10 \/ k = 11
    BY <1>9, <2>1
  <2> QED
    BY <1>2, <2>2 DEF Notify, Serve
<1> QED
  BY <1>1, <1>4, <1>5, <1>6, <1>7, <1>8, <1>9 DEF Ordered

LEMMA BoardRegistryOrdered == ASSUME service = "boardregistry" PROVE Ordered
<1>1. Steps = BoardRegistryMain /\ Len(Steps) = 7
  BY DEF Steps, Program, BoardRegistryMain
<1>2. /\ Steps[1] = Notify /\ Steps[2] = Open("postgres") /\ Steps[3] = Ping("postgres")
      /\ Steps[4] = Open("rabbitmq") /\ Steps[5] = Open("publisher") /\ Steps[6] = Go("outbox")
      /\ Steps[7] = Serve
  BY <1>1 DEF BoardRegistryMain
<1>3. \A k \in 1..7 : k = 1 \/ k = 2 \/ k = 3 \/ k = 4 \/ k = 5 \/ k = 6 \/ k = 7
  OBVIOUS
<1>4. \A k \in 1..7 : Steps[k].op = "serve" <=> k = 7
  BY <1>2, <1>3 DEF Open, Ping, Make, Go, Notify, Serve
<1>5. Steps[1].op = "notify" /\ 1 \in 1..6
  BY <1>2 DEF Notify
<1>6. \A x \in Needs : \E j \in 1..6 : Steps[j] = Open(x)
  BY <1>2 DEF Needs
<1>7. ASSUME NEW k \in 1..7, Steps[k].op = "go"
      PROVE  /\ Steps[k].of \in Routine
             /\ \A x \in Uses(Steps[k].of) : \E j \in 1..(k - 1) : Steps[j] = Open(x)
  <2>1. k = 6
    BY <1>2, <1>3, <1>7 DEF Open, Ping, Make, Go, Notify, Serve
  <2>2. CASE k = 6
    <3>1. Steps[k].of = "outbox"
      BY <1>2, <2>2 DEF Go
    <3>2. Uses("outbox") = {"postgres", "publisher", "rabbitmq"}
      BY DEF Uses
    <3>3. \A x \in Uses("outbox") : \E j \in 1..5 : Steps[j] = Open(x)
      BY <1>2, <3>2
    <3> QED
      BY <2>2, <3>1, <3>3 DEF Routine
  <2> QED
    BY <2>1, <2>2
<1>8. \A k \in 1..7 : Steps[k].op = "open" => Steps[k].of \in Connection
  BY <1>2, <1>3 DEF Connection, Open, Ping, Make, Go, Notify, Serve
<1> QED
  BY <1>1, <1>4, <1>5, <1>6, <1>7, <1>8 DEF Ordered, Unwinds

LEMMA ProjectOrdered == ASSUME service = "project" PROVE Ordered
<1>1. Steps = ProjectMain /\ Len(Steps) = 10
  BY DEF Steps, Program, ProjectMain
<1>2. /\ Steps[1] = Notify /\ Steps[2] = Open("postgres") /\ Steps[3] = Ping("postgres")
      /\ Steps[4] = Open("redis") /\ Steps[5] = Open("rabbitmq") /\ Steps[6] = Open("publisher")
      /\ Steps[7] = Go("outbox") /\ Steps[8] = Open("consumer") /\ Steps[9] = Go("consumer")
      /\ Steps[10] = Serve
  BY <1>1 DEF ProjectMain
<1>3. \A k \in 1..10 : k = 1 \/ k = 2 \/ k = 3 \/ k = 4 \/ k = 5 \/ k = 6 \/ k = 7
                       \/ k = 8 \/ k = 9 \/ k = 10
  OBVIOUS
<1>4. \A k \in 1..10 : Steps[k].op = "serve" <=> k = 10
  BY <1>2, <1>3 DEF Open, Ping, Make, Go, Notify, Serve
<1>5. Steps[1].op = "notify" /\ 1 \in 1..9
  BY <1>2 DEF Notify
<1>6. \A x \in Needs : \E j \in 1..9 : Steps[j] = Open(x)
  BY <1>2 DEF Needs
<1>7. ASSUME NEW k \in 1..10, Steps[k].op = "go"
      PROVE  /\ Steps[k].of \in Routine
             /\ \A x \in Uses(Steps[k].of) : \E j \in 1..(k - 1) : Steps[j] = Open(x)
  <2>1. k = 7 \/ k = 9
    BY <1>2, <1>3, <1>7 DEF Open, Ping, Make, Go, Notify, Serve
  <2>2. CASE k = 7
    <3>1. Steps[k].of = "outbox"
      BY <1>2, <2>2 DEF Go
    <3>2. Uses("outbox") = {"postgres", "publisher", "rabbitmq"}
      BY DEF Uses
    <3>3. \A x \in Uses("outbox") : \E j \in 1..6 : Steps[j] = Open(x)
      BY <1>2, <3>2
    <3> QED
      BY <2>2, <3>1, <3>3 DEF Routine
  <2>3. CASE k = 9
    <3>1. Steps[k].of = "consumer"
      BY <1>2, <2>3 DEF Go
    <3>2. Uses("consumer") = {"postgres", "consumer", "rabbitmq"}
      BY DEF Uses
    <3>3. \A x \in Uses("consumer") : \E j \in 1..8 : Steps[j] = Open(x)
      BY <1>2, <3>2
    <3> QED
      BY <2>3, <3>1, <3>3 DEF Routine
  <2> QED
    BY <2>1, <2>2, <2>3
<1>8. \A k \in 1..10 : Steps[k].op = "open" => Steps[k].of \in Connection
  BY <1>2, <1>3 DEF Connection, Open, Ping, Make, Go, Notify, Serve
<1> QED
  BY <1>1, <1>4, <1>5, <1>6, <1>7, <1>8 DEF Ordered, Unwinds

LEMMA TaskOrdered == ASSUME service = "task" PROVE Ordered
<1>1. Steps = TaskMain /\ Len(Steps) = 9
  BY DEF Steps, Program, TaskMain
<1>2. /\ Steps[1] = Notify /\ Steps[2] = Open("postgres") /\ Steps[3] = Ping("postgres")
      /\ Steps[4] = Open("rabbitmq") /\ Steps[5] = Open("publisher") /\ Steps[6] = Go("outbox")
      /\ Steps[7] = Open("consumer") /\ Steps[8] = Go("consumer") /\ Steps[9] = Serve
  BY <1>1 DEF TaskMain
<1>3. \A k \in 1..9 : k = 1 \/ k = 2 \/ k = 3 \/ k = 4 \/ k = 5 \/ k = 6 \/ k = 7 \/ k = 8
                       \/ k = 9
  OBVIOUS
<1>4. \A k \in 1..9 : Steps[k].op = "serve" <=> k = 9
  BY <1>2, <1>3 DEF Open, Ping, Make, Go, Notify, Serve
<1>5. Steps[1].op = "notify" /\ 1 \in 1..8
  BY <1>2 DEF Notify
<1>6. \A x \in Needs : \E j \in 1..8 : Steps[j] = Open(x)
  BY <1>2 DEF Needs
<1>7. ASSUME NEW k \in 1..9, Steps[k].op = "go"
      PROVE  /\ Steps[k].of \in Routine
             /\ \A x \in Uses(Steps[k].of) : \E j \in 1..(k - 1) : Steps[j] = Open(x)
  <2>1. k = 6 \/ k = 8
    BY <1>2, <1>3, <1>7 DEF Open, Ping, Make, Go, Notify, Serve
  <2>2. CASE k = 6
    <3>1. Steps[k].of = "outbox"
      BY <1>2, <2>2 DEF Go
    <3>2. Uses("outbox") = {"postgres", "publisher", "rabbitmq"}
      BY DEF Uses
    <3>3. \A x \in Uses("outbox") : \E j \in 1..5 : Steps[j] = Open(x)
      BY <1>2, <3>2
    <3> QED
      BY <2>2, <3>1, <3>3 DEF Routine
  <2>3. CASE k = 8
    <3>1. Steps[k].of = "consumer"
      BY <1>2, <2>3 DEF Go
    <3>2. Uses("consumer") = {"postgres", "consumer", "rabbitmq"}
      BY DEF Uses
    <3>3. \A x \in Uses("consumer") : \E j \in 1..7 : Steps[j] = Open(x)
      BY <1>2, <3>2
    <3> QED
      BY <2>3, <3>1, <3>3 DEF Routine
  <2> QED
    BY <2>1, <2>2, <2>3
<1>8. \A k \in 1..9 : Steps[k].op = "open" => Steps[k].of \in Connection
  BY <1>2, <1>3 DEF Connection, Open, Ping, Make, Go, Notify, Serve
<1> QED
  BY <1>1, <1>4, <1>5, <1>6, <1>7, <1>8 DEF Ordered, Unwinds

LEMMA DocumentOrdered == ASSUME service = "document" PROVE Ordered
<1>1. Steps = DocumentMain /\ Len(Steps) = 11
  BY DEF Steps, Program, DocumentMain
<1>2. /\ Steps[1] = Notify /\ Steps[2] = Open("postgres") /\ Steps[3] = Ping("postgres")
      /\ Steps[4] = Open("rabbitmq") /\ Steps[5] = Make("storage")
      /\ Steps[6] = Open("publisher") /\ Steps[7] = Open("consumer") /\ Steps[8] = Go("outbox")
      /\ Steps[9] = Go("consumer") /\ Steps[10] = Go("cleanup") /\ Steps[11] = Serve
  BY <1>1 DEF DocumentMain
<1>3. \A k \in 1..11 : k = 1 \/ k = 2 \/ k = 3 \/ k = 4 \/ k = 5 \/ k = 6 \/ k = 7
                       \/ k = 8 \/ k = 9 \/ k = 10 \/ k = 11
  OBVIOUS
<1>4. \A k \in 1..11 : Steps[k].op = "serve" <=> k = 11
  BY <1>2, <1>3 DEF Open, Ping, Make, Go, Notify, Serve
<1>5. Steps[1].op = "notify" /\ 1 \in 1..10
  BY <1>2 DEF Notify
<1>6. \A x \in Needs : \E j \in 1..10 : Steps[j] = Open(x)
  BY <1>2 DEF Needs
<1>7. ASSUME NEW k \in 1..11, Steps[k].op = "go"
      PROVE  /\ Steps[k].of \in Routine
             /\ \A x \in Uses(Steps[k].of) : \E j \in 1..(k - 1) : Steps[j] = Open(x)
  <2>1. k = 8 \/ k = 9 \/ k = 10
    BY <1>2, <1>3, <1>7 DEF Open, Ping, Make, Go, Notify, Serve
  <2>2. CASE k = 8
    <3>1. Steps[k].of = "outbox"
      BY <1>2, <2>2 DEF Go
    <3>2. Uses("outbox") = {"postgres", "publisher", "rabbitmq"}
      BY DEF Uses
    <3>3. \A x \in Uses("outbox") : \E j \in 1..7 : Steps[j] = Open(x)
      BY <1>2, <3>2
    <3> QED
      BY <2>2, <3>1, <3>3 DEF Routine
  <2>3. CASE k = 9
    <3>1. Steps[k].of = "consumer"
      BY <1>2, <2>3 DEF Go
    <3>2. Uses("consumer") = {"postgres", "consumer", "rabbitmq"}
      BY DEF Uses
    <3>3. \A x \in Uses("consumer") : \E j \in 1..8 : Steps[j] = Open(x)
      BY <1>2, <3>2
    <3> QED
      BY <2>3, <3>1, <3>3 DEF Routine
  <2>4. CASE k = 10
    <3>1. Steps[k].of = "cleanup"
      BY <1>2, <2>4 DEF Go
    <3>2. Uses("cleanup") = {"postgres"}
      BY DEF Uses
    <3>3. \A x \in Uses("cleanup") : \E j \in 1..9 : Steps[j] = Open(x)
      BY <1>2, <3>2
    <3> QED
      BY <2>4, <3>1, <3>3 DEF Routine
  <2> QED
    BY <2>1, <2>2, <2>3, <2>4
<1>8. \A k \in 1..11 : Steps[k].op = "open" => Steps[k].of \in Connection
  BY <1>2, <1>3 DEF Connection, Open, Ping, Make, Go, Notify, Serve
<1> QED
  BY <1>1, <1>4, <1>5, <1>6, <1>7, <1>8 DEF Ordered, Unwinds

LEMMA NotificationOrdered == ASSUME service = "notification" PROVE Ordered
<1>1. Steps = NotificationMain /\ Len(Steps) = 13
  BY DEF Steps, Program, NotificationMain
<1>2. /\ Steps[1] = Notify /\ Steps[2] = Open("postgres") /\ Steps[3] = Ping("postgres")
      /\ Steps[4] = Open("redis") /\ Steps[5] = Ping("redis") /\ Steps[6] = Open("rabbitmq")
      /\ Steps[7] = Open("publisher") /\ Steps[8] = Open("consumer") /\ Steps[9] = Go("outbox")
      /\ Steps[10] = Go("consumer") /\ Steps[11] = Go("cleanup") /\ Steps[12] = Go("backplane")
      /\ Steps[13] = Serve
  BY <1>1 DEF NotificationMain
<1>3. \A k \in 1..13 : k = 1 \/ k = 2 \/ k = 3 \/ k = 4 \/ k = 5 \/ k = 6 \/ k = 7
                       \/ k = 8 \/ k = 9 \/ k = 10 \/ k = 11 \/ k = 12 \/ k = 13
  OBVIOUS
<1>4. \A k \in 1..13 : Steps[k].op = "serve" <=> k = 13
  BY <1>2, <1>3 DEF Open, Ping, Make, Go, Notify, Serve
<1>5. Steps[1].op = "notify" /\ 1 \in 1..12
  BY <1>2 DEF Notify
<1>6. \A x \in Needs : \E j \in 1..12 : Steps[j] = Open(x)
  BY <1>2 DEF Needs
<1>7. ASSUME NEW k \in 1..13, Steps[k].op = "go"
      PROVE  /\ Steps[k].of \in Routine
             /\ \A x \in Uses(Steps[k].of) : \E j \in 1..(k - 1) : Steps[j] = Open(x)
  <2>1. k = 9 \/ k = 10 \/ k = 11 \/ k = 12
    BY <1>2, <1>3, <1>7 DEF Open, Ping, Make, Go, Notify, Serve
  <2>2. CASE k = 9
    <3>1. Steps[k].of = "outbox"
      BY <1>2, <2>2 DEF Go
    <3>2. Uses("outbox") = {"postgres", "publisher", "rabbitmq"}
      BY DEF Uses
    <3>3. \A x \in Uses("outbox") : \E j \in 1..8 : Steps[j] = Open(x)
      BY <1>2, <3>2
    <3> QED
      BY <2>2, <3>1, <3>3 DEF Routine
  <2>3. CASE k = 10
    <3>1. Steps[k].of = "consumer"
      BY <1>2, <2>3 DEF Go
    <3>2. Uses("consumer") = {"postgres", "consumer", "rabbitmq", "redis"}
      BY DEF Uses
    <3>3. \A x \in Uses("consumer") : \E j \in 1..9 : Steps[j] = Open(x)
      BY <1>2, <3>2
    <3> QED
      BY <2>3, <3>1, <3>3 DEF Routine
  <2>4. CASE k = 11
    <3>1. Steps[k].of = "cleanup"
      BY <1>2, <2>4 DEF Go
    <3>2. Uses("cleanup") = {"postgres"}
      BY DEF Uses
    <3>3. \A x \in Uses("cleanup") : \E j \in 1..10 : Steps[j] = Open(x)
      BY <1>2, <3>2
    <3> QED
      BY <2>4, <3>1, <3>3 DEF Routine
  <2>5. CASE k = 12
    <3>1. Steps[k].of = "backplane"
      BY <1>2, <2>5 DEF Go
    <3>2. Uses("backplane") = {"redis"}
      BY DEF Uses
    <3>3. \A x \in Uses("backplane") : \E j \in 1..11 : Steps[j] = Open(x)
      BY <1>2, <3>2
    <3> QED
      BY <2>5, <3>1, <3>3 DEF Routine
  <2> QED
    BY <2>1, <2>2, <2>3, <2>4, <2>5
<1>8. \A k \in 1..13 : Steps[k].op = "open" => Steps[k].of \in Connection
  BY <1>2, <1>3 DEF Connection, Open, Ping, Make, Go, Notify, Serve
<1> QED
  BY <1>1, <1>4, <1>5, <1>6, <1>7, <1>8 DEF Ordered, Unwinds

LEMMA PluginOrdered == ASSUME service = "plugin" PROVE Ordered
<1>1. Steps = PluginMain /\ Len(Steps) = 9
  BY DEF Steps, Program, PluginMain
<1>2. /\ Steps[1] = Notify /\ Steps[2] = Open("postgres") /\ Steps[3] = Open("rabbitmq")
      /\ Steps[4] = Open("publisher") /\ Steps[5] = Open("consumer")
      /\ Steps[6] = Go("consumer") /\ Steps[7] = Go("outbox") /\ Steps[8] = Go("delivery")
      /\ Steps[9] = Serve
  BY <1>1 DEF PluginMain
<1>3. \A k \in 1..9 : k = 1 \/ k = 2 \/ k = 3 \/ k = 4 \/ k = 5 \/ k = 6 \/ k = 7 \/ k = 8
                       \/ k = 9
  OBVIOUS
<1>4. \A k \in 1..9 : Steps[k].op = "serve" <=> k = 9
  BY <1>2, <1>3 DEF Open, Ping, Make, Go, Notify, Serve
<1>5. Steps[1].op = "notify" /\ 1 \in 1..8
  BY <1>2 DEF Notify
<1>6. \A x \in Needs : \E j \in 1..8 : Steps[j] = Open(x)
  BY <1>2 DEF Needs
<1>7. ASSUME NEW k \in 1..9, Steps[k].op = "go"
      PROVE  /\ Steps[k].of \in Routine
             /\ \A x \in Uses(Steps[k].of) : \E j \in 1..(k - 1) : Steps[j] = Open(x)
  <2>1. k = 6 \/ k = 7 \/ k = 8
    BY <1>2, <1>3, <1>7 DEF Open, Ping, Make, Go, Notify, Serve
  <2>2. CASE k = 6
    <3>1. Steps[k].of = "consumer"
      BY <1>2, <2>2 DEF Go
    <3>2. Uses("consumer") = {"postgres", "consumer", "rabbitmq"}
      BY DEF Uses
    <3>3. \A x \in Uses("consumer") : \E j \in 1..5 : Steps[j] = Open(x)
      BY <1>2, <3>2
    <3> QED
      BY <2>2, <3>1, <3>3 DEF Routine
  <2>3. CASE k = 7
    <3>1. Steps[k].of = "outbox"
      BY <1>2, <2>3 DEF Go
    <3>2. Uses("outbox") = {"postgres", "publisher", "rabbitmq"}
      BY DEF Uses
    <3>3. \A x \in Uses("outbox") : \E j \in 1..6 : Steps[j] = Open(x)
      BY <1>2, <3>2
    <3> QED
      BY <2>3, <3>1, <3>3 DEF Routine
  <2>4. CASE k = 8
    <3>1. Steps[k].of = "delivery"
      BY <1>2, <2>4 DEF Go
    <3>2. Uses("delivery") = {"postgres"}
      BY DEF Uses
    <3>3. \A x \in Uses("delivery") : \E j \in 1..7 : Steps[j] = Open(x)
      BY <1>2, <3>2
    <3> QED
      BY <2>4, <3>1, <3>3 DEF Routine
  <2> QED
    BY <2>1, <2>2, <2>3, <2>4
<1>8. \A k \in 1..9 : Steps[k].op = "open" => Steps[k].of \in Connection
  BY <1>2, <1>3 DEF Connection, Open, Ping, Make, Go, Notify, Serve
<1> QED
  BY <1>1, <1>4, <1>5, <1>6, <1>7, <1>8 DEF Ordered, Unwinds

LEMMA EachOrdered == ASSUME service \in DOMAIN Program PROVE Ordered
<1>1. DOMAIN Program = {"auth", "boardregistry", "project", "task", "document", "notification", "plugin"}
  BY DEF Program
<1> QED
  BY <1>1, AuthOrdered, BoardRegistryOrdered, ProjectOrdered, TaskOrdered, DocumentOrdered,
     NotificationOrdered, PluginOrdered

-----------------------------------------------------------------------------
(* ServiceProcess: what main has done is what it stands behind.            *)

Working == {"starting", "waiting", "draining"}
Past == 1..(main - 1)
Starts(k, g) == Steps[k].op = "go" /\ Steps[k].of = g

ProcessTypes ==
  /\ service \in DOMAIN Program /\ main \in Nat \ {0}
  /\ phase \in Working \cup {"closing", "ended"}
  /\ listening \in {"no", "soon", "yes", "never"}
  /\ handled \in BOOLEAN /\ cancelled \in BOOLEAN /\ gaveUp \in BOOLEAN
  /\ routine \in [Routine -> {"none", "idle", "busy", "returned"}]
  /\ visit \in [Visitor -> {"absent", "running", "querying", "answered", "failed", "cut"}]

(* While it works, what its statements have opened is open. *)
Stands ==
  /\ phase = "starting" => main \in 1..Len(Steps)
  /\ phase \in {"waiting", "draining"} => main = Len(Steps) + 1
  /\ phase \in Working =>
       /\ opened \in Seq(Connection)
       /\ \A k \in Past : /\ Steps[k].op = "open" => IsOpen({Steps[k].of})
                          /\ Steps[k].op = "notify" => handled
  /\ phase = "draining" => cancelled
  /\ listening \in {"soon", "yes"} => phase = "waiting"

Served(v) ==
  /\ visit[v] \in {"running", "querying"} => phase \in {"waiting", "draining"} \/ gaveUp
  /\ visit[v] \in {"failed", "cut"} => gaveUp
Runs(g) ==
  routine[g] \in {"idle", "busy"} /\ ~cancelled =>
    phase \in {"starting", "waiting"} /\ \E k \in Past : Starts(k, g)

ProcessInv ==
  /\ ProcessTypes /\ Stands
  /\ \A v \in Visitor : Served(v)
  /\ \A g \in Routine : Runs(g)

LEMMA ProcessBegins == ASSUME NEW s \in DOMAIN Program, ProcessInit(s) PROVE ProcessInv
<1>1. service \in DOMAIN Program /\ Ordered
  BY EachOrdered DEF ProcessInit
<1>2. main = 1 /\ Past = {} /\ Len(Steps) \in Nat \ {0}
  BY <1>1 DEF ProcessInit, Past, Ordered
<1>3. <<>> \in Seq(Connection)
  OBVIOUS
<1>4. ProcessTypes
  <2>1. routine \in [Routine -> {"none", "idle", "busy", "returned"}]
    BY DEF ProcessInit
  <2>2. visit \in [Visitor -> {"absent", "running", "querying", "answered", "failed", "cut"}]
    BY DEF ProcessInit
  <2>3. handled \in BOOLEAN /\ cancelled \in BOOLEAN /\ gaveUp \in BOOLEAN
    BY DEF ProcessInit
  <2>4. main \in Nat \ {0} /\ phase = "starting" /\ listening = "no"
    BY DEF ProcessInit
  <2> QED
    BY <1>1, <2>1, <2>2, <2>3, <2>4 DEF ProcessTypes, Working
<1>5. Stands
  BY <1>2, <1>3 DEF ProcessInit, Stands, Working
<1> QED
  BY <1>4, <1>5 DEF ProcessInit, ProcessInv, Served, Runs

(* The requests stay what they are while the process stays where it is, or *)
(* goes where they are served as well.                                     *)
LEMMA ExitEnds ==
  ASSUME ProcessInv, Exit, UNCHANGED <<service, main, handled, gaveUp>>, cancelled' \in BOOLEAN,
         phase \notin {"waiting", "draining"}
  PROVE  ProcessInv'
<1>1. ProcessTypes /\ phase' = "ended" /\ listening' = "never"
  BY DEF ProcessInv, Exit
<1>2. ProcessTypes'
  <2>1. routine' \in [Routine -> {"none", "idle", "busy", "returned"}]
    BY DEF Exit
  <2>2. visit' \in [Visitor -> {"absent", "running", "querying", "answered", "failed", "cut"}]
    BY <1>1 DEF Exit, ProcessTypes
  <2> QED
    BY <1>1, <2>1, <2>2 DEF ProcessTypes
<1>3. Stands'
  BY <1>1 DEF Stands, Working
<1>4. ASSUME NEW v \in Visitor PROVE Served(v)'
  <2>1. Served(v)
    BY DEF ProcessInv
  <2>2. visit'[v] = IF visit[v] \in {"running", "querying"} THEN "cut" ELSE visit[v]
    BY DEF Exit, Active
  <2> QED
    BY <2>1, <2>2 DEF Served
<1>5. ASSUME NEW g \in Routine PROVE Runs(g)'
  <2>1. routine'[g] \in {"none", "returned"}
    BY DEF Exit
  <2> QED
    BY <2>1 DEF Runs
<1> QED
  BY <1>2, <1>3, <1>4, <1>5 DEF ProcessInv

LEMMA StartStepKeeps == ASSUME ProcessInv, StartStep PROVE ProcessInv'
<1>1. ProcessTypes /\ Stands /\ Ordered /\ phase = "starting"
  BY EachOrdered DEF ProcessInv, ProcessTypes, StartStep
<1>2. PICK st : st = Steps[main]
  OBVIOUS
<1>3. /\ main' = main + 1
      /\ opened' = IF st.op = "open" THEN Append(opened, st.of) ELSE opened
      /\ handled' = (handled \/ st.op = "notify")
      /\ listening' = IF st.op = "serve" THEN "soon" ELSE listening
      /\ phase' = IF st.op = "serve" THEN "waiting" ELSE phase
      /\ routine' = IF st.op = "go" THEN [routine EXCEPT ![st.of] = "idle"] ELSE routine
      /\ UNCHANGED <<service, gaveUp, cancelled, visit>>
  BY <1>2 DEF StartStep, Statement, Steps, KeepProcess
<1>4. PICK last : last = Len(Steps)
  OBVIOUS
<1>5. main \in 1..last /\ last \in Nat /\ main \in Nat /\ UNCHANGED Steps
  BY <1>1, <1>3, <1>4 DEF Stands, Ordered, Steps
<1>6. /\ st.op = "serve" <=> main = last
      /\ st.op = "open" => st.of \in Connection
      /\ st.op = "go" => st.of \in Routine
  BY <1>1, <1>2, <1>4, <1>5 DEF Ordered
<1>7. Past' = Past \cup {main} /\ main \notin Past
  BY <1>3, <1>5 DEF Past
<1>8. /\ opened' \in Seq(Connection)
      /\ ToSet(opened) \subseteq ToSet(opened')
      /\ st.op = "open" => st.of \in ToSet(opened')
  <2>1. opened \in Seq(Connection)
    BY <1>1 DEF Stands, Working
  <2>2. CASE st.op = "open"
    <3>1. opened' = Append(opened, st.of) /\ st.of \in Connection
      BY <1>3, <1>6, <2>2
    <3>2. opened' \in Seq(Connection) /\ Len(opened') = Len(opened) + 1
      BY <2>1, <3>1
    <3>3. opened'[Len(opened) + 1] = st.of /\ \A i \in 1..Len(opened) : opened'[i] = opened[i]
      BY <2>1, <3>1
    <3>4. DOMAIN opened = 1..Len(opened) /\ DOMAIN opened' = 1..(Len(opened) + 1)
          /\ Len(opened) \in Nat
      BY <2>1, <3>2
    <3> QED
      BY <3>2, <3>3, <3>4 DEF ToSet
  <2>3. CASE st.op # "open"
    BY <1>3, <2>1, <2>3
  <2> QED
    BY <2>2, <2>3
<1>9. \A k \in Past' : /\ Steps[k].op = "open" => Steps[k].of \in ToSet(opened')
                       /\ Steps[k].op = "notify" => handled'
  <2> TAKE k \in Past'
  <2>1. CASE k = main
    BY <1>2, <1>3, <1>8, <2>1
  <2>2. CASE k \in Past
    <3>1. /\ Steps[k].op = "open" => Steps[k].of \in ToSet(opened)
          /\ Steps[k].op = "notify" => handled
      BY <1>1, <2>2 DEF Stands, Working, IsOpen
    <3> QED
      BY <1>3, <1>8, <3>1
  <2> QED
    BY <1>7, <2>1, <2>2
<1>10. Stands'
  <2>1. phase' \in {"starting", "waiting"} /\ (phase' = "waiting" <=> main = last)
    BY <1>1, <1>3, <1>6
  <2>2. listening' \in {"soon", "yes"} => phase' = "waiting"
    BY <1>1, <1>3 DEF Stands
  <2>3. /\ phase' = "starting" => main' \in 1..last
        /\ phase' \in {"waiting", "draining"} => main' = last + 1
    BY <1>3, <1>5, <2>1
  <2> QED
    BY <1>4, <1>5, <1>8, <1>9, <2>1, <2>2, <2>3 DEF Stands, Working, IsOpen
<1>11. ProcessTypes'
  <2>1. routine' \in [Routine -> {"none", "idle", "busy", "returned"}]
    BY <1>1, <1>3, <1>6 DEF ProcessTypes
  <2>2. handled' \in BOOLEAN
    BY <1>1, <1>3 DEF ProcessTypes
  <2> QED
    BY <1>1, <1>3, <1>5, <2>1, <2>2 DEF ProcessTypes, Working
<1>12. ASSUME NEW v \in Visitor PROVE Served(v)'
  BY <1>1, <1>3 DEF ProcessInv, Served
<1>13. ASSUME NEW g \in Routine PROVE Runs(g)'
  <2> SUFFICES ASSUME routine'[g] \in {"idle", "busy"}, ~cancelled'
               PROVE  phase' \in {"starting", "waiting"} /\ \E k \in Past' : Starts(k, g)
    BY <1>5 DEF Runs, Starts
  <2>1. phase' \in {"starting", "waiting"}
    BY <1>1, <1>3
  <2>2. CASE st.op = "go" /\ g = st.of
    <3>1. Starts(main, g)
      BY <1>2, <2>2 DEF Starts
    <3> QED
      BY <1>7, <2>1, <3>1
  <2>3. CASE ~(st.op = "go" /\ g = st.of)
    <3>1. routine'[g] = routine[g]
      BY <1>1, <1>3, <1>6, <2>3 DEF ProcessTypes
    <3>2. \E k \in Past : Starts(k, g)
      BY <1>3, <3>1 DEF ProcessInv, Runs
    <3> QED
      BY <1>7, <2>1, <3>2
  <2> QED
    BY <2>2, <2>3
<1> QED
  BY <1>10, <1>11, <1>12, <1>13 DEF ProcessInv

LEMMA StartFailsKeeps == ASSUME ProcessInv, StartFails PROVE ProcessInv'
<1>1. ProcessTypes /\ Stands /\ Ordered /\ phase = "starting"
  BY EachOrdered DEF ProcessInv, ProcessTypes, StartFails
<1>2. UNCHANGED <<service, main, handled, cancelled, gaveUp>>
  BY DEF StartFails, KeepProcess
<1>3. CASE ~Unwinds(service)
  BY <1>1, <1>2, <1>3, ExitEnds DEF StartFails, ProcessTypes
<1>4. CASE Unwinds(service)
  <2>1. phase' = "closing" /\ UNCHANGED <<listening, opened, routine, visit>>
    BY <1>4 DEF StartFails
  <2>2. ASSUME NEW k \in Past PROVE Steps[k].op # "go"
    <3>1. /\ main \in 1..Len(Steps) /\ k \in 1..Len(Steps) /\ k < main
      BY <1>1, <2>2 DEF Stands, Past, Ordered
    <3>2. Steps[main].op \in {"open", "ping", "make"}
      BY DEF StartFails, Statement, Steps
    <3> QED
      BY <1>1, <1>4, <3>1, <3>2 DEF Ordered
  <2>3. ProcessTypes'
    BY <1>1, <1>2, <2>1 DEF ProcessTypes
  <2>4. Stands'
    BY <1>1, <2>1 DEF Stands, Working
  <2>5. \A v \in Visitor : Served(v)'
    BY <1>1, <1>2, <2>1 DEF ProcessInv, Served
  <2>6. \A g \in Routine : Runs(g)'
    BY <1>2, <2>1, <2>2 DEF ProcessInv, Runs, Starts
  <2> QED
    BY <2>3, <2>4, <2>5, <2>6 DEF ProcessInv
<1> QED
  BY <1>3, <1>4

(* While main stands where it is, a signal and the server change little. *)
LEMMA SignalKeeps ==
  ASSUME ProcessInv, UNCHANGED <<service, main, phase, opened, handled, routine, visit, gaveUp>>,
         cancelled' \in BOOLEAN, cancelled => cancelled',
         listening' \in {"no", "soon", "yes", "never"},
         listening' \in {"soon", "yes"} => phase = "waiting"
  PROVE  ProcessInv'
<1>1. ProcessTypes /\ Stands /\ UNCHANGED Past /\ UNCHANGED Steps
  BY DEF ProcessInv, Past, Steps
<1>2. ProcessTypes'
  BY <1>1 DEF ProcessTypes
<1>3. Stands'
  <2>1. \A X : IsOpen(X)' <=> IsOpen(X)
    BY DEF IsOpen
  <2> QED
    BY <1>1, <2>1 DEF Stands
<1>4. \A v \in Visitor : Served(v)'
  BY DEF ProcessInv, Served
<1>5. \A g \in Routine : Runs(g)'
  BY <1>1, <1>2 DEF ProcessInv, ProcessTypes, Runs, Starts
<1> QED
  BY <1>2, <1>3, <1>4, <1>5 DEF ProcessInv

(* Main closes: it stands behind nothing any more. *)
LEMMA ClosingKeeps ==
  ASSUME ProcessInv, phase' = "closing", UNCHANGED <<service, main, handled, cancelled, routine, visit>>,
         listening' \in {"no", "never"}, gaveUp' \in BOOLEAN, gaveUp => gaveUp',
         Active # {} => gaveUp',
         phase = "closing" \/ cancelled
  PROVE  ProcessInv'
<1>1. ProcessTypes /\ Stands
  BY DEF ProcessInv
<1>2. ProcessTypes'
  BY <1>1 DEF ProcessTypes
<1>3. Stands'
  BY <1>1 DEF Stands, Working
<1>4. ASSUME NEW v \in Visitor PROVE Served(v)'
  BY DEF ProcessInv, Served, Active
<1>5. ASSUME NEW g \in Routine PROVE Runs(g)'
  BY DEF ProcessInv, Runs
<1> QED
  BY <1>2, <1>3, <1>4, <1>5 DEF ProcessInv

LEMMA ShutdownKeeps == ASSUME ProcessInv, Shutdown PROVE ProcessInv'
<1>1. /\ phase = "waiting" /\ cancelled /\ phase' = "draining" /\ listening' = "never"
      /\ UNCHANGED <<service, main, opened, handled, cancelled, routine, visit, gaveUp>>
  BY DEF Shutdown, OnlyMain, KeepProcess
<1>2. ProcessTypes /\ Stands /\ UNCHANGED Past /\ UNCHANGED Steps
  BY <1>1 DEF ProcessInv, Past, Steps
<1>3. ProcessTypes'
  BY <1>1, <1>2 DEF ProcessTypes, Working
<1>4. Stands'
  <2>1. \A X : IsOpen(X)' <=> IsOpen(X)
    BY <1>1 DEF IsOpen
  <2> QED
    BY <1>1, <1>2, <2>1 DEF Stands, Working
<1>5. \A v \in Visitor : Served(v)'
  BY <1>1 DEF ProcessInv, Served
<1>6. \A g \in Routine : Runs(g)'
  BY <1>1 DEF Runs
<1> QED
  BY <1>3, <1>4, <1>5, <1>6 DEF ProcessInv

LEMMA MainKeeps ==
  ASSUME ProcessInv,
         Signal \/ Listen \/ ListenFails \/ Shutdown \/ Drained \/ DrainTimeout \/ CloseLast
           \/ MainReturns
  PROVE  ProcessInv'
<1>1. /\ ProcessTypes /\ Stands /\ cancelled \in BOOLEAN
      /\ listening \in {"no", "soon", "yes", "never"}
      /\ phase \in {"starting", "waiting", "draining", "closing", "ended"}
  BY DEF ProcessInv, ProcessTypes, Working
<1>2. CASE Signal
  <2>1. CASE handled
    BY <1>1, <1>2, <2>1, SignalKeeps DEF Signal, KeepProcess, Stands
  <2>2. CASE ~handled
    <3>1. phase \notin {"waiting", "draining"}
      <4>1. ASSUME phase \in {"waiting", "draining"} PROVE FALSE
        <5>1. Ordered /\ main = Len(Steps) + 1
          BY <1>1, <4>1, EachOrdered DEF Stands, ProcessTypes
        <5>2. PICK k \in 1..(Len(Steps) - 1) : Steps[k].op = "notify"
          BY <5>1 DEF Ordered
        <5>3. k \in Past
          BY <5>1, <5>2 DEF Past, Ordered
        <5> QED
          BY <1>1, <2>2, <4>1, <5>2, <5>3 DEF Stands, Working
      <4> QED
        BY <4>1
    <3> QED
      BY <1>1, <1>2, <2>2, <3>1, ExitEnds DEF Signal, KeepProcess
  <2> QED
    BY <2>1, <2>2
<1>3. CASE Listen
  <2>1. phase = "waiting" /\ listening' = "yes"
    BY <1>1, <1>3 DEF Listen, Stands
  <2> QED
    BY <1>1, <1>3, <2>1, SignalKeeps DEF Listen, OnlyMain, KeepProcess
<1>4. CASE ListenFails
  <2>1. listening' = "never" /\ cancelled' \in BOOLEAN /\ (cancelled => cancelled')
    BY <1>1, <1>4 DEF ListenFails
  <2> QED
    BY <1>4, <2>1, SignalKeeps DEF ListenFails, OnlyMain, KeepProcess
<1>5. CASE Shutdown
  BY <1>5, ShutdownKeeps
<1>6. CASE Drained
  <2>1. listening \in {"no", "never"} /\ cancelled /\ Active = {}
    BY <1>1, <1>6 DEF Drained, Stands
  <2>2. gaveUp \in BOOLEAN
    BY <1>1 DEF ProcessTypes
  <2> QED
    BY <1>6, <2>1, <2>2, ClosingKeeps DEF Drained, OnlyMain, KeepProcess
<1>7. CASE DrainTimeout
  <2>1. listening \in {"no", "never"} /\ cancelled
    BY <1>1, <1>7 DEF DrainTimeout, Stands
  <2> QED
    BY <1>7, <2>1, ClosingKeeps DEF DrainTimeout
<1>8. CASE CloseLast
  <2>1. listening \in {"no", "never"} /\ phase = "closing" /\ gaveUp \in BOOLEAN
    BY <1>1, <1>8 DEF CloseLast, Stands, ProcessTypes
  <2>2. Active # {} => gaveUp
    BY <2>1 DEF Active, ProcessInv, Served
  <2> QED
    BY <1>8, <2>1, <2>2, ClosingKeeps DEF CloseLast, OnlyMain, KeepProcess
<1>9. CASE MainReturns
  BY <1>1, <1>9, ExitEnds DEF MainReturns, KeepProcess
<1> QED
  BY <1>2, <1>3, <1>4, <1>5, <1>6, <1>7, <1>8, <1>9

LEMMA RoutineKeeps ==
  ASSUME ProcessInv, OnlyRoutine, NEW g \in Routine, NEW r \in {"idle", "busy", "returned"},
         routine' = [routine EXCEPT ![g] = r],
         r # "returned" => routine[g] \in {"idle", "busy"}
  PROVE  ProcessInv'
<1>1. ProcessTypes /\ Stands /\ UNCHANGED Past /\ UNCHANGED Steps
  BY DEF ProcessInv, OnlyRoutine, KeepProcess, Past, Steps
<1>2. ProcessTypes'
  <2>1. routine' \in [Routine -> {"none", "idle", "busy", "returned"}]
    BY <1>1 DEF ProcessTypes
  <2> QED
    BY <1>1, <2>1 DEF ProcessTypes, OnlyRoutine, KeepProcess
<1>3. Stands'
  <2>1. \A X : IsOpen(X)' <=> IsOpen(X)
    BY DEF IsOpen, OnlyRoutine
  <2> QED
    BY <1>1, <2>1 DEF Stands, OnlyRoutine, KeepProcess
<1>4. \A v \in Visitor : Served(v)'
  BY DEF ProcessInv, Served, OnlyRoutine, KeepProcess
<1>5. ASSUME NEW h \in Routine PROVE Runs(h)'
  <2>1. Runs(h) /\ routine'[h] = IF h = g THEN r ELSE routine[h]
    BY <1>1 DEF ProcessInv, ProcessTypes
  <2> QED
    BY <1>1, <2>1 DEF Runs, Starts, OnlyRoutine
<1> QED
  BY <1>2, <1>3, <1>4, <1>5 DEF ProcessInv

LEMMA VisitKeeps ==
  ASSUME ProcessInv, NEW v \in Visitor, NEW from,
         NEW to \in {"running", "querying", "answered", "failed"}, Visits(v, from, to),
         to \in {"running", "querying"} => phase \in {"waiting", "draining"} \/ gaveUp,
         to = "failed" => gaveUp
  PROVE  ProcessInv'
<1>0. UNCHANGED <<service, gaveUp, main, phase, opened, handled, cancelled, listening, routine>>
  BY DEF Visits, KeepProcess
<1>1. ProcessTypes /\ Stands /\ UNCHANGED Past /\ UNCHANGED Steps
  BY <1>0 DEF ProcessInv, Past, Steps
<1>2. ProcessTypes'
  <2>1. visit' \in [Visitor -> {"absent", "running", "querying", "answered", "failed", "cut"}]
    BY <1>1 DEF ProcessTypes, Visits
  <2> QED
    BY <1>0, <1>1, <2>1 DEF ProcessTypes
<1>3. Stands'
  <2>1. \A X : IsOpen(X)' <=> IsOpen(X)
    BY <1>0 DEF IsOpen
  <2> QED
    BY <1>0, <1>1, <2>1 DEF Stands
<1>4. ASSUME NEW w \in Visitor PROVE Served(w)'
  <2>1. Served(w) /\ visit'[w] = IF w = v THEN to ELSE visit[w]
    BY <1>1 DEF ProcessInv, ProcessTypes, Visits
  <2> QED
    BY <1>0, <2>1 DEF Served
<1>5. \A g \in Routine : Runs(g)'
  BY <1>0, <1>1 DEF ProcessInv, Runs, Starts
<1> QED
  BY <1>2, <1>3, <1>4, <1>5 DEF ProcessInv

(* What the requests need is open where they are served. *)
LEMMA NeedsAreOpen == ASSUME ProcessInv, phase \in {"waiting", "draining"} PROVE IsOpen(Needs)
<1>1. Stands /\ Ordered /\ main = Len(Steps) + 1
  BY EachOrdered DEF ProcessInv, ProcessTypes, Stands
<1> SUFFICES ASSUME NEW x \in Needs PROVE x \in ToSet(opened)
  BY DEF IsOpen
<1>2. PICK j \in 1..(Len(Steps) - 1) : Steps[j] = Open(x)
  BY <1>1 DEF Ordered
<1>3. j \in Past
  BY <1>1, <1>2 DEF Past, Ordered
<1> QED
  BY <1>1, <1>2, <1>3 DEF Stands, Working, IsOpen, Open

LEMMA ProcessStays == ASSUME ProcessInv, [ProcessNext]_processVars PROVE ProcessInv'
<1>1. ASSUME NEW g \in Routine, Wake(g) \/ Rest(g) \/ RoutineReturns(g) PROVE ProcessInv'
  BY <1>1, RoutineKeeps DEF Wake, Rest, RoutineReturns
<1>2. ASSUME NEW v \in Visitor, Arrive(v) PROVE ProcessInv'
  <2>1. phase = "waiting"
    BY <1>2 DEF Arrive, ProcessInv, Stands
  <2> QED
    BY <1>2, <2>1, VisitKeeps DEF Arrive
<1>3. ASSUME NEW v \in Visitor, Query(v) PROVE ProcessInv'
  <2>1. phase \in {"waiting", "draining"} \/ gaveUp
    BY <1>3 DEF Query, Visits, ProcessInv, Served
  <2> QED
    BY <1>3, <2>1, VisitKeeps DEF Query
<1>4. ASSUME NEW v \in Visitor, QueryFails(v) PROVE ProcessInv'
  <2>1. phase \in {"waiting", "draining"} \/ gaveUp
    BY <1>4 DEF QueryFails, Visits, ProcessInv, Served
  <2>2. gaveUp
    BY <1>4, <2>1, NeedsAreOpen DEF QueryFails
  <2> QED
    BY <1>4, <2>2, VisitKeeps DEF QueryFails
<1>5. ASSUME NEW v \in Visitor, Answer(v) PROVE ProcessInv'
  BY <1>5, VisitKeeps DEF Answer
<1>6. CASE UNCHANGED processVars
  <2>1. \A X : IsOpen(X)' <=> IsOpen(X)
    BY <1>6 DEF IsOpen, processVars
  <2>2. ProcessTypes' /\ UNCHANGED Past /\ UNCHANGED Steps
    BY <1>6 DEF ProcessInv, ProcessTypes, processVars, Past, Steps
  <2>3. Stands'
    BY <1>6, <2>1, <2>2 DEF ProcessInv, Stands, processVars
  <2>4. (\A v \in Visitor : Served(v)') /\ \A g \in Routine : Runs(g)'
    BY <1>6, <2>2 DEF ProcessInv, Served, Runs, Starts, processVars
  <2> QED
    BY <2>2, <2>3, <2>4 DEF ProcessInv
<1> QED
  BY <1>1, <1>2, <1>3, <1>4, <1>5, <1>6, StartStepKeeps, StartFailsKeeps, MainKeeps
  DEF ProcessNext

(* A goroutine at work finds open what it uses. *)
LEMMA UsesAreOpen ==
  ASSUME ProcessInv, NEW g \in Routine, routine[g] = "busy", ~cancelled
  PROVE  IsOpen(Uses(g))
<1>1. Stands /\ Ordered /\ Runs(g)
  BY EachOrdered DEF ProcessInv, ProcessTypes
<1>2. PICK k \in Past : Starts(k, g)
  BY <1>1 DEF Runs
<1>3. phase \in {"starting", "waiting"}
  BY <1>1 DEF Runs
<1>4. k \in 1..Len(Steps) /\ main - 1 \in Nat /\ main - 1 <= Len(Steps)
  BY <1>1, <1>2, <1>3 DEF Stands, Past, Ordered
<1> SUFFICES ASSUME NEW x \in Uses(g) PROVE x \in ToSet(opened)
  BY DEF IsOpen
<1>5. PICK j \in 1..(k - 1) : Steps[j] = Open(x)
  BY <1>1, <1>2, <1>4 DEF Ordered, Starts
<1>6. j \in Past
  BY <1>2, <1>4, <1>5 DEF Past
<1> QED
  BY <1>1, <1>3, <1>5, <1>6 DEF Stands, Working, IsOpen, Open

(* A request that was accepted is answered, unless the server gives up     *)
(* waiting for it, and a goroutine at work finds open what it uses: in     *)
(* every one of the seven mains, whichever step fails.                     *)
THEOREM EverythingIsClosedLast == MCSpec => []ClosedLast
<1>1. MCInit => ProcessInv
  <2>1. "auth" \in DOMAIN Program
    BY DEF Program
  <2> QED
    BY <2>1, ProcessBegins DEF MCInit
<1>2. ProcessInv /\ [MCNext]_<<vars, limitVars, gateVars, chainVars, processVars>> => ProcessInv'
  BY ProcessStays DEF MCNext
<1>3. ProcessInv => ClosedLast
  BY UsesAreOpen DEF ProcessInv, Served, ClosedLast
<1> QED
  BY <1>1, <1>2, <1>3, PTL DEF MCSpec
=============================================================================
