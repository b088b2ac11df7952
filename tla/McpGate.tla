--------------------------------- MODULE McpGate ---------------------------------
(***************************************************************************)
(* Who may use the MCP server over HTTP (requireAuth and tokenCache of     *)
(* mcp-server/cmd/mcp-server/main.go): the holder of a session token that  *)
(* the auth service accepted, for a while without asking again.  Personal  *)
(* tokens pass: the services are asked about them.                         *)
(*                                                                         *)
(* Time is counted in ticks.  A lookup and a store hold the lock, the call *)
(* between them does not.                                                  *)
(***************************************************************************)
EXTENDS Naturals, FiniteSets

CONSTANTS
  Bearer,       \* session tokens
  Use,          \* requests in progress at once
  MaxValid,     \* the entries the cache may have before it is cleared
  GateTTL,      \* of an entry
  MaxCall,      \* the ticks a call takes at most
  LastTick      \* bound: the ticks of a behaviour

ASSUME GateAssumption == {MaxValid, GateTTL, MaxCall, LastTick} \subseteq Nat

NotUsed == [at |-> "idle", token |-> "none", begun |-> 0]

VARIABLES
  clock,
  lives,        \* of each token, the tick from which it is expired
  valid,        \* the cache: of the tokens in it, the last tick of the entry
  use           \* of each request: where it is, its token, when its call began

gateVars == <<clock, lives, valid, use>>

(* Tokens are issued for one of the given times. *)
GateInit(times) ==
  /\ clock = 0 /\ lives \in [Bearer -> times]
  /\ valid = << >>
  /\ use = [q \in Use |-> NotUsed]

Calls(q, t) == use' = [use EXCEPT ![q] = [at |-> "asking", token |-> t, begun |-> clock]]
RequestEnds(q) == use' = [use EXCEPT ![q] = NotUsed]

(* A request whose token the cache holds is let in, which changes nothing. *)
Get(q, t) ==
  /\ use[q].at = "idle"
  /\ t \in DOMAIN valid => clock > valid[t]
  /\ valid' = [s \in DOMAIN valid \ {t} |-> valid[s]]
  /\ Calls(q, t)
  /\ UNCHANGED <<clock, lives>>

(* The answer of the auth service, or none: the client is challenged. *)
ValidateToken(q) ==
  /\ use[q].at = "asking"
  /\ \/ RequestEnds(q)
     \/ clock < lives[use[q].token] /\ use' = [use EXCEPT ![q].at = "answered"]
  /\ UNCHANGED <<clock, lives, valid>>

ReplyLost(q) ==
  /\ use[q].at = "answered"
  /\ RequestEnds(q)
  /\ UNCHANGED <<clock, lives, valid>>

PutWithoutBound(q) ==                \* mutant: the cache only grows
  /\ use[q].at = "answered"
  /\ valid' = [t \in DOMAIN valid \cup {use[q].token} |->
                 IF t = use[q].token THEN clock + GateTTL ELSE valid[t]]
  /\ RequestEnds(q)
  /\ UNCHANGED <<clock, lives>>

(* It holds one entry more than it may before it is cleared. *)
Put(q) ==
  /\ use[q].at = "answered"
  /\ LET kept == IF Cardinality(DOMAIN valid) > MaxValid THEN {} ELSE DOMAIN valid
         new == use[q].token
     IN valid' = [t \in kept \cup {new} |-> IF t = new THEN clock + GateTTL ELSE valid[t]]
  /\ RequestEnds(q)
  /\ UNCHANGED <<clock, lives>>

GateTick ==
  /\ clock < LastTick
  /\ \A q \in Use : use[q].at # "idle" => clock < use[q].begun + MaxCall
  /\ clock' = clock + 1
  /\ UNCHANGED <<lives, valid, use>>

GateNext ==
  \/ \E q \in Use : \/ \E t \in Bearer : Get(q, t)
                    \/ ValidateToken(q) \/ ReplyLost(q) \/ Put(q)
  \/ GateTick

-----------------------------------------------------------------------------
(* An expired token is let in no longer than a call and an entry last,     *)
(* and the cache never holds more than one token too many.                 *)
GateCloses ==
  /\ \A t \in DOMAIN valid : valid[t] < lives[t] + MaxCall + GateTTL
  /\ Cardinality(DOMAIN valid) <= MaxValid + 1
=============================================================================
