------------------------------ MODULE MCServices ------------------------------
(* Model checking of what every service relies on: AuthSessions, with the  *)
(* verification of its tokens, LoginLimit, McpGate, PermissionChain and    *)
(* ServiceProcess, none of which shares state with another.  A behaviour   *)
(* follows one scenario; replicas, tokens and requests are exchangeable.   *)
EXTENDS AuthSessions, LoginLimit, McpGate, PermissionChain, ServiceProcess

NoClients == [c \in Client |-> {}]
OneClient == [c \in Client |-> {"https"}]

Scenario(ops, clients, most, atOnce, cut) ==
  [ops |-> ops, clients |-> clients, calls |-> most, atOnce |-> atOnce, faults |-> cut]

Refreshing == Scenario({"login", "refresh", "logout", "expiry"}, NoClients, 5, 2, 1)
Resetting == Scenario({"login", "refresh", "reset", "confirm"}, NoClients, 5, 2, 1)
Authorizing == Scenario({"authorize", "exchange", "reset", "confirm", "expiry"}, OneClient, 5, 2, 0)
Registering == Scenario({"register", "authorize", "exchange", "expiry"}, NoClients, 4, 2, 0)
Verifying == Scenario({"login", "jwt"}, NoClients, 3, 1, 0)
Introspecting == Scenario({"pat"}, NoClients, 0, 0, 0)

(* Those of the other components *)
Other(component) == Scenario({component}, NoClients, 0, 0, 0)
Limiting == Other("limit")
Admitting == Other("gate")
Permitting == Other("permission")
Running == Other("process")
Others == {Limiting, Admitting, Permitting, Running}

MCScenarios ==
  {Refreshing, Resetting, Authorizing, Registering, Verifying, Introspecting} \cup Others

(* While its scenario is another one, a component stays where it begins. *)
MCInit ==
  /\ Init /\ LimitInit /\ ChainInit
  /\ GateInit(IF scenario = Admitting THEN {1, 2} ELSE {1})
  /\ IF scenario = Running THEN \E s \in DOMAIN Program : ProcessInit(s)
                           ELSE ProcessInit("auth")

MCNext ==
  \/ /\ scenario \notin Others /\ Next
     /\ UNCHANGED <<limitVars, gateVars, chainVars, processVars>>
  \/ /\ scenario = Limiting /\ LimitNext
     /\ UNCHANGED <<vars, gateVars, chainVars, processVars>>
  \/ /\ scenario = Admitting /\ GateNext
     /\ UNCHANGED <<vars, limitVars, chainVars, processVars>>
  \/ /\ scenario = Permitting /\ ChainNext
     /\ UNCHANGED <<vars, limitVars, gateVars, processVars>>
  \/ /\ scenario = Running /\ ProcessNext
     /\ UNCHANGED <<vars, limitVars, gateVars, chainVars>>

MCSpec == MCInit /\ [][MCNext]_<<vars, limitVars, gateVars, chainVars, processVars>>

(* An old password opens nothing, and no password is guessed at any rate.  *)
PasswordsGuard == OldPasswordOut /\ AttemptsLimited

(* What was answered once is not relied on for ever: about a personal      *)
(* access token, about a session token, about a membership.                *)
AnswersEnd == EndedPatRefused /\ GateCloses /\ AccessEnds

Symmetry == UNION {Permutations(S) : S \in {Replica, Token, Request}}
=============================================================================
