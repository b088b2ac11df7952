--------------------------- MODULE InvitationsProofs ---------------------------
(***************************************************************************)
(* What TLAPS proves of Invitations, for any users, requests and rows and  *)
(* any number of faults: that a transaction finds its second connection,   *)
(* that status and answer of an invitation agree though they are written   *)
(* apart, and who may have two pending invitations.                        *)
(***************************************************************************)
EXTENDS Invitations, FiniteSetTheorems, TLAPS

Label == {"idle", "permit", "member", "pending", "read", "begin", "insert", "mark",
          "commit"}
Call == [pc : Label, op : {"none", "invite", "accept", "decline"},
         user : User \cup {Nobody}, token : Invitation \cup {NoToken}]

(* What the proofs need to know of the types. *)
Types ==
  /\ call \in [Request -> Call]
  /\ status \in [Invitation -> {"none", "pending", "accepted", "declined"}]
  /\ invitee \in [Invitation -> User \cup {Nobody}]
  /\ answers \in [Invitation -> Seq({"accepted", "declined"})]
  /\ held \in Int
  /\ faults \in Nat

(* Where a request stands determines what it is about. *)
Placed(r) ==
  /\ call[r].pc = "idle" => call[r].token = NoToken /\ call[r].op = "none"
  /\ call[r].pc \in {"permit", "member", "pending", "insert"} => call[r].op = "invite"
  /\ call[r].pc \in {"read", "mark"} => call[r].op \in {"accept", "decline"}
  /\ call[r].pc # "idle" => call[r].op # "none"
  /\ call[r].op = "invite" /\ call[r].pc # "commit" => call[r].token = NoToken
  /\ call[r].op \in {"accept", "decline"} => call[r].token \in Invitation
  /\ call[r].pc = "commit" => call[r].token \in Invitation
  /\ call[r].token \in Invitation => status[call[r].token] # "none"

Basics == Types /\ \A r \in Request : Placed(r)

LEMMA GotoGives ==
  ASSUME Types, NEW r \in Request, NEW label \in Label, Goto(r, label)
  PROVE  /\ call' \in [Request -> Call]
         /\ \A q \in Request \ {r} : call'[q] = call[q]
         /\ label = "idle" => call'[r] = Idle
         /\ label # "idle" => /\ call'[r].pc = label
                              /\ call'[r].op = call[r].op
                              /\ call'[r].user = call[r].user
                              /\ call'[r].token = call[r].token
<1>1. Idle \in Call
  BY DEF Idle, Call, Label
<1>2. [call[r] EXCEPT !.pc = label] \in Call
  BY DEF Types, Call
<1> QED BY <1>1, <1>2 DEF Types, Goto, Call

LEMMA IdleGives == Idle.pc = "idle" /\ Idle.op = "none" /\ Idle.token = NoToken
  BY DEF Idle

LEMMA BasicsInit == Init => Basics
<1> SUFFICES ASSUME Init PROVE Basics
  OBVIOUS
<1>1. Idle \in Call
  BY DEF Idle, Call, Label
<1>2. Types
  BY <1>1, ConstantsAssumption DEF Init, Types
<1>3. ASSUME NEW r \in Request PROVE Placed(r)
  <2>1. call[r] = Idle BY DEF Init
  <2> QED BY <2>1, IdleGives, ConstantsAssumption DEF Placed
<1> QED BY <1>2, <1>3 DEF Basics

(* The rows of others stay where they are, and a row that exists stays. *)
LEMMA OthersPlaced ==
  ASSUME Basics, NEW r \in Request, Types',
         \A q \in Request \ {r} : call'[q] = call[q],
         \A t \in Invitation : status[t] # "none" => status'[t] # "none",
         Placed(r)'
  PROVE  Basics'
<1>1. ASSUME NEW q \in Request, q # r PROVE Placed(q)'
  BY <1>1 DEF Basics, Placed
<1> QED BY <1>1 DEF Basics

(* A request that moves on to label, or ends. *)
LEMMA MovesOn ==
  ASSUME Basics, NEW r \in Request, NEW label \in Label, Goto(r, label), Types',
         \A t \in Invitation : status[t] # "none" => status'[t] # "none",
         label # "idle" => call[r].pc \notin {"idle", "commit"},
         label \in {"member", "pending", "insert"} => call[r].op = "invite",
         label = "mark" => call[r].op \in {"accept", "decline"},
         label \notin {"permit", "read"},
         label = "commit" => call[r].pc = "mark"
  PROVE  Basics'
<1>1. /\ \A q \in Request \ {r} : call'[q] = call[q]
      /\ label = "idle" => call'[r] = Idle
      /\ label # "idle" => /\ call'[r].pc = label
                           /\ call'[r].op = call[r].op
                           /\ call'[r].user = call[r].user
                           /\ call'[r].token = call[r].token
  BY GotoGives DEF Basics
<1>2. Placed(r)'
  <2>1. CASE label = "idle"
    BY <1>1, <2>1, IdleGives, ConstantsAssumption DEF Placed
  <2>2. CASE label # "idle"
    <3>1. Placed(r) BY DEF Basics
    <3>2. call[r].op # "none" BY <2>2, <3>1 DEF Placed
    <3>3. label = "commit" => call[r].op \in {"accept", "decline"} BY <3>1 DEF Placed
    <3>4. call[r].op = "invite" => call'[r].token = NoToken
      BY <1>1, <2>2, <3>1 DEF Placed
    <3> QED BY <1>1, <2>2, <3>1, <3>2, <3>3, <3>4 DEF Placed
  <2> QED BY <2>1, <2>2
<1> QED BY <1>1, <1>2, OthersPlaced

LEMMA BasicsStep ==
  ASSUME Basics, [Next]_vars
  PROVE  Basics'
<1> USE IdleGives
<1>0. Types
  BY DEF Basics
<1>1. ASSUME NEW r \in Request, NEW u \in User, Invite(r, u) PROVE Basics'
  <2>1. [pc |-> "permit", op |-> "invite", user |-> u, token |-> NoToken] \in Call
    BY DEF Call, Label
  <2>2. Types'
    BY <1>0, <1>1, <2>1 DEF Invite, Types, rows, outbox
  <2>3. /\ call'[r] = [pc |-> "permit", op |-> "invite", user |-> u, token |-> NoToken]
        /\ \A q \in Request \ {r} : call'[q] = call[q]
        /\ status' = status
    BY <1>0, <1>1 DEF Invite, Types, rows
  <2>4. Placed(r)'
    BY <2>3, ConstantsAssumption DEF Placed
  <2> QED BY <2>2, <2>3, <2>4, OthersPlaced
<1>2. ASSUME NEW r \in Request, NEW op \in {"accept", "decline"}, NEW u \in User,
             NEW t \in Invitation, Answer(r, op, u, t)
      PROVE  Basics'
  <2>1. [pc |-> "read", op |-> op, user |-> u, token |-> t] \in Call
    BY DEF Call, Label
  <2>2. Types'
    BY <1>0, <1>2, <2>1 DEF Answer, Types, rows, outbox
  <2>3. /\ call'[r] = [pc |-> "read", op |-> op, user |-> u, token |-> t]
        /\ \A q \in Request \ {r} : call'[q] = call[q]
        /\ status' = status /\ status[t] # "none"
    BY <1>0, <1>2 DEF Answer, Types, rows
  <2>4. Placed(r)'
    BY <2>3 DEF Placed
  <2> QED BY <2>2, <2>3, <2>4, OthersPlaced
<1>3. ASSUME NEW r \in Request, MayInvite(r) PROVE Basics'
  <2>1. PICK label \in {"member", "idle"} : Goto(r, label)
    BY <1>3 DEF MayInvite
  <2>2. Types' BY <1>0, <1>3, <2>1, GotoGives DEF MayInvite, Types, rows, outbox, Label
  <2>3. status' = status /\ call[r].pc = "permit" /\ call[r].op = "invite"
    BY <1>3 DEF MayInvite, rows, At, Basics, Placed
  <2> QED BY <2>1, <2>2, <2>3, MovesOn DEF Label
<1>4. ASSUME NEW r \in Request, CheckMember(r) PROVE Basics'
  <2>1. PICK label \in {"pending", "idle"} : Goto(r, label)
    BY <1>4 DEF CheckMember
  <2>2. Types'
    BY <1>0, <1>4, <2>1, GotoGives DEF CheckMember, Types, rows, outbox, Label, Fault
  <2>3. status' = status /\ call[r].pc = "member" /\ call[r].op = "invite"
    BY <1>4 DEF CheckMember, rows, At, Basics, Placed
  <2> QED BY <2>1, <2>2, <2>3, MovesOn DEF Label
<1>5. ASSUME NEW r \in Request, CheckPending(r) PROVE Basics'
  <2>1. PICK label \in {"begin", "idle"} : Goto(r, label)
    BY <1>5 DEF CheckPending
  <2>2. Types'
    BY <1>0, <1>5, <2>1, GotoGives DEF CheckPending, Types, rows, outbox, Label, Fault
  <2>3. status' = status /\ call[r].pc = "pending"
    BY <1>5 DEF CheckPending, rows, At
  <2> QED BY <2>1, <2>2, <2>3, MovesOn DEF Label
<1>6. ASSUME NEW r \in Request, GetInvitationByToken(r) PROVE Basics'
  <2>1. PICK label \in {"begin", "idle"} : Goto(r, label)
    BY <1>6 DEF GetInvitationByToken
  <2>2. Types'
    BY <1>0, <1>6, <2>1, GotoGives
       DEF GetInvitationByToken, Types, rows, outbox, Label, Fault
  <2>3. status' = status /\ call[r].pc = "read"
    BY <1>6 DEF GetInvitationByToken, rows, At
  <2> QED BY <2>1, <2>2, <2>3, MovesOn DEF Label
<1>7. ASSUME NEW r \in Request, Begin(r) PROVE Basics'
  <2>1. PICK label \in {"insert", "mark", "idle"} :
          /\ Goto(r, label)
          /\ label = "insert" => call[r].op = "invite"
          /\ label = "mark" => call[r].op # "invite"
    BY <1>7 DEF Begin
  <2>2. Types'
    BY <1>0, <1>7, <2>1, GotoGives DEF Begin, Types, rows, outbox, Label, Fault
  <2>3. status' = status /\ call[r].pc = "begin" /\ call[r].op # "none"
    BY <1>7 DEF Begin, rows, At, Basics, Placed
  <2>4. label = "mark" => call[r].op \in {"accept", "decline"}
    BY <1>0, <2>1, <2>3 DEF Types, Call
  <2> QED BY <2>1, <2>2, <2>3, <2>4, MovesOn DEF Label
<1>8. ASSUME NEW r \in Request, CreateInvitation(r) PROVE Basics'
  <2>1. CASE Finish(r) /\ Fault /\ UNCHANGED <<status, invitee>>
    <3>1. Goto(r, "idle") BY <2>1 DEF Finish
    <3>2. answers' = answers /\ held' = held - 1 /\ faults' = faults + 1
      BY <1>8, <2>1 DEF CreateInvitation, outbox, Finish, Fault
    <3>3. status' = status /\ invitee' = invitee BY <2>1
    <3>4. Types'
      BY <1>0, <3>1, <3>2, <3>3, GotoGives DEF Types, Label
    <3> QED BY <3>1, <3>3, <3>4, MovesOn DEF Label
  <2>2. CASE ~(Finish(r) /\ Fault /\ UNCHANGED <<status, invitee>>)
    <3>1. PICK t \in Invitation :
            /\ status[t] = "none"
            /\ status' = [status EXCEPT ![t] = "pending"]
            /\ invitee' = [invitee EXCEPT ![t] = call[r].user]
            /\ call' = [call EXCEPT ![r] = [@ EXCEPT !.pc = "commit", !.token = t]]
            /\ UNCHANGED <<held, faults>>
      BY <1>8, <2>2 DEF CreateInvitation
    <3>2. /\ call[r].op = "invite" /\ call[r] \in Call
          /\ [call[r] EXCEPT !.pc = "commit", !.token = t] \in Call
      BY <1>0, <1>8 DEF CreateInvitation, At, Basics, Placed, Types, Call, Label
    <3>3. /\ call'[r].pc = "commit" /\ call'[r].op = "invite" /\ call'[r].token = t
          /\ \A q \in Request \ {r} : call'[q] = call[q]
          /\ call' \in [Request -> Call]
      BY <1>0, <3>1, <3>2 DEF Types, Call
    <3>4. /\ status' \in [Invitation -> {"none", "pending", "accepted", "declined"}]
          /\ status'[t] = "pending"
          /\ \A k \in Invitation : status[k] # "none" => status'[k] # "none"
      BY <1>0, <3>1 DEF Types
    <3>5. invitee' \in [Invitation -> User \cup {Nobody}]
      BY <1>0, <3>1, <3>2 DEF Types, Call
    <3>6. Types'
      BY <1>0, <1>8, <3>1, <3>3, <3>4, <3>5 DEF CreateInvitation, Types, outbox
    <3>7. Placed(r)' BY <3>3, <3>4 DEF Placed
    <3> QED BY <3>3, <3>4, <3>6, <3>7, OthersPlaced
  <2> QED BY <2>1, <2>2
<1>9. ASSUME NEW r \in Request, UpdateInvitationStatus(r) PROVE Basics'
  <2>0. call[r].pc = "mark"
    BY <1>9 DEF UpdateInvitationStatus, At
  <2>1. PICK label \in {"commit", "idle"} : Goto(r, label)
    BY <1>9 DEF UpdateInvitationStatus, Finish
  <2>2. call[r].token \in Invitation BY <2>0 DEF Basics, Placed
  <2>3. /\ status' \in [Invitation -> {"none", "pending", "accepted", "declined"}]
        /\ \A t \in Invitation : status[t] # "none" => status'[t] # "none"
    BY <1>0, <1>9, <2>2 DEF UpdateInvitationStatus, Types
  <2>4. Types'
    BY <1>0, <1>9, <2>1, <2>3, GotoGives
       DEF UpdateInvitationStatus, Finish, Types, outbox, Label, Fault
  <2> QED BY <2>0, <2>1, <2>3, <2>4, MovesOn DEF Label
<1>10. ASSUME NEW r \in Request, Commit(r) PROVE Basics'
  <2>1. Goto(r, "idle") /\ status' = status /\ invitee' = invitee /\ held' = held - 1
    BY <1>10 DEF Commit, Finish, rows
  <2>2. call[r].token \in Invitation BY <1>10 DEF Commit, At, Basics, Placed
  <2>3. answers' \in [Invitation -> Seq({"accepted", "declined"})]
    <3>1. \A s \in Seq({"accepted", "declined"}) :
            /\ Append(s, "accepted") \in Seq({"accepted", "declined"})
            /\ Append(s, "declined") \in Seq({"accepted", "declined"})
      OBVIOUS
    <3>2. PICK x \in {"accepted", "declined"} :
            \/ answers' = answers
            \/ answers' = [answers EXCEPT ![call[r].token] = Append(@, x)]
      BY <1>10 DEF Commit, Written, outbox
    <3>3. Append(answers[call[r].token], x) \in Seq({"accepted", "declined"})
      BY <1>0, <2>2, <3>1 DEF Types
    <3> QED BY <1>0, <3>2, <3>3 DEF Types
  <2>4. faults' \in Nat BY <1>0, <1>10 DEF Commit, Fault, Types
  <2>5. Types' BY <1>0, <2>1, <2>3, <2>4, GotoGives DEF Types, Label
  <2> QED BY <2>1, <2>5, MovesOn DEF Label
<1>11. ASSUME NEW r \in Request, CutShort(r) PROVE Basics'
  <2>1. Goto(r, "idle") /\ status' = status
    BY <1>11 DEF CutShort, Finish, rows
  <2>2. Types'
    BY <1>0, <1>11, <2>1, GotoGives DEF CutShort, Finish, rows, outbox, Types, Label, Fault
  <2> QED BY <2>1, <2>2, MovesOn DEF Label
<1>12. CASE \/ \E u \in User : AddMember(u) \/ RemoveMember(u)
            \/ \E t \in Invitation : Expire(t)
            \/ UNCHANGED vars
  <2>1. UNCHANGED <<call, status, invitee, answers, held, faults>>
    BY <1>12 DEF AddMember, RemoveMember, Expire, vars, rows, outbox
  <2> QED BY <2>1 DEF Basics, Types, Placed
<1> QED
  BY <1>1, <1>2, <1>3, <1>4, <1>5, <1>6, <1>7, <1>8, <1>9, <1>10, <1>11, <1>12
     DEF Next, Step

THEOREM BasicsHold == Spec => []Basics
  BY BasicsInit, BasicsStep, PTL DEF Spec

-----------------------------------------------------------------------------
(* The connections in use are those of the transactions. *)
Holder == {r \in Request : InTransaction(r)}
HeldInv == held = Cardinality(Holder)

LEMMA HeldInit == Init => HeldInv
<1> SUFFICES ASSUME Init PROVE HeldInv
  OBVIOUS
<1>1. Holder = {}
  BY IdleGives DEF Init, Holder, InTransaction
<1> QED BY <1>1, FS_EmptySet DEF Init, HeldInv

(* One request at a time enters or leaves its transaction. *)
LEMMA HeldChange ==
  ASSUME HeldInv, NEW r \in Request, \A q \in Request \ {r} : call'[q] = call[q],
         \/ (InTransaction(r)' <=> InTransaction(r)) /\ held' = held
         \/ ~InTransaction(r) /\ InTransaction(r)' /\ held' = held + 1
         \/ InTransaction(r) /\ ~InTransaction(r)' /\ held' = held - 1
  PROVE  HeldInv'
<1>1. IsFiniteSet(Holder)
  BY ConstantsAssumption, FS_Subset DEF Holder
<1>2. \A q \in Request \ {r} : InTransaction(q)' <=> InTransaction(q)
  BY DEF InTransaction
<1>3. CASE (InTransaction(r)' <=> InTransaction(r)) /\ held' = held
  <2>1. Holder' = Holder BY <1>2, <1>3 DEF Holder
  <2> QED BY <1>3, <2>1 DEF HeldInv
<1>4. CASE ~InTransaction(r) /\ InTransaction(r)' /\ held' = held + 1
  <2>1. Holder' = Holder \cup {r} /\ r \notin Holder BY <1>2, <1>4 DEF Holder
  <2>2. Cardinality(Holder') = Cardinality(Holder) + 1 BY <1>1, <2>1, FS_AddElement
  <2> QED BY <1>4, <2>2 DEF HeldInv
<1>5. CASE InTransaction(r) /\ ~InTransaction(r)' /\ held' = held - 1
  <2>1. Holder' = Holder \ {r} /\ r \in Holder BY <1>2, <1>5 DEF Holder
  <2>2. Cardinality(Holder') = Cardinality(Holder) - 1 BY <1>1, <2>1, FS_RemoveElement
  <2> QED BY <1>5, <2>2 DEF HeldInv
<1> QED BY <1>3, <1>4, <1>5

(* ... by Goto outside the transaction, or by Finish. *)
LEMMA HeldGoto ==
  ASSUME Types, HeldInv, NEW r \in Request, NEW label \in Label, Goto(r, label),
         \/ /\ label \in {"insert", "mark", "commit"} /\ InTransaction(r)
            /\ held' = held
         \/ /\ label \notin {"insert", "mark", "commit"} /\ ~InTransaction(r)
            /\ held' = held
         \/ /\ label \in {"insert", "mark", "commit"} /\ ~InTransaction(r)
            /\ held' = held + 1
         \/ /\ label \notin {"insert", "mark", "commit"} /\ InTransaction(r)
            /\ held' = held - 1
  PROVE  HeldInv'
<1>1. /\ \A q \in Request \ {r} : call'[q] = call[q]
      /\ call'[r].pc = label
  BY GotoGives, IdleGives
<1>2. InTransaction(r)' <=> (label \in {"insert", "mark", "commit"})
  BY <1>1 DEF InTransaction
<1> QED BY <1>1, <1>2, HeldChange

LEMMA HeldStep ==
  ASSUME Basics, HeldInv, [Next]_vars
  PROVE  HeldInv'
<1>0. Types
  BY DEF Basics
<1>1. ASSUME NEW r \in Request, NEW u \in User, Invite(r, u) PROVE HeldInv'
  <2>1. /\ call[r].pc = "idle" /\ call'[r].pc = "permit" /\ held' = held
        /\ \A q \in Request \ {r} : call'[q] = call[q]
    BY <1>0, <1>1 DEF Invite, At, Types
  <2> QED BY <2>1, HeldChange DEF InTransaction
<1>2. ASSUME NEW r \in Request, NEW op \in {"accept", "decline"}, NEW u \in User,
             NEW t \in Invitation, Answer(r, op, u, t)
      PROVE  HeldInv'
  <2>1. /\ call[r].pc = "idle" /\ call'[r].pc = "read" /\ held' = held
        /\ \A q \in Request \ {r} : call'[q] = call[q]
    BY <1>0, <1>2 DEF Answer, At, Types
  <2> QED BY <2>1, HeldChange DEF InTransaction
<1>3. ASSUME NEW r \in Request,
             MayInvite(r) \/ CheckMember(r) \/ CheckPending(r) \/ GetInvitationByToken(r)
      PROVE  HeldInv'
  <2>1. PICK label \in {"member", "pending", "begin", "idle"} : Goto(r, label)
    BY <1>3 DEF MayInvite, CheckMember, CheckPending, GetInvitationByToken
  <2>2. ~InTransaction(r) /\ held' = held
    BY <1>3 DEF MayInvite, CheckMember, CheckPending, GetInvitationByToken, At, InTransaction
  <2> QED BY <1>0, <2>1, <2>2, HeldGoto DEF Label
<1>4. ASSUME NEW r \in Request, Begin(r) PROVE HeldInv'
  <2>1. ~InTransaction(r) BY <1>4 DEF Begin, At, InTransaction
  <2>2. \/ \E label \in {"insert", "mark"} : Goto(r, label) /\ held' = held + 1
        \/ Goto(r, "idle") /\ held' = held
    BY <1>4 DEF Begin
  <2> QED BY <1>0, <2>1, <2>2, HeldGoto DEF Label
<1>5. ASSUME NEW r \in Request, InTransaction(r), Finish(r) PROVE HeldInv'
  BY <1>0, <1>5, HeldGoto DEF Finish, Label
<1>6. ASSUME NEW r \in Request, CreateInvitation(r) PROVE HeldInv'
  <2>1. InTransaction(r) BY <1>6 DEF CreateInvitation, At, InTransaction
  <2>2. CASE Finish(r) BY <1>5, <2>1, <2>2
  <2>3. CASE ~Finish(r)
    <3>1. PICK t \in Invitation :
            call' = [call EXCEPT ![r] = [@ EXCEPT !.pc = "commit", !.token = t]]
      BY <1>6, <2>3 DEF CreateInvitation
    <3>2. held' = held BY <1>6, <2>3 DEF CreateInvitation
    <3>3. /\ call'[r].pc = "commit"
          /\ \A q \in Request \ {r} : call'[q] = call[q]
      BY <1>0, <3>1 DEF Types, Call
    <3>4. InTransaction(r)' BY <3>3 DEF InTransaction
    <3> QED BY <2>1, <3>2, <3>3, <3>4, HeldChange
  <2> QED BY <2>2, <2>3
<1>7. ASSUME NEW r \in Request, UpdateInvitationStatus(r) PROVE HeldInv'
  <2>1. InTransaction(r) BY <1>7 DEF UpdateInvitationStatus, At, InTransaction
  <2>2. CASE Finish(r) BY <1>5, <2>1, <2>2
  <2>3. CASE ~Finish(r)
    <3>1. Goto(r, "commit") /\ held' = held
      BY <1>7, <2>3 DEF UpdateInvitationStatus
    <3> QED BY <1>0, <2>1, <3>1, HeldGoto DEF Label
  <2> QED BY <2>2, <2>3
<1>8. ASSUME NEW r \in Request, Commit(r) PROVE HeldInv'
  BY <1>5, <1>8 DEF Commit, At, InTransaction
<1>9. ASSUME NEW r \in Request, CutShort(r) PROVE HeldInv'
  <2>1. CASE InTransaction(r) BY <1>5, <1>9, <2>1 DEF CutShort
  <2>2. CASE ~InTransaction(r)
    <3>1. Goto(r, "idle") /\ held' = held BY <1>9, <2>2 DEF CutShort
    <3> QED BY <1>0, <2>2, <3>1, HeldGoto DEF Label
  <2> QED BY <2>1, <2>2
<1>10. CASE \/ \E u \in User : AddMember(u) \/ RemoveMember(u)
            \/ \E t \in Invitation : Expire(t)
            \/ UNCHANGED vars
  <2>1. call' = call /\ held' = held
    BY <1>10 DEF AddMember, RemoveMember, Expire, vars
  <2> QED BY <2>1 DEF HeldInv, Holder, InTransaction
<1> QED
  BY <1>1, <1>2, <1>3, <1>4, <1>6, <1>7, <1>8, <1>9, <1>10 DEF Next, Step

(* A pool with more connections than there are requests is never used up,  *)
(* so no transaction waits for ever for the connection it needs besides    *)
(* its own: every end of a transaction gives its connection back.          *)
THEOREM ConnectionAlwaysLeft == Spec => []ConnectionLeft
<1>1. HeldInv => ConnectionLeft
  <2> SUFFICES ASSUME HeldInv, PoolSize > Cardinality(Request) PROVE held < PoolSize
    BY DEF ConnectionLeft, Connection
  <2>1. /\ Cardinality(Holder) \in Nat /\ Cardinality(Request) \in Nat
        /\ Cardinality(Holder) <= Cardinality(Request)
    BY ConstantsAssumption, FS_Subset, FS_CardinalityType DEF Holder
  <2> QED BY <2>1, ConstantsAssumption DEF HeldInv
<1>2. Basics /\ HeldInv /\ [Next]_vars => HeldInv'
  BY HeldStep
<1> QED BY <1>1, <1>2, HeldInit, BasicsHold, PTL DEF Spec

-----------------------------------------------------------------------------
(* An invitation nobody answered twice at once: one request at most has it *)
(* in hand; it is pending as long as that request may still mark it, and   *)
(* unanswered until that request commits.                                  *)
Answering(r, t) == call[r].token = t /\ call[r].op \in {"accept", "decline"}

Sound(t) ==
  /\ \A q, r \in Request : call[q].token = t /\ call[r].token = t => q = r
  /\ \A r \in Request :
       Answering(r, t) /\ call[r].pc \in {"begin", "mark"} => status[t] = "pending"
  /\ \A r \in Request :
       Answering(r, t) /\ At(r, "commit") =>
         /\ answers[t] = <<>>
         /\ status[t] = IF call[r].op = "accept" THEN "accepted" ELSE "declined"
  /\ \A r \in Request :
       call[r].token = t /\ call[r].op = "invite" => status[t] = "pending"
  /\ status[t] \in {"none", "pending"} => answers[t] = <<>>
  /\ answers[t] # <<>> => answers[t] = <<status[t]>>
  /\ faults = 0 /\ status[t] \in {"accepted", "declined"} =>
       answers[t] # <<>> \/ t \in refused \/ Committing(t)

AnswerInv == \A t \in Invitation \ contested : Sound(t)

LEMMA AnswerInit == Init => AnswerInv
<1> SUFFICES ASSUME Init, NEW t \in Invitation PROVE Sound(t)
  BY DEF AnswerInv
<1>1. /\ \A r \in Request : call[r].token = NoToken /\ call[r].token # t
      /\ status[t] = "none" /\ answers[t] = <<>>
  BY IdleGives, ConstantsAssumption DEF Init
<1> QED BY <1>1 DEF Sound, Answering

(* What befalls another invitation leaves this one as it was. *)
LEMMA SoundElsewhere ==
  ASSUME NEW r \in Request, NEW t \in Invitation, Sound(t),
         \A q \in Request \ {r} : call'[q] = call[q],
         call[r].token # t, call'[r].token # t,
         status'[t] = status[t], answers'[t] = answers[t],
         t \in refused => t \in refused',
         faults' = 0 => faults = 0
  PROVE  Sound(t)'
<1>1. /\ \A q, s \in Request : call'[q].token = t /\ call'[s].token = t => q = s
      /\ \A q \in Request :
           Answering(q, t)' /\ call'[q].pc \in {"begin", "mark"} => status'[t] = "pending"
      /\ \A q \in Request :
           Answering(q, t)' /\ At(q, "commit")' =>
             /\ answers'[t] = <<>>
             /\ status'[t] = IF call'[q].op = "accept" THEN "accepted" ELSE "declined"
      /\ \A q \in Request :
           call'[q].token = t /\ call'[q].op = "invite" => status'[t] = "pending"
  BY DEF Sound, Answering, At
<1>2. Committing(t) => Committing(t)'
  BY DEF Committing, At
<1> QED BY <1>1, <1>2 DEF Sound

(* A request that has the invitation in hand and is not committing moves   *)
(* on, or any request ends: before its commit, or by a fault.              *)
LEMMA SoundMoves ==
  ASSUME NEW r \in Request, NEW t \in Invitation, Sound(t),
         \A q \in Request \ {r} : call'[q] = call[q],
         \/ /\ call'[r].token = call[r].token /\ call'[r].op = call[r].op
            /\ call'[r].op # "invite"
            /\ call'[r].pc # "commit"
            /\ call'[r].pc \in {"begin", "mark"} => status[t] = "pending"
         \/ call'[r].token # t,
         call[r].pc = "commit" => faults' # 0,
         status'[t] = status[t], answers'[t] = answers[t],
         refused' = refused,
         faults' = 0 => faults = 0
  PROVE  Sound(t)'
<1>1. \A q, s \in Request : call'[q].token = t /\ call'[s].token = t => q = s
  BY DEF Sound
<1>2. \A q \in Request :
        Answering(q, t)' /\ call'[q].pc \in {"begin", "mark"} => status'[t] = "pending"
  BY DEF Sound, Answering
<1>3. \A q \in Request :
        Answering(q, t)' /\ At(q, "commit")' =>
          /\ answers'[t] = <<>>
          /\ status'[t] = IF call'[q].op = "accept" THEN "accepted" ELSE "declined"
  BY DEF Sound, Answering, At
<1>4. \A q \in Request :
        call'[q].token = t /\ call'[q].op = "invite" => status'[t] = "pending"
  BY DEF Sound
<1>5. faults' = 0 => (Committing(t) => Committing(t)')
  BY DEF Committing, At
<1> QED BY <1>1, <1>2, <1>3, <1>4, <1>5 DEF Sound

LEMMA AnswerStep ==
  ASSUME Basics, AnswerInv, [Next]_vars
  PROVE  AnswerInv'
<1>0. Types
  BY DEF Basics
<1>a. contested \subseteq contested'
  BY DEF Next, Step, Invite, Answer, MayInvite, CheckMember, CheckPending,
     GetInvitationByToken, Begin, CreateInvitation, UpdateInvitationStatus, Commit,
     CutShort, AddMember, RemoveMember, Expire, vars
<1> SUFFICES ASSUME NEW t \in Invitation, t \notin contested', Sound(t) PROVE Sound(t)'
  BY <1>a DEF AnswerInv
<1>1. ASSUME NEW r \in Request, NEW u \in User, Invite(r, u) PROVE Sound(t)'
  <2>1. /\ call'[r].token = NoToken /\ call[r].token = NoToken
        /\ \A q \in Request \ {r} : call'[q] = call[q]
    BY <1>0, <1>1 DEF Invite, At, Types, Basics, Placed
  <2>2. UNCHANGED <<status, answers, refused, faults>>
    BY <1>1 DEF Invite, rows, outbox
  <2> QED BY <2>1, <2>2, SoundElsewhere, ConstantsAssumption
<1>2. ASSUME NEW r \in Request, NEW op \in {"accept", "decline"}, NEW u \in User,
             NEW s \in Invitation, Answer(r, op, u, s)
      PROVE  Sound(t)'
  <2>1. /\ call'[r] = [pc |-> "read", op |-> op, user |-> u, token |-> s]
        /\ call[r].token = NoToken
        /\ \A q \in Request \ {r} : call'[q] = call[q]
    BY <1>0, <1>2 DEF Answer, At, Types, Basics, Placed
  <2>2. UNCHANGED <<status, answers, refused, faults>>
    BY <1>2 DEF Answer, rows, outbox
  <2>3. CASE s # t
    BY <2>1, <2>2, <2>3, SoundElsewhere, ConstantsAssumption
  <2>4. CASE s = t
    <3>1. \A q \in Request : call[q].token # t
      BY <1>2, <2>4 DEF Answer
    <3>2. \A q \in Request : call'[q].token = t => q = r /\ call'[q].pc = "read"
                                                     /\ call'[q].op # "invite"
      BY <2>1, <3>1
    <3>3. ~Committing(t)
      BY <3>1 DEF Committing
    <3> QED BY <2>2, <3>2, <3>3 DEF Sound, Answering, At
  <2> QED BY <2>3, <2>4
<1>3. ASSUME NEW r \in Request, NEW label \in Label, Goto(r, label), call[r].pc # "idle",
             label # "commit",
             label \in {"begin", "mark"} /\ call[r].op # "invite"
               /\ call[r].token = t => status[t] = "pending",
             call[r].pc = "commit" => faults' # 0,
             faults' = faults \/ faults' = faults + 1,
             UNCHANGED <<status, answers, refused>>
      PROVE  Sound(t)'
  <2>1. /\ \A q \in Request \ {r} : call'[q] = call[q]
        /\ label = "idle" => call'[r] = Idle
        /\ label # "idle" => /\ call'[r].pc = label
                             /\ call'[r].op = call[r].op
                             /\ call'[r].token = call[r].token
    BY <1>0, <1>3, GotoGives
  <2>2. faults' = 0 => faults = 0
    BY <1>0, <1>3 DEF Types
  <2>3. CASE label = "idle" \/ call[r].token # t
    <3>1. call'[r].token # t BY <2>1, <2>3, IdleGives, ConstantsAssumption
    <3> QED BY <1>3, <2>1, <2>2, <3>1, SoundMoves
  <2>4. CASE label # "idle" /\ call[r].token = t /\ call[r].op # "invite"
    BY <1>3, <2>1, <2>2, <2>4, SoundMoves
  <2>5. CASE label # "idle" /\ call[r].token = t /\ call[r].op = "invite"
    <3>1. call[r].pc = "commit"
      BY <2>5, ConstantsAssumption DEF Basics, Placed
    <3>2. faults' # 0 /\ status[t] = "pending" /\ answers[t] = <<>>
      BY <1>3, <2>5, <3>1 DEF Sound
    <3>3. \A q \in Request : call'[q].token = t => q = r /\ call'[q].op = "invite"
      BY <2>1, <2>5 DEF Sound
    <3> QED BY <1>3, <3>2, <3>3 DEF Sound, Answering
  <2> QED BY <2>3, <2>4, <2>5
<1>4. ASSUME NEW r \in Request, MayInvite(r) \/ CheckMember(r) \/ CheckPending(r)
      PROVE  Sound(t)'
  <2>1. PICK label \in {"member", "pending", "begin", "idle"} : Goto(r, label)
    BY <1>4 DEF MayInvite, CheckMember, CheckPending
  <2>2. /\ call[r].pc \in {"permit", "member", "pending"}
        /\ UNCHANGED <<status, answers, refused>>
        /\ faults' = faults \/ faults' = faults + 1
    BY <1>4 DEF MayInvite, CheckMember, CheckPending, At, rows, outbox, Fault
  <2>3. call[r].op = "invite"
    BY <2>2 DEF Basics, Placed
  <2> QED BY <1>3, <2>1, <2>2, <2>3 DEF Label
<1>5. ASSUME NEW r \in Request, GetInvitationByToken(r) PROVE Sound(t)'
  <2>1. PICK label \in {"begin", "idle"} :
          Goto(r, label) /\ (label = "begin" => status[call[r].token] = "pending")
    BY <1>5 DEF GetInvitationByToken
  <2>2. /\ call[r].pc = "read"
        /\ UNCHANGED <<status, answers, refused>>
        /\ faults' = faults \/ faults' = faults + 1
    BY <1>5 DEF GetInvitationByToken, At, rows, outbox, Fault
  <2> QED BY <1>3, <2>1, <2>2 DEF Label
<1>6. ASSUME NEW r \in Request, Begin(r) PROVE Sound(t)'
  <2>1. PICK label \in {"insert", "mark", "idle"} : Goto(r, label)
    BY <1>6 DEF Begin
  <2>2. /\ call[r].pc = "begin"
        /\ UNCHANGED <<status, answers, refused>>
        /\ faults' = faults \/ faults' = faults + 1
    BY <1>6 DEF Begin, At, rows, outbox, Fault
  <2>3. call[r].op # "invite" /\ call[r].token = t => status[t] = "pending"
    <3>1. call[r].op # "invite" => call[r].op \in {"accept", "decline"}
      BY <1>0, <2>2 DEF Types, Call, Basics, Placed
    <3> QED BY <2>2, <3>1 DEF Sound, Answering
  <2> QED BY <1>3, <2>1, <2>2, <2>3 DEF Label
<1>7. ASSUME NEW r \in Request, CreateInvitation(r) PROVE Sound(t)'
  <2>0. /\ call[r].pc = "insert" /\ UNCHANGED <<answers, refused>>
        /\ call[r].op = "invite" /\ call[r].token = NoToken
    BY <1>7 DEF CreateInvitation, At, outbox, Basics, Placed
  <2>1. CASE Finish(r) /\ Fault /\ UNCHANGED <<status, invitee>>
    BY <1>3, <2>0, <2>1 DEF Finish, Fault, Label
  <2>2. CASE ~(Finish(r) /\ Fault /\ UNCHANGED <<status, invitee>>)
    <3>1. PICK s \in Invitation :
            /\ status[s] = "none"
            /\ status' = [status EXCEPT ![s] = "pending"]
            /\ call' = [call EXCEPT ![r] = [@ EXCEPT !.pc = "commit", !.token = s]]
            /\ faults' = faults
      BY <1>7, <2>2 DEF CreateInvitation
    <3>2. /\ call'[r].pc = "commit" /\ call'[r].op = "invite" /\ call'[r].token = s
          /\ \A q \in Request \ {r} : call'[q] = call[q]
      BY <1>0, <2>0, <3>1 DEF Types, Call
    <3>3. CASE s # t
      BY <1>0, <2>0, <3>1, <3>2, <3>3, SoundElsewhere, ConstantsAssumption DEF Types
    <3>4. CASE s = t
      <4>1. \A q \in Request : call[q].token # t
        BY <3>1, <3>4 DEF Basics, Placed
      <4>2. status'[t] = "pending" /\ answers'[t] = <<>>
        BY <1>0, <2>0, <3>1, <3>4 DEF Types, Sound
      <4>3. \A q \in Request : call'[q].token = t => q = r /\ call'[q].op = "invite"
        BY <3>2, <4>1
      <4> QED BY <4>2, <4>3 DEF Sound, Answering
    <3> QED BY <3>3, <3>4
  <2> QED BY <2>1, <2>2
<1>8. ASSUME NEW r \in Request, UpdateInvitationStatus(r) PROVE Sound(t)'
  <2>0. /\ call[r].pc = "mark" /\ UNCHANGED <<answers, refused>>
        /\ call[r].op \in {"accept", "decline"} /\ call[r].token \in Invitation
    BY <1>8 DEF UpdateInvitationStatus, At, outbox, Basics, Placed
  <2>1. CASE Finish(r) /\ Fault /\ UNCHANGED status
    BY <1>3, <2>0, <2>1 DEF Finish, Fault, Label
  <2>2. CASE ~(Finish(r) /\ Fault /\ UNCHANGED status)
    <3>1. /\ status' = [status EXCEPT ![call[r].token] =
                          IF call[r].op = "accept" THEN "accepted" ELSE "declined"]
          /\ Goto(r, "commit")
          /\ faults' = faults
      BY <1>8, <2>2 DEF UpdateInvitationStatus
    <3>2. /\ call'[r].pc = "commit" /\ call'[r].op = call[r].op
          /\ call'[r].token = call[r].token
          /\ \A q \in Request \ {r} : call'[q] = call[q]
      BY <1>0, <3>1, GotoGives DEF Label
    <3>3. CASE call[r].token # t
      BY <1>0, <2>0, <3>1, <3>2, <3>3, SoundElsewhere DEF Types
    <3>4. CASE call[r].token = t
      <4>1. status[t] = "pending" /\ answers[t] = <<>>
        BY <2>0, <3>4 DEF Sound, Answering
      <4>2. /\ status'[t] = IF call[r].op = "accept" THEN "accepted" ELSE "declined"
            /\ answers'[t] = <<>>
        BY <1>0, <2>0, <3>1, <3>4, <4>1 DEF Types
      <4>3. \A q \in Request :
              call'[q].token = t => q = r /\ call'[q].op = call[r].op
                                          /\ call'[q].pc = "commit"
        BY <3>2, <3>4 DEF Sound
      <4>4. Committing(t)'
        BY <3>2, <3>4 DEF Committing, At
      <4> QED BY <2>0, <4>2, <4>3, <4>4 DEF Sound, Answering
    <3> QED BY <3>3, <3>4
  <2> QED BY <2>1, <2>2
<1>9. ASSUME NEW r \in Request, Commit(r) PROVE Sound(t)'
  <2>0. /\ call[r].pc = "commit" /\ call[r].token \in Invitation
        /\ status' = status /\ Goto(r, "idle")
    BY <1>9 DEF Commit, Finish, At, rows, Basics, Placed
  <2>1. CASE Fault /\ UNCHANGED <<member, outbox>>
    <3>1. faults' = faults + 1 /\ faults' # 0
      BY <1>0, <2>1 DEF Fault, Types
    <3> QED BY <1>3, <2>0, <2>1, <3>1 DEF outbox, Label
  <2>2. CASE Written(r) /\ UNCHANGED faults
    <3>1. call'[r] = Idle /\ \A q \in Request \ {r} : call'[q] = call[q]
      BY <1>0, <2>0, GotoGives DEF Label
    <3>2. call'[r].token # t
      BY <3>1, IdleGives, ConstantsAssumption
    <3>3. /\ call[r].op \in {"invite", "accept", "decline"}
          /\ \A s \in Invitation : s # call[r].token => answers'[s] = answers[s]
          /\ refused \subseteq refused'
          /\ call[r].op = "invite" => answers' = answers
          /\ call[r].op # "invite" =>
               \/ answers'[call[r].token] = Append(answers[call[r].token],
                    IF call[r].op = "accept" THEN "accepted" ELSE "declined")
               \/ answers' = answers /\ call[r].token \in refused'
      <4>1. call[r].op \in {"invite", "accept", "decline"}
        BY <1>0, <2>0 DEF Types, Call, Basics, Placed
      <4>2. CASE call[r].op = "invite"
        BY <2>2, <4>2 DEF Written
      <4>3. CASE call[r].op = "decline"
        BY <1>0, <2>0, <2>2, <4>3 DEF Written, Types
      <4>4. CASE call[r].op = "accept" /\ call[r].user \in member
        BY <2>2, <4>4 DEF Written
      <4>5. CASE call[r].op = "accept" /\ call[r].user \notin member
        BY <1>0, <2>0, <2>2, <4>5 DEF Written, Types
      <4> QED BY <4>1, <4>2, <4>3, <4>4, <4>5
    <3>4. CASE call[r].token # t
      BY <2>0, <2>2, <3>1, <3>2, <3>3, <3>4, SoundElsewhere
    <3>5. CASE call[r].token = t
      <4>1. \A q \in Request : call'[q].token # t
        BY <3>1, <3>2, <3>5 DEF Sound
      <4>2. CASE call[r].op = "invite"
        <5>1. status'[t] = "pending" /\ answers'[t] = <<>>
          BY <2>0, <3>3, <3>5, <4>2 DEF Sound
        <5> QED BY <4>1, <5>1 DEF Sound, Answering
      <4>3. CASE call[r].op # "invite"
        <5>1. /\ answers[t] = <<>>
              /\ status[t] = IF call[r].op = "accept" THEN "accepted" ELSE "declined"
          BY <2>0, <3>3, <3>5, <4>3 DEF Sound, Answering, At
        <5>2. \/ answers'[t] = <<status'[t]>>
              \/ answers'[t] = <<>> /\ t \in refused'
          BY <2>0, <3>3, <3>5, <4>3, <5>1
        <5>3. status'[t] \in {"accepted", "declined"}
          BY <2>0, <5>1
        <5>4. answers'[t] = <<status'[t]>> => answers'[t] # <<>>
          OBVIOUS
        <5> QED BY <4>1, <5>2, <5>3, <5>4 DEF Sound, Answering
      <4> QED BY <4>2, <4>3
    <3> QED BY <3>4, <3>5
  <2> QED BY <1>9, <2>1, <2>2 DEF Commit
<1>10. ASSUME NEW r \in Request, CutShort(r) PROVE Sound(t)'
  <2>1. /\ Goto(r, "idle") /\ faults' = faults + 1 /\ call[r].pc # "idle"
        /\ UNCHANGED <<status, answers, refused>>
    BY <1>10 DEF CutShort, Finish, Fault, At, rows, outbox
  <2>2. faults' # 0 BY <1>0, <2>1 DEF Types
  <2> QED BY <1>3, <2>1, <2>2 DEF Label
<1>11. CASE \/ \E u \in User : AddMember(u) \/ RemoveMember(u)
            \/ \E s \in Invitation : Expire(s)
            \/ UNCHANGED vars
  <2>1. UNCHANGED <<call, status, answers, refused, faults>>
    BY <1>11 DEF AddMember, RemoveMember, Expire, vars, rows, outbox
  <2> QED BY <2>1 DEF Sound, Answering, At, Committing
<1> QED
  BY <1>1, <1>2, <1>4, <1>5, <1>6, <1>7, <1>8, <1>9, <1>10, <1>11 DEF Next, Step

(* The status is written outside the transaction that commits the answer,  *)
(* and yet an invitation nobody answers twice at once has one answer at    *)
(* most, its status; and without a fault an accepted or declined one has   *)
(* that answer.  For every number of requests and faults.                  *)
THEOREM AnswersStayInAgreement == Spec => []AnswersAgree
<1>1. Basics /\ AnswerInv => AnswersAgree
  <2> SUFFICES ASSUME Basics, AnswerInv, NEW t \in Invitation \ contested
      PROVE  /\ Len(answers[t]) <= 1
             /\ answers[t] # <<>> => answers[t] = <<status[t]>>
             /\ faults = 0 /\ status[t] \in {"accepted", "declined"} =>
                  answers[t] # <<>> \/ t \in refused \/ Committing(t)
    BY DEF AnswersAgree
  <2>1. Sound(t) BY DEF AnswerInv
  <2>2. answers[t] = <<>> \/ answers[t] = <<status[t]>>
    BY <2>1 DEF Sound
  <2>3. /\ Len(<<>>) <= 1
        /\ \A x \in {"none", "pending", "accepted", "declined"} : Len(<<x>>) <= 1
    OBVIOUS
  <2>4. Len(answers[t]) <= 1
    BY <2>2, <2>3 DEF Basics, Types
  <2> QED BY <2>1, <2>4 DEF Sound
<1>2. Basics /\ AnswerInv /\ [Next]_vars => AnswerInv'
  BY AnswerStep
<1> QED BY <1>1, <1>2, AnswerInit, BasicsHold, PTL DEF Spec

-----------------------------------------------------------------------------
(* Without faults, a user nobody invites twice at once: one request at     *)
(* most is inviting, and past its look for pending rows there are none.    *)
Inviting(r, u) == call[r].op = "invite" /\ call[r].user = u

Single(u) ==
  /\ \A q, r \in Request : Inviting(q, u) /\ Inviting(r, u) => q = r
  /\ \A r \in Request :
       Inviting(r, u) /\ call[r].pc \in {"begin", "insert"} => PendingFor(u) = {}
  /\ \A s, t \in PendingFor(u) : s = t

InviteInv == faults = 0 => \A u \in User \ contested : Single(u)

LEMMA InviteInit == Init => InviteInv
<1> SUFFICES ASSUME Init, NEW u \in User PROVE Single(u)
  BY DEF InviteInv
<1>1. \A r \in Request : call[r].op # "invite"
  BY IdleGives DEF Init
<1>2. PendingFor(u) = {}
  BY DEF Init, PendingFor
<1> QED BY <1>1, <1>2 DEF Single, Inviting

(* A request moves on, or ends; what is pending does not grow. *)
LEMMA SingleMoves ==
  ASSUME NEW r \in Request, NEW u \in User, Single(u),
         \A q \in Request \ {r} : call'[q] = call[q],
         \/ call'[r].op = call[r].op /\ call'[r].user = call[r].user
         \/ call'[r].op # "invite",
         call'[r].op = "invite" /\ call'[r].user = u /\ call'[r].pc \in {"begin", "insert"}
           => PendingFor(u) = {},
         PendingFor(u)' \subseteq PendingFor(u)
  PROVE  Single(u)'
<1>1. \A q, s \in Request : Inviting(q, u)' /\ Inviting(s, u)' => q = s
  BY DEF Single, Inviting
<1>2. \A q \in Request :
        Inviting(q, u)' /\ call'[q].pc \in {"begin", "insert"} => PendingFor(u)' = {}
  BY DEF Single, Inviting
<1> QED BY <1>1, <1>2 DEF Single

LEMMA InviteStep ==
  ASSUME Basics, InviteInv, [Next]_vars
  PROVE  InviteInv'
<1>0. Types
  BY DEF Basics
<1>a. contested \subseteq contested'
  BY DEF Next, Step, Invite, Answer, MayInvite, CheckMember, CheckPending,
     GetInvitationByToken, Begin, CreateInvitation, UpdateInvitationStatus, Commit,
     CutShort, AddMember, RemoveMember, Expire, vars
<1>b. faults' = faults \/ faults' = faults + 1
  BY DEF Next, Step, Invite, Answer, MayInvite, CheckMember, CheckPending,
     GetInvitationByToken, Begin, CreateInvitation, UpdateInvitationStatus, Commit,
     CutShort, AddMember, RemoveMember, Expire, vars, Fault
<1>c. ~Fault \/ faults' # 0
  BY <1>0 DEF Fault, Types
<1> SUFFICES ASSUME NEW u \in User, u \notin contested', faults' = 0, Single(u)
    PROVE  Single(u)'
  BY <1>0, <1>a, <1>b DEF InviteInv, Types
<1>1. ASSUME NEW r \in Request, NEW v \in User, Invite(r, v) PROVE Single(u)'
  <2>1. /\ call'[r] = [pc |-> "permit", op |-> "invite", user |-> v, token |-> NoToken]
        /\ \A q \in Request \ {r} : call'[q] = call[q]
    BY <1>0, <1>1 DEF Invite, Types
  <2>2. PendingFor(u)' = PendingFor(u)
    BY <1>1 DEF Invite, rows, PendingFor
  <2>3. v = u => \A q \in Request : ~Inviting(q, u)
    BY <1>1 DEF Invite, Inviting
  <2>4. \A q, s \in Request : Inviting(q, u)' /\ Inviting(s, u)' => q = s
    BY <2>1, <2>3 DEF Single, Inviting
  <2>5. \A q \in Request :
          Inviting(q, u)' /\ call'[q].pc \in {"begin", "insert"} => PendingFor(u)' = {}
    BY <2>1, <2>2 DEF Single, Inviting
  <2> QED BY <2>2, <2>4, <2>5 DEF Single
<1>2. ASSUME NEW r \in Request, NEW op \in {"accept", "decline"}, NEW v \in User,
             NEW t \in Invitation, Answer(r, op, v, t)
      PROVE  Single(u)'
  <2>1. /\ call'[r].op # "invite"
        /\ \A q \in Request \ {r} : call'[q] = call[q]
    BY <1>0, <1>2 DEF Answer, Types
  <2>2. PendingFor(u)' = PendingFor(u)
    BY <1>2 DEF Answer, rows, PendingFor
  <2> QED BY <2>1, <2>2, SingleMoves
<1>3. ASSUME NEW r \in Request, NEW label \in Label, Goto(r, label),
             Inviting(r, u) /\ label \in {"begin", "insert"} => PendingFor(u) = {},
             PendingFor(u)' \subseteq PendingFor(u)
      PROVE  Single(u)'
  <2>1. /\ \A q \in Request \ {r} : call'[q] = call[q]
        /\ label = "idle" => call'[r] = Idle
        /\ label # "idle" => /\ call'[r].pc = label
                             /\ call'[r].op = call[r].op
                             /\ call'[r].user = call[r].user
    BY <1>0, <1>3, GotoGives
  <2>2. CASE label = "idle"
    BY <1>3, <2>1, <2>2, IdleGives, SingleMoves
  <2>3. CASE label # "idle"
    BY <1>3, <2>1, <2>3, SingleMoves DEF Inviting
  <2> QED BY <2>2, <2>3
<1>4. ASSUME NEW r \in Request, MayInvite(r) \/ CheckMember(r) PROVE Single(u)'
  <2>1. PICK label \in {"member", "pending", "idle"} : Goto(r, label)
    BY <1>4 DEF MayInvite, CheckMember
  <2>2. PendingFor(u)' = PendingFor(u)
    BY <1>4 DEF MayInvite, CheckMember, rows, PendingFor
  <2> QED BY <1>3, <2>1, <2>2 DEF Label
<1>5. ASSUME NEW r \in Request, CheckPending(r) PROVE Single(u)'
  <2>1. PICK label \in {"begin", "idle"} :
          Goto(r, label) /\ (label = "begin" => PendingFor(call[r].user) = {})
    BY <1>5, <1>c DEF CheckPending
  <2>2. PendingFor(u)' = PendingFor(u)
    BY <1>5 DEF CheckPending, rows, PendingFor
  <2> QED BY <1>3, <2>1, <2>2 DEF Label, Inviting
<1>6. ASSUME NEW r \in Request, GetInvitationByToken(r) PROVE Single(u)'
  <2>1. PICK label \in {"begin", "idle"} : Goto(r, label)
    BY <1>6 DEF GetInvitationByToken
  <2>2. PendingFor(u)' = PendingFor(u)
    BY <1>6 DEF GetInvitationByToken, rows, PendingFor
  <2>3. ~Inviting(r, u)
    BY <1>6 DEF GetInvitationByToken, At, Basics, Placed, Inviting
  <2> QED BY <1>3, <2>1, <2>2, <2>3 DEF Label
<1>7. ASSUME NEW r \in Request, Begin(r) PROVE Single(u)'
  <2>1. PICK label \in {"insert", "mark", "idle"} : Goto(r, label)
    BY <1>7 DEF Begin
  <2>2. PendingFor(u)' = PendingFor(u)
    BY <1>7 DEF Begin, rows, PendingFor
  <2>3. Inviting(r, u) => PendingFor(u) = {}
    BY <1>7 DEF Begin, At, Single
  <2> QED BY <1>3, <2>1, <2>2, <2>3 DEF Label
<1>8. ASSUME NEW r \in Request, CreateInvitation(r) PROVE Single(u)'
  <2>0. call[r].pc = "insert" /\ call[r].op = "invite"
    BY <1>8 DEF CreateInvitation, At, Basics, Placed
  <2>1. PICK t \in Invitation :
          /\ status[t] = "none"
          /\ status' = [status EXCEPT ![t] = "pending"]
          /\ invitee' = [invitee EXCEPT ![t] = call[r].user]
          /\ call' = [call EXCEPT ![r] = [@ EXCEPT !.pc = "commit", !.token = t]]
    BY <1>8, <1>c DEF CreateInvitation
  <2>2. /\ call'[r].pc = "commit" /\ call'[r].op = "invite"
        /\ call'[r].user = call[r].user
        /\ \A q \in Request \ {r} : call'[q] = call[q]
    BY <1>0, <2>0, <2>1 DEF Types, Call
  <2>3. CASE call[r].user # u
    <3>1. PendingFor(u)' = PendingFor(u)
      BY <1>0, <2>1, <2>3 DEF Types, PendingFor
    <3> QED BY <2>0, <2>2, <3>1, SingleMoves
  <2>4. CASE call[r].user = u
    <3>1. Inviting(r, u) BY <2>0, <2>4 DEF Inviting
    <3>2. PendingFor(u) = {} BY <2>0, <3>1 DEF Single
    <3>3. PendingFor(u)' \subseteq {t}
      BY <1>0, <2>1, <3>2 DEF Types, PendingFor
    <3>4. \A q \in Request : Inviting(q, u)' => q = r
      BY <2>2, <3>1 DEF Single, Inviting
    <3>5. \A q \in Request : ~(Inviting(q, u)' /\ call'[q].pc \in {"begin", "insert"})
      BY <2>2, <3>4
    <3>6. \A s, k \in PendingFor(u)' : s = k
      BY <3>3
    <3> QED BY <3>4, <3>5, <3>6 DEF Single
  <2> QED BY <2>3, <2>4
<1>9. ASSUME NEW r \in Request, UpdateInvitationStatus(r) PROVE Single(u)'
  <2>1. PICK label \in {"commit", "idle"} : Goto(r, label)
    BY <1>9 DEF UpdateInvitationStatus, Finish
  <2>2. PendingFor(u)' \subseteq PendingFor(u)
    <3>1. call[r].token \in Invitation /\ invitee' = invitee
      BY <1>9 DEF UpdateInvitationStatus, At, Basics, Placed
    <3>2. \A t \in Invitation : status'[t] = "pending" => status[t] = "pending"
      BY <1>0, <1>9, <3>1 DEF UpdateInvitationStatus, Types
    <3> QED BY <3>1, <3>2 DEF PendingFor
  <2> QED BY <1>3, <2>1, <2>2 DEF Label
<1>10. ASSUME NEW r \in Request, Commit(r) \/ CutShort(r) PROVE Single(u)'
  <2>1. Goto(r, "idle")
    BY <1>10 DEF Commit, CutShort, Finish
  <2>2. PendingFor(u)' = PendingFor(u)
    BY <1>10 DEF Commit, CutShort, rows, PendingFor
  <2> QED BY <1>3, <2>1, <2>2 DEF Label
<1>11. CASE \/ \E v \in User : AddMember(v) \/ RemoveMember(v)
            \/ \E s \in Invitation : Expire(s)
            \/ UNCHANGED vars
  <2>1. UNCHANGED <<call, status, invitee>>
    BY <1>11 DEF AddMember, RemoveMember, Expire, vars, rows
  <2> QED BY <2>1 DEF Single, Inviting, PendingFor
<1> QED
  BY <1>1, <1>2, <1>4, <1>5, <1>6, <1>7, <1>8, <1>9, <1>10, <1>11 DEF Next, Step

(* Without a unique index on the rows, only two requests at once can leave *)
(* a user with two pending invitations, as long as no read failed.         *)
THEOREM OnePendingInvitation == Spec => []OnePending
<1>1. InviteInv => OnePending
  BY DEF InviteInv, OnePending, Single
<1>2. Basics /\ InviteInv /\ [Next]_vars => InviteInv'
  BY InviteStep
<1> QED BY <1>1, <1>2, InviteInit, BasicsHold, PTL DEF Spec
=============================================================================
