--------------------------- MODULE ApprovalProofs ---------------------------
(***************************************************************************)
(* Approval for any number of requests, users and approval steps: what no  *)
(* crossing of handlers that read without a lock can break.  In the last   *)
(* part Idempotency, which wraps those handlers: the types, that an answer *)
(* is of the user's own execution, and that a second execution has one of  *)
(* the named causes.                                                       *)
(***************************************************************************)
EXTENDS Approval, Idempotency, SequenceTheorems, TLAPS

-----------------------------------------------------------------------------
(* The slots of the requests *)

\* A commit drops its own request and overtakes the others.
SlotsKept ==
    \A q \in Requests :
        \/ requests'[q].op = "idle"
        \/ /\ requests'[q].op = requests[q].op
           /\ requests'[q].user = requests[q].user
           /\ requests'[q].step = requests[q].step
           /\ requests'[q].next = requests[q].next
           /\ requests[q].overtaken => requests'[q].overtaken

AllOvertaken == \A q \in Requests : requests[q].op = "idle" \/ requests[q].overtaken

Slots == requests \in [Requests -> Request]

LEMMA IdleType == Idle \in Request /\ Idle.op = "idle"
  BY DEF Idle, Request, Null

LEMMA OvertakenRequest ==
    ASSUME NEW x \in Request
    PROVE  LET y == [x EXCEPT !.overtaken = TRUE] IN
           /\ y \in Request /\ y.overtaken
           /\ y.op = x.op /\ y.user = x.user /\ y.step = x.step /\ y.next = x.next
  BY DEF Request

LEMMA OvertakenSlots ==
    ASSUME Slots, NEW R \in SUBSET Requests, requests' = Overtaken(R)
    PROVE  Slots' /\ SlotsKept /\ AllOvertaken'
  <1>1. \A q \in Requests :
          \/ requests'[q] = Idle
          \/ requests'[q] = [requests[q] EXCEPT !.overtaken = TRUE]
    BY DEF Overtaken
  <1>2. \A q \in Requests : requests[q] \in Request
    BY DEF Slots
  <1>3. ASSUME NEW q \in Requests
        PROVE  /\ requests'[q] \in Request
               /\ \/ requests'[q].op = "idle"
                  \/ /\ requests'[q].overtaken
                     /\ requests'[q].op = requests[q].op
                     /\ requests'[q].user = requests[q].user
                     /\ requests'[q].step = requests[q].step
                     /\ requests'[q].next = requests[q].next
    <2>1. CASE requests'[q] = Idle
      BY <2>1, IdleType
    <2>2. CASE requests'[q] = [requests[q] EXCEPT !.overtaken = TRUE]
      BY <1>2, <2>2, OvertakenRequest
    <2>. QED
      BY <1>1, <2>1, <2>2
  <1>4. Slots'
    BY <1>3 DEF Slots, Overtaken
  <1>5. SlotsKept
    BY <1>3 DEF SlotsKept
  <1>6. AllOvertaken'
    BY <1>3 DEF AllOvertaken
  <1>. QED
    BY <1>4, <1>5, <1>6

LEMMA CommittingSlots ==
    ASSUME Slots, NEW r \in Requests, NEW op, Committing(r, op)
    PROVE  Slots' /\ SlotsKept /\ AllOvertaken'
  BY OvertakenSlots DEF Committing

LEMMA LockedSlots ==
    ASSUME Slots, NEW newRow, Locked(newRow)
    PROVE  Slots' /\ SlotsKept /\ AllOvertaken'
  BY OvertakenSlots DEF Locked

LEMMA ReadSlots ==
    ASSUME Slots, NEW r \in Requests, NEW x \in Request, Read(r, x)
    PROVE  /\ Slots'
           /\ requests'[r] = x
           /\ \A q \in Requests \ {r} : requests'[q] = requests[q]
           /\ UNCHANGED <<workflow, approvalSteps, actions, stale>>
  BY DEF Slots, Read

LEMMA FailSlots ==
    ASSUME Slots, NEW r \in Requests, Fail(r)
    PROVE  /\ Slots'
           /\ SlotsKept
           /\ \A q \in Requests : requests'[q].op = "idle" \/ requests'[q] = requests[q]
           /\ UNCHANGED <<workflow, approvalSteps, actions, stale>>
  <1>1. requests' = [requests EXCEPT ![r] = Idle]
    BY DEF Fail
  <1>2. \A q \in Requests : requests'[q] = Idle \/ requests'[q] = requests[q]
    BY <1>1 DEF Slots
  <1>3. Slots'
    BY <1>1, IdleType DEF Slots
  <1>. QED
    BY <1>2, <1>3, IdleType DEF Fail, SlotsKept

-----------------------------------------------------------------------------
(* Types *)

LEMMA StepsType ==
    ASSUME TypeOK
    PROVE  /\ DOMAIN approvalSteps = 1..Len(approvalSteps) /\ Len(approvalSteps) \in Nat
           /\ \A s \in DOMAIN approvalSteps : approvalSteps[s] \in ApprovalStep
           /\ Live \subseteq DOMAIN approvalSteps /\ Live \subseteq Nat \ {0}
  <1>1. approvalSteps \in Seq(ApprovalStep)
    BY DEF TypeOK
  <1>2. DOMAIN approvalSteps = 1..Len(approvalSteps) /\ Len(approvalSteps) \in Nat
    BY <1>1, LenProperties
  <1>. QED
    BY <1>1, <1>2, ElementOfSeq DEF Live

LEMMA WaitingType ==
    ASSUME NEW approvers \in ApproverLists
    PROVE  /\ Waiting(approvers) \in Seq(ApprovalStep)
           /\ Len(approvers) \in Nat /\ Len(Waiting(approvers)) = Len(approvers)
           /\ DOMAIN Waiting(approvers) = 1..Len(approvers)
           /\ \A n \in 1..Len(approvers) :
                /\ Waiting(approvers)[n].order = n
                /\ Waiting(approvers)[n].live
                /\ Waiting(approvers)[n].status = "WAITING"
  <1>1. approvers \in Seq(Users)
    BY ApprovalAssumption
  <1>2. Len(approvers) \in Nat /\ \A n \in 1..Len(approvers) : approvers[n] \in Users
    BY <1>1, LenProperties, ElementOfSeq
  <1>3. Waiting(approvers) \in [1..Len(approvers) -> ApprovalStep]
    BY <1>2 DEF Waiting, ApprovalStep
  <1>4. Waiting(approvers) \in Seq(ApprovalStep)
    BY <1>2, <1>3, IsASeq
  <1>5. Len(Waiting(approvers)) = Len(approvers)
    BY <1>2, <1>3, <1>4, LenProperties
  <1>. QED
    BY <1>2, <1>4, <1>5 DEF Waiting

\* The rows keep their users, their orders and whether they are deleted.
SameRows ==
    /\ DOMAIN approvalSteps' = DOMAIN approvalSteps
    /\ \A s \in DOMAIN approvalSteps :
         /\ approvalSteps'[s].user = approvalSteps[s].user
         /\ approvalSteps'[s].order = approvalSteps[s].order
         /\ approvalSteps'[s].live = approvalSteps[s].live

\* One row gets a new status.
Recolor(steps, s, status) == [steps EXCEPT ![s].status = status]

LEMMA RecolorRows ==
    ASSUME NEW steps \in Seq(ApprovalStep), NEW s,
           NEW status \in {"WAITING", "PENDING", "APPROVED", "REJECTED"}
    PROVE  LET new == Recolor(steps, s, status) IN
           /\ new \in Seq(ApprovalStep)
           /\ DOMAIN new = DOMAIN steps
           /\ \A t \in DOMAIN steps :
                /\ new[t].user = steps[t].user
                /\ new[t].order = steps[t].order
                /\ new[t].live = steps[t].live
                /\ new[t].status = IF t = s THEN status ELSE steps[t].status
  <1>. DEFINE new == Recolor(steps, s, status)
  <1>1. DOMAIN steps = 1..Len(steps) /\ Len(steps) \in Nat
    BY LenProperties
  <1>2. \A t \in DOMAIN steps : steps[t] \in ApprovalStep
    BY <1>1, ElementOfSeq
  <1>3. /\ DOMAIN new = DOMAIN steps
        /\ \A t \in DOMAIN steps :
             new[t] = IF t = s THEN [steps[t] EXCEPT !.status = status] ELSE steps[t]
    BY DEF Recolor
  <1>4. \A t \in DOMAIN steps :
          /\ new[t] \in ApprovalStep
          /\ new[t].user = steps[t].user
          /\ new[t].order = steps[t].order
          /\ new[t].live = steps[t].live
          /\ new[t].status = IF t = s THEN status ELSE steps[t].status
    BY <1>2, <1>3 DEF ApprovalStep
  <1>5. new \in [1..Len(steps) -> ApprovalStep]
    BY <1>1, <1>3, <1>4 DEF Recolor
  <1>6. new \in Seq(ApprovalStep)
    BY <1>1, <1>5, IsASeq
  <1>. QED
    BY <1>3, <1>4, <1>6

\* What the transactions do to the rows.
LEMMA StartRows ==
    ASSUME TypeOK, NEW r \in Requests, StartApprovalCommit(r)
    PROVE  /\ approvalSteps' \in Seq(ApprovalStep) /\ SameRows
           /\ \A t \in DOMAIN approvalSteps :
                approvalSteps'[t].status =
                  IF t = requests[r].step /\ approvalSteps[t].live
                  THEN "PENDING" ELSE approvalSteps[t].status
  <1>. DEFINE s == requests[r].step
  <1>1. approvalSteps \in Seq(ApprovalStep)
    BY DEF TypeOK
  <1>2. approvalSteps' = SetStatus(s, "PENDING")
    BY DEF StartApprovalCommit
  <1>3. CASE s \in DOMAIN approvalSteps
    <2>1. approvalSteps[s] \in ApprovalStep
      BY <1>3, StepsType
    <2>2. PICK status \in {"WAITING", "PENDING", "APPROVED", "REJECTED"} :
            status = IF approvalSteps[s].live THEN "PENDING" ELSE approvalSteps[s].status
      BY <2>1 DEF ApprovalStep
    <2>3. approvalSteps' = Recolor(approvalSteps, s, status)
      BY <1>2, <2>2 DEF SetStatus, Recolor
    <2>4. /\ approvalSteps' \in Seq(ApprovalStep)
          /\ DOMAIN approvalSteps' = DOMAIN approvalSteps
          /\ \A t \in DOMAIN approvalSteps :
               /\ approvalSteps'[t].user = approvalSteps[t].user
               /\ approvalSteps'[t].order = approvalSteps[t].order
               /\ approvalSteps'[t].live = approvalSteps[t].live
               /\ approvalSteps'[t].status = IF t = s THEN status ELSE approvalSteps[t].status
      BY <1>1, <2>3, RecolorRows
    <2>. QED
      BY <2>2, <2>4 DEF SameRows
  <1>4. CASE s \notin DOMAIN approvalSteps
    <2>1. approvalSteps' = approvalSteps
      BY <1>1, <1>2, <1>4 DEF SetStatus
    <2>. QED
      BY <1>1, <1>4, <2>1 DEF SameRows
  <1>. QED
    BY <1>3, <1>4

LEMMA ApproveRows ==
    ASSUME TypeOK, NEW r \in Requests, ApproveCommit(r)
    PROVE  /\ approvalSteps' \in Seq(ApprovalStep) /\ SameRows
           /\ \A t \in DOMAIN approvalSteps :
                approvalSteps'[t].status =
                  IF t = requests[r].next THEN "PENDING"
                  ELSE IF t = requests[r].step THEN "APPROVED" ELSE approvalSteps[t].status
  <1>. DEFINE middle == Recolor(approvalSteps, requests[r].step, "APPROVED")
  <1>1. approvalSteps \in Seq(ApprovalStep)
    BY DEF TypeOK
  <1>2. approvalSteps' = Recolor(middle, requests[r].next, "PENDING")
    BY DEF ApproveCommit, Recolor
  <1>3. /\ middle \in Seq(ApprovalStep) /\ DOMAIN middle = DOMAIN approvalSteps
        /\ \A t \in DOMAIN approvalSteps :
             /\ middle[t].user = approvalSteps[t].user
             /\ middle[t].order = approvalSteps[t].order
             /\ middle[t].live = approvalSteps[t].live
             /\ middle[t].status = IF t = requests[r].step THEN "APPROVED"
                                   ELSE approvalSteps[t].status
    BY <1>1, RecolorRows
  <1>. HIDE DEF middle
  <1>4. /\ approvalSteps' \in Seq(ApprovalStep) /\ DOMAIN approvalSteps' = DOMAIN middle
        /\ \A t \in DOMAIN middle :
             /\ approvalSteps'[t].user = middle[t].user
             /\ approvalSteps'[t].order = middle[t].order
             /\ approvalSteps'[t].live = middle[t].live
             /\ approvalSteps'[t].status = IF t = requests[r].next THEN "PENDING"
                                           ELSE middle[t].status
    BY <1>2, <1>3, RecolorRows
  <1>. QED
    BY <1>3, <1>4 DEF SameRows

LEMMA LastRows ==
    ASSUME TypeOK, NEW r \in Requests, NEW reviewCycle, NEW finalUsers,
           ApproveLastCommit(r, reviewCycle, finalUsers)
    PROVE  /\ approvalSteps' \in Seq(ApprovalStep) /\ SameRows
           /\ \A t \in DOMAIN approvalSteps :
                approvalSteps'[t].status =
                  IF t = requests[r].step THEN "APPROVED" ELSE approvalSteps[t].status
  <1>1. approvalSteps \in Seq(ApprovalStep)
    BY DEF TypeOK
  <1>2. approvalSteps' = Recolor(approvalSteps, requests[r].step, "APPROVED")
    BY DEF ApproveLastCommit, Recolor
  <1>. QED
    BY <1>1, <1>2, RecolorRows DEF SameRows

LEMMA RejectRows ==
    ASSUME TypeOK, NEW r \in Requests, RejectCommit(r)
    PROVE  /\ approvalSteps' \in Seq(ApprovalStep) /\ SameRows
           /\ \A t \in DOMAIN approvalSteps :
                approvalSteps'[t].status =
                  IF t = requests[r].step THEN "REJECTED" ELSE approvalSteps[t].status
  <1>1. approvalSteps \in Seq(ApprovalStep)
    BY DEF TypeOK
  <1>2. approvalSteps' = Recolor(approvalSteps, requests[r].step, "REJECTED")
    BY DEF RejectCommit, Recolor
  <1>. QED
    BY <1>1, <1>2, RecolorRows DEF SameRows

\* New approvers: the old rows are deleted, the new ones are behind them.
LEMMA ReplaceRows ==
    ASSUME TypeOK, NEW r \in Requests, NEW approvers \in ApproverLists,
           NEW finalUsers, NEW validated, UpdateCommit(r, approvers, finalUsers, validated)
    PROVE  /\ approvalSteps' \in Seq(ApprovalStep)
           /\ \A s \in DOMAIN approvalSteps : /\ s \in DOMAIN approvalSteps'
                                              /\ s \notin Live'
           /\ \A s \in Live' : /\ approvalSteps'[s].order = s - Len(approvalSteps)
                               /\ approvalSteps'[s].status = "WAITING"
           /\ actions' = {}
  <1>. DEFINE old == [ s \in DOMAIN approvalSteps |->
                         [approvalSteps[s] EXCEPT !.live = FALSE] ]
              new == Waiting(approvers)
  <1>0. approvers # <<>>
    BY ApprovalAssumption
  <1>1. approvalSteps' = old \o new /\ actions' = {}
    BY <1>0 DEF UpdateCommit
  <1>2. \A s \in DOMAIN approvalSteps : old[s] \in ApprovalStep /\ ~old[s].live
    BY StepsType DEF ApprovalStep
  <1>3. old \in [1..Len(approvalSteps) -> ApprovalStep]
    BY <1>2, StepsType
  <1>4. old \in Seq(ApprovalStep) /\ Len(old) = Len(approvalSteps)
    BY <1>3, StepsType, IsASeq, LenProperties
  <1>5. /\ new \in Seq(ApprovalStep) /\ Len(new) \in Nat
        /\ \A n \in 1..Len(new) : new[n].order = n /\ new[n].status = "WAITING"
    BY WaitingType
  <1>. HIDE DEF old, new
  <1>6. /\ approvalSteps' \in Seq(ApprovalStep)
        /\ Len(approvalSteps') = Len(approvalSteps) + Len(new)
        /\ \A i \in 1..Len(approvalSteps) + Len(new) :
             approvalSteps'[i] = IF i <= Len(approvalSteps) THEN old[i]
                                 ELSE new[i - Len(approvalSteps)]
    <2>1. /\ old \o new \in Seq(ApprovalStep)
          /\ Len(old \o new) = Len(old) + Len(new)
          /\ \A i \in 1..Len(old) + Len(new) :
               (old \o new)[i] = IF i <= Len(old) THEN old[i] ELSE new[i - Len(old)]
      BY <1>4, <1>5, ConcatProperties, Zenon
    <2>2. /\ approvalSteps' \in Seq(ApprovalStep)
          /\ Len(approvalSteps') = Len(old) + Len(new)
          /\ \A i \in 1..Len(old) + Len(new) :
               approvalSteps'[i] = IF i <= Len(old) THEN old[i] ELSE new[i - Len(old)]
      BY <1>1, <2>1, Zenon
    <2>. QED
      BY <1>4, <2>2, Zenon
  <1>7. DOMAIN approvalSteps' = 1..Len(approvalSteps) + Len(new)
    BY <1>6, LenProperties
  <1>8. \A s \in Live' : s \in 1..Len(approvalSteps) + Len(new) /\ s > Len(approvalSteps)
    BY <1>2, <1>6, <1>7, StepsType DEF Live
  <1>9. \A s \in Live' : /\ approvalSteps'[s] = new[s - Len(approvalSteps)]
                         /\ s - Len(approvalSteps) \in 1..Len(new)
    BY <1>5, <1>6, <1>8, StepsType
  <1>. QED
    BY <1>1, <1>5, <1>6, <1>7, <1>8, <1>9, StepsType

\* A slot refers to rows that were inserted: together with it the types are
\* inductive.
SlotSteps ==
    \A q \in Requests :
        requests[q].op \in {"start", "approve", "reject"} =>
            /\ requests[q].user \in Users
            /\ requests[q].step \in DOMAIN approvalSteps
            /\ requests[q].op = "approve" /\ requests[q].next # Null
               => requests[q].next \in DOMAIN approvalSteps

Typed == TypeOK /\ SlotSteps

LEMMA RowType ==
    ASSUME NEW newRow \in Workflow, NEW status \in WorkflowStatus,
           NEW assigned \in Users \cup {None}, NEW cycle \in Nat
    PROVE  /\ [newRow EXCEPT !.status = status, !.activeCycle = cycle,
                          !.assigned = assigned] \in Workflow
           /\ [newRow EXCEPT !.status = status, !.assigned = assigned,
                          !.activeCycle = cycle] \in Workflow
           /\ [newRow EXCEPT !.status = status, !.assigned = assigned] \in Workflow
  BY DEF Workflow

LEMMA SignedType ==
    ASSUME Typed, NEW r \in Requests, requests[r].op \in {"approve", "reject"}, NEW verdict \in {"APPROVED", "REJECTED"}
    PROVE  Signed(r, verdict) \in Action
  BY DEF Typed, TypeOK, SlotSteps, Request, Signed, Action

\* What may be stale.
Operations == {"start", "approve", "reject", "update", "remove"}

LEMMA ReadTyped ==
    ASSUME Typed, NEW r \in Requests, NEW x \in Request, Read(r, x),
           x.op \in {"start", "approve", "reject"} =>
               /\ x.user \in Users
               /\ x.step \in Live
               /\ x.next \in Live \cup {Null}
    PROVE  Typed'
  <1>1. /\ Slots' /\ requests'[r] = x
        /\ \A q \in Requests \ {r} : requests'[q] = requests[q]
        /\ UNCHANGED <<workflow, approvalSteps, actions, stale>>
    BY ReadSlots DEF Typed, TypeOK, Slots
  <1>2. TypeOK'
    BY <1>1 DEF Typed, TypeOK, Slots, Workflow, Action
  <1>3. SlotSteps'
    BY <1>1, StepsType DEF Typed, SlotSteps
  <1>. QED
    BY <1>2, <1>3 DEF Typed

LEMMA CommitTyped ==
    ASSUME Typed, Slots', SlotsKept, workflow' \in Workflow,
           approvalSteps' \in Seq(ApprovalStep),
           \A s \in DOMAIN approvalSteps : s \in DOMAIN approvalSteps',
           actions' \subseteq Action,
           stale' \subseteq Operations
    PROVE  Typed'
  <1>1. TypeOK'
    BY DEF TypeOK, Slots, Action, Operations
  <1>2. SlotSteps'
    BY DEF Typed, SlotSteps, SlotsKept
  <1>. QED
    BY <1>1, <1>2 DEF Typed

LEMMA CommittingKeeps ==
    ASSUME Typed, NEW r \in Requests, NEW op \in Operations,
           Committing(r, op)
    PROVE  /\ Slots' /\ SlotsKept /\ AllOvertaken' /\ requests[r].op = op
           /\ requests[r] \in Request
           /\ stale' \subseteq Operations
           /\ stale \subseteq stale'
           /\ op \in stale' \/ (~requests[r].overtaken /\ stale' = stale)
  <1>1. Slots
    BY DEF Typed, TypeOK, Slots
  <1>2. Slots' /\ SlotsKept /\ AllOvertaken'
    BY <1>1, CommittingSlots
  <1>. QED
    BY <1>1, <1>2 DEF Committing, Slots, Typed, TypeOK, Operations

\* The steps, by what they change: a slot, the tables, or the row alone.
Reads(r, u) ==
    \/ StartApprovalRead(r, u)
    \/ ApproveRead(r, u)
    \/ RejectRead(r, u)
    \/ UpdateRead(r)
    \/ \E superAdmin \in BOOLEAN : RemoveRead(r, superAdmin)

Commit(r) ==
    \/ StartApprovalCommit(r)
    \/ ApproveCommit(r)
    \/ \E reviewCycle \in BOOLEAN, finalUsers \in PositionHolders :
         ApproveLastCommit(r, reviewCycle, finalUsers)
    \/ RejectCommit(r)
    \/ \E approvers \in ApproverLists \cup {<<>>}, finalUsers \in SUBSET Users,
          validated \in BOOLEAN :
         UpdateCommit(r, approvers, finalUsers, validated)
    \/ RemoveCommit(r)

Handler(u) ==
    \/ \E reviewer \in Users : CreateCycle(u, reviewer)
    \/ CompleteCycle(u)
    \/ SkipReviewCycle(u)
    \/ \E terminal \in {"CLOSED", "CANCELLED"} : End(u, terminal)

\* The handlers of a cycle that goes on: they assign its next reviewer.
InCycle(reviewer) == CompleteStep(reviewer) \/ ForwardStep(reviewer)

LEMMA NextCases ==
    ASSUME TypeOK, [Next]_vars
    PROVE  \/ \E r \in Requests, u \in Users : Reads(r, u)
           \/ \E r \in Requests : Commit(r)
           \/ \E r \in Requests : Fail(r)
           \/ \E u \in Users : Handler(u)
           \/ \E reviewer \in Users : InCycle(reviewer)
           \/ UNCHANGED vars
  <1>1. \A x \in {workflow.finalUsers} \cup {{u} : u \in Users} : x \in SUBSET Users
    BY DEF TypeOK, Workflow
  <1>2. workflow.createdBy \in Users
    BY DEF TypeOK, Workflow
  <1>. QED
    BY <1>1, <1>2 DEF Next, Reads, Commit, Handler, InCycle

LEMMA StepsTyped ==
    ASSUME Typed, [Next]_vars
    PROVE  Typed'
  <1>. USE DEF Typed, Operations
  <1>1. ASSUME NEW r \in Requests, NEW u \in Users, StartApprovalRead(r, u)
        PROVE  Typed'
    <2>1. PICK s \in Live : Read(r, [Idle EXCEPT !.op = "start", !.user = u, !.step = s])
      BY <1>1 DEF StartApprovalRead
    <2>2. [Idle EXCEPT !.op = "start", !.user = u, !.step = s] \in Request
      BY StepsType DEF Idle, Request, Null
    <2>. QED
      BY <2>1, <2>2, ReadTyped DEF Idle
  <1>2. ASSUME NEW r \in Requests, NEW u \in Users, ApproveRead(r, u)
        PROVE  Typed'
    <2>1. PICK s \in Live, next \in Live \cup {Null} :
            Read(r, [op |-> "approve", user |-> u, step |-> s, next |-> next,
                     finalUsers |-> workflow.finalUsers, overtaken |-> FALSE])
      BY <1>2 DEF ApproveRead
    <2>2. [op |-> "approve", user |-> u, step |-> s, next |-> next,
           finalUsers |-> workflow.finalUsers, overtaken |-> FALSE] \in Request
      BY StepsType DEF TypeOK, Workflow, Request, Null
    <2>. QED
      BY <2>1, <2>2, ReadTyped
  <1>3. ASSUME NEW r \in Requests, NEW u \in Users, RejectRead(r, u)
        PROVE  Typed'
    <2>1. PICK s \in Live : Read(r, [Idle EXCEPT !.op = "reject", !.user = u, !.step = s])
      BY <1>3 DEF RejectRead
    <2>2. [Idle EXCEPT !.op = "reject", !.user = u, !.step = s] \in Request
      BY StepsType DEF Idle, Request, Null
    <2>. QED
      BY <2>1, <2>2, ReadTyped DEF Idle
  <1>4. ASSUME NEW r \in Requests, NEW superAdmin \in BOOLEAN,
               UpdateRead(r) \/ RemoveRead(r, superAdmin)
        PROVE  Typed'
    <2>1. PICK op \in {"update", "remove"} : Read(r, [Idle EXCEPT !.op = op])
      BY <1>4 DEF UpdateRead, RemoveRead
    <2>2. [Idle EXCEPT !.op = op] \in Request
      BY DEF Idle, Request, Null
    <2>. QED
      BY <2>1, <2>2, ReadTyped DEF Idle
  <1>5. ASSUME NEW r \in Requests, StartApprovalCommit(r)
        PROVE  Typed'
    <2>1. Committing(r, "start") /\ actions' = actions
      BY <1>5 DEF StartApprovalCommit
    <2>2. /\ requests[r].step \in DOMAIN approvalSteps
          /\ approvalSteps[requests[r].step] \in ApprovalStep
      BY <2>1, CommittingKeeps, StepsType DEF SlotSteps
    <2>3. workflow' \in Workflow
      BY <1>5, <2>2 DEF StartApprovalCommit, TypeOK, ApprovalStep, Workflow, WorkflowStatus
    <2>. QED
      BY <1>5, <2>1, <2>3, StartRows, CommittingKeeps, CommitTyped DEF SameRows, TypeOK
  <1>6. ASSUME NEW r \in Requests, ApproveCommit(r)
        PROVE  Typed'
    <2>1. Committing(r, "approve") /\ actions' = actions \cup {Signed(r, "APPROVED")}
      BY <1>6 DEF ApproveCommit
    <2>2. /\ requests[r].next \in DOMAIN approvalSteps
          /\ approvalSteps[requests[r].next] \in ApprovalStep
      BY <1>6, <2>1, CommittingKeeps, StepsType DEF SlotSteps, ApproveCommit
    <2>3. workflow' \in Workflow
      BY <1>6, <2>2 DEF ApproveCommit, WithTurn, TypeOK, ApprovalStep, Workflow
    <2>4. actions' \subseteq Action
      BY <2>1, CommittingKeeps, SignedType DEF TypeOK
    <2>. QED
      BY <1>6, <2>1, <2>3, <2>4, ApproveRows, CommittingKeeps, CommitTyped DEF SameRows
  <1>7. ASSUME NEW r \in Requests, NEW reviewCycle \in BOOLEAN,
               NEW finalUsers \in PositionHolders,
               ApproveLastCommit(r, reviewCycle, finalUsers)
        PROVE  Typed'
    <2>1. Committing(r, "approve") /\ actions' = actions \cup {Signed(r, "APPROVED")}
      BY <1>7 DEF ApproveLastCommit
    <2>2. PICK first \in Users \cup {None} :
            workflow' = [workflow EXCEPT
              !.status = IF reviewCycle THEN "PENDING_REVIEW_CYCLE"
                                        ELSE "AVAILABLE_FOR_FINAL_USERS",
              !.approvalOrder = Null, !.assigned = first,
              !.finalUsers = finalUsers, !.reviewCycleEnabled = reviewCycle]
      BY <1>7 DEF ApproveLastCommit, PositionHolders
    <2>3. workflow' \in Workflow
      <3>. DEFINE status == IF reviewCycle THEN "PENDING_REVIEW_CYCLE"
                                           ELSE "AVAILABLE_FOR_FINAL_USERS"
      <3>1. status \in WorkflowStatus /\ Null \in Nat
        BY DEF WorkflowStatus, Null
      <3>2. workflow' = [workflow EXCEPT !.status = status, !.approvalOrder = Null,
                           !.assigned = first, !.finalUsers = finalUsers,
                           !.reviewCycleEnabled = reviewCycle]
        BY <2>2
      <3>. HIDE DEF status
      <3>. QED
        BY <3>1, <3>2 DEF TypeOK, Workflow, PositionHolders
    <2>4. actions' \subseteq Action
      BY <2>1, CommittingKeeps, SignedType DEF TypeOK
    <2>. QED
      BY <1>7, <2>1, <2>3, <2>4, LastRows, CommittingKeeps, CommitTyped DEF SameRows
  <1>8. ASSUME NEW r \in Requests, RejectCommit(r)
        PROVE  Typed'
    <2>1. Committing(r, "reject") /\ actions' = actions \cup {Signed(r, "REJECTED")}
      BY <1>8 DEF RejectCommit
    <2>2. requests[r].step \in Nat
      BY <2>1, CommittingKeeps DEF Request
    <2>3. workflow' \in Workflow
      BY <1>8, <2>2 DEF RejectCommit, TypeOK, Workflow, WorkflowStatus
    <2>4. actions' \subseteq Action
      BY <2>1, CommittingKeeps, SignedType DEF TypeOK
    <2>. QED
      BY <1>8, <2>1, <2>3, <2>4, RejectRows, CommittingKeeps, CommitTyped DEF SameRows
  <1>9. ASSUME NEW r \in Requests, NEW approvers \in ApproverLists \cup {<<>>},
               NEW finalUsers \in SUBSET Users, NEW validated \in BOOLEAN,
               UpdateCommit(r, approvers, finalUsers, validated)
        PROVE  Typed'
    <2>1. Committing(r, "update")
      BY <1>9 DEF UpdateCommit
    <2>2. workflow' \in Workflow
      BY <1>9 DEF UpdateCommit, TypeOK, Workflow
    <2>3. CASE approvers = <<>>
      BY <1>9, <2>1, <2>2, <2>3, CommittingKeeps, CommitTyped DEF UpdateCommit, TypeOK
    <2>4. CASE approvers \in ApproverLists
      <3>1. /\ approvalSteps' \in Seq(ApprovalStep) /\ actions' = {}
            /\ \A s \in DOMAIN approvalSteps : s \in DOMAIN approvalSteps'
        BY <1>9, <2>4, ReplaceRows
      <3>. QED
        BY <2>1, <2>2, <3>1, CommittingKeeps, CommitTyped
    <2>. QED
      BY <2>3, <2>4
  <1>10. ASSUME NEW r \in Requests, RemoveCommit(r)
         PROVE  Typed'
    <2>1. Committing(r, "remove") /\ UNCHANGED <<approvalSteps, actions>>
      BY <1>10 DEF RemoveCommit
    <2>2. workflow' \in Workflow
      BY <1>10 DEF RemoveCommit, TypeOK, Workflow
    <2>. QED
      BY <2>1, <2>2, CommittingKeeps, CommitTyped DEF TypeOK
  <1>11. ASSUME NEW r \in Requests, Fail(r)
         PROVE  Typed'
    <2>1. /\ Slots' /\ SlotsKept
          /\ UNCHANGED <<workflow, approvalSteps, actions, stale>>
      BY <1>11, FailSlots DEF TypeOK, Slots
    <2>. QED
      BY <2>1, CommitTyped DEF TypeOK
  <1>12. ASSUME NEW newRow \in Workflow, Locked(newRow)
         PROVE  Typed'
    <2>1. Slots' /\ SlotsKept
      BY <1>12, LockedSlots DEF TypeOK, Slots
    <2>. QED
      BY <1>12, <2>1, CommitTyped DEF TypeOK, Locked
  <1>13. ASSUME NEW u \in Users, NEW reviewer \in Users, CreateCycle(u, reviewer)
         PROVE  Typed'
    BY <1>12, <1>13, RowType DEF CreateCycle, TypeOK, WorkflowStatus
  <1>14. ASSUME NEW u \in Users, CompleteCycle(u)
         PROVE  Typed'
    BY <1>12, <1>14, RowType DEF CompleteCycle, TypeOK, WorkflowStatus, Null
  <1>15. ASSUME NEW u \in Users, SkipReviewCycle(u)
         PROVE  Typed'
    BY <1>12, <1>15, RowType DEF SkipReviewCycle, TypeOK, WorkflowStatus
  <1>16. ASSUME NEW u \in Users, NEW terminal \in {"CLOSED", "CANCELLED"}, End(u, terminal)
         PROVE  Typed'
    <2>1. workflow.createdBy \in Users /\ terminal \in WorkflowStatus /\ Null \in Nat
      BY DEF TypeOK, Workflow, WorkflowStatus, Null
    <2>2. [workflow EXCEPT !.status = terminal, !.assigned = workflow.createdBy,
                           !.activeCycle = Null] \in Workflow
      BY <2>1, RowType DEF TypeOK
    <2>. QED
      BY <1>12, <1>16, <2>2 DEF End
  <1>17. ASSUME NEW reviewer \in Users, InCycle(reviewer)
         PROVE  Typed'
    <2>1. [workflow EXCEPT !.assigned = reviewer] \in Workflow
      BY DEF TypeOK, Workflow
    <2>. QED
      BY <1>12, <1>17, <2>1 DEF InCycle, CompleteStep, ForwardStep
  <1>18. CASE UNCHANGED vars
    <2>1. Slots' /\ SlotsKept
      BY <1>18 DEF vars, TypeOK, Slots, SlotsKept
    <2>. QED
      BY <1>18, <2>1, CommitTyped DEF vars, TypeOK
  <1>. QED
    BY <1>1, <1>2, <1>3, <1>4, <1>5, <1>6, <1>7, <1>8, <1>9, <1>10, <1>11,
       <1>13, <1>14, <1>15, <1>16, <1>17, <1>18, NextCases DEF Reads, Commit, Handler

LEMMA TypedInit == Init => Typed
  <1>. SUFFICES ASSUME Init
                PROVE  Typed
    OBVIOUS
  <1>1. approvalSteps \in Seq(ApprovalStep)
    BY WaitingType DEF Init
  <1>2. workflow \in Workflow
    <2>1. /\ {"DRAFT"} \subseteq WorkflowStatus /\ {FALSE} \subseteq BOOLEAN
          /\ {None} \subseteq Users \cup {None} /\ {Null} \subseteq Nat
      BY DEF WorkflowStatus, Null
    <2>2. {{}} \cup {{u} : u \in Users} \subseteq SUBSET Users
      OBVIOUS
    <2>. QED
      BY <2>1, <2>2 DEF Init, Workflow
  <1>3. requests \in [Requests -> Request] /\ SlotSteps
    BY IdleType DEF Init, SlotSteps, Idle
  <1>. QED
    BY <1>1, <1>2, <1>3 DEF Init, Typed, TypeOK

LEMMA TypedAlways == Spec => []Typed
  <1>. QED
    BY TypedInit, StepsTyped, PTL DEF Spec

\* Whatever the requests read and however late they commit, every table holds
\* rows and every slot a snapshot of the kind the handlers work on.
THEOREM TypeCorrect == Spec => []TypeOK
  <1>1. Typed => TypeOK
    BY DEF Typed
  <1>. QED
    BY <1>1, TypedAlways, PTL

-----------------------------------------------------------------------------
(* The turns.  No staleness breaks them: a slot refers to live rows only as *)
(* long as no edit replaced them, and the orders of a row never change.     *)

EarlierApproved(s) ==
    \A t \in Live : approvalSteps[t].order < approvalSteps[s].order => Approved(t)

LiveOrders ==
    \A s, t \in Live : approvalSteps[s].order = approvalSteps[t].order => s = t

\* What a start or a decision was told of the order of the rows is still so.
StartTurn(q) == \A t \in Live : approvalSteps[requests[q].step].order <= approvalSteps[t].order

NextTurn(q) ==
    IF requests[q].next = Null
    THEN After(requests[q].step) = {}
    ELSE /\ requests[q].next \in Live
         /\ \A t \in Live :
              approvalSteps[t].order < approvalSteps[requests[q].next].order
              => approvalSteps[t].order <= approvalSteps[requests[q].step].order

SlotTurns ==
    \A q \in Requests :
        requests[q].step \in Live =>
            /\ requests[q].op = "start" => StartTurn(q)
            /\ requests[q].op \in {"approve", "reject"} => EarlierApproved(requests[q].step)
            /\ requests[q].op = "approve" => NextTurn(q)

StatusTurns ==
    \A s \in Live : approvalSteps[s].status # "WAITING" => EarlierApproved(s)

ActionTurns == \A a \in actions : a.step \in Live /\ EarlierApproved(a.step)

Turns == LiveOrders /\ SlotTurns /\ StatusTurns /\ ActionTurns

LEMMA RowsKept ==
    ASSUME Typed, SameRows, actions \subseteq actions'
    PROVE  /\ Live' = Live
           /\ \A s \in Live : approvalSteps'[s].order = approvalSteps[s].order
           /\ \A s \in Live : Approved(s) => Approved(s)'
           /\ \A s \in Live : EarlierApproved(s) => EarlierApproved(s)'
  <1>1. Live' = Live /\ \A s \in Live : approvalSteps'[s].order = approvalSteps[s].order
    BY DEF SameRows, Live
  <1>2. \A s \in Live : Approved(s) => Approved(s)'
    BY DEF Approved
  <1>. QED
    BY <1>1, <1>2 DEF EarlierApproved

LEMMA TurnsKept ==
    ASSUME Typed, Turns, SameRows, actions \subseteq actions', SlotsKept
    PROVE  LiveOrders' /\ SlotTurns'
  <1>1. LiveOrders'
    BY RowsKept DEF Turns, LiveOrders
  <1>2. ASSUME NEW q \in Requests, requests'[q].step \in Live', requests'[q].op # "idle"
        PROVE  /\ requests'[q].op = "start" => StartTurn(q)'
               /\ requests'[q].op \in {"approve", "reject"}
                  => EarlierApproved(requests[q].step)'
               /\ requests'[q].op = "approve" => NextTurn(q)'
    <2>1. /\ requests'[q].op = requests[q].op /\ requests'[q].step = requests[q].step
          /\ requests'[q].next = requests[q].next /\ requests[q].step \in Live
      BY <1>2, RowsKept DEF SlotsKept
    <2>2. requests'[q].op = "start" => StartTurn(q)'
      BY <2>1, RowsKept DEF Turns, SlotTurns, StartTurn
    <2>3. requests'[q].op \in {"approve", "reject"} => EarlierApproved(requests[q].step)'
      <3>1. requests[q].op \in {"approve", "reject"} => EarlierApproved(requests[q].step)
        BY <2>1 DEF Turns, SlotTurns
      <3>. QED
        BY <2>1, <3>1, RowsKept DEF EarlierApproved
    <2>4. requests'[q].op = "approve" => NextTurn(q)'
      BY <2>1, RowsKept DEF Turns, SlotTurns, NextTurn, After
    <2>. QED
      BY <2>2, <2>3, <2>4
  <1>3. SlotTurns'
    BY <1>2 DEF SlotTurns
  <1>. QED
    BY <1>1, <1>3

\* The steps that touch neither the rows nor the decisions.
LEMMA QuietTurns ==
    ASSUME Typed, Turns, SlotsKept, UNCHANGED <<approvalSteps, actions>>
    PROVE  Turns'
  <1>1. SameRows /\ actions \subseteq actions'
    BY DEF SameRows
  <1>2. Live' = Live /\ \A s \in Live : EarlierApproved(s) => EarlierApproved(s)'
    BY <1>1, RowsKept
  <1>3. StatusTurns' /\ ActionTurns'
    BY <1>2 DEF Turns, StatusTurns, ActionTurns
  <1>. QED
    BY <1>1, <1>3, TurnsKept DEF Turns

LEMMA ReadTurns ==
    ASSUME Typed, Turns, NEW r \in Requests, NEW x \in Request, Read(r, x),
           /\ x.op = "start" => \A t \in Live : approvalSteps[x.step].order <= approvalSteps[t].order
           /\ x.op \in {"approve", "reject"} => EarlierApproved(x.step)
           /\ x.op = "approve" =>
                IF x.next = Null
                THEN After(x.step) = {}
                ELSE /\ x.next \in Live
                     /\ \A t \in Live :
                          approvalSteps[t].order < approvalSteps[x.next].order
                          => approvalSteps[t].order <= approvalSteps[x.step].order
    PROVE  Turns'
  <1>1. /\ requests'[r] = x
        /\ \A q \in Requests \ {r} : requests'[q] = requests[q]
        /\ UNCHANGED <<workflow, approvalSteps, actions, stale>>
    BY ReadSlots DEF Typed, TypeOK, Slots
  <1>2. Live' = Live /\ \A s : EarlierApproved(s)' <=> EarlierApproved(s)
    BY <1>1 DEF Live, EarlierApproved, Approved
  <1>3. LiveOrders' /\ StatusTurns' /\ ActionTurns'
    BY <1>1, <1>2 DEF Turns, LiveOrders, StatusTurns, ActionTurns
  <1>4. \A q \in Requests \ {r} :
          /\ StartTurn(q)' <=> StartTurn(q)
          /\ NextTurn(q)' <=> NextTurn(q)
    BY <1>1, <1>2 DEF StartTurn, NextTurn, After
  <1>5. ASSUME NEW q \in Requests \ {r}, requests'[q].step \in Live'
        PROVE  /\ requests'[q].op = "start" => StartTurn(q)'
               /\ requests'[q].op \in {"approve", "reject"}
                  => EarlierApproved(requests[q].step)'
               /\ requests'[q].op = "approve" => NextTurn(q)'
    BY <1>1, <1>2, <1>4, <1>5 DEF Turns, SlotTurns
  <1>6. /\ x.op = "start" => StartTurn(r)'
        /\ x.op \in {"approve", "reject"} => EarlierApproved(x.step)'
        /\ x.op = "approve" => NextTurn(r)'
    BY <1>1, <1>2 DEF StartTurn, NextTurn, After
  <1>7. SlotTurns'
    BY <1>1, <1>5, <1>6 DEF SlotTurns
  <1>. QED
    BY <1>3, <1>7 DEF Turns

LEMMA ReadsTurns ==
    ASSUME Typed, Turns, NEW r \in Requests, NEW u \in Users,
           Reads(r, u)
    PROVE  Turns'
  <1>1. CASE StartApprovalRead(r, u)
    <2>1. PICK s \in Live : /\ IsFirst(s, Live)
                            /\ Read(r, [Idle EXCEPT !.op = "start", !.user = u, !.step = s])
      BY <1>1 DEF StartApprovalRead
    <2>2. [Idle EXCEPT !.op = "start", !.user = u, !.step = s] \in Request
      BY StepsType DEF Idle, Request, Null, Typed
    <2>. QED
      BY <2>1, <2>2, ReadTurns DEF Idle, IsFirst
  <1>2. CASE ApproveRead(r, u)
    <2>1. PICK s \in Live, next \in Live \cup {Null} :
            /\ IsCurrent(s) /\ IsNext(next, s)
            /\ Read(r, [op |-> "approve", user |-> u, step |-> s, next |-> next,
                        finalUsers |-> workflow.finalUsers, overtaken |-> FALSE])
      BY <1>2 DEF ApproveRead
    <2>2. [op |-> "approve", user |-> u, step |-> s, next |-> next,
           finalUsers |-> workflow.finalUsers, overtaken |-> FALSE] \in Request
      BY StepsType DEF TypeOK, Workflow, Request, Null, Typed
    <2>3. EarlierApproved(s)
      BY <2>1 DEF IsCurrent, Turns, StatusTurns
    <2>4. /\ \A t \in Live : t # Null /\ approvalSteps[t].order \in Nat
          /\ After(s) \subseteq Live
      BY StepsType DEF Typed, Null, ApprovalStep, After
    <2>5. IF next = Null
          THEN After(s) = {}
          ELSE /\ next \in Live
               /\ \A t \in Live : approvalSteps[t].order < approvalSteps[next].order
                                 => approvalSteps[t].order <= approvalSteps[s].order
      <3>1. CASE After(s) = {}
        BY <2>1, <3>1 DEF IsNext
      <3>2. CASE After(s) # {}
        <4>1. next \in After(s) /\ \A t \in After(s) :
                approvalSteps[next].order <= approvalSteps[t].order
          BY <2>1, <3>2 DEF IsNext, IsFirst
        <4>. QED
          BY <2>4, <4>1 DEF After
      <3>. QED
        BY <3>1, <3>2
    <2>. QED
      BY <2>1, <2>2, <2>3, <2>5, ReadTurns
  <1>3. CASE RejectRead(r, u)
    <2>1. PICK s \in Live : /\ IsCurrent(s)
                            /\ Read(r, [Idle EXCEPT !.op = "reject", !.user = u, !.step = s])
      BY <1>3 DEF RejectRead
    <2>2. [Idle EXCEPT !.op = "reject", !.user = u, !.step = s] \in Request
      BY StepsType DEF Idle, Request, Null, Typed
    <2>3. EarlierApproved(s)
      BY <2>1 DEF IsCurrent, Turns, StatusTurns
    <2>. QED
      BY <2>1, <2>2, <2>3, ReadTurns DEF Idle
  <1>4. CASE UpdateRead(r) \/ \E superAdmin \in BOOLEAN : RemoveRead(r, superAdmin)
    <2>1. PICK op \in {"update", "remove"} : Read(r, [Idle EXCEPT !.op = op])
      BY <1>4 DEF UpdateRead, RemoveRead
    <2>2. [Idle EXCEPT !.op = op] \in Request
      BY DEF Idle, Request, Null
    <2>. QED
      BY <2>1, <2>2, ReadTurns DEF Idle
  <1>. QED
    BY <1>1, <1>2, <1>3, <1>4 DEF Reads

LEMMA StartTurns ==
    ASSUME Typed, Turns, NEW r \in Requests, StartApprovalCommit(r)
    PROVE  Turns'
  <1>1. /\ SlotsKept /\ actions' = actions /\ requests[r].op = "start"
    BY CommittingKeeps DEF StartApprovalCommit, Operations
  <1>2. LiveOrders' /\ SlotTurns'
    BY <1>1, StartRows, TurnsKept DEF Typed
  <1>3. /\ Live' = Live
        /\ \A t \in Live : EarlierApproved(t) => EarlierApproved(t)'
    BY <1>1, StartRows, RowsKept DEF Typed
  <1>4. requests[r].step \in Live => EarlierApproved(requests[r].step)
    <2>1. \A t \in Live : approvalSteps[t].order \in Nat
      BY StepsType DEF Typed, ApprovalStep
    <2>. QED
      BY <1>1, <2>1 DEF Turns, SlotTurns, StartTurn, EarlierApproved
  <1>5. StatusTurns'
    <2>1. ASSUME NEW t \in Live, approvalSteps'[t].status # "WAITING"
          PROVE  EarlierApproved(t)
      <3>1. t \in DOMAIN approvalSteps
        BY DEF Live
      <3>2. t = requests[r].step \/ approvalSteps'[t].status = approvalSteps[t].status
        BY <3>1, StartRows DEF Typed
      <3>. QED
        BY <1>4, <2>1, <3>2 DEF Turns, StatusTurns
    <2>. QED
      BY <1>3, <2>1 DEF StatusTurns
  <1>6. ActionTurns'
    BY <1>1, <1>3 DEF Turns, ActionTurns
  <1>. QED
    BY <1>2, <1>5, <1>6 DEF Turns

\* A decision on a live step whose earlier steps are approved; the step that
\* gets the turn, if any, comes right after it.
LEMMA DecisionTurns ==
    ASSUME Typed, Turns, SameRows, SlotsKept, NEW r \in Requests,
           NEW verdict \in {"APPROVED", "REJECTED"},
           requests[r].step \in Live, EarlierApproved(requests[r].step),
           actions' = actions \cup {Signed(r, verdict)},
           \A t \in Live : \/ t = requests[r].step
                           \/ approvalSteps'[t].status = approvalSteps[t].status
                           \/ EarlierApproved(t)'
    PROVE  Turns'
  <1>1. LiveOrders' /\ SlotTurns'
    BY TurnsKept
  <1>2. /\ Live' = Live
        /\ \A t \in Live : EarlierApproved(t) => EarlierApproved(t)'
    BY RowsKept
  <1>3. StatusTurns'
    BY <1>2 DEF Turns, StatusTurns
  <1>4. ActionTurns'
    BY <1>2 DEF Turns, ActionTurns, Signed
  <1>. QED
    BY <1>1, <1>3, <1>4 DEF Turns

LEMMA ApproveTurns ==
    ASSUME Typed, Turns, NEW r \in Requests, ApproveCommit(r)
    PROVE  Turns'
  <1>. DEFINE s == requests[r].step
              next == requests[r].next
  <1>1. /\ SlotsKept /\ requests[r].op = "approve" /\ next # Null
        /\ actions' = actions \cup {Signed(r, "APPROVED")}
        /\ approvalSteps[s].live
    BY CommittingKeeps DEF ApproveCommit, Operations
  <1>2. s \in Live
    BY <1>1 DEF Typed, SlotSteps, Live
  <1>3. /\ EarlierApproved(s) /\ next \in Live
        /\ \A t \in Live : approvalSteps[t].order < approvalSteps[next].order
                           => approvalSteps[t].order <= approvalSteps[s].order
    BY <1>1, <1>2 DEF Turns, SlotTurns, NextTurn
  <1>4. /\ SameRows /\ Live' = Live
        /\ \A t \in Live : /\ approvalSteps'[t].order = approvalSteps[t].order
                           /\ Approved(t) => Approved(t)'
    BY <1>1, ApproveRows, RowsKept DEF Typed
  <1>5. \E a \in actions' : a.step = s /\ a.verdict = "APPROVED"
    <2>1. Signed(r, "APPROVED").step = s /\ Signed(r, "APPROVED").verdict = "APPROVED"
      BY DEF Signed
    <2>. QED
      BY <1>1, <2>1
  <1>6. \A t \in Live : /\ approvalSteps[t].order \in Nat
                        /\ approvalSteps[t].order = approvalSteps[s].order => t = s
    BY <1>2, StepsType DEF Typed, ApprovalStep, Turns, LiveOrders
  <1>7. \A t \in Live : approvalSteps[t].order < approvalSteps[next].order
                       => t = s \/ Approved(t)
    <2>1. \A t \in Live : approvalSteps[t].order < approvalSteps[s].order => Approved(t)
      BY <1>3 DEF EarlierApproved
    <2>2. \A t \in Live : approvalSteps[t].order < approvalSteps[next].order
                         => \/ approvalSteps[t].order = approvalSteps[s].order
                            \/ approvalSteps[t].order < approvalSteps[s].order
      <3>1. approvalSteps[s].order \in Nat /\ \A t \in Live : approvalSteps[t].order \in Nat
        BY <1>2, <1>6
      <3>. QED
        BY <1>3, <3>1
    <2>. QED
      BY <1>6, <2>1, <2>2, Zenon
  <1>8. \A t \in Live : approvalSteps[t].order < approvalSteps[next].order
                       => \E a \in actions' : a.step = t /\ a.verdict = "APPROVED"
    BY <1>1, <1>5, <1>7 DEF Approved
  <1>9. \A t \in Live : t = next => EarlierApproved(t)'
    BY <1>3, <1>4, <1>8 DEF EarlierApproved, Approved
  <1>10. \A t \in Live : \/ t = s \/ t = next
                        \/ approvalSteps'[t].status = approvalSteps[t].status
    BY ApproveRows DEF Typed, Live
  <1>. QED
    BY <1>1, <1>2, <1>3, <1>4, <1>9, <1>10, DecisionTurns

LEMMA LastTurns ==
    ASSUME Typed, Turns, NEW r \in Requests, NEW reviewCycle, NEW finalUsers,
           ApproveLastCommit(r, reviewCycle, finalUsers)
    PROVE  Turns' /\ AllApproved'
  <1>. DEFINE s == requests[r].step
  <1>1. /\ SlotsKept /\ requests[r].op = "approve" /\ requests[r].next = Null
        /\ actions' = actions \cup {Signed(r, "APPROVED")}
        /\ approvalSteps[s].live
    BY CommittingKeeps DEF ApproveLastCommit, Operations
  <1>2. s \in Live
    BY <1>1 DEF Typed, SlotSteps, Live
  <1>3. EarlierApproved(s) /\ After(s) = {}
    BY <1>1, <1>2 DEF Turns, SlotTurns, NextTurn
  <1>4. SameRows /\ Live' = Live
    BY <1>1, LastRows, RowsKept DEF Typed
  <1>5. \A t \in Live : t = s \/ approvalSteps'[t].status = approvalSteps[t].status
    BY LastRows DEF Typed, Live
  <1>6. Turns'
    BY <1>1, <1>2, <1>3, <1>4, <1>5, DecisionTurns
  <1>7. \A t \in Live : t = s \/ Approved(t)
    <2>1. \A t \in Live : /\ approvalSteps[t].order \in Nat
                          /\ approvalSteps[t].order = approvalSteps[s].order => t = s
      BY <1>2, StepsType DEF Typed, ApprovalStep, Turns, LiveOrders
    <2>2. \A t \in Live : /\ ~(approvalSteps[t].order > approvalSteps[s].order)
                          /\ approvalSteps[t].order < approvalSteps[s].order => Approved(t)
      BY <1>3 DEF After, EarlierApproved
    <2>3. \A t \in Live : \/ approvalSteps[t].order = approvalSteps[s].order
                          \/ approvalSteps[t].order < approvalSteps[s].order
      <3>1. approvalSteps[s].order \in Nat /\ \A t \in Live : approvalSteps[t].order \in Nat
        BY <1>2, <2>1
      <3>. QED
        BY <2>2, <3>1
    <2>. QED
      BY <2>1, <2>2, <2>3, Zenon
  <1>8. AllApproved'
    <2>1. /\ Signed(r, "APPROVED") \in actions' /\ Signed(r, "APPROVED").step = s
          /\ Signed(r, "APPROVED").verdict = "APPROVED" /\ actions \subseteq actions'
      BY <1>1 DEF Signed
    <2>. QED
      BY <1>4, <1>7, <2>1 DEF AllApproved, Approved
  <1>. QED
    BY <1>6, <1>8

LEMMA RejectTurns ==
    ASSUME Typed, Turns, NEW r \in Requests, RejectCommit(r)
    PROVE  Turns'
  <1>. DEFINE s == requests[r].step
  <1>1. /\ SlotsKept /\ requests[r].op = "reject"
        /\ actions' = actions \cup {Signed(r, "REJECTED")}
        /\ approvalSteps[s].live
    BY CommittingKeeps DEF RejectCommit, Operations
  <1>2. s \in Live
    BY <1>1 DEF Typed, SlotSteps, Live
  <1>3. EarlierApproved(s)
    BY <1>1, <1>2 DEF Turns, SlotTurns
  <1>4. SameRows /\ \A t \in Live : t = s \/ approvalSteps'[t].status = approvalSteps[t].status
    BY RejectRows DEF Typed, Live
  <1>. QED
    BY <1>1, <1>2, <1>3, <1>4, DecisionTurns

LEMMA ReplaceTurns ==
    ASSUME Typed, Turns, NEW r \in Requests, NEW approvers \in ApproverLists,
           NEW finalUsers, NEW validated, UpdateCommit(r, approvers, finalUsers, validated)
    PROVE  Turns'
  <1>1. SlotsKept
    BY CommittingKeeps DEF UpdateCommit, Operations
  <1>2. /\ actions' = {}
        /\ \A s \in Live' : approvalSteps'[s].status = "WAITING"
    BY ReplaceRows DEF Typed
  <1>3. LiveOrders'
    <2>1. \A s \in Live' : /\ approvalSteps'[s].order = s - Len(approvalSteps)
                           /\ s \in Nat
      BY ReplaceRows, StepsTyped, StepsType DEF Typed, Live, Next
    <2>. QED
      BY <2>1, StepsType DEF LiveOrders, Typed
  <1>4. SlotTurns'
    <2>1. \A q \in Requests : requests'[q].op \in {"start", "approve", "reject"}
            => requests'[q].step \notin Live'
      BY <1>1, ReplaceRows DEF SlotsKept, Typed, SlotSteps
    <2>. QED
      BY <2>1 DEF SlotTurns
  <1>. QED
    BY <1>2, <1>3, <1>4 DEF Turns, StatusTurns, ActionTurns

LEMMA InitRows ==
    ASSUME Init
    PROVE  /\ \A s \in Live : approvalSteps[s].order = s /\ approvalSteps[s].status = "WAITING"
           /\ actions = {} /\ stale = {}
           /\ \A q \in Requests : requests[q].op = "idle"
           /\ workflow.status = "DRAFT" /\ workflow.activeCycle = Null
  <1>1. PICK approvers \in ApproverLists : approvalSteps = Waiting(approvers)
    BY DEF Init
  <1>2. \A s \in Live : approvalSteps[s].order = s /\ approvalSteps[s].status = "WAITING"
    BY <1>1, WaitingType DEF Live
  <1>. QED
    BY <1>2, IdleType DEF Init

LEMMA TurnsInit == Init => Turns
  BY InitRows DEF Turns, LiveOrders, SlotTurns, StatusTurns, ActionTurns

LEMMA StepsTurns ==
    ASSUME Typed, Turns, [Next]_vars
    PROVE  Turns'
  <1>1. ASSUME NEW r \in Requests, NEW approvers \in ApproverLists \cup {<<>>},
               NEW finalUsers, NEW validated,
               UpdateCommit(r, approvers, finalUsers, validated)
        PROVE  Turns'
    <2>1. CASE approvers = <<>>
      BY <1>1, <2>1, CommittingKeeps, QuietTurns DEF UpdateCommit, Operations
    <2>. QED
      BY <1>1, <2>1, ReplaceTurns
  <1>2. ASSUME NEW r \in Requests, RemoveCommit(r) \/ Fail(r)
        PROVE  Turns'
    <2>1. Slots
      BY DEF Typed, TypeOK, Slots
    <2>2. SlotsKept /\ UNCHANGED <<approvalSteps, actions>>
      BY <1>2, <2>1, CommittingKeeps, FailSlots DEF RemoveCommit, Operations
    <2>. QED
      BY <2>2, QuietTurns
  <1>3. ASSUME NEW newRow, Locked(newRow)
        PROVE  Turns'
    <2>1. Slots
      BY DEF Typed, TypeOK, Slots
    <2>. QED
      BY <1>3, <2>1, LockedSlots, QuietTurns DEF Locked
  <1>4. ASSUME NEW u \in Users, Handler(u) \/ InCycle(u)
        PROVE  Turns'
    <2>1. \E newRow : Locked(newRow)
      BY <1>4 DEF Handler, CreateCycle, CompleteCycle, SkipReviewCycle, End,
                  InCycle, CompleteStep, ForwardStep
    <2>. QED
      BY <1>3, <2>1
  <1>5. CASE UNCHANGED vars
    <2>1. SlotsKept
      BY <1>5 DEF vars, SlotsKept
    <2>. QED
      BY <1>5, <2>1, QuietTurns DEF vars
  <1>. QED
    BY <1>1, <1>2, <1>4, <1>5, ReadsTurns, StartTurns, ApproveTurns, LastTurns,
       RejectTurns, NextCases DEF Commit, Typed

LEMMA TurnsAlways == Spec => [](Typed /\ Turns)
  <1>1. Init => Typed /\ Turns
    BY TypedInit, TurnsInit
  <1>2. Typed /\ Turns /\ [Next]_vars => (Typed /\ Turns)'
    BY StepsTyped, StepsTurns
  <1>. QED
    BY <1>1, <1>2, PTL DEF Spec

\* Whatever the requests that cross a decision have read, a decision on a step
\* follows the approval of every step before it (approve and reject of
\* workflow-approval.service.ts).
THEOREM DecisionsInTurnCorrect == Spec => []DecisionsInTurn
  <1>1. Typed /\ Turns => DecisionsInTurn
    BY DEF Turns, ActionTurns, EarlierApproved, DecisionsInTurn
  <1>. QED
    BY <1>1, TurnsAlways, PTL

-----------------------------------------------------------------------------
(* What a request that nothing has overtaken knows when it commits *)

Fresh ==
    \A q \in Requests :
        ~requests[q].overtaken =>
            /\ requests[q].op \in {"start", "update"} => workflow.status = "DRAFT"
            /\ requests[q].op = "start" => requests[q].step \in Live
            /\ requests[q].op \in {"approve", "reject"} =>
                 /\ workflow.status = "PENDING_APPROVAL"
                 /\ IsCurrent(requests[q].step)

\* No handler sends a workflow back to its creator, or makes it a draft again.
StatusesUsed ==
    /\ workflow.status # "RETURNED_TO_CREATOR"
    /\ workflow.status = "DRAFT" => workflow.activeCycle = Null

Known == Typed /\ Fresh /\ StatusesUsed

\* The transitions a handler may ask for, without the status nothing sets.
LEMMA Transitions ==
    ASSUME StatusesUsed
    PROVE  /\ CanTransition(workflow.status, "PENDING_APPROVAL") => workflow.status = "DRAFT"
           /\ CanTransition(workflow.status, "PENDING_REVIEW_CYCLE")
              => workflow.status = "PENDING_APPROVAL"
           /\ CanTransition(workflow.status, "REJECTED")
              => workflow.status = "PENDING_APPROVAL"
           /\ CanTransition(workflow.status, "ADMIN_CYCLE_IN_PROGRESS")
              => workflow.status \in {"PENDING_REVIEW_CYCLE", "AVAILABLE_FOR_FINAL_USERS"}
           /\ CanTransition(workflow.status, "AVAILABLE_FOR_FINAL_USERS")
              => workflow.status \in {"PENDING_APPROVAL", "PENDING_REVIEW_CYCLE",
                                      "ADMIN_CYCLE_IN_PROGRESS"}
           /\ \A terminal \in {"CLOSED", "CANCELLED"} :
                CanTransition(workflow.status, terminal)
                => workflow.status = "AVAILABLE_FOR_FINAL_USERS"
  BY DEF StatusesUsed, CanTransition, VALID_TRANSITIONS

RowsUnchanged == UNCHANGED <<workflow, approvalSteps, actions, stale>>

LEMMA Effects ==
    ASSUME Typed, [Next]_vars
    PROVE  \/ RowsUnchanged
           \/ \E r \in Requests : Commit(r)
           \/ \E u \in Users : Handler(u)
           \/ \E reviewer \in Users : InCycle(reviewer)
  <1>1. CASE UNCHANGED vars
    BY <1>1 DEF vars, RowsUnchanged
  <1>2. ASSUME NEW r \in Requests, NEW u \in Users, Reads(r, u)
        PROVE  RowsUnchanged
    <2>1. \E x : Read(r, x)
      BY <1>2 DEF Reads, StartApprovalRead, ApproveRead, RejectRead, UpdateRead, RemoveRead
    <2>. QED
      BY <2>1 DEF Read, RowsUnchanged
  <1>3. ASSUME NEW r \in Requests, Fail(r)
        PROVE  RowsUnchanged
    BY <1>3 DEF Fail, RowsUnchanged
  <1>. QED
    BY <1>1, <1>2, <1>3, NextCases DEF Typed

\* The row after each of those steps.
LEMMA StartRow ==
    ASSUME Typed, NEW r \in Requests, StartApprovalCommit(r)
    PROVE  /\ workflow'.status = "PENDING_APPROVAL"
           /\ workflow'.approvalOrder = approvalSteps[requests[r].step].order
           /\ workflow'.assigned = approvalSteps[requests[r].step].user
           /\ workflow'.activeCycle = workflow.activeCycle
           /\ workflow'.documentValidated = workflow.documentValidated
  BY DEF StartApprovalCommit, Typed, TypeOK, Workflow

LEMMA ApproveRow ==
    ASSUME Typed, NEW r \in Requests, ApproveCommit(r)
    PROVE  /\ workflow'.status = workflow.status
           /\ workflow'.approvalOrder = approvalSteps[requests[r].next].order
           /\ workflow'.assigned = approvalSteps[requests[r].next].user
           /\ workflow'.activeCycle = workflow.activeCycle
           /\ workflow'.documentValidated = workflow.documentValidated
  BY DEF ApproveCommit, WithTurn, Typed, TypeOK, Workflow

LEMMA LastRow ==
    ASSUME Typed, NEW r \in Requests, NEW reviewCycle, NEW finalUsers,
           ApproveLastCommit(r, reviewCycle, finalUsers)
    PROVE  /\ workflow'.status \in {"PENDING_REVIEW_CYCLE", "AVAILABLE_FOR_FINAL_USERS"}
           /\ workflow'.activeCycle = workflow.activeCycle
           /\ workflow'.documentValidated = workflow.documentValidated
  <1>1. PICK first : workflow' = [workflow EXCEPT
           !.status = IF reviewCycle THEN "PENDING_REVIEW_CYCLE"
                                     ELSE "AVAILABLE_FOR_FINAL_USERS",
           !.approvalOrder = Null, !.assigned = first, !.finalUsers = finalUsers,
           !.reviewCycleEnabled = reviewCycle]
    BY DEF ApproveLastCommit
  <1>. QED
    BY <1>1 DEF Typed, TypeOK, Workflow

LEMMA RejectRow ==
    ASSUME Typed, NEW r \in Requests, RejectCommit(r)
    PROVE  /\ workflow'.status = "REJECTED"
           /\ workflow'.activeCycle = workflow.activeCycle
           /\ workflow'.documentValidated = workflow.documentValidated
  BY DEF RejectCommit, Typed, TypeOK, Workflow

LEMMA EditRow ==
    ASSUME Typed, NEW r \in Requests,
           \/ RemoveCommit(r)
           \/ \E approvers \in ApproverLists \cup {<<>>}, finalUsers \in SUBSET Users,
                 validated \in BOOLEAN :
                UpdateCommit(r, approvers, finalUsers, validated)
    PROVE  /\ workflow'.status = workflow.status
           /\ workflow'.approvalOrder = workflow.approvalOrder
           /\ workflow'.assigned = workflow.assigned
           /\ workflow'.activeCycle = workflow.activeCycle
           /\ RemoveCommit(r) => workflow'.documentValidated = workflow.documentValidated
  BY DEF RemoveCommit, UpdateCommit, Typed, TypeOK, Workflow

LEMMA HandlerRow ==
    ASSUME Typed, StatusesUsed, NEW u \in Users, Handler(u)
    PROVE  /\ UNCHANGED <<approvalSteps, actions, stale>>
           /\ workflow'.documentValidated = workflow.documentValidated
           /\ CanTransition(workflow.status, workflow'.status)
           /\ \/ /\ workflow.status \in {"PENDING_REVIEW_CYCLE", "AVAILABLE_FOR_FINAL_USERS"}
                 /\ workflow'.status = "ADMIN_CYCLE_IN_PROGRESS"
                 /\ workflow'.activeCycle # Null
              \/ /\ workflow.activeCycle # Null
                 /\ workflow.status \in {"PENDING_APPROVAL", "PENDING_REVIEW_CYCLE",
                                         "ADMIN_CYCLE_IN_PROGRESS"}
                 /\ workflow'.status = "AVAILABLE_FOR_FINAL_USERS"
                 /\ workflow'.activeCycle = Null
              \/ /\ workflow.status = "PENDING_REVIEW_CYCLE"
                 /\ workflow'.status = "AVAILABLE_FOR_FINAL_USERS"
                 /\ workflow'.activeCycle = workflow.activeCycle
              \/ /\ workflow.status = "AVAILABLE_FOR_FINAL_USERS"
                 /\ workflow'.status \in {"CLOSED", "CANCELLED"}
                 /\ workflow'.activeCycle = Null
  <1>2. workflow \in Workflow
    BY DEF Typed, TypeOK
  <1>3. ASSUME NEW reviewer \in Users, CreateCycle(u, reviewer)
        PROVE  /\ UNCHANGED <<approvalSteps, actions, stale>>
               /\ workflow'.documentValidated = workflow.documentValidated
               /\ CanTransition(workflow.status, workflow'.status)
               /\ workflow.status \in {"PENDING_REVIEW_CYCLE", "AVAILABLE_FOR_FINAL_USERS"}
               /\ workflow'.status = "ADMIN_CYCLE_IN_PROGRESS"
               /\ workflow'.activeCycle # Null
    <2>1. /\ CanTransition(workflow.status, "ADMIN_CYCLE_IN_PROGRESS")
          /\ workflow' = [workflow EXCEPT !.status = "ADMIN_CYCLE_IN_PROGRESS",
                            !.activeCycle = 1, !.assigned = reviewer]
          /\ UNCHANGED <<approvalSteps, actions, stale>>
      BY <1>3 DEF CreateCycle, Locked
    <2>2. /\ workflow'.status = "ADMIN_CYCLE_IN_PROGRESS" /\ workflow'.activeCycle = 1
          /\ workflow'.documentValidated = workflow.documentValidated
      BY <1>2, <2>1 DEF Workflow
    <2>. QED
      BY <2>1, <2>2, Transitions DEF Null
  <1>4. ASSUME CompleteCycle(u)
        PROVE  /\ UNCHANGED <<approvalSteps, actions, stale>>
               /\ workflow'.documentValidated = workflow.documentValidated
               /\ CanTransition(workflow.status, workflow'.status)
               /\ workflow.activeCycle # Null
               /\ workflow.status \in {"PENDING_APPROVAL", "PENDING_REVIEW_CYCLE",
                                       "ADMIN_CYCLE_IN_PROGRESS"}
               /\ workflow'.status = "AVAILABLE_FOR_FINAL_USERS"
               /\ workflow'.activeCycle = Null
    <2>1. /\ CanTransition(workflow.status, "AVAILABLE_FOR_FINAL_USERS")
          /\ workflow.activeCycle # Null
          /\ workflow' = [workflow EXCEPT !.status = "AVAILABLE_FOR_FINAL_USERS",
                            !.activeCycle = Null, !.assigned = u]
          /\ UNCHANGED <<approvalSteps, actions, stale>>
      BY <1>4 DEF CompleteCycle, Locked
    <2>2. /\ workflow'.status = "AVAILABLE_FOR_FINAL_USERS" /\ workflow'.activeCycle = Null
          /\ workflow'.documentValidated = workflow.documentValidated
      BY <1>2, <2>1 DEF Workflow
    <2>. QED
      BY <2>1, <2>2, Transitions
  <1>5. ASSUME SkipReviewCycle(u)
        PROVE  /\ UNCHANGED <<approvalSteps, actions, stale>>
               /\ workflow'.documentValidated = workflow.documentValidated
               /\ CanTransition(workflow.status, workflow'.status)
               /\ workflow.status = "PENDING_REVIEW_CYCLE"
               /\ workflow'.status = "AVAILABLE_FOR_FINAL_USERS"
               /\ workflow'.activeCycle = workflow.activeCycle
    <2>1. /\ workflow.status = "PENDING_REVIEW_CYCLE"
          /\ workflow'.status = "AVAILABLE_FOR_FINAL_USERS"
          /\ workflow'.activeCycle = workflow.activeCycle
          /\ workflow'.documentValidated = workflow.documentValidated
          /\ UNCHANGED <<approvalSteps, actions, stale>>
      <3>1. /\ workflow.status = "PENDING_REVIEW_CYCLE"
            /\ workflow' = [workflow EXCEPT !.status = "AVAILABLE_FOR_FINAL_USERS",
                                            !.assigned = u]
            /\ UNCHANGED <<approvalSteps, actions, stale>>
        BY <1>5 DEF SkipReviewCycle, Locked
      <3>. QED
        BY <1>2, <3>1 DEF Workflow
    <2>2. CanTransition(workflow.status, workflow'.status)
      BY <2>1 DEF CanTransition, VALID_TRANSITIONS
    <2>. QED
      BY <2>1, <2>2
  <1>6. ASSUME NEW terminal \in {"CLOSED", "CANCELLED"}, End(u, terminal)
        PROVE  /\ UNCHANGED <<approvalSteps, actions, stale>>
               /\ workflow'.documentValidated = workflow.documentValidated
               /\ CanTransition(workflow.status, workflow'.status)
               /\ workflow.status = "AVAILABLE_FOR_FINAL_USERS"
               /\ workflow'.status \in {"CLOSED", "CANCELLED"}
               /\ workflow'.activeCycle = Null
    <2>1. /\ CanTransition(workflow.status, terminal)
          /\ workflow' = [workflow EXCEPT !.status = terminal,
                            !.assigned = workflow.createdBy, !.activeCycle = Null]
          /\ UNCHANGED <<approvalSteps, actions, stale>>
      BY <1>6 DEF End, Locked
    <2>2. /\ workflow'.status = terminal /\ workflow'.activeCycle = Null
          /\ workflow'.documentValidated = workflow.documentValidated
      BY <1>2, <2>1 DEF Workflow
    <2>. QED
      BY <2>1, <2>2, Transitions
  <1>. QED
    BY <1>3, <1>4, <1>5, <1>6 DEF Handler

LEMMA InCycleRow ==
    ASSUME Typed, NEW reviewer \in Users, InCycle(reviewer)
    PROVE  /\ UNCHANGED <<approvalSteps, actions, stale>>
           /\ workflow'.status = workflow.status
           /\ workflow'.activeCycle = workflow.activeCycle
           /\ workflow'.approvalOrder = workflow.approvalOrder
           /\ workflow'.documentValidated = workflow.documentValidated
           /\ workflow.activeCycle # Null
  <1>1. /\ UNCHANGED <<approvalSteps, actions, stale>>
        /\ workflow' = [workflow EXCEPT !.assigned = reviewer]
        /\ workflow.activeCycle # Null
    BY DEF InCycle, CompleteStep, ForwardStep, Locked
  <1>. QED
    BY <1>1 DEF Typed, TypeOK, Workflow

LEMMA StatusesKept ==
    ASSUME Known, [Next]_vars
    PROVE  StatusesUsed'
  <1>. USE DEF Known
  <1>1. CASE RowsUnchanged
    BY <1>1 DEF RowsUnchanged, StatusesUsed
  <1>2. ASSUME NEW r \in Requests, Commit(r)
        PROVE  StatusesUsed'
    BY <1>2, StartRow, ApproveRow, LastRow, RejectRow, EditRow DEF Commit, StatusesUsed
  <1>3. ASSUME NEW u \in Users, Handler(u)
        PROVE  StatusesUsed'
    BY <1>3, HandlerRow DEF StatusesUsed
  <1>4. ASSUME NEW reviewer \in Users, InCycle(reviewer)
        PROVE  StatusesUsed'
    BY <1>4, InCycleRow DEF StatusesUsed
  <1>. QED
    BY <1>1, <1>2, <1>3, <1>4, Effects

LEMMA SlotRead ==
    ASSUME Known, NEW r \in Requests, NEW x \in Request, Read(r, x),
           /\ x.op \in {"start", "update"} => workflow.status = "DRAFT"
           /\ x.op = "start" => x.step \in Live
           /\ x.op \in {"approve", "reject"} =>
                workflow.status = "PENDING_APPROVAL" /\ IsCurrent(x.step)
    PROVE  Fresh'
  <1>1. /\ requests'[r] = x
        /\ \A q \in Requests \ {r} : requests'[q] = requests[q]
        /\ UNCHANGED <<workflow, approvalSteps, actions, stale>>
    BY ReadSlots DEF Known, Typed, TypeOK, Slots
  <1>2. Live' = Live
    BY <1>1 DEF Live
  <1>. QED
    BY <1>1, <1>2 DEF Known, Fresh, IsCurrent

LEMMA FreshKept ==
    ASSUME Known, [Next]_vars
    PROVE  Fresh'
  <1>. USE DEF Known
  <1>1. ASSUME NEW r \in Requests, NEW u \in Users, StartApprovalRead(r, u)
        PROVE  Fresh'
    <2>1. PICK s \in Live : Read(r, [Idle EXCEPT !.op = "start", !.user = u, !.step = s])
      BY <1>1 DEF StartApprovalRead
    <2>2. [Idle EXCEPT !.op = "start", !.user = u, !.step = s] \in Request
      BY StepsType DEF Idle, Request, Null, Typed
    <2>3. workflow.status = "DRAFT"
      BY <1>1, Transitions DEF StartApprovalRead
    <2>. QED
      BY <2>1, <2>2, <2>3, SlotRead DEF Idle
  <1>2. ASSUME NEW r \in Requests, NEW u \in Users, ApproveRead(r, u)
        PROVE  Fresh'
    <2>1. PICK s \in Live, next \in Live \cup {Null} :
            /\ IsCurrent(s)
            /\ Read(r, [op |-> "approve", user |-> u, step |-> s, next |-> next,
                        finalUsers |-> workflow.finalUsers, overtaken |-> FALSE])
      BY <1>2 DEF ApproveRead
    <2>2. [op |-> "approve", user |-> u, step |-> s, next |-> next,
           finalUsers |-> workflow.finalUsers, overtaken |-> FALSE] \in Request
      BY StepsType DEF TypeOK, Workflow, Request, Null, Typed
    <2>3. workflow.status = "PENDING_APPROVAL"
      BY <1>2, Transitions DEF ApproveRead
    <2>. QED
      BY <2>1, <2>2, <2>3, SlotRead
  <1>3. ASSUME NEW r \in Requests, NEW u \in Users, RejectRead(r, u)
        PROVE  Fresh'
    <2>1. PICK s \in Live : /\ IsCurrent(s)
                            /\ Read(r, [Idle EXCEPT !.op = "reject", !.user = u, !.step = s])
      BY <1>3 DEF RejectRead
    <2>2. [Idle EXCEPT !.op = "reject", !.user = u, !.step = s] \in Request
      BY StepsType DEF Idle, Request, Null, Typed
    <2>3. workflow.status = "PENDING_APPROVAL"
      BY <1>3, Transitions DEF RejectRead
    <2>. QED
      BY <2>1, <2>2, <2>3, SlotRead DEF Idle
  <1>4. ASSUME NEW r \in Requests, NEW superAdmin \in BOOLEAN,
               UpdateRead(r) \/ RemoveRead(r, superAdmin)
        PROVE  Fresh'
    <2>1. PICK op \in {"update", "remove"} :
            /\ Read(r, [Idle EXCEPT !.op = op])
            /\ op = "update" => workflow.status = "DRAFT"
      BY <1>4 DEF UpdateRead, RemoveRead
    <2>2. [Idle EXCEPT !.op = op] \in Request
      BY DEF Idle, Request, Null
    <2>. QED
      BY <2>1, <2>2, SlotRead DEF Idle
  <1>5. ASSUME NEW r \in Requests, Fail(r)
        PROVE  Fresh'
    <2>1. /\ \A q \in Requests : requests'[q].op = "idle" \/ requests'[q] = requests[q]
          /\ UNCHANGED <<workflow, approvalSteps, actions, stale>>
      BY <1>5, FailSlots DEF Typed, TypeOK, Slots
    <2>2. Live' = Live
      BY <2>1 DEF Live
    <2>. QED
      BY <2>1, <2>2 DEF Fresh, IsCurrent
  <1>6. CASE UNCHANGED vars
    <2>1. Live' = Live
      BY <1>6 DEF Live, vars
    <2>. QED
      BY <1>6, <2>1 DEF Fresh, IsCurrent, vars
  <1>7. CASE AllOvertaken'
    BY <1>7 DEF AllOvertaken, Fresh
  <1>8. ASSUME NEW r \in Requests, Commit(r)
        PROVE  AllOvertaken'
    <2>1. Slots
      BY DEF Typed, TypeOK, Slots
    <2>2. \E op : Committing(r, op)
      BY <1>8 DEF Commit, StartApprovalCommit, ApproveCommit, RejectCommit, RemoveCommit,
                  ApproveLastCommit, UpdateCommit
    <2>. QED
      BY <2>1, <2>2, CommittingSlots
  <1>9. ASSUME NEW u \in Users, Handler(u) \/ InCycle(u)
        PROVE  AllOvertaken'
    <2>1. Slots
      BY DEF Typed, TypeOK, Slots
    <2>2. \E newRow : Locked(newRow)
      BY <1>9 DEF Handler, CreateCycle, CompleteCycle, SkipReviewCycle, End,
                  InCycle, CompleteStep, ForwardStep
    <2>. QED
      BY <2>1, <2>2, LockedSlots
  <1>. QED
    BY <1>1, <1>2, <1>3, <1>4, <1>5, <1>6, <1>7, <1>8, <1>9, NextCases DEF Reads, Typed

LEMMA StepsKnown ==
    ASSUME Known, [Next]_vars
    PROVE  Known'
  BY StepsTyped, FreshKept, StatusesKept DEF Known

LEMMA KnownInit == Init => Known
  BY TypedInit, InitRows DEF Known, Fresh, StatusesUsed

LEMMA KnownAlways == Spec => [](Known /\ Turns)
  <1>1. Init => Known /\ Turns
    BY KnownInit, TurnsInit
  <1>2. Known /\ Turns /\ [Next]_vars => (Known /\ Turns)'
    BY StepsKnown, StepsTurns DEF Known
  <1>. QED
    BY <1>1, <1>2, PTL DEF Spec

-----------------------------------------------------------------------------
(* The statuses *)

LEMMA StaleGrows ==
    ASSUME Known, [Next]_vars
    PROVE  stale \subseteq stale'
  <1>1. ASSUME NEW r \in Requests, Commit(r)
        PROVE  stale \subseteq stale'
    BY <1>1 DEF Commit, StartApprovalCommit, ApproveCommit, RejectCommit, RemoveCommit,
                ApproveLastCommit, UpdateCommit, Committing
  <1>2. ASSUME NEW u \in Users, Handler(u) \/ InCycle(u)
        PROVE  stale' = stale
    BY <1>2, HandlerRow, InCycleRow DEF Known
  <1>. QED
    BY <1>1, <1>2, Effects DEF Known, RowsUnchanged

\* A request whose operation is not stale afterwards was not overtaken.
LEMMA NotStale ==
    ASSUME Known, NEW r \in Requests
    PROVE  /\ StartApprovalCommit(r) /\ "start" \notin stale' =>
                workflow.status = "DRAFT" /\ requests[r].step \in Live
           /\ ApproveCommit(r) /\ "approve" \notin stale' =>
                workflow.status = "PENDING_APPROVAL" /\ IsCurrent(requests[r].step)
           /\ \A reviewCycle \in BOOLEAN, finalUsers \in PositionHolders :
                ApproveLastCommit(r, reviewCycle, finalUsers) /\ "approve" \notin stale' =>
                  workflow.status = "PENDING_APPROVAL" /\ IsCurrent(requests[r].step)
           /\ RejectCommit(r) /\ "reject" \notin stale' =>
                workflow.status = "PENDING_APPROVAL" /\ IsCurrent(requests[r].step)
           /\ \A approvers \in ApproverLists \cup {<<>>}, finalUsers \in SUBSET Users,
                 validated \in BOOLEAN :
                UpdateCommit(r, approvers, finalUsers, validated) /\ "update" \notin stale' =>
                  workflow.status = "DRAFT"
  <1>1. \A op \in Operations : Committing(r, op) /\ op \notin stale'
          => requests[r].op = op /\ ~requests[r].overtaken
    BY CommittingKeeps DEF Known
  <1>. QED
    BY <1>1 DEF Operations, Known, Fresh, StartApprovalCommit, ApproveCommit,
                ApproveLastCommit, RejectCommit, UpdateCommit

LEMMA StepsCycle ==
    ASSUME Known, CycleRunsInItsStatus, [Next]_vars
    PROVE  CycleRunsInItsStatus'
  <1>1. SUFFICES ASSUME stale' \subseteq {"remove", "update"}
                 PROVE  workflow'.status = "ADMIN_CYCLE_IN_PROGRESS"
                        <=> workflow'.activeCycle # Null
    BY DEF CycleRunsInItsStatus
  <1>2. workflow.status = "ADMIN_CYCLE_IN_PROGRESS" <=> workflow.activeCycle # Null
    BY <1>1, StaleGrows DEF CycleRunsInItsStatus
  <1>3. ASSUME NEW r \in Requests, Commit(r)
        PROVE  workflow'.status = "ADMIN_CYCLE_IN_PROGRESS" <=> workflow'.activeCycle # Null
    BY <1>1, <1>2, <1>3, NotStale, StartRow, ApproveRow, LastRow, RejectRow, EditRow
       DEF Commit, Known
  <1>4. ASSUME NEW u \in Users, Handler(u)
        PROVE  workflow'.status = "ADMIN_CYCLE_IN_PROGRESS" <=> workflow'.activeCycle # Null
    BY <1>2, <1>4, HandlerRow DEF Known
  <1>5. ASSUME NEW reviewer \in Users, InCycle(reviewer)
        PROVE  workflow'.status = "ADMIN_CYCLE_IN_PROGRESS" <=> workflow'.activeCycle # Null
    BY <1>2, <1>5, InCycleRow DEF Known
  <1>. QED
    BY <1>2, <1>3, <1>4, <1>5, Effects DEF Known, RowsUnchanged

LEMMA CycleAlways == Spec => []CycleRunsInItsStatus
  <1>1. Init => CycleRunsInItsStatus
    BY InitRows DEF CycleRunsInItsStatus
  <1>2. Known /\ CycleRunsInItsStatus /\ [Next]_vars => CycleRunsInItsStatus'
    BY StepsCycle
  <1>. QED
    BY <1>1, <1>2, KnownAlways, PTL DEF Spec

\* A review cycle runs only in its own status, unless a start or a decision
\* of the approval committed what another request had overtaken.
THEOREM CycleRunsInItsStatusCorrect == Spec => []CycleRunsInItsStatus
  BY CycleAlways

\* Where a request may commit late without breaking a transition: only removals
\* and edits may.
THEOREM TransitionsFollowTableCorrect == Spec => TransitionsFollowTable
  <1>1. ASSUME Known, [Next]_vars, stale' \subseteq {"remove", "update"},
               workflow'.status # workflow.status
        PROVE  CanTransition(workflow.status, workflow'.status)
    <2>1. ASSUME NEW r \in Requests, Commit(r)
          PROVE  CanTransition(workflow.status, workflow'.status)
      <3>1. \/ workflow.status = "DRAFT" /\ workflow'.status = "PENDING_APPROVAL"
            \/ /\ workflow.status = "PENDING_APPROVAL"
               /\ workflow'.status \in {"PENDING_REVIEW_CYCLE", "AVAILABLE_FOR_FINAL_USERS",
                                        "REJECTED"}
        BY <1>1, <2>1, NotStale, StartRow, ApproveRow, LastRow, RejectRow, EditRow
           DEF Commit, Known
      <3>. QED
        BY <3>1 DEF CanTransition, VALID_TRANSITIONS
    <2>2. ASSUME NEW u \in Users, Handler(u)
          PROVE  CanTransition(workflow.status, workflow'.status)
      BY <1>1, <2>2, HandlerRow DEF Known
    <2>3. ASSUME NEW reviewer \in Users, InCycle(reviewer)
          PROVE  FALSE
      BY <1>1, <2>3, InCycleRow DEF Known
    <2>. QED
      BY <1>1, <2>1, <2>2, <2>3, Effects DEF Known, RowsUnchanged
  <1>2. Known /\ [Next]_vars =>
          [stale' \subseteq {"remove", "update"} /\ workflow'.status # workflow.status
             => CanTransition(workflow.status, workflow'.status)]_vars
    BY <1>1
  <1>. QED
    BY <1>2, KnownAlways, PTL DEF Spec, TransitionsFollowTable

\* [RN-09] Unless an edit commits late, nothing but a draft gets new steps or a
\* new document.
THEOREM OnlyDraftsEditedCorrect == Spec => OnlyDraftsEdited
  <1>1. ASSUME Known, [Next]_vars, workflow.status # "DRAFT", "update" \notin stale'
        PROVE  /\ Live' = Live
               /\ workflow'.documentValidated = workflow.documentValidated
    <2>1. ASSUME NEW r \in Requests, Commit(r)
          PROVE  Live' = Live /\ workflow'.documentValidated = workflow.documentValidated
      <3>1. \/ StartApprovalCommit(r) \/ ApproveCommit(r) \/ RejectCommit(r) \/ RemoveCommit(r)
            \/ \E reviewCycle \in BOOLEAN, finalUsers \in PositionHolders :
                 ApproveLastCommit(r, reviewCycle, finalUsers)
        BY <1>1, <2>1, NotStale DEF Commit
      <3>2. SameRows
        <4>1. RemoveCommit(r) => SameRows
          BY DEF RemoveCommit, SameRows
        <4>. QED
          BY <1>1, <3>1, <4>1, StartRows, ApproveRows, LastRows, RejectRows DEF Known, Typed
      <3>3. Live' = Live
        BY <3>2 DEF SameRows, Live
      <3>4. workflow'.documentValidated = workflow.documentValidated
        BY <1>1, <3>1, StartRow, ApproveRow, LastRow, RejectRow, EditRow DEF Known
      <3>. QED
        BY <3>3, <3>4
    <2>2. ASSUME NEW u \in Users, Handler(u) \/ InCycle(u)
          PROVE  Live' = Live /\ workflow'.documentValidated = workflow.documentValidated
      BY <1>1, <2>2, HandlerRow, InCycleRow DEF Known, Live
    <2>3. CASE RowsUnchanged
      BY <2>3 DEF RowsUnchanged, Live
    <2>. QED
      BY <1>1, <2>1, <2>2, <2>3, Effects DEF Known
  <1>2. Known /\ [Next]_vars =>
          [workflow.status # "DRAFT" /\ "update" \notin stale' =>
             /\ Live' = Live
             /\ workflow'.documentValidated = workflow.documentValidated]_vars
    BY <1>1
  <1>. QED
    BY <1>2, KnownAlways, PTL DEF Spec, OnlyDraftsEdited

-----------------------------------------------------------------------------
(* The turn of the one pending step *)

Pending == {s \in Live : approvalSteps[s].status = "PENDING"}

OneTurn ==
    IF workflow.status = "PENDING_APPROVAL"
    THEN \E s \in Pending : /\ Pending = {s}
                            /\ IsCurrent(s)
                            /\ workflow.assigned = approvalSteps[s].user
    ELSE Pending = {}

LEMMA TurnCommit ==
    ASSUME Known, Turns, OneTurn, NEW r \in Requests, Commit(r), stale' \subseteq {"remove"}
    PROVE  OneTurn'
  <1>. USE DEF Known
  <1>0. SameRows => /\ Live' = Live /\ Live \subseteq DOMAIN approvalSteps
                    /\ \A s \in Live : /\ approvalSteps'[s].order = approvalSteps[s].order
                                       /\ approvalSteps'[s].user = approvalSteps[s].user
    BY DEF SameRows, Live
  <1>1. ASSUME SameRows, NEW s \in Live, workflow'.status = "PENDING_APPROVAL",
               workflow'.approvalOrder = approvalSteps[s].order,
               workflow'.assigned = approvalSteps[s].user,
               approvalSteps'[s].status = "PENDING",
               \A t \in Live : t = s \/ approvalSteps'[t].status # "PENDING"
        PROVE  OneTurn'
    <2>1. Pending' = {s}
      BY <1>0, <1>1 DEF Pending
    <2>2. IsCurrent(s)' /\ workflow'.assigned = approvalSteps'[s].user
      BY <1>0, <1>1 DEF IsCurrent
    <2>. QED
      BY <1>1, <2>1, <2>2 DEF OneTurn
  <1>2. ASSUME SameRows, workflow'.status # "PENDING_APPROVAL",
               \A t \in Live : approvalSteps'[t].status # "PENDING"
        PROVE  OneTurn'
    BY <1>0, <1>2 DEF OneTurn, Pending
  <1>3. CASE StartApprovalCommit(r)
    <2>1. PICK s \in Live : s = requests[r].step
      BY <1>3, NotStale
    <2>2. Pending = {}
      BY <1>3, NotStale DEF OneTurn
    <2>3. /\ SameRows
          /\ \A t \in Live : approvalSteps'[t].status =
                               IF t = s THEN "PENDING" ELSE approvalSteps[t].status
      BY <1>3, <2>1, StartRows DEF Typed, Live
    <2>4. \A t \in Live : approvalSteps[t].status # "PENDING"
      BY <2>2 DEF Pending
    <2>5. /\ workflow'.status = "PENDING_APPROVAL"
          /\ workflow'.approvalOrder = approvalSteps[s].order
          /\ workflow'.assigned = approvalSteps[s].user
      BY <1>3, <2>1, StartRow
    <2>. QED
      BY <1>1, <2>3, <2>4, <2>5
  <1>4. ASSUME workflow.status = "PENDING_APPROVAL", IsCurrent(requests[r].step)
        PROVE  \A t \in Live : t = requests[r].step \/ approvalSteps[t].status # "PENDING"
    BY <1>4 DEF OneTurn, Pending, IsCurrent
  <1>5. CASE ApproveCommit(r)
    <2>1. /\ requests[r].op = "approve" /\ requests[r].next # Null
          /\ approvalSteps[requests[r].step].live
      BY <1>5, CommittingKeeps DEF ApproveCommit, Operations
    <2>2. requests[r].step \in Live
      BY <2>1 DEF Typed, SlotSteps, Live
    <2>3. PICK s \in Live : s = requests[r].next
      BY <2>1, <2>2 DEF Turns, SlotTurns, NextTurn
    <2>4. /\ workflow.status = "PENDING_APPROVAL"
          /\ \A t \in Live : t = requests[r].step \/ approvalSteps[t].status # "PENDING"
      BY <1>4, <1>5, NotStale
    <2>5. /\ SameRows
          /\ \A t \in Live : approvalSteps'[t].status =
               IF t = s THEN "PENDING"
               ELSE IF t = requests[r].step THEN "APPROVED" ELSE approvalSteps[t].status
      BY <1>5, <2>3, ApproveRows DEF Typed, Live
    <2>6. /\ workflow'.status = "PENDING_APPROVAL"
          /\ workflow'.approvalOrder = approvalSteps[s].order
          /\ workflow'.assigned = approvalSteps[s].user
      BY <1>5, <2>3, <2>4, ApproveRow
    <2>. QED
      BY <1>1, <2>4, <2>5, <2>6
  <1>6. ASSUME NEW reviewCycle \in BOOLEAN, NEW finalUsers \in PositionHolders,
               ApproveLastCommit(r, reviewCycle, finalUsers)
        PROVE  OneTurn'
    <2>1. \A t \in Live : t = requests[r].step \/ approvalSteps[t].status # "PENDING"
      BY <1>4, <1>6, NotStale
    <2>2. /\ SameRows
          /\ \A t \in Live : approvalSteps'[t].status =
               IF t = requests[r].step THEN "APPROVED" ELSE approvalSteps[t].status
      BY <1>6, LastRows DEF Typed, Live
    <2>3. workflow'.status # "PENDING_APPROVAL"
      BY <1>6, LastRow
    <2>. QED
      BY <1>2, <2>1, <2>2, <2>3
  <1>7. CASE RejectCommit(r)
    <2>1. \A t \in Live : t = requests[r].step \/ approvalSteps[t].status # "PENDING"
      BY <1>4, <1>7, NotStale
    <2>2. /\ SameRows
          /\ \A t \in Live : approvalSteps'[t].status =
               IF t = requests[r].step THEN "REJECTED" ELSE approvalSteps[t].status
      BY <1>7, RejectRows DEF Typed, Live
    <2>3. workflow'.status # "PENDING_APPROVAL"
      BY <1>7, RejectRow
    <2>. QED
      BY <1>2, <2>1, <2>2, <2>3
  <1>8. ASSUME UNCHANGED approvalSteps,
               \/ RemoveCommit(r)
               \/ \E approvers \in ApproverLists \cup {<<>>}, finalUsers \in SUBSET Users,
                     validated \in BOOLEAN :
                    UpdateCommit(r, approvers, finalUsers, validated)
        PROVE  OneTurn'
    <2>1. Live' = Live /\ Pending' = Pending
      BY <1>8 DEF Live, Pending
    <2>2. /\ workflow'.status = workflow.status
          /\ workflow'.approvalOrder = workflow.approvalOrder
          /\ workflow'.assigned = workflow.assigned
      BY <1>8, EditRow
    <2>3. \A s \in Live : IsCurrent(s)' <=> IsCurrent(s)
      BY <1>8, <2>1, <2>2 DEF IsCurrent
    <2>. QED
      BY <1>8, <2>1, <2>2, <2>3 DEF OneTurn, Pending
  <1>9. ASSUME NEW approvers \in ApproverLists, NEW finalUsers \in SUBSET Users,
               NEW validated \in BOOLEAN, UpdateCommit(r, approvers, finalUsers, validated)
        PROVE  OneTurn'
    <2>1. workflow.status = "DRAFT"
      BY <1>9, NotStale
    <2>2. workflow'.status = "DRAFT"
      BY <1>9, <2>1, EditRow
    <2>3. Pending' = {}
      BY <1>9, ReplaceRows DEF Typed, Pending
    <2>. QED
      BY <2>2, <2>3 DEF OneTurn
  <1>10. RemoveCommit(r) => UNCHANGED approvalSteps
    BY DEF RemoveCommit
  <1>11. \A finalUsers, validated : UpdateCommit(r, <<>>, finalUsers, validated)
           => UNCHANGED approvalSteps
    BY DEF UpdateCommit
  <1>. QED
    BY <1>3, <1>5, <1>6, <1>7, <1>8, <1>9, <1>10, <1>11 DEF Commit

LEMMA StepsOneTurn ==
    ASSUME Known, Turns, CycleRunsInItsStatus, OneApproverHasTurn, [Next]_vars
    PROVE  OneApproverHasTurn'
  <1>1. SUFFICES ASSUME stale' \subseteq {"remove"}
                 PROVE  OneTurn'
    BY DEF OneApproverHasTurn, OneTurn, Pending
  <1>2. OneTurn /\ stale \subseteq {"remove"}
    BY <1>1, StaleGrows DEF OneApproverHasTurn, OneTurn, Pending
  <1>3. CASE RowsUnchanged
    <2>1. Live' = Live /\ Pending' = Pending
      BY <1>3 DEF RowsUnchanged, Live, Pending
    <2>2. \A s \in Live : IsCurrent(s)' <=> IsCurrent(s)
      BY <1>3, <2>1 DEF RowsUnchanged, IsCurrent
    <2>. QED
      BY <1>2, <1>3, <2>1, <2>2 DEF RowsUnchanged, OneTurn, Pending
  <1>4. ASSUME NEW u \in Users, Handler(u)
        PROVE  OneTurn'
    <2>1. /\ UNCHANGED approvalSteps
          /\ workflow.status # "PENDING_APPROVAL" /\ workflow'.status # "PENDING_APPROVAL"
      BY <1>2, <1>4, HandlerRow DEF Known, CycleRunsInItsStatus
    <2>2. Pending' = Pending
      BY <2>1 DEF Pending, Live
    <2>. QED
      BY <1>2, <2>1, <2>2 DEF OneTurn
  <1>5. ASSUME NEW reviewer \in Users, InCycle(reviewer)
        PROVE  OneTurn'
    <2>1. /\ UNCHANGED approvalSteps /\ workflow'.status = workflow.status
          /\ workflow.status = "ADMIN_CYCLE_IN_PROGRESS"
      BY <1>2, <1>5, InCycleRow DEF Known, CycleRunsInItsStatus
    <2>2. Pending' = Pending
      BY <2>1 DEF Pending, Live
    <2>. QED
      BY <1>2, <2>1, <2>2 DEF OneTurn
  <1>. QED
    BY <1>1, <1>2, <1>3, <1>4, <1>5, TurnCommit, Effects DEF Known

\* A workflow in approval waits for exactly the user of its one pending step,
\* and otherwise nobody has a turn, until a request of the approval or an edit
\* commits what another one has overtaken.
THEOREM OneApproverHasTurnCorrect == Spec => []OneApproverHasTurn
  <1>1. Init => OneApproverHasTurn
    <2>1. Init => Pending = {} /\ workflow.status = "DRAFT"
      BY InitRows DEF Pending
    <2>. QED
      BY <2>1 DEF OneApproverHasTurn, Pending
  <1>2. Known /\ Turns /\ CycleRunsInItsStatus /\ OneApproverHasTurn /\ [Next]_vars
        => OneApproverHasTurn'
    BY StepsOneTurn
  <1>. QED
    BY <1>1, <1>2, KnownAlways, CycleAlways, PTL DEF Spec

-----------------------------------------------------------------------------
(* The way to the final users *)

\* A workflow that was approved, or whose cycle still runs, has all its steps
\* approved unless an edit replaced them late; only a late start takes it back
\* to the approval with its cycle running.
Passed ==
    workflow.status \in PastApproval \/ workflow.activeCycle # Null =>
        /\ "update" \in stale \/ AllApproved
        /\ workflow.status = "PENDING_APPROVAL" => "start" \in stale

LEMMA ApprovedKept ==
    ASSUME Typed, AllApproved, SameRows, actions \subseteq actions'
    PROVE  AllApproved'
  BY RowsKept DEF AllApproved, Approved

LEMMA StepsPassed ==
    ASSUME Known, Turns, Passed, [Next]_vars
    PROVE  Passed'
  <1>. USE DEF Known
  <1>1. CASE RowsUnchanged
    <2>1. AllApproved => AllApproved'
      BY <1>1 DEF RowsUnchanged, AllApproved, Approved, Live
    <2>. QED
      BY <1>1, <2>1 DEF RowsUnchanged, Passed
  <1>2. ASSUME NEW u \in Users, Handler(u)
        PROVE  Passed'
    <2>1. AllApproved => AllApproved'
      BY <1>2, HandlerRow DEF AllApproved, Approved, Live
    <2>2. UNCHANGED stale /\ workflow'.status # "PENDING_APPROVAL"
      BY <1>2, HandlerRow
    <2>3. workflow.status \in PastApproval \/ workflow.activeCycle # Null
      BY <1>2, HandlerRow DEF PastApproval
    <2>. QED
      BY <2>1, <2>2, <2>3 DEF Passed
  <1>3. ASSUME NEW r \in Requests,
               StartApprovalCommit(r) \/ ApproveCommit(r) \/ RejectCommit(r) \/ RemoveCommit(r)
        PROVE  Passed'
    <2>1. SameRows /\ actions \subseteq actions'
      <3>1. RemoveCommit(r) => SameRows /\ actions \subseteq actions'
        BY DEF RemoveCommit, SameRows
      <3>2. StartApprovalCommit(r) => actions' = actions
        BY DEF StartApprovalCommit
      <3>3. ApproveCommit(r) \/ RejectCommit(r) => actions \subseteq actions'
        BY DEF ApproveCommit, RejectCommit
      <3>. QED
        BY <1>3, <3>1, <3>2, <3>3, StartRows, ApproveRows, RejectRows DEF Typed
    <2>2. AllApproved => AllApproved'
      BY <2>1, ApprovedKept
    <2>3. stale \subseteq stale'
      BY StaleGrows
    <2>4. CASE StartApprovalCommit(r)
      <3>1. /\ workflow'.status = "PENDING_APPROVAL"
            /\ workflow'.activeCycle = workflow.activeCycle
        BY <2>4, StartRow
      <3>2. "start" \in stale' \/ workflow.activeCycle = Null
        BY <2>4, NotStale DEF StatusesUsed
      <3>. QED
        BY <2>2, <2>3, <3>1, <3>2 DEF Passed, PastApproval
    <2>5. CASE ~StartApprovalCommit(r)
      <3>1. /\ workflow'.activeCycle = workflow.activeCycle
            /\ workflow'.status = workflow.status \/ workflow'.status = "REJECTED"
        BY <1>3, <2>5, ApproveRow, RejectRow, EditRow
      <3>. QED
        BY <2>2, <2>3, <3>1 DEF Passed, PastApproval
    <2>. QED
      BY <2>4, <2>5
  <1>4. ASSUME NEW r \in Requests, NEW reviewCycle \in BOOLEAN,
               NEW finalUsers \in PositionHolders,
               ApproveLastCommit(r, reviewCycle, finalUsers)
        PROVE  Passed'
    BY <1>4, LastTurns, LastRow DEF Passed
  <1>5. ASSUME NEW r \in Requests, NEW approvers \in ApproverLists \cup {<<>>},
               NEW finalUsers \in SUBSET Users, NEW validated \in BOOLEAN,
               UpdateCommit(r, approvers, finalUsers, validated)
        PROVE  Passed'
    <2>1. /\ workflow'.status = workflow.status
          /\ workflow'.activeCycle = workflow.activeCycle
      BY <1>5, EditRow
    <2>2. stale \subseteq stale'
      BY StaleGrows
    <2>3. "update" \in stale' \/ (workflow.status = "DRAFT" /\ workflow.activeCycle = Null)
      BY <1>5, NotStale DEF StatusesUsed
    <2>. QED
      BY <2>1, <2>2, <2>3 DEF Passed, PastApproval
  <1>6. ASSUME NEW reviewer \in Users, InCycle(reviewer)
        PROVE  Passed'
    <2>1. AllApproved => AllApproved'
      BY <1>6, InCycleRow DEF AllApproved, Approved, Live
    <2>. QED
      BY <1>6, <2>1, InCycleRow DEF Passed
  <1>. QED
    BY <1>1, <1>2, <1>3, <1>4, <1>5, <1>6, Effects DEF Commit

LEMMA PassedAlways == Spec => []Passed
  <1>1. Init => Passed
    BY InitRows DEF Passed, PastApproval
  <1>2. Known /\ Turns /\ Passed /\ [Next]_vars => Passed'
    BY StepsPassed
  <1>. QED
    BY <1>1, <1>2, KnownAlways, PTL DEF Spec

\* However approvals, edits and starts cross, a workflow gets to its final users
\* with all its steps approved, unless both an edit and a start came late.
THEOREM FinalUsersOnlyAfterAllApprovalsCorrect == Spec => FinalUsersOnlyAfterAllApprovals
  <1>1. ASSUME Known, Turns, Passed, [Next]_vars,
               workflow.status \notin PastApproval, workflow'.status \in PastApproval
        PROVE  AllApproved' \/ {"start", "update"} \subseteq stale'
    <2>1. CASE RowsUnchanged
      BY <1>1, <2>1 DEF RowsUnchanged
    <2>2. ASSUME NEW r \in Requests, Commit(r)
          PROVE  AllApproved'
      BY <1>1, <2>2, LastTurns, StartRow, ApproveRow, RejectRow, EditRow
         DEF Commit, PastApproval, Known
    <2>3. ASSUME NEW u \in Users, Handler(u)
          PROVE  AllApproved' \/ {"start", "update"} \subseteq stale'
      <3>1. /\ UNCHANGED <<approvalSteps, actions, stale>>
            /\ workflow.status = "PENDING_APPROVAL" /\ workflow.activeCycle # Null
        BY <1>1, <2>3, HandlerRow DEF Known, PastApproval
      <3>2. "start" \in stale /\ ("update" \in stale \/ AllApproved)
        BY <1>1, <3>1 DEF Passed
      <3>3. AllApproved => AllApproved'
        BY <3>1 DEF AllApproved, Approved, Live
      <3>. QED
        BY <3>1, <3>2, <3>3
    <2>4. ASSUME NEW reviewer \in Users, InCycle(reviewer)
          PROVE  FALSE
      BY <1>1, <2>4, InCycleRow DEF Known
    <2>. QED
      BY <1>1, <2>1, <2>2, <2>3, <2>4, Effects DEF Known
  <1>2. Known /\ Turns /\ Passed /\ [Next]_vars =>
          [workflow.status \notin PastApproval /\ workflow'.status \in PastApproval
             => AllApproved' \/ {"start", "update"} \subseteq stale']_vars
    BY <1>1
  <1>. QED
    BY <1>2, KnownAlways, PassedAlways, PTL DEF Spec, FinalUsersOnlyAfterAllApprovals

-----------------------------------------------------------------------------
(* Who decides.  Until a stale start names an approver the steps no longer  *)
(* have, the row, the slots and the decisions name the approvers.  A cycle  *)
(* assigns its reviewers in the same column: Passed says that only after a  *)
(* late start the row of a workflow in approval is written by a cycle.      *)

DecidedByApprovers == \A a \in actions : a.user = approvalSteps[a.step].user

SlotsOfApprovers ==
    \A q \in Requests :
        requests[q].op \in {"approve", "reject"} /\ requests[q].step \in Live
        => requests[q].user = approvalSteps[requests[q].step].user

AssignedToCurrent ==
    workflow.status = "PENDING_APPROVAL" =>
        \A s \in Live : IsCurrent(s) => workflow.assigned = approvalSteps[s].user

Named == DecidedByApprovers /\ SlotsOfApprovers /\ AssignedToCurrent

LEMMA NamedRead ==
    ASSUME Known, Named, NEW r \in Requests, NEW x \in Request, Read(r, x),
           x.op \in {"approve", "reject"} => x.user = approvalSteps[x.step].user
    PROVE  Named'
  <1>1. /\ requests'[r] = x
        /\ \A q \in Requests \ {r} : requests'[q] = requests[q]
        /\ UNCHANGED <<workflow, approvalSteps, actions, stale>>
    BY ReadSlots DEF Known, Typed, TypeOK, Slots
  <1>2. Live' = Live
    BY <1>1 DEF Live
  <1>. QED
    BY <1>1, <1>2 DEF Named, DecidedByApprovers, SlotsOfApprovers, AssignedToCurrent, IsCurrent

LEMMA NamedReads ==
    ASSUME Known, Named, NEW r \in Requests, NEW u \in Users,
           Reads(r, u)
    PROVE  Named'
  <1>1. CASE StartApprovalRead(r, u)
    <2>1. PICK s \in Live : Read(r, [Idle EXCEPT !.op = "start", !.user = u, !.step = s])
      BY <1>1 DEF StartApprovalRead
    <2>2. [Idle EXCEPT !.op = "start", !.user = u, !.step = s] \in Request
      BY StepsType DEF Idle, Request, Null, Known, Typed
    <2>. QED
      BY <2>1, <2>2, NamedRead DEF Idle
  <1>2. CASE ApproveRead(r, u)
    <2>1. PICK s \in Live, next \in Live \cup {Null} :
            /\ IsCurrent(s)
            /\ Read(r, [op |-> "approve", user |-> u, step |-> s, next |-> next,
                        finalUsers |-> workflow.finalUsers, overtaken |-> FALSE])
      BY <1>2 DEF ApproveRead
    <2>2. [op |-> "approve", user |-> u, step |-> s, next |-> next,
           finalUsers |-> workflow.finalUsers, overtaken |-> FALSE] \in Request
      BY StepsType DEF TypeOK, Workflow, Request, Null, Known, Typed
    <2>3. u = approvalSteps[s].user
      BY <1>2, <2>1, Transitions DEF ApproveRead, Known, Named, AssignedToCurrent
    <2>. QED
      BY <2>1, <2>2, <2>3, NamedRead
  <1>3. CASE RejectRead(r, u)
    <2>1. PICK s \in Live : /\ IsCurrent(s)
                            /\ Read(r, [Idle EXCEPT !.op = "reject", !.user = u, !.step = s])
      BY <1>3 DEF RejectRead
    <2>2. [Idle EXCEPT !.op = "reject", !.user = u, !.step = s] \in Request
      BY StepsType DEF Idle, Request, Null, Known, Typed
    <2>3. u = approvalSteps[s].user
      BY <1>3, <2>1, Transitions DEF RejectRead, Known, Named, AssignedToCurrent
    <2>. QED
      BY <2>1, <2>2, <2>3, NamedRead DEF Idle
  <1>4. CASE UpdateRead(r) \/ \E superAdmin \in BOOLEAN : RemoveRead(r, superAdmin)
    <2>1. PICK op \in {"update", "remove"} : Read(r, [Idle EXCEPT !.op = op])
      BY <1>4 DEF UpdateRead, RemoveRead
    <2>2. [Idle EXCEPT !.op = op] \in Request
      BY DEF Idle, Request, Null
    <2>. QED
      BY <2>1, <2>2, NamedRead DEF Idle
  <1>. QED
    BY <1>1, <1>2, <1>3, <1>4 DEF Reads

\* The slots and the decisions refer to rows that keep their users.
LEMMA NamesKept ==
    ASSUME Known, Named, Turns, SameRows, SlotsKept
    PROVE  /\ SlotsOfApprovers'
           /\ actions' = actions => DecidedByApprovers'
           /\ \A r \in Requests : \A verdict \in {"APPROVED", "REJECTED"} :
                /\ requests[r].op \in {"approve", "reject"}
                /\ requests[r].step \in Live
                /\ actions' = actions \cup {Signed(r, verdict)}
                => DecidedByApprovers'
  <1>1. /\ Live' = Live /\ Live \subseteq DOMAIN approvalSteps
        /\ \A s \in Live : approvalSteps'[s].user = approvalSteps[s].user
    BY DEF SameRows, Live
  <1>2. SlotsOfApprovers'
    BY <1>1 DEF Named, SlotsOfApprovers, SlotsKept
  <1>3. \A a \in actions : a.user = approvalSteps'[a.step].user
    BY <1>1 DEF Named, DecidedByApprovers, Turns, ActionTurns
  <1>4. ASSUME NEW r \in Requests, NEW verdict \in {"APPROVED", "REJECTED"},
               requests[r].op \in {"approve", "reject"}, requests[r].step \in Live,
               actions' = actions \cup {Signed(r, verdict)}
        PROVE  DecidedByApprovers'
    <2>1. Signed(r, verdict).user = approvalSteps'[Signed(r, verdict).step].user
      BY <1>1, <1>4 DEF Signed, Named, SlotsOfApprovers
    <2>. QED
      BY <1>3, <1>4, <2>1 DEF DecidedByApprovers
  <1>. QED
    BY <1>2, <1>3, <1>4 DEF DecidedByApprovers

LEMMA NamedCommit ==
    ASSUME Known, Turns, Named, NEW r \in Requests, Commit(r), "start" \notin stale'
    PROVE  Named'
  <1>. USE DEF Known, Operations
  <1>0. \A t \in Live : /\ approvalSteps[t].order \in Nat
                        /\ \A s \in Live :
                             approvalSteps[s].order = approvalSteps[t].order => s = t
    BY StepsType DEF Typed, ApprovalStep, Turns, LiveOrders
  <1>1. CASE StartApprovalCommit(r)
    <2>1. /\ SlotsKept /\ requests[r].op = "start" /\ ~requests[r].overtaken
          /\ actions' = actions
      BY <1>1, CommittingKeeps DEF StartApprovalCommit
    <2>2. requests[r].step \in Live
      BY <2>1 DEF Fresh
    <2>3. SameRows /\ Live' = Live
      BY <1>1, <2>1, StartRows, RowsKept DEF Typed
    <2>4. AssignedToCurrent'
      <3>1. ASSUME NEW t \in Live, IsCurrent(t)'
            PROVE  workflow'.assigned = approvalSteps'[t].user
        <4>1. approvalSteps[t].order = approvalSteps[requests[r].step].order
          BY <1>1, <2>3, <3>1, StartRow DEF IsCurrent, SameRows, Live
        <4>2. t = requests[r].step
          BY <1>0, <2>2, <4>1
        <4>. QED
          BY <1>1, <2>3, <4>2, StartRow DEF SameRows, Live
      <3>. QED
        BY <2>3, <3>1 DEF AssignedToCurrent
    <2>. QED
      BY <2>1, <2>3, <2>4, NamesKept DEF Named
  <1>2. CASE ApproveCommit(r)
    <2>1. /\ SlotsKept /\ requests[r].op = "approve" /\ requests[r].next # Null
          /\ actions' = actions \cup {Signed(r, "APPROVED")}
          /\ approvalSteps[requests[r].step].live
      BY <1>2, CommittingKeeps DEF ApproveCommit
    <2>2. requests[r].step \in Live
      BY <2>1 DEF Typed, SlotSteps, Live
    <2>3. requests[r].next \in Live
      BY <2>1, <2>2 DEF Turns, SlotTurns, NextTurn
    <2>4. SameRows /\ Live' = Live
      BY <1>2, <2>1, ApproveRows, RowsKept DEF Typed
    <2>5. AssignedToCurrent'
      <3>1. ASSUME NEW t \in Live, IsCurrent(t)'
            PROVE  workflow'.assigned = approvalSteps'[t].user
        <4>1. approvalSteps[t].order = approvalSteps[requests[r].next].order
          BY <1>2, <2>4, <3>1, ApproveRow DEF IsCurrent, SameRows, Live
        <4>2. t = requests[r].next
          BY <1>0, <2>3, <4>1
        <4>. QED
          BY <1>2, <2>4, <4>2, ApproveRow DEF SameRows, Live
      <3>. QED
        BY <2>4, <3>1 DEF AssignedToCurrent
    <2>. QED
      BY <2>1, <2>2, <2>4, <2>5, NamesKept DEF Named
  <1>3. ASSUME NEW reviewCycle \in BOOLEAN, NEW finalUsers \in PositionHolders,
               ApproveLastCommit(r, reviewCycle, finalUsers)
        PROVE  Named'
    <2>1. /\ SlotsKept /\ requests[r].op = "approve"
          /\ actions' = actions \cup {Signed(r, "APPROVED")}
          /\ approvalSteps[requests[r].step].live
      BY <1>3, CommittingKeeps DEF ApproveLastCommit
    <2>2. requests[r].step \in Live
      BY <2>1 DEF Typed, SlotSteps, Live
    <2>3. SameRows
      BY <1>3, LastRows DEF Typed
    <2>4. AssignedToCurrent'
      BY <1>3, LastRow DEF AssignedToCurrent
    <2>. QED
      BY <2>1, <2>2, <2>3, <2>4, NamesKept DEF Named
  <1>4. CASE RejectCommit(r)
    <2>1. /\ SlotsKept /\ requests[r].op = "reject"
          /\ actions' = actions \cup {Signed(r, "REJECTED")}
          /\ approvalSteps[requests[r].step].live
      BY <1>4, CommittingKeeps DEF RejectCommit
    <2>2. requests[r].step \in Live
      BY <2>1 DEF Typed, SlotSteps, Live
    <2>3. SameRows
      BY <1>4, RejectRows DEF Typed
    <2>4. AssignedToCurrent'
      BY <1>4, RejectRow DEF AssignedToCurrent
    <2>. QED
      BY <2>1, <2>2, <2>3, <2>4, NamesKept DEF Named
  <1>5. ASSUME UNCHANGED <<approvalSteps, actions>>,
               \/ RemoveCommit(r)
               \/ \E approvers \in ApproverLists \cup {<<>>}, finalUsers \in SUBSET Users,
                     validated \in BOOLEAN :
                    UpdateCommit(r, approvers, finalUsers, validated)
        PROVE  Named'
    <2>1. SlotsKept
      BY <1>5, CommittingKeeps DEF RemoveCommit, UpdateCommit
    <2>2. SameRows /\ Live' = Live
      BY <1>5 DEF SameRows, Live
    <2>3. AssignedToCurrent'
      BY <1>5, <2>2, EditRow DEF Named, AssignedToCurrent, IsCurrent
    <2>. QED
      BY <1>5, <2>1, <2>2, <2>3, NamesKept DEF Named
  <1>6. ASSUME NEW approvers \in ApproverLists, NEW finalUsers, NEW validated,
               UpdateCommit(r, approvers, finalUsers, validated)
        PROVE  Named'
    <2>1. SlotsKept
      BY <1>6, CommittingKeeps DEF UpdateCommit
    <2>2. \A q \in Requests : requests'[q].op \in {"approve", "reject"}
            => requests'[q].step \notin Live'
      BY <1>6, <2>1, ReplaceRows DEF SlotsKept, Typed, SlotSteps
    <2>3. actions' = {} /\ \A t \in Live' : ~IsCurrent(t)'
      BY <1>6, ReplaceRows DEF IsCurrent, Typed
    <2>. QED
      BY <2>2, <2>3 DEF Named, DecidedByApprovers, SlotsOfApprovers, AssignedToCurrent
  <1>7. RemoveCommit(r) => UNCHANGED <<approvalSteps, actions>>
    BY DEF RemoveCommit
  <1>8. \A finalUsers, validated : UpdateCommit(r, <<>>, finalUsers, validated)
          => UNCHANGED <<approvalSteps, actions>>
    BY DEF UpdateCommit
  <1>. QED
    BY <1>1, <1>2, <1>3, <1>4, <1>5, <1>6, <1>7, <1>8 DEF Commit

LEMMA StepsNamed ==
    ASSUME Known, Turns, Passed, "start" \notin stale => Named, [Next]_vars,
           "start" \notin stale'
    PROVE  Named'
  <1>1. "start" \notin stale /\ Named
    BY StaleGrows
  <1>2. ASSUME SlotsKept, RowsUnchanged
        PROVE  Named'
    <2>1. SameRows /\ Live' = Live
      BY <1>2 DEF SameRows, Live, RowsUnchanged
    <2>. QED
      BY <1>1, <1>2, <2>1, NamesKept DEF Named, AssignedToCurrent, IsCurrent, RowsUnchanged
  <1>3. ASSUME NEW r \in Requests, Fail(r)
        PROVE  Named'
    BY <1>2, <1>3, FailSlots DEF Known, Typed, TypeOK, Slots, RowsUnchanged
  <1>4. CASE UNCHANGED vars
    BY <1>2, <1>4 DEF vars, SlotsKept, RowsUnchanged
  <1>5. ASSUME NEW u \in Users, Handler(u) \/ InCycle(u)
        PROVE  Named'
    <2>1. Slots /\ \E newRow : Locked(newRow)
      BY <1>5 DEF Handler, CreateCycle, CompleteCycle, SkipReviewCycle, End,
                  InCycle, CompleteStep, ForwardStep, Known, Typed, TypeOK, Slots
    <2>2. SlotsKept /\ UNCHANGED <<approvalSteps, actions>>
      BY <2>1, LockedSlots DEF Locked
    <2>3. SameRows
      BY <2>2 DEF SameRows
    <2>4. workflow'.status # "PENDING_APPROVAL"
      <3>1. CASE Handler(u)
        BY <3>1, HandlerRow DEF Known
      <3>2. CASE InCycle(u)
        BY <1>1, <3>2, InCycleRow DEF Known, Passed
      <3>. QED
        BY <1>5, <3>1, <3>2
    <2>5. AssignedToCurrent'
      BY <2>4 DEF AssignedToCurrent
    <2>. QED
      BY <1>1, <2>2, <2>3, <2>5, NamesKept DEF Named
  <1>. QED
    BY <1>1, <1>3, <1>4, <1>5, NamedReads, NamedCommit, NextCases DEF Known, Typed

LEMMA NamedAlways == Spec => []("start" \notin stale => Named)
  <1>1. Init => Named
    BY InitRows DEF Named, DecidedByApprovers, SlotsOfApprovers, AssignedToCurrent
  <1>2. Known /\ Turns /\ Passed /\ ("start" \notin stale => Named) /\ [Next]_vars
        => ("start" \notin stale => Named)'
    BY StepsNamed
  <1>. QED
    BY <1>1, <1>2, KnownAlways, PassedAlways, PTL DEF Spec

\* [RN-04, RN-06] Whatever crosses it, a decision is recorded on a step that
\* exists and, as long as no start committed over an edit, in the name of the
\* step's approver.
THEOREM DecisionByItsApproverCorrect == Spec => []DecisionByItsApprover
  <1>1. Turns /\ ("start" \notin stale => Named) => DecisionByItsApprover
    BY DEF Turns, ActionTurns, Named, DecidedByApprovers, DecisionByItsApprover
  <1>. QED
    BY <1>1, KnownAlways, NamedAlways, PTL

-----------------------------------------------------------------------------
(* Idempotency: the calls that carry one key *)


\* A call has the user who sent it, from then until it ends.
CallsOwned ==
    \A c \in Calls : IF calls[c].pc = "idle" THEN calls[c] = IdleCall
                                             ELSE calls[c].user \in Clients

KeyTyped == KeyTypeOK /\ CallsOwned

\* What is stored, or about to be, is the outcome of an execution of its user.
StoredIsOwn ==
    /\ row # Nothing => executions[row.user] > 0
    /\ \A c \in Calls : calls[c].pc = "set" => executions[calls[c].user] > 0

IsOwn == StoredIsOwn /\ AnswerIsOwn

Serving(c) == calls[c].pc # "idle"

\* One call at a time, and no other user ever executed.
Alone ==
    /\ \A c, d \in Calls : Serving(c) /\ Serving(d) => c = d
    /\ \A c \in Calls : Serving(c) =>
         \A v \in Clients \ {calls[c].user} : executions[v] = 0

\* Nothing has expired, so no delete is on its way.
Unexpired == deletes = 0 /\ (row # Nothing => ~row.expired)

\* The execution is stored, or about to be.
Kept(u) ==
    \/ row = [user |-> u, expired |-> FALSE]
    \/ \E c \in Calls : calls[c] = [pc |-> "set", user |-> u]

Once ==
    /\ \A c \in Calls : calls[c].pc = "run" => executions[calls[c].user] = 0
    /\ \A u \in Clients : executions[u] > 0 => Kept(u) /\ executions[u] = 1

Orderly == Alone /\ Unexpired /\ Once

\* Orderly holds as long as there is nothing to excuse.
KeyIInv == KeyTyped /\ IsOwn /\ (excuses = {} => Orderly)

-----------------------------------------------------------------------------
(* What an action on a slot does to the slots *)

LEMMA CallSlots ==
    ASSUME KeyTyped, NEW c \in Calls, NEW call, calls' = [calls EXCEPT ![c] = call]
    PROVE  calls'[c] = call /\ \A d \in Calls \ {c} : calls'[d] = calls[d]
  BY DEF KeyTyped, KeyTypeOK

LEMMA AdvanceSlots ==
    ASSUME KeyTyped, NEW c \in Calls, NEW pc \in {"run", "set"}, Advance(c, pc)
    PROVE  /\ calls'[c] = [pc |-> pc, user |-> calls[c].user]
           /\ \A d \in Calls \ {c} : calls'[d] = calls[d]
  BY DEF KeyTyped, KeyTypeOK, Advance, Call

LEMMA RunsNext ==
    ASSUME KeyTyped, NEW c \in Calls, Advance(c, "run")
    PROVE  \A d \in Calls : calls'[d].pc = "set" => calls'[d] = calls[d]
  <1>1. calls'[c] = [pc |-> "run", user |-> calls[c].user]
    BY AdvanceSlots
  <1>2. \A d \in Calls \ {c} : calls'[d] = calls[d]
    BY AdvanceSlots
  <1>. QED
    BY <1>1, <1>2

LEMMA SetsNext ==
    ASSUME KeyTyped, NEW c \in Calls, Advance(c, "set")
    PROVE  \A d \in Calls : calls'[d].pc = "set" =>
             calls'[d].user = calls[d].user /\ (d = c \/ calls[d].pc = "set")
  <1>1. calls'[c] = [pc |-> "set", user |-> calls[c].user]
    BY AdvanceSlots
  <1>2. \A d \in Calls \ {c} : calls'[d] = calls[d]
    BY AdvanceSlots
  <1>. QED
    BY <1>1, <1>2

\* A call in course has a user.
LEMMA ServedUser ==
    ASSUME KeyTyped, NEW c \in Calls, Serving(c)
    PROVE  calls[c].user \in Clients
  BY DEF KeyTyped, CallsOwned, Serving

\* The row that answers is of the user who asks.
LEMMA HitIsOwn ==
    ASSUME KeyTyped, NEW c \in Calls, GetHit(c)
    PROVE  Serving(c) /\ row # Nothing /\ row.user = calls[c].user
  <1>1. Serving(c)
    BY DEF GetHit, Serving
  <1>2. calls[c].user \in Clients
    BY <1>1, ServedUser
  <1>3. row = [user |-> calls[c].user, expired |-> FALSE]
    BY DEF GetHit
  <1>4. row \in [user : Clients, expired : BOOLEAN]
    BY <1>2, <1>3
  <1>. QED
    BY <1>1, <1>3, <1>4, IdempotencyAssumption

LEMMA Bounds ==
    MaxExecutions \in Nat /\ MaxDeletes \in Nat
  BY IdempotencyAssumption

LEMMA NoRow ==
    \A u \in Clients, e \in BOOLEAN : Nothing # [user |-> u, expired |-> e]
  BY IdempotencyAssumption

LEMMA Counters ==
    ASSUME KeyTyped
    PROVE  deletes \in Nat /\ \A u \in Clients : executions[u] \in Nat
  <1>1. deletes \in 0..MaxDeletes /\ executions \in [Clients -> 0..MaxExecutions]
    BY DEF KeyTyped, KeyTypeOK
  <1>. QED
    BY <1>1, Bounds

LEMMA GetExpiredCounts ==
    ASSUME KeyTyped, NEW c \in Calls, GetExpired(c)
    PROVE  deletes' \in 0..MaxDeletes
  <1>1. deletes < MaxDeletes /\ deletes' = deletes + 1
    BY DEF GetExpired
  <1>. QED
    BY <1>1, Bounds, Counters

LEMMA DeleteCounts ==
    ASSUME KeyTyped, DeleteArrives
    PROVE  deletes' \in 0..MaxDeletes
  <1>1. deletes > 0 /\ deletes' = deletes - 1
    BY DEF DeleteArrives
  <1>2. deletes \in 0..MaxDeletes
    BY DEF KeyTyped, KeyTypeOK
  <1>. QED
    BY <1>1, <1>2, Bounds

\* The operation counts for the user who called it.
LEMMA RunCounts ==
    ASSUME KeyTyped, NEW c \in Calls, Run(c)
    PROVE  /\ executions[calls[c].user] + 1 \in 0..MaxExecutions
           /\ executions'[calls[c].user] = executions[calls[c].user] + 1
           /\ executions'[calls[c].user] > 0
           /\ \A v \in Clients \ {calls[c].user} : executions'[v] = executions[v]
           /\ \A v \in Clients : executions[v] > 0 => executions'[v] > 0
  <1>1. executions' = [executions EXCEPT ![calls[c].user] = @ + 1]
    BY DEF Run
  <1>2. executions \in [Clients -> 0..MaxExecutions]
    BY DEF KeyTyped, KeyTypeOK
  <1>3. calls[c].user \in Clients
    BY ServedUser DEF Run, Serving
  <1>4. executions[calls[c].user] \in Nat /\ executions[calls[c].user] < MaxExecutions
    BY <1>3, Counters DEF Run
  <1>5. executions'[calls[c].user] = executions[calls[c].user] + 1
    BY <1>1, <1>2, <1>3
  <1>6. \A v \in Clients \ {calls[c].user} : executions'[v] = executions[v]
    BY <1>1, <1>2, <1>3
  <1>7. executions[calls[c].user] + 1 \in 0..MaxExecutions
    BY <1>4, Bounds
  <1>8. executions'[calls[c].user] > 0
    BY <1>4, <1>5
  <1>. QED
    BY <1>5, <1>6, <1>7, <1>8

\* Nobody takes an excuse back.
LEMMA ExcusesStay == [KeyNext]_keyVars => excuses \subseteq excuses'
  BY DEF KeyNext, keyVars, Send, GetHit, GetMiss, GetExpired, Run, Set, Abandon,
         Expire, DeleteArrives

-----------------------------------------------------------------------------
(* Types *)

LEMMA TypedStep ==
    KeyTyped /\ [KeyNext]_keyVars => KeyTyped'
  <1>. SUFFICES ASSUME KeyTyped, [KeyNext]_keyVars PROVE KeyTyped'
    OBVIOUS
  <1>. USE DEF KeyTyped, KeyTypeOK, CallsOwned, Row, Call, IdleCall
  <1>1. ASSUME NEW c \in Calls, NEW u \in Clients, Send(c, u) PROVE KeyTyped'
    BY <1>1 DEF Send
  <1>2. ASSUME NEW c \in Calls, GetHit(c) PROVE KeyTyped'
    BY <1>2 DEF GetHit
  <1>3. ASSUME NEW c \in Calls, GetMiss(c) PROVE KeyTyped'
    BY <1>3 DEF GetMiss, Advance
  <1>4. ASSUME NEW c \in Calls, GetExpired(c) PROVE KeyTyped'
    <2>1. deletes' \in 0..MaxDeletes
      BY <1>4, GetExpiredCounts
    <2>2. calls' \in [Calls -> Call] /\ CallsOwned'
      BY <1>4 DEF GetExpired, Advance
    <2>. QED
      BY <1>4, <2>1, <2>2 DEF GetExpired
  <1>5. ASSUME NEW c \in Calls, Run(c) PROVE KeyTyped'
    <2>1. calls[c].user \in Clients
      BY <1>5 DEF Run
    <2>2. executions[calls[c].user] + 1 \in 0..MaxExecutions
      BY <1>5, RunCounts
    <2>3. executions' \in [Clients -> 0..MaxExecutions]
      BY <1>5, <2>1, <2>2 DEF Run
    <2>4. calls' \in [Calls -> Call] /\ CallsOwned'
      BY <1>5 DEF Run, Advance
    <2>. QED
      BY <1>5, <2>3, <2>4 DEF Run
  <1>6. ASSUME NEW c \in Calls, Set(c) PROVE KeyTyped'
    BY <1>6 DEF Set
  <1>7. ASSUME NEW c \in Calls, Abandon(c) PROVE KeyTyped'
    BY <1>7 DEF Abandon
  <1>8. CASE Expire
    BY <1>8 DEF Expire
  <1>9. CASE DeleteArrives
    <2>1. deletes' \in 0..MaxDeletes
      BY <1>9, DeleteCounts
    <2>. QED
      BY <1>9, <2>1 DEF DeleteArrives
  <1>10. CASE UNCHANGED keyVars
    BY <1>10 DEF keyVars
  <1>. QED
    BY <1>1, <1>2, <1>3, <1>4, <1>5, <1>6, <1>7, <1>8, <1>9, <1>10 DEF KeyNext

-----------------------------------------------------------------------------
(* Whose outcome is answered *)

\* Only Set stores, after an execution of the same user; only GetHit and Set
\* answer, with what is stored.
LEMMA OwnStep ==
    KeyTyped /\ KeyTyped' /\ IsOwn /\ [KeyNext]_keyVars => IsOwn'
  <1>. SUFFICES ASSUME KeyTyped, KeyTyped', IsOwn, [KeyNext]_keyVars PROVE IsOwn'
    OBVIOUS
  <1>. USE DEF KeyTyped, KeyTypeOK, IsOwn, StoredIsOwn, AnswerIsOwn, Row, Call, IdleCall
  <1>1. ASSUME NEW c \in Calls, NEW u \in Clients, Send(c, u) PROVE IsOwn'
    BY <1>1 DEF Send
  <1>2. ASSUME NEW c \in Calls, GetHit(c) PROVE IsOwn'
    <2>1. executions[calls[c].user] > 0
      BY <1>2, HitIsOwn
    <2>2. \A d \in Calls : calls'[d].pc = "set" => calls'[d] = calls[d]
      BY <1>2 DEF GetHit
    <2>. QED
      BY <1>2, <2>1, <2>2 DEF GetHit
  <1>3. ASSUME NEW c \in Calls, GetMiss(c) PROVE IsOwn'
    <2>1. \A d \in Calls : calls'[d].pc = "set" => calls'[d] = calls[d]
      BY <1>3, RunsNext DEF GetMiss
    <2>. QED
      BY <1>3, <2>1 DEF GetMiss
  <1>4. ASSUME NEW c \in Calls, GetExpired(c) PROVE IsOwn'
    <2>1. \A d \in Calls : calls'[d].pc = "set" => calls'[d] = calls[d]
      BY <1>4, RunsNext DEF GetExpired
    <2>. QED
      BY <1>4, <2>1 DEF GetExpired
  <1>5. ASSUME NEW c \in Calls, Run(c) PROVE IsOwn'
    <2>1. calls[c].user \in Clients
      BY <1>5, ServedUser DEF Run, Serving
    <2>3. \A v \in Clients : executions[v] > 0 => executions'[v] > 0
      BY <1>5, RunCounts
    <2>4. \A d \in Calls : calls'[d].pc = "set"
                             => calls'[d].user = calls[d].user /\ (d = c \/ calls[d].pc = "set")
      BY <1>5, SetsNext DEF Run
    <2>5. executions'[calls[c].user] > 0
      BY <1>5, RunCounts
    <2>6. \A d \in Calls : calls[d].pc = "set" => calls[d].user \in Clients
      BY ServedUser DEF Serving
    <2>7. (\A d \in Calls : calls[d].pc = "set" => executions[calls[d].user] > 0)'
      BY <2>3, <2>4, <2>5, <2>6
    <2>8. (row # Nothing => executions[row.user] > 0)'
      BY <1>5, <2>3 DEF Run
    <2>9. AnswerIsOwn'
      BY <1>5, <2>3 DEF Run
    <2>. QED
      BY <2>7, <2>8, <2>9
  <1>6. ASSUME NEW c \in Calls, Set(c) PROVE IsOwn'
    BY <1>6 DEF Set
  <1>7. ASSUME NEW c \in Calls, Abandon(c) PROVE IsOwn'
    BY <1>7 DEF Abandon
  <1>8. CASE Expire
    BY <1>8 DEF Expire
  <1>9. CASE DeleteArrives
    BY <1>9 DEF DeleteArrives
  <1>10. CASE UNCHANGED keyVars
    BY <1>10 DEF keyVars
  <1>. QED
    BY <1>1, <1>2, <1>3, <1>4, <1>5, <1>6, <1>7, <1>8, <1>9, <1>10 DEF KeyNext

-----------------------------------------------------------------------------
(* When the operation is executed again *)

\* A call is sent: nobody else's is in course, and nobody else's was executed.
LEMMA SendOrderly ==
    ASSUME KeyTyped, Orderly, excuses' = {},
           NEW c \in Calls, NEW u \in Clients, Send(c, u)
    PROVE  Orderly'
  <1>1. calls'[c] = [pc |-> "get", user |-> u] /\ \A d \in Calls \ {c} : calls'[d] = calls[d]
    BY CallSlots DEF Send
  <1>2. \A d \in Calls : calls[d] = IdleCall
    BY DEF Send, Busy
  <1>3. \A v \in Clients \ {u} : ~(executions[v] > 0)
    BY DEF Send
  <1>4. \A v \in Clients \ {u} : executions[v] = 0
    BY <1>3, Counters
  <1>5. Alone'
    <2>1. \A d \in Calls \ {c} : ~Serving(d)'
      BY <1>1, <1>2 DEF Serving, IdleCall
    <2>2. calls'[c].user = u
      BY <1>1
    <2>3. UNCHANGED executions
      BY DEF Send
    <2>. QED
      BY <1>4, <2>1, <2>2, <2>3 DEF Alone
  <1>6. ASSUME NEW v \in Clients, Kept(v) PROVE Kept(v)'
    <2>1. \A d \in Calls : calls[d].pc = "idle"
      BY <1>2 DEF IdleCall
    <2>2. row = [user |-> v, expired |-> FALSE]
      BY <1>6, <2>1 DEF Kept
    <2>. QED
      BY <2>2 DEF Kept, Send
  <1>7. \A d \in Calls : calls'[d].pc # "run"
    BY <1>1, <1>2 DEF IdleCall
  <1>8. Once'
    BY <1>6, <1>7 DEF Orderly, Once, Send
  <1>. QED
    BY <1>5, <1>8 DEF Orderly, Unexpired, Send

\* get finds no row of the user: then he has executed nothing.
LEMMA MissOrderly ==
    ASSUME KeyTyped, Orderly, NEW c \in Calls, GetMiss(c)
    PROVE  Orderly'
  <1>1. /\ calls'[c] = [pc |-> "run", user |-> calls[c].user]
        /\ \A d \in Calls \ {c} : calls'[d] = calls[d]
    BY AdvanceSlots DEF GetMiss
  <1>2. Serving(c) /\ calls[c].user \in Clients
    BY ServedUser DEF GetMiss, Serving
  <1>3. \A d \in Calls : calls[d].pc # "set"
    BY <1>2 DEF Orderly, Alone, Serving, GetMiss
  <1>4. ~Kept(calls[c].user)
    <2>1. row = Nothing \/ row.user # calls[c].user
      BY DEF GetMiss
    <2>2. row # [user |-> calls[c].user, expired |-> FALSE]
      <3>. SUFFICES ASSUME row = [user |-> calls[c].user, expired |-> FALSE] PROVE FALSE
        OBVIOUS
      <3>1. row.user = calls[c].user
        OBVIOUS
      <3>2. row # Nothing
        BY <1>2, NoRow
      <3>. QED
        BY <2>1, <3>1, <3>2
    <2>. QED
      BY <1>3, <2>2 DEF Kept
  <1>5. executions[calls[c].user] = 0
    BY <1>2, <1>4, Counters DEF Orderly, Once
  <1>6. Alone'
    BY <1>1, <1>2 DEF Orderly, Alone, Serving, GetMiss
  <1>7. \A v \in Clients : Kept(v) => Kept(v)'
    BY <1>3 DEF Kept, GetMiss
  <1>8. Once'
    BY <1>1, <1>5, <1>7 DEF Orderly, Once, GetMiss
  <1>. QED
    BY <1>6, <1>8 DEF Orderly, Unexpired, GetMiss

\* The operation takes effect for the first time.
LEMMA RunOrderly ==
    ASSUME KeyTyped, Orderly, NEW c \in Calls, Run(c)
    PROVE  Orderly'
  <1>1. /\ calls'[c] = [pc |-> "set", user |-> calls[c].user]
        /\ \A d \in Calls \ {c} : calls'[d] = calls[d]
    BY AdvanceSlots DEF Run
  <1>2. Serving(c) /\ calls[c].user \in Clients
    BY ServedUser DEF Run, Serving
  <1>3. executions[calls[c].user] = 0
    BY DEF Orderly, Once, Run
  <1>4. executions'[calls[c].user] = 1
    BY <1>2, <1>3, RunCounts
  <1>5. \A v \in Clients \ {calls[c].user} : executions'[v] = 0
    BY <1>2, RunCounts DEF Orderly, Alone
  <1>6. \A d \in Calls \ {c} : ~Serving(d)
    BY <1>2 DEF Orderly, Alone
  <1>7. Alone'
    BY <1>1, <1>5, <1>6 DEF Alone, Serving
  <1>8. Kept(calls[c].user)'
    BY <1>1 DEF Kept
  <1>9. Once'
    BY <1>1, <1>4, <1>5, <1>6, <1>8 DEF Once, Serving
  <1>. QED
    BY <1>7, <1>9 DEF Orderly, Unexpired, Run

\* A call ends: its row answers it, or it leaves one that will answer the next.
LEMMA EndOrderly ==
    ASSUME KeyTyped, Orderly, excuses' = {}, NEW c \in Calls,
           GetHit(c) \/ Set(c) \/ Abandon(c)
    PROVE  Orderly'
  <1>1. calls'[c] = IdleCall /\ \A d \in Calls \ {c} : calls'[d] = calls[d]
    BY CallSlots DEF GetHit, Set, Abandon
  <1>2. Serving(c) /\ calls[c].user \in Clients
    BY ServedUser DEF GetHit, Set, Abandon, Serving
  <1>3. \A d \in Calls : ~Serving(d)'
    BY <1>1, <1>2 DEF Orderly, Alone, Serving, IdleCall
  <1>4. Alone'
    BY <1>3 DEF Alone
  <1>5. UNCHANGED <<executions, deletes>>
    BY DEF GetHit, Set, Abandon
  <1>6. Unexpired'
    BY <1>5 DEF Orderly, Unexpired, GetHit, Set, Abandon
  <1>7. PICK u \in Clients : u = calls[c].user
    BY <1>2
  <1>8. \A v \in Clients \ {u} : executions[v] = 0
    BY <1>2, <1>7 DEF Orderly, Alone
  <1>9. executions[u] > 0 => Kept(u)'
    <2>1. CASE GetHit(c)
      BY <1>7, <2>1 DEF GetHit, Kept
    <2>2. CASE Set(c)
      BY <1>7, <2>2 DEF Set, Kept
    <2>3. CASE Abandon(c)
      <3>1. calls[c].pc # "set"
        BY <2>3 DEF Abandon
      <3>2. \A d \in Calls : calls[d].pc # "set"
        BY <1>2, <3>1 DEF Orderly, Alone, Serving
      <3>3. Kept(u) => row = [user |-> u, expired |-> FALSE]
        BY <3>2 DEF Kept
      <3>4. UNCHANGED row
        BY <2>3 DEF Abandon
      <3>. QED
        BY <3>3, <3>4 DEF Orderly, Once, Kept
    <2>. QED
      BY <2>1, <2>2, <2>3
  <1>10. \A v \in Clients : executions'[v] > 0 => Kept(v)' /\ executions'[v] = 1
    BY <1>5, <1>8, <1>9 DEF Orderly, Once
  <1>11. Once'
    BY <1>3, <1>10 DEF Once, Serving
  <1>. QED
    BY <1>4, <1>6, <1>11 DEF Orderly

LEMMA OrderlyStep ==
    KeyTyped /\ (excuses = {} => Orderly) /\ [KeyNext]_keyVars => (excuses = {} => Orderly)'
  <1>. SUFFICES ASSUME KeyTyped, excuses = {} => Orderly, [KeyNext]_keyVars, excuses' = {}
                PROVE  Orderly'
    OBVIOUS
  <1>1. Orderly
    BY ExcusesStay
  <1>2. ASSUME NEW c \in Calls, NEW u \in Clients, Send(c, u) PROVE Orderly'
    BY <1>1, <1>2, SendOrderly
  <1>3. ASSUME NEW c \in Calls, GetHit(c) \/ Set(c) \/ Abandon(c) PROVE Orderly'
    BY <1>1, <1>3, EndOrderly
  <1>4. ASSUME NEW c \in Calls, GetMiss(c) PROVE Orderly'
    BY <1>1, <1>4, MissOrderly
  <1>5. ASSUME NEW c \in Calls, GetExpired(c) PROVE Orderly'
    \* nothing has expired
    <2>1. Serving(c) /\ calls[c].user \in Clients
      BY <1>5, ServedUser DEF GetExpired, Serving
    <2>2. row = [user |-> calls[c].user, expired |-> TRUE]
      BY <1>5 DEF GetExpired
    <2>3. row \in [user : Clients, expired : BOOLEAN]
      BY <2>1, <2>2
    <2>. QED
      BY <1>1, <2>2, <2>3, Bounds, IdempotencyAssumption DEF Orderly, Unexpired
  <1>6. ASSUME NEW c \in Calls, Run(c) PROVE Orderly'
    BY <1>1, <1>6, RunOrderly
  <1>7. CASE Expire
    BY <1>7 DEF Expire
  <1>8. CASE DeleteArrives
    BY <1>1, <1>8 DEF Orderly, Unexpired, DeleteArrives
  <1>9. CASE UNCHANGED keyVars
    BY <1>1, <1>9 DEF keyVars, Orderly, Alone, Unexpired, Once, Kept, Serving
  <1>. QED
    BY <1>2, <1>3, <1>4, <1>5, <1>6, <1>7, <1>8, <1>9 DEF KeyNext

-----------------------------------------------------------------------------

LEMMA InitKeyIInv ==
    KeyInit => KeyIInv
  <1>. SUFFICES ASSUME KeyInit PROVE KeyIInv
    OBVIOUS
  <1>1. KeyTyped
    BY Bounds, IdempotencyAssumption DEF KeyInit, KeyTyped, KeyTypeOK, CallsOwned, Call, IdleCall
  <1>2. IsOwn
    BY DEF KeyInit, IsOwn, StoredIsOwn, AnswerIsOwn, IdleCall
  <1>3. Orderly
    BY DEF KeyInit, Orderly, Alone, Unexpired, Once, Serving, IdleCall
  <1>. QED
    BY <1>1, <1>2, <1>3 DEF KeyIInv

LEMMA StepKeyIInv ==
    KeyIInv /\ [KeyNext]_keyVars => KeyIInv'
  BY TypedStep, OwnStep, OrderlyStep DEF KeyIInv

\* Types, whose outcome is stored and answered, and order while nothing is there
\* to excuse, through every call of withIdempotency.
THEOREM KeyIInvCorrect ==
    KeySpec => []KeyIInv
  BY InitKeyIInv, StepKeyIInv, PTL DEF KeySpec

\* Every call, row and counter keeps its type, however many calls carry the key.
THEOREM KeyTypeCorrect ==
    KeySpec => []KeyTypeOK
  <1>1. KeyIInv => KeyTypeOK
    BY DEF KeyIInv, KeyTyped
  <1>. QED
    BY <1>1, KeyIInvCorrect, PTL

\* Nobody is answered with the outcome of another user's operation
\* (IdempotencyService.get searches by key and user, set stores the caller's).
THEOREM AnswerCorrect ==
    KeySpec => []AnswerIsOwn
  <1>1. KeyIInv => AnswerIsOwn
    BY DEF KeyIInv, IsOwn
  <1>. QED
    BY <1>1, KeyIInvCorrect, PTL

\* A second execution of an operation is always due to overlapping calls, a
\* failure between the effect and set, an expiry, or a shared key.
THEOREM ReexecutionCorrect ==
    KeySpec => []ReexecutionExplained
  <1>1. KeyIInv => ReexecutionExplained
    <2>. SUFFICES ASSUME KeyIInv, NEW u \in Clients, executions[u] > 1, excuses = {}
                  PROVE  FALSE
      BY DEF ReexecutionExplained
    <2>1. executions[u] > 0 => executions[u] = 1
      BY DEF KeyIInv, Orderly, Once
    <2>2. executions[u] \in Nat
      BY DEF KeyIInv, KeyTyped, KeyTypeOK
    <2>. QED
      BY <2>1, <2>2
  <1>. QED
    BY <1>1, KeyIInvCorrect, PTL
=============================================================================
