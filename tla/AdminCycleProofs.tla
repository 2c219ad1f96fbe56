-------------------------- MODULE AdminCycleProofs --------------------------
(***************************************************************************)
(* What is proved of AdminCycle for any users, reviewer lists, pools and   *)
(* number of cycles.  Each handler first gets a lemma that says what it    *)
(* does to every row; the invariants then follow from the rows.            *)
(***************************************************************************)
EXTENDS AdminCycle, SequenceTheorems, FiniteSetTheorems, TLAPS

-----------------------------------------------------------------------------
(* Types *)

\* A function on 1..n is a sequence: how AfterShift and the rows createCycle
\* inserts are seen to be sequences of steps.
LEMMA FunctionIsSeq ==
    ASSUME NEW S, NEW n \in Nat, NEW f \in [1..n -> S]
    PROVE  f \in Seq(S) /\ Len(f) = n
  <1>1. f \in Seq(S)
    BY SeqDef
  <1>2. DOMAIN f = 1..n
    OBVIOUS
  <1>3. Len(f) \in Nat /\ DOMAIN f = 1..Len(f)
    BY <1>1, LenProperties
  <1>. QED
    BY <1>1, <1>2, <1>3

\* The rows createCycle inserts are steps, one for each reviewer.
LEMMA NewRowsType ==
    ASSUME TypeOK, NEW reviewers \in Seq(Users)
    PROVE  LET rows == [ n \in 1..Len(reviewers) |->
                 [ cycle |-> Len(cycles) + 1, user |-> reviewers[n], order |-> n,
                   status |-> IF n = 1 THEN "PENDING" ELSE "WAITING",
                   insertedBy |-> Null ] ]
           IN  rows \in Seq(Step) /\ Len(rows) = Len(reviewers)
  <1> DEFINE rows == [ n \in 1..Len(reviewers) |->
                 [ cycle |-> Len(cycles) + 1, user |-> reviewers[n], order |-> n,
                   status |-> IF n = 1 THEN "PENDING" ELSE "WAITING",
                   insertedBy |-> Null ] ]
  <1>1. Len(reviewers) \in Nat /\ Len(cycles) \in Nat
    BY LenProperties DEF TypeOK
  <1>2. \A n \in 1..Len(reviewers) : reviewers[n] \in Users
    BY ElementOfSeq
  <1>3. rows \in [1..Len(reviewers) -> Step]
    BY <1>1, <1>2 DEF Step, Null
  <1>. QED
    BY <1>1, <1>3, FunctionIsSeq

\* The shift leaves a table of steps of the same length.
LEMMA AfterShiftType ==
    ASSUME TypeOK, NEW s \in DOMAIN steps
    PROVE  AfterShift(s) \in Seq(Step) /\ Len(AfterShift(s)) = Len(steps)
  <1>1. Len(steps) \in Nat /\ DOMAIN steps = 1..Len(steps)
    BY LenProperties DEF TypeOK
  <1>2. \A t \in DOMAIN steps : steps[t] \in Step
    BY <1>1, ElementOfSeq DEF TypeOK
  <1>3. AfterShift(s) \in [1..Len(steps) -> Step]
    BY <1>1, <1>2 DEF AfterShift, Step
  <1>. QED
    BY <1>1, <1>3, FunctionIsSeq

\* The two tables and what their rows are made of.
LEMMA Tables ==
    ASSUME TypeOK
    PROVE  /\ Len(cycles) \in Nat /\ DOMAIN cycles = 1..Len(cycles)
           /\ Len(steps) \in Nat /\ DOMAIN steps = 1..Len(steps)
           /\ \A c \in DOMAIN cycles : cycles[c] \in Cycle
           /\ \A s \in DOMAIN steps : steps[s] \in Step
  BY LenProperties, ElementOfSeq DEF TypeOK

\* Moving the turn of a cycle leaves a table of cycles.
LEMMA TurnMoves ==
    ASSUME TypeOK, NEW c \in DOMAIN cycles, NEW o \in Nat
    PROVE  [cycles EXCEPT ![c].currentOrder = o] \in [1..Len(cycles) -> Cycle]
  <1> DEFINE row == [cycles[c] EXCEPT !.currentOrder = o]
  <1>1. row \in Cycle
    BY Tables DEF Cycle
  <1>2. [cycles EXCEPT ![c].currentOrder = o] = [cycles EXCEPT ![c] = row]
    OBVIOUS
  <1> HIDE DEF row
  <1>3. \A d \in 1..Len(cycles) : cycles[d] \in Cycle
    BY Tables
  <1>4. cycles \in [1..Len(cycles) -> Cycle]
    BY <1>3, Tables DEF TypeOK
  <1>. QED
    BY <1>1, <1>2, <1>4

-----------------------------------------------------------------------------
(* What each handler does to the rows *)

\* createCycle appends one cycle and its steps and touches no other row.
LEMMA CreateCycleRows ==
    ASSUME TypeOK, NEW u \in Users, NEW reviewers \in ReviewerLists,
           NEW allowed \in OptionalPools, CreateCycle(u, reviewers, allowed)
    PROVE  /\ Len(reviewers) \in Nat \ {0}
           /\ reviewers[1] \in Users
           /\ cycles' \in Seq(Cycle)
           /\ Len(cycles') = Len(cycles) + 1
           /\ \A c \in 1..Len(cycles) : cycles'[c] = cycles[c]
           /\ cycles'[Len(cycles) + 1] =
                [ initiatedBy |-> u, status |-> "IN_PROGRESS",
                  currentOrder |-> 1, optionalAllowed |-> allowed ]
           /\ steps' \in Seq(Step)
           /\ Len(steps') = Len(steps) + Len(reviewers)
           /\ \A t \in 1..Len(steps) : steps'[t] = steps[t]
           /\ \A n \in 1..Len(reviewers) : steps'[Len(steps) + n] =
                [ cycle |-> Len(cycles) + 1, user |-> reviewers[n], order |-> n,
                  status |-> IF n = 1 THEN "PENDING" ELSE "WAITING",
                  insertedBy |-> Null ]
  <1> DEFINE rows == [ n \in 1..Len(reviewers) |->
                 [ cycle |-> Len(cycles) + 1, user |-> reviewers[n], order |-> n,
                   status |-> IF n = 1 THEN "PENDING" ELSE "WAITING",
                   insertedBy |-> Null ] ]
             cycle == [ initiatedBy |-> u, status |-> "IN_PROGRESS",
                        currentOrder |-> 1, optionalAllowed |-> allowed ]
  <1>1. reviewers \in Seq(Users) /\ reviewers # <<>> /\ allowed \in SUBSET Users
    BY InputsAssumption
  <1>2. Len(reviewers) \in Nat \ {0} /\ reviewers[1] \in Users
    <2>1. Len(reviewers) \in Nat \ {0}
      BY <1>1, EmptySeq
    <2>. QED
      BY <2>1, <1>1, ElementOfSeq
  <1>3. cycle \in Cycle /\ cycles' = Append(cycles, cycle)
    BY <1>1 DEF Cycle, CreateCycle
  <1>4. /\ cycles' \in Seq(Cycle)
        /\ Len(cycles') = Len(cycles) + 1
        /\ \A c \in 1..Len(cycles) : cycles'[c] = cycles[c]
        /\ cycles'[Len(cycles) + 1] = cycle
    BY <1>3, AppendProperties DEF TypeOK
  <1>5. rows \in Seq(Step) /\ Len(rows) = Len(reviewers)
    BY <1>1, NewRowsType
  <1>6. steps' = steps \o rows
    BY DEF CreateCycle
  <1>7. /\ steps' \in Seq(Step)
        /\ Len(steps') = Len(steps) + Len(reviewers)
        /\ \A i \in 1..(Len(steps) + Len(reviewers)) :
               steps'[i] = IF i <= Len(steps) THEN steps[i] ELSE rows[i - Len(steps)]
    BY <1>5, <1>6, ConcatProperties DEF TypeOK
  <1>8. \A t \in 1..Len(steps) : steps'[t] = steps[t]
    <2> TAKE t \in 1..Len(steps)
    <2>1. t \in 1..(Len(steps) + Len(reviewers)) /\ t <= Len(steps)
      BY <1>2, Tables
    <2>. QED
      BY <2>1, <1>7
  <1>9. \A n \in 1..Len(reviewers) : steps'[Len(steps) + n] = rows[n]
    <2> TAKE n \in 1..Len(reviewers)
    <2>1. /\ Len(steps) + n \in 1..(Len(steps) + Len(reviewers))
          /\ ~(Len(steps) + n <= Len(steps))
          /\ (Len(steps) + n) - Len(steps) = n
      BY <1>2, Tables
    <2>. QED
      BY <2>1, <1>7
  <1>10. \A n \in 1..Len(reviewers) : rows[n] =
           [ cycle |-> Len(cycles) + 1, user |-> reviewers[n], order |-> n,
             status |-> IF n = 1 THEN "PENDING" ELSE "WAITING",
             insertedBy |-> Null ]
    OBVIOUS
  <1> HIDE DEF rows, cycle
  <1>11. /\ steps' \in Seq(Step)
         /\ Len(steps') = Len(steps) + Len(reviewers)
    BY <1>7
  <1>12. cycles'[Len(cycles) + 1] =
                [ initiatedBy |-> u, status |-> "IN_PROGRESS",
                  currentOrder |-> 1, optionalAllowed |-> allowed ]
    BY <1>4 DEF cycle
  <1>. QED
    BY <1>2, <1>4, <1>8, <1>9, <1>10, <1>11, <1>12

\* forwardStep keeps the rows that are there, moves the later ones up, completes
\* s and adds one row.
LEMMA ForwardStepRows ==
    ASSUME TypeOK, NEW u \in Users, NEW s \in DOMAIN steps, NEW r \in Users,
           ForwardStep(u, s, r)
    PROVE  /\ steps' \in Seq(Step)
           /\ Len(steps') = Len(steps) + 1
           /\ \A t \in 1..Len(steps) : steps'[t] =
                IF t \in Later(s) THEN [steps[t] EXCEPT !.order = @ + 1]
                ELSE IF t = s THEN [steps[t] EXCEPT !.status = "COMPLETED"]
                ELSE steps[t]
           /\ steps'[Len(steps) + 1] = InsertedStep(s, r)
  <1>1. InsertedStep(s, r) \in Step
    BY Tables DEF InsertedStep, Step
  <1>2. AfterShift(s) \in Seq(Step) /\ Len(AfterShift(s)) = Len(steps)
    BY AfterShiftType
  <1>3. steps' = Append(AfterShift(s), InsertedStep(s, r))
    BY DEF ForwardStep
  <1>4. /\ steps' \in Seq(Step)
        /\ Len(steps') = Len(steps) + 1
        /\ \A t \in 1..Len(steps) : steps'[t] = AfterShift(s)[t]
        /\ steps'[Len(steps) + 1] = InsertedStep(s, r)
    BY <1>1, <1>2, <1>3, AppendProperties
  <1>. QED
    BY <1>4, Tables DEF AfterShift

-----------------------------------------------------------------------------
(* Type correctness *)

\* The writes of EXCEPT on one row keep the tables well typed.
LEMMA CompleteStepRows ==
    ASSUME TypeOK, NEW u \in Users, NEW s \in DOMAIN steps, CompleteStep(u, s)
    PROVE  /\ steps' \in Seq(Step) /\ Len(steps') = Len(steps)
           /\ cycles' \in Seq(Cycle) /\ Len(cycles') = Len(cycles)
  <1>1. CASE CompleteStepAndAdvance(u, s)
    <2>1. PICK next \in Later(s) :
            /\ steps' = [steps EXCEPT ![s].status = "COMPLETED",
                                      ![next].status = "PENDING"]
            /\ cycles' = [cycles EXCEPT
                            ![steps[s].cycle].currentOrder = steps[next].order]
      BY <1>1 DEF CompleteStepAndAdvance
    <2>2. /\ next \in DOMAIN steps
          /\ steps[s].cycle \in DOMAIN cycles
          /\ steps[next].order \in Nat
      BY <1>1, Tables DEF CompleteStepAndAdvance, OwnsPendingStep, Later, StepsOf, Step
    <2>3. steps' \in [1..Len(steps) -> Step]
      BY <2>1, <2>2, Tables, SMTT(20) DEF Step
    <2>4. cycles' \in [1..Len(cycles) -> Cycle]
      BY <2>1, <2>2, TurnMoves
    <2>. QED
      BY <2>3, <2>4, Tables, FunctionIsSeq
  <1>2. CASE CompleteLastStep(u, s)
    <2>1. steps[s].cycle \in DOMAIN cycles
      BY <1>2 DEF CompleteLastStep, OwnsPendingStep
    <2>2. steps' \in [1..Len(steps) -> Step]
      BY <1>2, Tables DEF CompleteLastStep, Step
    <2>3. cycles' \in [1..Len(cycles) -> Cycle]
      BY <1>2, <2>1, Tables, SMTT(20) DEF CompleteLastStep, Cycle, Null
    <2>. QED
      BY <2>2, <2>3, Tables, FunctionIsSeq
  <1>. QED
    BY <1>1, <1>2 DEF CompleteStep

\* Every handler leaves well-typed rows: Spec => []TypeOK.
THEOREM TypeCorrect == Spec => []TypeOK
  <1>1. Init => TypeOK
    <2>. SUFFICES ASSUME Init PROVE TypeOK
      OBVIOUS
    <2>1. workflow \in Workflow
      <3>1. {"PENDING_REVIEW_CYCLE", "AVAILABLE_FOR_FINAL_USERS"} \subseteq WorkflowStatus
        BY DEF WorkflowStatus
      <3>2. {Null} \subseteq Nat
        BY DEF Null
      <3>3. {TRUE} \subseteq BOOLEAN /\ {FALSE} \subseteq BOOLEAN
        OBVIOUS
      <3>. QED
        BY <3>1, <3>2, <3>3, Zenon DEF Init, Workflow
    <2>2. cycles \in Seq(Cycle) /\ steps \in Seq(Step)
      BY EmptySeq DEF Init
    <2>. QED
      BY <2>1, <2>2 DEF Init, TypeOK
  <1>2. TypeOK /\ [Next]_vars => TypeOK'
    <2>. SUFFICES ASSUME TypeOK, [Next]_vars PROVE TypeOK'
      OBVIOUS
    <2>1. ASSUME NEW u \in Users, NEW reviewers \in ReviewerLists,
                 NEW allowed \in OptionalPools, CreateCycle(u, reviewers, allowed)
          PROVE  TypeOK'
      <3>1. workflow' \in Workflow
        <4>1. reviewers[1] \in Users /\ Len(cycles) + 1 \in Nat
          <5>1. reviewers[1] \in Users
            BY <2>1, CreateCycleRows
          <5>2. Len(cycles) + 1 \in Nat
            BY Tables
          <5>. QED
            BY <5>1, <5>2
        <4>2. workflow' = [workflow EXCEPT !.status = "ADMIN_CYCLE_IN_PROGRESS",
                                           !.activeCycle = Len(cycles) + 1,
                                           !.assigned = reviewers[1]]
          BY <2>1 DEF CreateCycle
        <4>. QED
          BY <4>1, <4>2 DEF TypeOK, Workflow, WorkflowStatus
      <3>. QED
        BY <2>1, <3>1, CreateCycleRows DEF CreateCycle, TypeOK
    <2>2. ASSUME NEW u \in Users, NEW s \in DOMAIN steps, CompleteStep(u, s)
          PROVE  TypeOK'
      <3>1. workflow' \in Workflow
        <4>1. CASE CompleteStepAndAdvance(u, s)
          <5>1. PICK next \in Later(s) :
                  workflow' = [workflow EXCEPT !.assigned = steps[next].user]
            BY <4>1 DEF CompleteStepAndAdvance
          <5>2. steps[next].user \in Users
            BY Tables DEF Later, StepsOf, Step
          <5>. QED
            BY <5>1, <5>2 DEF TypeOK, Workflow
        <4>2. CASE CompleteLastStep(u, s)
          <5>1. cycles[steps[s].cycle].initiatedBy \in Users
            BY <4>2, Tables DEF CompleteLastStep, OwnsPendingStep, Cycle
          <5>. QED
            BY <4>2, <5>1
            DEF CompleteLastStep, TypeOK, Workflow, WorkflowStatus, Null
        <4>. QED
          BY <2>2, <4>1, <4>2 DEF CompleteStep
      <3>2. rolledBack' = rolledBack
        BY <2>2 DEF CompleteStep, CompleteStepAndAdvance, CompleteLastStep
      <3>. QED
        BY <2>2, <3>1, <3>2, CompleteStepRows DEF TypeOK
    <2>3. ASSUME NEW u \in Users, NEW s \in DOMAIN steps, NEW r \in Users,
                 ForwardStep(u, s, r)
          PROVE  TypeOK'
      <3>1. workflow' \in Workflow
        BY <2>3 DEF ForwardStep, TypeOK, Workflow
      <3>2. steps[s].cycle \in DOMAIN cycles /\ steps[s].order + 1 \in Nat
        BY <2>3, Tables DEF ForwardStep, CanForward, OwnsPendingStep, Step
      <3>3. cycles' \in [1..Len(cycles) -> Cycle]
        BY <2>3, <3>2, TurnMoves DEF ForwardStep
      <3>4. cycles' \in Seq(Cycle)
        BY <3>3, Tables, FunctionIsSeq
      <3>. QED
        BY <2>3, <3>1, <3>4, ForwardStepRows DEF ForwardStep, TypeOK
    <2>4. ASSUME NEW u \in Users, NEW s \in DOMAIN steps, NEW r \in Users,
                 ForwardRolledBack(u, s, r)
          PROVE  TypeOK'
      BY <2>4 DEF ForwardRolledBack, TypeOK
    <2>5. ASSUME NEW u \in Users,
                 SkipReviewCycle(u) \/ CloseWorkflow(u) \/ CancelWorkflow(u)
          PROVE  TypeOK'
      <3>1. CASE SkipReviewCycle(u)
        BY <3>1 DEF SkipReviewCycle, TypeOK, Workflow, WorkflowStatus
      <3>2. CASE CloseWorkflow(u)
        BY <3>2 DEF CloseWorkflow, End, TypeOK, Workflow, WorkflowStatus, Null
      <3>3. CASE CancelWorkflow(u)
        BY <3>3 DEF CancelWorkflow, End, TypeOK, Workflow, WorkflowStatus, Null
      <3>. QED
        BY <2>5, <3>1, <3>2, <3>3
    <2>6. ASSUME NEW u \in Users, NEW superAdmin \in BOOLEAN,
                 RemoveWorkflow(u, superAdmin)
          PROVE  TypeOK'
      BY <2>6 DEF RemoveWorkflow, TypeOK, Workflow
    <2>7. CASE UNCHANGED vars
      BY <2>7 DEF vars, TypeOK
    <2>8. CASE Next
      BY <2>8, <2>1, <2>2, <2>3, <2>4, <2>5, <2>6, Zenon DEF Next
    <2>. QED
      BY <2>7, <2>8
  <1>. QED
    BY <1>1, <1>2, PTL DEF Spec

-----------------------------------------------------------------------------
(* The rows, column by column, after each handler that writes them.  The     *)
(* invariants below only look at these columns.                              *)

\* completeStep with a step to follow: s is completed, the next one gets the
\* turn, no row moves.
LEMMA AdvanceColumns ==
    ASSUME TypeOK, NEW u \in Users, NEW s \in DOMAIN steps,
           CompleteStepAndAdvance(u, s)
    PROVE  \E next \in DOMAIN steps :
             /\ IsNextStep(next, s) /\ next # s
             /\ DOMAIN steps' = DOMAIN steps
             /\ DOMAIN cycles' = DOMAIN cycles
             /\ \A t \in DOMAIN steps :
                  /\ steps'[t].cycle = steps[t].cycle
                  /\ steps'[t].order = steps[t].order
                  /\ steps'[t].user = steps[t].user
                  /\ steps'[t].status = IF t = s THEN "COMPLETED"
                                        ELSE IF t = next THEN "PENDING"
                                        ELSE steps[t].status
             /\ \A c \in DOMAIN cycles :
                  /\ cycles'[c].status = cycles[c].status
                  /\ cycles'[c].currentOrder =
                       IF c = steps[s].cycle THEN steps[next].order
                       ELSE cycles[c].currentOrder
             /\ workflow'.status = workflow.status
             /\ workflow'.activeCycle = workflow.activeCycle
             /\ workflow'.assigned = steps[next].user
  <1>1. PICK next \in Later(s) :
          /\ IsNextStep(next, s)
          /\ steps' = [steps EXCEPT ![s].status = "COMPLETED",
                                    ![next].status = "PENDING"]
          /\ cycles' = [cycles EXCEPT
                          ![steps[s].cycle].currentOrder = steps[next].order]
          /\ workflow' = [workflow EXCEPT !.assigned = steps[next].user]
    BY DEF CompleteStepAndAdvance
  <1>2. next \in DOMAIN steps /\ steps[next].order > steps[s].order
    BY DEF Later, StepsOf
  <1>3. steps[s].order \in Nat /\ steps[next].order \in Nat
    BY <1>2, Tables DEF Step
  <1>4. next # s
    BY <1>2, <1>3
  <1>5. steps[s] \in Step /\ steps[next] \in Step
    BY <1>2, Tables
  <1>6. \A t \in DOMAIN steps :
          /\ steps'[t].cycle = steps[t].cycle
          /\ steps'[t].order = steps[t].order
          /\ steps'[t].user = steps[t].user
          /\ steps'[t].status = IF t = s THEN "COMPLETED"
                                ELSE IF t = next THEN "PENDING"
                                ELSE steps[t].status
    BY <1>1, <1>2, <1>4, <1>5, Tables DEF Step
  <1>7. \A c \in DOMAIN cycles :
          /\ cycles'[c].status = cycles[c].status
          /\ cycles'[c].currentOrder =
               IF c = steps[s].cycle THEN steps[next].order
               ELSE cycles[c].currentOrder
    BY <1>1, Tables DEF Cycle
  <1>8. /\ workflow'.status = workflow.status
        /\ workflow'.activeCycle = workflow.activeCycle
        /\ workflow'.assigned = steps[next].user
    BY <1>1 DEF TypeOK, Workflow
  <1>9. DOMAIN steps' = DOMAIN steps /\ DOMAIN cycles' = DOMAIN cycles
    BY <1>1
  <1>. QED
    BY <1>1, <1>2, <1>4, <1>6, <1>7, <1>8, <1>9

\* completeStep on the last step: s and its cycle are completed.
LEMMA LastColumns ==
    ASSUME TypeOK, NEW u \in Users, NEW s \in DOMAIN steps, CompleteLastStep(u, s)
    PROVE  /\ DOMAIN steps' = DOMAIN steps
           /\ DOMAIN cycles' = DOMAIN cycles
           /\ \A t \in DOMAIN steps :
                /\ steps'[t].cycle = steps[t].cycle
                /\ steps'[t].order = steps[t].order
                /\ steps'[t].user = steps[t].user
                /\ steps'[t].status = IF t = s THEN "COMPLETED" ELSE steps[t].status
           /\ \A c \in DOMAIN cycles :
                /\ cycles'[c].status =
                     IF c = steps[s].cycle THEN "COMPLETED" ELSE cycles[c].status
                /\ c # steps[s].cycle =>
                     cycles'[c].currentOrder = cycles[c].currentOrder
           /\ workflow'.status = "AVAILABLE_FOR_FINAL_USERS"
           /\ workflow'.activeCycle = Null
  <1>1. \A t \in DOMAIN steps :
                /\ steps'[t].cycle = steps[t].cycle
                /\ steps'[t].order = steps[t].order
                /\ steps'[t].user = steps[t].user
                /\ steps'[t].status = IF t = s THEN "COMPLETED" ELSE steps[t].status
    BY Tables DEF CompleteLastStep, Step
  <1>2. \A c \in DOMAIN cycles :
                /\ cycles'[c].status =
                     IF c = steps[s].cycle THEN "COMPLETED" ELSE cycles[c].status
                /\ c # steps[s].cycle =>
                     cycles'[c].currentOrder = cycles[c].currentOrder
    BY Tables DEF CompleteLastStep, Cycle
  <1>3. /\ workflow'.status = "AVAILABLE_FOR_FINAL_USERS"
        /\ workflow'.activeCycle = Null
    BY DEF CompleteLastStep, TypeOK, Workflow
  <1>4. DOMAIN steps' = DOMAIN steps /\ DOMAIN cycles' = DOMAIN cycles
    BY DEF CompleteLastStep
  <1>. QED
    BY <1>1, <1>2, <1>3, <1>4

\* forwardStep: the later steps move up by one, s is completed and the new row
\* takes the free place and the turn.
LEMMA ForwardColumns ==
    ASSUME TypeOK, NEW u \in Users, NEW s \in DOMAIN steps, NEW r \in Users,
           ForwardStep(u, s, r)
    PROVE  LET new == Len(steps) + 1 IN
           /\ new \notin DOMAIN steps
           /\ DOMAIN steps' = DOMAIN steps \cup {new}
           /\ DOMAIN cycles' = DOMAIN cycles
           /\ \A t \in DOMAIN steps :
                /\ steps'[t].cycle = steps[t].cycle
                /\ steps'[t].order = IF t \in Later(s) THEN steps[t].order + 1
                                     ELSE steps[t].order
                /\ steps'[t].user = steps[t].user
                /\ steps'[t].status = IF t = s THEN "COMPLETED" ELSE steps[t].status
           /\ steps'[new].cycle = steps[s].cycle
           /\ steps'[new].order = steps[s].order + 1
           /\ steps'[new].user = r
           /\ steps'[new].status = "PENDING"
           /\ \A c \in DOMAIN cycles :
                /\ cycles'[c].status = cycles[c].status
                /\ cycles'[c].currentOrder =
                     IF c = steps[s].cycle THEN steps[s].order + 1
                     ELSE cycles[c].currentOrder
           /\ workflow'.status = workflow.status
           /\ workflow'.activeCycle = workflow.activeCycle
           /\ workflow'.assigned = r
  <1>1. /\ Len(steps) + 1 \notin DOMAIN steps
        /\ DOMAIN steps' = DOMAIN steps \cup {Len(steps) + 1}
    <2>1. DOMAIN steps' = 1..(Len(steps) + 1)
      BY ForwardStepRows, LenProperties
    <2>. QED
      BY <2>1, Tables
  <1>2. s \notin Later(s)
    BY Tables DEF Later, StepsOf, Step
  <1>3. \A t \in DOMAIN steps :
                /\ steps'[t].cycle = steps[t].cycle
                /\ steps'[t].order = IF t \in Later(s) THEN steps[t].order + 1
                                     ELSE steps[t].order
                /\ steps'[t].user = steps[t].user
                /\ steps'[t].status = IF t = s THEN "COMPLETED" ELSE steps[t].status
    <2> TAKE t \in DOMAIN steps
    <2>1. steps[t] \in Step /\ t \in 1..Len(steps)
      BY Tables
    <2>2. steps'[t] = IF t \in Later(s) THEN [steps[t] EXCEPT !.order = @ + 1]
                ELSE IF t = s THEN [steps[t] EXCEPT !.status = "COMPLETED"]
                ELSE steps[t]
      BY <2>1, ForwardStepRows
    <2>. QED
      BY <1>2, <2>1, <2>2 DEF Step
  <1>4. /\ steps'[Len(steps) + 1].cycle = steps[s].cycle
        /\ steps'[Len(steps) + 1].order = steps[s].order + 1
        /\ steps'[Len(steps) + 1].user = r
        /\ steps'[Len(steps) + 1].status = "PENDING"
    <2>1. steps'[Len(steps) + 1] = InsertedStep(s, r)
      BY ForwardStepRows
    <2>. QED
      BY <2>1 DEF InsertedStep
  <1>5. \A c \in DOMAIN cycles :
                /\ cycles'[c].status = cycles[c].status
                /\ cycles'[c].currentOrder =
                     IF c = steps[s].cycle THEN steps[s].order + 1
                     ELSE cycles[c].currentOrder
    BY Tables DEF ForwardStep, Cycle
  <1>6. /\ workflow'.status = workflow.status
        /\ workflow'.activeCycle = workflow.activeCycle
        /\ workflow'.assigned = r
        /\ DOMAIN cycles' = DOMAIN cycles
    BY DEF ForwardStep, TypeOK, Workflow
  <1>. QED
    BY <1>1, <1>3, <1>4, <1>5, <1>6, Zenon

\* createCycle: a new cycle in progress and its rows, the first one pending.
LEMMA CreateColumns ==
    ASSUME TypeOK, NEW u \in Users, NEW reviewers \in ReviewerLists,
           NEW allowed \in OptionalPools, CreateCycle(u, reviewers, allowed)
    PROVE  LET new == Len(cycles) + 1
               last == Len(steps)
               n == Len(reviewers)
           IN
           /\ new \notin DOMAIN cycles /\ new # Null
           /\ DOMAIN cycles' = DOMAIN cycles \cup {new}
           /\ n \in Nat \ {0}
           /\ last \in Nat
           /\ DOMAIN steps = 1..last
           /\ DOMAIN steps' = 1..(last + n)
           /\ \A c \in DOMAIN cycles : cycles'[c] = cycles[c]
           /\ cycles'[new].status = "IN_PROGRESS"
           /\ cycles'[new].currentOrder = 1
           /\ \A t \in 1..last : steps'[t] = steps[t]
           /\ \A i \in 1..n :
                /\ steps'[last + i].cycle = new
                /\ steps'[last + i].order = i
                /\ steps'[last + i].user = reviewers[i]
                /\ steps'[last + i].status = IF i = 1 THEN "PENDING" ELSE "WAITING"
           /\ workflow.activeCycle = Null
           /\ workflow'.status = "ADMIN_CYCLE_IN_PROGRESS"
           /\ workflow'.activeCycle = new
           /\ workflow'.assigned = reviewers[1]
  <1> DEFINE new == Len(cycles) + 1
             last == Len(steps)
             n == Len(reviewers)
  <1>1. n \in Nat \ {0} /\ last \in Nat /\ DOMAIN steps = 1..last
    BY CreateCycleRows, Tables
  <1>2. DOMAIN cycles' = 1..new /\ DOMAIN steps' = 1..(last + n)
    BY CreateCycleRows, LenProperties
  <1>3. /\ new \notin DOMAIN cycles /\ new # Null
        /\ DOMAIN cycles' = DOMAIN cycles \cup {new}
    BY <1>2, Tables DEF Null
  <1>4. \A c \in DOMAIN cycles : cycles'[c] = cycles[c]
    BY CreateCycleRows, Tables
  <1>5. cycles'[new].status = "IN_PROGRESS" /\ cycles'[new].currentOrder = 1
    <2>1. cycles'[new] = [ initiatedBy |-> u, status |-> "IN_PROGRESS",
                           currentOrder |-> 1, optionalAllowed |-> allowed ]
      BY CreateCycleRows
    <2>. QED
      BY <2>1
  <1>6. \A t \in 1..last : steps'[t] = steps[t]
    BY CreateCycleRows
  <1>7. \A i \in 1..n :
                /\ steps'[last + i].cycle = new
                /\ steps'[last + i].order = i
                /\ steps'[last + i].user = reviewers[i]
                /\ steps'[last + i].status = IF i = 1 THEN "PENDING" ELSE "WAITING"
    <2> TAKE i \in 1..n
    <2>1. steps'[last + i] =
            [ cycle |-> Len(cycles) + 1, user |-> reviewers[i], order |-> i,
              status |-> IF i = 1 THEN "PENDING" ELSE "WAITING",
              insertedBy |-> Null ]
      BY CreateCycleRows
    <2>. QED
      BY <2>1
  <1>8. /\ workflow.activeCycle = Null
        /\ workflow'.status = "ADMIN_CYCLE_IN_PROGRESS"
        /\ workflow'.activeCycle = new
        /\ workflow'.assigned = reviewers[1]
    BY DEF CreateCycle, TypeOK, Workflow
  <1>. QED
    BY <1>1, <1>2, <1>3, <1>4, <1>5, <1>6, <1>7, <1>8

\* Skipping, ending and removing only write the workflow row.
LEMMA RowOnly ==
    ASSUME NEW u \in Users,
           \/ SkipReviewCycle(u) \/ CloseWorkflow(u) \/ CancelWorkflow(u)
           \/ \E superAdmin \in BOOLEAN : RemoveWorkflow(u, superAdmin)
    PROVE  UNCHANGED <<cycles, steps>>
  BY DEF SkipReviewCycle, CloseWorkflow, CancelWorkflow, End, RemoveWorkflow

-----------------------------------------------------------------------------
(* The workflow row and its cycles *)

\* Spec => []ActiveCycleConsistent, its step: whatever the handler, the row
\* names the only cycle in progress.
LEMMA ActiveCycleStep ==
    ASSUME TypeOK, ActiveCycleConsistent, [Next]_vars
    PROVE  ActiveCycleConsistent'
  <1>1. ASSUME NEW u \in Users, NEW reviewers \in ReviewerLists,
               NEW allowed \in OptionalPools, CreateCycle(u, reviewers, allowed)
        PROVE  ActiveCycleConsistent'
    <2> DEFINE new == Len(cycles) + 1
    <2>1. /\ new \notin DOMAIN cycles /\ new # Null
          /\ DOMAIN cycles' = DOMAIN cycles \cup {new}
          /\ \A c \in DOMAIN cycles : cycles'[c] = cycles[c]
          /\ cycles'[new].status = "IN_PROGRESS"
          /\ workflow.activeCycle = Null
          /\ workflow'.status = "ADMIN_CYCLE_IN_PROGRESS"
          /\ workflow'.activeCycle = new
      BY <1>1, CreateColumns
    <2>2. Null \notin DOMAIN cycles
      BY Tables DEF Null
    <2> HIDE DEF new
    <2>. QED
      BY <2>1, <2>2 DEF ActiveCycleConsistent
  <1>2. ASSUME NEW u \in Users, NEW s \in DOMAIN steps, CompleteStep(u, s)
        PROVE  ActiveCycleConsistent'
    <2>1. CASE CompleteStepAndAdvance(u, s)
      <3>1. /\ DOMAIN cycles' = DOMAIN cycles
            /\ \A c \in DOMAIN cycles : cycles'[c].status = cycles[c].status
            /\ workflow'.status = workflow.status
            /\ workflow'.activeCycle = workflow.activeCycle
        BY <2>1, AdvanceColumns
      <3>. QED
        BY <3>1 DEF ActiveCycleConsistent
    <2>2. CASE CompleteLastStep(u, s)
      <3>1. /\ DOMAIN cycles' = DOMAIN cycles
            /\ \A c \in DOMAIN cycles : cycles'[c].status =
                 IF c = steps[s].cycle THEN "COMPLETED" ELSE cycles[c].status
            /\ workflow'.status = "AVAILABLE_FOR_FINAL_USERS"
            /\ workflow'.activeCycle = Null
        BY <2>2, LastColumns
      <3>2. workflow.activeCycle = steps[s].cycle /\ Null \notin DOMAIN cycles
        BY <2>2, Tables DEF ActiveCycleConsistent, CompleteLastStep, OwnsPendingStep, Null
      <3>. QED
        BY <3>1, <3>2 DEF ActiveCycleConsistent
    <2>. QED
      BY <1>2, <2>1, <2>2 DEF CompleteStep
  <1>3. ASSUME NEW u \in Users, NEW s \in DOMAIN steps, NEW r \in Users,
               ForwardStep(u, s, r)
        PROVE  ActiveCycleConsistent'
    <2>1. /\ DOMAIN cycles' = DOMAIN cycles
          /\ \A c \in DOMAIN cycles : cycles'[c].status = cycles[c].status
          /\ workflow'.status = workflow.status
          /\ workflow'.activeCycle = workflow.activeCycle
      BY <1>3, ForwardColumns
    <2>. QED
      BY <2>1 DEF ActiveCycleConsistent
  <1>4. ASSUME NEW u \in Users, SkipReviewCycle(u)
        PROVE  ActiveCycleConsistent'
    <2>1. /\ workflow'.status = "AVAILABLE_FOR_FINAL_USERS"
          /\ workflow'.activeCycle = workflow.activeCycle
          /\ workflow.status = "PENDING_REVIEW_CYCLE"
          /\ cycles' = cycles
      BY <1>4 DEF SkipReviewCycle, TypeOK, Workflow
    <2>. QED
      BY <2>1 DEF ActiveCycleConsistent
  <1>5. ASSUME NEW u \in Users, NEW terminal \in {"CLOSED", "CANCELLED"},
               End(u, terminal)
        PROVE  ActiveCycleConsistent'
    <2>1. /\ workflow'.status = terminal
          /\ workflow'.activeCycle = Null
          /\ workflow.status = "AVAILABLE_FOR_FINAL_USERS"
          /\ cycles' = cycles
      BY <1>5 DEF End, TypeOK, Workflow, CanTransition, VALID_TRANSITIONS
    <2>. QED
      BY <2>1 DEF ActiveCycleConsistent
  <1>6. ASSUME NEW u \in Users, NEW superAdmin \in BOOLEAN,
               RemoveWorkflow(u, superAdmin)
        PROVE  ActiveCycleConsistent'
    <2>1. /\ workflow'.status = workflow.status
          /\ workflow'.activeCycle = workflow.activeCycle
          /\ cycles' = cycles
      BY <1>6 DEF RemoveWorkflow, TypeOK, Workflow
    <2>. QED
      BY <2>1 DEF ActiveCycleConsistent
  <1>7. ASSUME UNCHANGED <<workflow, cycles>>
        PROVE  ActiveCycleConsistent'
    BY <1>7 DEF ActiveCycleConsistent
  <1>8. CASE Next
    BY <1>1, <1>2, <1>3, <1>4, <1>5, <1>6, <1>7, <1>8, Zenon
    DEF Next, CloseWorkflow, CancelWorkflow, ForwardRolledBack
  <1>. QED
    BY <1>7, <1>8 DEF vars

\* A running cycle is always the one the workflow names, and no other runs:
\* Spec => []ActiveCycleConsistent.
THEOREM ActiveCycleCorrect == Spec => []ActiveCycleConsistent
  <1>1. Init => ActiveCycleConsistent
    <2>. SUFFICES ASSUME Init PROVE ActiveCycleConsistent
      OBVIOUS
    <2>1. /\ workflow.status \in {"PENDING_REVIEW_CYCLE", "AVAILABLE_FOR_FINAL_USERS"}
          /\ workflow.activeCycle = Null
      BY Zenon DEF Init
    <2>2. DOMAIN cycles = {}
      BY EmptySeq DEF Init
    <2>. QED
      BY <2>1, <2>2 DEF ActiveCycleConsistent
  <1>2. TypeOK /\ ActiveCycleConsistent /\ [Next]_vars => ActiveCycleConsistent'
    BY ActiveCycleStep
  <1>. QED
    BY <1>1, <1>2, TypeCorrect, PTL DEF Spec

-----------------------------------------------------------------------------
(* The orders and the turns of the steps *)

\* OrdersConsecutive and TurnOrder in the form the proofs use: over pairs of
\* steps, without StepsOf and CASE.
Orders ==
    /\ \A s \in DOMAIN steps : steps[s].cycle \in DOMAIN cycles /\ steps[s].order >= 1
    /\ \A s, t \in DOMAIN steps :
           steps[s].cycle = steps[t].cycle /\ steps[s].order = steps[t].order => s = t
    /\ \A s \in DOMAIN steps : steps[s].order > 1 =>
           \E t \in DOMAIN steps :
               steps[t].cycle = steps[s].cycle /\ steps[t].order = steps[s].order - 1

\* The status a step has by its order.
Turn(s) ==
    IF cycles[steps[s].cycle].status = "COMPLETED" THEN steps[s].status = "COMPLETED"
    ELSE LET current == cycles[steps[s].cycle].currentOrder IN
         /\ steps[s].order < current => steps[s].status = "COMPLETED"
         /\ steps[s].order = current => steps[s].status = "PENDING"
         /\ steps[s].order > current => steps[s].status = "WAITING"

Turns == \A s \in DOMAIN steps : Turn(s)

\* The first part is OrdersConsecutive, spelled out.
LEMMA OrdersForm == Orders <=> OrdersConsecutive
  BY DEF Orders, OrdersConsecutive, StepsOf

\* The second part is TurnOrder, row by row and without its CASE.
LEMMA TurnsForm ==
    ASSUME TypeOK, Orders
    PROVE  Turns <=> TurnOrder
  <1>1. \A s \in DOMAIN steps :
          /\ steps[s].order \in Nat
          /\ cycles[steps[s].cycle].currentOrder \in Nat
    BY Tables DEF Step, Cycle, Orders
  <1>. QED
    BY <1>1 DEF Turns, Turn, TurnOrder

\* Whose turn it is: the pending step of a running cycle is the one at
\* currentStepOrder, and the cycle is the workflow's.
LEMMA PendingIsCurrent ==
    ASSUME TypeOK, ActiveCycleConsistent, Orders, Turns,
           NEW u \in Users, NEW s \in DOMAIN steps, OwnsPendingStep(u, s)
    PROVE  /\ steps[s].cycle = workflow.activeCycle
           /\ workflow.status = "ADMIN_CYCLE_IN_PROGRESS"
           /\ steps[s].order = cycles[steps[s].cycle].currentOrder
  <1>1. steps[s].cycle \in DOMAIN cycles /\ cycles[steps[s].cycle].status = "IN_PROGRESS"
    BY DEF OwnsPendingStep
  <1>2. steps[s].cycle = workflow.activeCycle /\ steps[s].cycle # Null
    BY <1>1, Tables DEF ActiveCycleConsistent, Null
  <1>3. steps[s].order \in Nat /\ cycles[steps[s].cycle].currentOrder \in Nat
    BY <1>1, Tables DEF Step, Cycle
  <1>4. steps[s].order = cycles[steps[s].cycle].currentOrder
    BY <1>1, <1>3 DEF Turns, Turn, OwnsPendingStep
  <1>. QED
    BY <1>2, <1>4 DEF ActiveCycleConsistent

\* createCycle numbers its rows 1..n in a cycle no other row belongs to.
LEMMA CreateOrders ==
    ASSUME TypeOK, Orders, Turns, NEW u \in Users, NEW reviewers \in ReviewerLists,
           NEW allowed \in OptionalPools, CreateCycle(u, reviewers, allowed)
    PROVE  Orders' /\ Turns' /\ AssignedUserHasTurn'
  <1> DEFINE new == Len(cycles) + 1
             last == Len(steps)
             n == Len(reviewers)
  <1>1. /\ new \notin DOMAIN cycles
        /\ DOMAIN cycles' = DOMAIN cycles \cup {new}
        /\ \A c \in DOMAIN cycles : cycles'[c] = cycles[c]
        /\ cycles'[new].status = "IN_PROGRESS"
        /\ cycles'[new].currentOrder = 1
    BY CreateColumns
  <1>2. /\ n \in Nat \ {0}
        /\ last \in Nat
        /\ DOMAIN steps = 1..last
        /\ DOMAIN steps' = 1..(last + n)
        /\ \A t \in 1..last : steps'[t] = steps[t]
        /\ \A i \in 1..n :
             /\ steps'[last + i].cycle = new
             /\ steps'[last + i].order = i
             /\ steps'[last + i].user = reviewers[i]
             /\ steps'[last + i].status = IF i = 1 THEN "PENDING" ELSE "WAITING"
    BY CreateColumns
  <1>3. /\ workflow'.activeCycle = new
        /\ workflow'.assigned = reviewers[1]
    BY CreateColumns
  <1> HIDE DEF new, last, n
  <1>4. \A t \in DOMAIN steps :
          steps[t].cycle \in DOMAIN cycles /\ steps[t].cycle # new /\ steps[t].order \in Nat
    BY <1>1, Tables DEF Orders, Step
  <1>5. \A t \in DOMAIN steps' : t \in DOMAIN steps \/ \E i \in 1..n : t = last + i
    <2> TAKE t \in DOMAIN steps'
    <2>1. CASE t \in 1..last
      BY <2>1, <1>2
    <2>2. CASE t \notin 1..last
      <3>1. t - last \in 1..n /\ t = last + (t - last)
        BY <2>2, <1>2
      <3>. QED
        BY <3>1
    <2>. QED
      BY <2>1, <2>2
  <1>6. \A i \in 1..n : last + i \in DOMAIN steps' /\ last + i \notin DOMAIN steps
    BY <1>2
  <1>7. \A t \in DOMAIN steps : t \in DOMAIN steps' /\ steps'[t] = steps[t]
    BY <1>2
  <1>8. Orders'
    <2>1. \A s \in DOMAIN steps' : steps'[s].cycle \in DOMAIN cycles' /\ steps'[s].order >= 1
      <3> TAKE s \in DOMAIN steps'
      <3>1. CASE s \in DOMAIN steps
        <4>1. steps'[s] = steps[s]
          BY <3>1, <1>7
        <4>2. steps[s].cycle \in DOMAIN cycles /\ steps[s].order >= 1
          BY <3>1 DEF Orders
        <4>. QED
          BY <4>1, <4>2, <1>1
      <3>2. CASE s \notin DOMAIN steps
        <4>1. PICK i \in 1..n : s = last + i
          BY <3>2, <1>5
        <4>2. steps'[s].cycle = new /\ steps'[s].order = i
          BY <4>1, <1>2
        <4>. QED
          BY <4>1, <4>2, <1>1, <1>2
      <3>. QED
        BY <3>1, <3>2
    <2>2. ASSUME NEW s \in DOMAIN steps', NEW t \in DOMAIN steps',
                 steps'[s].cycle = steps'[t].cycle, steps'[s].order = steps'[t].order
          PROVE  s = t
      <3>1. CASE s \in DOMAIN steps /\ t \in DOMAIN steps
        BY <2>2, <3>1, <1>7 DEF Orders
      <3>2. CASE s \notin DOMAIN steps /\ t \notin DOMAIN steps
        <4>1. PICK i \in 1..n : s = last + i
          BY <3>2, <1>5
        <4>2. PICK j \in 1..n : t = last + j
          BY <3>2, <1>5
        <4>3. steps'[s].order = i /\ steps'[t].order = j
          BY <4>1, <4>2, <1>2
        <4>. QED
          BY <2>2, <4>1, <4>2, <4>3
      <3>3. CASE s \in DOMAIN steps /\ t \notin DOMAIN steps
        <4>1. steps'[s].cycle # new
          BY <3>3, <1>4, <1>7
        <4>2. PICK i \in 1..n : t = last + i
          BY <3>3, <1>5
        <4>3. steps'[t].cycle = new
          BY <4>2, <1>2
        <4>. QED
          BY <2>2, <4>1, <4>3
      <3>4. CASE s \notin DOMAIN steps /\ t \in DOMAIN steps
        <4>1. steps'[t].cycle # new
          BY <3>4, <1>4, <1>7
        <4>2. PICK i \in 1..n : s = last + i
          BY <3>4, <1>5
        <4>3. steps'[s].cycle = new
          BY <4>2, <1>2
        <4>. QED
          BY <2>2, <4>1, <4>3
      <3>. QED
        BY <3>1, <3>2, <3>3, <3>4
    <2>3. ASSUME NEW s \in DOMAIN steps', steps'[s].order > 1
          PROVE  \E t \in DOMAIN steps' : /\ steps'[t].cycle = steps'[s].cycle
                                          /\ steps'[t].order = steps'[s].order - 1
      <3>1. CASE s \in DOMAIN steps
        BY <2>3, <3>1, <1>7 DEF Orders
      <3>2. ASSUME NEW i \in 1..n, s = last + i
            PROVE  \E t \in DOMAIN steps' : /\ steps'[t].cycle = steps'[s].cycle
                                            /\ steps'[t].order = steps'[s].order - 1
        <4>1. i > 1 /\ i - 1 \in 1..n
          BY <2>3, <3>2, <1>2
        <4>2. /\ steps'[last + (i - 1)].cycle = steps'[s].cycle
              /\ steps'[last + (i - 1)].order = steps'[s].order - 1
          BY <4>1, <3>2, <1>2
        <4>. QED
          BY <4>1, <4>2, <1>6
      <3>. QED
        BY <3>1, <3>2, <1>5
    <2>. QED
      BY <2>1, <2>2, <2>3 DEF Orders
  <1>9. Turns'
    <2> SUFFICES ASSUME NEW s \in DOMAIN steps' PROVE Turn(s)'
      BY DEF Turns
    <2>1. CASE s \in DOMAIN steps
      BY <2>1, <1>1, <1>4, <1>7 DEF Turns, Turn
    <2>2. ASSUME NEW i \in 1..n, s = last + i
          PROVE  Turn(s)'
      BY <2>2, <1>1, <1>2 DEF Turn
    <2>. QED
      BY <2>1, <2>2, <1>5
  <1>10. AssignedUserHasTurn'
    <2>1. 1 \in 1..n
      BY <1>2
    <2>. QED
      BY <2>1, <1>1, <1>2, <1>3, <1>6 DEF AssignedUserHasTurn, StepsOf
  <1>. QED
    BY <1>8, <1>9, <1>10

\* completeStep with a step to follow: the turn passes to the next order.
LEMMA AdvanceOrders ==
    ASSUME TypeOK, ActiveCycleConsistent, Orders, Turns,
           NEW u \in Users, NEW s \in DOMAIN steps, CompleteStepAndAdvance(u, s)
    PROVE  Orders' /\ Turns' /\ AssignedUserHasTurn'
  <1>1. PICK next \in DOMAIN steps :
             /\ IsNextStep(next, s) /\ next # s
             /\ DOMAIN steps' = DOMAIN steps
             /\ DOMAIN cycles' = DOMAIN cycles
             /\ \A t \in DOMAIN steps :
                  /\ steps'[t].cycle = steps[t].cycle
                  /\ steps'[t].order = steps[t].order
                  /\ steps'[t].user = steps[t].user
                  /\ steps'[t].status = IF t = s THEN "COMPLETED"
                                        ELSE IF t = next THEN "PENDING"
                                        ELSE steps[t].status
             /\ \A c \in DOMAIN cycles :
                  /\ cycles'[c].status = cycles[c].status
                  /\ cycles'[c].currentOrder =
                       IF c = steps[s].cycle THEN steps[next].order
                       ELSE cycles[c].currentOrder
             /\ workflow'.status = workflow.status
             /\ workflow'.activeCycle = workflow.activeCycle
             /\ workflow'.assigned = steps[next].user
    BY AdvanceColumns
  <1>2. OwnsPendingStep(u, s)
    BY DEF CompleteStepAndAdvance
  <1>3. /\ steps[s].cycle = workflow.activeCycle
        /\ steps[s].order = cycles[steps[s].cycle].currentOrder
        /\ cycles[steps[s].cycle].status = "IN_PROGRESS"
        /\ steps[s].cycle \in DOMAIN cycles
    BY <1>2, PendingIsCurrent DEF OwnsPendingStep
  <1>4. /\ steps[next].cycle = steps[s].cycle
        /\ steps[next].order > steps[s].order
        /\ \A t \in DOMAIN steps :
             steps[t].cycle = steps[s].cycle /\ steps[t].order > steps[s].order
               => steps[next].order <= steps[t].order
    BY <1>1 DEF IsNextStep, Later, StepsOf
  <1>5. \A t \in DOMAIN steps : steps[t].order \in Nat /\ steps[t].cycle \in DOMAIN cycles
    BY Tables DEF Step, Orders
  <1>6. Orders'
    BY <1>1 DEF Orders
  <1>7. Turns'
    <2> SUFFICES ASSUME NEW t \in DOMAIN steps PROVE Turn(t)'
      BY <1>1 DEF Turns
    <2>1. CASE steps[t].cycle # steps[s].cycle
      <3>1. t # s /\ t # next
        BY <2>1, <1>4
      <3>2. Turn(t)
        BY DEF Turns
      <3>. QED
        BY <2>1, <3>1, <3>2, <1>1, <1>5 DEF Turn
    <2>2. CASE steps[t].cycle = steps[s].cycle
      <3>1. /\ cycles'[steps'[t].cycle].status = "IN_PROGRESS"
            /\ cycles'[steps'[t].cycle].currentOrder = steps[next].order
            /\ steps'[t].order = steps[t].order
        BY <2>2, <1>1, <1>3
      <3>2. t # s => steps[t].order # steps[s].order
        BY <2>2 DEF Orders
      <3>3. t # next => steps[t].order # steps[next].order
        BY <2>2, <1>4 DEF Orders
      <3>4. /\ steps[t].order < steps[s].order => steps[t].status = "COMPLETED"
            /\ steps[t].order > steps[s].order => steps[t].status = "WAITING"
        BY <2>2, <1>3 DEF Turns, Turn
      <3>5. steps'[t].status = IF t = s THEN "COMPLETED"
                               ELSE IF t = next THEN "PENDING" ELSE steps[t].status
        BY <1>1
      <3>6. /\ steps[t].order \in Nat /\ steps[s].order \in Nat
            /\ steps[next].order \in Nat
        BY <1>5
      <3>7. steps[t].order > steps[s].order => steps[next].order <= steps[t].order
        BY <2>2, <1>4
      <3>. QED
        BY <3>1, <3>2, <3>3, <3>4, <3>5, <3>6, <3>7, <1>1, <1>4 DEF Turn
    <2>. QED
      BY <2>1, <2>2
  <1>8. AssignedUserHasTurn'
    BY <1>1, <1>3, <1>4 DEF AssignedUserHasTurn, StepsOf
  <1>. QED
    BY <1>6, <1>7, <1>8

\* completeStep on the last step: nothing in the cycle is left to do.
LEMMA LastOrders ==
    ASSUME TypeOK, ActiveCycleConsistent, Orders, Turns,
           NEW u \in Users, NEW s \in DOMAIN steps, CompleteLastStep(u, s)
    PROVE  Orders' /\ Turns' /\ AssignedUserHasTurn'
  <1>1. /\ DOMAIN steps' = DOMAIN steps
        /\ DOMAIN cycles' = DOMAIN cycles
        /\ \A t \in DOMAIN steps :
             /\ steps'[t].cycle = steps[t].cycle
             /\ steps'[t].order = steps[t].order
             /\ steps'[t].user = steps[t].user
             /\ steps'[t].status = IF t = s THEN "COMPLETED" ELSE steps[t].status
        /\ \A c \in DOMAIN cycles :
             /\ cycles'[c].status =
                  IF c = steps[s].cycle THEN "COMPLETED" ELSE cycles[c].status
             /\ c # steps[s].cycle => cycles'[c].currentOrder = cycles[c].currentOrder
        /\ workflow'.status = "AVAILABLE_FOR_FINAL_USERS"
    BY LastColumns
  <1>2. /\ steps[s].order = cycles[steps[s].cycle].currentOrder
        /\ cycles[steps[s].cycle].status = "IN_PROGRESS"
    BY PendingIsCurrent DEF CompleteLastStep, OwnsPendingStep
  <1>3. \A t \in DOMAIN steps : steps[t].cycle = steps[s].cycle
          => ~(steps[t].order > steps[s].order)
    BY DEF CompleteLastStep, Later, StepsOf
  <1>4. \A t \in DOMAIN steps : steps[t].order \in Nat /\ steps[t].cycle \in DOMAIN cycles
    BY Tables DEF Step, Orders
  <1>5. Orders'
    BY <1>1 DEF Orders
  <1>6. Turns'
    <2> SUFFICES ASSUME NEW t \in DOMAIN steps PROVE Turn(t)'
      BY <1>1 DEF Turns
    <2>1. Turn(t) /\ (steps[t].cycle = steps[s].cycle /\ t # s
                        => steps[t].order < steps[s].order)
      BY <1>3, <1>4 DEF Turns, Orders
    <2>. QED
      BY <2>1, <1>1, <1>2, <1>4 DEF Turn
  <1>7. AssignedUserHasTurn'
    BY <1>1 DEF AssignedUserHasTurn
  <1>. QED
    BY <1>5, <1>6, <1>7

\* forwardStep: the later steps make room, the new step takes the place behind
\* s, and no order is lost or used twice.
LEMMA ForwardOrders ==
    ASSUME TypeOK, ActiveCycleConsistent, Orders, Turns,
           NEW u \in Users, NEW s \in DOMAIN steps, NEW r \in Users,
           ForwardStep(u, s, r)
    PROVE  Orders' /\ Turns' /\ AssignedUserHasTurn'
  <1> DEFINE new == Len(steps) + 1
             Moves(t) == steps[t].cycle = steps[s].cycle /\ steps[t].order > steps[s].order
  <1>1. /\ new \notin DOMAIN steps
        /\ DOMAIN steps' = DOMAIN steps \cup {new}
        /\ DOMAIN cycles' = DOMAIN cycles
        /\ steps'[new].cycle = steps[s].cycle
        /\ steps'[new].order = steps[s].order + 1
        /\ steps'[new].user = r
        /\ steps'[new].status = "PENDING"
        /\ \A c \in DOMAIN cycles :
             /\ cycles'[c].status = cycles[c].status
             /\ cycles'[c].currentOrder = IF c = steps[s].cycle THEN steps[s].order + 1
                                          ELSE cycles[c].currentOrder
        /\ workflow'.status = workflow.status
        /\ workflow'.activeCycle = workflow.activeCycle
        /\ workflow'.assigned = r
    <2>1. /\ new \notin DOMAIN steps
          /\ DOMAIN steps' = DOMAIN steps \cup {new}
          /\ DOMAIN cycles' = DOMAIN cycles
      BY ForwardColumns
    <2>2. /\ steps'[new].cycle = steps[s].cycle
          /\ steps'[new].order = steps[s].order + 1
          /\ steps'[new].user = r
          /\ steps'[new].status = "PENDING"
      BY ForwardColumns
    <2>3. \A c \in DOMAIN cycles :
             /\ cycles'[c].status = cycles[c].status
             /\ cycles'[c].currentOrder = IF c = steps[s].cycle THEN steps[s].order + 1
                                          ELSE cycles[c].currentOrder
      BY ForwardColumns
    <2>4. /\ workflow'.status = workflow.status
          /\ workflow'.activeCycle = workflow.activeCycle
          /\ workflow'.assigned = r
      BY ForwardColumns
    <2>. QED
      BY <2>1, <2>2, <2>3, <2>4
  <1>2. \A t \in DOMAIN steps :
          /\ steps'[t].cycle = steps[t].cycle
          /\ steps'[t].order = IF Moves(t) THEN steps[t].order + 1 ELSE steps[t].order
          /\ steps'[t].status = IF t = s THEN "COMPLETED" ELSE steps[t].status
    BY ForwardColumns DEF Later, StepsOf
  <1>3. /\ steps[s].cycle = workflow.activeCycle
        /\ steps[s].order = cycles[steps[s].cycle].currentOrder
        /\ cycles[steps[s].cycle].status = "IN_PROGRESS"
    BY PendingIsCurrent DEF ForwardStep, CanForward, OwnsPendingStep
  <1>4. \A t \in DOMAIN steps :
          /\ steps[t].order \in Nat /\ steps[t].order >= 1
          /\ steps[t].cycle \in DOMAIN cycles
    BY Tables DEF Step, Orders
  <1> HIDE DEF new
  <1>5. Orders'
    <2>1. \A t \in DOMAIN steps' : steps'[t].cycle \in DOMAIN cycles' /\ steps'[t].order >= 1
      BY <1>1, <1>2, <1>4
    <2>2. ASSUME NEW t \in DOMAIN steps, steps'[t].cycle = steps[s].cycle
          PROVE  steps'[t].order # steps[s].order + 1
      BY <2>2, <1>2, <1>4
    <2>3. ASSUME NEW p \in DOMAIN steps', NEW q \in DOMAIN steps',
                 steps'[p].cycle = steps'[q].cycle, steps'[p].order = steps'[q].order
          PROVE  p = q
      <3>1. CASE p \in DOMAIN steps /\ q \in DOMAIN steps
        <4>1. steps[p].cycle = steps[q].cycle
          BY <2>3, <3>1, <1>2
        <4>2. /\ steps'[p].order = IF Moves(p) THEN steps[p].order + 1 ELSE steps[p].order
              /\ steps'[q].order = IF Moves(q) THEN steps[q].order + 1 ELSE steps[q].order
          BY <3>1, <1>2
        <4>3. /\ steps[p].order \in Nat /\ steps[q].order \in Nat
              /\ steps[s].order \in Nat
          BY <3>1, <1>4
        <4>4. \A a, b, c \in Nat :
                (IF a > c THEN a + 1 ELSE a) = (IF b > c THEN b + 1 ELSE b) => a = b
          OBVIOUS
        <4>5. CASE steps[p].cycle = steps[s].cycle
          <5>1. /\ steps'[p].order = IF steps[p].order > steps[s].order
                                     THEN steps[p].order + 1 ELSE steps[p].order
                /\ steps'[q].order = IF steps[q].order > steps[s].order
                                     THEN steps[q].order + 1 ELSE steps[q].order
            BY <4>1, <4>2, <4>5
          <5>2. steps[p].order = steps[q].order
            BY <2>3, <4>3, <4>4, <5>1
          <5>. QED
            BY <3>1, <4>1, <5>2 DEF Orders
        <4>6. CASE steps[p].cycle # steps[s].cycle
          <5>1. steps[p].order = steps[q].order
            BY <2>3, <4>1, <4>2, <4>6
          <5>. QED
            BY <3>1, <4>1, <5>1 DEF Orders
        <4>. QED
          BY <4>5, <4>6
      <3>2. CASE p \in DOMAIN steps /\ q = new
        BY <2>2, <2>3, <3>2, <1>1
      <3>3. CASE p = new /\ q \in DOMAIN steps
        BY <2>2, <2>3, <3>3, <1>1
      <3>. QED
        BY <3>1, <3>2, <3>3, <1>1
    <2>4. ASSUME NEW p \in DOMAIN steps', steps'[p].order > 1
          PROVE  \E q \in DOMAIN steps' : /\ steps'[q].cycle = steps'[p].cycle
                                          /\ steps'[q].order = steps'[p].order - 1
      <3>1. s \in DOMAIN steps' /\ steps'[s].cycle = steps[s].cycle
              /\ steps'[s].order = steps[s].order
        BY <1>1, <1>2, <1>4
      <3>2. CASE p = new
        BY <3>1, <3>2, <1>1, <1>4
      <3>3. CASE p \in DOMAIN steps /\ Moves(p)
        <4>1. PICK q \in DOMAIN steps : /\ steps[q].cycle = steps[p].cycle
                                        /\ steps[q].order = steps[p].order - 1
          BY <3>3, <1>4 DEF Orders
        <4>2. CASE steps[q].order = steps[s].order
          <5>1. /\ steps'[new].cycle = steps'[p].cycle
                /\ steps'[new].order = steps'[p].order - 1
            BY <3>3, <4>1, <4>2, <1>1, <1>2, <1>4
          <5>. QED
            BY <5>1, <1>1
        <4>3. CASE steps[q].order # steps[s].order
          <5>1. Moves(q)
            BY <3>3, <4>1, <4>3, <1>4
          <5>2. /\ steps'[q].cycle = steps'[p].cycle
                /\ steps'[q].order = steps'[p].order - 1
            BY <3>3, <4>1, <5>1, <1>2, <1>4
          <5>. QED
            BY <5>2, <1>1
        <4>. QED
          BY <4>2, <4>3
      <3>4. CASE p \in DOMAIN steps /\ ~Moves(p)
        <4>1. steps'[p].order = steps[p].order /\ steps'[p].cycle = steps[p].cycle
          BY <3>4, <1>2
        <4>2. PICK q \in DOMAIN steps : /\ steps[q].cycle = steps[p].cycle
                                        /\ steps[q].order = steps[p].order - 1
          BY <2>4, <3>4, <4>1 DEF Orders
        <4>3. ~Moves(q)
          BY <3>4, <4>2, <1>4
        <4>. QED
          BY <4>1, <4>2, <4>3, <1>1, <1>2
      <3>. QED
        BY <3>2, <3>3, <3>4, <1>1
    <2>. QED
      BY <2>1, <2>3, <2>4 DEF Orders
  <1>6. Turns'
    <2> SUFFICES ASSUME NEW t \in DOMAIN steps' PROVE Turn(t)'
      BY DEF Turns
    <2>1. CASE t = new
      BY <2>1, <1>1, <1>3, <1>4 DEF Turn
    <2>2. CASE t \in DOMAIN steps /\ steps[t].cycle # steps[s].cycle
      <3>1. Turn(t) /\ t # s
        BY <2>2 DEF Turns
      <3>. QED
        BY <2>2, <3>1, <1>1, <1>2, <1>4 DEF Turn
    <2>3. CASE t \in DOMAIN steps /\ steps[t].cycle = steps[s].cycle
      <3>1. /\ cycles'[steps'[t].cycle].status = "IN_PROGRESS"
            /\ cycles'[steps'[t].cycle].currentOrder = steps[s].order + 1
        BY <2>3, <1>1, <1>2, <1>3, <1>4
      <3>2. t # s => steps[t].order # steps[s].order
        BY <2>3 DEF Orders
      <3>3. /\ steps[t].order < steps[s].order => steps[t].status = "COMPLETED"
            /\ steps[t].order > steps[s].order => steps[t].status = "WAITING"
        BY <2>3, <1>3 DEF Turns, Turn
      <3>4. steps[t].order \in Nat /\ steps[s].order \in Nat
        BY <2>3, <1>4
      <3>5. /\ steps'[t].order = IF steps[t].order > steps[s].order
                                 THEN steps[t].order + 1 ELSE steps[t].order
            /\ steps'[t].status = IF t = s THEN "COMPLETED" ELSE steps[t].status
        BY <2>3, <1>2
      <3>. QED
        BY <3>1, <3>2, <3>3, <3>4, <3>5 DEF Turn
    <2>. QED
      BY <2>1, <2>2, <2>3, <1>1
  <1>7. AssignedUserHasTurn'
    BY <1>1, <1>3, <1>4 DEF AssignedUserHasTurn, StepsOf
  <1>. QED
    BY <1>5, <1>6, <1>7

\* The inductive invariant: who has the turn cannot be told from the steps
\* alone, it takes the row, the cycles and the orders together.
\* What a handler keeps together: none of the three is inductive alone.
InTurn == Orders /\ Turns /\ AssignedUserHasTurn

\* The inductive invariant.
IInv == TypeOK /\ ActiveCycleConsistent /\ InTurn

\* The handlers that only write the workflow row, and the forward that fails.
LEMMA RowOnlyOrders ==
    ASSUME IInv, cycles' = cycles, steps' = steps,
           \/ workflow'.status # "ADMIN_CYCLE_IN_PROGRESS"
           \/ /\ workflow'.status = workflow.status
              /\ workflow'.activeCycle = workflow.activeCycle
              /\ workflow'.assigned = workflow.assigned
    PROVE  InTurn'
  BY DEF IInv, InTurn, Orders, Turns, Turn, AssignedUserHasTurn, StepsOf

\* Every handler keeps the orders, the turns and the assigned user in agreement.
LEMMA IInvStep == IInv /\ [Next]_vars => InTurn'
  <1> SUFFICES ASSUME IInv, [Next]_vars PROVE InTurn'
    OBVIOUS
  <1>0. TypeOK /\ ActiveCycleConsistent /\ Orders /\ Turns
    BY DEF IInv, InTurn
  <1>1. ASSUME NEW u \in Users, NEW reviewers \in ReviewerLists,
               NEW allowed \in OptionalPools, CreateCycle(u, reviewers, allowed)
        PROVE  InTurn'
    BY <1>0, <1>1, CreateOrders DEF InTurn
  <1>2. ASSUME NEW u \in Users, NEW s \in DOMAIN steps, CompleteStep(u, s)
        PROVE  InTurn'
    BY <1>0, <1>2, AdvanceOrders, LastOrders DEF InTurn, CompleteStep
  <1>3. ASSUME NEW u \in Users, NEW s \in DOMAIN steps, NEW r \in Users,
               ForwardStep(u, s, r)
        PROVE  InTurn'
    BY <1>0, <1>3, ForwardOrders DEF InTurn
  <1>4. ASSUME NEW u \in Users, SkipReviewCycle(u)
        PROVE  InTurn'
    <2>1. workflow'.status # "ADMIN_CYCLE_IN_PROGRESS" /\ cycles' = cycles /\ steps' = steps
      BY <1>0, <1>4 DEF SkipReviewCycle, TypeOK, Workflow
    <2>. QED
      BY <2>1, RowOnlyOrders
  <1>5. ASSUME NEW u \in Users, NEW terminal \in {"CLOSED", "CANCELLED"},
               End(u, terminal)
        PROVE  InTurn'
    <2>1. workflow'.status # "ADMIN_CYCLE_IN_PROGRESS" /\ cycles' = cycles /\ steps' = steps
      BY <1>0, <1>5 DEF End, TypeOK, Workflow
    <2>. QED
      BY <2>1, RowOnlyOrders
  <1>6. ASSUME NEW u \in Users, NEW superAdmin \in BOOLEAN,
               RemoveWorkflow(u, superAdmin)
        PROVE  InTurn'
    <2>1. /\ workflow'.status = workflow.status
          /\ workflow'.activeCycle = workflow.activeCycle
          /\ workflow'.assigned = workflow.assigned
          /\ cycles' = cycles /\ steps' = steps
      BY <1>0, <1>6 DEF RemoveWorkflow, TypeOK, Workflow
    <2>. QED
      BY <2>1, RowOnlyOrders
  <1>7. ASSUME UNCHANGED <<workflow, cycles, steps>>
        PROVE  InTurn'
    BY <1>7, RowOnlyOrders
  <1>8. CASE Next
    BY <1>1, <1>2, <1>3, <1>4, <1>5, <1>6, <1>7, <1>8, Zenon
    DEF Next, CloseWorkflow, CancelWorkflow, ForwardRolledBack
  <1>. QED
    BY <1>7, <1>8 DEF vars

\* The inductive invariant: Spec => []IInv, from IInvStep and the two theorems
\* above for its first two conjuncts.
THEOREM IInvCorrect == Spec => []IInv
  <1>1. Init => InTurn
    <2>. SUFFICES ASSUME Init PROVE InTurn
      OBVIOUS
    <2>1. workflow.status \in {"PENDING_REVIEW_CYCLE", "AVAILABLE_FOR_FINAL_USERS"}
      BY Zenon DEF Init
    <2>2. DOMAIN steps = {}
      BY EmptySeq DEF Init
    <2>. QED
      BY <2>1, <2>2 DEF InTurn, Orders, Turns, AssignedUserHasTurn
  <1>2. IInv <=> TypeOK /\ ActiveCycleConsistent /\ InTurn
    BY DEF IInv
  <1>. QED
    BY <1>1, <1>2, IInvStep, TypeCorrect, ActiveCycleCorrect, PTL DEF Spec

\* However often steps are forwarded, the orders of a cycle stay 1..n:
\* Spec => []OrdersConsecutive.
THEOREM OrdersCorrect == Spec => []OrdersConsecutive
  <1>1. IInv => OrdersConsecutive
    BY OrdersForm DEF IInv, InTurn
  <1>. QED
    BY <1>1, IInvCorrect, PTL

\* Reviewers act in turn: Spec => []TurnOrder.
THEOREM TurnOrderCorrect == Spec => []TurnOrder
  <1>1. IInv => TurnOrder
    BY TurnsForm DEF IInv, InTurn
  <1>. QED
    BY <1>1, IInvCorrect, PTL

\* The user a workflow in review is assigned to can act on it:
\* Spec => []AssignedUserHasTurn.
THEOREM AssignedUserCorrect == Spec => []AssignedUserHasTurn
  <1>1. IInv => AssignedUserHasTurn
    BY DEF IInv, InTurn
  <1>. QED
    BY <1>1, IInvCorrect, PTL

\* A pending step is the one its cycle is at, which the row is assigned to.
LEMMA PendingListed == ASSUME IInv PROVE PendingInTasks
  <1>. SUFFICES ASSUME ~workflow.deleted, NEW s \in DOMAIN steps,
                       steps[s].status = "PENDING"
                PROVE  InMyTasks(workflow, steps[s].user)
    BY DEF PendingInTasks
  <1>0. TypeOK /\ ActiveCycleConsistent /\ Orders /\ Turns /\ AssignedUserHasTurn
    BY DEF IInv, InTurn
  <1>1. steps[s].user \in Users /\ steps[s].cycle \in DOMAIN cycles
    BY <1>0, Tables DEF Step, Orders
  <1>2. cycles[steps[s].cycle].status = "IN_PROGRESS"
    <2>1. cycles[steps[s].cycle].status \in {"IN_PROGRESS", "COMPLETED"}
      BY <1>0, <1>1, Tables DEF Cycle
    <2>2. cycles[steps[s].cycle].status # "COMPLETED"
      BY <1>0 DEF Turns, Turn
    <2>. QED
      BY <2>1, <2>2
  <1>3. OwnsPendingStep(steps[s].user, s)
    BY <1>1, <1>2 DEF OwnsPendingStep
  <1>4. /\ steps[s].cycle = workflow.activeCycle
        /\ workflow.status = "ADMIN_CYCLE_IN_PROGRESS"
        /\ steps[s].order = cycles[steps[s].cycle].currentOrder
    BY <1>0, <1>1, <1>3, PendingIsCurrent
  <1>5. PICK t \in StepsOf(workflow.activeCycle) :
            /\ steps[t].user = workflow.assigned
            /\ steps[t].order = cycles[workflow.activeCycle].currentOrder
    BY <1>0, <1>4 DEF AssignedUserHasTurn
  <1>6. t \in DOMAIN steps /\ steps[t].cycle = steps[s].cycle
    BY <1>4 DEF StepsOf
  <1>7. s = t
    BY <1>0, <1>4, <1>5, <1>6 DEF Orders
  <1>. QED
    BY <1>4, <1>5, <1>7 DEF InMyTasks

\* What PENDING_REVIEW_CYCLE adds to the invariant: the last approval has made
\* a final user the assigned one, and only the approval enters this status.
Handover ==
    workflow.status = "PENDING_REVIEW_CYCLE" =>
        workflow.finalUsers = {} \/ workflow.assigned \in workflow.finalUsers

LEMMA HandoverStep == IInv /\ Handover /\ [Next]_vars => Handover'
  <1>. SUFFICES ASSUME IInv, Handover, [Next]_vars PROVE Handover'
    OBVIOUS
  <1>0. /\ TypeOK /\ ActiveCycleConsistent /\ Orders /\ Turns
        /\ workflow \in Workflow
    BY DEF IInv, InTurn, TypeOK
  <1>1. ASSUME NEW u \in Users, NEW reviewers, NEW allowed,
               CreateCycle(u, reviewers, allowed)
        PROVE  Handover'
    BY <1>0, <1>1 DEF CreateCycle, Handover, Workflow
  <1>2. ASSUME NEW u \in Users, NEW s \in DOMAIN steps, CompleteStep(u, s)
        PROVE  Handover'
    <2>1. OwnsPendingStep(u, s)
      BY <1>2 DEF CompleteStep, CompleteStepAndAdvance, CompleteLastStep
    <2>2. workflow.status = "ADMIN_CYCLE_IN_PROGRESS"
      BY <1>0, <2>1, PendingIsCurrent
    <2>3. workflow'.status # "PENDING_REVIEW_CYCLE"
      BY <1>0, <1>2, <2>2
      DEF CompleteStep, CompleteStepAndAdvance, CompleteLastStep, Workflow
    <2>. QED
      BY <2>3 DEF Handover
  <1>3. ASSUME NEW u \in Users, NEW s \in DOMAIN steps, NEW r \in Users,
               ForwardStep(u, s, r)
        PROVE  Handover'
    <2>1. workflow'.status = "ADMIN_CYCLE_IN_PROGRESS"
      BY <1>0, <1>3 DEF ForwardStep, CanForward, Workflow
    <2>. QED
      BY <2>1 DEF Handover
  <1>4. ASSUME NEW u \in Users, SkipReviewCycle(u)
        PROVE  Handover'
    BY <1>0, <1>4 DEF SkipReviewCycle, Handover, Workflow
  <1>5. ASSUME NEW u \in Users, NEW terminal \in {"CLOSED", "CANCELLED"},
               End(u, terminal)
        PROVE  Handover'
    BY <1>0, <1>5 DEF End, Handover, Workflow
  <1>6. ASSUME NEW u \in Users, NEW superAdmin \in BOOLEAN,
               RemoveWorkflow(u, superAdmin)
        PROVE  Handover'
    BY <1>0, <1>6 DEF RemoveWorkflow, Handover, Workflow
  <1>7. ASSUME UNCHANGED workflow
        PROVE  Handover'
    BY <1>7 DEF Handover
  <1>8. CASE Next
    BY <1>1, <1>2, <1>3, <1>4, <1>5, <1>6, <1>7, <1>8, Zenon
    DEF Next, CloseWorkflow, CancelWorkflow, ForwardRolledBack
  <1>. QED
    BY <1>7, <1>8 DEF vars

\* Nobody is waited for without finding the workflow in the lists he works
\* from: Spec => []WaitedForFindsIt.
THEOREM WaitedCorrect == Spec => []WaitedForFindsIt
  <1>1. Init => Handover
    BY DEF Init, Handover
  <1>2. IInv /\ Handover => WaitedForFindsIt
    <2>. SUFFICES ASSUME IInv, Handover PROVE WaitedForFindsIt
      OBVIOUS
    <2>1. PendingInTasks
      BY PendingListed
    <2>2. StartInTasks
      BY DEF StartInTasks, Handover, InMyTasks
    <2>3. (~workflow.deleted /\ workflow.status = "AVAILABLE_FOR_FINAL_USERS") =>
              \A u \in workflow.finalUsers \cup Reviewers : Finds(u)
      BY DEF Finds, InMyFlows, Visible
    <2>. QED
      BY <2>1, <2>2, <2>3 DEF WaitedForFindsIt
  <1>. QED
    BY <1>1, <1>2, HandoverStep, IInvCorrect, PTL DEF Spec

-----------------------------------------------------------------------------
(* What a step may never do *)

\* The action of HistoryFrozen.
Frozen ==
    /\ \A s \in DOMAIN steps :
           steps[s].status = "COMPLETED" => steps'[s] = steps[s]
    /\ \A c \in DOMAIN cycles :
           cycles[c].status = "COMPLETED" => cycles'[c] = cycles[c]

\* Why a shift cannot reach a completed step: the ones behind the pending step
\* wait.
LEMMA LaterWaits ==
    ASSUME IInv, NEW u \in Users, NEW s \in DOMAIN steps, OwnsPendingStep(u, s),
           NEW t \in Later(s)
    PROVE  t \in DOMAIN steps /\ steps[t].status = "WAITING"
  <1>1. /\ t \in DOMAIN steps
        /\ steps[t].cycle = steps[s].cycle
        /\ steps[t].order > steps[s].order
    BY DEF Later, StepsOf
  <1>2. /\ steps[s].order = cycles[steps[s].cycle].currentOrder
        /\ cycles[steps[s].cycle].status = "IN_PROGRESS"
    BY PendingIsCurrent DEF IInv, InTurn, OwnsPendingStep
  <1>3. Turn(t)
    BY <1>1 DEF IInv, InTurn, Turns
  <1>. QED
    BY <1>1, <1>2, <1>3 DEF Turn

\* What was decided is never rewritten: Spec => HistoryFrozen.
THEOREM HistoryCorrect == Spec => HistoryFrozen
  <1>1. IInv /\ [Next]_vars => [Frozen]_vars
    <2>. SUFFICES ASSUME IInv, [Next]_vars PROVE Frozen \/ UNCHANGED vars
      OBVIOUS
    <2>0. TypeOK
      BY DEF IInv
    <2>1. ASSUME NEW u \in Users, NEW reviewers \in ReviewerLists,
                 NEW allowed \in OptionalPools, CreateCycle(u, reviewers, allowed)
          PROVE  Frozen
      <3>1. \A c \in DOMAIN cycles : cycles'[c] = cycles[c]
        BY <2>0, <2>1, CreateCycleRows, Tables
      <3>2. \A s \in DOMAIN steps : steps'[s] = steps[s]
        BY <2>0, <2>1, CreateCycleRows, Tables
      <3>. QED
        BY <3>1, <3>2 DEF Frozen
    <2>2. ASSUME NEW u \in Users, NEW s \in DOMAIN steps, CompleteStep(u, s)
          PROVE  Frozen
      <3>1. OwnsPendingStep(u, s)
        BY <2>2 DEF CompleteStep, CompleteStepAndAdvance, CompleteLastStep
      <3>2. CASE CompleteStepAndAdvance(u, s)
        <4>1. PICK next \in Later(s) :
                /\ steps' = [steps EXCEPT ![s].status = "COMPLETED",
                                          ![next].status = "PENDING"]
                /\ cycles' = [cycles EXCEPT
                                ![steps[s].cycle].currentOrder = steps[next].order]
          BY <3>2 DEF CompleteStepAndAdvance
        <4>2. steps[next].status = "WAITING"
          BY <3>1, LaterWaits
        <4>. QED
          BY <3>1, <4>1, <4>2 DEF Frozen, OwnsPendingStep
      <3>3. CASE CompleteLastStep(u, s)
        BY <3>1, <3>3 DEF Frozen, OwnsPendingStep, CompleteLastStep
      <3>. QED
        BY <2>2, <3>2, <3>3 DEF CompleteStep
    <2>3. ASSUME NEW u \in Users, NEW s \in DOMAIN steps, NEW r \in Users,
                 ForwardStep(u, s, r)
          PROVE  Frozen
      <3>1. OwnsPendingStep(u, s)
        BY <2>3 DEF ForwardStep, CanForward
      <3>2. ASSUME NEW t \in DOMAIN steps, steps[t].status = "COMPLETED"
            PROVE  steps'[t] = steps[t]
        <4>1. t \notin Later(s)
          BY <3>1, <3>2, LaterWaits
        <4>2. t # s /\ t \in 1..Len(steps)
          BY <2>0, <3>1, <3>2, Tables DEF OwnsPendingStep
        <4>. QED
          BY <2>0, <2>3, <4>1, <4>2, ForwardStepRows
      <3>3. \A c \in DOMAIN cycles :
              cycles[c].status = "COMPLETED" => cycles'[c] = cycles[c]
        BY <2>3, <3>1 DEF ForwardStep, OwnsPendingStep
      <3>. QED
        BY <3>2, <3>3 DEF Frozen
    <2>4. ASSUME UNCHANGED <<cycles, steps>>
          PROVE  Frozen
      BY <2>4 DEF Frozen
    <2>5. CASE Next
      BY <2>1, <2>2, <2>3, <2>4, <2>5, RowOnly, Zenon DEF Next, ForwardRolledBack
    <2>. QED
      BY <2>5
  <1>2. [Frozen]_vars => [ /\ \A s \in DOMAIN steps :
                                steps[s].status = "COMPLETED" => steps'[s] = steps[s]
                           /\ \A c \in DOMAIN cycles :
                                cycles[c].status = "COMPLETED"
                                  => cycles'[c] = cycles[c] ]_vars
    BY DEF Frozen
  <1>. QED
    BY <1>1, <1>2, IInvCorrect, PTL DEF Spec, HistoryFrozen

\* A closed or cancelled workflow stays as it is: Spec => TerminalFrozen.
THEOREM TerminalCorrect == Spec => TerminalFrozen
  <1>1. TypeOK /\ [Next]_vars =>
          [ workflow.status \in TerminalStatus =>
              /\ [workflow' EXCEPT !.deleted = workflow.deleted] = workflow
              /\ UNCHANGED <<cycles, steps>> ]_vars
    <2> DEFINE Kept == /\ [workflow' EXCEPT !.deleted = workflow.deleted] = workflow
                       /\ UNCHANGED <<cycles, steps>>
    <2>. SUFFICES ASSUME TypeOK, Next, workflow.status \in TerminalStatus
                  PROVE  Kept
      OBVIOUS
    <2>1. /\ ~CanTransition(workflow.status, "ADMIN_CYCLE_IN_PROGRESS")
          /\ ~CanTransition(workflow.status, "AVAILABLE_FOR_FINAL_USERS")
          /\ ~CanTransition(workflow.status, "CLOSED")
          /\ ~CanTransition(workflow.status, "CANCELLED")
          /\ workflow.status # "ADMIN_CYCLE_IN_PROGRESS"
          /\ workflow.status # "PENDING_REVIEW_CYCLE"
      BY DEF TerminalStatus, CanTransition, VALID_TRANSITIONS
    <2> HIDE DEF Kept
    <2>2. PICK u \in Users, superAdmin \in BOOLEAN : RemoveWorkflow(u, superAdmin)
      <3>1. ASSUME NEW u \in Users, NEW s \in DOMAIN steps
            PROVE  /\ ~CompleteStep(u, s)
                   /\ \A r \in Users : ~ForwardStep(u, s, r) /\ ~ForwardRolledBack(u, s, r)
        BY <2>1, Zenon
        DEF CompleteStep, CompleteStepAndAdvance, CompleteLastStep, ForwardStep,
            ForwardRolledBack, CanForward
      <3>2. ASSUME NEW u \in Users
            PROVE  /\ \A reviewers \in ReviewerLists, allowed \in OptionalPools :
                         ~CreateCycle(u, reviewers, allowed)
                   /\ ~SkipReviewCycle(u) /\ ~CloseWorkflow(u) /\ ~CancelWorkflow(u)
        BY <2>1, Zenon
        DEF CreateCycle, SkipReviewCycle, CloseWorkflow, CancelWorkflow, End
      <3>. QED
        BY <3>1, <3>2, Zenon DEF Next
    <2>. QED
      BY <2>2 DEF Kept, RemoveWorkflow, TypeOK, Workflow
  <1>. QED
    BY <1>1, TypeCorrect, PTL DEF Spec, TerminalFrozen
-----------------------------------------------------------------------------
(* The queue of reviewers                                                    *)

\* The steps of cycle c in a table st, and the reviewers of those that have
\* order k or a later one.
RowsOf(st, c) == {s \in DOMAIN st : st[s].cycle = c}

QueueOf(st, c, k) ==
    [ i \in 1..(Cardinality(RowsOf(st, c)) - k + 1) |->
        st[CHOOSE s \in RowsOf(st, c) : st[s].order = k + i - 1].user ]

\* The steps of cycle c are numbered 1..n.
Numbered(st, c, n) ==
    /\ \A s \in RowsOf(st, c) : st[s].order \in 1..n
    /\ \A o \in 1..n : \E s \in RowsOf(st, c) : st[s].order = o
    /\ \A s, t \in RowsOf(st, c) : st[s].order = st[t].order => s = t

LEMMA CountNumbered ==
    ASSUME NEW st, NEW c, NEW n \in Nat, Numbered(st, c, n)
    PROVE  Cardinality(RowsOf(st, c)) = n
  <1> DEFINE R == RowsOf(st, c)
             at == [ o \in 1..n |-> CHOOSE s \in R : st[s].order = o ]
  <1> HIDE DEF R
  <1>1. \A o \in 1..n : at[o] \in R /\ st[at[o]].order = o
    BY DEF Numbered, R
  <1>2. \A s \in R : st[s].order \in 1..n /\ at[st[s].order] = s
    BY <1>1 DEF Numbered, R
  <1>3. at \in Bijection(1..n, R)
    <2>1. at \in [1..n -> R]
      BY <1>1
    <2> HIDE DEF at
    <2>2. \A o, p \in 1..n : at[o] = at[p] => o = p
      BY <1>1
    <2>3. \A s \in R : \E o \in 1..n : at[o] = s
      BY <1>2
    <2>. QED
      BY <2>1, <2>2, <2>3 DEF Bijection, Injection, Surjection, IsInjective
  <1>. QED
    BY <1>3, FS_CountingElements DEF ExistsBijection, R

\* From the place k on, q holds the reviewer of each step of cycle c at its place.
IsQueue(q, st, c, k, n) ==
    /\ q \in Seq(Users) /\ Len(q) = n - k + 1
    /\ \A s \in RowsOf(st, c) : st[s].order >= k =>
          /\ st[s].order - k + 1 \in 1..(n - k + 1)
          /\ q[st[s].order - k + 1] = st[s].user

LEMMA QueueRows ==
    ASSUME NEW st, NEW c, NEW n \in Nat, Numbered(st, c, n), NEW k \in 1..n,
           \A s \in RowsOf(st, c) : st[s].user \in Users
    PROVE  IsQueue(QueueOf(st, c, k), st, c, k, n)
  <1> DEFINE R == RowsOf(st, c)
             At(o) == CHOOSE s \in R : st[s].order = o
  <1> HIDE DEF R
  <1>1. \A o \in 1..n : At(o) \in R /\ st[At(o)].order = o
    BY DEF Numbered, R
  <1>2. \A s \in R : st[s].order \in 1..n /\ At(st[s].order) = s
    BY <1>1 DEF Numbered, R
  <1>3. QueueOf(st, c, k) = [ i \in 1..(n - k + 1) |-> st[At(k + i - 1)].user ]
    BY CountNumbered DEF QueueOf, R
  <1> HIDE DEF At
  <1>4. \A i \in 1..(n - k + 1) :
           k + i - 1 \in 1..n /\ QueueOf(st, c, k)[i] = st[At(k + i - 1)].user
    BY <1>3
  <1>6. n - k + 1 \in Nat
    OBVIOUS
  <1>7. QueueOf(st, c, k) \in [1..(n - k + 1) -> Users]
    BY <1>1, <1>3, <1>4 DEF R
  <1>8. QueueOf(st, c, k) \in Seq(Users) /\ Len(QueueOf(st, c, k)) = n - k + 1
    BY <1>6, <1>7, FunctionIsSeq
  <1>9. ASSUME NEW s \in R, st[s].order >= k
        PROVE  /\ st[s].order - k + 1 \in 1..(n - k + 1)
               /\ QueueOf(st, c, k)[st[s].order - k + 1] = st[s].user
    <2>1. st[s].order \in 1..n /\ st[s].order - k + 1 \in 1..(n - k + 1)
          /\ k + (st[s].order - k + 1) - 1 = st[s].order
      BY <1>2, <1>9
    <2>. QED
      BY <1>2, <1>4, <2>1
  <1>. QED
    BY <1>8, <1>9 DEF R, IsQueue

\* The steps of every cycle are numbered: OrdersConsecutive with their number.
Numbering == \A c \in DOMAIN cycles : \E n \in Nat : Numbered(steps, c, n)

LEMMA CreateNumbered ==
    ASSUME IInv, NEW u \in Users, NEW reviewers \in ReviewerLists,
           NEW allowed \in OptionalPools, CreateCycle(u, reviewers, allowed)
    PROVE  /\ Numbered(steps', Len(cycles) + 1, Len(reviewers))
           /\ \A c \in DOMAIN cycles : \A n \in Nat :
                 Numbered(steps, c, n) => Numbered(steps', c, n)
  <1> DEFINE new == Len(cycles) + 1
             last == Len(steps)
             m == Len(reviewers)
  <1>1. /\ new \notin DOMAIN cycles
        /\ m \in Nat \ {0} /\ last \in Nat
        /\ DOMAIN steps = 1..last /\ DOMAIN steps' = 1..(last + m)
        /\ \A t \in 1..last : steps'[t] = steps[t]
        /\ \A i \in 1..m : steps'[last + i].cycle = new /\ steps'[last + i].order = i
    BY CreateColumns DEF IInv
  <1>2. \A s \in DOMAIN steps : steps[s].cycle \in DOMAIN cycles
    BY DEF IInv, InTurn, Orders
  <1> HIDE DEF new, last, m
  <1>3. \A t \in DOMAIN steps' : t \in 1..last \/ \E i \in 1..m : t = last + i
    <2> TAKE t \in DOMAIN steps'
    <2>1. CASE t <= last
      BY <1>1, <2>1
    <2>2. CASE ~(t <= last)
      <3>1. t - last \in 1..m /\ t = last + (t - last)
        BY <1>1, <2>2
      <3>. QED
        BY <3>1
    <2>. QED
      BY <2>1, <2>2
  <1>4. \A i \in 1..m : last + i \in DOMAIN steps'
    BY <1>1
  <1>5. \A t \in 1..last : t \in DOMAIN steps'
    BY <1>1
  <1>6. Numbered(steps', new, m)
    <2>1. \A t \in RowsOf(steps', new) : \E i \in 1..m : t = last + i /\ steps'[t].order = i
      <3> TAKE t \in RowsOf(steps', new)
      <3>1. t \in DOMAIN steps' /\ steps'[t].cycle = new
        BY DEF RowsOf
      <3>2. t \notin 1..last
        BY <1>1, <1>2, <3>1
      <3>. QED
        <4>1. PICK i \in 1..m : t = last + i
          BY <1>3, <3>1, <3>2
        <4>. QED
          BY <1>1, <4>1
    <2>2. \A i \in 1..m : last + i \in RowsOf(steps', new) /\ steps'[last + i].order = i
      BY <1>1, <1>4 DEF RowsOf
    <2>. QED
      BY <2>1, <2>2 DEF Numbered
  <1>7. ASSUME NEW c \in DOMAIN cycles, NEW n \in Nat, Numbered(steps, c, n)
        PROVE  Numbered(steps', c, n)
    <2>1. RowsOf(steps', c) = RowsOf(steps, c)
      BY <1>1, <1>3, <1>5 DEF RowsOf
    <2>2. \A t \in RowsOf(steps, c) : steps'[t] = steps[t]
      BY <1>1 DEF RowsOf
    <2>. QED
      BY <1>7, <2>1, <2>2 DEF Numbered
  <1>. QED
    BY <1>6, <1>7 DEF new, m

\* completeStep moves no row.
LEMMA SameNumbered ==
    ASSUME DOMAIN steps' = DOMAIN steps,
           \A t \in DOMAIN steps : /\ steps'[t].cycle = steps[t].cycle
                                   /\ steps'[t].order = steps[t].order
    PROVE  \A c, n : /\ RowsOf(steps', c) = RowsOf(steps, c)
                     /\ Numbered(steps, c, n) => Numbered(steps', c, n)
  <1>1. \A c : RowsOf(steps', c) = RowsOf(steps, c)
    BY DEF RowsOf
  <1>2. ASSUME NEW c, NEW n, Numbered(steps, c, n)
        PROVE  Numbered(steps', c, n)
    <2>1. \A t \in RowsOf(steps, c) : steps'[t].order = steps[t].order
      BY DEF RowsOf
    <2>. QED
      BY <1>1, <1>2, <2>1 DEF Numbered
  <1>. QED
    BY <1>1, <1>2

\* forwardStep makes room for one more.
LEMMA ForwardNumbered ==
    ASSUME IInv, NEW u \in Users, NEW s \in DOMAIN steps, NEW r \in Users,
           ForwardStep(u, s, r)
    PROVE  /\ \A n \in Nat : Numbered(steps, steps[s].cycle, n)
                                => Numbered(steps', steps[s].cycle, n + 1)
           /\ \A c \in DOMAIN cycles \ {steps[s].cycle} : \A n \in Nat :
                 Numbered(steps, c, n) => Numbered(steps', c, n)
  <1> DEFINE new == Len(steps) + 1
             k == steps[s].order
  <1>1. /\ new \notin DOMAIN steps
        /\ DOMAIN steps' = DOMAIN steps \cup {new}
        /\ \A t \in DOMAIN steps :
             /\ steps'[t].cycle = steps[t].cycle
             /\ steps'[t].order = IF t \in Later(s) THEN steps[t].order + 1
                                  ELSE steps[t].order
        /\ steps'[new].cycle = steps[s].cycle
        /\ steps'[new].order = k + 1
    <2>1. TypeOK
      BY DEF IInv
    <2>2. new \notin DOMAIN steps /\ DOMAIN steps' = DOMAIN steps \cup {new}
      BY <2>1, ForwardColumns
    <2>3. \A t \in DOMAIN steps :
             /\ steps'[t].cycle = steps[t].cycle
             /\ steps'[t].order = IF t \in Later(s) THEN steps[t].order + 1
                                  ELSE steps[t].order
      BY <2>1, ForwardColumns
    <2>4. steps'[new].cycle = steps[s].cycle /\ steps'[new].order = k + 1
      BY <2>1, ForwardColumns
    <2>. QED
      BY <2>2, <2>3, <2>4
  <1>2. \A t \in DOMAIN steps : steps[t].order \in Nat
    BY Tables DEF IInv, Step
  <1> HIDE DEF new
  <1>3. ASSUME NEW n \in Nat, Numbered(steps, steps[s].cycle, n)
        PROVE  Numbered(steps', steps[s].cycle, n + 1)
    <2> DEFINE R == RowsOf(steps, steps[s].cycle)
               S == RowsOf(steps', steps[s].cycle)
    <2>1. S = R \cup {new} /\ s \in R /\ new \notin R
      BY <1>1 DEF RowsOf
    <2>2. \A t \in R : /\ steps[t].order \in 1..n
                       /\ steps'[t].order = IF steps[t].order > k THEN steps[t].order + 1
                                            ELSE steps[t].order
      BY <1>1, <1>3 DEF Later, StepsOf, RowsOf, Numbered
    <2>3. /\ \A o \in 1..n : \E t \in R : steps[t].order = o
          /\ \A q, t \in R : steps[q].order = steps[t].order => q = t
      BY <1>3 DEF Numbered
    <2>4. k \in 1..n /\ steps'[new].order = k + 1
      BY <1>1, <2>1, <2>2
    <2> HIDE DEF R, S, k
    <2>5. \A t \in S : steps'[t].order \in 1..(n + 1)
      BY <2>1, <2>2, <2>4
    <2>6. \A o \in 1..(n + 1) : \E t \in S : steps'[t].order = o
      <3> TAKE o \in 1..(n + 1)
      <3>1. CASE o = k + 1
        BY <2>1, <2>4, <3>1
      <3>2. CASE o <= k
        <4>1. PICK t \in R : steps[t].order = o
          BY <2>3, <2>4, <3>2
        <4>. QED
          BY <2>1, <2>2, <2>4, <3>2, <4>1
      <3>3. CASE o > k + 1
        <4>1. PICK t \in R : steps[t].order = o - 1
          BY <2>3, <2>4, <3>3
        <4>. QED
          BY <2>1, <2>2, <2>4, <3>3, <4>1
      <3>. QED
        BY <2>4, <3>1, <3>2, <3>3
    <2>7. \A q, t \in S : steps'[q].order = steps'[t].order => q = t
      <3>1. \A t \in R : steps'[t].order # k + 1
        BY <2>2, <2>4
      <3>2. \A q, t \in R : steps'[q].order = steps'[t].order => q = t
        <4> TAKE q, t \in R
        <4>1. steps'[q].order = steps'[t].order => steps[q].order = steps[t].order
          BY <2>2, <2>4
        <4>. QED
          BY <2>3, <4>1
      <3>. QED
        BY <2>1, <2>4, <3>1, <3>2
    <2>. QED
      BY <2>5, <2>6, <2>7 DEF Numbered, S
  <1>4. ASSUME NEW c \in DOMAIN cycles \ {steps[s].cycle}, NEW n \in Nat,
               Numbered(steps, c, n)
        PROVE  Numbered(steps', c, n)
    <2>1. RowsOf(steps', c) = RowsOf(steps, c)
      BY <1>1 DEF RowsOf
    <2>2. \A t \in RowsOf(steps, c) : steps'[t].order = steps[t].order
      BY <1>1 DEF RowsOf, Later, StepsOf
    <2>. QED
      BY <1>4, <2>1, <2>2 DEF Numbered
  <1>. QED
    BY <1>3, <1>4

LEMMA NumberingStep == IInv /\ Numbering /\ [Next]_vars => Numbering'
  <1>. SUFFICES ASSUME IInv, Numbering, [Next]_vars PROVE Numbering'
    OBVIOUS
  <1>0. TypeOK
    BY DEF IInv
  <1>1. ASSUME NEW u \in Users, NEW reviewers \in ReviewerLists,
               NEW allowed \in OptionalPools, CreateCycle(u, reviewers, allowed)
        PROVE  Numbering'
    <2>1. /\ Len(reviewers) \in Nat
          /\ DOMAIN cycles' = DOMAIN cycles \cup {Len(cycles) + 1}
      BY <1>0, <1>1, CreateColumns
    <2>. QED
      BY <1>1, <2>1, CreateNumbered DEF Numbering
  <1>2. ASSUME NEW u \in Users, NEW s \in DOMAIN steps, CompleteStep(u, s)
        PROVE  Numbering'
    <2>1. /\ DOMAIN steps' = DOMAIN steps /\ DOMAIN cycles' = DOMAIN cycles
          /\ \A t \in DOMAIN steps : /\ steps'[t].cycle = steps[t].cycle
                                     /\ steps'[t].order = steps[t].order
      BY <1>0, <1>2, AdvanceColumns, LastColumns DEF CompleteStep
    <2>. QED
      BY <2>1, SameNumbered DEF Numbering
  <1>3. ASSUME NEW u \in Users, NEW s \in DOMAIN steps, NEW r \in Users,
               ForwardStep(u, s, r)
        PROVE  Numbering'
    <2>1. DOMAIN cycles' = DOMAIN cycles
      BY <1>0, <1>3, ForwardColumns
    <2>2. \A n \in Nat : n + 1 \in Nat
      OBVIOUS
    <2>. QED
      BY <1>3, <2>1, <2>2, ForwardNumbered DEF Numbering
  <1>4. ASSUME UNCHANGED <<cycles, steps>>
        PROVE  Numbering'
    BY <1>4 DEF Numbering
  <1>5. CASE Next
    BY <1>1, <1>2, <1>3, <1>4, <1>5, RowOnly, Zenon DEF Next, ForwardRolledBack
  <1>. QED
    BY <1>4, <1>5 DEF vars

LEMMA NumberingAlways == Spec => []Numbering
  <1>1. Init => Numbering
    BY EmptySeq DEF Init, Numbering
  <1>. QED
    BY <1>1, IInvCorrect, NumberingStep, PTL DEF Spec

-----------------------------------------------------------------------------
(* The refinement of ReviewQueue                                             *)

LEMMA RemainingForm ==
    /\ RemainingReviewers =
         QueueOf(steps, workflow.activeCycle, cycles[workflow.activeCycle].currentOrder)
    /\ RemainingReviewers' =
         QueueOf(steps', workflow'.activeCycle, cycles'[workflow'.activeCycle].currentOrder)
  BY DEF RemainingReviewers, QueueOf, RowsOf, StepsOf

\* What is behind the head of a queue.
LEMMA BehindHead ==
    ASSUME NEW m \in Nat, NEW q \in Seq(Users), Len(q) = m + 1
    PROVE  /\ q # <<>> /\ Tail(q) \in Seq(Users) /\ Len(Tail(q)) = m
           /\ \A i \in 1..m : Tail(q)[i] = q[i + 1]
  <1>1. q # <<>>
    BY EmptySeq
  <1>. QED
    BY <1>1, HeadTailProperties

LEMMA RowUsers ==
    ASSUME NEW st \in Seq(Step), NEW c
    PROVE  \A s \in RowsOf(st, c) : st[s].user \in Users
  <1>1. \A s \in DOMAIN st : st[s] \in Step
    BY LenProperties, ElementOfSeq
  <1>. QED
    BY <1>1 DEF RowsOf, Step

\* While a cycle runs its steps are numbered 1..n, and it is at one of them.
LEMMA RunningCycle ==
    ASSUME IInv, Numbering, InReview
    PROVE  LET c == workflow.activeCycle IN
           /\ c \in DOMAIN cycles
           /\ \A s \in RowsOf(steps, c) : steps[s].user \in Users
           /\ \E n \in Nat : /\ Numbered(steps, c, n)
                             /\ cycles[c].currentOrder \in 1..n
  <1> DEFINE c == workflow.activeCycle
  <1>0. TypeOK
    BY DEF IInv
  <1>1. c \in DOMAIN cycles
    BY DEF IInv, ActiveCycleConsistent, InReview
  <1>2. PICK n \in Nat : Numbered(steps, c, n)
    BY <1>1 DEF Numbering
  <1>3. PICK s \in StepsOf(c) : steps[s].order = cycles[c].currentOrder
    BY DEF IInv, InTurn, AssignedUserHasTurn, InReview
  <1>4. cycles[c].currentOrder \in 1..n
    BY <1>2, <1>3 DEF StepsOf, RowsOf, Numbered
  <1>5. \A t \in RowsOf(steps, c) : steps[t].user \in Users
    BY <1>0, Tables DEF RowsOf, Step
  <1>. QED
    BY <1>1, <1>2, <1>4, <1>5

\* The step that is acted on is the head of the queue.
LEMMA ActsAtHead ==
    ASSUME IInv, NEW u \in Users, NEW s \in DOMAIN steps, OwnsPendingStep(u, s)
    PROVE  /\ InReview /\ s \in RowsOf(steps, workflow.activeCycle)
           /\ steps[s].cycle = workflow.activeCycle
           /\ steps[s].order = cycles[workflow.activeCycle].currentOrder
  BY PendingIsCurrent DEF IInv, InTurn, OwnsPendingStep, InReview, RowsOf

\* createCycle fills an empty queue.
LEMMA StartRefines ==
    ASSUME IInv, Numbering, NEW u \in Users, NEW reviewers \in ReviewerLists,
           NEW allowed \in OptionalPools, CreateCycle(u, reviewers, allowed)
    PROVE  Queue!Start
  <1> DEFINE new == Len(cycles) + 1
             m == Len(reviewers)
             q == QueueOf(steps', new, 1)
             first == Len(steps) + 1
  <1>0. TypeOK
    BY DEF IInv
  <1>1. /\ m \in Nat \ {0} /\ 1 \in 1..m
        /\ workflow'.status = "ADMIN_CYCLE_IN_PROGRESS"
        /\ workflow'.activeCycle = new
        /\ workflow'.assigned = reviewers[1]
        /\ cycles'[new].currentOrder = 1
    BY <1>0, CreateColumns
  <1>2. /\ first \in DOMAIN steps'
        /\ steps'[first].cycle = new
        /\ steps'[first].order = 1
        /\ steps'[first].user = reviewers[1]
    BY <1>0, <1>1, CreateColumns
  <1>3. /\ ~workflow.deleted /\ workflow'.deleted = workflow.deleted
        /\ workflow.status \in {"PENDING_REVIEW_CYCLE", "AVAILABLE_FOR_FINAL_USERS"}
    <2>1. /\ ~workflow.deleted /\ workflow'.deleted = workflow.deleted
          /\ CanTransition(workflow.status, "ADMIN_CYCLE_IN_PROGRESS")
      BY <1>0 DEF CreateCycle, Found, TypeOK, Workflow
    <2>. QED
      BY <2>1 DEF CanTransition, VALID_TRANSITIONS
  <1>4. Numbered(steps', new, m)
    BY CreateNumbered
  <1>5. \A s \in RowsOf(steps', new) : steps'[s].user \in Users
    <2>1. steps' \in Seq(Step)
      BY <1>0, CreateCycleRows
    <2>. QED
      BY <2>1, RowUsers
  <1>6. first \in RowsOf(steps', new)
    BY <1>2 DEF RowsOf
  <1> HIDE DEF new, m, q, first
  <1>7. /\ QueueOf(steps', new, 1) \in Seq(Users) /\ Len(QueueOf(steps', new, 1)) = m - 1 + 1
        /\ QueueOf(steps', new, 1)[steps'[first].order - 1 + 1] = steps'[first].user
    <2>1. m \in Nat /\ steps'[first].order >= 1
      BY <1>1, <1>2
    <2>2. /\ QueueOf(steps', new, 1) \in Seq(Users)
          /\ Len(QueueOf(steps', new, 1)) = m - 1 + 1
          /\ \A s \in RowsOf(steps', new) : steps'[s].order >= 1 =>
                QueueOf(steps', new, 1)[steps'[s].order - 1 + 1] = steps'[s].user
      <3>1. 1 \in 1..m
        BY <1>1
      <3>2. IsQueue(QueueOf(steps', new, 1), steps', new, 1, m)
        BY <1>4, <1>5, <2>1, <3>1, QueueRows
      <3>. QED
        BY <3>2 DEF IsQueue
    <2>. QED
      BY <1>6, <2>1, <2>2
  <1>8. q \in Seq(Users) /\ q # <<>> /\ q[1] = reviewers[1]
    <2>1. Len(QueueOf(steps', new, 1)) # 0 /\ steps'[first].order - 1 + 1 = 1
      BY <1>1, <1>2, <1>7
    <2>. QED
      BY <1>2, <1>7, <2>1, EmptySeq DEF q
  <1>9. Head(q) = workflow'.assigned
    BY <1>1, <1>8
  <1>10. RemainingReviewers' = q
    BY <1>1, RemainingForm DEF q
  <1>. QED
    BY <1>1, <1>3, <1>8, <1>9, <1>10 DEF Queue!Start, InReview, TerminalStatus

\* completeStep takes the head off the queue: here somebody is behind it.
LEMMA AdvanceRefines ==
    ASSUME IInv, Numbering, NEW u \in Users, NEW s \in DOMAIN steps,
           CompleteStepAndAdvance(u, s)
    PROVE  Queue!Review
  <1> DEFINE c == workflow.activeCycle
             k == cycles[c].currentOrder
             p == QueueOf(steps, c, k)
             q == QueueOf(steps', c, k + 1)
  <1>0. TypeOK /\ OwnsPendingStep(u, s)
    BY DEF IInv, CompleteStepAndAdvance
  <1>1. /\ InReview /\ s \in RowsOf(steps, c)
        /\ steps[s].cycle = c /\ steps[s].order = k
    BY <1>0, ActsAtHead
  <1>2. /\ c \in DOMAIN cycles
        /\ \A t \in RowsOf(steps, c) : steps[t].user \in Users
    BY <1>1, RunningCycle
  <1>3. PICK n \in Nat : Numbered(steps, c, n) /\ k \in 1..n
    BY <1>1, RunningCycle
  <1>4. PICK next \in DOMAIN steps :
          /\ IsNextStep(next, s)
          /\ DOMAIN steps' = DOMAIN steps
          /\ \A t \in DOMAIN steps :
               /\ steps'[t].cycle = steps[t].cycle
               /\ steps'[t].order = steps[t].order
               /\ steps'[t].user = steps[t].user
          /\ cycles'[c].currentOrder = steps[next].order
          /\ workflow'.status = workflow.status
          /\ workflow'.activeCycle = c
          /\ workflow'.assigned = steps[next].user
    BY <1>0, <1>1, <1>2, AdvanceColumns
  <1>5. /\ next \in RowsOf(steps, c) /\ steps[next].order > k
        /\ \A t \in RowsOf(steps, c) : steps[t].order > k => steps[next].order <= steps[t].order
    BY <1>1, <1>4 DEF IsNextStep, Later, StepsOf, RowsOf
  <1>6. steps[next].order = k + 1 /\ k + 1 \in 1..n
    <2>1. steps[next].order \in 1..n
      BY <1>3, <1>5 DEF Numbered
    <2>2. k + 1 \in 1..n
      BY <1>3, <1>5, <2>1
    <2>3. PICK t \in RowsOf(steps, c) : steps[t].order = k + 1
      BY <1>3, <2>2 DEF Numbered
    <2>. QED
      BY <1>3, <1>5, <2>1, <2>2, <2>3
  <1>7. ~workflow.deleted /\ workflow'.deleted = workflow.deleted
    BY <1>0 DEF CompleteStepAndAdvance, Found, TypeOK, Workflow
  <1>8. RowsOf(steps', c) = RowsOf(steps, c) /\ Numbered(steps', c, n)
    BY <1>3, <1>4, SameNumbered
  <1>9. \A t \in RowsOf(steps, c) :
           steps'[t].order = steps[t].order /\ steps'[t].user = steps[t].user
    BY <1>4 DEF RowsOf
  <1> HIDE DEF c, k
  <1>10. /\ q \in Seq(Users) /\ Len(q) = n - (k + 1) + 1
         /\ \A t \in RowsOf(steps', c) : steps'[t].order >= k + 1 =>
               q[steps'[t].order - (k + 1) + 1] = steps'[t].user
    <2>1. \A t \in RowsOf(steps', c) : steps'[t].user \in Users
      BY <1>2, <1>8, <1>9
    <2>2. Numbered(steps', c, n) /\ k + 1 \in 1..n
      BY <1>6, <1>8
    <2>3. IsQueue(q, steps', c, k + 1, n)
      BY <2>1, <2>2, QueueRows
    <2>. QED
      BY <2>3 DEF IsQueue
  <1>11. /\ p \in Seq(Users) /\ Len(p) = n - k + 1
         /\ \A t \in RowsOf(steps, c) : steps[t].order >= k =>
               p[steps[t].order - k + 1] = steps[t].user
    <2>1. IsQueue(p, steps, c, k, n)
      BY <1>2, <1>3, QueueRows
    <2>. QED
      BY <2>1 DEF IsQueue
  <1> HIDE DEF p, q
  <1>12. /\ Tail(p) \in Seq(Users) /\ Len(Tail(p)) = n - k
         /\ \A i \in 1..(n - k) : Tail(p)[i] = p[i + 1]
    <2>1. n - k \in Nat /\ Len(p) = (n - k) + 1
      BY <1>3, <1>11
    <2>. QED
      BY <1>11, <2>1, BehindHead
  <1>13. ASSUME NEW i \in 1..(n - k)
         PROVE  \E t \in RowsOf(steps, c) :
                   steps[t].order = k + i /\ q[i] = steps[t].user /\ Tail(p)[i] = q[i]
    <2>1. k + i \in 1..n /\ i + 1 = (k + i) - k + 1 /\ i = (k + i) - (k + 1) + 1
          /\ k + i >= k /\ k + i >= k + 1
      BY <1>3, <1>13
    <2>2. PICK t \in RowsOf(steps, c) : steps[t].order = k + i
      BY <1>3, <2>1 DEF Numbered
    <2>3. q[i] = steps[t].user
      BY <1>8, <1>9, <1>10, <2>1, <2>2
    <2>4. p[i + 1] = steps[t].user
      BY <1>11, <2>1, <2>2
    <2>. QED
      BY <1>12, <1>13, <2>2, <2>3, <2>4
  <1>15. q = Tail(p)
    <2>1. Len(q) = n - k
      BY <1>3, <1>10
    <2>2. \A i \in 1..Len(q) : q[i] = Tail(p)[i]
      BY <1>13, <2>1
    <2>. QED
      BY <1>10, <1>12, <2>1, <2>2, SeqEqual
  <1>16. q # <<>> /\ Head(q) = workflow'.assigned
    <2>1. 1 \in 1..(n - k) /\ Len(q) # 0
      BY <1>3, <1>6, <1>10
    <2>2. PICK t \in RowsOf(steps, c) : steps[t].order = k + 1 /\ q[1] = steps[t].user
      BY <1>13, <2>1
    <2>3. t = next
      BY <1>3, <1>5, <1>6, <2>2 DEF Numbered
    <2>4. q # <<>>
      BY <2>1, EmptySeq
    <2>. QED
      BY <1>4, <2>2, <2>3, <2>4
  <1>14. RemainingReviewers = p /\ RemainingReviewers' = q
    BY <1>4, <1>6, RemainingForm DEF p, q, c, k
  <1>. QED
    BY <1>1, <1>4, <1>7, <1>14, <1>15, <1>16 DEF Queue!Review, InReview

\* completeStep takes the head off the queue: here it was the last one.
LEMMA LastRefines ==
    ASSUME IInv, Numbering, NEW u \in Users, NEW s \in DOMAIN steps,
           CompleteLastStep(u, s)
    PROVE  Queue!Review
  <1> DEFINE c == workflow.activeCycle
             k == cycles[c].currentOrder
             p == QueueOf(steps, c, k)
  <1>0. TypeOK /\ OwnsPendingStep(u, s)
    BY DEF IInv, CompleteLastStep
  <1>1. /\ InReview /\ s \in RowsOf(steps, c)
        /\ steps[s].cycle = c /\ steps[s].order = k
    BY <1>0, ActsAtHead
  <1>2. /\ c \in DOMAIN cycles
        /\ \A t \in RowsOf(steps, c) : steps[t].user \in Users
    BY <1>1, RunningCycle
  <1>3. PICK n \in Nat : Numbered(steps, c, n) /\ k \in 1..n
    BY <1>1, RunningCycle
  <1>4. n - k = 0
    <2>1. \A t \in RowsOf(steps, c) : ~(steps[t].order > k)
      BY <1>1 DEF CompleteLastStep, Later, StepsOf, RowsOf
    <2>2. \E t \in RowsOf(steps, c) : steps[t].order = n
      BY <1>3 DEF Numbered
    <2>. QED
      BY <1>3, <2>1, <2>2
  <1>5. p \in Seq(Users) /\ Len(p) = n - k + 1
    <2>1. IsQueue(p, steps, c, k, n)
      BY <1>2, <1>3, QueueRows
    <2>. QED
      BY <2>1 DEF IsQueue
  <1>6. Tail(p) = <<>>
    <2>1. Len(p) = 0 + 1
      BY <1>3, <1>4, <1>5
    <2>2. Tail(p) \in Seq(Users) /\ Len(Tail(p)) = 0
      BY <1>5, <2>1, BehindHead
    <2>. QED
      BY <2>2, EmptySeq
  <1>7. /\ ~workflow.deleted /\ workflow'.deleted = workflow.deleted
        /\ workflow'.status = "AVAILABLE_FOR_FINAL_USERS"
        /\ workflow'.assigned \in Users
    <2>1. cycles[steps[s].cycle].initiatedBy \in Users
      BY <1>0, <1>1, <1>2, Tables DEF Cycle
    <2>. QED
      BY <1>0, <2>1 DEF CompleteLastStep, Found, TypeOK, Workflow
  <1>8. RemainingReviewers = p
    BY RemainingForm
  <1> HIDE DEF c, k, p
  <1>. QED
    BY <1>1, <1>6, <1>7, <1>8 DEF Queue!Review, InReview, TerminalStatus

\* forwardStep puts another reviewer in the place of the head.
LEMMA ForwardRefines ==
    ASSUME IInv, Numbering, NEW u \in Users, NEW s \in DOMAIN steps, NEW r \in Users,
           ForwardStep(u, s, r)
    PROVE  Queue!Substitute
  <1> DEFINE c == workflow.activeCycle
             k == cycles[c].currentOrder
             p == QueueOf(steps, c, k)
             q == QueueOf(steps', c, k + 1)
             new == Len(steps) + 1
  <1>0. TypeOK /\ OwnsPendingStep(u, s) /\ CanForward(u, s, r)
    BY DEF IInv, ForwardStep, CanForward
  <1>1. /\ InReview /\ s \in RowsOf(steps, c)
        /\ steps[s].cycle = c /\ steps[s].order = k
    BY <1>0, ActsAtHead
  <1>2. /\ c \in DOMAIN cycles
        /\ \A t \in RowsOf(steps, c) : steps[t].user \in Users
    BY <1>1, RunningCycle
  <1>3. PICK n \in Nat : Numbered(steps, c, n) /\ k \in 1..n
    BY <1>1, RunningCycle
  <1>4. /\ DOMAIN steps' = DOMAIN steps \cup {new}
        /\ steps'[new].cycle = c /\ steps'[new].order = k + 1 /\ steps'[new].user = r
    <2>1. DOMAIN steps' = DOMAIN steps \cup {new}
      BY <1>0, ForwardColumns
    <2>2. /\ steps'[new].cycle = steps[s].cycle /\ steps'[new].order = steps[s].order + 1
          /\ steps'[new].user = r
      BY <1>0, ForwardColumns
    <2>. QED
      BY <1>1, <2>1, <2>2
  <1>5. \A t \in RowsOf(steps, c) :
          /\ t \in RowsOf(steps', c)
          /\ steps'[t].order = IF steps[t].order > k THEN steps[t].order + 1
                               ELSE steps[t].order
          /\ steps'[t].user = steps[t].user
    <2>1. \A t \in DOMAIN steps :
             /\ t \in DOMAIN steps'
             /\ steps'[t].cycle = steps[t].cycle
             /\ steps'[t].order = IF t \in Later(s) THEN steps[t].order + 1
                                  ELSE steps[t].order
             /\ steps'[t].user = steps[t].user
      BY <1>0, ForwardColumns
    <2>. QED
      BY <1>1, <2>1 DEF RowsOf, Later, StepsOf
  <1>6. /\ workflow'.status = workflow.status
        /\ workflow'.activeCycle = c
        /\ workflow'.assigned = r
        /\ cycles'[c].currentOrder = k + 1
    BY <1>0, <1>1, <1>2, ForwardColumns
  <1>7. ~workflow.deleted /\ workflow'.deleted = workflow.deleted
    BY <1>0 DEF ForwardStep, CanForward, Found, TypeOK, Workflow
  <1>8. Numbered(steps', c, n + 1)
    BY <1>1, <1>3, ForwardNumbered
  <1>9. \A t \in RowsOf(steps', c) : steps'[t].user \in Users
    BY <1>0, ForwardStepRows, RowUsers
  <1>10. \A t \in RowsOf(steps, c) : steps[t].order = k + 1 => steps[t].user # r
    BY <1>0, <1>1 DEF CanForward, StepsOf, RowsOf
  <1>11. new \in RowsOf(steps', c)
    BY <1>4 DEF RowsOf
  <1> HIDE DEF c, k, new
  <1>12. n + 1 \in Nat /\ k + 1 \in 1..(n + 1)
    BY <1>3
  <1>13. /\ q \in Seq(Users) /\ Len(q) = (n + 1) - (k + 1) + 1
         /\ \A t \in RowsOf(steps', c) : steps'[t].order >= k + 1 =>
               q[steps'[t].order - (k + 1) + 1] = steps'[t].user
    <2>1. IsQueue(q, steps', c, k + 1, n + 1)
      BY <1>8, <1>9, <1>12, QueueRows
    <2>. QED
      BY <2>1 DEF IsQueue
  <1>14. /\ p \in Seq(Users) /\ Len(p) = n - k + 1
         /\ \A t \in RowsOf(steps, c) : steps[t].order >= k =>
               p[steps[t].order - k + 1] = steps[t].user
    <2>1. IsQueue(p, steps, c, k, n)
      BY <1>2, <1>3, QueueRows
    <2>. QED
      BY <2>1 DEF IsQueue
  <1> HIDE DEF p, q
  <1>15. /\ Tail(p) \in Seq(Users) /\ Len(Tail(p)) = n - k
         /\ \A i \in 1..(n - k) : Tail(p)[i] = p[i + 1]
    <2>1. n - k \in Nat /\ Len(p) = (n - k) + 1
      BY <1>3, <1>14
    <2>. QED
      BY <1>14, <2>1, BehindHead
  <1>16. q = <<r>> \o Tail(p)
    <2> DEFINE f == <<r>>
    <2>1. f \in Seq(Users) /\ Len(f) = 1 /\ f[1] = r
      OBVIOUS
    <2> HIDE DEF f
    <2>2. /\ f \o Tail(p) \in Seq(Users)
          /\ Len(f \o Tail(p)) = Len(f) + Len(Tail(p))
          /\ \A i \in 1..(Len(f) + Len(Tail(p))) :
                (f \o Tail(p))[i] = IF i <= Len(f) THEN f[i] ELSE Tail(p)[i - Len(f)]
      <3>1. f \in Seq(Users) /\ Tail(p) \in Seq(Users)
        BY <1>15, <2>1
      <3>. QED
        BY <3>1, ConcatProperties
    <2>3. Len(q) = Len(f \o Tail(p))
      <3>1. Len(f \o Tail(p)) = 1 + (n - k)
        BY <1>15, <2>1, <2>2
      <3>2. Len(q) = 1 + (n - k)
        BY <1>3, <1>13
      <3>. QED
        BY <3>1, <3>2
    <2>4. ASSUME NEW i \in 1..Len(q) PROVE q[i] = (f \o Tail(p))[i]
      <3>1. i \in 1..(Len(f) + Len(Tail(p))) /\ i \in 1..(n - k + 1)
        BY <1>3, <1>13, <1>15, <2>1, <2>4
      <3>2. CASE i = 1
        <4>1. steps'[new].order >= k + 1 /\ steps'[new].order - (k + 1) + 1 = i
          BY <1>3, <1>4, <3>2
        <4>2. q[i] = r
          BY <1>4, <1>11, <1>13, <4>1
        <4>. QED
          BY <2>1, <2>2, <3>1, <3>2, <4>2
      <3>3. CASE i # 1
        <4>1. k + i - 1 \in 1..n
          BY <1>3, <3>1, <3>3
        <4>2. PICK t \in RowsOf(steps, c) : steps[t].order = k + i - 1
          BY <1>3, <4>1 DEF Numbered
        <4>3. /\ steps[t].order >= k /\ steps[t].order - k + 1 = i
              /\ i - 1 \in 1..(n - k) /\ (i - 1) + 1 = i
              /\ steps'[t].order >= k + 1 /\ steps'[t].order - (k + 1) + 1 = i
          <5>1. /\ k + i - 1 > k /\ k + i - 1 >= k /\ (k + i - 1) - k + 1 = i
                /\ i - 1 \in 1..(n - k) /\ (i - 1) + 1 = i
                /\ (k + i - 1) + 1 >= k + 1 /\ ((k + i - 1) + 1) - (k + 1) + 1 = i
            BY <1>3, <3>1, <3>3
          <5>2. steps'[t].order = (k + i - 1) + 1
            BY <1>5, <4>2, <5>1
          <5>. QED
            BY <4>2, <5>1, <5>2
        <4>4. q[i] = steps[t].user
          BY <1>5, <1>13, <4>3
        <4>5. Tail(p)[i - 1] = steps[t].user
          BY <1>14, <1>15, <4>3
        <4>6. (f \o Tail(p))[i] = Tail(p)[i - 1]
          BY <2>1, <2>2, <3>1, <3>3
        <4>. QED
          BY <4>4, <4>5, <4>6
      <3>. QED
        BY <3>2, <3>3
    <2>5. q = f \o Tail(p)
      BY <1>13, <2>2, <2>3, <2>4, SeqEqual
    <2>. QED
      BY <2>5 DEF f
  <1>17. Len(p) > 1 => p[2] # r
    <2>. SUFFICES ASSUME Len(p) > 1 PROVE p[2] # r
      OBVIOUS
    <2>1. k + 1 \in 1..n
      BY <1>3, <1>14
    <2>2. PICK t \in RowsOf(steps, c) : steps[t].order = k + 1
      BY <1>3, <2>1 DEF Numbered
    <2>3. steps[t].order >= k /\ steps[t].order - k + 1 = 2
      BY <1>3, <2>2
    <2>4. p[2] = steps[t].user
      BY <1>14, <2>3
    <2>. QED
      BY <1>10, <2>2, <2>4
  <1>18. RemainingReviewers = p /\ RemainingReviewers' = q
    BY <1>6, RemainingForm DEF p, q, c, k
  <1>. QED
    BY <1>1, <1>6, <1>7, <1>16, <1>17, <1>18 DEF Queue!Substitute, InReview

\* skipReviewCycle: a final user takes the workflow.
LEMMA SkipRefines ==
    ASSUME TypeOK, NEW u \in Users, SkipReviewCycle(u)
    PROVE  Queue!Claim
  <1>1. /\ ~workflow.deleted /\ workflow'.deleted = workflow.deleted
        /\ workflow.status = "PENDING_REVIEW_CYCLE"
        /\ workflow'.status = "AVAILABLE_FOR_FINAL_USERS"
        /\ workflow'.assigned \in Users
    BY DEF SkipReviewCycle, Found, TypeOK, Workflow
  <1>. QED
    BY <1>1 DEF Queue!Claim, InReview, TerminalStatus

\* closeWorkflow and cancelWorkflow do not find a workflow in review.
LEMMA EndRefines ==
    ASSUME TypeOK, NEW u \in Users, NEW terminal \in {"CLOSED", "CANCELLED"},
           End(u, terminal)
    PROVE  Queue!End
  <1>1. /\ ~workflow.deleted /\ workflow'.deleted = workflow.deleted
        /\ workflow.status = "AVAILABLE_FOR_FINAL_USERS"
        /\ workflow'.status = terminal
        /\ workflow'.assigned \in Users
    BY DEF End, Found, TypeOK, Workflow, CanTransition, VALID_TRANSITIONS
  <1>. QED
    BY <1>1 DEF Queue!End, InReview, TerminalStatus

LEMMA RemoveRefines ==
    ASSUME TypeOK, NEW u \in Users, NEW superAdmin \in BOOLEAN,
           RemoveWorkflow(u, superAdmin)
    PROVE  Queue!Withdraw
  <1>1. workflow'.deleted = TRUE /\ workflow'.assigned = workflow.assigned
    BY DEF RemoveWorkflow, TypeOK, Workflow
  <1>. QED
    BY <1>1 DEF Queue!Withdraw

\* The tables stay: so does the queue.
LEMMA StutterRefines ==
    ASSUME UNCHANGED <<workflow, cycles, steps>>
    PROVE  UNCHANGED Queue!vars
  <1>1. RemainingReviewers' = RemainingReviewers
    BY RemainingForm
  <1>. QED
    BY <1>1 DEF Queue!vars, InReview

\* The three tables are a queue of reviewers: each gets one turn, in order, a
\* forward replaces the head by somebody who is not next anyway, and a workflow
\* in review is neither closed nor cancelled: Spec => ImplementsReviewQueue.
THEOREM QueueCorrect == Spec => ImplementsReviewQueue
  <1>1. Init => Queue!Init
    <2>. SUFFICES ASSUME Init PROVE Queue!Init
      OBVIOUS
    <2>1. /\ workflow.deleted = FALSE
          /\ workflow.status \in {"PENDING_REVIEW_CYCLE", "AVAILABLE_FOR_FINAL_USERS"}
          /\ workflow.assigned \in Users \cup {None}
      BY Zenon DEF Init
    <2>. QED
      BY <2>1 DEF Queue!Init, InReview, TerminalStatus
  <1>2. IInv /\ Numbering /\ [Next]_vars => [Queue!Next]_(Queue!vars)
    <2>. SUFFICES ASSUME IInv, Numbering, [Next]_vars
                  PROVE  Queue!Next \/ UNCHANGED Queue!vars
      OBVIOUS
    <2>0. TypeOK
      BY DEF IInv
    <2>1. ASSUME NEW u \in Users, NEW reviewers \in ReviewerLists,
                 NEW allowed \in OptionalPools, CreateCycle(u, reviewers, allowed)
          PROVE  Queue!Next
      BY <2>1, StartRefines DEF Queue!Next
    <2>2. ASSUME NEW u \in Users, NEW s \in DOMAIN steps, CompleteStep(u, s)
          PROVE  Queue!Next
      BY <2>2, AdvanceRefines, LastRefines DEF CompleteStep, Queue!Next
    <2>3. ASSUME NEW u \in Users, NEW s \in DOMAIN steps, NEW r \in Users,
                 ForwardStep(u, s, r)
          PROVE  Queue!Next
      BY <2>3, ForwardRefines DEF Queue!Next
    <2>4. ASSUME NEW u \in Users, SkipReviewCycle(u)
          PROVE  Queue!Next
      BY <2>0, <2>4, SkipRefines DEF Queue!Next
    <2>5. ASSUME NEW u \in Users, CloseWorkflow(u) \/ CancelWorkflow(u)
          PROVE  Queue!Next
      BY <2>0, <2>5, EndRefines DEF CloseWorkflow, CancelWorkflow, Queue!Next
    <2>6. ASSUME NEW u \in Users, NEW superAdmin \in BOOLEAN,
                 RemoveWorkflow(u, superAdmin)
          PROVE  Queue!Next
      BY <2>0, <2>6, RemoveRefines DEF Queue!Next
    <2>7. ASSUME UNCHANGED <<workflow, cycles, steps>>
          PROVE  UNCHANGED Queue!vars
      BY <2>7, StutterRefines
    <2>8. CASE Next
      BY <2>1, <2>2, <2>3, <2>4, <2>5, <2>6, <2>7, <2>8, Zenon DEF Next, ForwardRolledBack
    <2>. QED
      BY <2>7, <2>8 DEF vars
  <1>. QED
    BY <1>1, <1>2, IInvCorrect, NumberingAlways, PTL DEF Spec, ImplementsReviewQueue, Queue!Spec

-----------------------------------------------------------------------------
(* Between cycles                                                            *)

\* Only an approval makes a workflow wait for its first cycle, the running cycle
\* is the last one, and cycles are started by final users.
Starters ==
    /\ workflow.status = "PENDING_REVIEW_CYCLE" => cycles = <<>>
    /\ workflow.activeCycle # Null => workflow.activeCycle = Len(cycles)
    /\ \A c \in DOMAIN cycles : cycles[c].initiatedBy \in workflow.finalUsers

Returned == Starters /\ ReturnedToFinalUser

LEMMA LastCycle ==
    ASSUME TypeOK, cycles # <<>>
    PROVE  Len(cycles) \in DOMAIN cycles /\ Last(cycles) = cycles[Len(cycles)]
  <1>1. Len(cycles) # 0
    BY EmptySeq DEF TypeOK
  <1>. QED
    BY <1>1, Tables DEF Last

LEMMA ReturnedStep == IInv /\ Returned /\ [Next]_vars => Returned'
  <1>. SUFFICES ASSUME IInv, Returned, [Next]_vars PROVE Returned'
    OBVIOUS
  <1>0. TypeOK /\ workflow \in Workflow
    BY DEF IInv, TypeOK
  <1>1. ASSUME NEW u \in Users, NEW reviewers \in ReviewerLists,
               NEW allowed \in OptionalPools, CreateCycle(u, reviewers, allowed)
        PROVE  Returned'
    <2>1. /\ DOMAIN cycles = 1..Len(cycles) /\ Len(cycles) \in Nat
          /\ cycles' \in Seq(Cycle) /\ Len(cycles') = Len(cycles) + 1
          /\ \A c \in 1..Len(cycles) : cycles'[c] = cycles[c]
          /\ cycles'[Len(cycles) + 1].initiatedBy = u
      <3>1. cycles'[Len(cycles) + 1] =
              [ initiatedBy |-> u, status |-> "IN_PROGRESS",
                currentOrder |-> 1, optionalAllowed |-> allowed ]
        BY <1>0, <1>1, CreateCycleRows
      <3>2. /\ cycles' \in Seq(Cycle) /\ Len(cycles') = Len(cycles) + 1
            /\ \A c \in 1..Len(cycles) : cycles'[c] = cycles[c]
        BY <1>0, <1>1, CreateCycleRows
      <3>. QED
        BY <1>0, <3>1, <3>2, Tables
    <2>2. /\ workflow'.status = "ADMIN_CYCLE_IN_PROGRESS"
          /\ workflow'.activeCycle = Len(cycles) + 1
          /\ workflow'.finalUsers = workflow.finalUsers /\ u \in workflow.finalUsers
      BY <1>0, <1>1 DEF CreateCycle, Workflow
    <2>3. DOMAIN cycles' = 1..(Len(cycles) + 1)
      BY <2>1, LenProperties
    <2>4. \A c \in DOMAIN cycles' : cycles'[c].initiatedBy \in workflow'.finalUsers
      <3>1. \A c \in DOMAIN cycles' : c \in 1..Len(cycles) \/ c = Len(cycles) + 1
        BY <2>1, <2>3
      <3>. QED
        BY <2>1, <2>2, <3>1 DEF Returned, Starters
    <2>. QED
      BY <2>1, <2>2, <2>4 DEF Returned, Starters, ReturnedToFinalUser
  <1>2. ASSUME NEW u \in Users, NEW s \in DOMAIN steps, CompleteStepAndAdvance(u, s)
        PROVE  Returned'
    <2>1. OwnsPendingStep(u, s) /\ steps[s].cycle \in DOMAIN cycles
      BY <1>2 DEF CompleteStepAndAdvance, OwnsPendingStep
    <2>2. workflow.status = "ADMIN_CYCLE_IN_PROGRESS"
      BY <2>1, ActsAtHead DEF InReview
    <2>3. /\ workflow'.status = workflow.status
          /\ workflow'.activeCycle = workflow.activeCycle
          /\ workflow'.finalUsers = workflow.finalUsers
      BY <1>0, <1>2 DEF CompleteStepAndAdvance, Workflow
    <2>4. /\ DOMAIN cycles' = DOMAIN cycles
          /\ \A c \in DOMAIN cycles : cycles'[c].initiatedBy = cycles[c].initiatedBy
      BY <1>0, <1>2, Tables DEF CompleteStepAndAdvance, Cycle
    <2>5. Len(cycles') = Len(cycles)
      BY <1>0, <1>2, CompleteStepRows DEF CompleteStep
    <2>. QED
      BY <2>2, <2>3, <2>4, <2>5 DEF Returned, Starters, ReturnedToFinalUser
  <1>3. ASSUME NEW u \in Users, NEW s \in DOMAIN steps, CompleteLastStep(u, s)
        PROVE  Returned'
    <2>1. OwnsPendingStep(u, s)
      BY <1>3 DEF CompleteLastStep
    <2>2. /\ steps[s].cycle = workflow.activeCycle
          /\ workflow.activeCycle \in DOMAIN cycles /\ workflow.activeCycle # Null
      BY <1>0, <2>1, ActsAtHead, Tables DEF OwnsPendingStep, Null
    <2>3. workflow.activeCycle = Len(cycles)
      BY <2>2 DEF Returned, Starters
    <2>4. /\ workflow'.status = "AVAILABLE_FOR_FINAL_USERS"
          /\ workflow'.activeCycle = Null
          /\ workflow'.finalUsers = workflow.finalUsers
          /\ workflow'.assigned = cycles[workflow.activeCycle].initiatedBy
      BY <1>0, <1>3, <2>2 DEF CompleteLastStep, Workflow
    <2>5. /\ DOMAIN cycles' = DOMAIN cycles
          /\ \A c \in DOMAIN cycles : cycles'[c].initiatedBy = cycles[c].initiatedBy
      BY <1>0, <1>3, Tables DEF CompleteLastStep, Cycle
    <2>6. cycles' \in Seq(Cycle) /\ Len(cycles') = Len(cycles)
      BY <1>0, <1>3, CompleteStepRows DEF CompleteStep
    <2>7. Last(cycles').initiatedBy = workflow'.assigned
      BY <2>2, <2>3, <2>4, <2>5, <2>6 DEF Last
    <2>8. workflow'.assigned \in workflow'.finalUsers
      BY <2>2, <2>4 DEF Returned, Starters
    <2>. QED
      BY <2>4, <2>5, <2>7, <2>8 DEF Returned, Starters, ReturnedToFinalUser
  <1>4. ASSUME NEW u \in Users, NEW s \in DOMAIN steps, NEW r \in Users,
               ForwardStep(u, s, r)
        PROVE  Returned'
    <2>1. /\ workflow'.status = "ADMIN_CYCLE_IN_PROGRESS"
          /\ workflow'.activeCycle = workflow.activeCycle
          /\ workflow'.finalUsers = workflow.finalUsers
      BY <1>0, <1>4 DEF ForwardStep, CanForward, Workflow
    <2>2. /\ cycles' \in [DOMAIN cycles -> Cycle]
          /\ \A c \in DOMAIN cycles : cycles'[c].initiatedBy = cycles[c].initiatedBy
      <3>1. steps[s].cycle \in DOMAIN cycles /\ steps[s].order + 1 \in Nat
        BY <1>0, <1>4, Tables DEF ForwardStep, CanForward, OwnsPendingStep, Step
      <3>. QED
        BY <1>0, <1>4, <3>1, Tables DEF ForwardStep, Cycle
    <2>3. Len(cycles') = Len(cycles)
      BY <1>0, <2>2, Tables, FunctionIsSeq
    <2>. QED
      BY <2>1, <2>2, <2>3 DEF Returned, Starters, ReturnedToFinalUser
  <1>5. ASSUME NEW u \in Users, SkipReviewCycle(u)
        PROVE  Returned'
    <2>1. /\ workflow.status = "PENDING_REVIEW_CYCLE"
          /\ workflow'.status = "AVAILABLE_FOR_FINAL_USERS"
          /\ workflow'.activeCycle = workflow.activeCycle
          /\ workflow'.finalUsers = workflow.finalUsers
          /\ workflow'.assigned = u /\ u \in workflow.finalUsers
          /\ cycles' = cycles
      BY <1>0, <1>5 DEF SkipReviewCycle, Workflow
    <2>. QED
      BY <2>1 DEF Returned, Starters, ReturnedToFinalUser
  <1>6. ASSUME NEW u \in Users, NEW terminal \in {"CLOSED", "CANCELLED"},
               End(u, terminal)
        PROVE  Returned'
    <2>1. /\ workflow'.status = terminal
          /\ workflow'.activeCycle = Null
          /\ workflow'.finalUsers = workflow.finalUsers
          /\ cycles' = cycles
      BY <1>0, <1>6 DEF End, Workflow
    <2>. QED
      BY <2>1 DEF Returned, Starters, ReturnedToFinalUser
  <1>7. ASSUME NEW u \in Users, NEW superAdmin \in BOOLEAN,
               RemoveWorkflow(u, superAdmin)
        PROVE  Returned'
    <2>1. /\ workflow'.status = workflow.status
          /\ workflow'.activeCycle = workflow.activeCycle
          /\ workflow'.finalUsers = workflow.finalUsers
          /\ workflow'.assigned = workflow.assigned
          /\ cycles' = cycles
      BY <1>0, <1>7 DEF RemoveWorkflow, Workflow
    <2>. QED
      BY <2>1 DEF Returned, Starters, ReturnedToFinalUser
  <1>8. ASSUME UNCHANGED <<workflow, cycles>>
        PROVE  Returned'
    BY <1>8 DEF Returned, Starters, ReturnedToFinalUser
  <1>9. CASE Next
    BY <1>1, <1>2, <1>3, <1>4, <1>5, <1>6, <1>7, <1>8, <1>9, Zenon
    DEF Next, CompleteStep, CloseWorkflow, CancelWorkflow, ForwardRolledBack
  <1>. QED
    BY <1>8, <1>9 DEF vars

\* Between cycles a workflow waits for a final user, after a cycle for the one
\* who started it: Spec => []ReturnedToFinalUser.
THEOREM ReturnedCorrect == Spec => []ReturnedToFinalUser
  <1>1. Init => Returned
    <2>. SUFFICES ASSUME Init PROVE Returned
      OBVIOUS
    <2>1. /\ workflow.activeCycle = Null
          /\ IF workflow.finalUsers = {} THEN workflow.assigned = None
                                         ELSE workflow.assigned \in workflow.finalUsers
          /\ cycles = <<>>
      BY Zenon DEF Init
    <2>2. DOMAIN cycles = {}
      BY <2>1, EmptySeq
    <2>. QED
      BY <2>1, <2>2 DEF Returned, Starters, ReturnedToFinalUser
  <1>2. Returned => ReturnedToFinalUser
    BY DEF Returned
  <1>. QED
    BY <1>1, <1>2, IInvCorrect, ReturnedStep, PTL DEF Spec

-----------------------------------------------------------------------------
(* The inserted steps                                                        *)

\* The column insertedBy, which the lemmas above leave out.
LEMMA InsertedColumn ==
    ASSUME TypeOK, NEW u \in Users, NEW s \in DOMAIN steps
    PROVE  /\ CompleteStep(u, s) =>
                \A t \in DOMAIN steps : steps'[t].insertedBy = steps[t].insertedBy
           /\ \A r \in Users : ForwardStep(u, s, r) =>
                /\ \A t \in DOMAIN steps : steps'[t].insertedBy = steps[t].insertedBy
                /\ steps'[Len(steps) + 1].insertedBy = s
  <1>1. \A t \in DOMAIN steps : steps[t] \in Step
    BY Tables
  <1>2. ASSUME CompleteStepAndAdvance(u, s), NEW t \in DOMAIN steps
        PROVE  steps'[t].insertedBy = steps[t].insertedBy
    <2>1. PICK next \in Later(s) :
             steps' = [steps EXCEPT ![s].status = "COMPLETED", ![next].status = "PENDING"]
      BY <1>2 DEF CompleteStepAndAdvance
    <2>2. next \in DOMAIN steps
      BY DEF Later, StepsOf
    <2>. QED
      BY <1>1, <2>1, <2>2 DEF Step
  <1>3. ASSUME CompleteLastStep(u, s), NEW t \in DOMAIN steps
        PROVE  steps'[t].insertedBy = steps[t].insertedBy
    BY <1>1, <1>3 DEF CompleteLastStep, Step
  <1>4. ASSUME NEW r \in Users, ForwardStep(u, s, r)
        PROVE  /\ \A t \in DOMAIN steps : steps'[t].insertedBy = steps[t].insertedBy
               /\ steps'[Len(steps) + 1].insertedBy = s
    <2>1. ASSUME NEW t \in DOMAIN steps
          PROVE  steps'[t].insertedBy = steps[t].insertedBy
      <3>1. t \in 1..Len(steps) /\ steps[t] \in Step
        BY Tables
      <3>2. steps'[t] = IF t \in Later(s) THEN [steps[t] EXCEPT !.order = @ + 1]
                        ELSE IF t = s THEN [steps[t] EXCEPT !.status = "COMPLETED"]
                        ELSE steps[t]
        BY <1>4, <3>1, ForwardStepRows
      <3>. QED
        BY <3>1, <3>2 DEF Step
    <2>2. steps'[Len(steps) + 1] = InsertedStep(s, r)
      BY <1>4, ForwardStepRows
    <2>. QED
      BY <2>1, <2>2 DEF InsertedStep
  <1>. QED
    BY <1>2, <1>3, <1>4 DEF CompleteStep

\* OptionalStepPlaced of one step.
Placed(s) ==
    LET by == steps[s].insertedBy IN
    /\ by \in DOMAIN steps /\ steps[by].cycle = steps[s].cycle
    /\ steps[by].insertedBy = Null /\ steps[by].status = "COMPLETED"
    /\ steps[s].order = steps[by].order + 1
    /\ \A t \in DOMAIN steps :
           steps[t].cycle = steps[s].cycle /\ steps[t].order = steps[s].order + 1
               => steps[t].user # steps[s].user

AllPlaced == \A s \in DOMAIN steps : steps[s].insertedBy # Null => Placed(s)

LEMMA PlacedForm == AllPlaced <=> OptionalStepPlaced
  BY DEF AllPlaced, Placed, OptionalStepPlaced, StepsOf

LEMMA CreatePlaced ==
    ASSUME IInv, AllPlaced, NEW u \in Users, NEW reviewers \in ReviewerLists,
           NEW allowed \in OptionalPools, CreateCycle(u, reviewers, allowed)
    PROVE  AllPlaced'
  <1> DEFINE new == Len(cycles) + 1
             last == Len(steps)
             m == Len(reviewers)
  <1>0. TypeOK
    BY DEF IInv
  <1>1. /\ new \notin DOMAIN cycles
        /\ m \in Nat \ {0} /\ last \in Nat
        /\ DOMAIN steps = 1..last /\ DOMAIN steps' = 1..(last + m)
        /\ \A t \in 1..last : steps'[t] = steps[t]
    BY <1>0, CreateColumns
  <1>2. \A i \in 1..m : steps'[last + i].cycle = new /\ steps'[last + i].insertedBy = Null
    <2> TAKE i \in 1..m
    <2>1. steps'[last + i] =
            [ cycle |-> Len(cycles) + 1, user |-> reviewers[i], order |-> i,
              status |-> IF i = 1 THEN "PENDING" ELSE "WAITING",
              insertedBy |-> Null ]
      BY <1>0, CreateCycleRows
    <2>. QED
      BY <2>1
  <1>3. \A t \in DOMAIN steps : steps[t].cycle \in DOMAIN cycles
    BY DEF IInv, InTurn, Orders
  <1> HIDE DEF new, last, m
  <1>4. ASSUME NEW t \in DOMAIN steps', t \notin DOMAIN steps
        PROVE  steps'[t].cycle = new /\ steps'[t].insertedBy = Null
    <2>1. t - last \in 1..m /\ last + (t - last) = t
      BY <1>1, <1>4
    <2>. QED
      BY <1>2, <2>1
  <1>5. ASSUME NEW s \in DOMAIN steps', steps'[s].insertedBy # Null
        PROVE  Placed(s)'
    <2>1. s \in DOMAIN steps /\ steps'[s] = steps[s]
      BY <1>1, <1>4, <1>5
    <2>2. Placed(s)
      BY <1>5, <2>1 DEF AllPlaced
    <2>3. \A t \in DOMAIN steps : t \in DOMAIN steps' /\ steps'[t] = steps[t]
      BY <1>1
    <2>4. \A t \in DOMAIN steps' : steps'[t].cycle = steps[s].cycle => t \in DOMAIN steps
      BY <1>1, <1>3, <1>4, <2>1
    <2>. QED
      BY <2>1, <2>2, <2>3, <2>4 DEF Placed
  <1>. QED
    BY <1>5 DEF AllPlaced

\* No row moves and a completed step stays completed.
LEMMA CompletePlaced ==
    ASSUME IInv, AllPlaced, NEW u \in Users, NEW s \in DOMAIN steps, CompleteStep(u, s)
    PROVE  AllPlaced'
  <1>0. TypeOK
    BY DEF IInv
  <1>1. /\ DOMAIN steps' = DOMAIN steps
        /\ \A t \in DOMAIN steps :
             /\ steps'[t].cycle = steps[t].cycle
             /\ steps'[t].order = steps[t].order
             /\ steps'[t].user = steps[t].user
             /\ steps[t].status = "COMPLETED" => steps'[t].status = "COMPLETED"
    <2>1. CASE CompleteStepAndAdvance(u, s)
      <3>1. PICK next \in DOMAIN steps :
              /\ IsNextStep(next, s)
              /\ DOMAIN steps' = DOMAIN steps
              /\ \A t \in DOMAIN steps :
                   /\ steps'[t].cycle = steps[t].cycle
                   /\ steps'[t].order = steps[t].order
                   /\ steps'[t].user = steps[t].user
                   /\ steps'[t].status = IF t = s THEN "COMPLETED"
                                         ELSE IF t = next THEN "PENDING"
                                         ELSE steps[t].status
        BY <1>0, <2>1, AdvanceColumns
      <3>2. steps[next].status = "WAITING"
        BY <2>1, <3>1, LaterWaits DEF CompleteStepAndAdvance, IsNextStep
      <3>. QED
        BY <3>1, <3>2
    <2>2. CASE CompleteLastStep(u, s)
      BY <1>0, <2>2, LastColumns
    <2>. QED
      BY <2>1, <2>2 DEF CompleteStep
  <1>2. \A t \in DOMAIN steps : steps'[t].insertedBy = steps[t].insertedBy
    BY <1>0, InsertedColumn
  <1>. QED
    BY <1>1, <1>2 DEF AllPlaced, Placed

\* A forward moves neither an earlier inserted step nor the one after it, and
\* the step it inserts is not the next reviewer's.
LEMMA ForwardPlaced ==
    ASSUME IInv, AllPlaced, NEW u \in Users, NEW s \in DOMAIN steps, NEW r \in Users,
           ForwardStep(u, s, r)
    PROVE  AllPlaced'
  <1> DEFINE new == Len(steps) + 1
             k == steps[s].order
  <1>0. TypeOK /\ OwnsPendingStep(u, s) /\ CanForward(u, s, r)
    BY DEF IInv, ForwardStep, CanForward
  <1>1. /\ new \notin DOMAIN steps
        /\ DOMAIN steps' = DOMAIN steps \cup {new}
    BY <1>0, ForwardColumns
  <1>2. \A t \in DOMAIN steps :
          /\ steps'[t].cycle = steps[t].cycle
          /\ steps'[t].order = IF steps[t].cycle = steps[s].cycle /\ steps[t].order > k
                               THEN steps[t].order + 1 ELSE steps[t].order
          /\ steps'[t].user = steps[t].user
          /\ steps'[t].status = IF t = s THEN "COMPLETED" ELSE steps[t].status
          /\ steps'[t].insertedBy = steps[t].insertedBy
    <2>1. \A t \in DOMAIN steps :
             /\ steps'[t].cycle = steps[t].cycle
             /\ steps'[t].order = IF t \in Later(s) THEN steps[t].order + 1
                                  ELSE steps[t].order
             /\ steps'[t].user = steps[t].user
             /\ steps'[t].status = IF t = s THEN "COMPLETED" ELSE steps[t].status
      BY <1>0, ForwardColumns
    <2>2. \A t \in DOMAIN steps : steps'[t].insertedBy = steps[t].insertedBy
      BY <1>0, InsertedColumn
    <2>. QED
      BY <2>1, <2>2 DEF Later, StepsOf
  <1>3. /\ steps'[new].cycle = steps[s].cycle /\ steps'[new].order = k + 1
        /\ steps'[new].user = r /\ steps'[new].insertedBy = s
    <2>1. steps'[new] = InsertedStep(s, r)
      BY <1>0, ForwardStepRows
    <2>. QED
      BY <2>1 DEF InsertedStep
  <1>4. \A t \in DOMAIN steps : steps[t].order \in Nat
    BY <1>0, Tables DEF Step
  <1>5. /\ steps[s].insertedBy = Null /\ steps[s].status = "PENDING"
        /\ \A t \in DOMAIN steps :
              steps[t].cycle = steps[s].cycle /\ steps[t].order = k + 1
                  => steps[t].user # r
    BY <1>0 DEF CanForward, OwnsPendingStep, StepsOf
  <1>6. \A t \in DOMAIN steps :
           steps[t].cycle = steps[s].cycle /\ steps[t].order > k => steps[t].status = "WAITING"
    BY <1>0, LaterWaits DEF Later, StepsOf
  <1>7. \A t \in DOMAIN steps :
           steps[t].cycle = steps[s].cycle /\ steps[t].order = k => t = s
    BY DEF IInv, InTurn, Orders
  <1> HIDE DEF new, k
  <1>8. ASSUME NEW x, x = new
        PROVE  Placed(x)'
    <2>1. s \in DOMAIN steps' /\ steps'[s].cycle = steps[s].cycle
          /\ steps'[s].insertedBy = Null /\ steps'[s].status = "COMPLETED"
          /\ steps'[s].order = k
      BY <1>1, <1>2, <1>4, <1>5 DEF k
    <2>2. ASSUME NEW t \in DOMAIN steps', steps'[t].cycle = steps[s].cycle,
                 steps'[t].order = (k + 1) + 1
          PROVE  steps'[t].user # r
      <3>0. k \in Nat
        BY <1>4 DEF k
      <3>1. t \in DOMAIN steps
        BY <1>1, <1>3, <2>2, <3>0
      <3>2. steps[t].order = k + 1
        BY <1>2, <1>4, <2>2, <3>0, <3>1
      <3>. QED
        BY <1>2, <1>5, <2>2, <3>1, <3>2
    <2>. QED
      BY <1>3, <1>8, <2>1, <2>2 DEF Placed
  <1>9. ASSUME NEW t \in DOMAIN steps, steps[t].insertedBy # Null
        PROVE  Placed(t)'
    <2>0. k \in Nat
      BY <1>4 DEF k
    <2>1. Placed(t)
      BY <1>9 DEF AllPlaced
    <2> DEFINE by == steps[t].insertedBy
    <2>2. /\ by \in DOMAIN steps /\ steps[by].cycle = steps[t].cycle
          /\ steps[by].insertedBy = Null /\ steps[by].status = "COMPLETED"
          /\ steps[t].order = steps[by].order + 1
          /\ \A q \in DOMAIN steps :
                steps[q].cycle = steps[t].cycle /\ steps[q].order = steps[t].order + 1
                    => steps[q].user # steps[t].user
      BY <2>1 DEF Placed
    <2>3. by # s /\ t # s
      BY <1>5, <1>9, <2>2
    <2> HIDE DEF by
    <2>4. steps[t].cycle = steps[s].cycle => steps[t].order < k
      <3>. SUFFICES ASSUME steps[t].cycle = steps[s].cycle PROVE steps[t].order < k
        OBVIOUS
      <3>1. ~(steps[by].order > k)
        BY <1>6, <2>2
      <3>2. steps[by].order # k /\ steps[t].order # k
        BY <1>7, <2>2, <2>3
      <3>. QED
        BY <1>4, <2>0, <2>2, <3>1, <3>2
    <2>5. /\ steps'[t].order = steps[t].order /\ steps'[by].order = steps[by].order
          /\ steps'[by].status = "COMPLETED"
      BY <1>2, <1>4, <2>0, <2>2, <2>3, <2>4
    <2>6. ASSUME NEW q \in DOMAIN steps', steps'[q].cycle = steps[t].cycle,
                 steps'[q].order = steps[t].order + 1
          PROVE  steps'[q].user # steps[t].user
      <3>1. q \in DOMAIN steps
        BY <1>1, <1>3, <1>4, <2>0, <2>4, <2>6
      <3>2. steps[q].order = steps[t].order + 1
        BY <1>2, <1>4, <2>0, <2>4, <2>6, <3>1
      <3>. QED
        BY <1>2, <2>2, <2>6, <3>1, <3>2
    <2>7. /\ by \in DOMAIN steps' /\ steps'[t].insertedBy = by
          /\ steps'[by].insertedBy = Null
          /\ steps'[by].cycle = steps[t].cycle /\ steps'[t].cycle = steps[t].cycle
          /\ steps'[t].user = steps[t].user
      BY <1>1, <1>2, <2>2 DEF by
    <2>. QED
      BY <2>2, <2>5, <2>6, <2>7 DEF Placed
  <1>10. \A t \in DOMAIN steps' : t = new \/ (t \in DOMAIN steps
                                    /\ steps'[t].insertedBy = steps[t].insertedBy)
    BY <1>1, <1>2
  <1>11. ASSUME NEW t \in DOMAIN steps', steps'[t].insertedBy # Null
         PROVE  Placed(t)'
    <2>1. CASE t = new
      BY <1>8, <2>1
    <2>2. CASE t \in DOMAIN steps /\ steps'[t].insertedBy = steps[t].insertedBy
      BY <1>9, <1>11, <2>2
    <2>. QED
      BY <1>10, <2>1, <2>2
  <1>. QED
    BY <1>11 DEF AllPlaced

\* An inserted step stays right behind the completed one that forwarded to it,
\* and is not followed by a step of the same reviewer, whatever is forwarded
\* later: Spec => []OptionalStepPlaced.
THEOREM PlacedCorrect == Spec => []OptionalStepPlaced
  <1>1. Init => AllPlaced
    BY EmptySeq DEF Init, AllPlaced
  <1>2. IInv /\ AllPlaced /\ [Next]_vars => AllPlaced'
    <2>. SUFFICES ASSUME IInv, AllPlaced, [Next]_vars PROVE AllPlaced'
      OBVIOUS
    <2>1. ASSUME UNCHANGED <<cycles, steps>>
          PROVE  AllPlaced'
      BY <2>1 DEF AllPlaced, Placed
    <2>2. CASE Next
      BY <2>1, <2>2, CreatePlaced, CompletePlaced, ForwardPlaced, RowOnly, Zenon
      DEF Next, ForwardRolledBack
    <2>. QED
      BY <2>1, <2>2 DEF vars
  <1>. QED
    BY <1>1, <1>2, PlacedForm, IInvCorrect, PTL DEF Spec
=============================================================================
