---------------------------- MODULE ReviewQueue ----------------------------
(***************************************************************************)
(* What the administrative cycle promises, without its tables: a workflow  *)
(* that is with its final users goes through a queue of reviewers and      *)
(* comes back.  Each reviewer is served once and in order; the one at the  *)
(* head holds the workflow and may put somebody in his place, but not the  *)
(* one who is next anyway.  Only a workflow that is not in review is ended. *)
(***************************************************************************)
EXTENDS Naturals, Sequences

CONSTANTS Users, None

VARIABLES
    stage,      \* where the workflow is
    queue,      \* the reviewers who still have to act
    holder      \* the user the workflow waits for

vars == <<stage, queue, holder>>

Init ==
    /\ stage = "with final users"
    /\ queue = <<>>
    /\ holder \in Users \cup {None}

Start ==
    /\ stage = "with final users"
    /\ stage' = "in review"
    /\ queue' \in Seq(Users) \ {<<>>}
    /\ holder' = Head(queue')

Review ==
    /\ stage = "in review"
    /\ queue' = Tail(queue)
    /\ IF queue' = <<>>
       THEN stage' = "with final users" /\ holder' \in Users
       ELSE stage' = stage /\ holder' = Head(queue')

Substitute ==
    /\ stage = "in review"
    /\ \E r \in Users :
         /\ Len(queue) > 1 => queue[2] # r
         /\ queue' = <<r>> \o Tail(queue)
         /\ holder' = r
    /\ UNCHANGED stage

Claim ==
    /\ stage = "with final users"
    /\ holder' \in Users
    /\ UNCHANGED <<stage, queue>>

End ==
    /\ stage = "with final users"
    /\ stage' = "ended"
    /\ holder' \in Users
    /\ UNCHANGED queue

\* A super admin may take the workflow away at any moment.
Withdraw ==
    /\ stage' = "withdrawn"
    /\ queue' = <<>>
    /\ UNCHANGED holder

Next == Start \/ Review \/ Substitute \/ Claim \/ End \/ Withdraw

Spec == Init /\ [][Next]_vars
=============================================================================
