---------------------------- MODULE Idempotency ----------------------------
(***************************************************************************)
(* withIdempotency of workflows.controller.ts over idempotency.service.ts, *)
(* for one Idempotency-Key: the calls that carry it, by the user who chose *)
(* it and possibly by another, and the row of workflow_idempotency_keys.   *)
(*                                                                         *)
(* The wrapped operation is one that can succeed again, as addNote can: it *)
(* is counted, not described.  get, the operation and set are separate     *)
(* awaits; the row is found by key and user, but its primary key is the    *)
(* key alone.                                                              *)
(***************************************************************************)
EXTENDS Naturals, FiniteSets

CONSTANTS
    Clients,        \* the users who send the key
    Calls,          \* slots for the calls being served at a time
    Nothing,        \* no row, no user
    MaxExecutions,  \* bound: executions of the operation per user
    MaxDeletes      \* bound: deletes on their way at a time

ASSUME IdempotencyAssumption ==
    /\ Nothing \notin Clients \cup [user : Clients, expired : BOOLEAN]
    /\ MaxExecutions \in Nat
    /\ MaxDeletes \in Nat

VARIABLES
    row,            \* the row of the key: its user and its age, or None
    deletes,        \* deletes of an expired row on their way to the database
    calls,          \* where each call is, and whose it is
    executions,     \* per user, times the operation took effect
    answered,       \* users who got an answer to a call
    excuses         \* observation: what happened that the key is not built for

keyVars == <<row, deletes, calls, executions, answered, excuses>>

Row == [user : Clients, expired : BOOLEAN]

Call == [pc : {"idle", "get", "run", "set"}, user : Clients \cup {Nothing}]

IdleCall == [pc |-> "idle", user |-> Nothing]

KeyTypeOK ==
    /\ row \in Row \cup {Nothing}
    /\ deletes \in 0..MaxDeletes
    /\ calls \in [Calls -> Call]
    /\ executions \in [Clients -> 0..MaxExecutions]
    /\ answered \subseteq Clients
    /\ excuses \subseteq {"overlap", "failure", "expiry", "shared key"}

KeyInit ==
    /\ row = Nothing
    /\ deletes = 0
    /\ calls = [c \in Calls |-> IdleCall]
    /\ executions = [u \in Clients |-> 0]
    /\ answered = {}
    /\ excuses = {}

Advance(c, pc) == calls' = [calls EXCEPT ![c].pc = pc]

Busy == {c \in Calls : calls[c] # IdleCall}

\* A client sends its request, for the first time or again.
Send(c, u) ==
    /\ calls[c] = IdleCall
    /\ calls' = [calls EXCEPT ![c] = [pc |-> "get", user |-> u]]
    /\ excuses' = excuses
         \cup (IF Busy = {} THEN {} ELSE {"overlap"})
         \cup (IF \E v \in Clients \ {u} : executions[v] > 0
                 THEN {"shared key"} ELSE {})
    /\ UNCHANGED <<row, deletes, executions, answered>>

\* Mutant: the row is searched by key alone.
GetHitByKey(c) ==
    /\ calls[c].pc = "get"
    /\ row # Nothing
    /\ ~row.expired
    /\ calls' = [calls EXCEPT ![c] = IdleCall]
    /\ answered' = answered \cup {calls[c].user}
    /\ UNCHANGED <<row, deletes, executions, excuses>>

\* get finds a row of this user that is still good: the answer stored in it.
GetHit(c) ==
    /\ calls[c].pc = "get"
    /\ row = [user |-> calls[c].user, expired |-> FALSE]
    /\ calls' = [calls EXCEPT ![c] = IdleCall]
    /\ answered' = answered \cup {calls[c].user}
    /\ UNCHANGED <<row, deletes, executions, excuses>>

\* get finds none.
GetMiss(c) ==
    /\ calls[c].pc = "get"
    /\ IF row = Nothing THEN TRUE ELSE row.user # calls[c].user
    /\ Advance(c, "run")
    /\ UNCHANGED <<row, deletes, executions, answered, excuses>>

\* get finds one that has expired: it sends a delete nobody waits for.
GetExpired(c) ==
    /\ calls[c].pc = "get"
    /\ row = [user |-> calls[c].user, expired |-> TRUE]
    /\ deletes < MaxDeletes
    /\ Advance(c, "run")
    /\ deletes' = deletes + 1
    /\ UNCHANGED <<row, executions, answered, excuses>>

\* The operation takes effect.
Run(c) ==
    /\ calls[c].pc = "run"
    /\ executions[calls[c].user] < MaxExecutions
    /\ executions' = [executions EXCEPT ![calls[c].user] = @ + 1]
    /\ Advance(c, "set")
    /\ UNCHANGED <<row, deletes, answered, excuses>>

\* Mutant: expiresAt is the time of the call, without the TTL.
SetExpired(c) ==
    /\ calls[c].pc = "set"
    /\ row' = [user |-> calls[c].user, expired |-> TRUE]
    /\ calls' = [calls EXCEPT ![c] = IdleCall]
    /\ answered' = answered \cup {calls[c].user}
    /\ UNCHANGED <<deletes, executions, excuses>>

\* set: an upsert on the key, whoever the row belongs to, for another 24 hours.
Set(c) ==
    /\ calls[c].pc = "set"
    /\ row' = [user |-> calls[c].user, expired |-> FALSE]
    /\ calls' = [calls EXCEPT ![c] = IdleCall]
    /\ answered' = answered \cup {calls[c].user}
    /\ UNCHANGED <<deletes, executions, excuses>>

\* The operation throws before it takes effect; or the call is lost before its
\* answer is stored: the process dies, or the read that follows the operation
\* or set itself throws.
Abandon(c) ==
    /\ calls[c].pc # "idle"
    /\ calls' = [calls EXCEPT ![c] = IdleCall]
    /\ excuses' = IF calls[c].pc = "set" THEN excuses \cup {"failure"} ELSE excuses
    /\ UNCHANGED <<row, deletes, executions, answered>>

\* Twenty-four hours pass.
Expire ==
    /\ row # Nothing
    /\ row' = [row EXCEPT !.expired = TRUE]
    /\ excuses' = excuses \cup {"expiry"}
    /\ UNCHANGED <<deletes, calls, executions, answered>>

\* The delete arrives: it is by key, and takes whatever row is there by now.
DeleteArrives ==
    /\ deletes > 0
    /\ row' = Nothing
    /\ deletes' = deletes - 1
    /\ UNCHANGED <<calls, executions, answered, excuses>>

KeyNext ==
    \/ \E c \in Calls :
         \/ \E u \in Clients : Send(c, u)
         \/ GetHit(c) \/ GetMiss(c) \/ GetExpired(c)
         \/ Run(c) \/ Set(c) \/ Abandon(c)
    \/ Expire
    \/ DeleteArrives

KeySpec == KeyInit /\ [][KeyNext]_keyVars

-----------------------------------------------------------------------------
(* Properties *)

\* The key does its work for a client that retries its own key, one call after
\* another, within the TTL: a second execution is always due to calls that
\* overlap, a failure between the effect and set, an expiry, or another user
\* with the same key.
ReexecutionExplained ==
    \A u \in Clients : executions[u] > 1 => excuses # {}

\* A user is answered only with the outcome of an execution of its own, even
\* when two users share the row.
AnswerIsOwn == \A u \in answered : executions[u] > 0

\* "Un cliente puede reenviar la misma Idempotency-Key y recibir la respuesta
\* cacheada sin que la acción se ejecute dos veces" within the 24 hours
\* (entities/idempotency-key.entity.ts:5).
ExecutedOnceWithinTtl ==
    "expiry" \in excuses \/ \A u \in Clients : executions[u] <= 1
=============================================================================
