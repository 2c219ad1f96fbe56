------------------------------- MODULE Accounts -------------------------------
(***************************************************************************)
(* One account, kept in two databases: the row of table users in           *)
(* user-service and the row of table credentials in auth-service.  A       *)
(* registration, removal, restoration, disabling or enabling is a chain of *)
(* a read, a call of auth-service and a write, without a lock or a         *)
(* transaction over the two; when its write fails it calls auth-service    *)
(* again to undo the first call.  A handler of auth-service reads the      *)
(* credential and saves it in two steps, and runs on when its caller has   *)
(* given up.                                                               *)
(*                                                                         *)
(* repository.save writes back the whole entity as it was read, deletedAt  *)
(* included.                                                               *)
(***************************************************************************)
EXTENDS Integers, FiniteSets

CONSTANTS
    Requests,    \* slots for the requests being served at a time
    MaxTokens,   \* bound: invitations ever issued
    MaxAvatars,  \* bound: avatars ever uploaded
    MaxStarts,   \* bound: requests ever started
    MaxFaults    \* bound: crashes, timeouts and failed writes

ASSUME AccountsAssumption ==
    /\ MaxTokens \in Nat
    /\ MaxAvatars \in Nat
    /\ MaxStarts \in Nat
    /\ MaxFaults \in Nat

VARIABLES
    user,     \* the row of table users
    cred,     \* the row of table credentials
    tokens,   \* keys invitation:<hash> that exist
    issued,   \* bound: invitations issued
    store,    \* the avatars in object storage
    uploads,  \* bound: avatars uploaded
    req,      \* the requests in course
    orphans,  \* calls auth-service still serves although nobody waits
    starts,   \* bound: requests started
    faults,   \* bound: faults so far
    seen      \* observation: what the properties excuse, and why

vars == <<user, cred, tokens, issued, store, uploads, req, orphans, starts,
          faults, seen>>

\* status: registrationStatus; on: isActive; gone: deletedAt is set.
User == [ status : {"pending", "active"},
          on     : BOOLEAN,
          gone   : BOOLEAN,
          avatar : Nat ]

NoUser == [status |-> "none", on |-> FALSE, gone |-> FALSE, avatar |-> 0]

NewUser == [status |-> "pending", on |-> FALSE, gone |-> FALSE, avatar |-> 0]

\* pw names the password by the request that chose it.
Credential == [status : {"ACTIVE", "DISABLED"}, pw : Nat \ {0}]

NoCred == [status |-> "none", pw |-> 0]

NotRead == [status |-> "unread", pw |-> 0]

Idle == [op |-> "idle"]

\* The call of auth-service that each operation begins with, and the one
\* that undoes it when the write of the users row fails.
FirstCall == [ remove |-> "disable", restore |-> "enable",
               disable |-> "disable", enable |-> "enable",
               complete |-> "provision", provision |-> "provision" ]

UndoCall == [ remove |-> "enable", restore |-> "disable",
              disable |-> "enable", enable |-> "disable" ]

TypeOK ==
    /\ user \in User \cup {NoUser}
    /\ cred \in Credential \cup {NoCred}
    /\ tokens \subseteq 1..issued
    /\ store \subseteq 1..uploads
    /\ \A r \in Requests : req[r] # Idle =>
         /\ req[r].copy \in User \cup {NoUser}
         /\ req[r].got \in Credential \cup {NoCred, NotRead}
    /\ \A o \in orphans : o.call \in {"enable", "disable", "provision"}

Init ==
    /\ user = NoUser
    /\ cred = NoCred
    /\ tokens = {}
    /\ issued = 0
    /\ store = {}
    /\ uploads = 0
    /\ req = [r \in Requests |-> Idle]
    /\ orphans = {}
    /\ starts = 0
    /\ faults = 0
    /\ seen = [ sure |-> TRUE,        \* the last change of access went well
                removal |-> "none",   \* how the last removal went
                reopened |-> FALSE,   \* a restoration began after it
                expired |-> FALSE,    \* an invitation expired
                clobbered |-> FALSE ] \* a save overwrote a newer row

-----------------------------------------------------------------------------
(* Requests of user-service *)

At(r, pc) == req[r] # Idle /\ req[r].pc = pc

Go(r, pc) == req' = [req EXCEPT ![r].pc = pc]

Done(r) == req' = [req EXCEPT ![r] = Idle]

\* No request is in course and auth-service is serving none that is gone.
Quiet == orphans = {} /\ \A s \in Requests : req[s] = Idle

\* A request is alone when nothing else was in course at any time since it
\* began.

Begin(r, op, pc, token, new) ==
    /\ req[r] = Idle
    /\ starts < MaxStarts
    /\ starts' = starts + 1
    /\ req' = [s \in Requests |->
                 IF s = r
                 THEN [ op |-> op, pc |-> pc, copy |-> user, got |-> NotRead,
                        pw |-> starts + 1, token |-> token, new |-> new,
                        alone |-> Quiet ]
                 ELSE IF req[s] = Idle THEN Idle
                 ELSE [req[s] EXCEPT !.alone = FALSE]]
    /\ seen' = [seen EXCEPT !.reopened = @ \/ op = "restore"]

\* What findOne finds: it leaves out the deleted.
Live == user # NoUser /\ ~user.gone

\* create: a pending user is invited again, a registered or a deleted one is
\* a conflict.
CreateFind(r) ==
    /\ Live => user.status = "pending"
    /\ ~user.gone
    /\ Begin(r, "create", IF user = NoUser THEN "insert" ELSE "invite", 0, 0)
    /\ UNCHANGED <<user, cred, tokens, issued, store, uploads, orphans, faults>>

\* The index on email lets one of two creations insert.
CreateSave(r) ==
    /\ At(r, "insert")
    /\ IF user = NoUser
       THEN user' = NewUser /\ Go(r, "invite")
       ELSE UNCHANGED user /\ Done(r)
    /\ UNCHANGED <<cred, tokens, issued, store, uploads, orphans, starts,
                   faults, seen>>

ResendFind(r) ==
    /\ Live
    /\ user.status = "pending"
    /\ Begin(r, "create", "invite", 0, 0)
    /\ UNCHANGED <<user, cred, tokens, issued, store, uploads, orphans, faults>>

\* generateAndEmitInvitation.
Invite(r) ==
    /\ At(r, "invite")
    /\ issued < MaxTokens
    /\ issued' = issued + 1
    /\ tokens' = tokens \cup {issued + 1}
    /\ Done(r)
    /\ UNCHANGED <<user, cred, store, uploads, orphans, starts, faults, seen>>

\* Mutant: the token is consumed as it is read.
CompleteTake(r, t) ==
    /\ t \in tokens
    /\ Live
    /\ Begin(r, "complete", "call", t, 0)
    /\ tokens' = tokens \ {t}
    /\ UNCHANGED <<user, cred, issued, store, uploads, orphans, faults>>

\* completeRegistration: the token is read, not consumed.
CompleteFind(r, t) ==
    /\ t \in tokens
    /\ Live
    /\ Begin(r, "complete", "call", t, 0)
    /\ UNCHANGED <<user, cred, tokens, issued, store, uploads, orphans, faults>>

ProvisionFind(r) ==
    /\ Live
    /\ Begin(r, "provision", "call", 0, 0)
    /\ UNCHANGED <<user, cred, tokens, issued, store, uploads, orphans, faults>>

\* Mutant: the user is deleted without disabling the credential.
RemoveEnabled(r) ==
    /\ Live
    /\ Begin(r, "remove", "write", 0, 0)
    /\ UNCHANGED <<user, cred, tokens, issued, store, uploads, orphans, faults>>

RemoveFind(r) ==
    /\ Live
    /\ Begin(r, "remove", "call", 0, 0)
    /\ UNCHANGED <<user, cred, tokens, issued, store, uploads, orphans, faults>>

\* restore reads nothing first: any existing user will do.
RestoreStart(r) ==
    /\ user # NoUser
    /\ Begin(r, "restore", "call", 0, 0)
    /\ UNCHANGED <<user, cred, tokens, issued, store, uploads, orphans, faults>>

\* disable and enable: only registered users.
SwitchFind(r, op) ==
    /\ Live
    /\ user.status = "active"
    /\ Begin(r, op, "call", 0, 0)
    /\ UNCHANGED <<user, cred, tokens, issued, store, uploads, orphans, faults>>

\* update, setSuperAdmin: what they change is not told apart here, what they
\* write back is.
EditFind(r) ==
    /\ Live
    /\ Begin(r, "edit", "write", 0, 0)
    /\ UNCHANGED <<user, cred, tokens, issued, store, uploads, orphans, faults>>

\* The controller reads the old avatar and stores the new one.
AvatarUpload(r) ==
    /\ Live
    /\ uploads < MaxAvatars
    /\ uploads' = uploads + 1
    /\ store' = store \cup {uploads + 1}
    /\ Begin(r, "avatar", "reread", user.avatar, uploads + 1)
    /\ UNCHANGED <<user, cred, tokens, issued, orphans, faults>>

\* uploadAvatar reads the row again.
AvatarFind(r) ==
    /\ At(r, "reread")
    /\ IF Live
       THEN req' = [req EXCEPT ![r].pc = "write", ![r].copy = user]
       ELSE Done(r)
    /\ UNCHANGED <<user, cred, tokens, issued, store, uploads, orphans, starts,
                   faults, seen>>

-----------------------------------------------------------------------------
(* Handlers of auth-service *)

\* Mutant: a credential that exists gets the new password.
WrittenAnew(call, got, pw) ==
    IF call = "provision"
    THEN [status |-> "ACTIVE", pw |-> pw]
    ELSE IF got = NoCred THEN cred
    ELSE [got EXCEPT !.status = IF call = "enable" THEN "ACTIVE" ELSE "DISABLED"]

\* What the handler of a call makes of the credential it read.
Written(call, got, pw) ==
    IF call = "provision"
    THEN IF got = NoCred THEN [status |-> "ACTIVE", pw |-> pw] ELSE cred
    ELSE IF got = NoCred THEN cred
    ELSE [got EXCEPT !.status = IF call = "enable" THEN "ACTIVE" ELSE "DISABLED"]

\* provisionCredentials refuses a disabled credential, and the index on email
\* a second one.
Refused(call, got) ==
    call = "provision" /\ IF got = NoCred THEN cred # NoCred
                                          ELSE got.status = "DISABLED"

Calling(r) == req[r] # Idle /\ req[r].pc \in {"call", "undo"}

CallOf(r) == IF req[r].pc = "call" THEN FirstCall[req[r].op]
                                   ELSE UndoCall[req[r].op]

AuthRead(r) ==
    /\ Calling(r)
    /\ req[r].got = NotRead
    /\ req' = [req EXCEPT ![r].got = cred]
    /\ UNCHANGED <<user, cred, tokens, issued, store, uploads, orphans, starts,
                   faults, seen>>

\* Where a request goes on when its first call has succeeded.
AfterCall(op) == CASE op = "disable"   -> "revoke"
                   [] op = "provision" -> "end"
                   [] OTHER            -> "write"

AuthSave(r) ==
    LET call == CallOf(r)
        got == req[r].got
        next == AfterCall(req[r].op) IN
    /\ Calling(r)
    /\ got # NotRead
    /\ IF Refused(call, got)
       THEN UNCHANGED cred /\ Done(r)
       ELSE /\ cred' = Written(call, got, req[r].pw)
            /\ IF req[r].pc = "undo" \/ next = "end"
               THEN Done(r)
               ELSE req' = [req EXCEPT ![r].pc = next, ![r].got = NotRead]
    /\ UNCHANGED <<user, tokens, issued, store, uploads, orphans, starts,
                   faults, seen>>

\* The handler of a caller that is gone.
OrphanRead(o) ==
    /\ o \in orphans
    /\ o.got = NotRead
    /\ orphans' = (orphans \ {o}) \cup {[o EXCEPT !.got = cred]}
    /\ UNCHANGED <<user, cred, tokens, issued, store, uploads, req, starts,
                   faults, seen>>

OrphanSave(o) ==
    /\ o \in orphans
    /\ o.got # NotRead
    /\ orphans' = orphans \ {o}
    /\ cred' = IF Refused(o.call, o.got) THEN cred ELSE Written(o.call, o.got, o.pw)
    /\ UNCHANGED <<user, tokens, issued, store, uploads, req, starts, faults,
                   seen>>

-----------------------------------------------------------------------------
(* Writes of user-service *)

\* disable: revokeAllTokens, outside the try (AuthSessions models it).
Revoke(r) ==
    /\ At(r, "revoke")
    /\ Go(r, "write")
    /\ UNCHANGED <<user, cred, tokens, issued, store, uploads, orphans, starts,
                   faults, seen>>

\* Mutant: the registration leaves isActive alone.
RowAfterInactive(r) ==
    LET copy == req[r].copy IN
    CASE req[r].op = "remove"   -> [user EXCEPT !.gone = TRUE]
      [] req[r].op = "restore"  -> [user EXCEPT !.gone = FALSE]
      [] req[r].op = "disable"  -> [copy EXCEPT !.on = FALSE]
      [] req[r].op = "enable"   -> [copy EXCEPT !.on = TRUE]
      [] req[r].op = "complete" -> [copy EXCEPT !.status = "active"]
      [] req[r].op = "avatar"   -> [copy EXCEPT !.avatar = req[r].new]
      [] OTHER                  -> copy

\* The users row after the write of request r: softRemove and restore set
\* deletedAt by id, the others save the entity they read.
RowAfter(r) ==
    LET copy == req[r].copy IN
    CASE req[r].op = "remove"   -> [user EXCEPT !.gone = TRUE]
      [] req[r].op = "restore"  -> [user EXCEPT !.gone = FALSE]
      [] req[r].op = "disable"  -> [copy EXCEPT !.on = FALSE]
      [] req[r].op = "enable"   -> [copy EXCEPT !.on = TRUE]
      [] req[r].op = "complete" -> [copy EXCEPT !.on = TRUE, !.status = "active"]
      [] req[r].op = "avatar"   -> [copy EXCEPT !.avatar = req[r].new]
      [] OTHER                  -> copy

Saves(r) == req[r].op \notin {"remove", "restore"}

\* The operations that decide whether the user may log in.
Deciding == {"complete", "disable", "enable"}

\* What the observation keeps of a write.  A registration, disabling or
\* enabling that was alone settles what was unsure before it.
Noted(r) ==
    LET op == req[r].op
        stale == Saves(r) /\ req[r].copy # user IN
    [seen EXCEPT
       !.clobbered = @ \/ stale,
       !.reopened = @ /\ op # "remove",
       !.removal = IF op # "remove" THEN @
                   ELSE IF req[r].alone THEN "alone" ELSE "crossed",
       !.sure = CASE op \in Deciding -> req[r].alone
                  [] op = "remove"   -> @ /\ req[r].alone
                  [] op = "restore"  -> /\ @
                                        /\ req[r].alone
                                        /\ user.status = "active" => user.on
                  [] OTHER           -> @ /\ ~stale]

UserWrite(r) ==
    /\ At(r, "write")
    /\ user' = RowAfter(r)
    /\ seen' = Noted(r)
    /\ IF req[r].op \in {"complete", "avatar"} THEN Go(r, "clean") ELSE Done(r)
    /\ UNCHANGED <<cred, tokens, issued, store, uploads, orphans, starts, faults>>

\* The token goes once the transaction has committed, the old avatar once
\* the new one is in the row.
Clean(r) ==
    /\ At(r, "clean")
    /\ tokens' = IF req[r].op = "complete" THEN tokens \ {req[r].token} ELSE tokens
    /\ store' = IF req[r].op = "avatar" THEN store \ {req[r].token} ELSE store
    /\ Done(r)
    /\ UNCHANGED <<user, cred, issued, uploads, orphans, starts, faults, seen>>

-----------------------------------------------------------------------------
(* Faults and time *)

Fault ==
    /\ faults < MaxFaults
    /\ faults' = faults + 1

\* The process dies, or the call it waits for fails or times out: nothing
\* catches either, except that a failed undo is swallowed, which is the same.
\* A call that was sent may be served all the same.
Die(r) ==
    /\ req[r] # Idle
    /\ Fault
    /\ Done(r)
    /\ seen' = [seen EXCEPT !.sure = @ /\ req[r].op \in {"create", "edit", "avatar"}]
    /\ \/ UNCHANGED orphans
       \/ /\ Calling(r)
          /\ orphans' = orphans \cup
               {[call |-> CallOf(r), got |-> req[r].got, pw |-> req[r].pw]}
    /\ UNCHANGED <<user, cred, tokens, issued, store, uploads, starts>>

\* The write fails, or commits and its answer is lost: the four operations
\* that have an undo call it.
WriteFails(r) ==
    /\ At(r, "write")
    /\ Fault
    /\ \/ UNCHANGED user /\ seen' = [seen EXCEPT !.sure = FALSE]
       \/ /\ user' = RowAfter(r)
          /\ seen' = [Noted(r) EXCEPT
                        !.sure = FALSE,
                        !.removal = IF req[r].op = "remove" THEN "undone" ELSE @]
    /\ IF req[r].op \in DOMAIN UndoCall THEN Go(r, "undo") ELSE Done(r)
    /\ UNCHANGED <<cred, tokens, issued, store, uploads, orphans, starts>>

\* An invitation lives 72 hours.
Expire(t) ==
    /\ t \in tokens
    /\ tokens' = tokens \ {t}
    /\ seen' = [seen EXCEPT !.expired = TRUE]
    /\ UNCHANGED <<user, cred, issued, store, uploads, req, orphans, starts,
                   faults>>

Next ==
    \/ \E r \in Requests :
         \/ CreateFind(r) \/ CreateSave(r) \/ ResendFind(r) \/ Invite(r)
         \/ \E t \in tokens : CompleteFind(r, t)
         \/ ProvisionFind(r) \/ RemoveFind(r) \/ RestoreStart(r)
         \/ SwitchFind(r, "disable") \/ SwitchFind(r, "enable")
         \/ EditFind(r) \/ AvatarUpload(r) \/ AvatarFind(r)
         \/ AuthRead(r) \/ AuthSave(r) \/ Revoke(r)
         \/ UserWrite(r) \/ Clean(r) \/ Die(r) \/ WriteFails(r)
    \/ \E o \in orphans : OrphanRead(o) \/ OrphanSave(o)
    \/ \E t \in tokens : Expire(t)

Spec == Init /\ [][Next]_vars

-----------------------------------------------------------------------------
(* What holds *)

\* A registered user has a credential, whatever dies between the two
\* databases: completeRegistration provisions before it activates.
RegisteredHasCredential == user.status = "active" => cred # NoCred

\* An invited user who has not registered holds a valid invitation, however
\* many attempts failed on the way, unless it expired or a save wrote the
\* registration back to what it had read.
InvitationOutlivesFailure ==
    (user.status = "pending" /\ issued > 0 /\ ~seen.expired /\ ~seen.clobbered)
      => tokens # {}

\* Registration survives what fails between the two databases and Redis: it
\* neither leaves a user who cannot log in nor one who cannot try again
\* (completeRegistration provisions, then activates, then deletes the token).
RegistrationSafe == RegisteredHasCredential /\ InvitationOutlivesFailure

\* No invitation and no provisioning changes the password of a credential
\* that exists, although several invitations can be outstanding and a used
\* one can be presented again before it is deleted.
InvitationCannotReset == [][cred # NoCred => cred'.pw = cred.pw]_cred

\* At rest, the credential of a user deleted by a removal that was alone is
\* not active, whatever died before it and whatever auth-service was asked
\* afterwards, unless a restoration has begun: the removal disables before
\* it deletes, and nothing else finds a deleted user.
DeletedCannotLogIn ==
    (Quiet /\ user.gone /\ seen.removal = "alone" /\ ~seen.reopened)
      => cred.status # "ACTIVE"

\* At rest the two databases agree on whether a registered user may log in
\* since the last registration, disabling or enabling that was alone, unless
\* another change of access crossed or died since, a save wrote back an old
\* row, or restore was asked for a disabled user.
AccountsAgree ==
    (Quiet /\ Live /\ user.status = "active" /\ seen.sure)
      => (user.on <=> cred.status = "ACTIVE")

\* The avatar a user's row names is in the object store, unless a save wrote
\* back the name of one that had been replaced.
AvatarStored == user.avatar # 0 => user.avatar \in store \/ seen.clobbered

-----------------------------------------------------------------------------
(* What does not hold *)

\* "Disable a user - blocks login without deleting the account"
\* (users.controller.ts:355): at rest, the credential of a disabled user is
\* not active.
DisabledCannotLogIn ==
    (Quiet /\ Live /\ user.status = "active" /\ ~user.on)
      => cred.status # "ACTIVE"
=============================================================================
