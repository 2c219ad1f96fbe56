---------------------------- MODULE AuthSessions ----------------------------
(***************************************************************************)
(* The sessions of one user in auth-service (auth.service.ts): login with  *)
(* its lockout, refresh token rotation, company context, logout, password  *)
(* reset, and what user-service asks of it when it disables, enables or    *)
(* demotes the user.                                                       *)
(*                                                                         *)
(* A handler is a chain of awaits on PostgreSQL (the credential row),      *)
(* Redis and two other services, and nothing locks the row or the keys     *)
(* between two of them.  Each action below is one stretch between awaits   *)
(* that other handlers can fall between.  repository.save writes back the  *)
(* whole entity as it was read.                                            *)
(*                                                                         *)
(* A token pair is its index in issued; refresh is the set of pairs whose  *)
(* key refresh:<user>:<jti> exists, access the pairs whose access token    *)
(* has not expired.  Signatures, kids, cookies and the CSRF header are     *)
(* abstracted: a request presents a pair that was issued.                  *)
(***************************************************************************)
EXTENDS Integers, Sequences, FiniteSets

CONSTANTS
    Requests,    \* slots for the requests being served at a time
    Companies,   \* the companies a session can be scoped to
    Global,      \* the scope of a session without a company
    Threshold,   \* failed logins after which the account is locked
    MaxStarts,   \* bound: requests ever started
    MaxResets    \* bound: password resets ever asked for

ASSUME AuthAssumption ==
    /\ Global \notin Companies
    /\ Threshold \in Nat \ {0}
    /\ MaxStarts \in Nat
    /\ MaxResets \in Nat

VARIABLES
    cred,      \* the row of table credentials
    refresh,   \* keys refresh:<user>:*
    access,    \* pairs whose access token is not expired
    saved,     \* key sa-global-rt:<user>, 0 when there is none
    marker,    \* key sa-revoked:<user>
    failures,  \* key login-failures:<email>
    resets,    \* keys pwd-reset:* of the user
    cache,     \* keys user-info-cache, user-companies-cache, <<>> when absent
    user,      \* what user-service answers about the user
    issued,    \* observation: every pair ever signed
    req,       \* the requests in course
    starts,    \* bound: requests started
    seen       \* observation: what the properties compare with

redis == <<refresh, saved, marker, failures, resets, cache>>
outside == <<user, access>>
vars == <<cred, redis, outside, issued, req, starts, seen>>

Row == [ status : {"ACTIVE", "DISABLED"},
         pw     : Nat,                             \* which password
         lock   : {"none", "running", "over"} ]    \* lockedUntil

Pair == [ scope  : Companies \cup {Global},
          super  : BOOLEAN,                        \* claim isSuperAdmin
          pw     : Nat,           \* the password the session began with
          spent  : SUBSET Nat,    \* the refresh tokens consumed for it
          from   : Nat,           \* the pair in the cookie of a switch
          stored : Nat,           \* revocations before it was stored
          late   : BOOLEAN ]      \* it or its parent outran a revocation

Idle == [op |-> "idle"]

NoRow == [status |-> "ACTIVE", pw |-> 0, lock |-> "none"]

TypeOK ==
    /\ cred \in Row
    /\ refresh \cup access \subseteq DOMAIN issued
    /\ saved \in {0} \cup DOMAIN issued
    /\ marker \in BOOLEAN
    /\ failures \in 0..Threshold
    /\ resets \in 0..MaxResets
    /\ cache.super \in {<<>>} \cup {<<b>> : b \in BOOLEAN}
    /\ cache.companies \in {<<>>} \cup {<<C>> : C \in SUBSET Companies}
    /\ user \in [super : BOOLEAN, companies : SUBSET Companies]
    /\ issued \in Seq(Pair)
    /\ \A r \in Requests : req[r] # Idle => req[r].row \in Row

Init ==
    /\ cred = [status |-> "ACTIVE", pw |-> 1, lock |-> "none"]
    /\ refresh = {}
    /\ access = {}
    /\ saved = 0
    /\ marker = FALSE
    /\ failures = 0
    /\ resets = 0
    /\ cache = [super |-> <<>>, companies |-> <<>>]
    /\ user \in [super : BOOLEAN, companies : {Companies}]
    /\ issued = <<>>
    /\ req = [r \in Requests |-> Idle]
    /\ starts = 0
    /\ seen = [ status |-> "ACTIVE",   \* what the last administrator wrote
                pw |-> 1,              \* the newest password
                waves |-> 0,           \* revocations so far
                demoted |-> "no",      \* the revocation of a demotion
                demotedAt |-> 0,       \* waves when that revocation ran
                clobbered |-> FALSE,   \* a save overwrote a newer row
                unrevoked |-> FALSE ]  \* a reset died before its revocation

-----------------------------------------------------------------------------
Start(r, fields) ==
    /\ req[r] = Idle
    /\ starts < MaxStarts
    /\ starts' = starts + 1
    /\ req' = [req EXCEPT ![r] = fields]

Go(r, fields) ==
    /\ req' = [req EXCEPT ![r] = fields]
    /\ UNCHANGED starts

At(r, op, pc) == req[r] # Idle /\ req[r].op = op /\ req[r].pc = pc

\* A session request: what it was authorised by, and when.
Session(op, pc, scope, pw, spent, late) ==
    [ op |-> op, pc |-> pc, row |-> NoRow, scope |-> scope, super |-> FALSE,
      pw |-> pw, spent |-> spent, auth |-> seen.waves, late |-> late, jti |-> 0 ]

\* repository.save(credential) by request r, whose copy of the row may be old.
Save(r, row) ==
    /\ cred' = row
    /\ seen' = [seen EXCEPT !.clobbered = @ \/ req[r].row # cred]

-----------------------------------------------------------------------------
(* login *)

LoginFind(r, typed) ==
    /\ Start(r, [Session("login", "compare", Global, typed, {}, FALSE)
                 EXCEPT !.row = cred])
    /\ UNCHANGED <<cred, redis, outside, issued, seen>>

\* ACCOUNT_LOCKED, or a password that is wrong for a disabled credential.
LoginRefused(r) ==
    /\ At(r, "login", "compare")
    /\ \/ req[r].row.status = "ACTIVE" /\ req[r].row.lock = "running"
       \/ req[r].row.status = "DISABLED"
    /\ Go(r, Idle)
    /\ UNCHANGED <<cred, redis, outside, issued, seen>>

\* recordFailedAttempt: count, and lock from the threshold on.
LoginFailed(r) ==
    LET count == failures + 1 IN
    /\ At(r, "login", "compare")
    /\ req[r].row.status = "ACTIVE"
    /\ req[r].row.lock # "running"
    /\ req[r].pw # req[r].row.pw
    /\ failures' = IF count > Threshold THEN Threshold ELSE count
    /\ IF count >= Threshold
       THEN Save(r, [req[r].row EXCEPT !.lock = "running"])
       ELSE UNCHANGED <<cred, seen>>
    /\ Go(r, Idle)
    /\ UNCHANGED <<refresh, saved, marker, resets, cache, outside, issued>>

\* clearLoginFailures.
LoginCleared(r) ==
    /\ At(r, "login", "compare")
    /\ req[r].row.status = "ACTIVE"
    /\ req[r].row.lock # "running"
    /\ req[r].pw = req[r].row.pw
    /\ failures' = 0
    /\ IF req[r].row.lock # "none"
       THEN Save(r, [req[r].row EXCEPT !.lock = "none"])
       ELSE UNCHANGED <<cred, seen>>
    /\ Go(r, [req[r] EXCEPT !.pc = "facts", !.row = NoRow])
    /\ UNCHANGED <<refresh, saved, marker, resets, cache, outside, issued>>

-----------------------------------------------------------------------------
(* refresh *)

\* Mutant: the token is looked up, not consumed.
RefreshGet(r, t) ==
    /\ t \in refresh
    /\ Start(r, Session("refresh", "find", issued[t].scope, issued[t].pw, {t},
                        issued[t].late))
    /\ UNCHANGED <<cred, redis, outside, issued, seen>>

\* GETDEL: of two requests with one token the second finds nothing.
RefreshTake(r, t) ==
    /\ t \in refresh
    /\ refresh' = refresh \ {t}
    /\ Start(r, Session("refresh", "find", issued[t].scope, issued[t].pw, {t},
                        issued[t].late))
    /\ UNCHANGED <<cred, saved, marker, failures, resets, cache, outside,
                   issued, seen>>

\* findOne: refresh and exitCompanyContext go on to user-service, a switch,
\* which has been there, to the new pair.
Find(r) ==
    /\ req[r] # Idle
    /\ req[r].op \in {"refresh", "exit", "switch"}
    /\ req[r].pc = "find"
    /\ cred.status = "ACTIVE"
    /\ Go(r, [req[r] EXCEPT !.pc = IF req[r].op = "switch" THEN "store" ELSE "facts"])
    /\ UNCHANGED <<cred, redis, outside, issued, seen>>

\* getCachedUserInfo, getCachedUserCompanies: the answer of user-service, or
\* when the call fails what an earlier one left in the cache.
Answers(truth, cached) == {<<truth>>} \cup ({cached} \ {<<>>})

\* Without a company a user who is no super admin must belong to one; with a
\* company to that one, which must be active.
InScope(scope, super, companies) ==
    IF scope = Global THEN super \/ companies # {} ELSE scope \in companies

\* login, refresh and exitCompanyContext ask user-service, an exit for the
\* companies only when it has to.
Facts(r) ==
    LET scope == req[r].scope IN
    /\ req[r] # Idle
    /\ req[r].op \in {"login", "refresh", "exit"}
    /\ req[r].pc = "facts"
    /\ \E super \in Answers(user.super, cache.super) :
       \E companies \in Answers(user.companies, cache.companies) :
         /\ InScope(scope, super[1], companies[1])
         /\ cache' = [ super |-> super,
                       companies |-> IF req[r].op = "exit" /\ super[1]
                                     THEN cache.companies ELSE companies ]
         /\ Go(r, [req[r] EXCEPT !.pc = "store",
                                 !.super = super[1] /\ scope = Global])
    /\ UNCHANGED <<cred, refresh, saved, marker, failures, resets, outside,
                   issued, seen>>

\* generateTokenPair.
Store(r) ==
    LET pair == [ scope |-> req[r].scope, super |-> req[r].super,
                  pw |-> req[r].pw, spent |-> req[r].spent,
                  from |-> IF req[r].op = "switch" THEN req[r].jti ELSE 0,
                  stored |-> seen.waves,
                  late |-> req[r].late \/ req[r].auth # seen.waves ]
        jti == Len(issued) + 1
    IN
    /\ req[r] # Idle
    /\ req[r].pc = "store"
    /\ issued' = Append(issued, pair)
    /\ refresh' = refresh \cup {jti}
    /\ access' = access \cup {jti}
    /\ Go(r, Idle)
    /\ UNCHANGED <<cred, saved, marker, failures, resets, cache, user, seen>>

-----------------------------------------------------------------------------
(* switch-company, exit-company *)

\* saveGlobalContext: SET NX of the jti in the cookie, whatever token it is.
Saved(jti) == IF saved = 0 THEN jti ELSE saved

\* The bearer is an access token; the refresh cookie is of the same browser,
\* or absent.
SwitchStart(r, a, company) ==
    /\ a \in access
    /\ \E cookie \in {0, a} :
         /\ saved' = IF cookie = 0 THEN saved ELSE Saved(cookie)
         /\ Start(r, [Session("switch", "facts", company, issued[a].pw, {},
                              issued[a].late)
                      EXCEPT !.auth = issued[a].stored, !.jti = cookie])
    /\ UNCHANGED <<cred, refresh, marker, failures, resets, cache, outside,
                   issued, seen>>

\* getUserCompanies, without the cache, and assertCompanyActive.
SwitchFacts(r) ==
    /\ At(r, "switch", "facts")
    /\ InScope(req[r].scope, FALSE, user.companies)
    /\ Go(r, [req[r] EXCEPT !.pc = "find"])
    /\ UNCHANGED <<cred, redis, outside, issued, seen>>

ExitTake(r, t) ==
    /\ t \in refresh
    /\ refresh' = refresh \ {t}
    /\ Start(r, Session("exit", "saved", Global, issued[t].pw, {t}, issued[t].late))
    /\ UNCHANGED <<cred, saved, marker, failures, resets, cache, outside,
                   issued, seen>>

\* The saved jti is taken; without one the answer is GLOBAL_SESSION_EXPIRED.
ExitSaved(r) ==
    /\ At(r, "exit", "saved")
    /\ saved # 0
    /\ saved' = 0
    /\ Go(r, [req[r] EXCEPT !.pc = "global", !.jti = saved])
    /\ UNCHANGED <<cred, refresh, marker, failures, resets, cache, outside,
                   issued, seen>>

\* The refresh token it names is taken too, if it still exists.
ExitGlobal(r) ==
    LET g == req[r].jti IN
    /\ At(r, "exit", "global")
    /\ g \in refresh
    /\ refresh' = refresh \ {g}
    /\ Go(r, [req[r] EXCEPT !.pc = "find", !.pw = issued[g].pw, !.spent = @ \cup {g},
                            !.auth = seen.waves, !.late = issued[g].late])
    /\ UNCHANGED <<cred, saved, marker, failures, resets, cache, outside,
                   issued, seen>>

-----------------------------------------------------------------------------
(* revokeAllRefreshTokens and what ends with it *)

\* SCAN and DEL of refresh:<user>:*, then the marker.  The keys stored while
\* the scan runs, which it may return or not, count as before or after it.
\* Key sa-global-rt is not touched.
Revoke ==
    /\ refresh' = {}
    /\ marker' = TRUE

\* logout: the refresh token names the user; it need not be valid any more.
Logout(r) ==
    /\ issued # <<>>
    /\ req[r] = Idle
    /\ starts < MaxStarts
    /\ starts' = starts + 1
    /\ Revoke
    /\ seen' = [seen EXCEPT !.waves = @ + 1]
    /\ UNCHANGED <<cred, saved, failures, resets, cache, outside, issued, req>>

\* forgotPassword; the mail may get lost, the key is there.
ForgotPassword ==
    /\ cred.status = "ACTIVE"
    /\ seen.pw + resets <= MaxResets
    /\ resets' = resets + 1
    /\ UNCHANGED <<cred, refresh, saved, marker, failures, cache, outside,
                   issued, req, starts, seen>>

\* resetPassword: GETDEL of the token ...
ResetTake(r) ==
    /\ resets > 0
    /\ resets' = resets - 1
    /\ Start(r, Session("reset", "find", Global, 0, {}, FALSE))
    /\ UNCHANGED <<cred, refresh, saved, marker, failures, cache, outside,
                   issued, seen>>

\* ... findOne ...
ResetFind(r) ==
    /\ At(r, "reset", "find")
    /\ Go(r, [req[r] EXCEPT !.pc = "save", !.row = cred])
    /\ UNCHANGED <<cred, redis, outside, issued, seen>>

ResetRow(r) == [req[r].row EXCEPT !.pw = seen.pw + 1]

\* Mutant: the sessions are not revoked after the save.
ResetSaveOnly(r) ==
    /\ At(r, "reset", "save")
    /\ req[r].row.status = "ACTIVE"
    /\ cred' = ResetRow(r)
    /\ seen' = [seen EXCEPT !.pw = @ + 1, !.clobbered = @ \/ req[r].row # cred]
    /\ Go(r, Idle)
    /\ UNCHANGED <<redis, outside, issued>>

\* Mutant: a reset activates the credential.
ResetSaveActivates(r) ==
    /\ At(r, "reset", "save")
    /\ cred' = [ResetRow(r) EXCEPT !.status = "ACTIVE"]
    /\ seen' = [seen EXCEPT !.pw = @ + 1, !.clobbered = @ \/ req[r].row # cred]
    /\ Go(r, [req[r] EXCEPT !.pc = "revoke", !.row = NoRow])
    /\ UNCHANGED <<redis, outside, issued>>

\* ... a check of the status and, once the new hash is computed, save ...
ResetSave(r) ==
    /\ At(r, "reset", "save")
    /\ req[r].row.status = "ACTIVE"
    /\ cred' = ResetRow(r)
    /\ seen' = [seen EXCEPT !.pw = @ + 1, !.clobbered = @ \/ req[r].row # cred]
    /\ Go(r, [req[r] EXCEPT !.pc = "revoke", !.row = NoRow])
    /\ UNCHANGED <<redis, outside, issued>>

\* ... and the revocation.
ResetRevoke(r) ==
    /\ At(r, "reset", "revoke")
    /\ Revoke
    /\ seen' = [seen EXCEPT !.waves = @ + 1]
    /\ Go(r, Idle)
    /\ UNCHANGED <<cred, saved, failures, resets, cache, outside, issued>>

-----------------------------------------------------------------------------
(* What user-service asks for *)

\* disableCredential, enableCredential.
AdminFind(r, status) ==
    /\ Start(r, [Session(status, "save", Global, 0, {}, FALSE) EXCEPT !.row = cred])
    /\ UNCHANGED <<cred, redis, outside, issued, seen>>

AdminSave(r) ==
    LET status == req[r].op IN
    /\ req[r] # Idle
    /\ status \in {"ACTIVE", "DISABLED"}
    /\ cred' = [req[r].row EXCEPT !.status = status]
    /\ seen' = [seen EXCEPT !.status = status,
                            !.clobbered = @ \/ req[r].row # cred]
    /\ Go(r, Idle)
    /\ UNCHANGED <<redis, outside, issued>>

\* setSuperAdmin(false) in user-service: its row first, then a call to
\* revoke-tokens that nobody awaits and whose failure is swallowed.
Demote ==
    /\ user.super
    /\ user' = [user EXCEPT !.super = FALSE]
    /\ seen' = [seen EXCEPT !.demoted = "pending"]
    /\ UNCHANGED <<cred, redis, access, issued, req, starts>>

DemoteRevoke ==
    /\ seen.demoted = "pending"
    /\ Revoke
    /\ seen' = [seen EXCEPT !.demoted = "revoked", !.waves = @ + 1,
                            !.demotedAt = seen.waves + 1]
    /\ UNCHANGED <<cred, saved, failures, resets, cache, outside, issued, req, starts>>

DemoteLost ==
    /\ seen.demoted = "pending"
    /\ seen' = [seen EXCEPT !.demoted = "lost"]
    /\ UNCHANGED <<cred, redis, outside, issued, req, starts>>

\* removeFromOrg in user-service, or the company deactivated in org-service.
LeaveCompany(company) ==
    /\ company \in user.companies
    /\ user' = [user EXCEPT !.companies = @ \ {company}]
    /\ UNCHANGED <<cred, redis, access, issued, req, starts, seen>>

-----------------------------------------------------------------------------
(* Time and failure *)

LockOver ==
    /\ cred.lock = "running"
    /\ cred' = [cred EXCEPT !.lock = "over"]
    /\ req' = [r \in Requests |->
                 IF req[r] = Idle THEN Idle
                 ELSE [req[r] EXCEPT !.row.lock = IF @ = "running" THEN "over" ELSE @]]
    /\ UNCHANGED <<redis, outside, issued, starts, seen>>

AccessExpires(t) ==
    /\ t \in access
    /\ access' = access \ {t}
    /\ UNCHANGED <<cred, redis, user, issued, req, starts, seen>>

\* Mutant: the marker is gone before the access tokens it is for.
MarkerExpiresEarly ==
    /\ marker
    /\ marker' = FALSE
    /\ UNCHANGED <<cred, refresh, saved, failures, resets, cache, outside,
                   issued, req, starts, seen>>

\* Its TTL is that of an access token: those stored before it are expired.
MarkerExpires ==
    /\ marker
    /\ \A t \in access : issued[t].stored = seen.waves
    /\ marker' = FALSE
    /\ UNCHANGED <<cred, refresh, saved, failures, resets, cache, outside,
                   issued, req, starts, seen>>

\* USER_DATA_CACHE_TTL_SECONDS.
CacheExpires ==
    /\ cache' = [super |-> <<>>, companies |-> <<>>]
    /\ cache' # cache
    /\ UNCHANGED <<cred, refresh, saved, marker, failures, resets, outside,
                   issued, req, starts, seen>>

\* An await throws, a check refuses, or the process dies: nothing that was
\* done is undone.
Fail(r) ==
    /\ req[r] # Idle
    /\ Go(r, Idle)
    /\ seen' = [seen EXCEPT !.unrevoked = @ \/ req[r].pc = "revoke"]
    /\ UNCHANGED <<cred, redis, outside, issued>>

Next ==
    \/ \E r \in Requests :
         \/ \E typed \in 0..seen.pw : LoginFind(r, typed)
         \/ LoginRefused(r) \/ LoginFailed(r) \/ LoginCleared(r)
         \/ \E t \in refresh : RefreshTake(r, t) \/ ExitTake(r, t)
         \/ \E a \in access, company \in Companies : SwitchStart(r, a, company)
         \/ SwitchFacts(r) \/ ExitSaved(r) \/ ExitGlobal(r)
         \/ Find(r) \/ Facts(r) \/ Store(r)
         \/ Logout(r)
         \/ ResetTake(r) \/ ResetFind(r) \/ ResetSave(r) \/ ResetRevoke(r)
         \/ \E status \in {"ACTIVE", "DISABLED"} : AdminFind(r, status)
         \/ AdminSave(r) \/ Fail(r)
    \/ ForgotPassword \/ Demote \/ DemoteRevoke \/ DemoteLost
    \/ \E company \in Companies : LeaveCompany(company)
    \/ LockOver \/ MarkerExpires \/ CacheExpires
    \/ \E t \in access : AccessExpires(t)

Spec == Init /\ [][Next]_vars

-----------------------------------------------------------------------------
(* Properties *)

\* A refresh token is exchanged once: no two pairs were issued for the same
\* one, however refresh and exit-company race (the GETDELs of refresh and
\* exitCompanyContext).
SpentOnce ==
    \A t, u \in DOMAIN issued :
        t # u => issued[t].spent \cap issued[u].spent = {}

\* After resetPassword every session began with the new password, except one
\* whose request outran a revocation (it, or the access token a switch came
\* with, was checked before the revocation and stored after it), one that a
\* reset in course is about to revoke, and those left by a reset that died
\* between its save and its revocation.
SessionsFollowPassword ==
    seen.clobbered \/ seen.unrevoked \/
    \A t \in refresh :
        \/ issued[t].pw = cred.pw
        \/ issued[t].late
        \/ \E r \in Requests : At(r, "reset", "revoke")

\* The row says what the last administrator and the last reset wrote, unless
\* a save put back a copy older than a change of another handler.
CredentialKept ==
    seen.clobbered \/ (cred.status = seen.status /\ cred.pw = seen.pw)

\* JwtGuard lets in the super-admin claim of a pair.
ClaimAccepted(t) == t \in access /\ issued[t].super /\ ~marker

\* A super admin who was demoted passes the guard only while the revocation
\* is on its way or was lost, or with a pair stored after the revocation by a
\* request that had the older answer of user-service, its own or the cached.
DemotedClaimRefused ==
    \A t \in DOMAIN issued :
        ClaimAccepted(t) /\ ~user.super =>
            \/ seen.demoted # "revoked"
            \/ issued[t].stored >= seen.demotedAt

\* saveGlobalContext "Persists the global refresh token so exit-company can
\* restore it later": of a company session opened from a global one that is
\* still good, that one is saved.
GlobalContextSaved ==
    \A t \in refresh :
        LET g == issued[t].from IN
        g \in refresh /\ issued[g].scope = Global => saved = g

\* The guard refuses a super admin whose claim has "been explicitly revoked
\* (e.g. after setSuperAdmin(false))", not one who logged in after the last
\* revocation and is still super admin.
SuperAdminServed ==
    \A t \in access :
        issued[t].super /\ user.super /\ issued[t].stored = seen.waves =>
            ClaimAccepted(t)
=============================================================================
