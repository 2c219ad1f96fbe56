------------------------ MODULE AuthSessionsProofs -------------------------
(***************************************************************************)
(* AuthSessions for any number of requests, companies and sessions: what a *)
(* refresh token, a claim and a password are worth through every crossing  *)
(* of the handlers of auth.service.ts.                                     *)
(***************************************************************************)
EXTENDS AuthSessions, SequenceTheorems, TLAPS

-----------------------------------------------------------------------------
(* Types *)

Scopes == Companies \cup {Global}

Ops == {"login", "refresh", "switch", "exit", "reset", "ACTIVE", "DISABLED"}

Pcs == {"compare", "facts", "find", "store", "saved", "global", "save", "revoke"}

\* A request in course and what it carries.
Request ==
    [ op : Ops, pc : Pcs, row : Row, scope : Scopes, super : BOOLEAN,
      pw : Nat, spent : SUBSET Nat, auth : Nat, late : BOOLEAN, jti : Nat ]

Seen ==
    [ status : {"ACTIVE", "DISABLED"}, pw : Nat \ {0}, waves : Nat,
      demoted : {"no", "pending", "revoked", "lost"}, demotedAt : Nat,
      clobbered : BOOLEAN, unrevoked : BOOLEAN ]

RequestsTyped == req \in [Requests -> Request \cup {Idle}]

KeysTyped ==
    /\ issued \in Seq(Pair)
    /\ refresh \cup access \subseteq DOMAIN issued
    /\ saved \in {0} \cup DOMAIN issued

RowTyped == cred \in Row /\ seen \in Seen

CacheTyped ==
    /\ cache.super \in {<<>>} \cup {<<b>> : b \in BOOLEAN}
    /\ cache.companies \in {<<>>} \cup {<<C>> : C \in SUBSET Companies}
    /\ user \in [super : BOOLEAN, companies : SUBSET Companies]

CountersTyped == marker \in BOOLEAN /\ failures \in 0..Threshold /\ resets \in 0..MaxResets

Typed == RequestsTyped /\ KeysTyped /\ RowTyped /\ CacheTyped /\ CountersTyped

Busy(r) == req[r] # Idle

LEMMA BusyType ==
    ASSUME RequestsTyped, NEW r \in Requests, Busy(r)
    PROVE  req[r] \in Request
  BY DEF RequestsTyped, Busy

LEMMA IdleNotRequest == \A x \in Request : x # Idle
  <1>1. \A x \in Request : x.op # "idle"
    BY DEF Request, Ops
  <1>. QED
    BY <1>1 DEF Idle

LEMMA SessionType ==
    ASSUME RowTyped, NEW op \in Ops, NEW pc \in Pcs, NEW scope \in Scopes,
           NEW pw \in Nat, NEW spent \in SUBSET Nat, NEW late \in BOOLEAN
    PROVE  Session(op, pc, scope, pw, spent, late) \in Request
  BY DEF RowTyped, Session, Request, Seen, NoRow, Row

LEMMA PairType ==
    ASSUME KeysTyped, NEW t \in DOMAIN issued
    PROVE  issued[t] \in Pair /\ t \in Nat
  <1>1. issued \in Seq(Pair)
    BY DEF KeysTyped
  <1>2. Len(issued) \in Nat /\ DOMAIN issued = 1..Len(issued)
    BY <1>1, LenProperties
  <1>. QED
    BY <1>1, <1>2, ElementOfSeq

\* What a handler does to the slots: one of them gets a new content.
Puts(r, x) == req' = [req EXCEPT ![r] = x]

LEMMA PutsType ==
    ASSUME RequestsTyped, NEW r \in Requests, NEW x \in Request \cup {Idle}, Puts(r, x)
    PROVE  RequestsTyped'
  BY DEF RequestsTyped, Puts

LEMMA PutsSlots ==
    ASSUME RequestsTyped, NEW r \in Requests, NEW x, Puts(r, x)
    PROVE  req'[r] = x /\ \A q \in Requests \ {r} : req'[q] = req[q]
  BY DEF RequestsTyped, Puts

LEMMA SavedType ==
    ASSUME KeysTyped
    PROVE  saved \in Nat
  <1>1. issued \in Seq(Pair)
    BY DEF KeysTyped
  <1>2. Len(issued) \in Nat /\ DOMAIN issued = 1..Len(issued)
    BY <1>1, LenProperties
  <1>. QED
    BY <1>2 DEF KeysTyped

LEMMA RequestsStep == Typed /\ [Next]_vars => RequestsTyped'
  <1>. SUFFICES ASSUME Typed, [Next]_vars PROVE RequestsTyped'
    OBVIOUS
  <1>0. RequestsTyped /\ KeysTyped /\ RowTyped /\ CacheTyped /\ CountersTyped
    BY DEF Typed
  <1>1. ASSUME NEW r \in Requests, NEW typed \in 0..seen.pw,
               LoginFind(r, typed)
        PROVE  RequestsTyped'
    <2>0. typed \in Nat
      BY <1>0 DEF RowTyped, Seen
    <2>1. Session("login", "compare", Global, typed, {}, FALSE) \in Request
      BY <1>0, <2>0, SessionType DEF Ops, Pcs, Scopes
    <2>2. [Session("login", "compare", Global, typed, {}, FALSE) EXCEPT !.row = cred] \in Request
      BY <1>0, <2>1 DEF Ops, Pcs, Request, RowTyped
    <2>. QED
      BY <1>0, <1>1, <2>2, PutsType DEF LoginFind, Start, Puts
  <1>2. ASSUME NEW r \in Requests, LoginRefused(r) PROVE RequestsTyped'
    BY <1>0, <1>2, PutsType DEF LoginRefused, Go, Puts
  <1>3. ASSUME NEW r \in Requests, LoginFailed(r) PROVE RequestsTyped'
    BY <1>0, <1>3, PutsType DEF LoginFailed, Go, Puts
  <1>4. ASSUME NEW r \in Requests, LoginCleared(r) PROVE RequestsTyped'
    <2>1. req[r] \in Request
      BY <1>0, <1>4, BusyType DEF LoginCleared, At, Busy
    <2>2. [req[r] EXCEPT !.pc = "facts", !.row = NoRow] \in Request
      BY <1>0, <2>1 DEF Ops, Pcs, Request, RowTyped, Row, NoRow, KeysTyped
    <2>. QED
      BY <1>0, <1>4, <2>2, PutsType DEF LoginCleared, Go, Puts
  <1>5. ASSUME NEW r \in Requests, NEW t \in refresh, RefreshTake(r, t) PROVE RequestsTyped'
    <2>1. issued[t] \in Pair /\ t \in Nat
      BY <1>0, PairType DEF KeysTyped
    <2>2. Session("refresh", "find", issued[t].scope, issued[t].pw, {t}, issued[t].late) \in Request
      BY <1>0, <2>1, SessionType DEF Ops, Pcs, Scopes, Pair
    <2>. QED
      BY <1>0, <1>5, <2>2, PutsType DEF RefreshTake, Start, Puts
  <1>6. ASSUME NEW r \in Requests, NEW t \in refresh, ExitTake(r, t) PROVE RequestsTyped'
    <2>1. issued[t] \in Pair /\ t \in Nat
      BY <1>0, PairType DEF KeysTyped
    <2>2. Session("exit", "saved", Global, issued[t].pw, {t}, issued[t].late) \in Request
      BY <1>0, <2>1, SessionType DEF Ops, Pcs, Scopes, Pair
    <2>. QED
      BY <1>0, <1>6, <2>2, PutsType DEF ExitTake, Start, Puts
  <1>7. ASSUME NEW r \in Requests, NEW a \in access, NEW company \in Companies,
               SwitchStart(r, a, company)
        PROVE  RequestsTyped'
    <2>1. issued[a] \in Pair /\ a \in Nat
      BY <1>0, PairType DEF KeysTyped
    <2>2. Session("switch", "facts", company, issued[a].pw, {}, issued[a].late) \in Request
      BY <1>0, <2>1, SessionType DEF Ops, Pcs, Scopes, Pair
    <2>3. issued[a].stored \in Nat
      BY <2>1 DEF Pair
    <2>4. ASSUME NEW cookie \in Nat
          PROVE  [Session("switch", "facts", company, issued[a].pw, {}, issued[a].late)
                    EXCEPT !.auth = issued[a].stored, !.jti = cookie] \in Request
      BY <2>2, <2>3 DEF Request
    <2>5. PICK cookie \in {0, a} :
            Puts(r, [Session("switch", "facts", company, issued[a].pw, {}, issued[a].late)
                       EXCEPT !.auth = issued[a].stored, !.jti = cookie])
      BY <1>7 DEF SwitchStart, Start, Puts
    <2>. QED
      BY <1>0, <2>1, <2>4, <2>5, PutsType
  <1>8. ASSUME NEW r \in Requests, SwitchFacts(r) PROVE RequestsTyped'
    <2>1. req[r] \in Request
      BY <1>0, <1>8, BusyType DEF SwitchFacts, At, Busy
    <2>2. [req[r] EXCEPT !.pc = "find"] \in Request
      BY <1>0, <2>1 DEF Ops, Pcs, Request, RowTyped, Row, NoRow, KeysTyped
    <2>. QED
      BY <1>0, <1>8, <2>2, PutsType DEF SwitchFacts, Go, Puts
  <1>9. ASSUME NEW r \in Requests, ExitSaved(r) PROVE RequestsTyped'
    <2>1. req[r] \in Request
      BY <1>0, <1>9, BusyType DEF ExitSaved, At, Busy
    <2>2. [req[r] EXCEPT !.pc = "global", !.jti = saved] \in Request
      BY <1>0, <2>1, SavedType DEF Ops, Pcs, Request
    <2>. QED
      BY <1>0, <1>9, <2>2, PutsType DEF ExitSaved, Go, Puts
  <1>10. ASSUME NEW r \in Requests, ExitGlobal(r) PROVE RequestsTyped'
    <2>1. req[r] \in Request /\ req[r].jti \in refresh
      BY <1>0, <1>10, BusyType DEF ExitGlobal, At, Busy
    <2>2. issued[req[r].jti] \in Pair /\ req[r].jti \in Nat
      BY <1>0, <2>1, PairType DEF KeysTyped
    <2>3. [req[r] EXCEPT !.pc = "find", !.pw = issued[req[r].jti].pw,
                         !.spent = @ \cup {req[r].jti}, !.auth = seen.waves,
                         !.late = issued[req[r].jti].late] \in Request
      BY <1>0, <2>1, <2>2 DEF Ops, Pcs, Request, Pair, RowTyped, Seen
    <2>. QED
      BY <1>0, <1>10, <2>3, PutsType DEF ExitGlobal, Go, Puts
  <1>11. ASSUME NEW r \in Requests, Find(r) PROVE RequestsTyped'
    <2>1. req[r] \in Request
      BY <1>0, <1>11, BusyType DEF Find, At, Busy
    <2>2. [req[r] EXCEPT !.pc = IF req[r].op = "switch" THEN "store" ELSE "facts"] \in Request
      BY <1>0, <2>1 DEF Ops, Pcs, Request, RowTyped, Row, NoRow, KeysTyped
    <2>. QED
      BY <1>0, <1>11, <2>2, PutsType DEF Find, Go, Puts
  <1>12. ASSUME NEW r \in Requests, Facts(r) PROVE RequestsTyped'
    <2>1. req[r] \in Request
      BY <1>0, <1>12, BusyType DEF Facts, Busy
    <2>2. ASSUME NEW b \in BOOLEAN
          PROVE  [req[r] EXCEPT !.pc = "store", !.super = b /\ req[r].scope = Global] \in Request
      BY <1>0, <2>1 DEF Ops, Pcs, Request
    <2>3. \A super \in Answers(user.super, cache.super) : super[1] \in BOOLEAN
      BY <1>0 DEF CacheTyped, Answers
    <2>. QED
      BY <1>0, <1>12, <2>2, <2>3, PutsType DEF Facts, Go, Puts
  <1>13. ASSUME NEW r \in Requests, Store(r) PROVE RequestsTyped'
    BY <1>0, <1>13, PutsType DEF Store, Go, Puts
  <1>14. ASSUME NEW r \in Requests, Logout(r) PROVE RequestsTyped'
    BY <1>0, <1>14 DEF Logout, RequestsTyped
  <1>15. ASSUME NEW r \in Requests, ResetTake(r) PROVE RequestsTyped'
    <2>1. Session("reset", "find", Global, 0, {}, FALSE) \in Request
      BY <1>0, SessionType DEF Ops, Pcs, Scopes
    <2>. QED
      BY <1>0, <1>15, <2>1, PutsType DEF ResetTake, Start, Puts
  <1>16. ASSUME NEW r \in Requests, ResetFind(r) PROVE RequestsTyped'
    <2>1. req[r] \in Request
      BY <1>0, <1>16, BusyType DEF ResetFind, At, Busy
    <2>2. [req[r] EXCEPT !.pc = "save", !.row = cred] \in Request
      BY <1>0, <2>1 DEF Ops, Pcs, Request, RowTyped, Row, NoRow, KeysTyped
    <2>. QED
      BY <1>0, <1>16, <2>2, PutsType DEF ResetFind, Go, Puts
  <1>17. ASSUME NEW r \in Requests, ResetSave(r) PROVE RequestsTyped'
    <2>1. req[r] \in Request
      BY <1>0, <1>17, BusyType DEF ResetSave, At, Busy
    <2>2. [req[r] EXCEPT !.pc = "revoke", !.row = NoRow] \in Request
      BY <1>0, <2>1 DEF Ops, Pcs, Request, RowTyped, Row, NoRow, KeysTyped
    <2>. QED
      BY <1>0, <1>17, <2>2, PutsType DEF ResetSave, Go, Puts
  <1>18. ASSUME NEW r \in Requests, ResetRevoke(r) PROVE RequestsTyped'
    BY <1>0, <1>18, PutsType DEF ResetRevoke, Go, Puts
  <1>19. ASSUME NEW r \in Requests, NEW status \in {"ACTIVE", "DISABLED"},
                AdminFind(r, status)
         PROVE  RequestsTyped'
    <2>1. Session(status, "save", Global, 0, {}, FALSE) \in Request
      BY <1>0, SessionType DEF Ops, Pcs, Scopes
    <2>2. [Session(status, "save", Global, 0, {}, FALSE) EXCEPT !.row = cred] \in Request
      BY <1>0, <2>1 DEF Ops, Pcs, Request, RowTyped
    <2>. QED
      BY <1>0, <1>19, <2>2, PutsType DEF AdminFind, Start, Puts
  <1>20. ASSUME NEW r \in Requests, AdminSave(r) PROVE RequestsTyped'
    BY <1>0, <1>20, PutsType DEF AdminSave, Go, Puts
  <1>21. ASSUME NEW r \in Requests, Fail(r) PROVE RequestsTyped'
    BY <1>0, <1>21, PutsType DEF Fail, Go, Puts
  <1>22. CASE ForgotPassword
    BY <1>0, <1>22 DEF ForgotPassword, RequestsTyped
  <1>23. CASE Demote
    BY <1>0, <1>23 DEF Demote, RequestsTyped
  <1>24. CASE DemoteRevoke
    BY <1>0, <1>24 DEF DemoteRevoke, RequestsTyped
  <1>25. CASE DemoteLost
    BY <1>0, <1>25 DEF DemoteLost, RequestsTyped
  <1>26. ASSUME NEW company \in Companies, LeaveCompany(company) PROVE RequestsTyped'
    BY <1>0, <1>26 DEF LeaveCompany, RequestsTyped
  <1>27. CASE LockOver
    <2>1. \A q \in Requests : req'[q] \in Request \cup {Idle}
      <3>. SUFFICES ASSUME NEW q \in Requests PROVE req'[q] \in Request \cup {Idle}
        OBVIOUS
      <3>1. CASE Busy(q)
        <4>1. [req[q] EXCEPT !.row.lock = IF @ = "running" THEN "over" ELSE @] \in Request
          BY <1>0, <3>1, BusyType DEF Ops, Pcs, Request, Row
        <4>. QED
          BY <1>0, <1>27, <3>1, <4>1 DEF LockOver, Busy
      <3>2. CASE ~Busy(q)
        BY <1>0, <1>27, <3>2 DEF LockOver, Busy
      <3>. QED
        BY <1>0, <3>1, <3>2
    <2>. QED
      BY <1>0, <1>27, <2>1 DEF LockOver, RequestsTyped
  <1>28. CASE MarkerExpires
    BY <1>0, <1>28 DEF MarkerExpires, RequestsTyped
  <1>29. CASE CacheExpires
    BY <1>0, <1>29 DEF CacheExpires, RequestsTyped
  <1>30. ASSUME NEW t \in access, AccessExpires(t) PROVE RequestsTyped'
    BY <1>0, <1>30 DEF AccessExpires, RequestsTyped
  <1>31. CASE UNCHANGED vars
    BY <1>0, <1>31 DEF vars, RequestsTyped
  <1>. QED
    BY <1>0, <1>1, <1>2, <1>3, <1>4, <1>5, <1>6, <1>7, <1>8, <1>9, <1>10, <1>11, <1>12,
       <1>13, <1>14, <1>15, <1>16, <1>17, <1>18, <1>19, <1>20, <1>21, <1>22, <1>23, <1>24,
       <1>25, <1>26, <1>27, <1>28, <1>29, <1>30, <1>31 DEF Next

LEMMA KeysShrink ==
    ASSUME KeysTyped, issued' = issued, saved' = saved \/ saved' = 0,
           refresh' \subseteq refresh, access' \subseteq access
    PROVE  KeysTyped'
  BY DEF KeysTyped

LEMMA KeysStep == Typed /\ [Next]_vars => KeysTyped'
  <1>. SUFFICES ASSUME Typed, [Next]_vars PROVE KeysTyped'
    OBVIOUS
  <1>0. RequestsTyped /\ KeysTyped /\ RowTyped /\ CacheTyped /\ CountersTyped
    BY DEF Typed
  <1>1. ASSUME NEW r \in Requests, NEW a \in access, NEW company \in Companies,
               SwitchStart(r, a, company)
        PROVE  KeysTyped'
    <2>1. a \in DOMAIN issued
      BY <1>0 DEF KeysTyped
    <2>2. saved' \in {saved, a, 0} /\ UNCHANGED <<issued, refresh, access>>
      BY <1>1 DEF SwitchStart, Saved, outside
    <2>. QED
      BY <1>0, <2>1, <2>2 DEF KeysTyped
  <1>2. ASSUME NEW r \in Requests, Store(r) PROVE KeysTyped'
    <2>1. PICK pair \in Pair : issued' = Append(issued, pair)
      <3>1. req[r] \in Request
        BY <1>0, <1>2, BusyType DEF Store, Busy
      <3>2. seen.waves \in Nat
        BY <1>0 DEF RowTyped, Seen
      <3>3. [ scope |-> req[r].scope, super |-> req[r].super, pw |-> req[r].pw,
              spent |-> req[r].spent,
              from |-> IF req[r].op = "switch" THEN req[r].jti ELSE 0,
              stored |-> seen.waves,
              late |-> req[r].late \/ req[r].auth # seen.waves ] \in Pair
        BY <3>1, <3>2 DEF Request, Pair, Scopes
      <3>. QED
        BY <1>2, <3>3 DEF Store
    <2>2. /\ issued' \in Seq(Pair)
          /\ Len(issued') = Len(issued) + 1
      BY <1>0, <2>1, AppendProperties DEF KeysTyped
    <2>3. DOMAIN issued' = DOMAIN issued \cup {Len(issued) + 1}
      BY <1>0, <2>2, LenProperties DEF KeysTyped
    <2>. QED
      BY <1>0, <1>2, <2>2, <2>3 DEF Store, KeysTyped
  <1>3. ASSUME NEW r \in Requests,
               \/ LoginRefused(r) \/ LoginFailed(r) \/ LoginCleared(r)
               \/ SwitchFacts(r) \/ ExitSaved(r) \/ ExitGlobal(r) \/ Find(r)
               \/ Facts(r) \/ Logout(r) \/ ResetTake(r) \/ ResetFind(r)
               \/ ResetSave(r) \/ ResetRevoke(r) \/ AdminSave(r) \/ Fail(r)
        PROVE  KeysTyped'
    BY <1>3, <1>0, KeysShrink DEF LoginRefused, LoginFailed, LoginCleared,
       SwitchFacts, ExitSaved, ExitGlobal, Find, Facts, Logout, ResetTake,
       ResetFind, ResetSave, ResetRevoke, AdminSave, Fail, Start, Go, Revoke,
       redis, outside
  <1>4. ASSUME NEW r \in Requests, NEW typed \in 0..seen.pw, LoginFind(r, typed)
        PROVE  KeysTyped'
    BY <1>4, <1>0, KeysShrink DEF LoginFind, Start, Go, Revoke, redis, outside
  <1>5. ASSUME NEW r \in Requests, NEW t \in refresh, RefreshTake(r, t)
        PROVE  KeysTyped'
    BY <1>5, <1>0, KeysShrink DEF RefreshTake, Start, Go, Revoke, redis,
       outside
  <1>6. ASSUME NEW r \in Requests, NEW t \in refresh, ExitTake(r, t)
        PROVE  KeysTyped'
    BY <1>6, <1>0, KeysShrink DEF ExitTake, Start, Go, Revoke, redis, outside
  <1>7. ASSUME NEW r \in Requests, NEW status \in {"ACTIVE", "DISABLED"}, AdminFind(r, status)
        PROVE  KeysTyped'
    BY <1>7, <1>0, KeysShrink DEF AdminFind, Start, Go, Revoke, redis, outside
  <1>8. ASSUME NEW company \in Companies, LeaveCompany(company)
        PROVE  KeysTyped'
    BY <1>8, <1>0, KeysShrink DEF LeaveCompany, Start, Go, Revoke, redis,
       outside
  <1>9. ASSUME NEW t \in access, AccessExpires(t) PROVE KeysTyped'
    BY <1>9, <1>0, KeysShrink DEF AccessExpires, Start, Go, Revoke, redis,
       outside
  <1>10. CASE \/ ForgotPassword \/ Demote \/ DemoteRevoke \/ DemoteLost
            \/ LockOver \/ MarkerExpires \/ CacheExpires \/ UNCHANGED vars
    BY <1>10, <1>0, KeysShrink DEF ForgotPassword, Demote, DemoteRevoke,
       DemoteLost, LockOver, MarkerExpires, CacheExpires, vars, Start, Go,
       Revoke, redis, outside
  <1>. QED
    BY <1>1, <1>2, <1>3, <1>4, <1>5, <1>6, <1>7, <1>8, <1>9, <1>10 DEF Next

\* What the two ends of a login do to the row: its lock, or nothing.
LEMMA LoginRow ==
    ASSUME RequestsTyped, RowTyped, NEW r \in Requests, LoginFailed(r) \/ LoginCleared(r)
    PROVE  /\ RowTyped'
           /\ seen'.clobbered \/ (cred'.status = cred.status /\ cred'.pw = cred.pw)
           /\ seen.clobbered => seen'.clobbered
           /\ seen'.status = seen.status /\ seen'.pw = seen.pw /\ seen'.waves = seen.waves
           /\ seen'.unrevoked = seen.unrevoked
           /\ seen'.demoted = seen.demoted /\ seen'.demotedAt = seen.demotedAt
  <1>1. req[r] \in Request
    BY BusyType DEF LoginFailed, LoginCleared, At, Busy
  <1>2. ASSUME NEW lock \in {"none", "running"}, Save(r, [req[r].row EXCEPT !.lock = lock])
        PROVE  /\ cred' \in Row /\ seen' \in Seen
               /\ seen'.clobbered \/ (cred'.status = cred.status /\ cred'.pw = cred.pw)
               /\ seen' = [seen EXCEPT !.clobbered = seen'.clobbered]
               /\ seen.clobbered => seen'.clobbered
    <2>1. req[r].row \in Row
      BY <1>1 DEF Request
    <2>2. cred' = [req[r].row EXCEPT !.lock = lock] /\ cred' \in Row
      BY <1>2, <2>1 DEF Save, Row
    <2>3. /\ seen' \in Seen /\ seen'.clobbered = (seen.clobbered \/ req[r].row # cred)
          /\ seen' = [seen EXCEPT !.clobbered = seen'.clobbered]
      BY <1>2 DEF Save, RowTyped, Seen
    <2>. QED
      BY <2>1, <2>2, <2>3 DEF Row
  <1>3. CASE UNCHANGED <<cred, seen>>
    BY <1>3 DEF RowTyped
  <1>4. CASE \E lock \in {"none", "running"} : Save(r, [req[r].row EXCEPT !.lock = lock])
    BY <1>2, <1>4 DEF RowTyped, Seen
  <1>. QED
    BY <1>3, <1>4 DEF LoginFailed, LoginCleared

LEMMA RowStep == Typed /\ [Next]_vars => RowTyped'
  <1>. SUFFICES ASSUME Typed, [Next]_vars PROVE RowTyped'
    OBVIOUS
  <1>0. RequestsTyped /\ KeysTyped /\ RowTyped /\ CacheTyped /\ CountersTyped
    BY DEF Typed
  <1>1. ASSUME NEW r \in Requests, LoginFailed(r) PROVE RowTyped'
    BY <1>0, <1>1, LoginRow
  <1>2. ASSUME NEW r \in Requests, LoginCleared(r) PROVE RowTyped'
    BY <1>0, <1>2, LoginRow
  <1>3. ASSUME NEW r \in Requests, Logout(r) PROVE RowTyped'
    BY <1>0, <1>3 DEF Logout, RowTyped, Seen
  <1>4. ASSUME NEW r \in Requests, ResetSave(r) PROVE RowTyped'
    <2>1. req[r] \in Request
      BY <1>0, <1>4, BusyType DEF ResetSave, At, Busy
    <2>2. req[r].row \in Row /\ seen.pw + 1 \in Nat \ {0}
      BY <1>0, <2>1 DEF Request, RowTyped, Seen
    <2>3. ResetRow(r) \in Row
      BY <2>2 DEF ResetRow, Row
    <2>. QED
      BY <1>0, <1>4, <2>2, <2>3 DEF ResetSave, RowTyped, Seen
  <1>5. ASSUME NEW r \in Requests, ResetRevoke(r) PROVE RowTyped'
    BY <1>0, <1>5 DEF ResetRevoke, RowTyped, Seen
  <1>6. ASSUME NEW r \in Requests, AdminSave(r) PROVE RowTyped'
    <2>1. req[r] \in Request
      BY <1>0, <1>6, BusyType DEF AdminSave, Busy
    <2>. QED
      BY <1>0, <1>6, <2>1 DEF AdminSave, RowTyped, Row, Request, Seen
  <1>7. ASSUME NEW r \in Requests, Fail(r) PROVE RowTyped'
    BY <1>0, <1>7 DEF Fail, RowTyped, Seen
  <1>8. CASE Demote
    BY <1>0, <1>8 DEF Demote, RowTyped, Seen
  <1>9. CASE DemoteRevoke
    <2>1. seen.waves + 1 \in Nat
      BY <1>0 DEF RowTyped, Seen
    <2>. QED
      BY <1>0, <1>9, <2>1 DEF DemoteRevoke, RowTyped, Seen
  <1>10. CASE DemoteLost
    BY <1>0, <1>10 DEF DemoteLost, RowTyped, Seen
  <1>11. CASE LockOver
    BY <1>0, <1>11 DEF LockOver, RowTyped, Row
  <1>12. ASSUME NEW r \in Requests,
               \/ LoginRefused(r) \/ SwitchFacts(r) \/ ExitSaved(r)
               \/ ExitGlobal(r) \/ Find(r) \/ Facts(r) \/ Store(r)
               \/ ResetTake(r) \/ ResetFind(r)
        PROVE  RowTyped'
    BY <1>12, <1>0 DEF LoginRefused, SwitchFacts, ExitSaved, ExitGlobal, Find,
       Facts, Store, ResetTake, ResetFind, RowTyped
  <1>13. ASSUME NEW r \in Requests, NEW typed \in 0..seen.pw, LoginFind(r, typed)
        PROVE  RowTyped'
    BY <1>13, <1>0 DEF LoginFind, RowTyped
  <1>14. ASSUME NEW r \in Requests, NEW t \in refresh, RefreshTake(r, t)
        PROVE  RowTyped'
    BY <1>14, <1>0 DEF RefreshTake, RowTyped
  <1>15. ASSUME NEW r \in Requests, NEW t \in refresh, ExitTake(r, t)
        PROVE  RowTyped'
    BY <1>15, <1>0 DEF ExitTake, RowTyped
  <1>16. ASSUME NEW r \in Requests, NEW a \in access, NEW company \in Companies,
                SwitchStart(r, a, company)
        PROVE  RowTyped'
    BY <1>16, <1>0 DEF SwitchStart, RowTyped
  <1>17. ASSUME NEW r \in Requests, NEW status \in {"ACTIVE", "DISABLED"}, AdminFind(r, status)
        PROVE  RowTyped'
    BY <1>17, <1>0 DEF AdminFind, RowTyped
  <1>18. ASSUME NEW company \in Companies, LeaveCompany(company)
        PROVE  RowTyped'
    BY <1>18, <1>0 DEF LeaveCompany, RowTyped
  <1>19. ASSUME NEW t \in access, AccessExpires(t) PROVE RowTyped'
    BY <1>19, <1>0 DEF AccessExpires, RowTyped
  <1>20. CASE \/ ForgotPassword \/ MarkerExpires \/ CacheExpires
            \/ UNCHANGED vars
    BY <1>20, <1>0 DEF ForgotPassword, MarkerExpires, CacheExpires, vars,
       RowTyped
  <1>. QED
    BY <1>1, <1>2, <1>3, <1>4, <1>5, <1>6, <1>7, <1>8, <1>9, <1>10, <1>11,
       <1>12, <1>13, <1>14, <1>15, <1>16, <1>17, <1>18, <1>19, <1>20 DEF Next

LEMMA CacheStep == Typed /\ [Next]_vars => CacheTyped'
  <1>. SUFFICES ASSUME Typed, [Next]_vars PROVE CacheTyped'
    OBVIOUS
  <1>0. RequestsTyped /\ KeysTyped /\ RowTyped /\ CacheTyped /\ CountersTyped
    BY DEF Typed
  <1>1. ASSUME NEW r \in Requests, Facts(r) PROVE CacheTyped'
    <2>1. \A super \in Answers(user.super, cache.super) :
            super \in {<<>>} \cup {<<b>> : b \in BOOLEAN}
      BY <1>0 DEF CacheTyped, Answers
    <2>2. \A companies \in Answers(user.companies, cache.companies) :
            companies \in {<<>>} \cup {<<C>> : C \in SUBSET Companies}
      BY <1>0 DEF CacheTyped, Answers
    <2>3. user' = user
      BY <1>1 DEF Facts, outside
    <2>4. /\ cache'.super \in {<<>>} \cup {<<b>> : b \in BOOLEAN}
          /\ cache'.companies \in {<<>>} \cup {<<C>> : C \in SUBSET Companies}
      BY <1>0, <1>1, <2>1, <2>2 DEF Facts, CacheTyped
    <2>. QED
      BY <1>0, <2>3, <2>4 DEF CacheTyped
  <1>2. CASE Demote
    BY <1>0, <1>2 DEF Demote, CacheTyped, redis
  <1>3. ASSUME NEW company \in Companies, LeaveCompany(company)
        PROVE  CacheTyped'
    BY <1>0, <1>3 DEF LeaveCompany, CacheTyped, redis
  <1>4. CASE CacheExpires
    BY <1>0, <1>4 DEF CacheExpires, CacheTyped, outside
  <1>5. ASSUME NEW r \in Requests,
               \/ LoginRefused(r) \/ LoginFailed(r) \/ LoginCleared(r)
               \/ SwitchFacts(r) \/ ExitSaved(r) \/ ExitGlobal(r) \/ Find(r)
               \/ Store(r) \/ Logout(r) \/ ResetTake(r) \/ ResetFind(r)
               \/ ResetSave(r) \/ ResetRevoke(r) \/ AdminSave(r) \/ Fail(r)
        PROVE  CacheTyped'
    BY <1>5, <1>0 DEF LoginRefused, LoginFailed, LoginCleared, SwitchFacts,
       ExitSaved, ExitGlobal, Find, Store, Logout, ResetTake, ResetFind,
       ResetSave, ResetRevoke, AdminSave, Fail, CacheTyped, redis, outside
  <1>6. ASSUME NEW r \in Requests, NEW typed \in 0..seen.pw, LoginFind(r, typed)
        PROVE  CacheTyped'
    BY <1>6, <1>0 DEF LoginFind, CacheTyped, redis, outside
  <1>7. ASSUME NEW r \in Requests, NEW t \in refresh, RefreshTake(r, t)
        PROVE  CacheTyped'
    BY <1>7, <1>0 DEF RefreshTake, CacheTyped, redis, outside
  <1>8. ASSUME NEW r \in Requests, NEW t \in refresh, ExitTake(r, t)
        PROVE  CacheTyped'
    BY <1>8, <1>0 DEF ExitTake, CacheTyped, redis, outside
  <1>9. ASSUME NEW r \in Requests, NEW a \in access, NEW company \in Companies,
               SwitchStart(r, a, company)
        PROVE  CacheTyped'
    BY <1>9, <1>0 DEF SwitchStart, CacheTyped, redis, outside
  <1>10. ASSUME NEW r \in Requests, NEW status \in {"ACTIVE", "DISABLED"}, AdminFind(r, status)
        PROVE  CacheTyped'
    BY <1>10, <1>0 DEF AdminFind, CacheTyped, redis, outside
  <1>11. ASSUME NEW t \in access, AccessExpires(t) PROVE CacheTyped'
    BY <1>11, <1>0 DEF AccessExpires, CacheTyped, redis, outside
  <1>12. CASE \/ ForgotPassword \/ DemoteRevoke \/ DemoteLost \/ LockOver
            \/ MarkerExpires \/ UNCHANGED vars
    BY <1>12, <1>0 DEF ForgotPassword, DemoteRevoke, DemoteLost, LockOver,
       MarkerExpires, vars, CacheTyped, redis, outside
  <1>. QED
    BY <1>1, <1>2, <1>3, <1>4, <1>5, <1>6, <1>7, <1>8, <1>9, <1>10, <1>11,
       <1>12 DEF Next

LEMMA CountersStep == Typed /\ [Next]_vars => CountersTyped'
  <1>. SUFFICES ASSUME Typed, [Next]_vars PROVE CountersTyped'
    OBVIOUS
  <1>0. RequestsTyped /\ KeysTyped /\ RowTyped /\ CacheTyped /\ CountersTyped
    BY DEF Typed
  <1>1. ASSUME NEW r \in Requests, LoginFailed(r) PROVE CountersTyped'
    BY <1>0, <1>1, AuthAssumption DEF LoginFailed, CountersTyped
  <1>2. ASSUME NEW r \in Requests, LoginCleared(r) PROVE CountersTyped'
    BY <1>0, <1>2, AuthAssumption DEF LoginCleared, CountersTyped
  <1>3. ASSUME NEW r \in Requests, ResetTake(r) PROVE CountersTyped'
    BY <1>0, <1>3, AuthAssumption DEF ResetTake, CountersTyped
  <1>4. CASE ForgotPassword
    BY <1>0, <1>4, AuthAssumption DEF ForgotPassword, CountersTyped, RowTyped, Seen
  <1>5. ASSUME NEW r \in Requests,
               \/ LoginRefused(r) \/ SwitchFacts(r) \/ ExitSaved(r)
               \/ ExitGlobal(r) \/ Find(r) \/ Facts(r) \/ Store(r)
               \/ Logout(r) \/ ResetFind(r) \/ ResetSave(r) \/ ResetRevoke(r)
               \/ AdminSave(r) \/ Fail(r)
        PROVE  CountersTyped'
    BY <1>5, <1>0 DEF LoginRefused, SwitchFacts, ExitSaved, ExitGlobal, Find,
       Facts, Store, Logout, ResetFind, ResetSave, ResetRevoke, AdminSave,
       Fail, CountersTyped, Revoke, redis
  <1>6. ASSUME NEW r \in Requests, NEW typed \in 0..seen.pw, LoginFind(r, typed)
        PROVE  CountersTyped'
    BY <1>6, <1>0 DEF LoginFind, CountersTyped, Revoke, redis
  <1>7. ASSUME NEW r \in Requests, NEW t \in refresh, RefreshTake(r, t)
        PROVE  CountersTyped'
    BY <1>7, <1>0 DEF RefreshTake, CountersTyped, Revoke, redis
  <1>8. ASSUME NEW r \in Requests, NEW t \in refresh, ExitTake(r, t)
        PROVE  CountersTyped'
    BY <1>8, <1>0 DEF ExitTake, CountersTyped, Revoke, redis
  <1>9. ASSUME NEW r \in Requests, NEW a \in access, NEW company \in Companies,
               SwitchStart(r, a, company)
        PROVE  CountersTyped'
    BY <1>9, <1>0 DEF SwitchStart, CountersTyped, Revoke, redis
  <1>10. ASSUME NEW r \in Requests, NEW status \in {"ACTIVE", "DISABLED"}, AdminFind(r, status)
        PROVE  CountersTyped'
    BY <1>10, <1>0 DEF AdminFind, CountersTyped, Revoke, redis
  <1>11. ASSUME NEW company \in Companies, LeaveCompany(company)
        PROVE  CountersTyped'
    BY <1>11, <1>0 DEF LeaveCompany, CountersTyped, Revoke, redis
  <1>12. ASSUME NEW t \in access, AccessExpires(t) PROVE CountersTyped'
    BY <1>12, <1>0 DEF AccessExpires, CountersTyped, Revoke, redis
  <1>13. CASE \/ Demote \/ DemoteRevoke \/ DemoteLost \/ LockOver
            \/ MarkerExpires \/ CacheExpires \/ UNCHANGED vars
    BY <1>13, <1>0 DEF Demote, DemoteRevoke, DemoteLost, LockOver,
       MarkerExpires, CacheExpires, vars, CountersTyped, Revoke, redis
  <1>. QED
    BY <1>1, <1>2, <1>3, <1>4, <1>5, <1>6, <1>7, <1>8, <1>9, <1>10, <1>11,
       <1>12, <1>13 DEF Next

LEMMA TypedAlways == Spec => []Typed
  <1>1. ASSUME Init PROVE Typed
    <2>1. RequestsTyped
      BY <1>1 DEF Init, RequestsTyped
    <2>2. KeysTyped
      <3>1. issued = <<>> /\ issued \in Seq(Pair) /\ DOMAIN issued = {}
        BY <1>1 DEF Init
      <3>. QED
        BY <1>1, <3>1 DEF Init, KeysTyped
    <2>3. RowTyped
      BY <1>1 DEF Init, RowTyped, Row, Seen
    <2>4. CacheTyped
      BY <1>1 DEF Init, CacheTyped
    <2>5. CountersTyped
      <3>1. 0 \in 0..Threshold /\ 0 \in 0..MaxResets
        BY AuthAssumption
      <3>. QED
        BY <1>1, <3>1 DEF Init, CountersTyped
    <2>. QED
      BY <2>1, <2>2, <2>3, <2>4, <2>5 DEF Typed
  <1>2. Typed /\ [Next]_vars => Typed'
    BY RequestsStep, KeysStep, RowStep, CacheStep, CountersStep DEF Typed
  <1>. QED
    BY <1>1, <1>2, PTL DEF Spec

\* The variables keep their types: TypeOK for every value of the constants.
THEOREM TypeCorrect == Spec => []TypeOK
  <1>1. ASSUME Typed PROVE TypeOK
    <2>1. \A r \in Requests : req[r] # Idle => req[r].row \in Row
      BY <1>1 DEF Typed, RequestsTyped, Request
    <2>. QED
      BY <1>1, <2>1 DEF Typed, KeysTyped, RowTyped, CacheTyped, CountersTyped, TypeOK
  <1>. QED
    BY <1>1, TypedAlways, PTL

-----------------------------------------------------------------------------
(* Refresh tokens are spent once *)

\* The refresh tokens a slot has consumed and not yet put into a pair.
SpendsOf(x) == IF x = Idle THEN {} ELSE x.spent

Spends(r) == SpendsOf(req[r])

Gone == DOMAIN issued \ refresh

\* No token is spent twice, by two pairs, two requests or a pair and a
\* request, and what is spent has no key any more.
SpentApart ==
    /\ SpentOnce
    /\ \A t \in DOMAIN issued : issued[t].spent \subseteq Gone
    /\ \A r \in Requests : Spends(r) \subseteq Gone
    /\ \A t \in DOMAIN issued, r \in Requests : issued[t].spent \cap Spends(r) = {}
    /\ \A q, r \in Requests : q # r => Spends(q) \cap Spends(r) = {}

\* A step that takes nothing and signs nothing.
NoneSpent ==
    /\ issued' = issued
    /\ refresh' \subseteq refresh
    /\ \A q \in Requests : SpendsOf(req'[q]) \subseteq Spends(q)

\* A step that takes the refresh token t for slot r.
Spent(r, t) ==
    /\ issued' = issued
    /\ refresh' = refresh \ {t}
    /\ SpendsOf(req'[r]) \subseteq Spends(r) \cup {t}
    /\ \A q \in Requests \ {r} : req'[q] = req[q]

LEMMA NoneSpentKeeps ==
    ASSUME SpentApart, NoneSpent
    PROVE  SpentApart'
  <1>1. Gone \subseteq Gone'
    BY DEF NoneSpent, Gone
  <1>2. SpentOnce'
    BY DEF NoneSpent, SpentApart, SpentOnce
  <1>3. (\A t \in DOMAIN issued : issued[t].spent \subseteq Gone)'
    BY <1>1 DEF NoneSpent, SpentApart
  <1>4. (\A r \in Requests : Spends(r) \subseteq Gone)'
    BY <1>1 DEF NoneSpent, SpentApart, Spends
  <1>5. (\A t \in DOMAIN issued, r \in Requests : issued[t].spent \cap Spends(r) = {})'
    BY DEF NoneSpent, SpentApart, Spends
  <1>6. (\A q, r \in Requests : q # r => Spends(q) \cap Spends(r) = {})'
    BY DEF NoneSpent, SpentApart, Spends
  <1>. QED
    BY <1>2, <1>3, <1>4, <1>5, <1>6 DEF SpentApart

LEMMA SpentKeeps ==
    ASSUME KeysTyped, SpentApart, NEW r \in Requests, NEW t \in refresh, Spent(r, t)
    PROVE  SpentApart'
  <1>1. Gone' = Gone \cup {t} /\ t \notin Gone
    BY DEF Spent, Gone, KeysTyped
  <1>2. SpentOnce'
    BY DEF Spent, SpentApart, SpentOnce
  <1>3. (\A u \in DOMAIN issued : issued[u].spent \subseteq Gone)'
    BY <1>1 DEF Spent, SpentApart
  <1>4. (\A q \in Requests : Spends(q) \subseteq Gone)'
    BY <1>1 DEF Spent, SpentApart, Spends
  <1>5. (\A u \in DOMAIN issued, q \in Requests : issued[u].spent \cap Spends(q) = {})'
    BY <1>1 DEF Spent, SpentApart, Spends
  <1>6. (\A p, q \in Requests : p # q => Spends(p) \cap Spends(q) = {})'
    BY <1>1 DEF Spent, SpentApart, Spends
  <1>. QED
    BY <1>2, <1>3, <1>4, <1>5, <1>6 DEF SpentApart

LEMMA PutsSpends ==
    ASSUME RequestsTyped, NEW r \in Requests, NEW x, Puts(r, x), SpendsOf(x) \subseteq Spends(r)
    PROVE  \A q \in Requests : SpendsOf(req'[q]) \subseteq Spends(q)
  BY PutsSlots DEF Spends

LEMMA StoreSpends ==
    ASSUME Typed, SpentApart, NEW r \in Requests, req[r] \in Request, req[r] # Idle,
           req' = [req EXCEPT ![r] = Idle],
           refresh' = refresh \cup {Len(issued) + 1},
           \E pair : issued' = Append(issued, pair) /\ pair.spent = req[r].spent
    PROVE  SpentApart'
  <1>0. RequestsTyped /\ KeysTyped
    BY DEF Typed
  <1>. DEFINE new == Len(issued) + 1
  <1>1. PICK pair : issued' = Append(issued, pair) /\ pair.spent = req[r].spent
    OBVIOUS
  <1>2. /\ DOMAIN issued = 1..Len(issued) /\ Len(issued) \in Nat
        /\ DOMAIN issued' = DOMAIN issued \cup {new}
        /\ \A t \in DOMAIN issued : issued'[t] = issued[t]
        /\ issued'[new] = pair
    BY <1>0, <1>1, LenProperties DEF KeysTyped
  <1>3. new \notin DOMAIN issued /\ Gone' = Gone
    BY <1>0, <1>2 DEF Gone, KeysTyped
  <1>4. /\ issued'[new].spent = Spends(r)
        /\ SpendsOf(req'[r]) = {}
        /\ \A q \in Requests \ {r} : SpendsOf(req'[q]) = Spends(q)
    BY <1>0, <1>1, <1>2 DEF Spends, SpendsOf, RequestsTyped
  <1>5. SpentOnce'
    BY <1>2, <1>3, <1>4 DEF SpentApart, SpentOnce
  <1>6. (\A t \in DOMAIN issued : issued[t].spent \subseteq Gone)'
    BY <1>2, <1>3, <1>4 DEF SpentApart
  <1>7. (\A q \in Requests : Spends(q) \subseteq Gone)'
    BY <1>3, <1>4 DEF SpentApart, Spends
  <1>8. (\A t \in DOMAIN issued, q \in Requests : issued[t].spent \cap Spends(q) = {})'
    BY <1>2, <1>4 DEF SpentApart, Spends
  <1>9. (\A p, q \in Requests : p # q => Spends(p) \cap Spends(q) = {})'
    BY <1>4 DEF SpentApart, Spends
  <1>. QED
    BY <1>5, <1>6, <1>7, <1>8, <1>9 DEF SpentApart

LEMMA SpentApartStep == Typed /\ SpentApart /\ [Next]_vars => SpentApart'
  <1>. SUFFICES ASSUME Typed /\ SpentApart, [Next]_vars PROVE SpentApart'
    OBVIOUS
  <1>0. RequestsTyped /\ KeysTyped /\ SpentApart
    BY DEF Typed
  <1>1. ASSUME NEW r \in Requests, NEW typed \in 0..seen.pw, LoginFind(r, typed)
        PROVE  SpentApart'
    <2>. DEFINE x == [Session("login", "compare", Global, typed, {}, FALSE) EXCEPT !.row = cred]
    <2>1. Puts(r, x) /\ issued' = issued /\ refresh' \subseteq refresh
      BY <1>1 DEF LoginFind, Start, Puts, redis
    <2>2. SpendsOf(x) \subseteq Spends(r)
      BY DEF SpendsOf, Spends, Session, Idle
    <2>. QED
      BY <1>0, <2>1, <2>2, PutsSpends, NoneSpentKeeps DEF NoneSpent
  <1>2. ASSUME NEW r \in Requests, LoginRefused(r) PROVE SpentApart'
    <2>1. Puts(r, Idle) /\ issued' = issued /\ refresh' \subseteq refresh
      BY <1>2 DEF LoginRefused, Go, Puts, redis
    <2>2. SpendsOf(Idle) \subseteq Spends(r)
      BY DEF SpendsOf, Spends
    <2>. QED
      BY <1>0, <2>1, <2>2, PutsSpends, NoneSpentKeeps DEF NoneSpent
  <1>3. ASSUME NEW r \in Requests, LoginFailed(r) PROVE SpentApart'
    <2>1. Puts(r, Idle) /\ issued' = issued /\ refresh' \subseteq refresh
      BY <1>3 DEF LoginFailed, Go, Puts, redis
    <2>2. SpendsOf(Idle) \subseteq Spends(r)
      BY DEF SpendsOf, Spends
    <2>. QED
      BY <1>0, <2>1, <2>2, PutsSpends, NoneSpentKeeps DEF NoneSpent
  <1>4. ASSUME NEW r \in Requests, LoginCleared(r) PROVE SpentApart'
    <2>0. req[r] \in Request
      BY <1>0, <1>4, BusyType DEF LoginCleared, At, Busy
    <2>. DEFINE x == [req[r] EXCEPT !.pc = "facts", !.row = NoRow]
    <2>1. Puts(r, x) /\ issued' = issued /\ refresh' \subseteq refresh
      BY <1>4 DEF LoginCleared, Go, Puts, redis
    <2>2. SpendsOf(x) \subseteq Spends(r)
      BY <1>0, <1>4, <2>0 DEF SpendsOf, Spends, Request, LoginCleared, At
    <2>. QED
      BY <1>0, <2>1, <2>2, PutsSpends, NoneSpentKeeps DEF NoneSpent
  <1>5. ASSUME NEW r \in Requests, NEW t \in refresh, RefreshTake(r, t)
        PROVE  SpentApart'
    <2>. DEFINE x == Session("refresh", "find", issued[t].scope, issued[t].pw, {t}, issued[t].late)
    <2>1. Puts(r, x) /\ issued' = issued /\ refresh' = refresh \ {t}
      BY <1>5 DEF RefreshTake, Start, Puts
    <2>2. SpendsOf(x) \subseteq {t}
      BY DEF SpendsOf, Session, Idle
    <2>3. Spent(r, t)
      BY <1>0, <2>1, <2>2, PutsSlots DEF Spent
    <2>. QED
      BY <1>0, <2>3, SpentKeeps
  <1>6. ASSUME NEW r \in Requests, NEW t \in refresh, ExitTake(r, t)
        PROVE  SpentApart'
    <2>. DEFINE x == Session("exit", "saved", Global, issued[t].pw, {t}, issued[t].late)
    <2>1. Puts(r, x) /\ issued' = issued /\ refresh' = refresh \ {t}
      BY <1>6 DEF ExitTake, Start, Puts
    <2>2. SpendsOf(x) \subseteq {t}
      BY DEF SpendsOf, Session, Idle
    <2>3. Spent(r, t)
      BY <1>0, <2>1, <2>2, PutsSlots DEF Spent
    <2>. QED
      BY <1>0, <2>3, SpentKeeps
  <1>7. ASSUME NEW r \in Requests, NEW a \in access, NEW company \in Companies,
               SwitchStart(r, a, company)
        PROVE  SpentApart'
    <2>1. PICK cookie \in {0, a} :
            Puts(r, [Session("switch", "facts", company, issued[a].pw, {}, issued[a].late)
                       EXCEPT !.auth = issued[a].stored, !.jti = cookie])
      BY <1>7 DEF SwitchStart, Start, Puts
    <2>2. SpendsOf([Session("switch", "facts", company, issued[a].pw, {}, issued[a].late)
                      EXCEPT !.auth = issued[a].stored, !.jti = cookie]) \subseteq Spends(r)
      BY DEF SpendsOf, Session, Idle
    <2>3. UNCHANGED <<issued, refresh>>
      BY <1>7 DEF SwitchStart
    <2>. QED
      BY <1>0, <2>1, <2>2, <2>3, PutsSpends, NoneSpentKeeps DEF NoneSpent
  <1>8. ASSUME NEW r \in Requests, SwitchFacts(r) PROVE SpentApart'
    <2>0. req[r] \in Request
      BY <1>0, <1>8, BusyType DEF SwitchFacts, At, Busy
    <2>. DEFINE x == [req[r] EXCEPT !.pc = "find"]
    <2>1. Puts(r, x) /\ issued' = issued /\ refresh' \subseteq refresh
      BY <1>8 DEF SwitchFacts, Go, Puts, redis
    <2>2. SpendsOf(x) \subseteq Spends(r)
      BY <1>0, <1>8, <2>0 DEF SpendsOf, Spends, Request, SwitchFacts, At
    <2>. QED
      BY <1>0, <2>1, <2>2, PutsSpends, NoneSpentKeeps DEF NoneSpent
  <1>9. ASSUME NEW r \in Requests, ExitSaved(r) PROVE SpentApart'
    <2>0. req[r] \in Request
      BY <1>0, <1>9, BusyType DEF ExitSaved, At, Busy
    <2>. DEFINE x == [req[r] EXCEPT !.pc = "global", !.jti = saved]
    <2>1. Puts(r, x) /\ issued' = issued /\ refresh' \subseteq refresh
      BY <1>9 DEF ExitSaved, Go, Puts, redis
    <2>2. SpendsOf(x) \subseteq Spends(r)
      BY <1>0, <1>9, <2>0 DEF SpendsOf, Spends, Request, ExitSaved, At
    <2>. QED
      BY <1>0, <2>1, <2>2, PutsSpends, NoneSpentKeeps DEF NoneSpent
  <1>10. ASSUME NEW r \in Requests, ExitGlobal(r) PROVE SpentApart'
    <2>1. req[r] \in Request /\ req[r].jti \in refresh
      BY <1>0, <1>10, BusyType DEF ExitGlobal, At, Busy
    <2>. DEFINE g == req[r].jti
                x == [req[r] EXCEPT !.pc = "find", !.pw = issued[g].pw, !.spent = @ \cup {g},
                                     !.auth = seen.waves, !.late = issued[g].late]
    <2>3. Puts(r, x) /\ issued' = issued /\ refresh' = refresh \ {g}
      BY <1>10 DEF ExitGlobal, Go, Puts
    <2>4. SpendsOf(x) \subseteq Spends(r) \cup {g}
      BY <1>10, <2>1 DEF SpendsOf, Spends, Request, ExitGlobal, At
    <2>5. Spent(r, g)
      BY <1>0, <2>3, <2>4, PutsSlots DEF Spent
    <2>. QED
      BY <1>0, <2>1, <2>5, SpentKeeps
  <1>11. ASSUME NEW r \in Requests, Find(r) PROVE SpentApart'
    <2>0. req[r] \in Request
      BY <1>0, <1>11, BusyType DEF Find, At, Busy
    <2>. DEFINE x == [req[r] EXCEPT !.pc = IF req[r].op = "switch" THEN "store" ELSE "facts"]
    <2>1. Puts(r, x) /\ issued' = issued /\ refresh' \subseteq refresh
      BY <1>11 DEF Find, Go, Puts, redis
    <2>2. SpendsOf(x) \subseteq Spends(r)
      BY <1>0, <1>11, <2>0 DEF SpendsOf, Spends, Request, Find, At
    <2>. QED
      BY <1>0, <2>1, <2>2, PutsSpends, NoneSpentKeeps DEF NoneSpent
  <1>12. ASSUME NEW r \in Requests, Facts(r) PROVE SpentApart'
    <2>0. req[r] \in Request /\ req[r] # Idle
      BY <1>0, <1>12, BusyType DEF Facts, Busy
    <2>1. PICK super \in Answers(user.super, cache.super) :
            Puts(r, [req[r] EXCEPT !.pc = "store", !.super = super[1] /\ req[r].scope = Global])
      BY <1>12 DEF Facts, Go, Puts
    <2>2. SpendsOf([req[r] EXCEPT !.pc = "store", !.super = super[1] /\ req[r].scope = Global])
            \subseteq Spends(r)
      BY <2>0 DEF SpendsOf, Spends, Request
    <2>3. UNCHANGED <<issued, refresh>>
      BY <1>12 DEF Facts
    <2>. QED
      BY <1>0, <2>1, <2>2, <2>3, PutsSpends, NoneSpentKeeps DEF NoneSpent
  <1>13. ASSUME NEW r \in Requests, Store(r) PROVE SpentApart'
    <2>1. req[r] \in Request /\ req[r] # Idle
      BY <1>0, <1>13, BusyType DEF Store, Busy
    <2>2. /\ req' = [req EXCEPT ![r] = Idle]
          /\ refresh' = refresh \cup {Len(issued) + 1}
          /\ \E pair : issued' = Append(issued, pair) /\ pair.spent = req[r].spent
      BY <1>13 DEF Store, Go
    <2>. QED
      BY <1>0, <2>1, <2>2, StoreSpends
  <1>14. ASSUME NEW r \in Requests, Logout(r) PROVE SpentApart'
    <2>1. NoneSpent
      BY <1>14 DEF Logout, NoneSpent, Revoke, Spends
    <2>. QED
      BY <1>0, <2>1, NoneSpentKeeps
  <1>15. ASSUME NEW r \in Requests, ResetTake(r) PROVE SpentApart'
    <2>. DEFINE x == Session("reset", "find", Global, 0, {}, FALSE)
    <2>1. Puts(r, x) /\ issued' = issued /\ refresh' \subseteq refresh
      BY <1>15 DEF ResetTake, Start, Puts, redis
    <2>2. SpendsOf(x) \subseteq Spends(r)
      BY DEF SpendsOf, Spends, Session, Idle
    <2>. QED
      BY <1>0, <2>1, <2>2, PutsSpends, NoneSpentKeeps DEF NoneSpent
  <1>16. ASSUME NEW r \in Requests, ResetFind(r) PROVE SpentApart'
    <2>0. req[r] \in Request
      BY <1>0, <1>16, BusyType DEF ResetFind, At, Busy
    <2>. DEFINE x == [req[r] EXCEPT !.pc = "save", !.row = cred]
    <2>1. Puts(r, x) /\ issued' = issued /\ refresh' \subseteq refresh
      BY <1>16 DEF ResetFind, Go, Puts, redis
    <2>2. SpendsOf(x) \subseteq Spends(r)
      BY <1>0, <1>16, <2>0 DEF SpendsOf, Spends, Request, ResetFind, At
    <2>. QED
      BY <1>0, <2>1, <2>2, PutsSpends, NoneSpentKeeps DEF NoneSpent
  <1>17. ASSUME NEW r \in Requests, ResetSave(r) PROVE SpentApart'
    <2>0. req[r] \in Request
      BY <1>0, <1>17, BusyType DEF ResetSave, At, Busy
    <2>. DEFINE x == [req[r] EXCEPT !.pc = "revoke", !.row = NoRow]
    <2>1. Puts(r, x) /\ issued' = issued /\ refresh' \subseteq refresh
      BY <1>17 DEF ResetSave, Go, Puts, redis
    <2>2. SpendsOf(x) \subseteq Spends(r)
      BY <1>0, <1>17, <2>0 DEF SpendsOf, Spends, Request, ResetSave, At
    <2>. QED
      BY <1>0, <2>1, <2>2, PutsSpends, NoneSpentKeeps DEF NoneSpent
  <1>18. ASSUME NEW r \in Requests, ResetRevoke(r) PROVE SpentApart'
    <2>1. Puts(r, Idle) /\ issued' = issued /\ refresh' \subseteq refresh
      BY <1>18 DEF ResetRevoke, Go, Puts, redis, Revoke
    <2>2. SpendsOf(Idle) \subseteq Spends(r)
      BY DEF SpendsOf, Spends
    <2>. QED
      BY <1>0, <2>1, <2>2, PutsSpends, NoneSpentKeeps DEF NoneSpent
  <1>19. ASSUME NEW r \in Requests, NEW status \in {"ACTIVE", "DISABLED"}, AdminFind(r, status)
        PROVE  SpentApart'
    <2>. DEFINE x == [Session(status, "save", Global, 0, {}, FALSE) EXCEPT !.row = cred]
    <2>1. Puts(r, x) /\ issued' = issued /\ refresh' \subseteq refresh
      BY <1>19 DEF AdminFind, Start, Puts, redis
    <2>2. SpendsOf(x) \subseteq Spends(r)
      BY DEF SpendsOf, Spends, Session, Idle
    <2>. QED
      BY <1>0, <2>1, <2>2, PutsSpends, NoneSpentKeeps DEF NoneSpent
  <1>20. ASSUME NEW r \in Requests, AdminSave(r) PROVE SpentApart'
    <2>1. Puts(r, Idle) /\ issued' = issued /\ refresh' \subseteq refresh
      BY <1>20 DEF AdminSave, Go, Puts, redis
    <2>2. SpendsOf(Idle) \subseteq Spends(r)
      BY DEF SpendsOf, Spends
    <2>. QED
      BY <1>0, <2>1, <2>2, PutsSpends, NoneSpentKeeps DEF NoneSpent
  <1>21. ASSUME NEW r \in Requests, Fail(r) PROVE SpentApart'
    <2>1. Puts(r, Idle) /\ issued' = issued /\ refresh' \subseteq refresh
      BY <1>21 DEF Fail, Go, Puts, redis
    <2>2. SpendsOf(Idle) \subseteq Spends(r)
      BY DEF SpendsOf, Spends
    <2>. QED
      BY <1>0, <2>1, <2>2, PutsSpends, NoneSpentKeeps DEF NoneSpent
  <1>22. CASE LockOver
    <2>1. \A q \in Requests : SpendsOf(req'[q]) \subseteq Spends(q)
      <3>. SUFFICES ASSUME NEW q \in Requests PROVE SpendsOf(req'[q]) \subseteq Spends(q)
        OBVIOUS
      <3>1. CASE Busy(q)
        BY <1>0, <1>22, <3>1, BusyType DEF LockOver, Busy, SpendsOf, Spends, Request
      <3>2. CASE ~Busy(q)
        BY <1>22, <3>2 DEF LockOver, Busy, SpendsOf
      <3>. QED
        BY <3>1, <3>2
    <2>. QED
      BY <1>0, <1>22, <2>1, NoneSpentKeeps DEF LockOver, NoneSpent, redis
  <1>23. ASSUME NEW company \in Companies, LeaveCompany(company)
        PROVE  SpentApart'
    BY <1>23, <1>0, NoneSpentKeeps DEF LeaveCompany, NoneSpent, Spends,
       Revoke, redis
  <1>24. ASSUME NEW t \in access, AccessExpires(t) PROVE SpentApart'
    BY <1>24, <1>0, NoneSpentKeeps DEF AccessExpires, NoneSpent, Spends,
       Revoke, redis
  <1>25. CASE \/ ForgotPassword \/ Demote \/ DemoteRevoke \/ DemoteLost
            \/ MarkerExpires \/ CacheExpires \/ UNCHANGED vars
    BY <1>25, <1>0, NoneSpentKeeps DEF ForgotPassword, Demote, DemoteRevoke,
       DemoteLost, MarkerExpires, CacheExpires, vars, NoneSpent, Spends,
       Revoke, redis
  <1>. QED
    BY <1>1, <1>2, <1>3, <1>4, <1>5, <1>6, <1>7, <1>8, <1>9, <1>10, <1>11,
       <1>12, <1>13, <1>14, <1>15, <1>16, <1>17, <1>18, <1>19, <1>20, <1>21,
       <1>22, <1>23, <1>24, <1>25 DEF Next

\* However refresh and exit-company race, no two pairs are issued for the same
\* refresh token: SpentOnce for every number of requests and sessions.
THEOREM SpentOnceCorrect == Spec => []SpentOnce
  <1>1. Init => SpentApart
    BY DEF Init, SpentApart, SpentOnce, Spends, SpendsOf, Gone
  <1>2. Typed /\ SpentApart /\ [Next]_vars => SpentApart'
    BY SpentApartStep
  <1>3. SpentApart => SpentOnce
    BY DEF SpentApart
  <1>. QED
    BY <1>1, <1>2, <1>3, TypedAlways, PTL DEF Spec

-----------------------------------------------------------------------------
(* The credential row *)

LEMMA CredentialStep == Typed /\ CredentialKept /\ [Next]_vars => CredentialKept'
  <1>. SUFFICES ASSUME Typed /\ CredentialKept, [Next]_vars PROVE CredentialKept'
    OBVIOUS
  <1>0. RequestsTyped /\ RowTyped
    BY DEF Typed
  <1>1. ASSUME NEW r \in Requests, LoginFailed(r) PROVE CredentialKept'
    BY <1>0, <1>1, LoginRow DEF CredentialKept
  <1>2. ASSUME NEW r \in Requests, LoginCleared(r) PROVE CredentialKept'
    BY <1>0, <1>2, LoginRow DEF CredentialKept
  <1>3. ASSUME NEW r \in Requests, Logout(r) PROVE CredentialKept'
    BY <1>0, <1>3 DEF Logout, CredentialKept, RowTyped, Row, Seen
  <1>4. ASSUME NEW r \in Requests, ResetSave(r) PROVE CredentialKept'
    BY <1>0, <1>4 DEF ResetSave, ResetRow, CredentialKept, RowTyped, Row, Seen
  <1>5. ASSUME NEW r \in Requests, ResetRevoke(r) PROVE CredentialKept'
    BY <1>0, <1>5 DEF ResetRevoke, CredentialKept, RowTyped, Row, Seen
  <1>6. ASSUME NEW r \in Requests, AdminSave(r) PROVE CredentialKept'
    BY <1>0, <1>6 DEF AdminSave, CredentialKept, RowTyped, Row, Seen
  <1>7. ASSUME NEW r \in Requests, Fail(r) PROVE CredentialKept'
    BY <1>0, <1>7 DEF Fail, CredentialKept, RowTyped, Row, Seen
  <1>8. CASE Demote
    BY <1>0, <1>8 DEF Demote, CredentialKept, RowTyped, Row, Seen
  <1>9. CASE DemoteRevoke
    BY <1>0, <1>9 DEF DemoteRevoke, CredentialKept, RowTyped, Row, Seen
  <1>10. CASE DemoteLost
    BY <1>0, <1>10 DEF DemoteLost, CredentialKept, RowTyped, Row, Seen
  <1>11. CASE LockOver
    BY <1>0, <1>11 DEF LockOver, CredentialKept, RowTyped, Row, Seen
  <1>12. ASSUME NEW r \in Requests,
               \/ LoginRefused(r) \/ SwitchFacts(r) \/ ExitSaved(r)
               \/ ExitGlobal(r) \/ Find(r) \/ Facts(r) \/ Store(r)
               \/ ResetTake(r) \/ ResetFind(r)
        PROVE  CredentialKept'
    BY <1>12, <1>0 DEF LoginRefused, SwitchFacts, ExitSaved, ExitGlobal, Find,
       Facts, Store, ResetTake, ResetFind, CredentialKept
  <1>13. ASSUME NEW r \in Requests, NEW typed \in 0..seen.pw, LoginFind(r, typed)
        PROVE  CredentialKept'
    BY <1>13, <1>0 DEF LoginFind, CredentialKept
  <1>14. ASSUME NEW r \in Requests, NEW t \in refresh, RefreshTake(r, t)
        PROVE  CredentialKept'
    BY <1>14, <1>0 DEF RefreshTake, CredentialKept
  <1>15. ASSUME NEW r \in Requests, NEW t \in refresh, ExitTake(r, t)
        PROVE  CredentialKept'
    BY <1>15, <1>0 DEF ExitTake, CredentialKept
  <1>16. ASSUME NEW r \in Requests, NEW a \in access, NEW company \in Companies,
                SwitchStart(r, a, company)
        PROVE  CredentialKept'
    BY <1>16, <1>0 DEF SwitchStart, CredentialKept
  <1>17. ASSUME NEW r \in Requests, NEW status \in {"ACTIVE", "DISABLED"}, AdminFind(r, status)
        PROVE  CredentialKept'
    BY <1>17, <1>0 DEF AdminFind, CredentialKept
  <1>18. ASSUME NEW company \in Companies, LeaveCompany(company)
        PROVE  CredentialKept'
    BY <1>18, <1>0 DEF LeaveCompany, CredentialKept
  <1>19. ASSUME NEW t \in access, AccessExpires(t) PROVE CredentialKept'
    BY <1>19, <1>0 DEF AccessExpires, CredentialKept
  <1>20. CASE \/ ForgotPassword \/ MarkerExpires \/ CacheExpires
            \/ UNCHANGED vars
    BY <1>20, <1>0 DEF ForgotPassword, MarkerExpires, CacheExpires, vars,
       CredentialKept
  <1>. QED
    BY <1>1, <1>2, <1>3, <1>4, <1>5, <1>6, <1>7, <1>8, <1>9, <1>10, <1>11,
       <1>12, <1>13, <1>14, <1>15, <1>16, <1>17, <1>18, <1>19, <1>20 DEF Next

\* The row is what the last administrator and the last reset wrote unless a
\* save put back an older copy: CredentialKept, however many handlers save.
THEOREM CredentialKeptCorrect == Spec => []CredentialKept
  <1>1. Init => CredentialKept
    BY DEF Init, CredentialKept
  <1>. QED
    BY <1>1, CredentialStep, TypedAlways, PTL DEF Spec

-----------------------------------------------------------------------------
(* The claim of a super admin *)

\* Once the revocation of a demotion has run, either its marker still stands
\* or every access token that is left was stored after it.
ClaimsDated ==
    /\ \A t \in DOMAIN issued : issued[t].stored <= seen.waves
    /\ seen.demoted = "revoked" =>
         /\ seen.demotedAt <= seen.waves
         /\ marker \/ \A t \in access : issued[t].stored >= seen.demotedAt

\* What Store signs is stored now, and it leaves the other pairs alone.
LEMMA StoreAppends ==
    ASSUME KeysTyped, NEW r \in Requests, Store(r)
    PROVE  /\ DOMAIN issued' = DOMAIN issued \cup {Len(issued) + 1}
           /\ Len(issued) + 1 \notin DOMAIN issued
           /\ \A t \in DOMAIN issued : issued'[t] = issued[t]
           /\ issued'[Len(issued) + 1].stored = seen.waves
           /\ issued'[Len(issued) + 1].pw = req[r].pw
           /\ issued'[Len(issued) + 1].late = (req[r].late \/ req[r].auth # seen.waves)
  <1>1. DOMAIN issued = 1..Len(issued) /\ Len(issued) \in Nat
    BY LenProperties DEF KeysTyped
  <1>. QED
    BY <1>1 DEF Store, KeysTyped

LEMMA ClaimsStep == Typed /\ ClaimsDated /\ [Next]_vars => ClaimsDated'
  <1>. SUFFICES ASSUME Typed /\ ClaimsDated, [Next]_vars PROVE ClaimsDated'
    OBVIOUS
  <1>0. RequestsTyped /\ KeysTyped /\ RowTyped
    BY DEF Typed
  <1>00. /\ seen.waves \in Nat /\ seen.demotedAt \in Nat /\ access \subseteq DOMAIN issued
         /\ \A t \in DOMAIN issued : issued[t].stored \in Nat
    BY <1>0, PairType DEF RowTyped, Seen, KeysTyped, Pair
  <1>1. ASSUME NEW r \in Requests, LoginFailed(r) PROVE ClaimsDated'
    BY <1>0, <1>00, <1>1 DEF LoginFailed, ClaimsDated, RowTyped, Seen, Save, outside
  <1>2. ASSUME NEW r \in Requests, LoginCleared(r) PROVE ClaimsDated'
    BY <1>0, <1>00, <1>2 DEF LoginCleared, ClaimsDated, RowTyped, Seen, Save, outside
  <1>3. ASSUME NEW r \in Requests, Store(r) PROVE ClaimsDated'
    <2>1. UNCHANGED <<seen, marker>> /\ access' = access \cup {Len(issued) + 1}
      BY <1>3 DEF Store
    <2>. QED
      BY <1>0, <1>00, <1>3, <2>1, StoreAppends DEF ClaimsDated
  <1>4. ASSUME NEW r \in Requests, Logout(r) PROVE ClaimsDated'
    BY <1>0, <1>00, <1>4 DEF Logout, ClaimsDated, RowTyped, Seen, Revoke, outside
  <1>5. ASSUME NEW r \in Requests, ResetSave(r) PROVE ClaimsDated'
    BY <1>0, <1>00, <1>5 DEF ResetSave, ClaimsDated, RowTyped, Seen, redis, outside
  <1>6. ASSUME NEW r \in Requests, ResetRevoke(r) PROVE ClaimsDated'
    BY <1>0, <1>00, <1>6 DEF ResetRevoke, ClaimsDated, RowTyped, Seen, Revoke, outside
  <1>7. ASSUME NEW r \in Requests, AdminSave(r) PROVE ClaimsDated'
    BY <1>0, <1>00, <1>7 DEF AdminSave, ClaimsDated, RowTyped, Seen, redis, outside
  <1>8. ASSUME NEW r \in Requests, Fail(r) PROVE ClaimsDated'
    BY <1>0, <1>00, <1>8 DEF Fail, ClaimsDated, RowTyped, Seen, redis, outside
  <1>9. CASE Demote
    BY <1>0, <1>00, <1>9 DEF Demote, ClaimsDated, RowTyped, Seen, redis
  <1>10. CASE DemoteRevoke
    BY <1>0, <1>00, <1>10 DEF DemoteRevoke, ClaimsDated, RowTyped, Seen, Revoke, outside
  <1>11. CASE DemoteLost
    BY <1>0, <1>00, <1>11 DEF DemoteLost, ClaimsDated, RowTyped, Seen, redis, outside
  <1>12. CASE MarkerExpires
    BY <1>0, <1>00, <1>12 DEF MarkerExpires, ClaimsDated, RowTyped, Seen, outside
  <1>13. ASSUME NEW r \in Requests,
               \/ LoginRefused(r) \/ SwitchFacts(r) \/ ExitSaved(r)
               \/ ExitGlobal(r) \/ Find(r) \/ Facts(r) \/ ResetTake(r)
               \/ ResetFind(r)
        PROVE  ClaimsDated'
    BY <1>13, <1>0, <1>00 DEF LoginRefused, SwitchFacts, ExitSaved,
       ExitGlobal, Find, Facts, ResetTake, ResetFind, ClaimsDated, redis,
       outside
  <1>14. ASSUME NEW r \in Requests, NEW typed \in 0..seen.pw, LoginFind(r, typed)
        PROVE  ClaimsDated'
    BY <1>14, <1>0, <1>00 DEF LoginFind, ClaimsDated, redis, outside
  <1>15. ASSUME NEW r \in Requests, NEW t \in refresh, RefreshTake(r, t)
        PROVE  ClaimsDated'
    BY <1>15, <1>0, <1>00 DEF RefreshTake, ClaimsDated, redis, outside
  <1>16. ASSUME NEW r \in Requests, NEW t \in refresh, ExitTake(r, t)
        PROVE  ClaimsDated'
    BY <1>16, <1>0, <1>00 DEF ExitTake, ClaimsDated, redis, outside
  <1>17. ASSUME NEW r \in Requests, NEW a \in access, NEW company \in Companies,
                SwitchStart(r, a, company)
        PROVE  ClaimsDated'
    BY <1>17, <1>0, <1>00 DEF SwitchStart, ClaimsDated, redis, outside
  <1>18. ASSUME NEW r \in Requests, NEW status \in {"ACTIVE", "DISABLED"}, AdminFind(r, status)
        PROVE  ClaimsDated'
    BY <1>18, <1>0, <1>00 DEF AdminFind, ClaimsDated, redis, outside
  <1>19. ASSUME NEW company \in Companies, LeaveCompany(company)
        PROVE  ClaimsDated'
    BY <1>19, <1>0, <1>00 DEF LeaveCompany, ClaimsDated, redis, outside
  <1>20. ASSUME NEW t \in access, AccessExpires(t) PROVE ClaimsDated'
    BY <1>20, <1>0, <1>00 DEF AccessExpires, ClaimsDated, redis, outside
  <1>21. CASE \/ ForgotPassword \/ LockOver \/ CacheExpires \/ UNCHANGED vars
    BY <1>21, <1>0, <1>00 DEF ForgotPassword, LockOver, CacheExpires, vars,
       ClaimsDated, redis, outside
  <1>. QED
    BY <1>1, <1>2, <1>3, <1>4, <1>5, <1>6, <1>7, <1>8, <1>9, <1>10, <1>11,
       <1>12, <1>13, <1>14, <1>15, <1>16, <1>17, <1>18, <1>19, <1>20, <1>21
       DEF Next

\* Once the revocation of a demotion has run, no pair stored before it passes
\* JwtGuard with its super-admin claim: DemotedClaimRefused, however the
\* logouts, resets and expiries of the marker fall.
THEOREM DemotedClaimRefusedCorrect == Spec => []DemotedClaimRefused
  <1>1. Init => ClaimsDated
    BY DEF Init, ClaimsDated
  <1>2. ClaimsDated => DemotedClaimRefused
    BY DEF ClaimsDated, DemotedClaimRefused, ClaimAccepted
  <1>. QED
    BY <1>1, <1>2, ClaimsStep, TypedAlways, PTL DEF Spec

-----------------------------------------------------------------------------
(* Sessions follow the password *)

\* A session request in course that no revocation has overtaken, and the
\* password its pair will carry.
SessionOps == {"login", "refresh", "switch", "exit"}

FreshAt(x, waves) ==
    /\ x # Idle
    /\ x.op \in SessionOps
    /\ x.auth = waves
    /\ ~x.late

\* Authorised no later than now; only a session request signs a pair.
Stamped(x, waves) == x.auth <= waves /\ (x.pc = "store" => x.op \in SessionOps)

PwOf(x) == IF x.pc = "compare" THEN x.row.pw ELSE x.pw

Revoking == \E r \in Requests : At(r, "reset", "revoke")

\* Nothing dates from after the last revocation, and a refresh token that has
\* its key was stored after it.
Dated ==
    /\ \A t \in refresh : issued[t].stored = seen.waves
    /\ \A t \in DOMAIN issued : issued[t].stored <= seen.waves
    /\ \A r \in Requests : req[r] # Idle => Stamped(req[r], seen.waves)

\* The requests and the pairs that are not late began with the password of
\* the row.
Settled ==
    /\ \A r \in Requests : FreshAt(req[r], seen.waves) => PwOf(req[r]) = cred.pw
    /\ \A t \in DOMAIN issued :
         issued[t].stored = seen.waves /\ ~issued[t].late => issued[t].pw = cred.pw

Follows == Dated /\ (seen.clobbered \/ seen.unrevoked \/ Revoking \/ Settled)

SeenGrows ==
    /\ seen.clobbered => seen'.clobbered
    /\ seen.unrevoked => seen'.unrevoked

\* Slot r gets the content x, and no pair is signed.
LEMMA FollowsPut ==
    ASSUME RequestsTyped, KeysTyped, Follows, NEW r \in Requests, NEW x, Puts(r, x),
           ~At(r, "reset", "revoke"), issued' = issued, refresh' \subseteq refresh,
           seen'.waves = seen.waves, SeenGrows,
           x = Idle \/ Stamped(x, seen.waves),
           \/ seen'.clobbered
           \/ /\ cred'.pw = cred.pw
              /\ Settled /\ FreshAt(x, seen.waves) => PwOf(x) = cred.pw
    PROVE  Follows'
  <1>1. req'[r] = x /\ \A q \in Requests \ {r} : req'[q] = req[q]
    BY PutsSlots
  <1>2. Dated'
    BY <1>1 DEF Dated, Follows
  <1>3. Revoking => Revoking'
    BY <1>1 DEF Revoking, At
  <1>4. ASSUME Settled, ~seen'.clobbered PROVE Settled'
    BY <1>1, <1>4 DEF Settled
  <1>. QED
    BY <1>2, <1>3, <1>4 DEF Follows, SeenGrows

LEMMA FollowsStays ==
    ASSUME Follows, UNCHANGED <<req, issued>>, refresh' \subseteq refresh, cred' = cred,
           seen'.waves = seen.waves, SeenGrows
    PROVE  Follows'
  <1>1. Dated'
    BY DEF Dated, Follows
  <1>2. Revoking => Revoking'
    BY DEF Revoking, At
  <1>3. Settled => Settled'
    BY DEF Settled
  <1>. QED
    BY <1>1, <1>2, <1>3 DEF Follows, SeenGrows

\* Whatever is there when a revocation runs dates from before it.
LEMMA NewWave ==
    ASSUME RequestsTyped, KeysTyped, RowTyped, Follows,
           issued' = issued, refresh' = {}, seen'.waves = seen.waves + 1,
           \A q \in Requests : req'[q] \in {req[q], Idle}
    PROVE  Follows'
  <1>0. /\ seen.waves \in Nat
        /\ \A t \in DOMAIN issued : issued[t].stored \in Nat
        /\ \A q \in Requests : req[q] # Idle => req[q].auth \in Nat
    BY PairType, BusyType DEF RowTyped, Seen, Pair, Busy, Request
  <1>1. Dated'
    BY <1>0 DEF Dated, Follows, Stamped
  <1>2. Settled'
    BY <1>0 DEF Settled, Dated, Stamped, Follows, FreshAt
  <1>. QED
    BY <1>1, <1>2 DEF Follows

LEMMA FollowsStep == Typed /\ Follows /\ [Next]_vars => Follows'
  <1>. SUFFICES ASSUME Typed /\ Follows, [Next]_vars PROVE Follows'
    OBVIOUS
  <1>0. RequestsTyped /\ KeysTyped /\ RowTyped
    BY DEF Typed
  <1>00. /\ seen.waves \in Nat
         /\ \A t \in DOMAIN issued : issued[t].stored \in Nat
    BY <1>0, PairType DEF RowTyped, Seen, Pair
  <1>1. ASSUME NEW r \in Requests, NEW typed \in 0..seen.pw, LoginFind(r, typed)
        PROVE  Follows'
    <2>. DEFINE x == [Session("login", "compare", Global, typed, {}, FALSE) EXCEPT !.row = cred]
    <2>1. Puts(r, x)
      BY <1>1 DEF LoginFind, Start, Puts
    <2>2. issued' = issued /\ refresh' \subseteq refresh /\ ~At(r, "reset", "revoke")
      BY <1>1 DEF LoginFind, Start, At, redis
    <2>3. seen'.waves = seen.waves /\ SeenGrows
      BY <1>0, <1>1 DEF LoginFind, SeenGrows, RowTyped, Seen
    <2>4. Stamped(x, seen.waves)
      BY <1>00 DEF Session, Stamped
    <2>5. \/ seen'.clobbered
          \/ /\ cred'.pw = cred.pw
             /\ Settled /\ FreshAt(x, seen.waves) => PwOf(x) = cred.pw
      BY <1>1 DEF LoginFind, FreshAt, SessionOps, PwOf, Session
    <2>. QED
      BY <1>0, <2>1, <2>2, <2>3, <2>4, <2>5, FollowsPut
  <1>2. ASSUME NEW r \in Requests, LoginRefused(r) PROVE Follows'
    <2>1. Puts(r, Idle)
      BY <1>2 DEF LoginRefused, Go, Puts
    <2>2. issued' = issued /\ refresh' \subseteq refresh /\ ~At(r, "reset", "revoke")
      BY <1>2 DEF LoginRefused, Go, At, redis
    <2>3. seen'.waves = seen.waves /\ SeenGrows
      BY <1>0, <1>2 DEF LoginRefused, SeenGrows, RowTyped, Seen
    <2>4. Idle = Idle \/ Stamped(Idle, seen.waves)
      OBVIOUS
    <2>5. \/ seen'.clobbered
          \/ /\ cred'.pw = cred.pw
             /\ Settled /\ FreshAt(Idle, seen.waves) => PwOf(Idle) = cred.pw
      BY <1>2 DEF LoginRefused, FreshAt, SessionOps
    <2>. QED
      BY <1>0, <2>1, <2>2, <2>3, <2>4, <2>5, FollowsPut
  <1>3. ASSUME NEW r \in Requests, LoginFailed(r) PROVE Follows'
    <2>0. req[r] \in Request /\ req[r] # Idle
      BY <1>0, <1>3, BusyType DEF LoginFailed, At, Busy
    <2>1. Puts(r, Idle)
      BY <1>3 DEF LoginFailed, Go, Puts
    <2>2. issued' = issued /\ refresh' \subseteq refresh /\ ~At(r, "reset", "revoke")
      BY <1>3 DEF LoginFailed, Go, At, redis
    <2>3. seen'.waves = seen.waves /\ SeenGrows
      BY <1>0, <1>3 DEF LoginFailed, SeenGrows, RowTyped, Seen, Save
    <2>4. Idle = Idle \/ Stamped(Idle, seen.waves)
      OBVIOUS
    <2>5. \/ seen'.clobbered
          \/ /\ cred'.pw = cred.pw
             /\ Settled /\ FreshAt(Idle, seen.waves) => PwOf(Idle) = cred.pw
      <3>1. seen'.clobbered \/ cred'.pw = cred.pw
        BY <1>0, <1>3, LoginRow
      <3>. QED
        BY <3>1 DEF FreshAt
    <2>. QED
      BY <1>0, <2>1, <2>2, <2>3, <2>4, <2>5, FollowsPut
  <1>4. ASSUME NEW r \in Requests, LoginCleared(r) PROVE Follows'
    <2>0. req[r] \in Request /\ req[r] # Idle
      BY <1>0, <1>4, BusyType DEF LoginCleared, At, Busy
    <2>. DEFINE x == [req[r] EXCEPT !.pc = "facts", !.row = NoRow]
    <2>1. Puts(r, x)
      BY <1>4 DEF LoginCleared, Go, Puts
    <2>2. issued' = issued /\ refresh' \subseteq refresh /\ ~At(r, "reset", "revoke")
      BY <1>4 DEF LoginCleared, Go, At, redis
    <2>3. seen'.waves = seen.waves /\ SeenGrows
      BY <1>0, <1>4 DEF LoginCleared, SeenGrows, RowTyped, Seen, Save
    <2>4. Stamped(x, seen.waves)
      BY <1>4, <2>0 DEF LoginCleared, At, Follows, Dated, Request, Stamped, SessionOps
    <2>5. \/ seen'.clobbered
          \/ /\ cred'.pw = cred.pw
             /\ Settled /\ FreshAt(x, seen.waves) => PwOf(x) = cred.pw
      <3>1. seen'.clobbered \/ cred'.pw = cred.pw
        BY <1>0, <1>4, LoginRow
      <3>2. x.pw = req[r].row.pw /\ x.auth = req[r].auth /\ x.late = req[r].late
        BY <1>4, <2>0 DEF LoginCleared, Request
      <3>3. x.pc = "facts" /\ req[r].pc = "compare" /\ req[r].op = "login"
        BY <1>4, <2>0 DEF LoginCleared, At, Request
      <3>4. Settled /\ FreshAt(x, seen.waves) => PwOf(x) = cred.pw
        <4>1. FreshAt(x, seen.waves) => FreshAt(req[r], seen.waves)
          BY <2>0, <3>2, <3>3 DEF FreshAt, SessionOps
        <4>2. PwOf(x) = x.pw /\ PwOf(req[r]) = req[r].row.pw
          BY <3>3 DEF PwOf
        <4>. HIDE DEF x
        <4>. QED
          BY <3>2, <4>1, <4>2 DEF Settled
      <3>. QED
        BY <3>1, <3>4
    <2>. QED
      BY <1>0, <2>1, <2>2, <2>3, <2>4, <2>5, FollowsPut
  <1>5. ASSUME NEW r \in Requests, NEW t \in refresh, RefreshTake(r, t)
        PROVE  Follows'
    <2>0. t \in DOMAIN issued /\ issued[t].stored = seen.waves
      BY <1>0 DEF KeysTyped, Follows, Dated
    <2>. DEFINE x == Session("refresh", "find", issued[t].scope, issued[t].pw, {t}, issued[t].late)
    <2>1. Puts(r, x)
      BY <1>5 DEF RefreshTake, Start, Puts
    <2>2. issued' = issued /\ refresh' \subseteq refresh /\ ~At(r, "reset", "revoke")
      BY <1>5 DEF RefreshTake, Start, At, redis
    <2>3. seen'.waves = seen.waves /\ SeenGrows
      BY <1>0, <1>5 DEF RefreshTake, SeenGrows, RowTyped, Seen
    <2>4. Stamped(x, seen.waves)
      BY <1>00 DEF Session, Stamped
    <2>5. \/ seen'.clobbered
          \/ /\ cred'.pw = cred.pw
             /\ Settled /\ FreshAt(x, seen.waves) => PwOf(x) = cred.pw
      BY <1>5, <2>0 DEF RefreshTake, FreshAt, SessionOps, PwOf, Session, Settled
    <2>. QED
      BY <1>0, <2>1, <2>2, <2>3, <2>4, <2>5, FollowsPut
  <1>6. ASSUME NEW r \in Requests, NEW t \in refresh, ExitTake(r, t)
        PROVE  Follows'
    <2>0. t \in DOMAIN issued /\ issued[t].stored = seen.waves
      BY <1>0 DEF KeysTyped, Follows, Dated
    <2>. DEFINE x == Session("exit", "saved", Global, issued[t].pw, {t}, issued[t].late)
    <2>1. Puts(r, x)
      BY <1>6 DEF ExitTake, Start, Puts
    <2>2. issued' = issued /\ refresh' \subseteq refresh /\ ~At(r, "reset", "revoke")
      BY <1>6 DEF ExitTake, Start, At, redis
    <2>3. seen'.waves = seen.waves /\ SeenGrows
      BY <1>0, <1>6 DEF ExitTake, SeenGrows, RowTyped, Seen
    <2>4. Stamped(x, seen.waves)
      BY <1>00 DEF Session, Stamped
    <2>5. \/ seen'.clobbered
          \/ /\ cred'.pw = cred.pw
             /\ Settled /\ FreshAt(x, seen.waves) => PwOf(x) = cred.pw
      BY <1>6, <2>0 DEF ExitTake, FreshAt, SessionOps, PwOf, Session, Settled
    <2>. QED
      BY <1>0, <2>1, <2>2, <2>3, <2>4, <2>5, FollowsPut
  <1>7. ASSUME NEW r \in Requests, NEW a \in access, NEW company \in Companies,
               SwitchStart(r, a, company)
        PROVE  Follows'
    <2>0. a \in DOMAIN issued
      BY <1>0 DEF KeysTyped
    <2>1. PICK cookie \in {0, a} :
            Puts(r, [Session("switch", "facts", company, issued[a].pw, {}, issued[a].late)
                       EXCEPT !.auth = issued[a].stored, !.jti = cookie])
      BY <1>7 DEF SwitchStart, Start, Puts
    <2>. DEFINE x == [Session("switch", "facts", company, issued[a].pw, {}, issued[a].late)
                         EXCEPT !.auth = issued[a].stored, !.jti = cookie]
    <2>3. UNCHANGED <<issued, refresh, seen, cred>> /\ ~At(r, "reset", "revoke")
      BY <1>7 DEF SwitchStart, Start, At
    <2>4. Stamped(x, seen.waves)
      BY <1>00, <2>0 DEF Session, Follows, Dated, Stamped
    <2>5. Settled /\ FreshAt(x, seen.waves) => PwOf(x) = cred.pw
      BY <2>0 DEF Session, FreshAt, SessionOps, PwOf, Settled
    <2>. QED
      BY <1>0, <2>1, <2>3, <2>4, <2>5, FollowsPut DEF SeenGrows
  <1>8. ASSUME NEW r \in Requests, SwitchFacts(r) PROVE Follows'
    <2>0. req[r] \in Request /\ req[r] # Idle
      BY <1>0, <1>8, BusyType DEF SwitchFacts, At, Busy
    <2>. DEFINE x == [req[r] EXCEPT !.pc = "find"]
    <2>1. Puts(r, x)
      BY <1>8 DEF SwitchFacts, Go, Puts
    <2>2. issued' = issued /\ refresh' \subseteq refresh /\ ~At(r, "reset", "revoke")
      BY <1>8 DEF SwitchFacts, Go, At, redis
    <2>3. seen'.waves = seen.waves /\ SeenGrows
      BY <1>0, <1>8 DEF SwitchFacts, SeenGrows, RowTyped, Seen
    <2>4. Stamped(x, seen.waves)
      BY <1>8, <2>0 DEF SwitchFacts, At, Follows, Dated, Request, Stamped, SessionOps
    <2>5. \/ seen'.clobbered
          \/ /\ cred'.pw = cred.pw
             /\ Settled /\ FreshAt(x, seen.waves) => PwOf(x) = cred.pw
      BY <1>0, <1>8, <2>0 DEF SwitchFacts, At, FreshAt, SessionOps, PwOf, Settled, Request,
         RowTyped, Row, Seen
    <2>. QED
      BY <1>0, <2>1, <2>2, <2>3, <2>4, <2>5, FollowsPut
  <1>9. ASSUME NEW r \in Requests, ExitSaved(r) PROVE Follows'
    <2>0. req[r] \in Request /\ req[r] # Idle
      BY <1>0, <1>9, BusyType DEF ExitSaved, At, Busy
    <2>. DEFINE x == [req[r] EXCEPT !.pc = "global", !.jti = saved]
    <2>1. Puts(r, x)
      BY <1>9 DEF ExitSaved, Go, Puts
    <2>2. issued' = issued /\ refresh' \subseteq refresh /\ ~At(r, "reset", "revoke")
      BY <1>9 DEF ExitSaved, Go, At, redis
    <2>3. seen'.waves = seen.waves /\ SeenGrows
      BY <1>0, <1>9 DEF ExitSaved, SeenGrows, RowTyped, Seen
    <2>4. Stamped(x, seen.waves)
      BY <1>9, <2>0 DEF ExitSaved, At, Follows, Dated, Request, Stamped, SessionOps
    <2>5. \/ seen'.clobbered
          \/ /\ cred'.pw = cred.pw
             /\ Settled /\ FreshAt(x, seen.waves) => PwOf(x) = cred.pw
      BY <1>0, <1>9, <2>0
         DEF ExitSaved, At, FreshAt, SessionOps, PwOf, Settled, Request, RowTyped, Row, Seen
    <2>. QED
      BY <1>0, <2>1, <2>2, <2>3, <2>4, <2>5, FollowsPut
  <1>10. ASSUME NEW r \in Requests, ExitGlobal(r) PROVE Follows'
    <2>0. req[r] \in Request /\ req[r] # Idle /\ req[r].jti \in refresh
      BY <1>0, <1>10, BusyType DEF ExitGlobal, At, Busy
    <2>. DEFINE g == req[r].jti
                x == [req[r] EXCEPT !.pc = "find", !.pw = issued[g].pw, !.spent = @ \cup {g},
                                     !.auth = seen.waves, !.late = issued[g].late]
    <2>2. Puts(r, x) /\ refresh' \subseteq refresh
      BY <1>10 DEF ExitGlobal, Go, Puts
    <2>3. UNCHANGED <<issued, seen, cred>> /\ ~At(r, "reset", "revoke")
      BY <1>10 DEF ExitGlobal, At
    <2>4. g \in DOMAIN issued /\ issued[g].stored = seen.waves
      BY <1>0, <2>0 DEF KeysTyped, Follows, Dated
    <2>5. Stamped(x, seen.waves)
      BY <1>00, <2>0 DEF Request, Stamped
    <2>6. Settled /\ FreshAt(x, seen.waves) => PwOf(x) = cred.pw
      BY <2>0, <2>4 DEF Request, FreshAt, SessionOps, PwOf, Settled
    <2>. QED
      BY <1>0, <2>2, <2>3, <2>5, <2>6, FollowsPut DEF SeenGrows
  <1>11. ASSUME NEW r \in Requests, Find(r) PROVE Follows'
    <2>0. req[r] \in Request /\ req[r] # Idle
      BY <1>0, <1>11, BusyType DEF Find, At, Busy
    <2>. DEFINE x == [req[r] EXCEPT !.pc = IF req[r].op = "switch" THEN "store" ELSE "facts"]
    <2>1. Puts(r, x)
      BY <1>11 DEF Find, Go, Puts
    <2>2. issued' = issued /\ refresh' \subseteq refresh /\ ~At(r, "reset", "revoke")
      BY <1>11 DEF Find, Go, At, redis
    <2>3. seen'.waves = seen.waves /\ SeenGrows
      BY <1>0, <1>11 DEF Find, SeenGrows, RowTyped, Seen
    <2>4. Stamped(x, seen.waves)
      BY <1>11, <2>0 DEF Find, At, Follows, Dated, Request, Stamped, SessionOps
    <2>5. \/ seen'.clobbered
          \/ /\ cred'.pw = cred.pw
             /\ Settled /\ FreshAt(x, seen.waves) => PwOf(x) = cred.pw
      BY <1>0, <1>11, <2>0 DEF Find, At, FreshAt, SessionOps, PwOf, Settled, Request,
         RowTyped, Row, Seen, Follows
    <2>. QED
      BY <1>0, <2>1, <2>2, <2>3, <2>4, <2>5, FollowsPut
  <1>12. ASSUME NEW r \in Requests, Facts(r) PROVE Follows'
    <2>0. req[r] \in Request /\ req[r] # Idle
      BY <1>0, <1>12, BusyType DEF Facts, Busy
    <2>1. PICK super \in Answers(user.super, cache.super) :
            Puts(r, [req[r] EXCEPT !.pc = "store", !.super = super[1] /\ req[r].scope = Global])
      BY <1>12 DEF Facts, Go, Puts
    <2>. DEFINE x == [req[r] EXCEPT !.pc = "store", !.super = super[1] /\ req[r].scope = Global]
    <2>3. UNCHANGED <<issued, refresh, seen, cred>> /\ ~At(r, "reset", "revoke")
      BY <1>12 DEF Facts, At
    <2>4. Stamped(x, seen.waves)
      BY <1>12, <2>0 DEF Facts, Follows, Dated, Request, Stamped, SessionOps
    <2>5. Settled /\ FreshAt(x, seen.waves) => PwOf(x) = cred.pw
      BY <1>12, <2>0 DEF Facts, FreshAt, SessionOps, PwOf, Settled, Request
    <2>. QED
      BY <1>0, <2>1, <2>3, <2>4, <2>5, FollowsPut DEF SeenGrows
  <1>13. ASSUME NEW r \in Requests, Store(r) PROVE Follows'
    <2>0. req[r] \in Request /\ req[r] # Idle /\ req[r].pc = "store"
      BY <1>0, <1>13, BusyType DEF Store, Busy
    <2>1. /\ req' = [req EXCEPT ![r] = Idle] /\ UNCHANGED <<seen, cred>>
          /\ refresh' = refresh \cup {Len(issued) + 1}
      BY <1>13 DEF Store, Go
    <2>2. req'[r] = Idle /\ \A q \in Requests \ {r} : req'[q] = req[q]
      BY <1>0, <2>1 DEF RequestsTyped
    <2>3. Dated'
      BY <1>0, <1>00, <1>13, <2>1, <2>2, StoreAppends DEF Dated, Follows, KeysTyped
    <2>4. Revoking => Revoking'
      BY <2>0, <2>2 DEF Revoking, At
    <2>5. ASSUME Settled PROVE Settled'
      <3>. DEFINE new == Len(issued) + 1
      <3>1. issued'[new].stored = seen.waves /\ ~issued'[new].late => issued'[new].pw = cred.pw
        BY <1>0, <1>13, <2>0, <2>5, StoreAppends
           DEF Follows, Dated, Stamped, Settled, FreshAt, PwOf
      <3>2. \A t \in DOMAIN issued' :
              issued'[t].stored = seen.waves /\ ~issued'[t].late => issued'[t].pw = cred.pw
        BY <1>0, <1>13, <2>5, <3>1, StoreAppends DEF Settled
      <3>3. \A q \in Requests : FreshAt(req'[q], seen.waves) => PwOf(req'[q]) = cred.pw
        BY <2>2, <2>5 DEF Settled, FreshAt
      <3>. QED
        BY <2>1, <3>2, <3>3 DEF Settled
    <2>. QED
      BY <2>1, <2>3, <2>4, <2>5 DEF Follows
  <1>14. ASSUME NEW r \in Requests, Logout(r) PROVE Follows'
    <2>1. issued' = issued /\ refresh' = {} /\ seen'.waves = seen.waves + 1
      BY <1>0, <1>14 DEF Logout, Revoke, RowTyped, Seen
    <2>2. \A q \in Requests : req'[q] \in {req[q], Idle}
      BY <1>0, <1>14 DEF Logout, Go, RequestsTyped
    <2>. QED
      BY <1>0, <2>1, <2>2, NewWave
  <1>15. ASSUME NEW r \in Requests, ResetTake(r) PROVE Follows'
    <2>. DEFINE x == Session("reset", "find", Global, 0, {}, FALSE)
    <2>1. Puts(r, x)
      BY <1>15 DEF ResetTake, Start, Puts
    <2>2. issued' = issued /\ refresh' \subseteq refresh /\ ~At(r, "reset", "revoke")
      BY <1>15 DEF ResetTake, Start, At, redis
    <2>3. seen'.waves = seen.waves /\ SeenGrows
      BY <1>0, <1>15 DEF ResetTake, SeenGrows, RowTyped, Seen
    <2>4. Stamped(x, seen.waves)
      BY <1>00 DEF Session, Stamped
    <2>5. \/ seen'.clobbered
          \/ /\ cred'.pw = cred.pw
             /\ Settled /\ FreshAt(x, seen.waves) => PwOf(x) = cred.pw
      BY <1>15 DEF ResetTake, FreshAt, SessionOps, PwOf, Session
    <2>. QED
      BY <1>0, <2>1, <2>2, <2>3, <2>4, <2>5, FollowsPut
  <1>16. ASSUME NEW r \in Requests, ResetFind(r) PROVE Follows'
    <2>0. req[r] \in Request /\ req[r] # Idle
      BY <1>0, <1>16, BusyType DEF ResetFind, At, Busy
    <2>. DEFINE x == [req[r] EXCEPT !.pc = "save", !.row = cred]
    <2>1. Puts(r, x)
      BY <1>16 DEF ResetFind, Go, Puts
    <2>2. issued' = issued /\ refresh' \subseteq refresh /\ ~At(r, "reset", "revoke")
      BY <1>16 DEF ResetFind, Go, At, redis
    <2>3. seen'.waves = seen.waves /\ SeenGrows
      BY <1>0, <1>16 DEF ResetFind, SeenGrows, RowTyped, Seen
    <2>4. Stamped(x, seen.waves)
      BY <1>16, <2>0 DEF ResetFind, At, Follows, Dated, Request, Stamped, SessionOps
    <2>5. \/ seen'.clobbered
          \/ /\ cred'.pw = cred.pw
             /\ Settled /\ FreshAt(x, seen.waves) => PwOf(x) = cred.pw
      BY <1>0, <1>16, <2>0
         DEF ResetFind, At, FreshAt, SessionOps, PwOf, Settled, Request, RowTyped, Row, Seen
    <2>. QED
      BY <1>0, <2>1, <2>2, <2>3, <2>4, <2>5, FollowsPut
  <1>17. ASSUME NEW r \in Requests, ResetSave(r) PROVE Follows'
    <2>0. req[r] \in Request /\ req[r] # Idle /\ req[r].op = "reset"
      BY <1>0, <1>17, BusyType DEF ResetSave, At, Busy
    <2>1. Puts(r, [req[r] EXCEPT !.pc = "revoke", !.row = NoRow])
      BY <1>17 DEF ResetSave, Go, Puts
    <2>2. /\ req'[r] = [req[r] EXCEPT !.pc = "revoke", !.row = NoRow]
          /\ \A q \in Requests \ {r} : req'[q] = req[q]
      BY <1>0, <2>1, PutsSlots
    <2>3. UNCHANGED <<issued, refresh>> /\ seen'.waves = seen.waves
      BY <1>0, <1>17 DEF ResetSave, redis, RowTyped, Seen
    <2>4. Dated'
      BY <2>0, <2>2, <2>3 DEF Dated, Follows, Request, Stamped
    <2>5. Revoking'
      <3>1. req'[r].op = "reset" /\ req'[r].pc = "revoke"
        BY <2>0, <2>2 DEF Request
      <3>2. req'[r] # Idle
        BY <3>1 DEF Idle
      <3>. QED
        BY <3>1, <3>2 DEF Revoking, At
    <2>. QED
      BY <2>4, <2>5 DEF Follows
  <1>18. ASSUME NEW r \in Requests, ResetRevoke(r) PROVE Follows'
    <2>1. issued' = issued /\ refresh' = {} /\ seen'.waves = seen.waves + 1
      BY <1>0, <1>18 DEF ResetRevoke, Revoke, RowTyped, Seen
    <2>2. \A q \in Requests : req'[q] \in {req[q], Idle}
      BY <1>0, <1>18 DEF ResetRevoke, Go, RequestsTyped
    <2>. QED
      BY <1>0, <2>1, <2>2, NewWave
  <1>19. ASSUME NEW r \in Requests, NEW status \in {"ACTIVE", "DISABLED"}, AdminFind(r, status)
        PROVE  Follows'
    <2>. DEFINE x == [Session(status, "save", Global, 0, {}, FALSE) EXCEPT !.row = cred]
    <2>1. Puts(r, x)
      BY <1>19 DEF AdminFind, Start, Puts
    <2>2. issued' = issued /\ refresh' \subseteq refresh /\ ~At(r, "reset", "revoke")
      BY <1>19 DEF AdminFind, Start, At, redis
    <2>3. seen'.waves = seen.waves /\ SeenGrows
      BY <1>0, <1>19 DEF AdminFind, SeenGrows, RowTyped, Seen
    <2>4. Stamped(x, seen.waves)
      BY <1>00 DEF Session, Stamped
    <2>5. \/ seen'.clobbered
          \/ /\ cred'.pw = cred.pw
             /\ Settled /\ FreshAt(x, seen.waves) => PwOf(x) = cred.pw
      BY <1>19 DEF AdminFind, FreshAt, SessionOps, PwOf, Session
    <2>. QED
      BY <1>0, <2>1, <2>2, <2>3, <2>4, <2>5, FollowsPut
  <1>20. ASSUME NEW r \in Requests, AdminSave(r) PROVE Follows'
    <2>0. req[r] \in Request /\ req[r] # Idle
      BY <1>0, <1>20, BusyType DEF AdminSave, At, Busy
    <2>1. Puts(r, Idle)
      BY <1>20 DEF AdminSave, Go, Puts
    <2>2. issued' = issued /\ refresh' \subseteq refresh /\ ~At(r, "reset", "revoke")
      BY <1>20 DEF AdminSave, Go, At, redis
    <2>3. seen'.waves = seen.waves /\ SeenGrows
      BY <1>0, <1>20 DEF AdminSave, SeenGrows, RowTyped, Seen
    <2>4. Idle = Idle \/ Stamped(Idle, seen.waves)
      OBVIOUS
    <2>5. \/ seen'.clobbered
          \/ /\ cred'.pw = cred.pw
             /\ Settled /\ FreshAt(Idle, seen.waves) => PwOf(Idle) = cred.pw
      <3>1. seen'.clobbered \/ cred'.pw = cred.pw
        BY <1>0, <2>0, <1>20 DEF AdminSave, RowTyped, Row, Seen, Request
      <3>. QED
        BY <3>1 DEF FreshAt
    <2>. QED
      BY <1>0, <2>1, <2>2, <2>3, <2>4, <2>5, FollowsPut
  <1>21. ASSUME NEW r \in Requests, Fail(r) PROVE Follows'
    <2>1. Puts(r, Idle) /\ UNCHANGED <<cred, issued, refresh>>
      BY <1>21 DEF Fail, Go, Puts, redis
    <2>2. seen'.waves = seen.waves /\ SeenGrows
      BY <1>0, <1>21 DEF Fail, SeenGrows, RowTyped, Seen
    <2>3. CASE ~At(r, "reset", "revoke")
      BY <1>0, <2>1, <2>2, <2>3, FollowsPut DEF FreshAt, SessionOps
    <2>4. CASE At(r, "reset", "revoke")
      <3>1. seen'.unrevoked
        BY <1>0, <1>21, <2>4 DEF Fail, At, RowTyped, Seen
      <3>2. Dated'
        BY <1>0, <2>1, <2>2, PutsSlots DEF Dated, Follows
      <3>. QED
        BY <3>1, <3>2 DEF Follows
    <2>. QED
      BY <2>3, <2>4
  <1>22. CASE Demote
    BY <1>0, <1>22, FollowsStays DEF Demote, SeenGrows, redis, RowTyped, Seen
  <1>23. CASE DemoteRevoke
    <2>1. issued' = issued /\ refresh' = {} /\ seen'.waves = seen.waves + 1
      BY <1>0, <1>23 DEF DemoteRevoke, Revoke, RowTyped, Seen
    <2>2. \A q \in Requests : req'[q] \in {req[q], Idle}
      BY <1>0, <1>23 DEF DemoteRevoke, Go, RequestsTyped
    <2>. QED
      BY <1>0, <2>1, <2>2, NewWave
  <1>24. CASE DemoteLost
    BY <1>0, <1>24, FollowsStays DEF DemoteLost, SeenGrows, redis, RowTyped, Seen
  <1>25. CASE LockOver
    <2>1. cred'.pw = cred.pw /\ UNCHANGED <<issued, refresh, seen>>
      BY <1>0, <1>25 DEF LockOver, RowTyped, Row, redis
    <2>2. \A q \in Requests :
            \/ req[q] = Idle /\ req'[q] = Idle
            \/ /\ req[q] # Idle /\ req'[q] # Idle
               /\ req'[q].op = req[q].op /\ req'[q].pc = req[q].pc
               /\ req'[q].auth = req[q].auth /\ req'[q].late = req[q].late
               /\ req'[q].pw = req[q].pw /\ req'[q].row.pw = req[q].row.pw
      <3>. SUFFICES ASSUME NEW q \in Requests, Busy(q)
                    PROVE  /\ req'[q] # Idle
                           /\ req'[q].op = req[q].op /\ req'[q].pc = req[q].pc
                           /\ req'[q].auth = req[q].auth /\ req'[q].late = req[q].late
                           /\ req'[q].pw = req[q].pw /\ req'[q].row.pw = req[q].row.pw
        BY <1>25 DEF LockOver, Busy
      <3>1. req[q] \in Request
        BY <1>0, BusyType
      <3>2. req'[q] = [req[q] EXCEPT !.row.lock = IF @ = "running" THEN "over" ELSE @]
        BY <1>25 DEF LockOver, Busy
      <3>3. req'[q] \in Request
        BY <3>1, <3>2 DEF Request, Row
      <3>. QED
        BY <3>1, <3>2, <3>3, IdleNotRequest DEF Request, Row
    <2>3. Dated'
      BY <2>1, <2>2 DEF Dated, Follows, Stamped
    <2>4. Revoking => Revoking'
      BY <2>2 DEF Revoking, At
    <2>5. Settled => Settled'
      BY <2>1, <2>2 DEF Settled, FreshAt, SessionOps, PwOf
    <2>. QED
      BY <2>1, <2>3, <2>4, <2>5 DEF Follows
  <1>26. ASSUME NEW company \in Companies, LeaveCompany(company) PROVE Follows'
    BY <1>26, <1>0, FollowsStays DEF LeaveCompany, SeenGrows, redis, outside
  <1>27. ASSUME NEW t \in access, AccessExpires(t) PROVE Follows'
    BY <1>27, <1>0, FollowsStays DEF AccessExpires, SeenGrows, redis, outside
  <1>28. CASE \/ ForgotPassword \/ MarkerExpires \/ CacheExpires
            \/ UNCHANGED vars
    BY <1>28, <1>0, FollowsStays DEF ForgotPassword, MarkerExpires,
       CacheExpires, vars, SeenGrows, redis, outside
  <1>. QED
    BY <1>1, <1>2, <1>3, <1>4, <1>5, <1>6, <1>7, <1>8, <1>9, <1>10, <1>11,
       <1>12, <1>13, <1>14, <1>15, <1>16, <1>17, <1>18, <1>19, <1>20, <1>21,
       <1>22, <1>23, <1>24, <1>25, <1>26, <1>27, <1>28 DEF Next

\* After a reset every session that no revocation overtook began with the
\* password of the row: SessionsFollowPassword, however logins, exchanges,
\* switches, resets and revocations cross.
THEOREM SessionsFollowPasswordCorrect == Spec => []SessionsFollowPassword
  <1>1. Init => Follows
    BY DEF Init, Follows, Dated, Settled, FreshAt, SessionOps
  <1>2. Typed /\ Follows => SessionsFollowPassword
    BY DEF Typed, KeysTyped, Follows, Dated, Settled, Revoking, SessionsFollowPassword
  <1>. QED
    BY <1>1, <1>2, FollowsStep, TypedAlways, PTL DEF Spec
=============================================================================
