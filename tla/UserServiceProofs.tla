------------------------- MODULE UserServiceProofs -------------------------
(***************************************************************************)
(* Accounts for any number of requests at a time and in all, invitations,  *)
(* avatars, crashes, timeouts and failed writes; in the second part        *)
(* Access, and in the third RoleMigrations.                                *)
(*                                                                         *)
(* The argument about the cached permissions: an entry that is wrong has a *)
(* request that will still drop it, unless it is known to be stale.  About *)
(* the organization: a live one that nothing excuses never was removed,    *)
(* and a deleted one with members has a sweep in course.  About the        *)
(* migrations: the database is at the level of the migrations applied, and *)
(* the tables before each one come back from those after it.               *)
(***************************************************************************)
EXTENDS Accounts, Access, RoleMigrations, TLAPS

-----------------------------------------------------------------------------
(* Types *)

Copies == Credential \cup {NoCred, NotRead}

Steps == [ create    |-> {"insert", "invite"},
           complete  |-> {"call", "write", "clean"},
           provision |-> {"call"},
           remove    |-> {"call", "write", "undo"},
           restore   |-> {"call", "write", "undo"},
           enable    |-> {"call", "write", "undo"},
           disable   |-> {"call", "revoke", "write", "undo"},
           edit      |-> {"write"},
           avatar    |-> {"reread", "write", "clean"} ]

Operations == {"create", "complete", "provision", "remove", "restore", "enable",
               "disable", "edit", "avatar"}

Positions == {"insert", "invite", "call", "revoke", "write", "undo", "clean", "reread"}

\* A request is where its operation can be, has read the row unless it is a
\* creation, and holds a copy of the credential only during a call.
Request ==
    { x \in [ op : Operations, pc : Positions, copy : User \cup {NoUser}, got : Copies,
              pw : Nat \ {0}, token : Nat, new : Nat, alone : BOOLEAN ] :
        /\ x.pc \in Steps[x.op]
        /\ x.op # "create" => x.copy # NoUser
        /\ x.got # NotRead => x.pc \in {"call", "undo"} }

Orphan == [call : {"enable", "disable", "provision"}, got : Copies, pw : Nat \ {0}]

Observation == [ sure : BOOLEAN, removal : {"none", "alone", "crossed", "undone"},
                 reopened : BOOLEAN, expired : BOOLEAN, clobbered : BOOLEAN ]

Slots == req \in [Requests -> Request \cup {Idle}]

\* Before the user is inserted nobody is invited, and only a creation runs.
Present ==
    user = NoUser =>
        issued = 0 /\ \A r \in Requests : req[r] # Idle => req[r].pc = "insert"

Typed ==
    /\ user \in User \cup {NoUser}
    /\ cred \in Credential \cup {NoCred}
    /\ issued \in Nat /\ tokens \subseteq 1..issued
    /\ uploads \in Nat /\ store \subseteq 1..uploads
    /\ Slots /\ orphans \subseteq Orphan
    /\ starts \in Nat /\ faults \in Nat
    /\ seen \in Observation
    /\ Present

LEMMA RequestNotIdle == Idle \notin Request
  <1>1. \A x \in Request : x.op \in Operations
    BY DEF Request
  <1>2. Idle.op \notin Operations
    BY DEF Idle, Operations
  <1>. QED
    BY <1>1, <1>2

LEMMA InCourse ==
    ASSUME Slots, NEW r \in Requests, req[r] # Idle
    PROVE  req[r] \in Request
  BY DEF Slots

LEMMA NobodyFacts ==
    /\ NoUser \notin User /\ ~NoUser.gone /\ NoUser.status = "none"
    /\ NoCred \notin Credential /\ NoCred.status = "none"
    /\ NotRead \notin Credential \cup {NoCred}
  BY DEF NoUser, User, NoCred, Credential, NotRead

LEMMA TypeOKOfTyped == Typed => TypeOK
  <1>. SUFFICES ASSUME Typed PROVE TypeOK
    OBVIOUS
  <1>1. \A r \in Requests : req[r] # Idle =>
          /\ req[r].copy \in User \cup {NoUser}
          /\ req[r].got \in Credential \cup {NoCred, NotRead}
    BY InCourse DEF Typed, Request, Copies
  <1>2. \A o \in orphans : o.call \in {"enable", "disable", "provision"}
    BY DEF Typed, Orphan
  <1>. QED
    BY <1>1, <1>2 DEF Typed, TypeOK

-----------------------------------------------------------------------------
(* What the helpers of the actions do to the requests *)

\* Only the slot of r changes.
Moves(r) == Slots' /\ \A s \in Requests \ {r} : req'[s] = req[s]

\* r goes on at pc, with its copies of the rows perhaps renewed.
Carries(r, pc) ==
    /\ Moves(r) /\ req'[r] \in Request
    /\ req'[r].pc = pc /\ req'[r].op = req[r].op /\ req'[r].pw = req[r].pw
    /\ req'[r].token = req[r].token /\ req'[r].new = req[r].new
    /\ req'[r].alone = req[r].alone

Goes(r, pc) ==
    Carries(r, pc) /\ req'[r].copy = req[r].copy /\ req'[r].got = req[r].got

LEMMA GoEffect ==
    ASSUME Slots, NEW r \in Requests, req[r] # Idle, NEW pc \in Positions, Go(r, pc),
           pc \in Steps[req[r].op], req[r].got # NotRead => pc \in {"call", "undo"}
    PROVE  Goes(r, pc)
  <1>. DEFINE x == [req[r] EXCEPT !.pc = pc]
  <1>1. req[r] \in Request
    BY InCourse
  <1>2. /\ x \in Request /\ x.pc = pc /\ x.op = req[r].op /\ x.copy = req[r].copy
        /\ x.got = req[r].got /\ x.pw = req[r].pw /\ x.token = req[r].token
        /\ x.new = req[r].new /\ x.alone = req[r].alone
    BY <1>1 DEF Request
  <1>3. req' = [req EXCEPT ![r] = x]
    BY DEF Go
  <1>. HIDE DEF x
  <1>. QED
    BY <1>2, <1>3 DEF Slots, Moves, Carries, Goes

LEMMA DoneEffect ==
    ASSUME Slots, NEW r \in Requests, Done(r)
    PROVE  Moves(r) /\ req'[r] = Idle
  BY DEF Slots, Done, Moves

\* All of s but whether it is alone.
Continues(s) ==
    /\ req'[s] \in Request
    /\ req'[s].pc = req[s].pc /\ req'[s].op = req[s].op /\ req'[s].copy = req[s].copy
    /\ req'[s].got = req[s].got /\ req'[s].pw = req[s].pw
    /\ req'[s].token = req[s].token /\ req'[s].new = req[s].new
    /\ ~req'[s].alone

\* What each operation begins with.
Begun(r, op, pc, token, new) ==
    /\ Slots' /\ req[r] = Idle /\ req'[r] \in Request
    /\ req'[r].op = op /\ req'[r].pc = pc /\ req'[r].copy = user
    /\ req'[r].got = NotRead /\ req'[r].token = token /\ req'[r].new = new
    /\ req'[r].alone = Quiet
    /\ \A s \in Requests \ {r} :
         IF req[s] = Idle THEN req'[s] = Idle ELSE Continues(s)
    /\ seen' \in Observation
    /\ seen'.sure = seen.sure /\ seen'.removal = seen.removal
    /\ seen'.reopened = (seen.reopened \/ op = "restore")
    /\ seen'.expired = seen.expired /\ seen'.clobbered = seen.clobbered
    /\ starts' \in Nat

LEMMA BeginEffect ==
    ASSUME Typed, NEW r \in Requests, NEW op \in Operations, NEW pc \in Steps[op],
           pc \in Positions, NEW token \in Nat, NEW new \in Nat,
           op # "create" => user # NoUser, Begin(r, op, pc, token, new)
    PROVE  Begun(r, op, pc, token, new)
  <1>1. /\ req[r] = Idle /\ starts \in Nat /\ starts' = starts + 1
        /\ seen' = [seen EXCEPT !.reopened = seen.reopened \/ op = "restore"]
        /\ seen \in Observation
    BY DEF Begin, Typed
  <1>2. PICK p \in Nat \ {0} : p = starts + 1
    BY <1>1
  <1>3. Quiet \in BOOLEAN
    BY DEF Quiet
  <1>. DEFINE x == [ op |-> op, pc |-> pc, copy |-> user, got |-> NotRead,
                     pw |-> p, token |-> token, new |-> new, alone |-> Quiet ]
  <1>4. x \in Request
    BY <1>3 DEF Request, Copies, Typed
  <1>5. /\ x.op = op /\ x.pc = pc /\ x.copy = user /\ x.got = NotRead /\ x.token = token
        /\ x.new = new /\ x.alone = Quiet
    OBVIOUS
  <1>6. req' = [s \in Requests |->
                 IF s = r THEN x
                 ELSE IF req[s] = Idle THEN Idle
                 ELSE [req[s] EXCEPT !.alone = FALSE]]
    BY <1>2 DEF Begin
  <1>. HIDE DEF x
  <1>7. \A s \in Requests : req[s] # Idle =>
          LET y == [req[s] EXCEPT !.alone = FALSE] IN
          /\ y \in Request
          /\ y.pc = req[s].pc /\ y.op = req[s].op /\ y.copy = req[s].copy
          /\ y.got = req[s].got /\ y.pw = req[s].pw
          /\ y.token = req[s].token /\ y.new = req[s].new
          /\ ~y.alone
    <2>. SUFFICES ASSUME NEW s \in Requests, req[s] \in Request
                  PROVE  LET y == [req[s] EXCEPT !.alone = FALSE] IN
                         /\ y \in Request
                         /\ y.pc = req[s].pc /\ y.op = req[s].op /\ y.copy = req[s].copy
                         /\ y.got = req[s].got /\ y.pw = req[s].pw
                         /\ y.token = req[s].token /\ y.new = req[s].new
                         /\ ~y.alone
      BY InCourse DEF Typed
    <2>. QED
      BY DEF Request
  <1>8. \A s \in Requests \ {r} :
          IF req[s] = Idle THEN req'[s] = Idle ELSE Continues(s)
    BY <1>6, <1>7 DEF Continues
  <1>9. Slots'
    BY <1>4, <1>6, <1>7 DEF Slots
  <1>10. /\ seen' \in Observation
         /\ seen'.sure = seen.sure /\ seen'.removal = seen.removal
         /\ seen'.reopened = (seen.reopened \/ op = "restore")
         /\ seen'.expired = seen.expired /\ seen'.clobbered = seen.clobbered
    BY <1>1 DEF Observation
  <1>11. starts' \in Nat /\ req'[r] = x
    BY <1>1, <1>6
  <1>. QED
    BY <1>1, <1>4, <1>5, <1>8, <1>9, <1>10, <1>11 DEF Begun

-----------------------------------------------------------------------------
(* What the steps do *)

\* Where an operation begins.
First == [ create    |-> {"insert", "invite"},
           complete  |-> {"call"},
           provision |-> {"call"},
           remove    |-> {"call"},
           restore   |-> {"call"},
           enable    |-> {"call"},
           disable   |-> {"call"},
           edit      |-> {"write"},
           avatar    |-> {"reread"} ]

Begins(r) ==
    \/ CreateFind(r) \/ ResendFind(r) \/ \E t \in tokens : CompleteFind(r, t)
    \/ ProvisionFind(r) \/ RemoveFind(r) \/ RestoreStart(r)
    \/ SwitchFind(r, "disable") \/ SwitchFind(r, "enable")
    \/ EditFind(r) \/ AvatarUpload(r)

\* A request begins; nobody but a restoration finds a deleted user.
Beginning(r, op, pc) ==
    /\ \E token, new \in Nat : Begun(r, op, pc, token, new)
    /\ user = NoUser => pc = "insert"
    /\ op # "restore" => ~user.gone
    /\ UNCHANGED <<user, cred, tokens, issued, orphans, faults>>
    /\ uploads' \in Nat /\ store' \subseteq 1..uploads'

LEMMA BeginsEffect ==
    ASSUME Typed, NEW r \in Requests, Begins(r)
    PROVE  \E op \in Operations : \E pc \in First[op] : Beginning(r, op, pc)
  <1>1. /\ uploads \in Nat /\ store \subseteq 1..uploads /\ issued \in Nat
        /\ tokens \subseteq 1..issued /\ user \in User \cup {NoUser}
    BY DEF Typed
  <1>2. 0 \in Nat /\ \A t \in tokens : t \in Nat
    BY <1>1
  <1>3. \A op \in Operations : \A pc \in First[op] : pc \in Steps[op] /\ pc \in Positions
    BY DEF Operations, First, Steps, Positions
  <1>4. ASSUME NEW op \in Operations, NEW pc \in First[op], NEW token \in Nat, NEW new \in Nat,
               Begin(r, op, pc, token, new), user = NoUser => pc = "insert",
               op # "create" => user # NoUser, op # "restore" => ~user.gone,
               UNCHANGED <<user, cred, tokens, issued, orphans, faults>>,
               uploads' \in Nat, store' \subseteq 1..uploads'
        PROVE  \E o \in Operations : \E p \in First[o] : Beginning(r, o, p)
    <2>1. Begun(r, op, pc, token, new)
      BY <1>3, <1>4, BeginEffect
    <2>. QED
      BY <1>4, <2>1 DEF Beginning
  <1>5. Live => user # NoUser /\ ~user.gone
    BY DEF Live
  <1>6. CASE CreateFind(r)
    <2>. DEFINE pc == IF user = NoUser THEN "insert" ELSE "invite"
    <2>1. /\ Begin(r, "create", pc, 0, 0) /\ ~user.gone
          /\ UNCHANGED <<user, cred, tokens, issued, store, uploads, orphans, faults>>
      BY <1>6 DEF CreateFind
    <2>2. pc \in First["create"] /\ "create" \in Operations /\ (user = NoUser => pc = "insert")
      BY DEF First, Operations
    <2>. HIDE DEF pc
    <2>. QED
      BY <1>1, <1>2, <1>4, <2>1, <2>2
  <1>7. CASE ResendFind(r)
    <2>1. "invite" \in First["create"] /\ "create" \in Operations
      BY DEF First, Operations
    <2>. QED
      BY <1>1, <1>2, <1>4, <1>5, <1>7, <2>1 DEF ResendFind
  <1>8. CASE \E t \in tokens : CompleteFind(r, t)
    <2>1. "call" \in First["complete"] /\ "complete" \in Operations
      BY DEF First, Operations
    <2>. QED
      BY <1>1, <1>2, <1>4, <1>5, <1>8, <2>1 DEF CompleteFind
  <1>9. CASE ProvisionFind(r)
    <2>1. "call" \in First["provision"] /\ "provision" \in Operations
      BY DEF First, Operations
    <2>. QED
      BY <1>1, <1>2, <1>4, <1>5, <1>9, <2>1 DEF ProvisionFind
  <1>10. CASE RemoveFind(r)
    <2>1. "call" \in First["remove"] /\ "remove" \in Operations
      BY DEF First, Operations
    <2>. QED
      BY <1>1, <1>2, <1>4, <1>5, <1>10, <2>1 DEF RemoveFind
  <1>11. CASE RestoreStart(r)
    <2>1. "call" \in First["restore"] /\ "restore" \in Operations
      BY DEF First, Operations
    <2>. QED
      BY <1>1, <1>2, <1>4, <1>11, <2>1 DEF RestoreStart
  <1>12. CASE SwitchFind(r, "disable") \/ SwitchFind(r, "enable")
    <2>1. /\ "call" \in First["disable"] /\ "disable" \in Operations
          /\ "call" \in First["enable"] /\ "enable" \in Operations
      BY DEF First, Operations
    <2>. QED
      BY <1>1, <1>2, <1>4, <1>5, <1>12, <2>1 DEF SwitchFind
  <1>13. CASE EditFind(r)
    <2>1. "write" \in First["edit"] /\ "edit" \in Operations
      BY DEF First, Operations
    <2>. QED
      BY <1>1, <1>2, <1>4, <1>5, <1>13, <2>1 DEF EditFind
  <1>14. CASE AvatarUpload(r)
    <2>1. "reread" \in First["avatar"] /\ "avatar" \in Operations
      BY DEF First, Operations
    <2>2. /\ Live /\ uploads' = uploads + 1 /\ store' = store \cup {uploads + 1}
          /\ Begin(r, "avatar", "reread", user.avatar, uploads + 1)
          /\ UNCHANGED <<user, cred, tokens, issued, orphans, faults>>
      BY <1>14 DEF AvatarUpload
    <2>3. PICK n \in Nat : n = uploads + 1
      BY <1>1
    <2>4. uploads' \in Nat /\ store' \subseteq 1..uploads'
      BY <1>1, <2>2
    <2>5. PICK a \in Nat : a = user.avatar
      BY <1>1, <1>5, <2>2 DEF User
    <2>. QED
      BY <1>4, <1>5, <2>1, <2>2, <2>3, <2>4, <2>5
  <1>. QED
    BY <1>6, <1>7, <1>8, <1>9, <1>10, <1>11, <1>12, <1>13, <1>14 DEF Begins

\* The row a write leaves, column by column.
LEMMA RowAfterColumns ==
    ASSUME Typed, NEW r \in Requests, At(r, "write")
    PROVE  /\ RowAfter(r) \in User
           /\ req[r].op \in {"remove", "restore"} =>
                /\ RowAfter(r).status = user.status /\ RowAfter(r).on = user.on
                /\ RowAfter(r).gone = (req[r].op = "remove")
           /\ req[r].op \notin {"remove", "restore"} =>
                /\ req[r].op # "complete" => RowAfter(r).status = req[r].copy.status
                /\ req[r].op \notin Deciding => RowAfter(r).on = req[r].copy.on
                /\ RowAfter(r).gone = req[r].copy.gone
           /\ req[r].op = "disable" => ~RowAfter(r).on
           /\ req[r].op \in {"enable", "complete"} => RowAfter(r).on
           /\ req[r].op = "complete" => RowAfter(r).status = "active"
  <1>1. /\ req[r] \in Request /\ req[r].pc = "write" /\ user # NoUser
        /\ req[r].op \in Operations
    BY InCourse DEF At, Typed, Present, Request
  <1>2. req[r].op \in {"complete", "remove", "restore", "enable", "disable", "edit", "avatar"}
    BY <1>1 DEF Request, Steps, Operations
  <1>3. user \in User /\ req[r].copy \in User /\ req[r].new \in Nat
    BY <1>1, <1>2 DEF Typed, Request
  <1>. DEFINE c == req[r].copy
  <1>4. CASE req[r].op = "remove"
    <2>1. RowAfter(r) = [user EXCEPT !.gone = TRUE]
      BY <1>4 DEF RowAfter
    <2>. QED
      BY <1>3, <1>4, <2>1 DEF User, Deciding
  <1>5. CASE req[r].op = "restore"
    <2>1. RowAfter(r) = [user EXCEPT !.gone = FALSE]
      BY <1>5 DEF RowAfter
    <2>. QED
      BY <1>3, <1>5, <2>1 DEF User, Deciding
  <1>6. CASE req[r].op = "disable"
    <2>1. RowAfter(r) = [c EXCEPT !.on = FALSE]
      BY <1>6 DEF RowAfter
    <2>. QED
      BY <1>3, <1>6, <2>1 DEF User, Deciding
  <1>7. CASE req[r].op = "enable"
    <2>1. RowAfter(r) = [c EXCEPT !.on = TRUE]
      BY <1>7 DEF RowAfter
    <2>. QED
      BY <1>3, <1>7, <2>1 DEF User, Deciding
  <1>8. CASE req[r].op = "complete"
    <2>1. RowAfter(r) = [c EXCEPT !.on = TRUE, !.status = "active"]
      BY <1>8 DEF RowAfter
    <2>. QED
      BY <1>3, <1>8, <2>1 DEF User, Deciding
  <1>9. CASE req[r].op = "avatar"
    <2>1. RowAfter(r) = [c EXCEPT !.avatar = req[r].new]
      BY <1>9 DEF RowAfter
    <2>. QED
      BY <1>3, <1>9, <2>1 DEF User, Deciding
  <1>10. CASE req[r].op = "edit"
    <2>1. RowAfter(r) = c
      BY <1>10 DEF RowAfter
    <2>. QED
      BY <1>3, <1>10, <2>1 DEF User, Deciding
  <1>. QED
    BY <1>2, <1>4, <1>5, <1>6, <1>7, <1>8, <1>9, <1>10

Stale(r) == Saves(r) /\ req[r].copy # user

\* What a write adds to the observation.
LEMMA NotedColumns ==
    ASSUME Typed, NEW r \in Requests, At(r, "write")
    PROVE  /\ Noted(r) \in Observation
           /\ Noted(r).clobbered = (seen.clobbered \/ Stale(r))
           /\ Noted(r).reopened = (seen.reopened /\ req[r].op # "remove")
           /\ Noted(r).expired = seen.expired
           /\ Noted(r).removal = "alone" =>
                IF req[r].op = "remove" THEN req[r].alone ELSE seen.removal = "alone"
           /\ Noted(r).sure =>
                /\ req[r].op \in Deciding \/ seen.sure
                /\ req[r].op \in Deciding \cup {"remove", "restore"} => req[r].alone
                /\ req[r].op = "restore" => (user.status = "active" => user.on)
                /\ req[r].op \notin Deciding \cup {"remove", "restore"} => ~Stale(r)
  <1>1. /\ req[r] \in Request /\ req[r].alone \in BOOLEAN /\ req[r].op \in Operations
        /\ user \in User /\ seen \in Observation
    BY InCourse DEF At, Typed, Present, Request
  <1>. DEFINE op == req[r].op
              stale == Saves(r) /\ req[r].copy # user
              rem == IF op # "remove" THEN seen.removal
                     ELSE IF req[r].alone THEN "alone" ELSE "crossed"
              sure == CASE op \in Deciding -> req[r].alone
                        [] op = "remove"   -> seen.sure /\ req[r].alone
                        [] op = "restore"  -> /\ seen.sure
                                              /\ req[r].alone
                                              /\ user.status = "active" => user.on
                        [] OTHER           -> seen.sure /\ ~stale
  <1>2. Noted(r) = [seen EXCEPT
                      !.clobbered = seen.clobbered \/ stale,
                      !.reopened = seen.reopened /\ op # "remove",
                      !.removal = rem,
                      !.sure = sure]
    BY DEF Noted
  <1>3. /\ rem \in {"none", "alone", "crossed", "undone"}
        /\ rem = "alone" => IF op = "remove" THEN req[r].alone ELSE seen.removal = "alone"
    BY <1>1 DEF Observation
  <1>4. /\ sure \in BOOLEAN
        /\ sure =>
             /\ op \in Deciding \/ seen.sure
             /\ op \in Deciding \cup {"remove", "restore"} => req[r].alone
             /\ op = "restore" => (user.status = "active" => user.on)
             /\ op \notin Deciding \cup {"remove", "restore"} => ~stale
    BY <1>1 DEF Observation, Deciding, User
  <1>5. stale \in BOOLEAN /\ stale = Stale(r)
    BY DEF Stale, Saves
  <1>. HIDE DEF stale, rem, sure
  <1>6. /\ Noted(r) \in Observation
        /\ Noted(r).clobbered = (seen.clobbered \/ stale)
        /\ Noted(r).reopened = (seen.reopened /\ op # "remove")
        /\ Noted(r).expired = seen.expired
        /\ Noted(r).removal = rem
        /\ Noted(r).sure = sure
    BY <1>1, <1>2, <1>3, <1>4, <1>5 DEF Observation
  <1>. QED
    BY <1>3, <1>4, <1>5, <1>6

LEMMA CreateSaveEffect ==
    ASSUME Typed, NEW r \in Requests, CreateSave(r)
    PROVE  /\ \/ user = NoUser /\ user' = NewUser /\ Goes(r, "invite")
              \/ user' = user /\ Moves(r) /\ req'[r] = Idle
           /\ req[r].pc = "insert" /\ req[r].op = "create" /\ req[r] # Idle
           /\ UNCHANGED <<cred, tokens, issued, store, uploads, orphans, starts,
                          faults, seen>>
  <1>1. req[r] # Idle /\ req[r].pc = "insert" /\ req[r] \in Request
    BY InCourse DEF CreateSave, At, Typed
  <1>2. req[r].op = "create" /\ req[r].got = NotRead
    BY <1>1 DEF Request, Steps, Operations
  <1>3. "invite" \in Positions /\ "invite" \in Steps[req[r].op]
    BY <1>2 DEF Positions, Steps
  <1>. QED
    BY <1>1, <1>2, <1>3, GoEffect, DoneEffect DEF CreateSave, Typed

LEMMA AvatarFindEffect ==
    ASSUME Typed, NEW r \in Requests, AvatarFind(r)
    PROVE  /\ \/ /\ Carries(r, "write") /\ req'[r].copy = user /\ user \in User
                 /\ req'[r].got = req[r].got
              \/ Moves(r) /\ req'[r] = Idle
           /\ req[r].pc = "reread" /\ req[r].op = "avatar" /\ req[r] # Idle
           /\ UNCHANGED <<user, cred, tokens, issued, store, uploads, orphans, starts,
                          faults, seen>>
  <1>1. req[r] # Idle /\ req[r].pc = "reread" /\ req[r] \in Request
    BY InCourse DEF AvatarFind, At, Typed
  <1>2. req[r].op = "avatar" /\ req[r].got = NotRead
    BY <1>1 DEF Request, Steps, Operations
  <1>3. CASE Live
    <2>. DEFINE x == [req[r] EXCEPT !.pc = "write", !.copy = user]
    <2>1. user \in User /\ user # NoUser
      BY <1>3 DEF Live, Typed
    <2>2. /\ x \in Request /\ x.pc = "write" /\ x.op = req[r].op /\ x.copy = user
          /\ x.got = req[r].got /\ x.pw = req[r].pw /\ x.token = req[r].token
          /\ x.new = req[r].new /\ x.alone = req[r].alone
      <3>1. "write" \in Positions /\ "write" \in Steps[req[r].op]
        BY <1>2 DEF Positions, Steps
      <3>. QED
        BY <1>1, <1>2, <2>1, <3>1 DEF Request
    <2>3. req' = [req EXCEPT ![r] = x]
      BY <1>3 DEF AvatarFind, Typed, Slots
    <2>. HIDE DEF x
    <2>4. Carries(r, "write") /\ req'[r] = x
      BY <2>2, <2>3 DEF Typed, Slots, Moves, Carries
    <2>. QED
      BY <1>1, <1>2, <2>1, <2>2, <2>4 DEF AvatarFind
  <1>4. CASE ~Live
    BY <1>1, <1>2, <1>4, DoneEffect DEF AvatarFind, Typed
  <1>. QED
    BY <1>3, <1>4

AuthCalls == {"enable", "disable", "provision"}

LEMMA CallingType ==
    ASSUME Typed, NEW r \in Requests, Calling(r)
    PROVE  /\ req[r] \in Request /\ req[r] # Idle /\ req[r].pc \in {"call", "undo"}
           /\ CallOf(r) \in AuthCalls
           /\ req[r].op \in {"remove", "restore", "disable", "enable", "complete", "provision"}
           /\ req[r].op \in {"complete", "provision"} =>
                req[r].pc = "call" /\ CallOf(r) = "provision"
           /\ req[r].pc = "call" =>
                /\ req[r].op \in {"remove", "disable"} => CallOf(r) = "disable"
                /\ req[r].op \in {"restore", "enable"} => CallOf(r) = "enable"
  <1>1. req[r] \in Request /\ req[r] # Idle /\ req[r].pc \in {"call", "undo"}
    BY InCourse DEF Calling, Typed
  <1>2. /\ req[r].op \in {"remove", "restore", "disable", "enable", "complete", "provision"}
        /\ req[r].op \in {"complete", "provision"} => req[r].pc = "call"
    BY <1>1 DEF Request, Steps, Operations
  <1>. QED
    BY <1>1, <1>2 DEF CallOf, FirstCall, UndoCall, AuthCalls

LEMMA AuthReadEffect ==
    ASSUME Typed, NEW r \in Requests, AuthRead(r)
    PROVE  /\ Carries(r, req[r].pc) /\ req'[r].copy = req[r].copy
           /\ req'[r].got = cred /\ req[r].got = NotRead /\ req[r] # Idle
           /\ UNCHANGED <<user, cred, tokens, issued, store, uploads, orphans, starts,
                          faults, seen>>
  <1>1. req[r] \in Request /\ req[r] # Idle /\ req[r].pc \in {"call", "undo"}
    BY CallingType DEF AuthRead
  <1>2. cred \in Copies
    BY DEF Typed, Copies
  <1>. DEFINE x == [req[r] EXCEPT !.got = cred]
  <1>3. /\ x \in Request /\ x.pc = req[r].pc /\ x.op = req[r].op /\ x.copy = req[r].copy
        /\ x.got = cred /\ x.pw = req[r].pw /\ x.token = req[r].token
        /\ x.new = req[r].new /\ x.alone = req[r].alone
    BY <1>1, <1>2 DEF Request
  <1>4. req' = [req EXCEPT ![r] = x]
    BY DEF AuthRead
  <1>. HIDE DEF x
  <1>. QED
    BY <1>1, <1>3, <1>4 DEF Typed, Slots, Moves, Carries, AuthRead

\* What a handler of auth-service makes of the credential.
LEMMA WrittenColumns ==
    ASSUME cred \in Credential \cup {NoCred}, NEW asked \in AuthCalls,
           NEW got \in Credential \cup {NoCred}, NEW pw \in Nat \ {0}
    PROVE  /\ Written(asked, got, pw) \in Credential \cup {NoCred}
           /\ asked = "provision" =>
                IF got = NoCred
                THEN /\ Written(asked, got, pw) \in Credential
                     /\ Written(asked, got, pw).status = "ACTIVE"
                ELSE Written(asked, got, pw) = cred
           /\ asked # "provision" =>
                IF got = NoCred
                THEN Written(asked, got, pw) = cred
                ELSE /\ Written(asked, got, pw) \in Credential
                     /\ Written(asked, got, pw).pw = got.pw
                     /\ Written(asked, got, pw).status =
                          IF asked = "enable" THEN "ACTIVE" ELSE "DISABLED"
  BY DEF Written, Credential

\* The call of r ends: refused, or the first of its operation, or the last.
LEMMA AuthSaveEffect ==
    ASSUME Typed, NEW r \in Requests, AuthSave(r)
    PROVE  /\ Calling(r) /\ Moves(r) /\ req[r].got \in Credential \cup {NoCred}
           /\ \/ Refused(CallOf(r), req[r].got) /\ cred' = cred /\ req'[r] = Idle
              \/ /\ ~Refused(CallOf(r), req[r].got)
                 /\ cred' = Written(CallOf(r), req[r].got, req[r].pw)
                 /\ \/ /\ req[r].pc = "undo" \/ req[r].op = "provision"
                       /\ req'[r] = Idle
                    \/ /\ req[r].pc = "call" /\ req[r].op # "provision"
                       /\ Carries(r, IF req[r].op = "disable" THEN "revoke" ELSE "write")
                       /\ req'[r].copy = req[r].copy /\ req'[r].got = NotRead
           /\ UNCHANGED <<user, tokens, issued, store, uploads, orphans, starts,
                          faults, seen>>
  <1>1. /\ Calling(r) /\ req[r].got # NotRead
        /\ UNCHANGED <<user, tokens, issued, store, uploads, orphans, starts,
                       faults, seen>>
    BY DEF AuthSave
  <1>2. /\ req[r] \in Request /\ req[r] # Idle /\ req[r].pc \in {"call", "undo"}
        /\ req[r].op \in {"remove", "restore", "disable", "enable", "complete", "provision"}
        /\ req[r].op \in {"complete", "provision"} => req[r].pc = "call"
    BY <1>1, CallingType
  <1>3. req[r].got \in Credential \cup {NoCred}
    BY <1>1, <1>2 DEF Request, Copies
  <1>. DEFINE next == AfterCall(req[r].op)
  <1>4. next = (IF req[r].op = "disable" THEN "revoke"
                ELSE IF req[r].op = "provision" THEN "end" ELSE "write")
    BY <1>2 DEF AfterCall
  <1>5. CASE Refused(CallOf(r), req[r].got)
    BY <1>1, <1>3, <1>5, DoneEffect DEF AuthSave, Typed
  <1>6. CASE ~Refused(CallOf(r), req[r].got)
    <2>1. /\ cred' = Written(CallOf(r), req[r].got, req[r].pw)
          /\ IF req[r].pc = "undo" \/ next = "end"
             THEN Done(r)
             ELSE req' = [req EXCEPT ![r].pc = next, ![r].got = NotRead]
      BY <1>6 DEF AuthSave
    <2>2. CASE req[r].pc = "undo" \/ req[r].op = "provision"
      BY <1>1, <1>3, <1>4, <1>6, <2>1, <2>2, DoneEffect DEF Typed
    <2>3. CASE ~(req[r].pc = "undo" \/ req[r].op = "provision")
      <3>1. next # "end" /\ next \in {"revoke", "write"}
        BY <1>2, <1>4, <2>3
      <3>. HIDE DEF next
      <3>. DEFINE x == [req[r] EXCEPT !.pc = next, !.got = NotRead]
      <3>2. req' = [req EXCEPT ![r] = x]
        BY <2>1, <2>3, <3>1 DEF Typed, Slots
      <3>3. next \in Steps[req[r].op] /\ next \in Positions
        BY <1>2, <1>4, <2>3 DEF Steps, Positions
      <3>4. /\ x \in Request /\ x.pc = next /\ x.op = req[r].op /\ x.copy = req[r].copy
            /\ x.got = NotRead /\ x.pw = req[r].pw /\ x.token = req[r].token
            /\ x.new = req[r].new /\ x.alone = req[r].alone
        BY <1>2, <3>3 DEF Request, Copies
      <3>. HIDE DEF x
      <3>5. Carries(r, next) /\ req'[r] = x
        BY <3>2, <3>4 DEF Typed, Slots, Moves, Carries
      <3>6. next = (IF req[r].op = "disable" THEN "revoke" ELSE "write")
        BY <1>4, <2>3
      <3>. QED
        BY <1>1, <1>2, <1>3, <1>6, <2>1, <2>3, <3>4, <3>5, <3>6 DEF Carries
    <2>. QED
      BY <2>2, <2>3
  <1>. QED
    BY <1>5, <1>6

LEMMA RevokeEffect ==
    ASSUME Typed, NEW r \in Requests, Revoke(r)
    PROVE  /\ Goes(r, "write") /\ req[r].pc = "revoke" /\ req[r].op = "disable"
           /\ req[r] # Idle
           /\ UNCHANGED <<user, cred, tokens, issued, store, uploads, orphans, starts,
                          faults, seen>>
  <1>1. req[r] # Idle /\ req[r].pc = "revoke" /\ req[r] \in Request
    BY InCourse DEF Revoke, At, Typed
  <1>2. req[r].op = "disable" /\ req[r].got = NotRead
    BY <1>1 DEF Request, Steps, Operations
  <1>3. "write" \in Positions /\ "write" \in Steps[req[r].op]
    BY <1>2 DEF Positions, Steps
  <1>. QED
    BY <1>1, <1>2, <1>3, GoEffect DEF Revoke, Typed

\* A write that succeeds, or one that fails or whose answer is lost.
Writes(r) == UserWrite(r) \/ WriteFails(r)

LEMMA WritesEffect ==
    ASSUME Typed, NEW r \in Requests, Writes(r)
    PROVE  /\ At(r, "write") /\ Moves(r) /\ req[r] \in Request /\ req[r] # Idle
           /\ \/ req'[r] = Idle
              \/ UserWrite(r) /\ Goes(r, "clean") /\ req[r].op \in {"complete", "avatar"}
              \/ WriteFails(r) /\ Goes(r, "undo") /\ req[r].op \notin {"complete", "avatar"}
           /\ \/ user' = RowAfter(r) /\ seen' = Noted(r) /\ UserWrite(r)
              \/ /\ WriteFails(r) /\ seen' \in Observation /\ ~seen'.sure
                 /\ \/ /\ user' = user
                       /\ seen'.removal = seen.removal /\ seen'.reopened = seen.reopened
                       /\ seen'.expired = seen.expired /\ seen'.clobbered = seen.clobbered
                    \/ /\ user' = RowAfter(r)
                       /\ seen'.clobbered = (seen.clobbered \/ Stale(r))
                       /\ seen'.reopened = (seen.reopened /\ req[r].op # "remove")
                       /\ seen'.expired = seen.expired
                       /\ seen'.removal = "alone" =>
                            req[r].op # "remove" /\ seen.removal = "alone"
           /\ faults' \in Nat
           /\ UNCHANGED <<cred, tokens, issued, store, uploads, orphans, starts>>
  <1>1. At(r, "write") /\ req[r] \in Request /\ req[r] # Idle /\ req[r].pc = "write"
    BY InCourse DEF Writes, UserWrite, WriteFails, At, Typed
  <1>2. req[r].got = NotRead /\ req[r].op \in Operations /\ seen \in Observation /\ faults \in Nat
    BY <1>1 DEF Request, Typed
  <1>3. req[r].op \in {"complete", "avatar"} => "clean" \in Steps[req[r].op]
    BY DEF Steps
  <1>4. req[r].op \in DOMAIN UndoCall =>
          req[r].op \notin {"complete", "avatar"} /\ "undo" \in Steps[req[r].op]
    BY DEF UndoCall, Steps
  <1>5. "clean" \in Positions /\ "undo" \in Positions
    BY DEF Positions
  <1>6. CASE UserWrite(r)
    <2>1. \/ Done(r)
          \/ req[r].op \in {"complete", "avatar"} /\ Go(r, "clean")
      BY <1>6 DEF UserWrite
    <2>2. \/ Moves(r) /\ req'[r] = Idle
          \/ Goes(r, "clean") /\ req[r].op \in {"complete", "avatar"}
      BY <1>1, <1>2, <1>3, <1>5, <2>1, GoEffect, DoneEffect DEF Typed
    <2>3. Moves(r)
      BY <2>2 DEF Goes, Carries
    <2>. QED
      BY <1>1, <1>2, <1>6, <2>2, <2>3 DEF UserWrite
  <1>7. CASE WriteFails(r)
    <2>1. \/ Done(r)
          \/ req[r].op \in DOMAIN UndoCall /\ Go(r, "undo")
      BY <1>7 DEF WriteFails
    <2>2. \/ Moves(r) /\ req'[r] = Idle
          \/ Goes(r, "undo") /\ req[r].op \notin {"complete", "avatar"}
      BY <1>1, <1>2, <1>4, <1>5, <2>1, GoEffect, DoneEffect DEF Typed
    <2>3. Moves(r)
      BY <2>2 DEF Goes, Carries
    <2>4. CASE UNCHANGED user /\ seen' = [seen EXCEPT !.sure = FALSE]
      <3>1. /\ seen' \in Observation /\ ~seen'.sure
            /\ seen'.removal = seen.removal /\ seen'.reopened = seen.reopened
            /\ seen'.expired = seen.expired /\ seen'.clobbered = seen.clobbered
        BY <1>2, <2>4 DEF Observation
      <3>. QED
        BY <1>1, <1>2, <1>7, <2>2, <2>3, <2>4, <3>1 DEF WriteFails, Fault
    <2>5. CASE /\ user' = RowAfter(r)
               /\ seen' = [Noted(r) EXCEPT
                             !.sure = FALSE,
                             !.removal = IF req[r].op = "remove" THEN "undone" ELSE @]
      <3>. DEFINE n == Noted(r)
                  rem == IF req[r].op = "remove" THEN "undone" ELSE n.removal
      <3>1. seen' = [n EXCEPT !.sure = FALSE, !.removal = rem]
        BY <2>5
      <3>2. /\ n \in Observation
            /\ n.clobbered = (seen.clobbered \/ Stale(r))
            /\ n.reopened = (seen.reopened /\ req[r].op # "remove")
            /\ n.expired = seen.expired
            /\ n.removal = "alone" =>
                 IF req[r].op = "remove" THEN req[r].alone ELSE seen.removal = "alone"
        BY <1>1, NotedColumns
      <3>. HIDE DEF n
      <3>3. /\ rem \in {"none", "alone", "crossed", "undone"}
            /\ rem = "alone" => req[r].op # "remove" /\ seen.removal = "alone"
        BY <3>2 DEF Observation
      <3>. HIDE DEF rem
      <3>4. /\ seen' \in Observation /\ ~seen'.sure
            /\ seen'.clobbered = n.clobbered /\ seen'.reopened = n.reopened
            /\ seen'.expired = n.expired /\ seen'.removal = rem
        BY <3>1, <3>2, <3>3 DEF Observation
      <3>. QED
        BY <1>1, <1>2, <1>7, <2>2, <2>3, <2>5, <3>2, <3>3, <3>4 DEF WriteFails, Fault
    <2>. QED
      BY <1>7, <2>4, <2>5 DEF WriteFails
  <1>. QED
    BY <1>6, <1>7 DEF Writes

LEMMA CleanEffect ==
    ASSUME Typed, NEW r \in Requests, Clean(r)
    PROVE  /\ req[r] # Idle /\ req[r].pc = "clean" /\ Moves(r) /\ req'[r] = Idle
           /\ tokens' \subseteq tokens /\ store' \subseteq store
           /\ req[r].op # "complete" => tokens' = tokens
           /\ UNCHANGED <<user, cred, issued, uploads, orphans, starts, faults, seen>>
  BY DoneEffect DEF Clean, At, Typed

LEMMA DieEffect ==
    ASSUME Typed, NEW r \in Requests, Die(r)
    PROVE  /\ req[r] \in Request /\ req[r] # Idle /\ Moves(r) /\ req'[r] = Idle
           /\ seen' \in Observation
           /\ seen'.sure => seen.sure /\ req[r].op \in {"create", "edit", "avatar"}
           /\ seen'.removal = seen.removal /\ seen'.reopened = seen.reopened
           /\ seen'.expired = seen.expired /\ seen'.clobbered = seen.clobbered
           /\ \/ UNCHANGED orphans
              \/ \E o \in Orphan : /\ orphans' = orphans \cup {o} /\ Calling(r)
                                   /\ o.got = req[r].got
           /\ faults' \in Nat
           /\ UNCHANGED <<user, cred, tokens, issued, store, uploads, starts>>
  <1>1. req[r] \in Request /\ req[r] # Idle /\ seen \in Observation /\ faults \in Nat
    BY InCourse DEF Die, Typed
  <1>2. seen' = [seen EXCEPT !.sure = seen.sure /\ req[r].op \in {"create", "edit", "avatar"}]
    BY DEF Die
  <1>3. /\ seen' \in Observation
        /\ seen'.sure => seen.sure /\ req[r].op \in {"create", "edit", "avatar"}
        /\ seen'.removal = seen.removal /\ seen'.reopened = seen.reopened
        /\ seen'.expired = seen.expired /\ seen'.clobbered = seen.clobbered
    BY <1>1, <1>2 DEF Observation
  <1>4. \/ UNCHANGED orphans
        \/ \E o \in Orphan : /\ orphans' = orphans \cup {o} /\ Calling(r)
                             /\ o.got = req[r].got
    <2>. SUFFICES ASSUME Calling(r),
                         orphans' = orphans \cup
                           {[call |-> CallOf(r), got |-> req[r].got, pw |-> req[r].pw]}
                  PROVE  \E o \in Orphan : /\ orphans' = orphans \cup {o} /\ Calling(r)
                                           /\ o.got = req[r].got
      BY DEF Die
    <2>1. CallOf(r) \in {"enable", "disable", "provision"}
      BY CallingType DEF AuthCalls
    <2>2. [call |-> CallOf(r), got |-> req[r].got, pw |-> req[r].pw] \in Orphan
      BY <1>1, <2>1 DEF Orphan, Request
    <2>. QED
      BY <2>2
  <1>. QED
    BY <1>1, <1>3, <1>4, DoneEffect DEF Die, Fault, Typed

LEMMA OrphanEffect ==
    ASSUME Typed, NEW o \in orphans, OrphanRead(o) \/ OrphanSave(o)
    PROVE  /\ o \in Orphan
           /\ \/ /\ \E p \in Orphan : p.got = cred /\ orphans' = (orphans \ {o}) \cup {p}
                 /\ cred' = cred
              \/ /\ orphans' = orphans \ {o} /\ o.got \in Credential \cup {NoCred}
                 /\ \/ cred' = cred
                    \/ /\ ~Refused(o.call, o.got)
                       /\ cred' = Written(o.call, o.got, o.pw)
           /\ UNCHANGED <<user, tokens, issued, store, uploads, req, starts, faults, seen>>
  <1>1. o \in Orphan /\ cred \in Copies
    BY DEF Typed, Copies
  <1>2. CASE OrphanRead(o)
    <2>1. [o EXCEPT !.got = cred] \in Orphan /\ [o EXCEPT !.got = cred].got = cred
      BY <1>1 DEF Orphan
    <2>. QED
      BY <1>1, <1>2, <2>1 DEF OrphanRead
  <1>3. CASE OrphanSave(o)
    <2>1. o.got \in Credential \cup {NoCred}
      BY <1>1, <1>3 DEF OrphanSave, Orphan, Copies
    <2>. QED
      BY <1>1, <1>3, <2>1 DEF OrphanSave
  <1>. QED
    BY <1>2, <1>3

LEMMA NextCases ==
    ASSUME [Next]_vars
    PROVE  \/ \E r \in Requests :
                \/ Begins(r) \/ CreateSave(r) \/ Invite(r) \/ AvatarFind(r)
                \/ AuthRead(r) \/ AuthSave(r) \/ Revoke(r)
                \/ Writes(r) \/ Clean(r) \/ Die(r)
           \/ \E o \in orphans : OrphanRead(o) \/ OrphanSave(o)
           \/ \E t \in tokens : Expire(t)
           \/ UNCHANGED vars
  <1>1. ASSUME NEW r \in Requests,
               \/ CreateFind(r) \/ CreateSave(r) \/ ResendFind(r) \/ Invite(r)
               \/ \E t \in tokens : CompleteFind(r, t)
               \/ ProvisionFind(r) \/ RemoveFind(r) \/ RestoreStart(r)
               \/ SwitchFind(r, "disable") \/ SwitchFind(r, "enable")
               \/ EditFind(r) \/ AvatarUpload(r) \/ AvatarFind(r)
               \/ AuthRead(r) \/ AuthSave(r) \/ Revoke(r)
               \/ UserWrite(r) \/ Clean(r) \/ Die(r) \/ WriteFails(r)
        PROVE  \/ Begins(r) \/ CreateSave(r) \/ Invite(r) \/ AvatarFind(r)
               \/ AuthRead(r) \/ AuthSave(r) \/ Revoke(r)
               \/ Writes(r) \/ Clean(r) \/ Die(r)
    BY <1>1 DEF Begins, Writes
  <1>. QED
    BY <1>1 DEF Next

-----------------------------------------------------------------------------
(* Types *)

LEMMA TypedBegins ==
    ASSUME Typed, NEW r \in Requests, Begins(r)
    PROVE  Typed'
  <1>1. PICK op \in Operations : \E pc \in First[op] : Beginning(r, op, pc)
    BY BeginsEffect
  <1>2. PICK pc \in First[op] : Beginning(r, op, pc)
    BY <1>1
  <1>3. PICK token \in Nat : \E new \in Nat : Begun(r, op, pc, token, new)
    BY <1>2 DEF Beginning
  <1>4. PICK new \in Nat : Begun(r, op, pc, token, new)
    BY <1>3
  <1>5. Present'
    BY <1>2, <1>4 DEF Typed, Present, Beginning, Begun, Continues
  <1>. QED
    BY <1>2, <1>4, <1>5 DEF Typed, Beginning, Begun

LEMMA TypedStep ==
    ASSUME Typed, [Next]_vars
    PROVE  Typed'
  <1>1. ASSUME NEW r \in Requests, CreateSave(r) PROVE Typed'
    <2>1. NewUser \in User
      BY DEF NewUser, User
    <2>2. user' \in User \cup {NoUser} /\ Slots'
      BY <1>1, <2>1, CreateSaveEffect DEF Typed, Goes, Carries, Moves
    <2>3. Present'
      BY <1>1, <2>1, CreateSaveEffect, NobodyFacts DEF Typed, Present, Moves
    <2>. QED
      BY <1>1, <2>2, <2>3, CreateSaveEffect DEF Typed
  <1>2. ASSUME NEW r \in Requests, Invite(r) PROVE Typed'
    <2>1. /\ req[r] # Idle /\ req[r].pc = "invite" /\ Moves(r) /\ req'[r] = Idle
          /\ issued' = issued + 1 /\ tokens' = tokens \cup {issued + 1}
          /\ UNCHANGED <<user, cred, store, uploads, orphans, starts, faults, seen>>
      BY <1>2, DoneEffect DEF Invite, At, Typed
    <2>2. issued' \in Nat /\ tokens' \subseteq 1..issued'
      <3>1. issued \in Nat /\ tokens \subseteq 1..issued
        BY DEF Typed
      <3>2. issued + 1 \in Nat /\ 1..issued \subseteq 1..(issued + 1) /\ issued + 1 \in 1..(issued + 1)
        BY <3>1
      <3>. QED
        BY <2>1, <3>1, <3>2
    <2>3. Present'
      BY <2>1 DEF Typed, Present
    <2>. QED
      BY <2>1, <2>2, <2>3 DEF Typed, Moves
  <1>3. ASSUME NEW r \in Requests, AvatarFind(r) PROVE Typed'
    <2>1. Slots' /\ Present'
      BY <1>3, AvatarFindEffect DEF Typed, Present, Carries, Moves
    <2>. QED
      BY <1>3, <2>1, AvatarFindEffect DEF Typed
  <1>4. ASSUME NEW r \in Requests, AuthRead(r) PROVE Typed'
    <2>1. Slots' /\ Present'
      BY <1>4, AuthReadEffect DEF Typed, Present, Carries, Moves
    <2>. QED
      BY <1>4, <2>1, AuthReadEffect DEF Typed
  <1>5. ASSUME NEW r \in Requests, AuthSave(r) PROVE Typed'
    <2>1. /\ Calling(r) /\ Moves(r) /\ req[r].got \in Credential \cup {NoCred}
          /\ cred' = cred \/ cred' = Written(CallOf(r), req[r].got, req[r].pw)
          /\ UNCHANGED <<user, tokens, issued, store, uploads, orphans, starts,
                         faults, seen>>
      BY <1>5, AuthSaveEffect
    <2>2. /\ CallOf(r) \in AuthCalls /\ req[r].pw \in Nat \ {0} /\ req[r] # Idle
          /\ req[r].pc # "insert"
      BY <2>1, CallingType DEF Request
    <2>3. cred' \in Credential \cup {NoCred}
      BY <2>1, <2>2, WrittenColumns DEF Typed
    <2>4. Present'
      BY <2>1, <2>2 DEF Typed, Present
    <2>. QED
      BY <2>1, <2>3, <2>4 DEF Typed, Moves
  <1>6. ASSUME NEW r \in Requests, Revoke(r) PROVE Typed'
    <2>1. Slots' /\ Present'
      BY <1>6, RevokeEffect DEF Typed, Present, Goes, Carries, Moves
    <2>. QED
      BY <1>6, <2>1, RevokeEffect DEF Typed
  <1>7. ASSUME NEW r \in Requests, Writes(r) PROVE Typed'
    <2>1. /\ At(r, "write") /\ Moves(r) /\ req[r] # Idle
          /\ user' \in {user, RowAfter(r)} /\ seen' \in {Noted(r)} \cup Observation
          /\ faults' \in Nat
          /\ UNCHANGED <<cred, tokens, issued, store, uploads, orphans, starts>>
      BY <1>7, WritesEffect
    <2>2. RowAfter(r) \in User /\ seen' \in Observation
      BY <2>1, RowAfterColumns, NotedColumns
    <2>3. user \in User
      BY <2>1 DEF Typed, Present, At
    <2>4. user' \in User /\ user' # NoUser
      BY <2>1, <2>2, <2>3, NobodyFacts
    <2>. QED
      BY <2>1, <2>2, <2>4 DEF Typed, Present, Moves
  <1>8. ASSUME NEW r \in Requests, Clean(r) PROVE Typed'
    <2>1. Present'
      BY <1>8, CleanEffect DEF Typed, Present
    <2>. QED
      BY <1>8, <2>1, CleanEffect DEF Typed, Moves
  <1>9. ASSUME NEW r \in Requests, Die(r) PROVE Typed'
    <2>1. /\ Moves(r) /\ req'[r] = Idle /\ seen' \in Observation /\ faults' \in Nat
          /\ UNCHANGED <<user, cred, tokens, issued, store, uploads, starts>>
          /\ orphans' = orphans \/ \E o \in Orphan : orphans' = orphans \cup {o}
      BY <1>9, DieEffect
    <2>. QED
      BY <2>1 DEF Typed, Present, Moves
  <1>10. ASSUME NEW o \in orphans, OrphanRead(o) \/ OrphanSave(o) PROVE Typed'
    <2>1. /\ o \in Orphan /\ UNCHANGED <<user, tokens, issued, store, uploads, req, starts,
                                         faults, seen>>
          /\ orphans' \subseteq Orphan
          /\ cred' = cred \/ (o.got \in Credential \cup {NoCred}
                              /\ cred' = Written(o.call, o.got, o.pw))
      BY <1>10, OrphanEffect DEF Typed
    <2>2. o.call \in AuthCalls /\ o.pw \in Nat \ {0}
      BY <2>1 DEF Orphan, AuthCalls
    <2>3. cred' \in Credential \cup {NoCred}
      BY <2>1, <2>2, WrittenColumns DEF Typed
    <2>. QED
      BY <2>1, <2>3 DEF Typed, Present, Slots
  <1>11. ASSUME NEW t \in tokens, Expire(t) PROVE Typed'
    BY <1>11 DEF Typed, Expire, Observation, Present, Slots
  <1>12. CASE UNCHANGED vars
    BY <1>12 DEF Typed, vars, Present, Slots
  <1>. QED
    BY <1>1, <1>2, <1>3, <1>4, <1>5, <1>6, <1>7, <1>8, <1>9, <1>10, <1>11, <1>12,
       TypedBegins, NextCases

LEMMA TypedAlways == Spec => []Typed
  <1>1. Init => Typed
    BY AccountsAssumption DEF Init, Typed, Slots, Present, Observation
  <1>2. Typed /\ [Next]_vars => Typed'
    BY TypedStep
  <1>. QED
    BY <1>1, <1>2, PTL DEF Spec

\* However requests, crashes and late calls of auth-service cross, both rows
\* keep their types, and every request and every abandoned call holds a copy of
\* a row that can have existed (user-registration.service.ts and
\* user-profile.service.ts, the entities of both services).
THEOREM TypeCorrect == Spec => []TypeOK
  <1>1. Typed => TypeOK
    BY TypeOKOfTyped
  <1>. QED
    BY <1>1, TypedAlways, PTL

-----------------------------------------------------------------------------
(* A registration leaves a credential, and no later call changes its password *)

\* What was read of the credential is what c still is, its status apart.
Holds(c, got) == got \notin {NoCred, NotRead} => c # NoCred /\ got.pw = c.pw

Backed(r) ==
    req[r] # Idle =>
        /\ Holds(cred, req[r].got)
        /\ req[r].copy.status = "active" => cred # NoCred
        /\ req[r].op = "complete" /\ req[r].pc # "call" => cred # NoCred

Registered ==
    /\ RegisteredHasCredential
    /\ \A r \in Requests : Backed(r)
    /\ \A o \in orphans : Holds(cred, o.got)

Kept == cred # NoCred => cred' # NoCred /\ cred'.pw = cred.pw

LEMMA WrittenKeeps ==
    ASSUME cred \in Credential \cup {NoCred}, NEW asked \in AuthCalls,
           NEW got \in Credential \cup {NoCred}, NEW pw \in Nat \ {0},
           Holds(cred, got), ~Refused(asked, got), cred' = Written(asked, got, pw)
    PROVE  Kept
  <1>1. NoCred \notin Credential /\ NotRead \notin Credential \cup {NoCred}
    BY NobodyFacts
  <1>2. CASE got = NoCred
    BY <1>1, <1>2, WrittenColumns DEF Kept, Refused
  <1>3. CASE got # NoCred
    BY <1>1, <1>3, WrittenColumns DEF Kept, Holds
  <1>. QED
    BY <1>2, <1>3

LEMMA CredentialKept ==
    ASSUME Typed, Registered, [Next]_vars
    PROVE  Kept
  <1>1. CASE UNCHANGED cred
    BY <1>1 DEF Kept
  <1>2. ASSUME NEW r \in Requests, AuthSave(r) PROVE Kept
    <2>1. /\ Calling(r) /\ req[r].got \in Credential \cup {NoCred}
          /\ \/ cred' = cred
             \/ /\ ~Refused(CallOf(r), req[r].got)
                /\ cred' = Written(CallOf(r), req[r].got, req[r].pw)
      BY <1>2, AuthSaveEffect
    <2>2. /\ CallOf(r) \in AuthCalls /\ req[r].pw \in Nat \ {0} /\ req[r] # Idle
      BY <2>1, CallingType DEF Request
    <2>3. Holds(cred, req[r].got) /\ cred \in Credential \cup {NoCred}
      BY <2>2 DEF Registered, Backed, Typed
    <2>. QED
      BY <1>1, <2>1, <2>2, <2>3, WrittenKeeps
  <1>3. ASSUME NEW o \in orphans, OrphanRead(o) \/ OrphanSave(o) PROVE Kept
    <2>1. /\ o \in Orphan
          /\ \/ cred' = cred
             \/ /\ o.got \in Credential \cup {NoCred} /\ ~Refused(o.call, o.got)
                /\ cred' = Written(o.call, o.got, o.pw)
      BY <1>3, OrphanEffect
    <2>2. o.call \in AuthCalls /\ o.pw \in Nat \ {0}
      BY <2>1 DEF Orphan, AuthCalls
    <2>3. Holds(cred, o.got) /\ cred \in Credential \cup {NoCred}
      BY DEF Registered, Typed
    <2>. QED
      BY <1>1, <2>1, <2>2, <2>3, WrittenKeeps
  <1>4. ASSUME NEW r \in Requests,
               \/ Begins(r) \/ CreateSave(r) \/ Invite(r) \/ AvatarFind(r)
               \/ AuthRead(r) \/ Revoke(r) \/ Writes(r) \/ Clean(r) \/ Die(r)
        PROVE  UNCHANGED cred
    <2>1. CASE Begins(r)
      BY <2>1, BeginsEffect DEF Beginning
    <2>2. CASE CreateSave(r) \/ Invite(r) \/ AvatarFind(r) \/ AuthRead(r) \/ Revoke(r)
      BY <2>2 DEF CreateSave, Invite, AvatarFind, AuthRead, Revoke
    <2>3. CASE Writes(r) \/ Clean(r) \/ Die(r)
      BY <2>3 DEF Writes, UserWrite, WriteFails, Clean, Die
    <2>. QED
      BY <1>4, <2>1, <2>2, <2>3
  <1>5. ASSUME NEW t \in tokens, Expire(t) PROVE UNCHANGED cred
    BY <1>5 DEF Expire
  <1>. QED
    BY <1>1, <1>2, <1>3, <1>4, <1>5, NextCases DEF vars

\* A request that keeps its copies stays backed.
LEMMA BackedStays ==
    ASSUME NEW r \in Requests, Backed(r), Kept,
           \/ req'[r] = req[r] \/ req'[r] = Idle
           \/ /\ req[r] # Idle /\ req'[r].got = req[r].got
              /\ req'[r].copy = req[r].copy /\ req'[r].op = req[r].op
              /\ req'[r].pc = req[r].pc
    PROVE  Backed(r)'
  BY DEF Backed, Holds, Kept

\* A step of r that leaves the row, the orphans and the other requests.
LEMMA RegisteredMoves ==
    ASSUME Registered, Kept, NEW r \in Requests, Moves(r), Backed(r)', user' = user,
           orphans' = orphans
    PROVE  Registered'
  <1>1. \A s \in Requests \ {r} : Backed(s)'
    BY BackedStays DEF Registered, Moves
  <1>2. \A o \in orphans : Holds(cred', o.got)
    BY DEF Registered, Holds, Kept
  <1>3. RegisteredHasCredential'
    BY DEF Registered, RegisteredHasCredential, Kept
  <1>. QED
    BY <1>1, <1>2, <1>3 DEF Registered

LEMMA RegisteredBegins ==
    ASSUME Typed, Registered, NEW r \in Requests, Begins(r)
    PROVE  Registered'
  <1>1. PICK op \in Operations : \E pc \in First[op] : Beginning(r, op, pc)
    BY BeginsEffect
  <1>2. PICK pc \in First[op] : Beginning(r, op, pc)
    BY <1>1
  <1>3. PICK token \in Nat : \E new \in Nat : Begun(r, op, pc, token, new)
    BY <1>2 DEF Beginning
  <1>4. PICK new \in Nat : Begun(r, op, pc, token, new)
    BY <1>3
  <1>5. user' = user /\ cred' = cred /\ orphans' = orphans
    BY <1>2 DEF Beginning
  <1>6. op = "complete" => pc = "call"
    BY DEF First
  <1>7. Backed(r)'
    BY <1>4, <1>5, <1>6 DEF Backed, Begun, Holds, Registered, RegisteredHasCredential
  <1>8. ASSUME NEW s \in Requests, s # r PROVE Backed(s)'
    <2>1. \/ req'[s] = Idle
          \/ /\ req[s] # Idle /\ req'[s].got = req[s].got
             /\ req'[s].copy = req[s].copy /\ req'[s].op = req[s].op
             /\ req'[s].pc = req[s].pc
      BY <1>4, <1>8 DEF Begun, Continues
    <2>. QED
      BY <1>5, <2>1, BackedStays DEF Registered, Kept
  <1>. QED
    BY <1>5, <1>7, <1>8 DEF Registered, RegisteredHasCredential

LEMMA RegisteredWrites ==
    ASSUME Typed, Registered, NEW r \in Requests, Writes(r)
    PROVE  Registered'
  <1>1. /\ At(r, "write") /\ Moves(r) /\ req[r] \in Request /\ req[r] # Idle
        /\ req'[r] = Idle \/ Goes(r, "clean") \/ Goes(r, "undo")
        /\ user' = user \/ user' = RowAfter(r)
        /\ UNCHANGED <<cred, orphans>>
    BY WritesEffect
  <1>2. Backed(r) /\ req[r].pc = "write"
    BY <1>1 DEF Registered, At
  <1>3. Backed(r)'
    BY <1>1, <1>2 DEF Backed, Goes, Carries, Holds
  <1>4. \A s \in Requests \ {r} : Backed(s)'
    BY <1>1, BackedStays DEF Registered, Moves, Kept
  <1>5. RowAfter(r).status = "active" => cred # NoCred
    <2>1. req[r].op = "complete" \/ RowAfter(r).status \in {user.status, req[r].copy.status}
      BY <1>1, RowAfterColumns
    <2>. QED
      BY <1>1, <1>2, <2>1 DEF Backed, Registered, RegisteredHasCredential
  <1>6. RegisteredHasCredential'
    BY <1>1, <1>5 DEF Registered, RegisteredHasCredential
  <1>. QED
    BY <1>1, <1>3, <1>4, <1>6 DEF Registered

LEMMA RegisteredAuthSave ==
    ASSUME Typed, Registered, Kept, NEW r \in Requests, AuthSave(r)
    PROVE  Registered'
  <1>1. /\ Calling(r) /\ Moves(r) /\ req[r].got \in Credential \cup {NoCred}
        /\ \/ req'[r] = Idle
           \/ /\ ~Refused(CallOf(r), req[r].got)
              /\ cred' = Written(CallOf(r), req[r].got, req[r].pw)
              /\ Carries(r, IF req[r].op = "disable" THEN "revoke" ELSE "write")
              /\ req'[r].copy = req[r].copy /\ req'[r].got = NotRead
        /\ UNCHANGED <<user, orphans>>
    BY AuthSaveEffect
  <1>2. /\ CallOf(r) \in AuthCalls /\ req[r].pw \in Nat \ {0} /\ req[r] # Idle
        /\ req[r].op = "complete" => CallOf(r) = "provision"
    BY <1>1, CallingType DEF Request
  <1>3. Backed(r) /\ cred \in Credential \cup {NoCred} /\ NoCred \notin Credential
        /\ NotRead \notin Credential
    BY NobodyFacts DEF Registered, Typed
  <1>4. CASE req'[r] = Idle
    BY <1>1, <1>4, RegisteredMoves DEF Backed
  <1>5. CASE /\ ~Refused(CallOf(r), req[r].got)
             /\ cred' = Written(CallOf(r), req[r].got, req[r].pw)
             /\ Carries(r, IF req[r].op = "disable" THEN "revoke" ELSE "write")
             /\ req'[r].copy = req[r].copy /\ req'[r].got = NotRead
    <2>1. req[r].op = "complete" => cred' # NoCred
      <3>1. CASE req[r].got = NoCred
        BY <1>1, <1>2, <1>3, <1>5, <3>1, WrittenColumns
      <3>2. CASE req[r].got # NoCred
        BY <1>1, <1>2, <1>3, <3>2 DEF Backed, Holds, Kept
      <3>. QED
        BY <3>1, <3>2
    <2>2. Backed(r)'
      BY <1>2, <1>3, <1>5, <2>1 DEF Backed, Carries, Holds, Kept
    <2>. QED
      BY <1>1, <2>2, RegisteredMoves
  <1>. QED
    BY <1>1, <1>4, <1>5

LEMMA RegisteredOrphan ==
    ASSUME Typed, Registered, Kept, NEW o \in orphans, OrphanRead(o) \/ OrphanSave(o)
    PROVE  Registered'
  <1>1. /\ UNCHANGED <<user, req>>
        /\ \/ \E p \in Orphan : /\ p.got = cred /\ orphans' = (orphans \ {o}) \cup {p}
                                /\ cred' = cred
           \/ orphans' = orphans \ {o}
    BY OrphanEffect
  <1>2. \A s \in Requests : Backed(s)'
    BY <1>1, BackedStays DEF Registered
  <1>3. \A p \in orphans' : Holds(cred', p.got)
    <2>1. \A p \in orphans : Holds(cred', p.got)
      BY DEF Registered, Holds, Kept
    <2>. QED
      BY <1>1, <2>1 DEF Holds
  <1>4. RegisteredHasCredential'
    BY <1>1 DEF Registered, RegisteredHasCredential, Kept
  <1>. QED
    BY <1>2, <1>3, <1>4 DEF Registered

LEMMA RegisteredStep ==
    ASSUME Typed, Registered, [Next]_vars
    PROVE  Registered'
  <1>1. Kept
    BY CredentialKept
  <1>2. ASSUME NEW r \in Requests, CreateSave(r) PROVE Registered'
    <2>1. /\ \/ user = NoUser /\ user' = NewUser /\ Goes(r, "invite")
             \/ user' = user /\ Moves(r) /\ req'[r] = Idle
          /\ req[r].op = "create" /\ req[r] # Idle /\ cred' = cred /\ orphans' = orphans
      BY <1>2, CreateSaveEffect
    <2>2. Moves(r) /\ Backed(r)'
      BY <2>1 DEF Goes, Carries, Registered, Backed
    <2>3. \A s \in Requests \ {r} : Backed(s)'
      BY <1>1, <2>2, BackedStays DEF Registered, Moves
    <2>4. RegisteredHasCredential'
      BY <2>1 DEF Registered, RegisteredHasCredential, NewUser
    <2>. QED
      BY <2>1, <2>2, <2>3, <2>4 DEF Registered
  <1>3. ASSUME NEW r \in Requests, Invite(r) \/ Clean(r) PROVE Registered'
    <2>1. Moves(r) /\ req'[r] = Idle /\ UNCHANGED <<user, orphans>>
      BY <1>3, DoneEffect DEF Invite, Clean, Typed
    <2>. QED
      BY <1>1, <2>1, RegisteredMoves DEF Backed
  <1>4. ASSUME NEW r \in Requests, AvatarFind(r) PROVE Registered'
    <2>1. /\ \/ Carries(r, "write") /\ req'[r].copy = user /\ req'[r].got = req[r].got
             \/ Moves(r) /\ req'[r] = Idle
          /\ req[r].op = "avatar" /\ req[r] # Idle /\ UNCHANGED <<user, cred, orphans>>
      BY <1>4, AvatarFindEffect
    <2>2. Moves(r) /\ Backed(r)'
      BY <2>1 DEF Carries, Registered, Backed, RegisteredHasCredential
    <2>. QED
      BY <1>1, <2>1, <2>2, RegisteredMoves
  <1>5. ASSUME NEW r \in Requests, AuthRead(r) PROVE Registered'
    <2>1. /\ Carries(r, req[r].pc) /\ req'[r].copy = req[r].copy /\ req'[r].got = cred
          /\ req[r] # Idle /\ UNCHANGED <<user, cred, orphans>>
      BY <1>5, AuthReadEffect
    <2>2. Moves(r) /\ Backed(r)'
      BY <2>1 DEF Carries, Registered, Backed, Holds
    <2>. QED
      BY <1>1, <2>1, <2>2, RegisteredMoves
  <1>6. ASSUME NEW r \in Requests, AuthSave(r) PROVE Registered'
    BY <1>1, <1>6, RegisteredAuthSave
  <1>7. ASSUME NEW r \in Requests, Revoke(r) PROVE Registered'
    <2>1. Goes(r, "write") /\ req[r].op = "disable" /\ UNCHANGED <<user, cred, orphans>>
          /\ req[r] # Idle
      BY <1>7, RevokeEffect
    <2>2. Moves(r) /\ Backed(r)'
      BY <2>1 DEF Goes, Carries, Registered, Backed
    <2>. QED
      BY <1>1, <2>1, <2>2, RegisteredMoves
  <1>8. ASSUME NEW r \in Requests, Die(r) PROVE Registered'
    <2>1. /\ req[r] # Idle /\ Moves(r) /\ req'[r] = Idle /\ UNCHANGED <<user, cred>>
          /\ \/ orphans' = orphans
             \/ \E o \in Orphan : orphans' = orphans \cup {o} /\ o.got = req[r].got
      BY <1>8, DieEffect
    <2>2. \A s \in Requests : Backed(s)'
      BY <1>1, <2>1, BackedStays DEF Registered, Moves
    <2>3. Holds(cred, req[r].got)
      BY <2>1 DEF Registered, Backed
    <2>4. \A o \in orphans' : Holds(cred, o.got)
      BY <2>1, <2>3 DEF Registered
    <2>. QED
      BY <2>1, <2>2, <2>4 DEF Registered, RegisteredHasCredential
  <1>9. ASSUME NEW o \in orphans, OrphanRead(o) \/ OrphanSave(o) PROVE Registered'
    BY <1>1, <1>9, RegisteredOrphan
  <1>10. CASE UNCHANGED <<user, cred, req, orphans>>
    BY <1>10 DEF Registered, RegisteredHasCredential, Backed
  <1>11. ASSUME NEW t \in tokens, Expire(t) PROVE UNCHANGED <<user, cred, req, orphans>>
    BY <1>11 DEF Expire
  <1>. QED
    BY <1>2, <1>3, <1>4, <1>5, <1>6, <1>7, <1>8, <1>9, <1>10, <1>11,
       RegisteredBegins, RegisteredWrites, NextCases DEF vars

LEMMA RegisteredAlways == Spec => []Registered
  <1>1. Init => Registered
    BY DEF Init, Registered, RegisteredHasCredential, Backed, NoUser
  <1>2. Typed /\ Registered /\ [Next]_vars => Registered'
    BY RegisteredStep
  <1>. QED
    BY <1>1, <1>2, TypedAlways, PTL DEF Spec

\* However requests, abandoned calls and crashes cross, the password of a
\* credential that exists is the one it was made with: provisionCredentials
\* leaves an existing credential, and every other handler saves back the
\* password it read, which is the same one.
THEOREM InvitationCannotResetCorrect == Spec => InvitationCannotReset
  <1>1. Typed /\ Registered /\ [Next]_vars => [cred # NoCred => cred'.pw = cred.pw]_cred
    BY CredentialKept DEF Kept
  <1>. QED
    BY <1>1, TypedAlways, RegisteredAlways, PTL DEF Spec, InvitationCannotReset

-----------------------------------------------------------------------------
(* An invited user can register *)

\* The registration of r is in the row and its token still to be deleted.
Cleaning(r) == req[r] # Idle /\ req[r].op = "complete" /\ req[r].pc = "clean"

\* Only a registration that is in the row deletes a token.
Invited ==
    ~seen.expired /\ ~seen.clobbered =>
        /\ user.status = "pending" /\ issued > 0 => tokens # {}
        /\ \A r \in Requests : Cleaning(r) => user.status = "active"

\* A step that leaves the row and the tokens, and brings nobody to the cleaning.
LEMMA InvitedStays ==
    ASSUME Invited, user' = user, issued' = issued, tokens' = tokens,
           seen'.expired = seen.expired, seen'.clobbered = seen.clobbered,
           \A r \in Requests : Cleaning(r)' => Cleaning(r)
    PROVE  Invited'
  BY DEF Invited

LEMMA InvitedWrites ==
    ASSUME Typed, Invited, NEW r \in Requests, Writes(r)
    PROVE  Invited'
  <1>1. /\ At(r, "write") /\ Moves(r) /\ req[r] \in Request /\ req[r] # Idle
        /\ \/ req'[r] = Idle
           \/ Goes(r, "clean") /\ UserWrite(r)
           \/ Goes(r, "undo")
        /\ UNCHANGED <<tokens, issued>>
    BY WritesEffect
  <1>2. /\ \/ user' = RowAfter(r) /\ seen' = Noted(r)
           \/ /\ user' = user
              /\ seen'.expired = seen.expired /\ seen'.clobbered = seen.clobbered
           \/ /\ user' = RowAfter(r) /\ seen'.expired = seen.expired
              /\ seen'.clobbered = (seen.clobbered \/ Stale(r))
    BY WritesEffect
  <1>3. /\ Noted(r).expired = seen.expired
        /\ Noted(r).clobbered = (seen.clobbered \/ Stale(r))
    BY <1>1, NotedColumns
  <1>4. /\ seen'.expired = seen.expired
        /\ ~seen'.clobbered =>
             ~seen.clobbered /\ (user' = user \/ (user' = RowAfter(r) /\ ~Stale(r)))
    BY <1>2, <1>3
  <1>. SUFFICES ASSUME ~seen'.expired, ~seen'.clobbered
                PROVE  /\ user'.status = "pending" /\ issued' > 0 => tokens' # {}
                       /\ \A s \in Requests : Cleaning(s)' => user'.status = "active"
    BY DEF Invited
  <1>5. /\ user.status = "pending" /\ issued > 0 => tokens # {}
        /\ \A s \in Requests : Cleaning(s) => user.status = "active"
        /\ user' = user \/ (user' = RowAfter(r) /\ ~Stale(r))
    BY <1>4 DEF Invited
  <1>6. user' = RowAfter(r) => user'.status \in {user.status, "active"}
    BY <1>1, <1>5, RowAfterColumns DEF Stale, Saves
  <1>7. user'.status = user.status \/ user'.status = "active"
    BY <1>5, <1>6
  <1>8. ASSUME Cleaning(r)' PROVE user'.status = "active"
    <2>1. UserWrite(r) /\ req[r].op = "complete"
      BY <1>1, <1>8 DEF Cleaning, Goes, Carries
    <2>. QED
      BY <1>1, <2>1, RowAfterColumns DEF UserWrite
  <1>9. \A s \in Requests \ {r} : Cleaning(s)' => Cleaning(s)
    BY <1>1 DEF Cleaning, Moves
  <1>. QED
    BY <1>1, <1>5, <1>7, <1>8, <1>9

LEMMA InvitedStep ==
    ASSUME Typed, Invited, [Next]_vars
    PROVE  Invited'
  <1>1. ASSUME NEW r \in Requests, Begins(r) PROVE Invited'
    <2>1. PICK op \in Operations : \E pc \in First[op] : Beginning(r, op, pc)
      BY <1>1, BeginsEffect
    <2>2. PICK pc \in First[op] : Beginning(r, op, pc)
      BY <2>1
    <2>3. PICK token \in Nat : \E new \in Nat : Begun(r, op, pc, token, new)
      BY <2>2 DEF Beginning
    <2>4. PICK new \in Nat : Begun(r, op, pc, token, new)
      BY <2>3
    <2>5. pc # "clean"
      BY DEF First, Operations
    <2>6. \A s \in Requests : Cleaning(s)' => Cleaning(s)
      BY <2>4, <2>5 DEF Begun, Continues, Cleaning
    <2>7. /\ user' = user /\ issued' = issued /\ tokens' = tokens
          /\ seen'.expired = seen.expired /\ seen'.clobbered = seen.clobbered
      BY <2>2, <2>4 DEF Beginning, Begun
    <2>. QED
      BY <2>6, <2>7, InvitedStays
  <1>2. ASSUME NEW r \in Requests, CreateSave(r) PROVE Invited'
    <2>1. /\ \/ user = NoUser /\ user' = NewUser /\ Goes(r, "invite")
             \/ user' = user /\ Moves(r) /\ req'[r] = Idle
          /\ UNCHANGED <<tokens, issued, seen>>
      BY <1>2, CreateSaveEffect
    <2>2. CASE user = NoUser /\ user' = NewUser /\ Goes(r, "invite")
      <3>1. issued = 0 /\ \A s \in Requests : req[s] # Idle => req[s].pc = "insert"
        BY <2>2 DEF Typed, Present
      <3>2. \A s \in Requests : ~Cleaning(s)'
        BY <2>2, <3>1 DEF Cleaning, Goes, Carries, Moves
      <3>. QED
        BY <2>1, <3>1, <3>2 DEF Invited
    <2>3. CASE user' = user /\ Moves(r) /\ req'[r] = Idle
      <3>1. \A s \in Requests : Cleaning(s)' => Cleaning(s)
        BY <2>3 DEF Cleaning, Moves
      <3>. QED
        BY <2>1, <2>3, <3>1, InvitedStays
    <2>. QED
      BY <2>1, <2>2, <2>3
  <1>3. ASSUME NEW r \in Requests, Invite(r) PROVE Invited'
    <2>1. /\ Moves(r) /\ req'[r] = Idle
          /\ tokens' = tokens \cup {issued + 1} /\ UNCHANGED <<user, seen>>
      BY <1>3, DoneEffect DEF Invite, Typed
    <2>2. \A s \in Requests : Cleaning(s)' => Cleaning(s)
      BY <2>1 DEF Cleaning, Moves
    <2>. QED
      BY <2>1, <2>2 DEF Invited
  <1>4. ASSUME NEW r \in Requests,
               AvatarFind(r) \/ AuthRead(r) \/ AuthSave(r) \/ Revoke(r)
        PROVE  Invited'
    <2>1. /\ req'[r] = Idle
             \/ req'[r].pc \in {"write", "revoke", "call", "undo"}
          /\ Moves(r) /\ UNCHANGED <<user, issued, tokens, seen>>
      <3>1. CASE AvatarFind(r)
        BY <3>1, AvatarFindEffect DEF Carries
      <3>2. CASE AuthRead(r)
        <4>1. /\ Carries(r, req[r].pc) /\ req[r].pc \in {"call", "undo"}
              /\ UNCHANGED <<user, issued, tokens, seen>>
          BY <3>2, AuthReadEffect DEF AuthRead, Calling
        <4>. QED
          BY <4>1 DEF Carries
      <3>3. CASE AuthSave(r)
        BY <3>3, AuthSaveEffect DEF Carries
      <3>4. CASE Revoke(r)
        BY <3>4, RevokeEffect DEF Goes, Carries
      <3>. QED
        BY <1>4, <3>1, <3>2, <3>3, <3>4
    <2>2. \A s \in Requests : Cleaning(s)' => Cleaning(s)
      BY <2>1 DEF Cleaning, Moves
    <2>. QED
      BY <2>1, <2>2, InvitedStays
  <1>5. ASSUME NEW r \in Requests, Clean(r) PROVE Invited'
    <2>1. /\ req[r] # Idle /\ req[r].pc = "clean" /\ Moves(r) /\ req'[r] = Idle
          /\ req[r].op # "complete" => tokens' = tokens
          /\ UNCHANGED <<user, issued, seen>>
      BY <1>5, CleanEffect
    <2>2. \A s \in Requests : Cleaning(s)' => Cleaning(s)
      BY <2>1 DEF Cleaning, Moves
    <2>3. CASE Cleaning(r)
      BY <2>1, <2>2, <2>3 DEF Invited
    <2>4. CASE ~Cleaning(r)
      BY <2>1, <2>2, <2>4, InvitedStays DEF Cleaning
    <2>. QED
      BY <2>3, <2>4
  <1>6. ASSUME NEW r \in Requests, Die(r) PROVE Invited'
    <2>1. /\ Moves(r) /\ req'[r] = Idle /\ UNCHANGED <<user, issued, tokens>>
          /\ seen'.expired = seen.expired /\ seen'.clobbered = seen.clobbered
      BY <1>6, DieEffect
    <2>2. \A s \in Requests : Cleaning(s)' => Cleaning(s)
      BY <2>1 DEF Cleaning, Moves
    <2>. QED
      BY <2>1, <2>2, InvitedStays
  <1>7. ASSUME NEW o \in orphans, OrphanRead(o) \/ OrphanSave(o) PROVE Invited'
    <2>1. UNCHANGED <<user, issued, tokens, req, seen>>
      BY <1>7 DEF OrphanRead, OrphanSave
    <2>. QED
      BY <2>1 DEF Invited, Cleaning
  <1>8. ASSUME NEW t \in tokens, Expire(t) PROVE Invited'
    <2>1. seen'.expired
      BY <1>8 DEF Expire, Typed, Observation
    <2>. QED
      BY <2>1 DEF Invited
  <1>9. CASE UNCHANGED vars
    BY <1>9 DEF vars, Invited, Cleaning
  <1>. QED
    BY <1>1, <1>2, <1>3, <1>4, <1>5, <1>6, <1>7, <1>8, <1>9, InvitedWrites, NextCases

\* Whatever dies between the two databases and Redis, a registered user has a
\* credential to log in with, and an invited one who is not registered holds an
\* invitation, unless one expired or a save wrote back an old row
\* (user-registration.service.ts, completeRegistration).
THEOREM RegistrationSafeCorrect == Spec => []RegistrationSafe
  <1>1. Init => Invited
    BY DEF Init, Invited, NoUser, Cleaning
  <1>2. Typed /\ Invited /\ [Next]_vars => Invited'
    BY InvitedStep
  <1>3. Registered /\ Invited => RegistrationSafe
    BY DEF Registered, Invited, RegistrationSafe, InvitationOutlivesFailure
  <1>. QED
    BY <1>1, <1>2, <1>3, TypedAlways, RegisteredAlways, PTL DEF Spec

-----------------------------------------------------------------------------
(* What a request that is alone can rely on *)

Alone(r) == req[r] # Idle /\ req[r].alone

\* Nobody else is at work, so what r read of the credential and what it had
\* auth-service make of it are still there.
Undisturbed(r) ==
    /\ orphans = {} /\ \A s \in Requests \ {r} : req[s] = Idle
    /\ req[r].got # NotRead => req[r].got = cred
    /\ req[r].op \in {"remove", "disable"} /\ req[r].pc \in {"revoke", "write"} =>
         cred.status # "ACTIVE"
    /\ req[r].op \in {"restore", "enable"} /\ req[r].pc = "write" =>
         cred.status = "ACTIVE" \/ cred = NoCred
    /\ req[r].op = "complete" /\ req[r].pc = "write" => cred.status = "ACTIVE"

Lone == \A r \in Requests : Alone(r) => Undisturbed(r)

\* A step of one request leaves no other alone.
LEMMA OnlyOneAlone ==
    ASSUME Lone, NEW r \in Requests, req[r] # Idle, Moves(r),
           Alone(r)' => Undisturbed(r)'
    PROVE  Lone'
  <1>1. \A s \in Requests \ {r} : Alone(s)' => Alone(s)
    BY DEF Alone, Moves
  <1>2. \A s \in Requests \ {r} : ~Alone(s)
    BY DEF Lone, Undisturbed
  <1>. QED
    BY <1>1, <1>2 DEF Lone

LEMMA LoneBegins ==
    ASSUME Typed, Lone, NEW r \in Requests, Begins(r)
    PROVE  Lone'
  <1>1. PICK op \in Operations : \E pc \in First[op] : Beginning(r, op, pc)
    BY BeginsEffect
  <1>2. PICK pc \in First[op] : Beginning(r, op, pc)
    BY <1>1
  <1>3. PICK token \in Nat : \E new \in Nat : Begun(r, op, pc, token, new)
    BY <1>2 DEF Beginning
  <1>4. PICK new \in Nat : Begun(r, op, pc, token, new)
    BY <1>3
  <1>5. \A s \in Requests \ {r} : ~Alone(s)'
    BY <1>4 DEF Begun, Continues, Alone
  <1>6. /\ orphans' = orphans /\ req'[r].op = op /\ req'[r].pc = pc
        /\ req'[r].got = NotRead /\ req'[r].alone = Quiet
        /\ \A s \in Requests \ {r} : req[s] = Idle => req'[s] = Idle
    BY <1>2, <1>4 DEF Beginning, Begun
  <1>7. op \in {"remove", "disable", "restore", "enable", "complete"} => pc = "call"
    BY DEF First
  <1>8. ASSUME Alone(r)' PROVE Undisturbed(r)'
    <2>1. Quiet
      BY <1>6, <1>8 DEF Alone
    <2>. QED
      BY <1>6, <1>7, <2>1 DEF Undisturbed, Quiet
  <1>. QED
    BY <1>5, <1>8 DEF Lone

LEMMA LoneAuthSave ==
    ASSUME Typed, Lone, NEW r \in Requests, AuthSave(r)
    PROVE  Lone'
  <1>1. /\ Calling(r) /\ Moves(r) /\ req[r].got \in Credential \cup {NoCred}
        /\ \/ req'[r] = Idle
           \/ /\ ~Refused(CallOf(r), req[r].got)
              /\ cred' = Written(CallOf(r), req[r].got, req[r].pw)
              /\ req[r].pc = "call"
              /\ Carries(r, IF req[r].op = "disable" THEN "revoke" ELSE "write")
              /\ req'[r].got = NotRead
        /\ orphans' = orphans
    BY AuthSaveEffect
  <1>2. /\ CallOf(r) \in AuthCalls /\ req[r].pw \in Nat \ {0} /\ req[r] # Idle
        /\ req[r].op = "complete" => CallOf(r) = "provision"
        /\ req[r].pc = "call" =>
             /\ req[r].op \in {"remove", "disable"} => CallOf(r) = "disable"
             /\ req[r].op \in {"restore", "enable"} => CallOf(r) = "enable"
    BY <1>1, CallingType DEF Request
  <1>3. /\ cred \in Credential \cup {NoCred} /\ NoCred.status = "none"
        /\ NotRead \notin Credential \cup {NoCred}
    BY NobodyFacts DEF Typed
  <1>4. ASSUME Alone(r)' PROVE Undisturbed(r)'
    <2>1. /\ ~Refused(CallOf(r), req[r].got)
          /\ cred' = Written(CallOf(r), req[r].got, req[r].pw)
          /\ req[r].pc = "call" /\ req'[r].got = NotRead
          /\ req'[r].op = req[r].op /\ req'[r].alone = req[r].alone
      BY <1>1, <1>4 DEF Alone, Carries
    <2>2. Alone(r)
      BY <1>2, <1>4, <2>1 DEF Alone
    <2>3. /\ orphans = {} /\ \A s \in Requests \ {r} : req[s] = Idle
          /\ req[r].got = cred
      BY <1>1, <1>3, <2>2 DEF Lone, Undisturbed
    <2>4. req[r].op \in {"remove", "disable"} => cred'.status # "ACTIVE"
      BY <1>1, <1>2, <1>3, <2>1, <2>3, WrittenColumns
    <2>5. req[r].op \in {"restore", "enable"} => cred'.status = "ACTIVE" \/ cred' = NoCred
      BY <1>1, <1>2, <1>3, <2>1, <2>3, WrittenColumns
    <2>6. req[r].op = "complete" => cred'.status = "ACTIVE"
      <3>1. CASE req[r].got = NoCred
        BY <1>1, <1>2, <1>3, <2>1, <3>1, WrittenColumns
      <3>2. CASE req[r].got # NoCred
        <4>1. req[r].op = "complete" => req[r].got.status # "DISABLED" /\ cred' = cred
          BY <1>1, <1>2, <1>3, <2>1, <3>2, WrittenColumns DEF Refused
        <4>. QED
          BY <1>1, <2>3, <3>2, <4>1 DEF Credential
      <3>. QED
        BY <3>1, <3>2
    <2>. QED
      BY <1>1, <2>1, <2>3, <2>4, <2>5, <2>6 DEF Undisturbed, Moves
  <1>. QED
    BY <1>1, <1>2, <1>4, OnlyOneAlone

LEMMA LoneStep ==
    ASSUME Typed, Lone, [Next]_vars
    PROVE  Lone'
  <1>1. ASSUME NEW r \in Requests, Invite(r) \/ Clean(r) \/ Die(r) PROVE Lone'
    <2>1. Moves(r) /\ req'[r] = Idle /\ req[r] # Idle
      BY <1>1, DoneEffect DEF Invite, Clean, Die, At, Typed
    <2>. QED
      BY <2>1, OnlyOneAlone DEF Alone
  \* A step of r that leaves the credential and brings nothing about.
  <1>2. ASSUME NEW r \in Requests, req[r] # Idle, Moves(r), UNCHANGED <<cred, orphans>>,
               \/ req'[r] = Idle
               \/ /\ req'[r].op = req[r].op /\ req'[r].got = req[r].got
                  /\ req'[r].alone = req[r].alone
                  /\ \/ req[r].op \in {"create", "avatar"}
                     \/ req[r].op = "disable" /\ req[r].pc = "revoke"
                     \/ req'[r].pc \in {"clean", "undo"}
        PROVE  Lone'
    <2>1. ASSUME Alone(r)' PROVE Undisturbed(r)'
      <3>1. Undisturbed(r) /\ req'[r] # Idle
        BY <1>2, <2>1 DEF Alone, Lone
      <3>. QED
        BY <1>2, <3>1 DEF Undisturbed, Moves
    <2>. QED
      BY <1>2, <2>1, OnlyOneAlone
  <1>3. ASSUME NEW r \in Requests, CreateSave(r) PROVE Lone'
    <2>1. /\ Goes(r, "invite") \/ (Moves(r) /\ req'[r] = Idle)
          /\ req[r].op = "create" /\ req[r] # Idle /\ UNCHANGED <<cred, orphans>>
      BY <1>3, CreateSaveEffect
    <2>. QED
      BY <1>2, <2>1 DEF Goes, Carries
  <1>4. ASSUME NEW r \in Requests, AvatarFind(r) PROVE Lone'
    <2>1. /\ \/ Carries(r, "write") /\ req'[r].got = req[r].got
             \/ Moves(r) /\ req'[r] = Idle
          /\ req[r].op = "avatar" /\ req[r] # Idle /\ UNCHANGED <<cred, orphans>>
      BY <1>4, AvatarFindEffect
    <2>. QED
      BY <1>2, <2>1 DEF Carries
  <1>5. ASSUME NEW r \in Requests, AuthRead(r) PROVE Lone'
    <2>1. /\ Carries(r, req[r].pc) /\ req'[r].got = cred
          /\ req[r] # Idle /\ UNCHANGED <<cred, orphans>>
      BY <1>5, AuthReadEffect
    <2>2. ASSUME Alone(r)' PROVE Undisturbed(r)'
      <3>1. Undisturbed(r)
        BY <2>1, <2>2 DEF Alone, Carries, Lone
      <3>. QED
        BY <2>1, <3>1 DEF Undisturbed, Carries, Moves
    <2>. QED
      BY <2>1, <2>2, OnlyOneAlone DEF Carries
  <1>6. ASSUME NEW r \in Requests, Revoke(r) PROVE Lone'
    <2>1. /\ Goes(r, "write") /\ req[r].op = "disable" /\ req[r].pc = "revoke"
          /\ req[r] # Idle /\ UNCHANGED <<cred, orphans>>
      BY <1>6, RevokeEffect
    <2>. QED
      BY <1>2, <2>1 DEF Goes, Carries
  <1>7. ASSUME NEW r \in Requests, Writes(r) PROVE Lone'
    <2>1. /\ Moves(r) /\ req[r] # Idle /\ UNCHANGED <<cred, orphans>>
          /\ req'[r] = Idle \/ Goes(r, "clean") \/ Goes(r, "undo")
      BY <1>7, WritesEffect
    <2>. QED
      BY <1>2, <2>1 DEF Goes, Carries
  <1>8. ASSUME NEW o \in orphans, OrphanRead(o) \/ OrphanSave(o) PROVE Lone'
    <2>1. req' = req
      BY <1>8 DEF OrphanRead, OrphanSave
    <2>2. \A r \in Requests : ~Alone(r)
      BY DEF Lone, Undisturbed
    <2>. QED
      BY <2>1, <2>2 DEF Lone, Alone
  <1>9. CASE UNCHANGED <<req, cred, orphans>>
    BY <1>9 DEF Lone, Alone, Undisturbed
  <1>10. ASSUME NEW t \in tokens, Expire(t) PROVE UNCHANGED <<req, cred, orphans>>
    BY <1>10 DEF Expire
  <1>. QED
    BY <1>1, <1>3, <1>4, <1>5, <1>6, <1>7, <1>8, <1>9, <1>10, LoneBegins, LoneAuthSave,
       NextCases DEF vars

LEMMA LoneAlways == Spec => []Lone
  <1>1. Init => Lone
    BY DEF Init, Lone, Alone
  <1>2. Typed /\ Lone /\ [Next]_vars => Lone'
    BY LoneStep
  <1>. QED
    BY <1>1, <1>2, TypedAlways, PTL DEF Spec

-----------------------------------------------------------------------------
(* A deleted user cannot log in *)

\* After a removal that was alone nothing is in course: a deleted user is found
\* by a restoration only.
Removed ==
    seen.removal = "alone" /\ ~seen.reopened =>
        Quiet /\ user.gone /\ cred.status # "ACTIVE"

\* The write of a request.
LEMMA RemovedWrites ==
    ASSUME Typed, Lone, Removed, NEW r \in Requests, Writes(r)
    PROVE  Removed'
  <1>. SUFFICES ASSUME seen'.removal = "alone", ~seen'.reopened
                PROVE  Quiet' /\ user'.gone /\ cred'.status # "ACTIVE"
    BY DEF Removed
  <1>1. /\ At(r, "write") /\ Moves(r) /\ req[r] # Idle /\ req[r].pc = "write"
        /\ \/ req'[r] = Idle
           \/ req[r].op \in {"complete", "avatar"}
           \/ WriteFails(r) /\ req[r].op \notin {"complete", "avatar"}
        /\ UNCHANGED <<cred, orphans>>
    BY WritesEffect DEF At
  <1>2. ~(seen.removal = "alone" /\ ~seen.reopened)
    BY <1>1 DEF Removed, Quiet
  <1>3. /\ Noted(r).reopened = (seen.reopened /\ req[r].op # "remove")
        /\ Noted(r).removal = "alone" =>
             IF req[r].op = "remove" THEN req[r].alone ELSE seen.removal = "alone"
    BY <1>1, NotedColumns
  <1>4. CASE user' = RowAfter(r) /\ seen' = Noted(r) /\ UserWrite(r)
    <2>1. req[r].op = "remove" /\ req[r].alone
      BY <1>2, <1>3, <1>4
    <2>2. Undisturbed(r)
      BY <1>1, <2>1 DEF Lone, Alone
    <2>3. req'[r] = Idle
      BY <1>4, <2>1, DoneEffect DEF UserWrite, Typed
    <2>4. user'.gone
      BY <1>1, <1>4, <2>1, RowAfterColumns
    <2>5. Quiet'
      BY <1>1, <2>2, <2>3 DEF Undisturbed, Moves, Quiet
    <2>. QED
      BY <1>1, <2>1, <2>2, <2>4, <2>5 DEF Undisturbed
  <1>5. CASE seen'.removal = seen.removal /\ seen'.reopened = seen.reopened
    BY <1>2, <1>5
  <1>6. CASE /\ seen'.reopened = (seen.reopened /\ req[r].op # "remove")
             /\ seen'.removal = "alone" => req[r].op # "remove" /\ seen.removal = "alone"
    BY <1>2, <1>6
  <1>7. \/ user' = RowAfter(r) /\ seen' = Noted(r) /\ UserWrite(r)
        \/ seen'.removal = seen.removal /\ seen'.reopened = seen.reopened
        \/ /\ seen'.reopened = (seen.reopened /\ req[r].op # "remove")
           /\ seen'.removal = "alone" => req[r].op # "remove" /\ seen.removal = "alone"
    BY WritesEffect
  <1>. QED
    BY <1>4, <1>5, <1>6, <1>7

LEMMA RemovedStep ==
    ASSUME Typed, Lone, Removed, [Next]_vars
    PROVE  Removed'
  <1>1. ASSUME NEW r \in Requests, Begins(r) PROVE Removed'
    <2>1. PICK op \in Operations : \E pc \in First[op] : Beginning(r, op, pc)
      BY <1>1, BeginsEffect
    <2>2. PICK pc \in First[op] : Beginning(r, op, pc)
      BY <2>1
    <2>3. PICK token \in Nat : \E new \in Nat : Begun(r, op, pc, token, new)
      BY <2>2 DEF Beginning
    <2>4. PICK new \in Nat : Begun(r, op, pc, token, new)
      BY <2>3
    <2>5. /\ op # "restore" => ~user.gone
          /\ seen'.removal = seen.removal
          /\ seen'.reopened = (seen.reopened \/ op = "restore")
      BY <2>2, <2>4 DEF Beginning, Begun
    <2>. QED
      BY <2>5 DEF Removed
  \* A step of a request in course that leaves the observation.
  <1>2. ASSUME NEW r \in Requests, req[r] # Idle,
               seen'.removal = seen.removal, seen'.reopened = seen.reopened
        PROVE  Removed'
    BY <1>2 DEF Removed, Quiet
  <1>3. ASSUME NEW r \in Requests,
               \/ CreateSave(r) \/ Invite(r) \/ AvatarFind(r) \/ AuthRead(r)
               \/ AuthSave(r) \/ Revoke(r) \/ Clean(r)
        PROVE  Removed'
    <2>1. req[r] # Idle /\ seen' = seen
      BY <1>3 DEF CreateSave, Invite, AvatarFind, AuthRead, AuthSave, Revoke, Clean, At,
                  Calling
    <2>. QED
      BY <1>2, <2>1
  <1>4. ASSUME NEW r \in Requests, Die(r) PROVE Removed'
    BY <1>2, <1>4, DieEffect
  <1>5. ASSUME NEW o \in orphans, OrphanRead(o) \/ OrphanSave(o) PROVE Removed'
    <2>1. seen' = seen
      BY <1>5 DEF OrphanRead, OrphanSave
    <2>. QED
      BY <2>1 DEF Removed, Quiet
  <1>6. ASSUME NEW t \in tokens, Expire(t) PROVE Removed'
    <2>1. /\ UNCHANGED <<user, cred, req, orphans>>
          /\ seen'.removal = seen.removal /\ seen'.reopened = seen.reopened
      BY <1>6 DEF Expire, Typed, Observation
    <2>. QED
      BY <2>1 DEF Removed, Quiet
  <1>7. CASE UNCHANGED vars
    BY <1>7 DEF vars, Removed, Quiet
  <1>. QED
    BY <1>1, <1>3, <1>4, <1>5, <1>6, <1>7, RemovedWrites, NextCases

\* Whatever died before a removal that was alone, and whatever auth-service is
\* asked afterwards, the credential of the deleted user is not active until a
\* restoration begins (user-profile.service.ts, remove, restore).
THEOREM DeletedCannotLogInCorrect == Spec => []DeletedCannotLogIn
  <1>1. Init => Removed
    BY DEF Init, Removed
  <1>2. Typed /\ Lone /\ Removed /\ [Next]_vars => Removed'
    BY RemovedStep
  <1>3. Removed => DeletedCannotLogIn
    BY DEF Removed, DeletedCannotLogIn
  <1>. QED
    BY <1>1, <1>2, <1>3, TypedAlways, LoneAlways, PTL DEF Spec

-----------------------------------------------------------------------------
(* The two databases agree *)

\* The call of r on whether the user may log in has begun to take effect in one
\* of the two databases.
Decided(r) ==
    /\ req[r] # Idle /\ req[r].pc # "call"
    /\ req[r].op \in {"remove", "restore", "disable", "enable"}

Undoing(r) == req[r] # Idle /\ req[r].pc = "undo"

Agreement ==
    (Live /\ user.status = "active" /\ \A r \in Requests : ~Decided(r))
      => (user.on <=> cred.status = "ACTIVE")

\* As long as access went well no call is abandoned and none is undone.
Agreed ==
    seen.sure =>
        /\ orphans = {}
        /\ \A r \in Requests : ~Undoing(r)
        /\ Agreement

\* A step that changes neither row and decides nothing.
LEMMA AgreedStays ==
    ASSUME Agreed, seen'.sure => seen.sure, UNCHANGED <<user, cred>>,
           orphans' = orphans \/ ~seen'.sure,
           \A s \in Requests : Undoing(s)' => Undoing(s),
           \A s \in Requests : Decided(s) => Decided(s)'
    PROVE  Agreed'
  BY DEF Agreed, Agreement, Live

\* A step of r that is not about access.
LEMMA AgreedMoves ==
    ASSUME Agreed, NEW r \in Requests, Moves(r), seen'.sure => seen.sure,
           UNCHANGED <<user, cred>>, orphans' = orphans \/ ~seen'.sure,
           ~Decided(r) \/ Decided(r)', ~Undoing(r)'
    PROVE  Agreed'
  <1>1. \A s \in Requests : Undoing(s)' => Undoing(s)
    BY DEF Undoing, Moves
  <1>2. \A s \in Requests : Decided(s) => Decided(s)'
    BY DEF Decided, Moves
  <1>. QED
    BY <1>1, <1>2, AgreedStays

LEMMA AgreedAuthSave ==
    ASSUME Typed, Registered, Agreed, NEW r \in Requests, AuthSave(r)
    PROVE  Agreed'
  <1>. SUFFICES ASSUME seen.sure PROVE Agreed'
    BY DEF Agreed, AuthSave
  <1>1. /\ Calling(r) /\ Moves(r) /\ req[r].got \in Credential \cup {NoCred}
        /\ \/ cred' = cred /\ req'[r] = Idle
           \/ /\ ~Refused(CallOf(r), req[r].got)
              /\ cred' = Written(CallOf(r), req[r].got, req[r].pw)
              /\ \/ /\ req[r].pc = "undo" \/ req[r].op = "provision"
                    /\ req'[r] = Idle
                 \/ Carries(r, IF req[r].op = "disable" THEN "revoke" ELSE "write")
        /\ UNCHANGED <<user, orphans, seen>>
    BY AuthSaveEffect
  <1>2. /\ CallOf(r) \in AuthCalls /\ req[r].pw \in Nat \ {0} /\ req[r] # Idle
        /\ req[r].op \in {"complete", "provision"} => CallOf(r) = "provision"
        /\ req[r].op \in {"remove", "restore", "disable", "enable", "complete", "provision"}
        /\ req[r].pc \in {"call", "undo"}
    BY <1>1, CallingType DEF Request
  <1>3. req[r].pc = "call" /\ ~Decided(r)
    BY <1>2 DEF Agreed, Undoing, Decided
  <1>4. ~Undoing(r)'
    BY <1>1, <1>3 DEF Undoing, Carries
  <1>5. CASE cred' = cred
    BY <1>1, <1>3, <1>4, <1>5, AgreedMoves
  <1>6. CASE req'[r] # Idle /\ req[r].op \notin {"complete", "provision"}
    <2>1. Decided(r)'
      BY <1>1, <1>2, <1>6 DEF Decided, Carries
    <2>2. \A s \in Requests : ~Undoing(s)'
      BY <1>1, <1>4 DEF Agreed, Undoing, Moves
    <2>. QED
      BY <1>1, <2>1, <2>2 DEF Agreed, Agreement
  <1>7. CASE req[r].op \in {"complete", "provision"} /\ cred' # cred
    <2>1. cred = NoCred
      <3>1. ~Refused("provision", req[r].got) /\ cred' = Written("provision", req[r].got, req[r].pw)
        BY <1>1, <1>2, <1>7
      <3>2. req[r].got = NoCred
        BY <1>1, <1>2, <1>7, <3>1 DEF Written
      <3>. QED
        BY <3>1, <3>2 DEF Refused
    <2>2. user.status # "active"
      BY <2>1 DEF Registered, RegisteredHasCredential
    <2>3. \A s \in Requests : ~Undoing(s)'
      BY <1>1, <1>4 DEF Agreed, Undoing, Moves
    <2>. QED
      BY <1>1, <2>2, <2>3 DEF Agreed, Agreement
  <1>8. cred' # cred /\ req[r].op \notin {"complete", "provision"} => req'[r] # Idle
    BY <1>1, <1>3, RequestNotIdle DEF Carries
  <1>. QED
    BY <1>5, <1>6, <1>7, <1>8

LEMMA AgreedWrites ==
    ASSUME Typed, Registered, Lone, Agreed, NEW r \in Requests, Writes(r)
    PROVE  Agreed'
  <1>. SUFFICES ASSUME seen'.sure
                PROVE  /\ orphans' = {}
                       /\ \A s \in Requests : ~Undoing(s)'
                       /\ Agreement'
    BY DEF Agreed
  <1>1. /\ user' = RowAfter(r) /\ seen' = Noted(r) /\ UserWrite(r)
        /\ At(r, "write") /\ Moves(r) /\ req[r] \in Request /\ req[r] # Idle
        /\ UNCHANGED <<cred, orphans>>
    BY WritesEffect
  <1>2. /\ req[r].pc = "write" /\ user \in User /\ user # NoUser /\ req[r].op \in Operations
        /\ NoUser \notin User /\ NoCred.status = "none"
    BY <1>1, NobodyFacts DEF At, Typed, Present, Request
  <1>3. /\ req[r].op \in Deciding \/ seen.sure
        /\ req[r].op \in Deciding \cup {"remove", "restore"} => req[r].alone
        /\ req[r].op = "restore" => (user.status = "active" => user.on)
        /\ req[r].op \notin Deciding \cup {"remove", "restore"} => ~Stale(r)
    BY <1>1, NotedColumns
  <1>4. req'[r] = Idle \/ req'[r].pc = "clean"
    BY <1>1, DoneEffect DEF UserWrite, Go, Typed, Slots, Request
  <1>5. req[r].op \in Deciding \cup {"remove", "restore"} => Undisturbed(r)
    BY <1>1, <1>3 DEF Lone, Alone
  <1>6. orphans' = {} /\ \A s \in Requests : ~Undoing(s)'
    <2>1. CASE req[r].op \in Deciding
      <3>1. orphans = {} /\ \A s \in Requests \ {r} : req[s] = Idle
        BY <1>5, <2>1 DEF Undisturbed
      <3>. QED
        BY <1>1, <1>4, <3>1 DEF Undoing, Moves
    <2>2. CASE req[r].op \notin Deciding
      BY <1>1, <1>3, <1>4, <2>2 DEF Agreed, Undoing, Moves
    <2>. QED
      BY <2>1, <2>2
  <1>7. Agreement'
    <2>. SUFFICES ASSUME Live', user'.status = "active",
                         \A s \in Requests : ~Decided(s)'
                  PROVE  user'.on <=> cred.status = "ACTIVE"
      BY <1>1 DEF Agreement
    <2>1. Backed(r) /\ RegisteredHasCredential
      BY DEF Registered
    <2>2. CASE req[r].op = "disable"
      BY <1>1, <1>2, <1>5, <2>2, RowAfterColumns DEF Undisturbed, Deciding
    <2>3. CASE req[r].op = "enable"
      <3>1. user'.on /\ req[r].copy.status = "active"
        BY <1>1, <2>3, RowAfterColumns
      <3>2. cred # NoCred
        BY <1>1, <2>1, <3>1 DEF Backed
      <3>. QED
        BY <1>2, <1>5, <2>3, <3>1, <3>2 DEF Undisturbed, Deciding
    <2>4. CASE req[r].op = "complete"
      <3>1. user'.on
        BY <1>1, <2>4, RowAfterColumns
      <3>. QED
        BY <1>2, <1>5, <2>4, <3>1 DEF Undisturbed, Deciding
    <2>5. CASE req[r].op = "remove"
      <3>1. user'.gone
        BY <1>1, <2>5, RowAfterColumns
      <3>. QED
        BY <3>1 DEF Live
    <2>6. CASE req[r].op = "restore"
      <3>1. user'.on = user.on /\ user.status = "active"
        BY <1>1, <2>6, RowAfterColumns
      <3>2. cred # NoCred /\ user.on
        BY <1>3, <2>1, <2>6, <3>1 DEF RegisteredHasCredential
      <3>. QED
        BY <1>2, <1>5, <2>6, <3>1, <3>2 DEF Undisturbed
    <2>7. CASE req[r].op \notin Deciding \cup {"remove", "restore"}
      <3>1. req[r].copy = user /\ seen.sure
        BY <1>3, <2>7 DEF Stale, Saves
      <3>2. user'.on = user.on /\ user.status = "active" /\ ~user.gone
        <4>1. /\ user'.on = req[r].copy.on /\ user'.status = req[r].copy.status
              /\ user'.gone = req[r].copy.gone
          BY <1>1, <2>7, RowAfterColumns DEF Deciding
        <4>. QED
          BY <3>1, <4>1 DEF Live
      <3>3. \A s \in Requests : ~Decided(s)
        BY <1>1, <2>7 DEF Decided, Moves, Deciding
      <3>. QED
        BY <1>2, <3>1, <3>2, <3>3 DEF Agreed, Agreement, Live
    <2>. QED
      BY <2>2, <2>3, <2>4, <2>5, <2>6, <2>7 DEF Deciding
  <1>. QED
    BY <1>6, <1>7

LEMMA AgreedStep ==
    ASSUME Typed, Registered, Lone, Agreed, [Next]_vars
    PROVE  Agreed'
  <1>1. ASSUME NEW r \in Requests, Begins(r) PROVE Agreed'
    <2>1. PICK op \in Operations : \E pc \in First[op] : Beginning(r, op, pc)
      BY <1>1, BeginsEffect
    <2>2. PICK pc \in First[op] : Beginning(r, op, pc)
      BY <2>1
    <2>3. PICK token \in Nat : \E new \in Nat : Begun(r, op, pc, token, new)
      BY <2>2 DEF Beginning
    <2>4. PICK new \in Nat : Begun(r, op, pc, token, new)
      BY <2>3
    <2>5. pc # "undo"
      BY DEF First, Operations
    <2>6. \A s \in Requests : Undoing(s)' => Undoing(s)
      BY <2>4, <2>5 DEF Begun, Continues, Undoing
    <2>7. \A s \in Requests : Decided(s) => Decided(s)'
      BY <2>4, RequestNotIdle DEF Begun, Continues, Decided
    <2>8. seen'.sure = seen.sure /\ UNCHANGED <<user, cred, orphans>>
      BY <2>2, <2>4 DEF Beginning, Begun
    <2>. QED
      BY <2>6, <2>7, <2>8, AgreedStays
  <1>2. ASSUME NEW r \in Requests, CreateSave(r) PROVE Agreed'
    <2>1. /\ \/ user = NoUser /\ user' = NewUser /\ Goes(r, "invite")
             \/ user' = user /\ Moves(r) /\ req'[r] = Idle
          /\ req[r].op = "create" /\ UNCHANGED <<cred, orphans, seen>>
      BY <1>2, CreateSaveEffect
    <2>2. ~Decided(r) /\ ~Undoing(r)' /\ Moves(r)
      BY <2>1 DEF Decided, Undoing, Goes, Carries
    <2>3. CASE user' = NewUser
      <3>1. user'.status = "pending"
        BY <2>3 DEF NewUser
      <3>2. \A s \in Requests : Undoing(s)' => Undoing(s)
        BY <2>2 DEF Undoing, Moves
      <3>. QED
        BY <2>1, <3>1, <3>2 DEF Agreed, Agreement
    <2>4. CASE user' = user
      BY <2>1, <2>2, <2>4, AgreedMoves
    <2>. QED
      BY <2>1, <2>3, <2>4
  <1>3. ASSUME NEW r \in Requests, Invite(r) \/ Clean(r) PROVE Agreed'
    <2>1. /\ Moves(r) /\ req'[r] = Idle /\ req[r].pc \in {"invite", "clean"} /\ req[r] # Idle
          /\ UNCHANGED <<user, cred, orphans, seen>>
      BY <1>3, DoneEffect DEF Invite, Clean, At, Typed
    <2>2. ~Decided(r)
      BY <2>1, InCourse DEF Typed, Request, Steps, Decided
    <2>. QED
      BY <2>1, <2>2, AgreedMoves DEF Undoing
  <1>4. ASSUME NEW r \in Requests, AvatarFind(r) PROVE Agreed'
    <2>1. /\ Carries(r, "write") \/ (Moves(r) /\ req'[r] = Idle)
          /\ req[r].op = "avatar" /\ UNCHANGED <<user, cred, orphans, seen>>
      BY <1>4, AvatarFindEffect
    <2>. QED
      BY <2>1, AgreedMoves DEF Carries, Decided, Undoing
  <1>5. ASSUME NEW r \in Requests, AuthRead(r) PROVE Agreed'
    <2>1. /\ Carries(r, req[r].pc) /\ req[r] # Idle /\ UNCHANGED <<user, cred, orphans, seen>>
      BY <1>5, AuthReadEffect
    <2>2. Moves(r) /\ req'[r] # Idle /\ req'[r].pc = req[r].pc /\ req'[r].op = req[r].op
      BY <2>1, RequestNotIdle DEF Carries
    <2>3. \A s \in Requests : Undoing(s)' => Undoing(s)
      BY <2>1, <2>2 DEF Undoing, Moves
    <2>4. \A s \in Requests : Decided(s) => Decided(s)'
      BY <2>1, <2>2 DEF Decided, Moves
    <2>. QED
      BY <2>1, <2>3, <2>4, AgreedStays
  <1>6. ASSUME NEW r \in Requests, Revoke(r) PROVE Agreed'
    <2>1. /\ Goes(r, "write") /\ req[r].op = "disable"
          /\ UNCHANGED <<user, cred, orphans, seen>>
      BY <1>6, RevokeEffect
    <2>2. Moves(r) /\ req'[r] # Idle /\ req'[r].pc = "write" /\ req'[r].op = "disable"
      BY <2>1, RequestNotIdle DEF Goes, Carries
    <2>. QED
      BY <2>1, <2>2, AgreedMoves DEF Decided, Undoing
  <1>7. ASSUME NEW r \in Requests, Die(r) PROVE Agreed'
    <2>1. /\ Moves(r) /\ req'[r] = Idle /\ UNCHANGED <<user, cred>>
          /\ seen'.sure => seen.sure /\ req[r].op \in {"create", "edit", "avatar"}
          /\ orphans' = orphans \/ Calling(r)
      BY <1>7, DieEffect
    <2>2. Calling(r) => req[r].op \notin {"create", "edit", "avatar"}
      BY CallingType
    <2>3. CASE ~seen'.sure
      BY <2>3 DEF Agreed
    <2>4. CASE seen'.sure
      BY <2>1, <2>2, <2>4, AgreedMoves DEF Decided, Undoing
    <2>. QED
      BY <2>3, <2>4
  <1>8. ASSUME NEW o \in orphans, OrphanRead(o) \/ OrphanSave(o) PROVE Agreed'
    <2>1. seen' = seen
      BY <1>8 DEF OrphanRead, OrphanSave
    <2>. QED
      BY <2>1 DEF Agreed
  <1>9. ASSUME NEW t \in tokens, Expire(t) PROVE Agreed'
    <2>1. UNCHANGED <<user, cred, req, orphans>> /\ seen'.sure = seen.sure
      BY <1>9 DEF Expire, Typed, Observation
    <2>. QED
      BY <2>1, AgreedStays DEF Undoing, Decided
  <1>10. CASE UNCHANGED vars
    BY <1>10, AgreedStays DEF vars, Undoing, Decided
  <1>. QED
    BY <1>1, <1>2, <1>3, <1>4, <1>5, <1>6, <1>7, <1>8, <1>9, <1>10, AgreedWrites,
       AgreedAuthSave, NextCases

\* As long as the last registration, disabling or enabling was alone and none
\* crossed it or died since, no row was overwritten with an older one and no
\* disabled user was restored, the row of the user and its credential say the
\* same about logging in (user-profile.service.ts, disableUser, enableUser,
\* restore; user-registration.service.ts, completeRegistration).
THEOREM AccountsAgreeCorrect == Spec => []AccountsAgree
  <1>1. Init => Agreed
    BY DEF Init, Agreed, Agreement, Live, Undoing
  <1>2. Typed /\ Registered /\ Lone /\ Agreed /\ [Next]_vars => Agreed'
    BY AgreedStep
  <1>3. Agreed => AccountsAgree
    BY DEF Agreed, Agreement, AccountsAgree, Quiet, Decided
  <1>. QED
    BY <1>1, <1>2, <1>3, TypedAlways, RegisteredAlways, LoneAlways, PTL DEF Spec

-----------------------------------------------------------------------------
(* The avatar of the row is stored *)

\* A change of avatar, and one whose new avatar the row has never named.
Changing(r) == req[r] # Idle /\ req[r].op = "avatar"

Unwritten(r) == Changing(r) /\ req[r].pc \in {"reread", "write"}

\* What each change still has to write is stored and nobody else's to delete,
\* and what it has still to delete the row no longer names.
AvatarsApart ==
    /\ user.avatar \in store \cup {0}
    /\ \A r \in Requests : Changing(r) =>
         /\ req[r].token \in 0..uploads /\ req[r].new \in 1..uploads
         /\ Unwritten(r) => req[r].new \in store /\ req[r].new # user.avatar
         /\ ~Unwritten(r) => req[r].token # user.avatar
    /\ \A r, s \in Requests : Unwritten(r) /\ Changing(s) =>
         /\ req[s].token # req[r].new
         /\ s # r => req[s].new # req[r].new

Pictured == ~seen.clobbered => AvatarsApart

\* A step that neither moves a change of avatar on nor names or deletes one.
LEMMA PicturedStays ==
    ASSUME Pictured, seen'.clobbered = seen.clobbered, user'.avatar = user.avatar,
           UNCHANGED <<store, uploads>>,
           \A s \in Requests : Changing(s)' =>
              /\ Changing(s) /\ Unwritten(s)' = Unwritten(s)
              /\ req'[s].token = req[s].token /\ req'[s].new = req[s].new
    PROVE  Pictured'
  <1>. SUFFICES ASSUME ~seen'.clobbered, AvatarsApart PROVE AvatarsApart'
    BY DEF Pictured
  <1>1. user'.avatar \in store' \cup {0}
    BY DEF AvatarsApart
  <1>2. ASSUME NEW r \in Requests, Changing(r)'
        PROVE  /\ req'[r].token \in 0..uploads' /\ req'[r].new \in 1..uploads'
               /\ Unwritten(r)' => req'[r].new \in store' /\ req'[r].new # user'.avatar
               /\ ~Unwritten(r)' => req'[r].token # user'.avatar
    BY <1>2 DEF AvatarsApart
  <1>3. ASSUME NEW r \in Requests, NEW s \in Requests, Unwritten(r)', Changing(s)'
        PROVE  req'[s].token # req'[r].new /\ (s # r => req'[s].new # req'[r].new)
    <2>1. Changing(r)'
      BY <1>3 DEF Unwritten
    <2>. QED
      BY <1>3, <2>1 DEF AvatarsApart
  <1>. QED
    BY <1>1, <1>2, <1>3 DEF AvatarsApart

\* The same for a step of r.
LEMMA PicturedMoves ==
    ASSUME Pictured, seen'.clobbered = seen.clobbered, user'.avatar = user.avatar,
           UNCHANGED <<store, uploads>>, NEW r \in Requests, Moves(r),
           \/ req'[r] = Idle
           \/ req'[r].op = req[r].op /\ req[r].op # "avatar"
           \/ /\ req[r] # Idle /\ req'[r].op = req[r].op
              /\ req[r].pc \in {"reread", "write"} /\ req'[r].pc \in {"reread", "write"}
              /\ req'[r].token = req[r].token /\ req'[r].new = req[r].new
    PROVE  Pictured'
  <1>1. ASSUME NEW s \in Requests, Changing(s)'
        PROVE  /\ Changing(s) /\ Unwritten(s)' = Unwritten(s)
               /\ req'[s].token = req[s].token /\ req'[s].new = req[s].new
    <2>1. CASE s = r
      <3>1. /\ req[s] # Idle /\ req'[s].op = req[s].op /\ req'[s].op = "avatar"
            /\ req[s].pc \in {"reread", "write"} /\ req'[s].pc \in {"reread", "write"}
            /\ req'[s].token = req[s].token /\ req'[s].new = req[s].new
        BY <1>1, <2>1 DEF Changing
      <3>. QED
        BY <1>1, <3>1 DEF Changing, Unwritten
    <2>2. CASE s # r
      BY <1>1, <2>2 DEF Moves, Changing, Unwritten
    <2>. QED
      BY <2>1, <2>2
  <1>. QED
    BY <1>1, PicturedStays

\* Only an upload stores an avatar: the next one, beside the one it read.
LEMMA UploadEffect ==
    ASSUME NEW r \in Requests, Begins(r)
    PROVE  \/ req'[r].op # "avatar" /\ UNCHANGED <<store, uploads>>
           \/ /\ uploads' = uploads + 1 /\ store' = store \cup {uploads + 1}
              /\ req'[r].op = "avatar" /\ req'[r].pc = "reread"
              /\ req'[r].token = user.avatar /\ req'[r].new = uploads + 1
  <1>1. ASSUME NEW op, NEW pc, NEW token, NEW new, Begin(r, op, pc, token, new)
        PROVE  /\ req'[r].op = op /\ req'[r].pc = pc
               /\ req'[r].token = token /\ req'[r].new = new
    BY <1>1 DEF Begin
  <1>2. CASE AvatarUpload(r)
    BY <1>1, <1>2 DEF AvatarUpload
  <1>3. CASE \/ CreateFind(r) \/ ResendFind(r) \/ \E t \in tokens : CompleteFind(r, t)
             \/ ProvisionFind(r) \/ RemoveFind(r) \/ RestoreStart(r)
             \/ SwitchFind(r, "disable") \/ SwitchFind(r, "enable") \/ EditFind(r)
    <2>1. /\ \E op \in Operations \ {"avatar"} : \E pc, token : Begin(r, op, pc, token, 0)
          /\ UNCHANGED <<store, uploads>>
      BY <1>3 DEF CreateFind, ResendFind, CompleteFind, ProvisionFind, RemoveFind,
                  RestoreStart, SwitchFind, EditFind, Operations
    <2>. QED
      BY <1>1, <2>1
  <1>. QED
    BY <1>2, <1>3 DEF Begins

LEMMA PicturedBegins ==
    ASSUME Typed, Pictured, NEW r \in Requests, Begins(r)
    PROVE  Pictured'
  <1>1. PICK op \in Operations : \E pc \in First[op] : Beginning(r, op, pc)
    BY BeginsEffect
  <1>2. PICK pc \in First[op] : Beginning(r, op, pc)
    BY <1>1
  <1>3. PICK token \in Nat : \E new \in Nat : Begun(r, op, pc, token, new)
    BY <1>2 DEF Beginning
  <1>4. PICK new \in Nat : Begun(r, op, pc, token, new)
    BY <1>3
  <1>5. user' = user /\ seen'.clobbered = seen.clobbered
    BY <1>2, <1>4 DEF Beginning, Begun
  <1>6. \A s \in Requests \ {r} : Changing(s)' =>
           /\ Changing(s) /\ Unwritten(s)' = Unwritten(s)
           /\ req'[s].token = req[s].token /\ req'[s].new = req[s].new
    BY <1>4 DEF Begun, Continues, Changing, Unwritten
  <1>7. CASE req'[r].op # "avatar" /\ UNCHANGED <<store, uploads>>
    <2>1. ~Changing(r)'
      BY <1>7 DEF Changing
    <2>2. \A s \in Requests : Changing(s)' => s \in Requests \ {r}
      BY <2>1
    <2>. QED
      BY <1>5, <1>6, <1>7, <2>2, PicturedStays
  <1>8. CASE /\ uploads' = uploads + 1 /\ store' = store \cup {uploads + 1}
             /\ req'[r].op = "avatar" /\ req'[r].pc = "reread"
             /\ req'[r].token = user.avatar /\ req'[r].new = uploads + 1
    <2>. SUFFICES ASSUME ~seen'.clobbered PROVE AvatarsApart'
      BY DEF Pictured
    <2>1. AvatarsApart
      BY <1>5 DEF Pictured
    <2>2. uploads \in Nat /\ store \subseteq 1..uploads
      BY DEF Typed
    <2>3. user.avatar \in 0..uploads /\ user'.avatar \in store' \cup {0}
      <3>1. user.avatar \in store \cup {0}
        BY <2>1 DEF AvatarsApart
      <3>2. store \cup {0} \subseteq 0..uploads
        BY <2>2
      <3>3. store \subseteq store' /\ user'.avatar = user.avatar
        BY <1>5, <1>8
      <3>. QED
        BY <3>1, <3>2, <3>3
    <2>4. \A s \in Requests \ {r} : Changing(s)' =>
            /\ req'[s].token \in 0..uploads /\ req'[s].new \in 1..uploads
            /\ Unwritten(s)' => req'[s].new \in store /\ req'[s].new # user.avatar
            /\ ~Unwritten(s)' => req'[s].token # user.avatar
      BY <1>6, <2>1 DEF AvatarsApart
    <2>5. Unwritten(r)' => Changing(r)'
      BY DEF Unwritten
    <2>6. /\ req'[r].token \in 0..uploads' /\ req'[r].new \in 1..uploads'
          /\ req'[r].new \in store' /\ req'[r].new # user'.avatar
          /\ req'[r].token # req'[r].new
      BY <1>5, <1>8, <2>2, <2>3
    <2>7. Changing(r)' => Unwritten(r)'
      BY <1>8 DEF Changing, Unwritten
    <2>8. \A s \in Requests \ {r} : Changing(s)' =>
            /\ req'[s].token \in 0..uploads' /\ req'[s].new \in 1..uploads'
            /\ req'[s].token # req'[r].new /\ req'[s].new # req'[r].new
            /\ Unwritten(s)' => req'[r].token # req'[s].new
      BY <1>8, <2>2, <2>4
    <2>9. ASSUME NEW q \in Requests, Changing(q)'
          PROVE  /\ req'[q].token \in 0..uploads' /\ req'[q].new \in 1..uploads'
                 /\ Unwritten(q)' => req'[q].new \in store' /\ req'[q].new # user'.avatar
                 /\ ~Unwritten(q)' => req'[q].token # user'.avatar
      BY <1>5, <1>8, <2>4, <2>6, <2>7, <2>8, <2>9
    <2>10. ASSUME NEW q \in Requests, NEW s \in Requests, Unwritten(q)', Changing(s)'
           PROVE  req'[s].token # req'[q].new /\ (s # q => req'[s].new # req'[q].new)
      <3>1. Changing(q)'
        BY <2>10 DEF Unwritten
      <3>2. CASE q = r
        BY <2>6, <2>8, <2>10, <3>2
      <3>3. CASE q # r /\ s = r
        BY <2>8, <2>10, <3>1, <3>3
      <3>4. CASE q # r /\ s # r
        <4>1. Unwritten(q) /\ Changing(s) /\ req'[q].new = req[q].new
              /\ req'[s].token = req[s].token /\ req'[s].new = req[s].new
          BY <1>6, <2>10, <3>1, <3>4
        <4>. QED
          BY <2>1, <4>1 DEF AvatarsApart
      <3>. QED
        BY <3>2, <3>3, <3>4
    <2>. QED
      BY <2>3, <2>9, <2>10 DEF AvatarsApart
  <1>. QED
    BY <1>7, <1>8, UploadEffect

\* A write that overwrites nothing newer names the new avatar of its request,
\* or the avatar the row named.
LEMMA AvatarAfter ==
    ASSUME Typed, NEW r \in Requests, At(r, "write"), ~Stale(r)
    PROVE  RowAfter(r).avatar = IF req[r].op = "avatar" THEN req[r].new ELSE user.avatar
  <1>1. /\ req[r] \in Request /\ req[r].pc = "write" /\ user \in User
    BY InCourse DEF At, Typed, Present, Request
  <1>2. req[r].op \in {"complete", "remove", "restore", "enable", "disable", "edit", "avatar"}
    BY <1>1 DEF Request, Steps, Operations
  <1>3. req[r].op \notin {"remove", "restore"} => req[r].copy = user
    BY DEF Stale, Saves
  <1>4. CASE req[r].op = "remove"
    BY <1>1, <1>4 DEF RowAfter, User
  <1>5. CASE req[r].op = "restore"
    BY <1>1, <1>5 DEF RowAfter, User
  <1>6. CASE req[r].op = "disable"
    BY <1>1, <1>3, <1>6 DEF RowAfter, User
  <1>7. CASE req[r].op = "enable"
    BY <1>1, <1>3, <1>7 DEF RowAfter, User
  <1>8. CASE req[r].op = "complete"
    BY <1>1, <1>3, <1>8 DEF RowAfter, User
  <1>9. CASE req[r].op = "avatar"
    BY <1>1, <1>3, <1>9 DEF RowAfter, User
  <1>10. CASE req[r].op = "edit"
    BY <1>1, <1>3, <1>10 DEF RowAfter, User
  <1>. QED
    BY <1>2, <1>4, <1>5, <1>6, <1>7, <1>8, <1>9, <1>10

\* The row names the new avatar of r, which goes on to delete the old one if
\* it lives.
LEMMA PicturedNames ==
    ASSUME AvatarsApart, NEW r \in Requests, Moves(r), Unwritten(r),
           user'.avatar = req[r].new, UNCHANGED <<store, uploads>>,
           req'[r] = Idle \/ Goes(r, "clean")
    PROVE  AvatarsApart'
  <1>1. \A s \in Requests : Changing(s)' =>
          /\ Changing(s) /\ req'[s].token = req[s].token /\ req'[s].new = req[s].new
          /\ IF s = r THEN ~Unwritten(s)' ELSE Unwritten(s)' = Unwritten(s)
    BY DEF Moves, Goes, Carries, Changing, Unwritten
  <1>2. /\ Changing(r) /\ req[r].new \in store
        /\ \A s \in Requests : Changing(s) =>
             /\ req[s].token # req[r].new /\ (s # r => req[s].new # req[r].new)
             /\ req[s].token \in 0..uploads /\ req[s].new \in 1..uploads
             /\ Unwritten(s) => req[s].new \in store
    BY DEF AvatarsApart, Unwritten
  <1>3. user'.avatar \in store' \cup {0}
    BY <1>2
  <1>4. ASSUME NEW s \in Requests, Changing(s)'
        PROVE  /\ req'[s].token \in 0..uploads' /\ req'[s].new \in 1..uploads'
               /\ Unwritten(s)' => req'[s].new \in store' /\ req'[s].new # user'.avatar
               /\ ~Unwritten(s)' => req'[s].token # user'.avatar
    BY <1>1, <1>2, <1>4
  <1>5. ASSUME NEW q \in Requests, NEW s \in Requests, Unwritten(q)', Changing(s)'
        PROVE  req'[s].token # req'[q].new /\ (s # q => req'[s].new # req'[q].new)
    <2>1. Changing(q)'
      BY <1>5 DEF Unwritten
    <2>2. Unwritten(q) /\ Changing(s)
      BY <1>1, <1>5, <2>1
    <2>3. req[s].token # req[q].new /\ (s # q => req[s].new # req[q].new)
      BY <2>2 DEF AvatarsApart
    <2>. QED
      BY <1>1, <1>5, <2>1, <2>3
  <1>. QED
    BY <1>3, <1>4, <1>5 DEF AvatarsApart

LEMMA PicturedWrites ==
    ASSUME Typed, Pictured, NEW r \in Requests, Writes(r)
    PROVE  Pictured'
  <1>1. /\ At(r, "write") /\ Moves(r) /\ req[r] # Idle /\ UNCHANGED <<store, uploads>>
        /\ \/ req'[r] = Idle
           \/ UserWrite(r) /\ Goes(r, "clean") /\ req[r].op \in {"complete", "avatar"}
           \/ WriteFails(r) /\ Goes(r, "undo") /\ req[r].op \notin {"complete", "avatar"}
    BY WritesEffect
  <1>2. \/ user' = user /\ seen'.clobbered = seen.clobbered /\ WriteFails(r)
        \/ user' = RowAfter(r) /\ seen'.clobbered = (seen.clobbered \/ Stale(r))
    <2>1. Noted(r).clobbered = (seen.clobbered \/ Stale(r))
      BY <1>1, NotedColumns
    <2>. QED
      BY <2>1, WritesEffect
  <1>3. req[r].op # "avatar" => req'[r] = Idle \/ req'[r].op = req[r].op
    BY <1>1 DEF Goes, Carries
  <1>4. WriteFails(r) /\ req[r].op = "avatar" => req'[r] = Idle
    BY DoneEffect DEF WriteFails, UndoCall, Typed
  <1>5. CASE user' = user /\ seen'.clobbered = seen.clobbered /\ WriteFails(r)
    BY <1>1, <1>3, <1>4, <1>5, PicturedMoves
  <1>6. CASE user' = RowAfter(r) /\ seen'.clobbered = (seen.clobbered \/ Stale(r))
    <2>. SUFFICES ASSUME ~seen'.clobbered PROVE Pictured'
      BY DEF Pictured
    <2>1. ~Stale(r) /\ ~seen.clobbered
      BY <1>6
    <2>2. user'.avatar = IF req[r].op = "avatar" THEN req[r].new ELSE user.avatar
      BY <1>1, <1>6, <2>1, AvatarAfter
    <2>3. CASE req[r].op = "avatar"
      <3>1. Unwritten(r) /\ (req'[r] = Idle \/ Goes(r, "clean"))
        BY <1>1, <2>3 DEF At, Unwritten, Changing
      <3>. QED
        BY <1>1, <2>1, <2>2, <2>3, <3>1, PicturedNames DEF Pictured
    <2>4. CASE req[r].op # "avatar"
      <3>1. seen'.clobbered = seen.clobbered
        BY <1>6, <2>1, NotedColumns, WritesEffect DEF Typed, Observation
      <3>. QED
        BY <1>1, <1>3, <2>2, <2>4, <3>1, PicturedMoves
    <2>. QED
      BY <2>3, <2>4
  <1>. QED
    BY <1>2, <1>5, <1>6

\* What a change of avatar deletes, the row no longer names and no other
\* change is about to.
LEMMA PicturedClean ==
    ASSUME Typed, Pictured, NEW r \in Requests, Clean(r)
    PROVE  Pictured'
  <1>1. /\ req[r] # Idle /\ req[r].pc = "clean" /\ Moves(r) /\ req'[r] = Idle
        /\ UNCHANGED <<user, uploads, seen>>
    BY CleanEffect
  <1>2. CASE req[r].op # "avatar"
    BY <1>1, <1>2, PicturedMoves DEF Clean
  <1>3. CASE req[r].op = "avatar"
    <2>. SUFFICES ASSUME AvatarsApart PROVE AvatarsApart'
      BY <1>1 DEF Pictured
    <2>1. store' = store \ {req[r].token}
      BY <1>3 DEF Clean
    <2>2. Changing(r) /\ ~Unwritten(r)
      BY <1>1, <1>3 DEF Changing, Unwritten
    <2>3. \A s \in Requests : Changing(s)' =>
            /\ Changing(s) /\ Unwritten(s)' = Unwritten(s)
            /\ req'[s].token = req[s].token /\ req'[s].new = req[s].new
      BY <1>1 DEF Moves, Changing, Unwritten
    <2>4. user'.avatar \in store' \cup {0}
      BY <1>1, <2>1, <2>2 DEF AvatarsApart
    <2>5. ASSUME NEW s \in Requests, Changing(s)'
          PROVE  /\ req'[s].token \in 0..uploads' /\ req'[s].new \in 1..uploads'
                 /\ Unwritten(s)' => req'[s].new \in store' /\ req'[s].new # user'.avatar
                 /\ ~Unwritten(s)' => req'[s].token # user'.avatar
      <3>1. /\ req[s].token \in 0..uploads /\ req[s].new \in 1..uploads
            /\ Unwritten(s) => req[s].new \in store /\ req[s].new # user.avatar
            /\ ~Unwritten(s) => req[s].token # user.avatar
            /\ Unwritten(s) => req[r].token # req[s].new
        BY <2>2, <2>3, <2>5 DEF AvatarsApart
      <3>. QED
        BY <1>1, <2>1, <2>3, <2>5, <3>1
    <2>6. ASSUME NEW q \in Requests, NEW s \in Requests, Unwritten(q)', Changing(s)'
          PROVE  req'[s].token # req'[q].new /\ (s # q => req'[s].new # req'[q].new)
      <3>1. Changing(q)'
        BY <2>6 DEF Unwritten
      <3>2. Unwritten(q) /\ Changing(s)
        BY <2>3, <2>6, <3>1
      <3>3. req[s].token # req[q].new /\ (s # q => req[s].new # req[q].new)
        BY <3>2 DEF AvatarsApart
      <3>. QED
        BY <2>3, <2>6, <3>1, <3>3
    <2>. QED
      BY <2>4, <2>5, <2>6 DEF AvatarsApart
  <1>. QED
    BY <1>2, <1>3

LEMMA PicturedStep ==
    ASSUME Typed, Pictured, [Next]_vars
    PROVE  Pictured'
  <1>1. ASSUME NEW r \in Requests, CreateSave(r) PROVE Pictured'
    <2>1. /\ user'.avatar = user.avatar
      BY <1>1, CreateSaveEffect DEF NewUser, NoUser
    <2>2. /\ Goes(r, "invite") \/ (Moves(r) /\ req'[r] = Idle)
          /\ req[r].op = "create" /\ UNCHANGED <<store, uploads, seen>>
      BY <1>1, CreateSaveEffect
    <2>. QED
      BY <2>1, <2>2, PicturedMoves DEF Goes, Carries
  <1>2. ASSUME NEW r \in Requests, Invite(r) PROVE Pictured'
    BY <1>2, DoneEffect, PicturedMoves DEF Invite, At, Typed
  <1>3. ASSUME NEW r \in Requests, AvatarFind(r) PROVE Pictured'
    <2>1. /\ Carries(r, "write") \/ (Moves(r) /\ req'[r] = Idle)
          /\ req[r].pc = "reread" /\ req[r] # Idle
          /\ UNCHANGED <<user, store, uploads, seen>>
      BY <1>3, AvatarFindEffect
    <2>. QED
      BY <2>1, PicturedMoves DEF Carries
  <1>4. ASSUME NEW r \in Requests, AuthRead(r) \/ AuthSave(r) \/ Revoke(r) PROVE Pictured'
    <2>1. /\ UNCHANGED <<user, store, uploads, seen>> /\ req[r].op # "avatar" /\ Moves(r)
          /\ req'[r] = Idle \/ req'[r].op = req[r].op
      <3>1. CASE AuthRead(r)
        BY <3>1, AuthReadEffect, CallingType DEF AuthRead, Carries
      <3>2. CASE AuthSave(r)
        <4>1. /\ Calling(r) /\ Moves(r) /\ (req'[r] = Idle \/ req'[r].op = req[r].op)
              /\ UNCHANGED <<user, store, uploads, seen>>
          BY <3>2, AuthSaveEffect DEF AuthSave, Carries
        <4>. QED
          BY <4>1, CallingType
      <3>3. CASE Revoke(r)
        BY <3>3, RevokeEffect DEF Goes, Carries
      <3>. QED
        BY <1>4, <3>1, <3>2, <3>3
    <2>. QED
      BY <2>1, PicturedMoves
  <1>5. ASSUME NEW r \in Requests, Die(r) PROVE Pictured'
    BY <1>5, DieEffect, PicturedMoves
  <1>6. ASSUME UNCHANGED <<user, store, uploads, req>>, seen'.clobbered = seen.clobbered
        PROVE  Pictured'
    BY <1>6, PicturedStays DEF Changing, Unwritten
  <1>7. ASSUME NEW o \in orphans, OrphanRead(o) \/ OrphanSave(o) PROVE Pictured'
    BY <1>6, <1>7 DEF OrphanRead, OrphanSave
  <1>8. ASSUME NEW t \in tokens, Expire(t) PROVE Pictured'
    <2>1. seen'.clobbered = seen.clobbered
      BY <1>8 DEF Expire, Typed, Observation
    <2>. QED
      BY <1>6, <1>8, <2>1 DEF Expire
  <1>9. CASE UNCHANGED vars
    BY <1>6, <1>9 DEF vars
  <1>. QED
    BY <1>1, <1>2, <1>3, <1>4, <1>5, <1>7, <1>8, <1>9, PicturedBegins, PicturedWrites,
       PicturedClean, NextCases

\* However many changes of avatar run at a time and whichever of them die, the
\* row names a stored avatar, as long as no save wrote back an older row: the
\* old one is deleted once the new one is in the row (users.controller.ts,
\* uploadAvatar; user-profile.service.ts, uploadAvatar).
THEOREM AvatarStoredCorrect == Spec => []AvatarStored
  <1>1. Init => Pictured
    BY DEF Init, Pictured, AvatarsApart, NoUser, Changing, Unwritten
  <1>2. Typed /\ Pictured /\ [Next]_vars => Pictured'
    BY PicturedStep
  <1>3. Pictured => AvatarStored
    BY DEF Pictured, AvatarsApart, AvatarStored
  <1>. QED
    BY <1>1, <1>2, <1>3, TypedAlways, PTL DEF Spec

-----------------------------------------------------------------------------
(* The roles and permissions of one organization: Access *)


\* What the requests in course are, by their operation.
RW == {"read", "write"}

Guarding == [op : {"guard"}, pc : {"find", "set"}, user : Users, set : SUBSET RW]
Assigning == [op : {"assign"}, pc : {"write"}, user : Users, role : Roles \cup {NoRole},
              row : Member \cup {NoMember}]
Dropping == [op : {"drop"}, pc : {"drop"}, users : SUBSET Users, called : BOOLEAN]
SavingRole == [op : {"save"}, pc : {"load", "write", "tell"}, role : Roles, set : SUBSET RW,
               tell : BOOLEAN, loaded : (SUBSET RW) \cup {NoSuch}]
Unroling == [op : {"unrole"}, pc : {"write"}, role : Roles]
Sweeping == [op : {"sweep"}, pc : {"list", "update"}, users : SUBSET Users, called : BOOLEAN]
Editing == [op : {"orgedit"}, pc : {"write"}]

Slot == {NoCall} \cup Guarding \cup Assigning \cup Dropping \cup SavingRole
        \cup Unroling \cup Sweeping \cup Editing

Seen == [stale : SUBSET Users, mixed : BOOLEAN, swept : BOOLEAN, excused : BOOLEAN, late : BOOLEAN]

AccessShape ==
    /\ member \in [Users -> Member \cup {NoMember}]
    /\ perms \in [Roles -> (SUBSET RW) \cup {NoSuch}]
    /\ cache \in [Users -> {<<>>} \cup {<<set>> : set \in SUBSET RW}]
    /\ org \in {"live", "deleted"}
    /\ call \in [Calls -> Slot]
    /\ noted \in Seen

\* the foreign key of a membership's role
HeldExist == \A u \in Users : Held(u) # NoRole => Exists(Held(u))

\* What a save means to write is a set that grants READ with every action.
SavesUsable ==
    ~noted.mixed => \A r \in Calls : call[r].op = "save" => Valid(call[r].set)

\* r will still drop the entry of u.
Owing(r, u) ==
    \/ call[r].op = "drop" /\ u \in call[r].users
    \/ call[r].op = "save" /\ call[r].pc = "tell" /\ u \in Holders(call[r].role)

\* A wrong entry is known to be stale, or somebody will still drop it.
Answered(u) ==
    \/ cache[u] \in {<<>>, <<Effective(u)>>}
    \/ u \in noted.stale
    \/ \E r \in Calls : Owing(r, u)

AllAnswered == \A u \in Users : Answered(u)

\* What a removal set going, and org-service may send again.
FromRemoval(row) == row.op = "sweep" \/ (row.op = "drop" /\ row.called)

\* A live organization that nothing excuses never was removed.
SweepsExcused ==
    (org = "live" /\ ~noted.excused) =>
        ~noted.swept /\ \A r \in Calls : ~FromRemoval(call[r])

\* The members of a deleted organization wait for a sweep.
SweepsPending ==
    (org = "deleted" /\ ~noted.late) =>
        Members = {} \/ \E r \in Calls : call[r].op = "sweep"

AccessIInv == AccessShape /\ HeldExist /\ EnteringAreMembers /\ SavesUsable /\ RoleUsable
        /\ AllAnswered /\ SweepsExcused /\ SweepsPending

-----------------------------------------------------------------------------
(* Slots *)

LEMMA SlotOf ==
    ASSUME NEW row \in Slot
    PROVE  /\ row.op = "idle" <=> row = NoCall
           /\ row.op = "guard" <=> row \in Guarding
           /\ row.op = "assign" <=> row \in Assigning
           /\ row.op = "drop" <=> row \in Dropping
           /\ row.op = "save" <=> row \in SavingRole
           /\ row.op = "unrole" <=> row \in Unroling
           /\ row.op = "sweep" <=> row \in Sweeping
           /\ row.op = "orgedit" <=> row \in Editing
    BY DEF Slot, NoCall, Guarding, Assigning, Dropping, SavingRole, Unroling, Sweeping, Editing

LEMMA IdleSlot == NoCall \in Slot /\ NoCall.op = "idle"
    BY DEF Slot, NoCall

LEMMA DropSlot ==
    ASSUME NEW users \in SUBSET Users
    PROVE  /\ Owes(users) \in Slot /\ Owes(users) \in Dropping
           /\ Owes(users).op = "drop" /\ Owes(users).users = users /\ ~Owes(users).called
    BY DEF Owes, Slot, Dropping

LEMMA SweepSlot ==
    ASSUME NEW called \in BOOLEAN
    PROVE  SweepOf(called) \in Slot /\ SweepOf(called).op = "sweep"
    BY DEF SweepOf, Slot, Sweeping

LEMMA SaveSlot ==
    ASSUME NEW role \in Roles, NEW set \in SUBSET RW, NEW tell \in BOOLEAN
    PROVE  /\ Saving(role, set, tell) \in Slot
           /\ Saving(role, set, tell).op = "save" /\ Saving(role, set, tell).set = set
           /\ Saving(role, set, tell).pc = "load"
    BY DEF Saving, Slot, SavingRole

\* A slot that is at a step of an operation.
LEMMA RowAt ==
    ASSUME AccessShape, NEW r \in Calls, NEW op, NEW pc, CallAt(r, op, pc)
    PROVE  call[r] \in Slot /\ call[r].op = op /\ call[r].pc = pc
    BY DEF AccessShape, CallAt

\* One slot moves, the others stay.
CallMoves(r, row) ==
    /\ call' \in [Calls -> Slot] /\ call'[r] = row
    /\ \A q \in Calls : q # r => call'[q] = call[q]

LEMMA GoMoves ==
    ASSUME AccessShape, NEW r \in Calls, NEW row \in Slot, call' = [call EXCEPT ![r] = row]
    PROVE  CallMoves(r, row)
    BY DEF AccessShape, CallMoves

LEMMA RoleSets ==
    ASSUME AccessShape, NEW role \in Roles, Exists(role)
    PROVE  perms[role] \in SUBSET RW
    BY DEF AccessShape, Exists

LEMMA EffectiveSets ==
    ASSUME AccessShape, HeldExist, NEW u \in Users
    PROVE  Effective(u) \in SUBSET RW
  <1>1. Held(u) \in Roles \cup {NoRole}
    BY DEF AccessShape, Held, Member, NoMember
  <1> QED
    BY <1>1, RoleSets DEF Effective, HeldExist

LEMMA HeldRole ==
    ASSUME AccessShape, NEW u \in Users
    PROVE  Held(u) \in Roles \cup {NoRole}
    BY DEF AccessShape, Held, Member, NoMember

\* What a save writes is a set of permissions, and the role stays or comes.
LEMMA StoredSet ==
    ASSUME NEW role \in Roles, perms[role] \in (SUBSET RW) \cup {NoSuch},
           NEW loaded \in (SUBSET RW) \cup {NoSuch}, NEW set \in SUBSET RW
    PROVE  /\ Stored(role, loaded, set) \in (SUBSET RW) \cup {NoSuch}
           /\ Exists(role) => Stored(role, loaded, set) # NoSuch
           /\ loaded = perms[role] => Stored(role, loaded, set) = set
  <1>0. NoSuch \notin SUBSET RW
    BY DEF NoSuch, RW
  <1>1. CASE loaded = NoSuch
    BY <1>1 DEF Stored, Exists
  <1>2. CASE loaded # NoSuch /\ ~Exists(role)
    BY <1>2 DEF Stored, Exists
  <1>3. CASE loaded # NoSuch /\ Exists(role)
    <2>1. loaded \in SUBSET RW /\ perms[role] \in SUBSET RW
      BY <1>3 DEF Exists
    <2>2. Stored(role, loaded, set) \in {perms[role], (perms[role] \ (loaded \ set)) \cup (set \ loaded)}
      BY <1>3 DEF Stored
    <2>3. loaded = perms[role] => Stored(role, loaded, set) = (perms[role] \ (loaded \ set)) \cup (set \ loaded)
      BY <1>3 DEF Stored
    <2>4. Stored(role, loaded, set) \in SUBSET RW
      BY <2>1, <2>2
    <2> QED
      BY <1>0, <2>3, <2>4
  <1> QED
    BY <1>1, <1>2, <1>3

-----------------------------------------------------------------------------
(* The shape of the state *)

LEMMA InitAccessShape == AccessInit => AccessShape /\ HeldExist /\ EnteringAreMembers
  <1> SUFFICES ASSUME AccessInit PROVE AccessShape /\ HeldExist /\ EnteringAreMembers
    OBVIOUS
  <1>1. \A set \in Permissions : set \in SUBSET RW
    BY DEF Permissions, RW
  <1>2. perms \in [Roles -> (SUBSET RW) \cup {NoSuch}]
    BY <1>1 DEF AccessInit
  <1>3. call \in [Calls -> Slot]
    BY IdleSlot DEF AccessInit
  <1>4. noted \in Seen
    BY DEF AccessInit, Seen
  <1>5. member \in [Users -> Member \cup {NoMember}]
    BY DEF AccessInit
  <1>6. \A u \in Users : /\ member[u].role # NoRole => perms[member[u].role] # NoSuch
                         /\ member[u].in # "yes" => member[u].role = NoRole
    BY DEF AccessInit
  <1>7. HeldExist
    BY <1>6 DEF HeldExist, Held, Exists
  <1>8. EnteringAreMembers
    BY <1>6 DEF EnteringAreMembers, Entering, Members, Held
  <1> QED
    BY <1>2, <1>3, <1>4, <1>5, <1>7, <1>8 DEF AccessInit, AccessShape

\* Slots are the only thing that moves.
LEMMA AccessShapeIfMoves ==
    ASSUME AccessShape, NEW r \in Calls, NEW row, CallMoves(r, row),
           UNCHANGED <<member, perms, cache>>, org' \in {"live", "deleted"}, noted' \in Seen
    PROVE  AccessShape'
    BY DEF AccessShape, CallMoves

-----------------------------------------------------------------------------
(* Steps that read: they move their own slot and nothing else *)

\* The new row means to write a usable set, drops what the old one owed, and
\* is a sweep when the old one was.
Reads(r, row) ==
    /\ row \in Slot /\ CallMoves(r, row)
    /\ row.op = "save" => (~noted.mixed => Valid(row.set))
    /\ \A u \in Users : Owing(r, u) => row.op = "drop" /\ u \in row.users
    /\ row.op = "sweep" <=> call[r].op = "sweep"
    /\ row.op = "drop" => ~row.called
    /\ UNCHANGED <<member, perms, cache, org, noted>>

\* A request that begins owes nothing yet.
LEMMA BeginReads ==
    ASSUME AccessShape, NEW r \in Calls, NEW row \in Slot, BeginCall(r, row), row.op \notin {"sweep", "drop"},
           row.op = "save" => (~noted.mixed => Valid(row.set)),
           UNCHANGED <<member, perms, cache, org, noted>>
    PROVE  Reads(r, row)
  <1>1. call[r].op = "idle" /\ call' = [call EXCEPT ![r] = row]
    BY IdleSlot DEF BeginCall
  <1>2. CallMoves(r, row)
    BY <1>1, GoMoves
  <1>3. \A u \in Users : ~Owing(r, u)
    BY <1>1 DEF Owing
  <1> QED
    BY <1>1, <1>2, <1>3 DEF Reads

LEMMA GuardMissReads ==
    ASSUME AccessShape, NEW r \in Calls, NEW u \in Users, GuardMiss(r, u)
    PROVE  \E row : Reads(r, row)
  <1> DEFINE row == [op |-> "guard", pc |-> "find", user |-> u, set |-> {}]
  <1>1. row \in Slot
    BY DEF Slot, Guarding
  <1>2. BeginCall(r, row) /\ UNCHANGED <<member, perms, cache, org, noted>>
    BY DEF GuardMiss
  <1> QED
    BY <1>1, <1>2, BeginReads

LEMMA GuardFindReads ==
    ASSUME AccessShape, HeldExist, NEW r \in Calls, GuardFind(r)
    PROVE  \E row : Reads(r, row)
  <1> DEFINE u == call[r].user
             found == [call[r] EXCEPT !.pc = "set", !.set = Effective(u)]
  <1>1. CallAt(r, "guard", "find") /\ UNCHANGED <<member, perms, cache, org, noted>>
    BY DEF GuardFind
  <1>2. call[r] \in Guarding /\ u \in Users /\ call[r].op = "guard"
    BY <1>1, RowAt, SlotOf DEF Guarding
  <1>3. found \in Guarding
    BY <1>2, EffectiveSets DEF Guarding
  <1>4. found.op = "guard" /\ found \in Slot
    BY <1>3 DEF Guarding, Slot
  <1>5. call' = [call EXCEPT ![r] = NoCall] \/ call' = [call EXCEPT ![r] = found]
    BY DEF GuardFind, EndCall, GoTo
  <1>6. PICK row \in {NoCall, found} : call' = [call EXCEPT ![r] = row]
    BY <1>5
  <1>7. row \in Slot /\ row.op \in {"idle", "guard"}
    BY <1>4, IdleSlot
  <1>8. CallMoves(r, row)
    BY <1>6, <1>7, GoMoves
  <1>9. \A v \in Users : ~Owing(r, v)
    BY <1>2 DEF Owing
  <1> QED
    BY <1>1, <1>2, <1>7, <1>8, <1>9 DEF Reads

LEMMA AssignFindReads ==
    ASSUME AccessShape, NEW r \in Calls, NEW u \in Users, NEW role \in Roles \cup {NoRole},
           AssignFind(r, u, role)
    PROVE  \E row : Reads(r, row)
  <1> DEFINE row == [op |-> "assign", pc |-> "write", user |-> u, role |-> role, row |-> member[u]]
  <1>1. row \in Slot
    BY DEF Slot, Assigning, AccessShape
  <1>2. BeginCall(r, row) /\ UNCHANGED <<member, perms, cache, org, noted>>
    BY DEF AssignFind
  <1> QED
    BY <1>1, <1>2, BeginReads

LEMMA DropDoneReads ==
    ASSUME AccessShape, NEW r \in Calls, DropDone(r)
    PROVE  \E row : Reads(r, row)
  <1>1. /\ CallAt(r, "drop", "drop") /\ call[r].users = {} /\ call' = [call EXCEPT ![r] = NoCall]
        /\ UNCHANGED <<member, perms, cache, org, noted>>
    BY DEF DropDone, EndCall, GoTo
  <1>2. call[r].op = "drop"
    BY <1>1, RowAt
  <1>3. CallMoves(r, NoCall)
    BY <1>1, IdleSlot, GoMoves
  <1>4. \A v \in Users : ~Owing(r, v)
    BY <1>1, <1>2 DEF Owing
  <1> QED
    BY <1>1, <1>2, <1>3, <1>4, IdleSlot DEF Reads

\* A save begins with a usable set.
LEMMA SaveBegins ==
    ASSUME AccessShape, NEW r \in Calls, NEW role \in Roles, NEW set \in SUBSET RW, NEW tell \in BOOLEAN,
           ~noted.mixed => Valid(set), BeginCall(r, Saving(role, set, tell)),
           UNCHANGED <<member, perms, cache, org, noted>>
    PROVE  \E row : Reads(r, row)
  <1>1. /\ Saving(role, set, tell) \in Slot
        /\ Saving(role, set, tell).op = "save" /\ Saving(role, set, tell).set = set
    BY SaveSlot
  <1> QED
    BY <1>1, BeginReads

LEMMA RoleEditsRead ==
    ASSUME AccessShape, RoleUsable, NEW r \in Calls, NEW role \in Roles,
           \/ \E set \in Permissions : AssignPermissions(r, role, set)
           \/ \E p \in perms[role] : RemovePermission(r, role, p)
           \/ RoleUpdate(r, role)
    PROVE  \E row : Reads(r, row)
  <1>1. ASSUME NEW set \in Permissions, AssignPermissions(r, role, set)
        PROVE  \E row : Reads(r, row)
    <2>1. set \in SUBSET RW /\ Valid(set)
      BY DEF Permissions, RW
    <2> QED
      BY <1>1, <2>1, SaveBegins DEF AssignPermissions
  <1>2. ASSUME NEW p \in perms[role], RemovePermission(r, role, p)
        PROVE  \E row : Reads(r, row)
    <2>1. perms[role] \ {p} \in SUBSET RW /\ Valid(perms[role] \ {p})
      BY <1>2, RoleSets DEF RemovePermission
    <2> QED
      BY <1>2, <2>1, SaveBegins DEF RemovePermission
  <1>3. CASE RoleUpdate(r, role)
    <2>1. perms[role] \in SUBSET RW /\ (~noted.mixed => Valid(perms[role]))
      BY <1>3, RoleSets DEF RoleUpdate, RoleUsable
    <2> QED
      BY <1>3, <2>1, SaveBegins DEF RoleUpdate
  <1> QED
    BY <1>1, <1>2, <1>3

LEMMA SaveLoadReads ==
    ASSUME AccessShape, SavesUsable, NEW r \in Calls, SaveLoad(r)
    PROVE  \E row : Reads(r, row)
  <1> DEFINE row == [call[r] EXCEPT !.pc = "write", !.loaded = perms[call[r].role]]
  <1>1. /\ CallAt(r, "save", "load") /\ call' = [call EXCEPT ![r] = row]
        /\ UNCHANGED <<member, perms, cache, org, noted>>
    BY DEF SaveLoad, GoTo
  <1>2. call[r] \in SavingRole /\ call[r].op = "save" /\ call[r].pc = "load" /\ call[r].role \in Roles
    BY <1>1, RowAt, SlotOf DEF SavingRole
  <1>3. perms[call[r].role] \in (SUBSET RW) \cup {NoSuch}
    BY <1>2 DEF AccessShape
  <1>4. row \in SavingRole /\ row.op = "save" /\ row.set = call[r].set
    BY <1>2, <1>3 DEF SavingRole
  <1>5. row \in Slot
    BY <1>4 DEF Slot
  <1>6. CallMoves(r, row)
    BY <1>1, <1>5, GoMoves
  <1>7. \A v \in Users : ~Owing(r, v)
    BY <1>2 DEF Owing
  <1>8. ~noted.mixed => Valid(row.set)
    BY <1>2, <1>4 DEF SavesUsable
  <1> QED
    BY <1>1, <1>2, <1>4, <1>5, <1>6, <1>7, <1>8 DEF Reads

LEMMA TellReads ==
    ASSUME AccessShape, NEW r \in Calls, Tell(r)
    PROVE  \E row : Reads(r, row)
  <1> DEFINE row == Owes(Holders(call[r].role))
  <1>1. /\ CallAt(r, "save", "tell") /\ call' = [call EXCEPT ![r] = row]
        /\ UNCHANGED <<member, perms, cache, org, noted>>
    BY DEF Tell, GoTo
  <1>2. call[r].op = "save"
    BY <1>1, RowAt
  <1>3. Holders(call[r].role) \in SUBSET Users
    BY DEF Holders
  <1>4. row \in Slot /\ row.op = "drop" /\ row.users = Holders(call[r].role) /\ ~row.called
    BY <1>3, DropSlot
  <1>5. CallMoves(r, row)
    BY <1>1, <1>4, GoMoves
  <1>6. \A u \in Users : Owing(r, u) => u \in row.users
    BY <1>2, <1>4 DEF Owing
  <1> QED
    BY <1>1, <1>2, <1>4, <1>5, <1>6 DEF Reads

LEMMA RoleRemoveCountReads ==
    ASSUME AccessShape, NEW r \in Calls, NEW role \in Roles, RoleRemoveCount(r, role)
    PROVE  \E row : Reads(r, row)
  <1> DEFINE row == [op |-> "unrole", pc |-> "write", role |-> role]
  <1>1. row \in Slot
    BY DEF Slot, Unroling
  <1>2. BeginCall(r, row) /\ UNCHANGED <<member, perms, cache, org, noted>>
    BY DEF RoleRemoveCount
  <1> QED
    BY <1>1, <1>2, BeginReads

LEMMA SweepListReads ==
    ASSUME AccessShape, NEW r \in Calls, SweepList(r)
    PROVE  \E row : Reads(r, row)
  <1> DEFINE row == [call[r] EXCEPT !.pc = "update", !.users = Members]
  <1>1. /\ CallAt(r, "sweep", "list") /\ call' = [call EXCEPT ![r] = row]
        /\ UNCHANGED <<member, perms, cache, org, noted>>
    BY DEF SweepList, GoTo
  <1>2. call[r] \in Sweeping /\ call[r].op = "sweep"
    BY <1>1, RowAt, SlotOf
  <1>3. row \in Sweeping /\ row.op = "sweep"
    BY <1>2 DEF Sweeping, Members
  <1>4. row \in Slot
    BY <1>3 DEF Slot
  <1>5. CallMoves(r, row)
    BY <1>1, <1>4, GoMoves
  <1>6. \A u \in Users : ~Owing(r, u)
    BY <1>2 DEF Owing
  <1> QED
    BY <1>1, <1>2, <1>3, <1>4, <1>5, <1>6 DEF Reads

LEMMA OrgUpdateFindReads ==
    ASSUME AccessShape, NEW r \in Calls, OrgUpdateFind(r)
    PROVE  \E row : Reads(r, row)
  <1> DEFINE row == [op |-> "orgedit", pc |-> "write"]
  <1>1. row \in Slot
    BY DEF Slot, Editing
  <1>2. BeginCall(r, row) /\ UNCHANGED <<member, perms, cache, org, noted>>
    BY DEF OrgUpdateFind
  <1> QED
    BY <1>1, <1>2, BeginReads

-----------------------------------------------------------------------------
(* What keeps an entry answered for *)

\* A user whose row and role did not change, nor what is owed.
LEMMA AnsweredStays ==
    ASSUME NEW u \in Users, Answered(u),
           cache'[u] = cache[u], Effective(u)' = Effective(u),
           u \in noted.stale => u \in noted'.stale,
           \A q \in Calls : Owing(q, u) => u \in noted'.stale \/ \E p \in Calls : Owing(p, u)'
    PROVE  Answered(u)'
    BY DEF Answered

\* Requests that do not move owe what they owed.
LEMMA OthersOwe ==
    ASSUME NEW q \in Calls, NEW u \in Users, call'[q] = call[q], member'[u] = member[u], Owing(q, u)
    PROVE  Owing(q, u)'
    BY DEF Owing, Holders, Held

LEMMA SameEffective ==
    ASSUME NEW u \in Users, member'[u] = member[u], Held(u) # NoRole => perms'[Held(u)] = perms[Held(u)]
    PROVE  Effective(u)' = Effective(u)
    BY DEF Effective, Held

\* Any step that leaves memberships and roles alone.
LEMMA RowsStay ==
    ASSUME HeldExist, EnteringAreMembers, RoleUsable, member' = member, perms' = perms,
           noted'.mixed = noted.mixed
    PROVE  HeldExist' /\ EnteringAreMembers' /\ RoleUsable'
    BY DEF HeldExist, EnteringAreMembers, Entering, Members, RoleUsable, Exists, Held

LEMMA SavesMove ==
    ASSUME SavesUsable, NEW r \in Calls, NEW row, CallMoves(r, row), noted'.mixed = noted.mixed,
           row.op = "save" => (~noted.mixed => Valid(row.set))
    PROVE  SavesUsable'
    BY DEF SavesUsable, CallMoves

\* Sweeps where they were; the organization's row and what excuses it too.
LEMMA SweepsMove ==
    ASSUME SweepsExcused, SweepsPending, NEW r \in Calls, NEW row, CallMoves(r, row),
           row.op = "sweep" <=> call[r].op = "sweep", row.op = "drop" => ~row.called,
           org' = org, noted'.swept = noted.swept, noted'.excused = noted.excused,
           \/ noted'.late
           \/ noted'.late = noted.late /\ Members' \subseteq Members
    PROVE  SweepsExcused' /\ SweepsPending'
  <1>1. \A q \in Calls : /\ call'[q].op = "sweep" <=> call[q].op = "sweep"
                         /\ FromRemoval(call'[q]) => FromRemoval(call[q])
    BY DEF CallMoves, FromRemoval
  <1> QED
    BY <1>1 DEF SweepsExcused, SweepsPending

LEMMA ReadsKeep ==
    ASSUME AccessIInv, NEW r \in Calls, NEW row, Reads(r, row)
    PROVE  AccessIInv'
  <1> USE DEF AccessIInv
  <1>1. row \in Slot /\ CallMoves(r, row) /\ UNCHANGED <<member, perms, cache, org, noted>>
    BY DEF Reads
  <1>2. AccessShape'
    BY <1>1, AccessShapeIfMoves DEF AccessShape
  <1>3. HeldExist' /\ EnteringAreMembers' /\ RoleUsable'
    BY <1>1, RowsStay
  <1>4. SavesUsable'
    BY <1>1, SavesMove DEF Reads
  <1>5. Members' = Members
    BY <1>1 DEF Members
  <1>6. SweepsExcused' /\ SweepsPending'
    BY <1>1, <1>5, SweepsMove DEF Reads
  <1>7. ASSUME NEW u \in Users PROVE Answered(u)'
    <2>1. Effective(u)' = Effective(u)
      BY <1>1 DEF Effective, Held
    <2>2. ASSUME NEW q \in Calls, Owing(q, u) PROVE \E p \in Calls : Owing(p, u)'
      <3>1. CASE q = r
        <4>1. row.op = "drop" /\ u \in row.users
          BY <2>2, <3>1 DEF Reads
        <4>2. Owing(r, u)'
          BY <1>1, <4>1 DEF Owing, CallMoves
        <4> QED
          BY <4>2
      <3>2. CASE q # r
        <4>1. Owing(q, u)'
          BY <1>1, <2>2, <3>2, OthersOwe DEF CallMoves
        <4> QED
          BY <4>1
      <3> QED
        BY <3>1, <3>2
    <2>3. Answered(u)
      BY DEF AllAnswered
    <2> QED
      BY <1>1, <2>1, <2>2, <2>3, AnsweredStays
  <1>8. AllAnswered'
    BY <1>7 DEF AllAnswered
  <1> QED
    BY <1>2, <1>3, <1>4, <1>6, <1>8

-----------------------------------------------------------------------------
(* Steps that write the cache *)

\* The guard marks the entry it fills as stale when what it had read is not in
\* force any more.
LEMMA GuardSetKeeps ==
    ASSUME AccessIInv, NEW r \in Calls, GuardSet(r)
    PROVE  AccessIInv'
  <1> USE DEF AccessIInv
  <1> DEFINE v == call[r].user
  <1>1. /\ CallAt(r, "guard", "set") /\ call' = [call EXCEPT ![r] = NoCall]
        /\ UNCHANGED <<member, perms, org>>
        /\ cache' = [cache EXCEPT ![v] = <<call[r].set>>]
        /\ noted' = [noted EXCEPT !.stale =
                     IF call[r].set = Effective(v) THEN @ \ {v} ELSE @ \cup {v}]
    BY DEF GuardSet, EndCall, GoTo
  <1>2. call[r] \in Guarding /\ call[r].op = "guard" /\ v \in Users /\ call[r].set \in SUBSET RW
    BY <1>1, RowAt, SlotOf DEF Guarding
  <1>3. CallMoves(r, NoCall)
    BY <1>1, IdleSlot, GoMoves
  <1>4. /\ noted' \in Seen /\ noted'.mixed = noted.mixed /\ noted'.late = noted.late
        /\ noted'.swept = noted.swept /\ noted'.excused = noted.excused
        /\ noted'.stale = IF call[r].set = Effective(v) THEN noted.stale \ {v} ELSE noted.stale \cup {v}
    BY <1>1, <1>2 DEF AccessShape, Seen
  <1>5. AccessShape'
    BY <1>1, <1>2, <1>3, <1>4 DEF AccessShape, CallMoves
  <1>6. HeldExist' /\ EnteringAreMembers' /\ RoleUsable'
    BY <1>1, <1>4, RowsStay
  <1>7. SavesUsable'
    BY <1>3, <1>4, IdleSlot, SavesMove
  <1>8. Members' = Members
    BY <1>1 DEF Members
  <1>9. SweepsExcused' /\ SweepsPending'
    BY <1>1, <1>2, <1>3, <1>4, <1>8, IdleSlot, SweepsMove
  <1>10. ASSUME NEW u \in Users PROVE Answered(u)'
    <2>1. Effective(u)' = Effective(u)
      BY <1>1 DEF Effective, Held
    <2>2. CASE u = v
      <3>1. cache'[v] = <<call[r].set>>
        BY <1>1, <1>2 DEF AccessShape
      <3>2. call[r].set # Effective(v) => v \in noted'.stale
        BY <1>4
      <3> QED
        BY <2>1, <2>2, <3>1, <3>2 DEF Answered
    <2>3. CASE u # v
      <3>1. cache'[u] = cache[u] /\ (u \in noted.stale => u \in noted'.stale)
        BY <1>1, <1>4, <2>3 DEF AccessShape
      <3>2. ASSUME NEW q \in Calls, Owing(q, u) PROVE Owing(q, u)'
        <4>1. q # r
          BY <1>2, <3>2 DEF Owing
        <4> QED
          BY <1>1, <1>3, <3>2, <4>1, OthersOwe DEF CallMoves
      <3>3. Answered(u)
        BY DEF AllAnswered
      <3> QED
        BY <2>1, <3>1, <3>2, <3>3, AnsweredStays
    <2> QED
      BY <2>2, <2>3
  <1>11. AllAnswered'
    BY <1>10 DEF AllAnswered
  <1> QED
    BY <1>5, <1>6, <1>7, <1>9, <1>11

\* An entry goes; whoever had to drop it may have done so.
LEMMA EntryGoes ==
    ASSUME AccessIInv, NEW v \in Users, UNCHANGED <<member, perms, org>>,
           cache' = [cache EXCEPT ![v] = <<>>], noted' = [noted EXCEPT !.stale = @ \ {v}],
           call' \in [Calls -> Slot],
           \A q \in Calls : call'[q] = call[q] \/ 
              /\ call[q].op = "drop" /\ call'[q].op = "drop"
              /\ call'[q].users = call[q].users \ {v} /\ call'[q].called = call[q].called
    PROVE  AccessIInv'
  <1> USE DEF AccessIInv
  <1>1. /\ noted' \in Seen /\ noted'.mixed = noted.mixed /\ noted'.late = noted.late
        /\ noted'.swept = noted.swept /\ noted'.excused = noted.excused
        /\ noted'.stale = noted.stale \ {v}
    BY DEF AccessShape, Seen
  <1>2. AccessShape'
    BY <1>1 DEF AccessShape
  <1>3. HeldExist' /\ EnteringAreMembers' /\ RoleUsable'
    BY <1>1, RowsStay
  <1>4. SavesUsable'
    BY <1>1 DEF SavesUsable
  <1>5. SweepsExcused' /\ SweepsPending'
    <2>1. \A q \in Calls : /\ call'[q].op = "sweep" <=> call[q].op = "sweep"
                           /\ FromRemoval(call'[q]) => FromRemoval(call[q])
      BY DEF FromRemoval
    <2>2. Members' = Members
      BY DEF Members
    <2> QED
      BY <1>1, <2>1, <2>2 DEF SweepsExcused, SweepsPending
  <1>6. ASSUME NEW u \in Users PROVE Answered(u)'
    <2>1. Effective(u)' = Effective(u)
      BY DEF Effective, Held
    <2>2. CASE u = v
      BY <2>2 DEF Answered, AccessShape
    <2>3. CASE u # v
      <3>1. cache'[u] = cache[u] /\ (u \in noted.stale => u \in noted'.stale)
        BY <1>1, <2>3 DEF AccessShape
      <3>2. ASSUME NEW q \in Calls, Owing(q, u) PROVE Owing(q, u)'
        <4>1. CASE call'[q] = call[q]
          BY <3>2, <4>1, OthersOwe
        <4>2. CASE call[q].op = "drop" /\ call'[q].op = "drop" /\ call'[q].users = call[q].users \ {v}
          BY <2>3, <3>2, <4>2 DEF Owing
        <4> QED
          BY <4>1, <4>2
      <3>3. Answered(u)
        BY DEF AllAnswered
      <3> QED
        BY <2>1, <3>1, <3>2, <3>3, AnsweredStays
    <2> QED
      BY <2>2, <2>3
  <1>7. AllAnswered'
    BY <1>6 DEF AllAnswered
  <1> QED
    BY <1>2, <1>3, <1>4, <1>5, <1>7

LEMMA DropKeeps ==
    ASSUME AccessIInv, NEW r \in Calls, NEW v \in Users, Drop(r, v)
    PROVE  AccessIInv'
  <1> DEFINE row == [call[r] EXCEPT !.users = @ \ {v}]
  <1>1. /\ CallAt(r, "drop", "drop") /\ call' = [call EXCEPT ![r] = row]
        /\ UNCHANGED <<member, perms, org>>
        /\ cache' = [cache EXCEPT ![v] = <<>>] /\ noted' = [noted EXCEPT !.stale = @ \ {v}]
    BY DEF Drop, GoTo
  <1>2. AccessShape
    BY DEF AccessIInv
  <1>3. call[r] \in Dropping /\ call[r].op = "drop"
    BY <1>1, <1>2, RowAt, SlotOf
  <1>4. /\ row \in Dropping /\ row.op = "drop"
        /\ row.users = call[r].users \ {v} /\ row.called = call[r].called
    BY <1>3 DEF Dropping
  <1>5. row \in Slot
    BY <1>4 DEF Slot
  <1>6. CallMoves(r, row)
    BY <1>1, <1>2, <1>5, GoMoves
  <1>7. /\ call' \in [Calls -> Slot]
        /\ \A q \in Calls : call'[q] = call[q] \/
              /\ call[q].op = "drop" /\ call'[q].op = "drop"
              /\ call'[q].users = call[q].users \ {v} /\ call'[q].called = call[q].called
    BY <1>3, <1>4, <1>6 DEF CallMoves
  <1> QED
    BY <1>1, <1>7, EntryGoes

LEMMA CacheExpiresKeeps ==
    ASSUME AccessIInv, NEW v \in Users, CacheExpires(v)
    PROVE  AccessIInv'
    BY EntryGoes DEF CacheExpires, AccessIInv, AccessShape

-----------------------------------------------------------------------------
(* Steps that write a membership *)

\* The membership of v becomes m, and r owes v's entry.
LEMMA MembershipKeeps ==
    ASSUME AccessIInv, NEW r \in Calls, NEW v \in Users, NEW m \in Member,
           m.role # NoRole => Exists(m.role) /\ m.in = "yes",
           call[r].op \in {"idle", "assign"},
           member' = [member EXCEPT ![v] = m], call' = [call EXCEPT ![r] = Owes({v})],
           UNCHANGED <<perms, cache, org>>,
           noted' \in Seen, noted'.stale = noted.stale, noted'.mixed = noted.mixed,
           noted'.swept = noted.swept, noted'.excused = noted.excused,
           \/ noted'.late
           \/ noted'.late = noted.late /\ (m.in = "yes" => member[v].in = "yes")
    PROVE  AccessIInv'
  <1> USE DEF AccessIInv
  <1>1. /\ Owes({v}) \in Slot /\ Owes({v}).op = "drop" /\ Owes({v}).users = {v} /\ ~Owes({v}).called
    BY DropSlot
  <1>2. CallMoves(r, Owes({v}))
    BY <1>1, GoMoves
  <1>3. member'[v] = m /\ \A u \in Users : u # v => member'[u] = member[u]
    BY DEF AccessShape
  <1>4. AccessShape'
    BY <1>2 DEF AccessShape, CallMoves
  <1>5. HeldExist'
    BY <1>3 DEF HeldExist, Held, Exists
  <1>6. EnteringAreMembers'
    BY <1>3 DEF EnteringAreMembers, Entering, Members, Held
  <1>7. RoleUsable'
    BY DEF RoleUsable, Exists
  <1>8. SavesUsable'
    BY <1>1, <1>2, SavesMove
  <1>9. SweepsExcused' /\ SweepsPending'
    <2>1. (m.in = "yes" => member[v].in = "yes") => Members' \subseteq Members
      BY <1>3 DEF Members
    <2> QED
      BY <1>1, <1>2, <2>1, SweepsMove
  <1>10. ASSUME NEW u \in Users PROVE Answered(u)'
    <2>1. CASE u = v
      <3>1. Owing(r, v)'
        BY <1>1, <1>2 DEF Owing, CallMoves
      <3> QED
        BY <2>1, <3>1 DEF Answered
    <2>2. CASE u # v
      <3>1. Effective(u)' = Effective(u)
        BY <1>3, <2>2 DEF Effective, Held
      <3>2. ASSUME NEW q \in Calls, Owing(q, u) PROVE Owing(q, u)'
        <4>1. q # r
          BY <3>2 DEF Owing
        <4> QED
          BY <1>2, <1>3, <2>2, <3>2, <4>1, OthersOwe DEF CallMoves
      <3>3. Answered(u)
        BY DEF AllAnswered
      <3> QED
        BY <3>1, <3>2, <3>3, AnsweredStays
    <2> QED
      BY <2>1, <2>2
  <1>11. AllAnswered'
    BY <1>10 DEF AllAnswered
  <1> QED
    BY <1>4, <1>5, <1>6, <1>7, <1>8, <1>9, <1>11

LEMMA AssignWriteKeeps ==
    ASSUME AccessIInv, NEW r \in Calls, AssignWrite(r)
    PROVE  AccessIInv'
  <1> USE DEF AccessIInv
  <1> DEFINE u == call[r].user
             role == call[r].role
             m == [role |-> role, in |-> "yes"]
  <1>1. CallAt(r, "assign", "write") /\ UNCHANGED <<perms, cache, org>>
    BY DEF AssignWrite
  <1>2. /\ call[r] \in Assigning /\ call[r].op = "assign"
        /\ u \in Users /\ role \in Roles \cup {NoRole}
    BY <1>1, RowAt, SlotOf DEF Assigning
  <1>3. CASE /\ call' = [call EXCEPT ![r] = NoCall] /\ UNCHANGED <<member, noted>>
    <2>1. CallMoves(r, NoCall)
      BY <1>3, IdleSlot, GoMoves
    <2>2. Reads(r, NoCall)
      BY <1>1, <1>2, <1>3, <2>1, IdleSlot DEF Reads, Owing
    <2> QED
      BY <2>2, ReadsKeep
  <1>4. CASE /\ ~(role # NoRole /\ ~Exists(role))
             /\ member' = [member EXCEPT ![u] = m]
             /\ call' = [call EXCEPT ![r] = Owes({u})]
             /\ noted' = [noted EXCEPT !.late = TRUE]
    <2>1. m \in Member /\ m.role = role /\ m.in = "yes"
      BY <1>2 DEF Member
    <2>2. /\ noted' \in Seen /\ noted'.stale = noted.stale /\ noted'.mixed = noted.mixed
          /\ noted'.swept = noted.swept /\ noted'.excused = noted.excused /\ noted'.late
      BY <1>4 DEF AccessShape, Seen
    <2> QED
      BY <1>1, <1>2, <1>4, <2>1, <2>2, MembershipKeeps
  <1> QED
    BY <1>3, <1>4 DEF AssignWrite, EndCall, GoTo

LEMMA RemoveRoleKeeps ==
    ASSUME AccessIInv, NEW r \in Calls, NEW u \in Users, NEW role \in Roles \cup {NoRole},
           RemoveRole(r, u, role)
    PROVE  AccessIInv'
  <1> USE DEF AccessIInv
  <1> DEFINE m == [member[u] EXCEPT !.role = NoRole]
  <1>1. /\ role # NoRole /\ Held(u) = role /\ call[r] = NoCall
        /\ call' = [call EXCEPT ![r] = Owes({u})]
        /\ member' = [member EXCEPT ![u].role = NoRole]
        /\ UNCHANGED <<perms, cache, org, noted>>
    BY DEF RemoveRole, BeginCall
  <1>2. member[u] \in Member
    BY <1>1 DEF AccessShape, Held, NoMember
  <1>3. m \in Member /\ m.role = NoRole /\ m.in = member[u].in
    BY <1>2 DEF Member
  <1>4. member' = [member EXCEPT ![u] = m]
    BY <1>1
  <1> QED
    BY <1>1, <1>3, <1>4, IdleSlot, MembershipKeeps DEF AccessShape

LEMMA RemoveFromOrgKeeps ==
    ASSUME AccessIInv, NEW r \in Calls, NEW u \in Users, RemoveFromOrg(r, u)
    PROVE  AccessIInv'
  <1> DEFINE m == [role |-> NoRole, in |-> "removed"]
  <1>1. /\ call[r] = NoCall /\ call' = [call EXCEPT ![r] = Owes({u})]
        /\ member' = [member EXCEPT ![u] = m]
        /\ UNCHANGED <<perms, cache, org, noted>>
    BY DEF RemoveFromOrg, BeginCall
  <1>2. m \in Member /\ m.role = NoRole /\ m.in = "removed"
    BY DEF Member
  <1> QED
    BY <1>1, <1>2, IdleSlot, MembershipKeeps DEF AccessShape, AccessIInv

\* The sweep takes every member away and owes the entries of those it listed.
LEMMA SweepKeeps ==
    ASSUME AccessIInv, NEW r \in Calls, Sweep(r)
    PROVE  AccessIInv'
  <1> USE DEF AccessIInv
  <1> DEFINE out == [role |-> NoRole, in |-> "removed"]
             row == [Owes(call[r].users) EXCEPT !.called = call[r].called]
  <1>1. /\ CallAt(r, "sweep", "update") /\ call' = [call EXCEPT ![r] = row]
        /\ member' = [u \in Users |-> IF u \in Members THEN out ELSE member[u]]
        /\ noted' = [noted EXCEPT
                  !.swept = @ \/ Members # {},
                  !.late = FALSE,
                  !.stale = @ \cup (Members \ call[r].users)]
        /\ UNCHANGED <<perms, cache, org>>
    BY DEF Sweep, GoTo
  <1>2. /\ call[r] \in Sweeping /\ call[r].op = "sweep"
        /\ call[r].users \in SUBSET Users /\ call[r].called \in BOOLEAN
    BY <1>1, RowAt, SlotOf DEF Sweeping
  <1>3. row \in Dropping /\ row.op = "drop" /\ row.users = call[r].users
    BY <1>2 DEF Owes, Dropping
  <1>4. row \in Slot
    BY <1>3 DEF Slot
  <1>5. CallMoves(r, row)
    BY <1>1, <1>4, GoMoves
  <1>6. out \in Member /\ out.in = "removed" /\ out.role = NoRole
    BY DEF Member
  <1>7. Members \in SUBSET Users /\ Members' = {}
    BY <1>1, <1>6 DEF Members
  <1>8. /\ noted' \in Seen /\ noted'.mixed = noted.mixed /\ noted'.excused = noted.excused
        /\ noted'.stale = noted.stale \cup (Members \ call[r].users)
    BY <1>1, <1>7 DEF AccessShape, Seen
  <1>9. member' \in [Users -> Member \cup {NoMember}]
    BY <1>1, <1>6 DEF AccessShape
  <1>10. AccessShape'
    BY <1>1, <1>5, <1>8, <1>9 DEF AccessShape, CallMoves
  <1>11. ASSUME NEW u \in Users PROVE Held(u)' = NoRole
    <2>1. CASE u \in Members
      BY <1>1, <1>6, <2>1 DEF Held
    <2>2. CASE u \notin Members
      BY <1>1, <2>2 DEF Held, EnteringAreMembers, Entering
    <2> QED
      BY <2>1, <2>2
  <1>12. HeldExist' /\ EnteringAreMembers'
    BY <1>11 DEF HeldExist, EnteringAreMembers, Entering
  <1>13. RoleUsable'
    BY <1>1, <1>8 DEF RoleUsable, Exists
  <1>14. SavesUsable'
    BY <1>3, <1>5, <1>8, SavesMove
  <1>15. SweepsExcused'
    BY <1>1, <1>2, <1>8 DEF SweepsExcused, FromRemoval
  <1>16. SweepsPending'
    BY <1>7 DEF SweepsPending
  <1>17. ASSUME NEW u \in Users PROVE Answered(u)'
    <2>1. CASE u \in Members /\ u \in call[r].users
      <3>1. Owing(r, u)'
        BY <1>3, <1>5, <2>1 DEF Owing, CallMoves
      <3> QED
        BY <3>1 DEF Answered
    <2>2. CASE u \in Members /\ u \notin call[r].users
      BY <1>8, <2>2 DEF Answered
    <2>3. CASE u \notin Members
      <3>1. member'[u] = member[u]
        BY <1>1, <2>3
      <3>2. Effective(u)' = Effective(u)
        BY <1>1, <3>1, SameEffective
      <3>3. ASSUME NEW q \in Calls, Owing(q, u) PROVE Owing(q, u)'
        <4>1. q # r
          BY <1>2, <3>3 DEF Owing
        <4> QED
          BY <1>5, <3>1, <3>3, <4>1, OthersOwe DEF CallMoves
      <3>4. Answered(u)
        BY DEF AllAnswered
      <3> QED
        BY <1>1, <1>8, <3>2, <3>3, <3>4, AnsweredStays
    <2> QED
      BY <2>1, <2>2, <2>3
  <1>18. AllAnswered'
    BY <1>17 DEF AllAnswered
  <1> QED
    BY <1>10, <1>12, <1>13, <1>14, <1>15, <1>16, <1>18

-----------------------------------------------------------------------------
(* Steps that write a role *)

LEMMA RoleCreateKeeps ==
    ASSUME NoRole \notin Roles, AccessIInv, NEW r \in Calls, NEW role \in Roles, NEW set \in Permissions,
           RoleCreate(r, role, set)
    PROVE  AccessIInv'
  <1> USE DEF AccessIInv
  <1>1. /\ ~Exists(role) /\ perms' = [perms EXCEPT ![role] = set]
        /\ UNCHANGED <<member, cache, org, call, noted>>
    BY DEF RoleCreate
  <1>2. set \in SUBSET RW /\ Valid(set) /\ set # NoSuch
    BY DEF Permissions, RW, NoSuch
  <1>3. perms'[role] = set /\ \A other \in Roles : other # role => perms'[other] = perms[other]
    BY <1>1 DEF AccessShape
  <1>4. AccessShape'
    BY <1>1, <1>2 DEF AccessShape
  <1>5. \A u \in Users : Held(u) # role
    BY <1>1, HeldRole DEF HeldExist
  <1>6. ASSUME NEW u \in Users PROVE Held(u)' = Held(u) /\ (Held(u) # NoRole => perms'[Held(u)] = perms[Held(u)])
    BY <1>1, <1>3, <1>5, HeldRole DEF Held
  <1>7. HeldExist'
    BY <1>6 DEF HeldExist, Exists
  <1>8. EnteringAreMembers'
    BY <1>1 DEF EnteringAreMembers, Entering, Members, Held
  <1>9. RoleUsable'
    BY <1>1, <1>2, <1>3 DEF RoleUsable, Exists
  <1>10. SavesUsable'
    BY <1>1 DEF SavesUsable
  <1>11. SweepsExcused' /\ SweepsPending'
    BY <1>1 DEF SweepsExcused, SweepsPending, Members
  <1>12. ASSUME NEW u \in Users PROVE Answered(u)'
    <2>1. Effective(u)' = Effective(u)
      BY <1>1, <1>6, SameEffective
    <2>2. \A q \in Calls : Owing(q, u) => Owing(q, u)'
      BY <1>1, OthersOwe
    <2>3. Answered(u)
      BY DEF AllAnswered
    <2> QED
      BY <1>1, <2>1, <2>2, <2>3, AnsweredStays
  <1>13. AllAnswered'
    BY <1>12 DEF AllAnswered
  <1> QED
    BY <1>4, <1>7, <1>8, <1>9, <1>10, <1>11, <1>13

\* A save that tells owes the entries of whoever holds the role by then; one
\* that does not makes them stale.
LEMMA SaveWriteKeeps ==
    ASSUME NoRole \notin Roles, AccessIInv, NEW r \in Calls, SaveWrite(r)
    PROVE  AccessIInv'
  <1> USE DEF AccessIInv
  <1> DEFINE role == call[r].role
             new == Stored(role, call[r].loaded, call[r].set)
             told == [call[r] EXCEPT !.pc = "tell", !.loaded = {}, !.set = {}]
             row == IF call[r].tell THEN told ELSE NoCall
  <1>1. /\ CallAt(r, "save", "write") /\ perms' = [perms EXCEPT ![role] = new]
        /\ noted' = [noted EXCEPT
                  !.mixed = @ \/ call[r].loaded # perms[role],
                  !.stale = IF call[r].tell \/ new = perms[role]
                            THEN @ ELSE @ \cup Holders(role)]
        /\ UNCHANGED <<member, cache, org>>
    BY DEF SaveWrite
  <1>2. call' = [call EXCEPT ![r] = row]
    BY DEF SaveWrite, GoTo, EndCall
  <1>3. /\ call[r] \in SavingRole /\ call[r].op = "save" /\ call[r].pc = "write"
        /\ role \in Roles /\ call[r].set \in SUBSET RW /\ call[r].loaded \in (SUBSET RW) \cup {NoSuch}
    BY <1>1, RowAt, SlotOf DEF SavingRole
  <1>4. told \in SavingRole /\ told.op = "save" /\ told.pc = "tell" /\ told.role = role /\ told.set = {}
    BY <1>3 DEF SavingRole
  <1>5. row \in Slot /\ row.op \in {"save", "idle"}
    BY <1>4, IdleSlot DEF Slot
  <1>6. CallMoves(r, row)
    BY <1>2, <1>5, GoMoves
  <1>7. /\ new \in (SUBSET RW) \cup {NoSuch} /\ (Exists(role) => new # NoSuch)
        /\ call[r].loaded = perms[role] => new = call[r].set
    <2>1. perms[role] \in (SUBSET RW) \cup {NoSuch}
      BY <1>3 DEF AccessShape
    <2> QED
      BY <1>3, <2>1, StoredSet
  <1> HIDE DEF new, row, told
  <1>8. Holders(role) \in SUBSET Users
    BY DEF Holders
  <1>9. /\ noted' \in Seen /\ noted'.late = noted.late
        /\ noted'.swept = noted.swept /\ noted'.excused = noted.excused
        /\ noted'.mixed = (noted.mixed \/ call[r].loaded # perms[role])
        /\ noted'.stale = IF call[r].tell \/ new = perms[role]
                          THEN noted.stale ELSE noted.stale \cup Holders(role)
    <2>1. noted \in Seen
      BY DEF AccessShape
    <2>2. noted.mixed \in BOOLEAN /\ (noted.mixed \/ call[r].loaded # perms[role]) \in BOOLEAN
      BY <2>1 DEF Seen
    <2>3. (IF call[r].tell \/ new = perms[role]
           THEN noted.stale ELSE noted.stale \cup Holders(role)) \in SUBSET Users
      BY <1>8, <2>1 DEF Seen
    <2> QED
      BY <1>1, <2>1, <2>2, <2>3 DEF Seen
  <1>10. perms'[role] = new /\ \A other \in Roles : other # role => perms'[other] = perms[other]
    BY <1>1, <1>3 DEF AccessShape
  <1>11. AccessShape'
    BY <1>1, <1>3, <1>6, <1>7, <1>9 DEF AccessShape, CallMoves
  <1>12. HeldExist'
    <2>1. ASSUME NEW u \in Users, Held(u)' # NoRole PROVE Exists(Held(u))'
      <3>1. Held(u)' = Held(u) /\ Held(u) \in Roles
        BY <1>1, <2>1, HeldRole DEF Held
      <3>2. Exists(Held(u))
        BY <2>1, <3>1 DEF HeldExist
      <3> QED
        BY <1>7, <1>10, <3>1, <3>2 DEF Exists
    <2> QED
      BY <2>1 DEF HeldExist
  <1>13. EnteringAreMembers'
    BY <1>1 DEF EnteringAreMembers, Entering, Members, Held
  <1>14. RoleUsable'
    <2>1. ASSUME ~noted'.mixed PROVE Valid(new)
      BY <1>3, <1>7, <1>9, <2>1 DEF SavesUsable
    <2> QED
      BY <1>9, <1>10, <2>1 DEF RoleUsable, Exists
  <1>15. SavesUsable'
    <2>1. row.op = "save" => Valid(row.set)
      BY <1>4, IdleSlot DEF row, Valid
    <2> QED
      BY <1>6, <1>9, <2>1 DEF SavesUsable, CallMoves
  <1>16. row.op \notin {"sweep", "drop"} /\ call[r].op # "sweep" /\ Members' = Members
    BY <1>1, <1>3, <1>5 DEF Members
  <1>17. SweepsExcused' /\ SweepsPending'
    BY <1>1, <1>6, <1>9, <1>16, SweepsMove
  <1>18. ASSUME NEW u \in Users PROVE Answered(u)'
    <2>1. ASSUME Effective(u)' = Effective(u) PROVE Answered(u)'
      <3>1. ASSUME NEW q \in Calls, Owing(q, u) PROVE Owing(q, u)'
        <4>1. q # r
          BY <1>3, <3>1 DEF Owing
        <4> QED
          BY <1>1, <1>6, <3>1, <4>1, OthersOwe DEF CallMoves
      <3>2. Answered(u) /\ (u \in noted.stale => u \in noted'.stale)
        BY <1>9 DEF AllAnswered
      <3> QED
        BY <1>1, <2>1, <3>1, <3>2, AnsweredStays
    <2>2. CASE Held(u) # role \/ new = perms[role]
      <3>1. Held(u) # NoRole => perms'[Held(u)] = perms[Held(u)]
        BY <1>10, <2>2, HeldRole
      <3>2. Effective(u)' = Effective(u)
        BY <1>1, <3>1, SameEffective
      <3> QED
        BY <2>1, <3>2
    <2>3. CASE Held(u) = role /\ new # perms[role]
      <3>1. u \in Holders(role)
        BY <1>3, <2>3 DEF Holders, EnteringAreMembers, Entering, Members
      <3>2. CASE call[r].tell
        <4>1. call'[r] = told
          BY <1>6, <3>2 DEF CallMoves, row
        <4>2. member'[u].role = call'[r].role /\ member'[u].in = "yes"
          BY <1>1, <1>4, <3>1, <4>1 DEF Holders, Held
        <4>3. Owing(r, u)'
          BY <1>4, <4>1, <4>2 DEF Owing, Holders, Held
        <4> QED
          BY <4>3 DEF Answered
      <3>3. CASE ~call[r].tell
        BY <1>9, <2>3, <3>1, <3>3 DEF Answered
      <3> QED
        BY <3>2, <3>3
    <2> QED
      BY <2>2, <2>3
  <1>19. AllAnswered'
    BY <1>18 DEF AllAnswered
  <1> QED
    BY <1>11, <1>12, <1>13, <1>14, <1>15, <1>17, <1>19

\* Nobody holds a role that goes: the foreign key restricts it.
LEMMA RoleRemoveWriteKeeps ==
    ASSUME AccessIInv, NEW r \in Calls, RoleRemoveWrite(r)
    PROVE  AccessIInv'
  <1> USE DEF AccessIInv
  <1> DEFINE role == call[r].role
  <1>1. /\ CallAt(r, "unrole", "write") /\ call' = [call EXCEPT ![r] = NoCall]
        /\ perms' = IF \E u \in Users : Held(u) = role THEN perms
                    ELSE [perms EXCEPT ![role] = NoSuch]
        /\ UNCHANGED <<member, cache, org, noted>>
    BY DEF RoleRemoveWrite, EndCall, GoTo
  <1>2. call[r] \in Unroling /\ call[r].op = "unrole" /\ role \in Roles
    BY <1>1, RowAt, SlotOf DEF Unroling
  <1>3. CallMoves(r, NoCall)
    BY <1>1, IdleSlot, GoMoves
  <1>4. perms' \in [Roles -> (SUBSET RW) \cup {NoSuch}]
    BY <1>1 DEF AccessShape
  <1>5. AccessShape'
    BY <1>1, <1>3, <1>4 DEF AccessShape, CallMoves
  <1>6. ASSUME NEW u \in Users
        PROVE  Held(u)' = Held(u) /\ (Held(u) # NoRole => perms'[Held(u)] = perms[Held(u)])
    BY <1>1, HeldRole DEF Held, AccessShape
  <1>7. HeldExist'
    BY <1>6 DEF HeldExist, Exists
  <1>8. EnteringAreMembers'
    BY <1>1 DEF EnteringAreMembers, Entering, Members, Held
  <1>9. RoleUsable'
    <2>1. \A other \in Roles : perms'[other] = perms[other] \/ perms'[other] = NoSuch
      BY <1>1 DEF AccessShape
    <2> QED
      BY <1>1, <2>1 DEF RoleUsable, Exists
  <1>10. SavesUsable'
    BY <1>1, <1>3, IdleSlot, SavesMove
  <1>11. Members' = Members
    BY <1>1 DEF Members
  <1>12. SweepsExcused' /\ SweepsPending'
    BY <1>1, <1>2, <1>3, <1>11, IdleSlot, SweepsMove
  <1>13. ASSUME NEW u \in Users PROVE Answered(u)'
    <2>1. Effective(u)' = Effective(u)
      BY <1>1, <1>6, SameEffective
    <2>2. ASSUME NEW q \in Calls, Owing(q, u) PROVE Owing(q, u)'
      <3>1. q # r
        BY <1>2, <2>2 DEF Owing
      <3> QED
        BY <1>1, <1>3, <2>2, <3>1, OthersOwe DEF CallMoves
    <2>3. Answered(u)
      BY DEF AllAnswered
    <2> QED
      BY <1>1, <2>1, <2>2, <2>3, AnsweredStays
  <1>14. AllAnswered'
    BY <1>13 DEF AllAnswered
  <1> QED
    BY <1>5, <1>7, <1>8, <1>9, <1>10, <1>12, <1>14

-----------------------------------------------------------------------------
(* The organization, and what fails *)

\* Memberships, roles and entries stay; what was owed is owed still, or known
\* to be stale.
LEMMA RequestsMove ==
    ASSUME AccessIInv, UNCHANGED <<member, perms, cache>>, org' \in {"live", "deleted"},
           noted' \in Seen, noted'.mixed = noted.mixed, noted.stale \subseteq noted'.stale,
           call' \in [Calls -> Slot],
           \A q \in Calls : call'[q].op = "save" => \E p \in Calls : call'[q] = call[p],
           \A u \in Users : \A q \in Calls :
                Owing(q, u) => u \in noted'.stale \/ \E p \in Calls : Owing(p, u)',
           SweepsExcused', SweepsPending'
    PROVE  AccessIInv'
  <1> USE DEF AccessIInv
  <1>1. AccessShape'
    BY DEF AccessShape
  <1>2. HeldExist' /\ EnteringAreMembers' /\ RoleUsable'
    BY RowsStay
  <1>3. SavesUsable'
    BY DEF SavesUsable
  <1>4. ASSUME NEW u \in Users PROVE Answered(u)'
    <2>1. Effective(u)' = Effective(u)
      BY DEF Effective, Held
    <2>2. Answered(u)
      BY DEF AllAnswered
    <2> QED
      BY <2>1, <2>2, AnsweredStays
  <1>5. AllAnswered'
    BY <1>4 DEF AllAnswered
  <1> QED
    BY <1>1, <1>2, <1>3, <1>5

LEMMA OrgRemoveKeeps ==
    ASSUME AccessIInv, NEW r \in Calls, OrgRemove(r)
    PROVE  AccessIInv'
  <1> USE DEF AccessIInv
  <1>1. /\ call[r] = NoCall /\ call' = [call EXCEPT ![r] = SweepOf(TRUE)] /\ org' = "deleted"
        /\ noted' = [noted EXCEPT !.swept = FALSE, !.excused = FALSE, !.late = FALSE]
        /\ UNCHANGED <<member, perms, cache>>
    BY DEF OrgRemove, BeginCall
  <1>2. CallMoves(r, SweepOf(TRUE)) /\ SweepOf(TRUE).op = "sweep"
    BY <1>1, SweepSlot, GoMoves
  <1>3. noted' \in Seen /\ noted'.mixed = noted.mixed /\ noted'.stale = noted.stale
    BY <1>1 DEF AccessShape, Seen
  <1>4. \A q \in Calls : call'[q].op = "save" => call'[q] = call[q]
    BY <1>2 DEF CallMoves
  <1>5. ASSUME NEW u \in Users, NEW q \in Calls, Owing(q, u) PROVE Owing(q, u)'
    <2>1. q # r
      BY <1>1, <1>5, IdleSlot DEF Owing
    <2> QED
      BY <1>1, <1>2, <1>5, <2>1, OthersOwe DEF CallMoves
  <1>6. SweepsExcused' /\ SweepsPending'
    BY <1>1, <1>2 DEF SweepsExcused, SweepsPending, CallMoves
  <1> QED
    BY <1>1, <1>2, <1>3, <1>4, <1>5, <1>6, RequestsMove DEF CallMoves

\* The organization lives again, and that excuses its removal.
LEMMA LiveAgain ==
    ASSUME AccessIInv, UNCHANGED <<member, perms, cache>>, org' = "live",
           noted' \in Seen, noted'.mixed = noted.mixed, noted.stale \subseteq noted'.stale,
           noted'.excused \/ (org = "live" /\ noted'.excused = noted.excused /\ noted'.swept = noted.swept
                              /\ \A q \in Calls : FromRemoval(call'[q]) => FromRemoval(call[q])),
           call' \in [Calls -> Slot],
           \A q \in Calls : call'[q].op = "save" => \E p \in Calls : call'[q] = call[p],
           \A u \in Users : \A q \in Calls :
                Owing(q, u) => u \in noted'.stale \/ \E p \in Calls : Owing(p, u)'
    PROVE  AccessIInv'
  <1>1. SweepsExcused' /\ SweepsPending'
    BY DEF SweepsExcused, SweepsPending, AccessIInv
  <1> QED
    BY <1>1, RequestsMove

LEMMA OrgRestoreKeeps ==
    ASSUME AccessIInv, NEW r \in Calls, OrgRestore(r)
    PROVE  AccessIInv'
  <1> USE DEF AccessIInv
  <1>1. /\ UNCHANGED <<member, perms, cache, call>> /\ org' = "live"
        /\ noted' = [noted EXCEPT !.excused = TRUE]
    BY DEF OrgRestore
  <1>2. noted' \in Seen /\ noted'.mixed = noted.mixed /\ noted'.stale = noted.stale /\ noted'.excused
    BY <1>1 DEF AccessShape, Seen
  <1>3. ASSUME NEW u \in Users, NEW q \in Calls, Owing(q, u) PROVE Owing(q, u)'
    BY <1>1, <1>3, OthersOwe
  <1>4. call' \in [Calls -> Slot] /\ \A q \in Calls : call'[q] = call[q]
    BY <1>1 DEF AccessShape
  <1> QED
    BY <1>1, <1>2, <1>3, <1>4, LiveAgain

LEMMA OrgUpdateSaveKeeps ==
    ASSUME AccessIInv, NEW r \in Calls, OrgUpdateSave(r)
    PROVE  AccessIInv'
  <1> USE DEF AccessIInv
  <1>1. /\ CallAt(r, "orgedit", "write") /\ call' = [call EXCEPT ![r] = NoCall] /\ org' = "live"
        /\ noted' = [noted EXCEPT !.excused = @ \/ org = "deleted"]
        /\ UNCHANGED <<member, perms, cache>>
    BY DEF OrgUpdateSave, EndCall, GoTo
  <1>2. call[r].op = "orgedit"
    BY <1>1, RowAt
  <1>3. CallMoves(r, NoCall)
    BY <1>1, IdleSlot, GoMoves
  <1>4. /\ noted' \in Seen /\ noted'.mixed = noted.mixed /\ noted'.stale = noted.stale
        /\ noted'.swept = noted.swept /\ noted'.excused = (noted.excused \/ org = "deleted")
    BY <1>1 DEF AccessShape, Seen
  <1>5. org = "deleted" \/ org = "live"
    BY DEF AccessShape
  <1>6. \A q \in Calls : call'[q] = call[q] \/ call'[q].op = "idle"
    BY <1>3, IdleSlot DEF CallMoves
  <1>7. ASSUME NEW u \in Users, NEW q \in Calls, Owing(q, u) PROVE Owing(q, u)'
    <2>1. q # r
      BY <1>2, <1>7 DEF Owing
    <2> QED
      BY <1>1, <1>3, <1>7, <2>1, OthersOwe DEF CallMoves
  <1>8. /\ \A q \in Calls : call'[q].op = "save" => \E p \in Calls : call'[q] = call[p]
        /\ \A q \in Calls : FromRemoval(call'[q]) => FromRemoval(call[q])
    BY <1>6 DEF FromRemoval
  <1>9. noted'.excused \/ (org = "live" /\ noted'.excused = noted.excused)
    <2>1. CASE org = "deleted"
      BY <1>4, <2>1
    <2>2. CASE org = "live"
      <3>1. noted.excused \in BOOLEAN /\ org # "deleted"
        BY <2>2 DEF AccessShape, Seen
      <3> QED
        BY <1>4, <2>2, <3>1
    <2> QED
      BY <1>5, <2>1, <2>2
  <1>10. call' \in [Calls -> Slot]
    BY <1>3 DEF CallMoves
  <1> QED
    BY <1>1, <1>4, <1>7, <1>8, <1>9, <1>10, LiveAgain

\* What r owed is known to be stale once r goes no further.
LEMMA ForgottenStale ==
    ASSUME AccessShape, NEW r \in Calls, NEW u \in Users, Owing(r, u)
    PROVE  u \in Forgets(r)
  <1>1. CASE call[r].op = "drop"
    BY <1>1 DEF Owing, Forgets
  <1>2. CASE call[r].op = "save"
    BY <1>2 DEF Owing, Forgets
  <1> QED
    BY <1>1, <1>2 DEF Owing

LEMMA ForgetsUsers ==
    ASSUME AccessShape, NEW r \in Calls
    PROVE  Forgets(r) \in SUBSET Users
  <1>1. call[r] \in Slot
    BY DEF AccessShape
  <1>2. CASE call[r].op = "drop"
    BY <1>1, <1>2, SlotOf DEF Forgets, Dropping
  <1>3. CASE call[r].op = "save"
    BY <1>3 DEF Forgets, Holders
  <1>4. CASE call[r].op # "drop" /\ call[r].op # "save"
    BY <1>4 DEF Forgets
  <1> QED
    BY <1>2, <1>3, <1>4

\* What a request that dies still owed is known to be stale.
LEMMA DieKeeps ==
    ASSUME AccessIInv, NEW r \in Calls, CallDies(r)
    PROVE  AccessIInv'
  <1> USE DEF AccessIInv
  <1>1. /\ call' = [call EXCEPT ![r] = NoCall]
        /\ noted' = [noted EXCEPT !.stale = @ \cup Forgets(r), !.late = @ \/ call[r].op = "sweep"]
        /\ UNCHANGED <<member, perms, cache, org>>
    BY DEF CallDies, EndCall, GoTo
  <1>2. CallMoves(r, NoCall)
    BY <1>1, IdleSlot, GoMoves
  <1>3. Forgets(r) \in SUBSET Users
    BY ForgetsUsers
  <1>4. /\ noted' \in Seen /\ noted'.mixed = noted.mixed /\ noted'.stale = noted.stale \cup Forgets(r)
        /\ noted'.swept = noted.swept /\ noted'.excused = noted.excused
        /\ noted'.late = (noted.late \/ call[r].op = "sweep")
    BY <1>1, <1>3 DEF AccessShape, Seen
  <1>5. \A q \in Calls : call'[q] = call[q] \/ call'[q].op = "idle"
    BY <1>2, IdleSlot DEF CallMoves
  <1>6. ASSUME NEW u \in Users, NEW q \in Calls, Owing(q, u)
        PROVE  u \in noted'.stale \/ Owing(q, u)'
    <2>1. CASE q = r
      BY <1>4, <1>6, <2>1, ForgottenStale
    <2>2. CASE q # r
      BY <1>1, <1>2, <1>6, <2>2, OthersOwe DEF CallMoves
    <2> QED
      BY <2>1, <2>2
  <1>7. SweepsExcused'
    BY <1>1, <1>4, <1>5 DEF SweepsExcused, FromRemoval
  <1>8. SweepsPending'
    <2>1. Members' = Members
      BY <1>1 DEF Members
    <2>2. ASSUME ~noted'.late, NEW q \in Calls, call[q].op = "sweep" PROVE call'[q].op = "sweep"
      BY <1>2, <1>4, <2>2 DEF CallMoves
    <2> QED
      BY <1>1, <1>4, <2>1, <2>2 DEF SweepsPending
  <1>9. org' \in {"live", "deleted"} /\ call' \in [Calls -> Slot]
        /\ \A q \in Calls : call'[q].op = "save" => \E p \in Calls : call'[q] = call[p]
    BY <1>1, <1>2, <1>5 DEF AccessShape, CallMoves
  <1> QED
    BY <1>1, <1>4, <1>6, <1>7, <1>8, <1>9, RequestsMove

\* A request org-service waits for: what its row may become.
LEMMA AwaitedRow ==
    ASSUME AccessShape, NEW r \in Calls, AwaitedByOrg(r)
    PROVE  LET left == [call[r] EXCEPT !.called = FALSE]
           IN  /\ left \in Slot /\ left.op = call[r].op /\ left.users = call[r].users
               /\ call[r].op \in {"sweep", "drop"}
  <1>1. call[r].op \in {"sweep", "drop"}
    BY DEF AwaitedByOrg
  <1>2. CASE call[r].op = "sweep"
    <2>1. call[r] \in Sweeping
      BY <1>2, SlotOf DEF AccessShape
    <2> QED
      BY <1>1, <2>1 DEF Sweeping, Slot
  <1>3. CASE call[r].op = "drop"
    <2>1. call[r] \in Dropping
      BY <1>3, SlotOf DEF AccessShape
    <2> QED
      BY <1>1, <2>1 DEF Dropping, Slot
  <1> QED
    BY <1>1, <1>2, <1>3

\* The row is restored, which excuses what the call may have swept.
LEMMA RevokeFailsKeeps ==
    ASSUME AccessIInv, NEW r \in Calls, RevokeFails(r)
    PROVE  AccessIInv'
  <1> USE DEF AccessIInv
  <1> DEFINE left == [call[r] EXCEPT !.called = FALSE]
  <1>1. AwaitedByOrg(r) /\ UNCHANGED <<member, perms, cache>> /\ org' = "live"
    BY DEF RevokeFails
  <1>2. left \in Slot /\ left.op = call[r].op /\ left.users = call[r].users
        /\ call[r].op \in {"sweep", "drop"}
    BY <1>1, AwaitedRow
  <1> HIDE DEF left
  <1>3. CASE /\ call' = [call EXCEPT ![r] = NoCall]
             /\ noted' = [noted EXCEPT !.excused = TRUE, !.stale = @ \cup Forgets(r)]
    <2>1. CallMoves(r, NoCall)
      BY <1>3, IdleSlot, GoMoves
    <2>2. Forgets(r) \in SUBSET Users
      BY ForgetsUsers
    <2>3. /\ noted' \in Seen /\ noted'.mixed = noted.mixed /\ noted'.excused
          /\ noted'.stale = noted.stale \cup Forgets(r)
      BY <1>3, <2>2 DEF AccessShape, Seen
    <2>4. ASSUME NEW u \in Users, NEW q \in Calls, Owing(q, u)
          PROVE  u \in noted'.stale \/ Owing(q, u)'
      <3>1. CASE q = r
        BY <2>3, <2>4, <3>1, ForgottenStale
      <3>2. CASE q # r
        BY <1>1, <2>1, <2>4, <3>2, OthersOwe DEF CallMoves
      <3> QED
        BY <3>1, <3>2
    <2>5. /\ call' \in [Calls -> Slot]
          /\ \A q \in Calls : call'[q].op = "save" => \E p \in Calls : call'[q] = call[p]
      BY <2>1, IdleSlot DEF CallMoves
    <2> QED
      BY <1>1, <2>3, <2>4, <2>5, LiveAgain
  <1>4. CASE call' = [call EXCEPT ![r] = left] /\ noted' = [noted EXCEPT !.excused = TRUE]
    <2>1. CallMoves(r, left)
      BY <1>2, <1>4, GoMoves
    <2>2. noted' \in Seen /\ noted'.mixed = noted.mixed /\ noted'.excused /\ noted'.stale = noted.stale
      BY <1>4 DEF AccessShape, Seen
    <2>3. ASSUME NEW u \in Users, NEW q \in Calls, Owing(q, u)
          PROVE  Owing(q, u)'
      <3>1. CASE q = r
        BY <1>2, <2>1, <2>3, <3>1 DEF Owing, CallMoves
      <3>2. CASE q # r
        BY <1>1, <2>1, <2>3, <3>2, OthersOwe DEF CallMoves
      <3> QED
        BY <3>1, <3>2
    <2>4. /\ call' \in [Calls -> Slot]
          /\ \A q \in Calls : call'[q].op = "save" => \E p \in Calls : call'[q] = call[p]
      BY <1>2, <2>1 DEF CallMoves
    <2> QED
      BY <1>1, <2>2, <2>3, <2>4, LiveAgain
  <1> QED
    BY <1>3, <1>4 DEF RevokeFails, EndCall, GoTo, left

\* A call sent again sweeps again, whether or not the first is still served.
LEMMA RevokeRetriedKeeps ==
    ASSUME AccessIInv, NEW r \in Calls, RevokeRetried(r)
    PROVE  AccessIInv'
  <1> USE DEF AccessIInv
  <1> DEFINE left == [call[r] EXCEPT !.called = FALSE]
  <1>1. AwaitedByOrg(r) /\ UNCHANGED <<member, perms, cache, org>>
    BY DEF RevokeRetried
  <1>2. left \in Slot /\ left.op = call[r].op /\ left.users = call[r].users
        /\ call[r].op \in {"sweep", "drop"}
    BY <1>1, AwaitedRow
  <1>3. SweepOf(TRUE) \in Slot /\ SweepOf(TRUE).op = "sweep" /\ Members' = Members
    BY <1>1, SweepSlot DEF Members
  <1>4. ~(org = "live" /\ ~noted.excused)
    BY <1>1 DEF SweepsExcused, FromRemoval, AwaitedByOrg
  <1>5. org' \in {"live", "deleted"}
    BY <1>1 DEF AccessShape
  <1> HIDE DEF left
  <1>6. CASE /\ call' = [call EXCEPT ![r] = SweepOf(TRUE)]
             /\ noted' = [noted EXCEPT !.stale = @ \cup Forgets(r)]
    <2>1. CallMoves(r, SweepOf(TRUE))
      BY <1>3, <1>6, GoMoves
    <2>2. Forgets(r) \in SUBSET Users
      BY ForgetsUsers
    <2>3. /\ noted' \in Seen /\ noted'.mixed = noted.mixed /\ noted'.excused = noted.excused
          /\ noted'.stale = noted.stale \cup Forgets(r)
      BY <1>6, <2>2 DEF AccessShape, Seen
    <2>4. ASSUME NEW u \in Users, NEW q \in Calls, Owing(q, u)
          PROVE  u \in noted'.stale \/ Owing(q, u)'
      <3>1. CASE q = r
        BY <2>3, <2>4, <3>1, ForgottenStale
      <3>2. CASE q # r
        BY <1>1, <2>1, <2>4, <3>2, OthersOwe DEF CallMoves
      <3> QED
        BY <3>1, <3>2
    <2>5. /\ call' \in [Calls -> Slot] /\ call'[r].op = "sweep"
          /\ \A q \in Calls : call'[q].op = "save" => \E p \in Calls : call'[q] = call[p]
      BY <1>3, <2>1 DEF CallMoves
    <2>6. SweepsExcused' /\ SweepsPending'
      BY <1>1, <1>4, <2>3, <2>5 DEF SweepsExcused, SweepsPending
    <2> QED
      BY <1>1, <1>5, <2>3, <2>4, <2>5, <2>6, RequestsMove
  <1>7. ASSUME NEW q \in Calls, call[q] = NoCall, UNCHANGED noted,
               call' = [call EXCEPT ![q] = left, ![r] = SweepOf(TRUE)]
        PROVE  AccessIInv'
    <2>1. q # r
      BY <1>2, <1>7, IdleSlot
    <2>2. /\ call' \in [Calls -> Slot] /\ call'[r] = SweepOf(TRUE) /\ call'[q] = left
          /\ \A p \in Calls : p # r /\ p # q => call'[p] = call[p]
      BY <1>2, <1>3, <1>7, <2>1 DEF AccessShape
    <2>3. ASSUME NEW u \in Users, NEW p \in Calls, Owing(p, u)
          PROVE  \E o \in Calls : Owing(o, u)'
      <3>1. CASE p = r
        <4>1. call[r].op = "drop" /\ u \in call[r].users
          BY <1>2, <2>3, <3>1 DEF Owing
        <4>2. Owing(q, u)'
          BY <1>2, <2>2, <4>1 DEF Owing
        <4> QED
          BY <4>2
      <3>2. CASE p # r
        <4>1. p # q
          BY <1>7, <2>3, IdleSlot DEF Owing
        <4>2. Owing(p, u)'
          BY <1>1, <2>2, <2>3, <3>2, <4>1, OthersOwe
        <4> QED
          BY <4>2
      <3> QED
        BY <3>1, <3>2
    <2>4. \A p \in Calls : call'[p].op = "save" => \E o \in Calls : call'[p] = call[o]
      BY <1>2, <1>3, <2>2
    <2>5. SweepsExcused' /\ SweepsPending'
      BY <1>1, <1>3, <1>4, <1>7, <2>2 DEF SweepsExcused, SweepsPending
    <2>6. noted' \in Seen /\ noted'.mixed = noted.mixed /\ noted'.stale = noted.stale
      BY <1>7 DEF AccessShape
    <2> QED
      BY <1>1, <1>5, <2>2, <2>3, <2>4, <2>5, <2>6, RequestsMove
  <1>8. \/ /\ call' = [call EXCEPT ![r] = SweepOf(TRUE)]
           /\ noted' = [noted EXCEPT !.stale = @ \cup Forgets(r)]
        \/ \E q \in Calls :
             /\ call[q] = NoCall /\ UNCHANGED noted
             /\ call' = [call EXCEPT ![q] = left, ![r] = SweepOf(TRUE)]
    BY DEF RevokeRetried, GoTo, left
  <1> QED
    BY <1>6, <1>7, <1>8

-----------------------------------------------------------------------------
(* The invariant *)

LEMMA InitAccess == AccessInit => AccessIInv
  <1> SUFFICES ASSUME AccessInit PROVE AccessIInv
    OBVIOUS
  <1>1. AccessShape /\ HeldExist /\ EnteringAreMembers
    BY InitAccessShape
  <1>2. \A r \in Calls : call[r].op = "idle"
    BY IdleSlot DEF AccessInit
  <1>3. ~noted.swept /\ org = "live" /\ \A u \in Users : cache[u] = <<>>
    BY DEF AccessInit
  <1>4. RoleUsable
    BY DEF AccessInit, RoleUsable, Permissions, Exists
  <1>5. SavesUsable
    BY <1>2 DEF SavesUsable
  <1>6. AllAnswered
    BY <1>3 DEF AllAnswered, Answered
  <1>7. SweepsExcused /\ SweepsPending
    BY <1>2, <1>3 DEF SweepsExcused, SweepsPending, FromRemoval
  <1> QED
    BY <1>1, <1>4, <1>5, <1>6, <1>7 DEF AccessIInv

LEMMA StutterAccess == AccessIInv /\ UNCHANGED accessVars => AccessIInv'
  <1> SUFFICES ASSUME AccessIInv, UNCHANGED accessVars PROVE AccessIInv'
    OBVIOUS
  <1> USE DEF AccessIInv, accessVars
  <1>1. AccessShape'
    BY DEF AccessShape
  <1>2. HeldExist' /\ EnteringAreMembers' /\ RoleUsable'
    BY RowsStay
  <1>3. SavesUsable'
    BY DEF SavesUsable
  <1>4. AllAnswered'
    BY DEF AllAnswered, Answered, Effective, Held, Owing, Holders
  <1>5. SweepsExcused' /\ SweepsPending'
    BY DEF SweepsExcused, SweepsPending, Members
  <1> QED
    BY <1>1, <1>2, <1>3, <1>4, <1>5

LEMMA StepAccess ==
    ASSUME NoRole \notin Roles, AccessIInv, [AccessNext]_accessVars
    PROVE  AccessIInv'
  <1> USE DEF AccessIInv
  <1>1. ASSUME NEW r \in Calls, NEW u \in Users,
               GuardMiss(r, u) \/ RemoveFromOrg(r, u) \/ Drop(r, u)
        PROVE  AccessIInv'
    BY <1>1, GuardMissReads, ReadsKeep, RemoveFromOrgKeeps, DropKeeps
  <1>2. ASSUME NEW r \in Calls, NEW u \in Users, NEW role \in Roles \cup {NoRole},
               AssignFind(r, u, role) \/ RemoveRole(r, u, role)
        PROVE  AccessIInv'
    BY <1>2, AssignFindReads, ReadsKeep, RemoveRoleKeeps
  <1>3. ASSUME NEW r \in Calls, NEW role \in Roles, NEW set \in Permissions,
               RoleCreate(r, role, set)
        PROVE  AccessIInv'
    BY <1>3, RoleCreateKeeps
  <1>4. ASSUME NEW r \in Calls, NEW role \in Roles,
               \/ \E set \in Permissions : AssignPermissions(r, role, set)
               \/ \E p \in perms[role] : RemovePermission(r, role, p)
               \/ RoleUpdate(r, role)
        PROVE  AccessIInv'
    BY <1>4, RoleEditsRead, ReadsKeep
  <1>5. ASSUME NEW r \in Calls, NEW role \in Roles, RoleRemoveCount(r, role)
        PROVE  AccessIInv'
    BY <1>5, RoleRemoveCountReads, ReadsKeep
  <1>6. ASSUME NEW r \in Calls,
               GuardFind(r) \/ DropDone(r) \/ SaveLoad(r) \/ Tell(r) \/ SweepList(r) \/ OrgUpdateFind(r)
        PROVE  AccessIInv'
    BY <1>6, GuardFindReads, DropDoneReads, SaveLoadReads, TellReads, SweepListReads,
       OrgUpdateFindReads, ReadsKeep
  <1>7. ASSUME NEW r \in Calls,
               GuardSet(r) \/ AssignWrite(r) \/ SaveWrite(r) \/ RoleRemoveWrite(r) \/ Sweep(r)
        PROVE  AccessIInv'
    BY <1>7, GuardSetKeeps, AssignWriteKeeps, SaveWriteKeeps, RoleRemoveWriteKeeps, SweepKeeps
  <1>8. ASSUME NEW r \in Calls,
               OrgRemove(r) \/ OrgRestore(r) \/ OrgUpdateSave(r)
        PROVE  AccessIInv'
    BY <1>8, OrgRemoveKeeps, OrgRestoreKeeps, OrgUpdateSaveKeeps
  <1>9. ASSUME NEW r \in Calls,
               CallDies(r) \/ RevokeFails(r) \/ RevokeRetried(r)
        PROVE  AccessIInv'
    BY <1>9, DieKeeps, RevokeFailsKeeps, RevokeRetriedKeeps
  <1>10. ASSUME NEW u \in Users, CacheExpires(u) PROVE AccessIInv'
    BY <1>10, CacheExpiresKeeps
  <1>11. CASE UNCHANGED accessVars
    BY <1>11, StutterAccess
  <1> QED
    BY <1>1, <1>2, <1>3, <1>4, <1>5, <1>6, <1>7, <1>8, <1>9, <1>10, <1>11 DEF AccessNext

\* Every change of a membership or a role is answered for by a request that
\* will still drop the entries it made wrong, or by what excuses it, and every
\* deleted organization by a sweep, after every step of user-service and
\* org-service and every failure between them.
THEOREM AccessInvariant ==
    AccessSpec => []AccessIInv
  <1>1. AccessInit => AccessIInv
    BY InitAccess
  <1>2. AccessIInv /\ [AccessNext]_accessVars => AccessIInv'
    BY StepAccess, AccessAssumption
  <1> QED
    BY <1>1, <1>2, PTL DEF AccessSpec

\* Every row, cache entry and request keeps its type, and a membership never has
\* a role that does not exist: the foreign key is checked where the row is written.
THEOREM AccessTypeCorrect == AccessSpec => []AccessTypeOK
  <1>1. AccessIInv => AccessTypeOK
    <2> SUFFICES ASSUME AccessIInv PROVE AccessTypeOK
      OBVIOUS
    <2>1. /\ member \in [Users -> Member \cup {NoMember}]
          /\ perms \in [Roles -> (SUBSET {"read", "write"}) \cup {NoSuch}]
          /\ org \in {"live", "deleted"}
      BY DEF AccessIInv, AccessShape, RW
    <2>2. \A u \in Users : cache[u] # <<>> => cache[u] \in {<<set>> : set \in SUBSET {"read", "write"}}
      BY DEF AccessIInv, AccessShape, RW
    <2>3. \A u \in Users : Held(u) # NoRole => Exists(Held(u))
      BY DEF AccessIInv, HeldExist
    <2> QED
      BY <2>1, <2>2, <2>3 DEF AccessTypeOK
  <1> QED
    BY <1>1, AccessInvariant, PTL

LEMMA QuietOwesNothing ==
    ASSUME AtRest
    PROVE  \A r \in Calls : call[r].op = "idle" /\ \A u \in Users : ~Owing(r, u)
    BY IdleSlot DEF AtRest, Owing

\* At rest, the cached permissions of a user are the effective ones, unless the
\* guard cached what it had read before a change, an invalidation was lost, or
\* a save told nobody of what it changed.
THEOREM StaleCacheExplainedCorrect == AccessSpec => []StaleCacheExplained
  <1>1. AccessIInv => StaleCacheExplained
    BY QuietOwesNothing DEF AccessIInv, AllAnswered, Answered, StaleCacheExplained
  <1> QED
    BY <1>1, AccessInvariant, PTL

\* A removal never leaves a live organization without the members it swept,
\* unless it was restored, an update saved the row back, or revokeOrgAccess
\* failed after the sweep.
THEOREM SweptMeansDeletedCorrect == AccessSpec => []SweptMeansDeleted
  <1>1. AccessIInv => SweptMeansDeleted
    BY DEF AccessIInv, SweepsExcused, SweptMeansDeleted
  <1> QED
    BY <1>1, AccessInvariant, PTL

\* At rest, a deleted organization has no members, unless the sweep died or
\* assignOrg let somebody in after it.
THEOREM DeletedHasNoMembersCorrect == AccessSpec => []DeletedHasNoMembers
  <1>1. AccessIInv => DeletedHasNoMembers
    BY QuietOwesNothing DEF AccessIInv, SweepsPending, DeletedHasNoMembers
  <1> QED
    BY <1>1, AccessInvariant, PTL

\* Every role that grants an action grants READ, unless two saves of it
\* interleaved: validatePermissionSet sees only the set one of them writes.
THEOREM RoleUsableCorrect == AccessSpec => []RoleUsable
  <1>1. AccessIInv => RoleUsable
    BY DEF AccessIInv
  <1> QED
    BY <1>1, AccessInvariant, PTL

\* Whoever getCompanies lets in is among those the deactivation signs out and the
\* removal sweeps, although the one goes by role_id, the others by removed_at.
THEOREM EnteringAreMembersCorrect == AccessSpec => []EnteringAreMembers
  <1>1. AccessIInv => EnteringAreMembers
    BY DEF AccessIInv
  <1> QED
    BY <1>1, AccessInvariant, PTL

-----------------------------------------------------------------------------
(* The migrations of roles and permissions: RoleMigrations *)

Labels == {"DOCUMENTS", "WORKFLOWS", "USERS", "ORGS", "ROLES", "AUDIT", "PLATFORM",
           "ORG_STRUCTURE"}

Verbs == {"READ", "WRITE", "DELETE", "APPROVE", "UPLOAD", "DOWNLOAD", "MANAGE"}

Permission == Labels \X Verbs

Role == SystemRoles \cup {Custom}

Backup == (Role \cup {None}) \X Permission

Database ==
    [labels : SUBSET Labels, permissions : SUBSET Permission, roles : SUBSET Role,
     links : SUBSET Backup, held : SUBSET Role, backup : SUBSET Backup,
     backupAgain : SUBSET Backup, ok : BOOLEAN]

\* The keys hold as long as no statement failed.
Sound(d) ==
    /\ d \in Database
    /\ d.ok => /\ d.links \subseteq d.roles \X d.permissions
               /\ d.held \subseteq d.roles
               /\ Modules(d.permissions) \subseteq d.labels

SameBackups(d, e) == e.backup = d.backup /\ e.backupAgain = d.backupAgain

-----------------------------------------------------------------------------
(* What the statements do *)

PermissionsInserted(d, ps, e) ==
    /\ Sound(e) /\ SameBackups(d, e)
    /\ e.labels = d.labels /\ e.roles = d.roles /\ e.held = d.held /\ e.links = d.links
    /\ e.permissions = d.permissions \cup ps
    /\ e.ok <=> d.ok /\ Modules(ps) \subseteq d.labels

LEMMA InsertPermissionsIs ==
    ASSUME NEW d, Sound(d), NEW ps \in SUBSET Permission,
           NEW e, e = InsertPermissions(d, ps)
    PROVE  PermissionsInserted(d, ps, e)
  <1>1. /\ e \in Database /\ SameBackups(d, e)
        /\ e.labels = d.labels /\ e.roles = d.roles /\ e.held = d.held /\ e.links = d.links
        /\ e.permissions = d.permissions \cup ps
    BY DEF Sound, Database, InsertPermissions, SameBackups
  <1>2. e.ok <=> d.ok /\ Modules(ps) \subseteq d.labels
    BY DEF Sound, Database, InsertPermissions
  <1>3. ASSUME e.ok PROVE Modules(e.permissions) \subseteq e.labels
    BY <1>1, <1>2, <1>3 DEF Sound, Modules
  <1>4. e.ok => /\ e.links \subseteq e.roles \X e.permissions
                /\ e.held \subseteq e.roles
    BY <1>1, <1>2 DEF Sound
  <1>5. Sound(e)
    BY <1>1, <1>3, <1>4 DEF Sound
  <1> QED
    BY <1>1, <1>2, <1>5 DEF PermissionsInserted

PermissionsDeleted(d, ps, e) ==
    /\ Sound(e) /\ SameBackups(d, e)
    /\ e.labels = d.labels /\ e.roles = d.roles /\ e.held = d.held
    /\ e.permissions = d.permissions \ ps
    /\ e.links = {l \in d.links : l[2] \notin ps}
    /\ \A r, p : <<r, p>> \in e.links <=> <<r, p>> \in d.links /\ p \notin ps
    /\ e.ok <=> d.ok

LEMMA DeletePermissionsIs ==
    ASSUME NEW d, Sound(d), NEW ps, NEW e, e = DeletePermissions(d, ps)
    PROVE  PermissionsDeleted(d, ps, e)
  <1>1. /\ e \in Database /\ SameBackups(d, e)
        /\ e.labels = d.labels /\ e.roles = d.roles /\ e.held = d.held
        /\ e.permissions = d.permissions \ ps
        /\ e.links = {l \in d.links : l[2] \notin ps}
        /\ e.ok = d.ok
    BY DEF Sound, Database, DeletePermissions, SameBackups
  <1>2. \A r, p : <<r, p>> \in e.links <=> <<r, p>> \in d.links /\ p \notin ps
    BY <1>1
  <1>3. ASSUME e.ok
        PROVE  e.links \subseteq e.roles \X e.permissions /\ Modules(e.permissions) \subseteq e.labels
    BY <1>1, <1>3 DEF Sound, Modules
  <1> QED
    BY <1>1, <1>2, <1>3 DEF PermissionsDeleted, Sound

Granted(d, rs, ps, e) ==
    /\ Sound(e) /\ SameBackups(d, e)
    /\ e.labels = d.labels /\ e.roles = d.roles /\ e.held = d.held
    /\ e.permissions = d.permissions
    /\ \A r, p : <<r, p>> \in e.links <=>
         \/ <<r, p>> \in d.links
         \/ r \in rs /\ r \in d.roles /\ p \in ps /\ p \in d.permissions
    /\ e.ok <=> d.ok

LEMMA GrantIs ==
    ASSUME NEW d, Sound(d), NEW rs, NEW ps, NEW e, e = Grant(d, rs, ps)
    PROVE  Granted(d, rs, ps, e)
  <1>1. (rs \cap d.roles) \X (ps \cap d.permissions) \subseteq Backup
    BY DEF Sound, Database, Backup
  <1>2. /\ e \in Database /\ SameBackups(d, e)
        /\ e.labels = d.labels /\ e.roles = d.roles /\ e.held = d.held
        /\ e.permissions = d.permissions
        /\ e.links = d.links \cup ((rs \cap d.roles) \X (ps \cap d.permissions))
        /\ e.ok = d.ok
    BY <1>1 DEF Sound, Database, Grant, SameBackups
  <1>3. \A r, p : <<r, p>> \in e.links <=>
           \/ <<r, p>> \in d.links
           \/ r \in rs /\ r \in d.roles /\ p \in ps /\ p \in d.permissions
    BY <1>2
  <1>4. ASSUME e.ok PROVE e.links \subseteq e.roles \X e.permissions
    BY <1>2, <1>4 DEF Sound
  <1> QED
    BY <1>2, <1>3, <1>4 DEF Granted, Sound

LinksDeleted(d, rs, ps, e) ==
    /\ Sound(e) /\ SameBackups(d, e)
    /\ e.labels = d.labels /\ e.roles = d.roles /\ e.held = d.held
    /\ e.permissions = d.permissions
    /\ e.links = d.links \ (rs \X ps)
    /\ \A r, p : <<r, p>> \in e.links <=> <<r, p>> \in d.links /\ ~(r \in rs /\ p \in ps)
    /\ e.ok <=> d.ok

LEMMA DeleteLinksIs ==
    ASSUME NEW d, Sound(d), NEW rs, NEW ps, NEW e, e = DeleteLinks(d, rs, ps)
    PROVE  LinksDeleted(d, rs, ps, e)
  <1>1. /\ e \in Database /\ SameBackups(d, e)
        /\ e.labels = d.labels /\ e.roles = d.roles /\ e.held = d.held
        /\ e.permissions = d.permissions
        /\ e.links = d.links \ (rs \X ps)
        /\ e.ok = d.ok
    BY DEF Sound, Database, DeleteLinks, SameBackups
  <1>2. \A r, p : <<r, p>> \in e.links <=> <<r, p>> \in d.links /\ ~(r \in rs /\ p \in ps)
    BY <1>1
  <1> QED
    BY <1>1, <1>2 DEF LinksDeleted, Sound

RolesInserted(d, rs, e) ==
    /\ Sound(e) /\ SameBackups(d, e)
    /\ e.labels = d.labels /\ e.held = d.held /\ e.links = d.links
    /\ e.permissions = d.permissions
    /\ e.roles = d.roles \cup rs
    /\ e.ok <=> d.ok

LEMMA InsertRolesIs ==
    ASSUME NEW d, Sound(d), NEW rs \in SUBSET Role, NEW e, e = InsertRoles(d, rs)
    PROVE  RolesInserted(d, rs, e)
  <1>1. /\ e \in Database /\ SameBackups(d, e)
        /\ e.labels = d.labels /\ e.held = d.held /\ e.links = d.links
        /\ e.permissions = d.permissions
        /\ e.roles = d.roles \cup rs
        /\ e.ok = d.ok
    BY DEF Sound, Database, InsertRoles, SameBackups
  <1>2. ASSUME e.ok PROVE e.links \subseteq e.roles \X e.permissions /\ e.held \subseteq e.roles
    BY <1>1, <1>2 DEF Sound
  <1> QED
    BY <1>1, <1>2 DEF RolesInserted, Sound

Retyped(d, labels, e) ==
    /\ Sound(e) /\ SameBackups(d, e)
    /\ e.labels = labels /\ e.roles = d.roles /\ e.held = d.held /\ e.links = d.links
    /\ e.permissions = d.permissions
    /\ e.ok <=> d.ok /\ Modules(d.permissions) \subseteq labels

LEMMA RetypeIs ==
    ASSUME NEW d, Sound(d), NEW labels \in SUBSET Labels, NEW e, e = Retype(d, labels)
    PROVE  Retyped(d, labels, e)
  <1>1. /\ e \in Database /\ SameBackups(d, e)
        /\ e.labels = labels /\ e.roles = d.roles /\ e.held = d.held /\ e.links = d.links
        /\ e.permissions = d.permissions
    BY DEF Sound, Database, Retype, SameBackups
  <1>2. e.ok <=> d.ok /\ Modules(d.permissions) \subseteq labels
    BY DEF Sound, Database, Retype
  <1> QED
    BY <1>1, <1>2 DEF Retyped, Sound

Lost(rs, kept) == {IF l[1] \in rs THEN <<None, l[2]>> ELSE l : l \in kept}

LEMMA LostIs ==
    ASSUME NEW kept \in SUBSET Backup, NEW rs
    PROVE  /\ Lost(rs, kept) \in SUBSET Backup
           /\ \A l \in Lost(rs, kept) : \E k \in kept : l[2] = k[2]
           /\ kept = {} => Lost(rs, kept) = {}
           /\ (\A l \in kept : l[1] \notin rs) => Lost(rs, kept) = kept
  <1>1. ASSUME NEW l \in kept
        PROVE  (IF l[1] \in rs THEN <<None, l[2]>> ELSE l) \in Backup
    BY DEF Backup
  <1>2. \A l \in Lost(rs, kept) : \E k \in kept : l[2] = k[2]
    BY DEF Lost
  <1>3. ASSUME \A l \in kept : l[1] \notin rs PROVE Lost(rs, kept) = kept
    BY <1>3 DEF Lost
  <1> QED
    BY <1>1, <1>2, <1>3 DEF Lost

RolesDeleted(d, rs, e) ==
    /\ Sound(e)
    /\ e.labels = d.labels /\ e.held = d.held /\ e.permissions = d.permissions
    /\ e.roles = d.roles \ rs
    /\ e.links = {l \in d.links : l[1] \notin rs}
    /\ \A r, p : <<r, p>> \in e.links <=> <<r, p>> \in d.links /\ r \notin rs
    /\ e.backup = Lost(rs, d.backup) /\ e.backupAgain = Lost(rs, d.backupAgain)
    /\ e.ok <=> d.ok /\ d.held \cap rs = {}

LEMMA DeleteRolesIs ==
    ASSUME NEW d, Sound(d), NEW rs, NEW e, e = DeleteRoles(d, rs)
    PROVE  RolesDeleted(d, rs, e)
  <1>1. d.backup \in SUBSET Backup /\ d.backupAgain \in SUBSET Backup
    BY DEF Sound, Database
  <1>2. Lost(rs, d.backup) \in SUBSET Backup /\ Lost(rs, d.backupAgain) \in SUBSET Backup
    BY <1>1, LostIs
  <1>3. e = [d EXCEPT !.roles = d.roles \ rs,
                      !.links = {l \in d.links : l[1] \notin rs},
                      !.backup = Lost(rs, d.backup), !.backupAgain = Lost(rs, d.backupAgain),
                      !.ok = d.ok /\ d.held \cap rs = {}]
    BY DEF DeleteRoles, Lost
  <1>4. /\ e \in Database
        /\ e.labels = d.labels /\ e.held = d.held /\ e.permissions = d.permissions
        /\ e.roles = d.roles \ rs
        /\ e.links = {l \in d.links : l[1] \notin rs}
        /\ e.backup = Lost(rs, d.backup) /\ e.backupAgain = Lost(rs, d.backupAgain)
    <2>1. d \in Database /\ {l \in d.links : l[1] \notin rs} \in SUBSET Backup
      BY DEF Sound, Database
    <2>2. d.roles \ rs \in SUBSET Role /\ (d.ok /\ d.held \cap rs = {}) \in BOOLEAN
      BY DEF Sound, Database
    <2>3. e \in Database
      BY <1>2, <1>3, <2>1, <2>2 DEF Database
    <2> QED
      BY <1>3, <2>1, <2>3 DEF Database
  <1>5. e.ok <=> d.ok /\ d.held \cap rs = {}
    BY <1>3 DEF Sound, Database
  <1>6. \A r, p : <<r, p>> \in e.links <=> <<r, p>> \in d.links /\ r \notin rs
    BY <1>4
  <1>7. ASSUME e.ok PROVE e.links \subseteq e.roles \X e.permissions /\ e.held \subseteq e.roles
    BY <1>4, <1>5, <1>7 DEF Sound
  <1> QED
    BY <1>4, <1>5, <1>6, <1>7 DEF RolesDeleted, Sound

Restored(d, kept, e) ==
    /\ Sound(e) /\ SameBackups(d, e)
    /\ e.labels = d.labels /\ e.roles = d.roles /\ e.held = d.held
    /\ e.permissions = d.permissions
    /\ e.links = d.links \cup {l \in kept : l[2] \in d.permissions}
    /\ e.ok <=> d.ok /\ \A l \in kept : l[2] \in d.permissions => l[1] \in d.roles

LEMMA RestoreIs ==
    ASSUME NEW d, Sound(d), NEW kept \in SUBSET Backup, NEW e, e = Restore(d, kept)
    PROVE  Restored(d, kept, e)
  <1>1. /\ e \in Database /\ SameBackups(d, e)
        /\ e.labels = d.labels /\ e.roles = d.roles /\ e.held = d.held
        /\ e.permissions = d.permissions
        /\ e.links = d.links \cup {l \in kept : l[2] \in d.permissions}
    BY DEF Sound, Database, Restore, SameBackups
  <1>2. e.ok <=> d.ok /\ \A l \in kept : l[2] \in d.permissions => l[1] \in d.roles
    BY DEF Sound, Database, Restore
  <1>3. ASSUME e.ok PROVE e.links \subseteq e.roles \X e.permissions
    BY <1>1, <1>2, <1>3 DEF Sound, Backup
  <1> QED
    BY <1>1, <1>2, <1>3 DEF Restored, Sound

\* ALTER TYPE RENAME VALUE: every permission of the one module is one of the
\* other, with its links.
ModuleRenamed(d, from, to, e) ==
    /\ Sound(e) /\ SameBackups(d, e) /\ e.ok
    /\ e.labels = (d.labels \ {from}) \cup {to}
    /\ e.roles = d.roles /\ e.held = d.held
    /\ \A m, v : <<m, v>> \in e.permissions <=>
         \/ m # from /\ <<m, v>> \in d.permissions
         \/ m = to /\ <<from, v>> \in d.permissions
    /\ \A r, m, v : <<r, <<m, v>>>> \in e.links <=>
         \/ m # from /\ <<r, <<m, v>>>> \in d.links
         \/ m = to /\ <<r, <<from, v>>>> \in d.links

LEMMA RenamedIs ==
    ASSUME NEW d, Sound(d), d.ok, NEW from \in Labels, NEW to \in Labels, from # to,
           from \in d.labels, to \notin d.labels, NEW e, e = Renamed(d, from, to)
    PROVE  ModuleRenamed(d, from, to, e)
  <1> DEFINE New(p) == IF p[1] = from THEN <<to, p[2]>> ELSE p
  <1>1. /\ d.permissions \subseteq Permission /\ d.links \subseteq Backup /\ d \in Database
        /\ d.links \subseteq d.roles \X d.permissions /\ d.held \subseteq d.roles
        /\ Modules(d.permissions) \subseteq d.labels
    BY DEF Sound, Database
  <1>2. \A p \in Permission : New(p) \in Permission
    BY DEF Permission
  <1>3. \A l \in Backup : <<l[1], New(l[2])>> \in Backup
    BY <1>2 DEF Backup
  <1>4. {New(p) : p \in d.permissions} \subseteq Permission
    BY <1>1, <1>2
  <1>5. {<<l[1], New(l[2])>> : l \in d.links} \subseteq Backup
    BY <1>1, <1>3
  <1>6. e = [d EXCEPT !.labels = (d.labels \ {from}) \cup {to},
                      !.permissions = {New(p) : p \in d.permissions},
                      !.links = {<<l[1], New(l[2])>> : l \in d.links},
                      !.ok = d.ok /\ from \in d.labels /\ to \notin d.labels]
    BY DEF Renamed
  <1>7. /\ e \in Database /\ SameBackups(d, e) /\ e.ok
        /\ e.labels = (d.labels \ {from}) \cup {to}
        /\ e.roles = d.roles /\ e.held = d.held
        /\ e.permissions = {New(p) : p \in d.permissions}
        /\ e.links = {<<l[1], New(l[2])>> : l \in d.links}
    <2> DEFINE ls == (d.labels \ {from}) \cup {to}
               ps == {New(p) : p \in d.permissions}
               ks == {<<l[1], New(l[2])>> : l \in d.links}
    <2>1. ls \in SUBSET Labels
      BY <1>1 DEF Database
    <2>2. ps \in SUBSET Permission /\ ks \in SUBSET Backup
      BY <1>4, <1>5
    <2>3. e = [d EXCEPT !.labels = ls, !.permissions = ps, !.links = ks, !.ok = TRUE]
      BY <1>6
    <2> HIDE DEF ls, ps, ks, New
    <2>4. e \in Database
      BY <1>1, <2>1, <2>2, <2>3 DEF Database
    <2>5. /\ SameBackups(d, e) /\ e.ok
          /\ e.labels = ls /\ e.roles = d.roles /\ e.held = d.held
          /\ e.permissions = ps /\ e.links = ks
      BY <1>1, <2>3 DEF Database, SameBackups
    <2> QED
      BY <2>4, <2>5 DEF ls, ps, ks
  <1>8. ASSUME NEW m, NEW v
        PROVE  <<m, v>> \in e.permissions <=> \/ m # from /\ <<m, v>> \in d.permissions
                                              \/ m = to /\ <<from, v>> \in d.permissions
    <2>1. ASSUME <<m, v>> \in e.permissions
          PROVE  \/ m # from /\ <<m, v>> \in d.permissions
                 \/ m = to /\ <<from, v>> \in d.permissions
      <3>1. PICK p \in d.permissions : <<m, v>> = New(p)
        BY <1>7, <2>1
      <3>2. p = <<p[1], p[2]>>
        BY <1>1 DEF Permission
      <3> QED
        BY <3>1, <3>2
    <2>2. ASSUME m # from, <<m, v>> \in d.permissions PROVE <<m, v>> \in e.permissions
      <3>1. New(<<m, v>>) = <<m, v>>
        BY <2>2
      <3> QED
        BY <1>7, <2>2, <3>1
    <2>3. ASSUME m = to, <<from, v>> \in d.permissions PROVE <<m, v>> \in e.permissions
      <3>1. New(<<from, v>>) = <<m, v>>
        BY <2>3
      <3> QED
        BY <1>7, <2>3, <3>1
    <2> QED
      BY <2>1, <2>2, <2>3
  <1>9. ASSUME NEW r, NEW m, NEW v
        PROVE  <<r, <<m, v>>>> \in e.links <=> \/ m # from /\ <<r, <<m, v>>>> \in d.links
                                               \/ m = to /\ <<r, <<from, v>>>> \in d.links
    <2>1. ASSUME <<r, <<m, v>>>> \in e.links
          PROVE  \/ m # from /\ <<r, <<m, v>>>> \in d.links
                 \/ m = to /\ <<r, <<from, v>>>> \in d.links
      <3>1. PICK l \in d.links : <<r, <<m, v>>>> = <<l[1], New(l[2])>>
        BY <1>7, <2>1
      <3>2. l = <<l[1], l[2]>> /\ l[2] = <<l[2][1], l[2][2]>>
        BY <1>1 DEF Backup, Permission
      <3>3. r = l[1] /\ <<m, v>> = New(l[2])
        BY <3>1
      <3>4. CASE l[2][1] = from
        <4>1. <<m, v>> = <<to, l[2][2]>>
          BY <3>3, <3>4
        <4> QED
          BY <3>2, <3>3, <3>4, <4>1
      <3>5. CASE l[2][1] # from
        <4>1. <<m, v>> = l[2]
          BY <3>3, <3>5
        <4> QED
          BY <3>2, <3>3, <3>5, <4>1
      <3> QED
        BY <3>4, <3>5
    <2>2. ASSUME m # from, <<r, <<m, v>>>> \in d.links PROVE <<r, <<m, v>>>> \in e.links
      <3> DEFINE l == <<r, <<m, v>>>>
      <3>1. <<l[1], New(l[2])>> = l
        BY <2>2
      <3> HIDE DEF New
      <3> QED
        BY <1>7, <2>2, <3>1
    <2>3. ASSUME m = to, <<r, <<from, v>>>> \in d.links PROVE <<r, <<m, v>>>> \in e.links
      <3> DEFINE l == <<r, <<from, v>>>>
      <3>1. <<l[1], New(l[2])>> = <<r, <<m, v>>>>
        BY <2>3
      <3> HIDE DEF New
      <3> QED
        BY <1>7, <2>3, <3>1
    <2> QED
      BY <2>1, <2>2, <2>3
  <1>10. e.links \subseteq e.roles \X e.permissions
    <2> SUFFICES ASSUME NEW x \in e.links PROVE x \in e.roles \X e.permissions
      OBVIOUS
    <2>1. PICK l \in d.links : x = <<l[1], New(l[2])>>
      BY <1>7
    <2>2. l[1] \in d.roles /\ l[2] \in d.permissions
      BY <1>1
    <2> HIDE DEF New
    <2> QED
      BY <1>7, <2>1, <2>2
  <1>11. Modules(e.permissions) \subseteq e.labels
    <2> SUFFICES ASSUME NEW p \in d.permissions PROVE New(p)[1] \in e.labels
      BY <1>7 DEF Modules
    <2>1. p[1] \in d.labels
      BY <1>1 DEF Modules
    <2> QED
      BY <1>7, <2>1
  <1> QED
    BY <1>1, <1>7, <1>8, <1>9, <1>10, <1>11 DEF ModuleRenamed, Sound

-----------------------------------------------------------------------------
(* The database by the number of migrations applied *)

\* The roles that stay for good.
Lasting == {"ADMIN", "MANAGER", "EDITOR", "VIEWER", "AUDITOR"}

LabelsAt(n, d) ==
    /\ n >= 1 => {"DOCUMENTS", "WORKFLOWS", "USERS", "AUDIT"} \subseteq d.labels
    /\ n \in 1..11 => "ORGS" \in d.labels /\ "ROLES" \notin d.labels
    /\ n >= 12 => "ORGS" \notin d.labels /\ "ROLES" \in d.labels
    /\ n >= 4 => "ORG_STRUCTURE" \in d.labels
    /\ n \in {1, 2} => "PLATFORM" \in d.labels
    /\ n >= 10 => "PLATFORM" \notin d.labels

\* The permissions of documents, of ORGS:MANAGE and PLATFORM:MANAGE come and go.
Tracked(m, v) == <<m, v>> \notin Documents \cup OrgsManage \cup PlatformManage

Catalogued(n, m, v) ==
    \/ m = "WORKFLOWS" /\ v \in ReadWriteDelete \cup {"APPROVE"}
    \/ m = "WORKFLOWS" /\ v = "MANAGE" /\ n >= 6
    \/ m = "USERS" /\ v \in ReadWriteDelete \cup {"MANAGE"}
    \/ m = "ORGS" /\ v \in {"READ", "WRITE"} /\ n < 12
    \/ m = "ROLES" /\ v \in {"READ", "WRITE"} /\ n >= 12
    \/ m = "AUDIT" /\ v = "READ"
    \/ m = "ORG_STRUCTURE" /\ v \in ReadWriteDelete /\ n >= 5

PermissionsAt(n, d) ==
    /\ n <= 1 => d.permissions = {}
    /\ n >= 2 => \A m \in Labels, v \in Verbs :
                   Tracked(m, v) => (<<m, v>> \in d.permissions <=> Catalogued(n, m, v))
    /\ n \in 2..7 => Documents \cup OrgsManage \subseteq d.permissions
    /\ n >= 8 => <<"ORGS", "MANAGE">> \notin d.permissions
    /\ n >= 10 => <<"PLATFORM", "MANAGE">> \notin d.permissions

RolesAt(n, d) ==
    /\ n <= 1 => d.roles \cap SystemRoles = {}
    /\ n >= 2 => {"ADMIN", "MANAGER", "EDITOR", "VIEWER"} \subseteq d.roles
    /\ "AUDITOR" \in d.roles <=> n >= 9
    /\ n >= 10 => "SUPER_ADMIN" \notin d.roles

Has(n, r, m, v) ==
    /\ Catalogued(n, m, v)
    /\ \/ r = "ADMIN"
       \/ r = "MANAGER" /\ m \in {"WORKFLOWS", "ORG_STRUCTURE"}
       \/ r = "MANAGER" /\ m \in {"USERS", "AUDIT"} /\ v = "READ"
       \/ r = "EDITOR" /\ m \in {"WORKFLOWS", "ORG_STRUCTURE"} /\ v = "READ"
       \/ r = "EDITOR" /\ m = "WORKFLOWS" /\ v \in {"WRITE", "APPROVE"} /\ n >= 7
       \/ r = "EDITOR" /\ m = "USERS" /\ v = "READ" /\ n >= 11
       \/ r = "VIEWER" /\ m \in {"WORKFLOWS", "ORG_STRUCTURE"} /\ v = "READ"
       \/ r = "VIEWER" /\ m = "AUDIT" /\ v = "READ" /\ n < 9
       \/ r = "AUDITOR" /\ m = "AUDIT" /\ v = "READ" /\ n >= 9

LinksAt(n, d) ==
    /\ n >= 2 => \A r \in Lasting, m \in Labels, v \in Verbs :
                   Tracked(m, v) => (<<r, <<m, v>>>> \in d.links <=> Has(n, r, m, v))
    /\ n >= 13 => \A r \in Lasting, p \in Documents : <<r, p>> \notin d.links

BackupsAt(n, d) ==
    /\ \A l \in d.backup : l[2] \in Documents \cup OrgsManage
    /\ \A l \in d.backupAgain : l[2] \in Documents
    /\ n <= 7 => d.backup = {}

AtLevel(n, d) ==
    /\ Sound(d) /\ d.ok
    /\ n = 0 => d = Empty
    /\ LabelsAt(n, d)
    /\ PermissionsAt(n, d)
    /\ RolesAt(n, d)
    /\ LinksAt(n, d)
    /\ BackupsAt(n, d)

LEMMA PermissionSets ==
    /\ Documents \in SUBSET Permission /\ OrgsManage \in SUBSET Permission
    /\ PlatformManage \in SUBSET Permission /\ OrgStructure \in SUBSET Permission
    /\ WorkflowsManage \in SUBSET Permission /\ AuditRead \in SUBSET Permission
    /\ Seeded \in SUBSET Permission /\ DocumentsAgain \in SUBSET Permission
    /\ PERMISSIONS_CATALOG \in SUBSET Permission
    /\ Documents \cup OrgsManage \in SUBSET Permission
  BY DEF Documents, OrgsManage, PlatformManage, OrgStructure, WorkflowsManage, AuditRead,
         Seeded, DocumentsAgain, PERMISSIONS_CATALOG, Of, Read, ReadWriteDelete,
         Permission, Labels, Verbs

\* Which permissions are in the sets.
LEMMA Pairs ==
    ASSUME NEW m, NEW v
    PROVE  /\ <<m, v>> \in Documents <=>
                m = "DOCUMENTS" /\ v \in {"READ", "WRITE", "DELETE", "APPROVE", "UPLOAD", "DOWNLOAD"}
           /\ <<m, v>> \in DocumentsAgain <=>
                m = "DOCUMENTS" /\ v \in {"READ", "WRITE", "DELETE", "UPLOAD", "DOWNLOAD"}
           /\ <<m, v>> \in OrgsManage <=> m = "ORGS" /\ v = "MANAGE"
           /\ <<m, v>> \in PlatformManage <=> m = "PLATFORM" /\ v = "MANAGE"
           /\ <<m, v>> \in WorkflowsManage <=> m = "WORKFLOWS" /\ v = "MANAGE"
           /\ <<m, v>> \in OrgStructure <=> m = "ORG_STRUCTURE" /\ v \in ReadWriteDelete
           /\ <<m, v>> \in AuditRead <=> m = "AUDIT" /\ v = "READ"
           /\ <<m, v>> \in Seeded <=>
                \/ <<m, v>> \in Documents \cup OrgsManage \cup PlatformManage
                \/ Catalogued(2, m, v)
           /\ <<m, v>> \in PERMISSIONS_CATALOG <=> Catalogued(13, m, v)
  BY DEF Documents, OrgsManage, PlatformManage, OrgStructure, WorkflowsManage, AuditRead,
         Seeded, DocumentsAgain, PERMISSIONS_CATALOG, Of, Read, ReadWriteDelete, Catalogued

LEMMA InOf ==
    ASSUME NEW m, NEW v, NEW x, NEW vs
    PROVE  <<m, v>> \in Of(x, vs) <=> m = x /\ v \in vs
  BY DEF Of

LEMMA InitialSchemaUpStep ==
    ASSUME NEW e,
           e = [Empty EXCEPT !.labels =
                  {"DOCUMENTS", "WORKFLOWS", "USERS", "ORGS", "AUDIT", "PLATFORM"}]
    PROVE  AtLevel(1, e)
  <1>1. /\ Sound(e) /\ e.ok
        /\ e.labels = {"DOCUMENTS", "WORKFLOWS", "USERS", "ORGS", "AUDIT", "PLATFORM"}
        /\ e.permissions = {} /\ e.roles = {} /\ e.links = {} /\ e.backup = {}
        /\ e.backupAgain = {}
    BY DEF Empty, Sound, Database, Modules, Labels
  <1> QED
    BY <1>1 DEF AtLevel, LabelsAt, PermissionsAt, RolesAt, LinksAt, BackupsAt

LEMMA EmptyStep == AtLevel(0, Empty)
  BY DEF Empty, AtLevel, LabelsAt, PermissionsAt, RolesAt, LinksAt, BackupsAt, Sound,
         Database, Modules

LEMMA SeedUpStep ==
    ASSUME NEW d, AtLevel(1, d)
    PROVE  AtLevel(2, SeedGrants(InsertRoles(InsertPermissions(d, Seeded),
                                             SystemRoles \ {"AUDITOR"})))
  <1> DEFINE d1 == InsertPermissions(d, Seeded)
             d2 == InsertRoles(d1, SystemRoles \ {"AUDITOR"})
             d3 == Grant(d2, {"SUPER_ADMIN"}, d2.permissions)
             ps4 == d2.permissions \ PlatformManage
             d4 == Grant(d3, {"ADMIN"}, ps4)
             ps5 == {p \in d2.permissions : \/ p[1] \in {"DOCUMENTS", "WORKFLOWS"}
                                            \/ p \in Of("USERS", Read) \cup AuditRead}
             d5 == Grant(d4, {"MANAGER"}, ps5)
             ps6 == Of("DOCUMENTS", {"READ", "WRITE", "UPLOAD", "DOWNLOAD"})
                      \cup Of("WORKFLOWS", Read)
             d6 == Grant(d5, {"EDITOR"}, ps6)
             ps7 == {"DOCUMENTS", "WORKFLOWS", "AUDIT"} \X Read
             e == Grant(d6, {"VIEWER"}, ps7)
  <1>a. e = SeedGrants(InsertRoles(InsertPermissions(d, Seeded), SystemRoles \ {"AUDITOR"}))
    BY DEF SeedGrants
  <1> HIDE DEF d1, d2, d3, d4, d5, d6, e
  <1>0. Sound(d) /\ d.ok /\ d.permissions = {} /\ d.backup = {} /\ d.links = {}
    BY DEF AtLevel, PermissionsAt, BackupsAt, Sound
  <1>1. PermissionsInserted(d, Seeded, d1)
    <2>1. Seeded \in SUBSET Permission
      BY PermissionSets
    <2> QED
      BY <1>0, <2>1, InsertPermissionsIs DEF d1
  <1>2. RolesInserted(d1, SystemRoles \ {"AUDITOR"}, d2)
    <2>1. SystemRoles \ {"AUDITOR"} \in SUBSET Role
      BY DEF Role
    <2> QED
      BY <1>1, <2>1, InsertRolesIs DEF PermissionsInserted, d2
  <1>3. Granted(d2, {"SUPER_ADMIN"}, d2.permissions, d3)
    BY <1>2, GrantIs DEF RolesInserted, d3
  <1> HIDE DEF ps4, ps5, ps6, ps7
  <1>4. Granted(d3, {"ADMIN"}, ps4, d4)
    BY <1>3, GrantIs DEF Granted, d4
  <1>5. Granted(d4, {"MANAGER"}, ps5, d5)
    BY <1>4, GrantIs DEF Granted, d5
  <1>6. Granted(d5, {"EDITOR"}, ps6, d6)
    BY <1>5, GrantIs DEF Granted, d6
  <1>7. Granted(d6, {"VIEWER"}, ps7, e)
    BY <1>6, GrantIs DEF Granted, e
  <1>8. /\ e.labels = d.labels /\ e.roles = d.roles \cup (SystemRoles \ {"AUDITOR"})
        /\ e.permissions = d.permissions \cup Seeded /\ SameBackups(d, e)
    BY <1>1, <1>2, <1>3, <1>4, <1>5, <1>6, <1>7
       DEF PermissionsInserted, RolesInserted, Granted, SameBackups
  <1>9. LabelsAt(2, e) /\ RolesAt(2, e)
    BY <1>8 DEF AtLevel, LabelsAt, RolesAt, SystemRoles
  <1>10. PermissionsAt(2, e)
    <2>1. \A m, v : <<m, v>> \in e.permissions <=> <<m, v>> \in Seeded
      BY <1>0, <1>8
    <2>2. Documents \cup OrgsManage \subseteq e.permissions
      BY <1>8 DEF Seeded, OrgsManage, Of
    <2>3. \A m, v : Tracked(m, v) => (<<m, v>> \in e.permissions <=> Catalogued(2, m, v))
      BY <2>1, Pairs DEF Tracked
    <2> QED
      BY <2>2, <2>3 DEF PermissionsAt
  <1>11. LinksAt(2, e)
    <2> SUFFICES ASSUME NEW r \in Lasting, NEW m \in Labels, NEW v \in Verbs, Tracked(m, v)
                 PROVE  <<r, <<m, v>>>> \in e.links <=> Has(2, r, m, v)
      BY DEF LinksAt
    <2> DEFINE p == <<m, v>>
    <2>0. r # "SUPER_ADMIN" /\ r # "AUDITOR" => r \in d2.roles
      BY <1>2 DEF Lasting, SystemRoles, RolesInserted
    <2>1. <<r, p>> \notin d3.links
      BY <1>0, <1>1, <1>2, <1>3 DEF PermissionsInserted, RolesInserted, Granted, Lasting
    <2>2. d2.permissions = Seeded /\ d3.permissions = Seeded /\ d4.permissions = Seeded
          /\ d5.permissions = Seeded /\ d6.permissions = Seeded
          /\ d3.roles = d2.roles /\ d4.roles = d2.roles /\ d5.roles = d2.roles /\ d6.roles = d2.roles
      BY <1>0, <1>1, <1>2, <1>3, <1>4, <1>5, <1>6 DEF PermissionsInserted, RolesInserted, Granted
    <2>3. p \in Seeded <=> Catalogued(2, m, v)
      BY Pairs DEF Tracked
    <2>4. p \in ps4 <=> Catalogued(2, m, v)
      BY <2>2, <2>3, Pairs DEF Tracked, ps4
    <2>5. p \in ps5 <=>
            /\ Catalogued(2, m, v)
            /\ \/ m \in {"DOCUMENTS", "WORKFLOWS"}
               \/ m \in {"USERS", "AUDIT"} /\ v = "READ"
      <3>1. p \in ps5 <=>
              /\ p \in Seeded
              /\ \/ m \in {"DOCUMENTS", "WORKFLOWS"}
                 \/ p \in Of("USERS", Read) \cup AuditRead
        BY <2>2 DEF ps5
      <3>2. p \in Of("USERS", Read) <=> m = "USERS" /\ v = "READ"
        BY InOf DEF Read
      <3>3. p \in AuditRead <=> m = "AUDIT" /\ v = "READ"
        BY Pairs
      <3> QED
        BY <2>3, <3>1, <3>2, <3>3
    <2>6. p \in ps6 => (m = "WORKFLOWS" /\ v = "READ") \/ m = "DOCUMENTS"
      BY InOf DEF ps6, Read
    <2>6a. m = "WORKFLOWS" /\ v = "READ" => p \in ps6
      BY InOf DEF ps6, Read
    <2>7. p \in ps7 <=> m \in {"DOCUMENTS", "WORKFLOWS", "AUDIT"} /\ v = "READ"
      BY DEF ps7, Read
    <2>8. <<r, p>> \in e.links <=>
            \/ r = "ADMIN" /\ p \in ps4 /\ p \in Seeded
            \/ r = "MANAGER" /\ p \in ps5 /\ p \in Seeded
            \/ r = "EDITOR" /\ p \in ps6 /\ p \in Seeded
            \/ r = "VIEWER" /\ p \in ps7 /\ p \in Seeded
      <3> HIDE DEF p
      <3>1. <<r, p>> \in d4.links <=> r = "ADMIN" /\ p \in ps4 /\ p \in Seeded
        BY <1>4, <2>0, <2>1, <2>2 DEF Granted
      <3>2. <<r, p>> \in d5.links <=> <<r, p>> \in d4.links \/ (r = "MANAGER" /\ p \in ps5 /\ p \in Seeded)
        BY <1>5, <2>0, <2>2 DEF Granted
      <3>3. <<r, p>> \in d6.links <=> <<r, p>> \in d5.links \/ (r = "EDITOR" /\ p \in ps6 /\ p \in Seeded)
        BY <1>6, <2>0, <2>2 DEF Granted
      <3>4. <<r, p>> \in e.links <=> <<r, p>> \in d6.links \/ (r = "VIEWER" /\ p \in ps7 /\ p \in Seeded)
        BY <1>7, <2>0, <2>2 DEF Granted
      <3> QED
        BY <3>1, <3>2, <3>3, <3>4
    <2>9. Catalogued(2, m, v) => m # "DOCUMENTS" /\ m # "ORG_STRUCTURE"
      BY DEF Catalogued
    <2> HIDE DEF p
    <2> QED
      BY <2>3, <2>4, <2>5, <2>6, <2>6a, <2>7, <2>8, <2>9 DEF Has, p
  <1>12. BackupsAt(2, e)
    BY <1>8 DEF AtLevel, BackupsAt, SameBackups
  <1>13. Sound(e) /\ e.ok
    <2>1. Modules(Seeded) \subseteq d.labels
      BY DEF AtLevel, LabelsAt, Modules, Seeded, Documents, OrgsManage, PlatformManage, AuditRead, Of
    <2> QED
      BY <1>0, <1>1, <1>2, <1>3, <1>4, <1>5, <1>6, <1>7, <2>1
         DEF PermissionsInserted, RolesInserted, Granted
  <1> QED
    BY <1>a, <1>9, <1>10, <1>11, <1>12, <1>13 DEF AtLevel

-----------------------------------------------------------------------------
(* The migrations, one by one *)

\* What permissions there are.
LEMMA KindsOf ==
    ASSUME NEW n \in 2..13, NEW d, AtLevel(n, d), NEW p \in d.permissions
    PROVE  \E m \in Labels, v \in Verbs :
              /\ p = <<m, v>>
              /\ \/ m = "DOCUMENTS" /\ p \in Documents
                 \/ m = "ORGS" /\ v = "MANAGE" /\ n < 8
                 \/ m = "PLATFORM" /\ v = "MANAGE" /\ n < 10
                 \/ Catalogued(n, m, v)
  <1>1. PICK m \in Labels, v \in Verbs : p = <<m, v>>
    BY DEF AtLevel, Sound, Database, Permission
  <1>2. Tracked(m, v) => Catalogued(n, m, v)
    BY <1>1 DEF AtLevel, PermissionsAt
  <1>3. ~Tracked(m, v) => \/ m = "DOCUMENTS" /\ p \in Documents
                          \/ m = "ORGS" /\ v = "MANAGE"
                          \/ m = "PLATFORM" /\ v = "MANAGE"
    BY <1>1, Pairs DEF Tracked
  <1>4. n >= 8 => <<"ORGS", "MANAGE">> \notin d.permissions
    BY DEF AtLevel, PermissionsAt
  <1>5. n >= 10 => <<"PLATFORM", "MANAGE">> \notin d.permissions
    BY DEF AtLevel, PermissionsAt
  <1> QED
    BY <1>1, <1>2, <1>3, <1>4, <1>5

LEMMA TrackedApart ==
    ASSUME NEW m, NEW v, Tracked(m, v)
    PROVE  /\ <<m, v>> \notin Documents /\ <<m, v>> \notin OrgsManage
           /\ <<m, v>> \notin PlatformManage /\ <<m, v>> \notin DocumentsAgain
  BY Pairs DEF Tracked

LEMMA DeleteSuperAdminUpStep ==
    ASSUME NEW d, AtLevel(2, d), NEW e,
           e = Retype(DeleteRoles(DeletePermissions(d, PlatformManage), {"SUPER_ADMIN"}),
                      {"DOCUMENTS", "WORKFLOWS", "USERS", "ORGS", "AUDIT"})
    PROVE  IF "SUPER_ADMIN" \in d.held THEN ~e.ok ELSE AtLevel(3, e)
  <1> DEFINE d1 == DeletePermissions(d, PlatformManage)
             d2 == DeleteRoles(d1, {"SUPER_ADMIN"})
             ls == {"DOCUMENTS", "WORKFLOWS", "USERS", "ORGS", "AUDIT"}
  <1>a. e = Retype(d2, ls)
    OBVIOUS
  <1> HIDE DEF d1, d2, ls
  <1>1. PermissionsDeleted(d, PlatformManage, d1)
    BY DeletePermissionsIs DEF AtLevel, d1
  <1>2. RolesDeleted(d1, {"SUPER_ADMIN"}, d2)
    BY <1>1, DeleteRolesIs DEF PermissionsDeleted, d2
  <1>3. Retyped(d2, ls, e)
    BY <1>a, <1>2, RetypeIs DEF RolesDeleted, ls, Labels
  <1>4. Modules(d2.permissions) \subseteq ls
    <2> SUFFICES ASSUME NEW p \in d.permissions, p \notin PlatformManage PROVE p[1] \in ls
      BY <1>1, <1>2 DEF PermissionsDeleted, RolesDeleted, Modules
    <2>1. PICK m \in Labels, v \in Verbs :
              /\ p = <<m, v>>
              /\ \/ m = "DOCUMENTS" /\ p \in Documents
                 \/ m = "ORGS" /\ v = "MANAGE"
                 \/ m = "PLATFORM" /\ v = "MANAGE"
                 \/ Catalogued(2, m, v)
      BY KindsOf
    <2>2. ~(m = "PLATFORM" /\ v = "MANAGE")
      BY <2>1, Pairs
    <2> QED
      BY <2>1, <2>2 DEF Catalogued, ls
  <1>5. CASE "SUPER_ADMIN" \in d.held
    BY <1>1, <1>2, <1>3, <1>5 DEF PermissionsDeleted, RolesDeleted, Retyped
  <1>6. CASE "SUPER_ADMIN" \notin d.held
    <2>1. Sound(e) /\ e.ok
      <3>1. d.ok /\ d1.ok /\ d1.held = d.held
        BY <1>1 DEF AtLevel, PermissionsDeleted
      <3>2. d2.ok
        BY <1>2, <1>6, <3>1 DEF RolesDeleted
      <3> QED
        BY <1>3, <1>4, <3>2 DEF Retyped
    <2>2. LabelsAt(3, e)
      BY <1>3 DEF Retyped, LabelsAt, ls
    <2>3. PermissionsAt(3, e)
      <3>1. e.permissions = d.permissions \ PlatformManage
        BY <1>1, <1>2, <1>3 DEF PermissionsDeleted, RolesDeleted, Retyped
      <3>2. Documents \cup OrgsManage \subseteq e.permissions
        BY <3>1 DEF AtLevel, PermissionsAt, Documents, OrgsManage, PlatformManage, Of
      <3>3. ASSUME NEW m \in Labels, NEW v \in Verbs, Tracked(m, v)
            PROVE  <<m, v>> \in e.permissions <=> Catalogued(3, m, v)
        <4>1. <<m, v>> \in d.permissions <=> Catalogued(2, m, v)
          BY <3>3 DEF AtLevel, PermissionsAt
        <4> QED
          BY <3>1, <3>3, <4>1, TrackedApart DEF Catalogued
      <3> QED
        BY <3>2, <3>3 DEF PermissionsAt
    <2>4. RolesAt(3, e)
      BY <1>1, <1>2, <1>3 DEF AtLevel, RolesAt, PermissionsDeleted, RolesDeleted, Retyped
    <2>5. LinksAt(3, e)
      <3> SUFFICES ASSUME NEW r \in Lasting, NEW m \in Labels, NEW v \in Verbs, Tracked(m, v)
                   PROVE  <<r, <<m, v>>>> \in e.links <=> Has(3, r, m, v)
        BY DEF LinksAt
      <3>1. <<r, <<m, v>>>> \in d.links <=> Has(2, r, m, v)
        BY DEF AtLevel, LinksAt
      <3>2. <<r, <<m, v>>>> \in e.links <=> <<r, <<m, v>>>> \in d.links
        BY <1>1, <1>2, <1>3, TrackedApart DEF PermissionsDeleted, RolesDeleted, Retyped, Lasting
      <3> QED
        BY <3>1, <3>2 DEF Has, Catalogued
    <2>6. BackupsAt(3, e)
      <3>1. d.backup \in SUBSET Backup /\ d.backupAgain \in SUBSET Backup
        BY DEF AtLevel, Sound, Database
      <3>2. e.backup = Lost({"SUPER_ADMIN"}, d.backup) /\ e.backupAgain = Lost({"SUPER_ADMIN"}, d.backupAgain)
        BY <1>1, <1>2, <1>3 DEF PermissionsDeleted, RolesDeleted, Retyped, SameBackups
      <3> QED
        BY <3>1, <3>2, LostIs DEF AtLevel, BackupsAt
    <2> QED
      BY <1>6, <2>1, <2>2, <2>3, <2>4, <2>5, <2>6 DEF AtLevel
  <1> QED
    BY <1>5, <1>6

\* Between these levels only the labels differ.
LEMMA SameRows ==
    ASSUME NEW n, NEW k, <<n, k>> \in {<<2, 2>>, <<2, 3>>, <<3, 2>>, <<3, 4>>, <<4, 3>>, <<4, 4>>},
           NEW d, AtLevel(n, d), NEW e, Sound(e), e.ok, SameBackups(d, e),
           e.permissions = d.permissions, e.roles = d.roles, e.links = d.links, LabelsAt(k, e)
    PROVE  AtLevel(k, e)
  <1>1. n \in 2..4 /\ k \in 2..4
    OBVIOUS
  <1>2. PermissionsAt(k, e)
    <2>1. \A m, v : Catalogued(n, m, v) <=> Catalogued(k, m, v)
      BY <1>1 DEF Catalogued
    <2>2. Documents \cup OrgsManage \subseteq e.permissions
      BY <1>1 DEF AtLevel, PermissionsAt
    <2>3. ASSUME NEW m \in Labels, NEW v \in Verbs, Tracked(m, v)
          PROVE  <<m, v>> \in e.permissions <=> Catalogued(k, m, v)
      BY <1>1, <2>1, <2>3 DEF AtLevel, PermissionsAt
    <2> QED
      BY <1>1, <2>2, <2>3 DEF PermissionsAt
  <1>3. LinksAt(k, e)
    <2> SUFFICES ASSUME NEW r \in Lasting, NEW m \in Labels, NEW v \in Verbs, Tracked(m, v)
                 PROVE  <<r, <<m, v>>>> \in e.links <=> Has(k, r, m, v)
      BY <1>1 DEF LinksAt
    <2>1. <<r, <<m, v>>>> \in d.links <=> Has(n, r, m, v)
      BY <1>1 DEF AtLevel, LinksAt
    <2> QED
      BY <1>1, <2>1 DEF Has, Catalogued
  <1>4. RolesAt(k, e)
    BY <1>1 DEF AtLevel, RolesAt
  <1>5. BackupsAt(k, e)
    BY <1>1 DEF AtLevel, BackupsAt, SameBackups
  <1> QED
    BY <1>1, <1>2, <1>3, <1>4, <1>5 DEF AtLevel

LEMMA OtherwiseUpStep ==
    ASSUME NEW d, AtLevel(2, d)
    PROVE  AtLevel(3, d)
  <1>1. LabelsAt(3, d)
    BY DEF AtLevel, LabelsAt
  <1> QED
    BY <1>1, SameRows DEF AtLevel, SameBackups

LEMMA DeleteSuperAdminDownStep ==
    ASSUME NEW d, AtLevel(3, d), NEW e,
           e = Retype(d, {"DOCUMENTS", "WORKFLOWS", "USERS", "ORGS", "AUDIT", "PLATFORM"})
    PROVE  AtLevel(2, e)
  <1> DEFINE ls == {"DOCUMENTS", "WORKFLOWS", "USERS", "ORGS", "AUDIT", "PLATFORM"}
  <1>1. Retyped(d, ls, e)
    BY RetypeIs DEF AtLevel, Labels
  <1>2. Modules(d.permissions) \subseteq ls
    <2> SUFFICES ASSUME NEW p \in d.permissions PROVE p[1] \in ls
      BY DEF Modules
    <2>1. PICK m \in Labels, v \in Verbs :
              /\ p = <<m, v>>
              /\ \/ m = "DOCUMENTS" /\ p \in Documents
                 \/ m = "ORGS" /\ v = "MANAGE"
                 \/ m = "PLATFORM" /\ v = "MANAGE"
                 \/ Catalogued(3, m, v)
      BY KindsOf
    <2> QED
      BY <2>1 DEF Catalogued
  <1>3. Sound(e) /\ e.ok
    BY <1>1, <1>2 DEF AtLevel, Retyped
  <1>4. LabelsAt(2, e)
    BY <1>1 DEF Retyped, LabelsAt
  <1> QED
    BY <1>1, <1>3, <1>4, SameRows DEF Retyped

Labelled(d, label) == [d EXCEPT !.labels = @ \cup {label}]

LEMMA AddOrgStructureEnumValueUpStep ==
    ASSUME NEW d, AtLevel(3, d), NEW e, e = Labelled(d, "ORG_STRUCTURE")
    PROVE  AtLevel(4, e)
  <1>1. /\ e \in Database /\ SameBackups(d, e) /\ e.labels = d.labels \cup {"ORG_STRUCTURE"}
        /\ e.permissions = d.permissions /\ e.roles = d.roles /\ e.links = d.links
        /\ e.held = d.held /\ e.ok = d.ok
    BY DEF AtLevel, Sound, Database, SameBackups, Labels, Labelled
  <1>2. Sound(e) /\ e.ok
    BY <1>1 DEF AtLevel, Sound
  <1>3. LabelsAt(4, e)
    BY <1>1 DEF AtLevel, LabelsAt
  <1>4. /\ SameBackups(d, e) /\ e.permissions = d.permissions /\ e.roles = d.roles
        /\ e.links = d.links
    BY <1>1
  <1> QED
    BY <1>2, <1>3, <1>4, SameRows

LEMMA AddOrgStructureEnumValueDownStep ==
    ASSUME NEW d, AtLevel(4, d)
    PROVE  AtLevel(3, d)
  <1>1. LabelsAt(3, d)
    BY DEF AtLevel, LabelsAt
  <1> QED
    BY <1>1, SameRows DEF AtLevel, SameBackups

LEMMA SeedOrgStructureUpStep ==
    ASSUME NEW d, AtLevel(4, d), NEW e,
           e = Grant(Grant(InsertPermissions(d, OrgStructure),
                           {"SUPER_ADMIN", "ADMIN", "MANAGER"}, OrgStructure),
                     {"EDITOR", "VIEWER"}, Of("ORG_STRUCTURE", Read))
    PROVE  AtLevel(5, e)
  <1> DEFINE d1 == InsertPermissions(d, OrgStructure)
             d2 == Grant(d1, {"SUPER_ADMIN", "ADMIN", "MANAGER"}, OrgStructure)
  <1>a. e = Grant(d2, {"EDITOR", "VIEWER"}, Of("ORG_STRUCTURE", Read))
    OBVIOUS
  <1> HIDE DEF d1, d2
  <1>0. Sound(d) /\ d.ok
    BY DEF AtLevel
  <1>1. PermissionsInserted(d, OrgStructure, d1)
    BY <1>0, InsertPermissionsIs, PermissionSets DEF d1
  <1>2. Granted(d1, {"SUPER_ADMIN", "ADMIN", "MANAGER"}, OrgStructure, d2)
    BY <1>1, GrantIs DEF PermissionsInserted, d2
  <1>3. Granted(d2, {"EDITOR", "VIEWER"}, Of("ORG_STRUCTURE", Read), e)
    BY <1>a, <1>2, GrantIs DEF Granted
  <1>4. /\ e.labels = d.labels /\ e.roles = d.roles /\ SameBackups(d, e)
        /\ e.permissions = d.permissions \cup OrgStructure
    BY <1>1, <1>2, <1>3 DEF PermissionsInserted, Granted, SameBackups
  <1>5. Sound(e) /\ e.ok
    <2>1. Modules(OrgStructure) \subseteq d.labels
      BY DEF AtLevel, LabelsAt, Modules, OrgStructure, Of
    <2> QED
      BY <1>0, <1>1, <1>2, <1>3, <2>1 DEF PermissionsInserted, Granted
  <1>6. LabelsAt(5, e) /\ RolesAt(5, e) /\ BackupsAt(5, e)
    BY <1>4 DEF AtLevel, LabelsAt, RolesAt, BackupsAt, SameBackups
  <1>7. PermissionsAt(5, e)
    <2>1. Documents \cup OrgsManage \subseteq e.permissions
      BY <1>4 DEF AtLevel, PermissionsAt
    <2>2. ASSUME NEW m \in Labels, NEW v \in Verbs, Tracked(m, v)
          PROVE  <<m, v>> \in e.permissions <=> Catalogued(5, m, v)
      <3>1. <<m, v>> \in d.permissions <=> Catalogued(4, m, v)
        BY <2>2 DEF AtLevel, PermissionsAt
      <3> QED
        BY <1>4, <3>1, Pairs DEF Catalogued
    <2> QED
      BY <2>1, <2>2 DEF PermissionsAt
  <1>8. LinksAt(5, e)
    <2> SUFFICES ASSUME NEW r \in Lasting, NEW m \in Labels, NEW v \in Verbs, Tracked(m, v)
                 PROVE  <<r, <<m, v>>>> \in e.links <=> Has(5, r, m, v)
      BY DEF LinksAt
    <2>1. <<r, <<m, v>>>> \in d.links <=> Has(4, r, m, v)
      BY DEF AtLevel, LinksAt
    <2>2. <<m, v>> \in OrgStructure <=> m = "ORG_STRUCTURE" /\ v \in ReadWriteDelete
      BY Pairs
    <2>3. <<m, v>> \in Of("ORG_STRUCTURE", Read) <=> m = "ORG_STRUCTURE" /\ v = "READ"
      BY InOf DEF Read
    <2>4. r # "AUDITOR" => r \in d1.roles /\ r \in d2.roles
      BY <1>1, <1>2 DEF AtLevel, RolesAt, PermissionsInserted, Granted, Lasting
    <2>5. <<m, v>> \in OrgStructure => <<m, v>> \in d1.permissions /\ <<m, v>> \in d2.permissions
      BY <1>1, <1>2 DEF PermissionsInserted, Granted
    <2>6. <<r, <<m, v>>>> \in d1.links <=> <<r, <<m, v>>>> \in d.links
      BY <1>1 DEF PermissionsInserted
    <2>7. <<r, <<m, v>>>> \in d2.links <=>
            \/ <<r, <<m, v>>>> \in d.links
            \/ r \in {"ADMIN", "MANAGER"} /\ <<m, v>> \in OrgStructure
      BY <1>2, <2>4, <2>5, <2>6 DEF Granted, Lasting
    <2>8. <<r, <<m, v>>>> \in e.links <=>
            \/ <<r, <<m, v>>>> \in d2.links
            \/ r \in {"EDITOR", "VIEWER"} /\ m = "ORG_STRUCTURE" /\ v = "READ"
      BY <1>3, <2>2, <2>3, <2>4, <2>5 DEF Granted, ReadWriteDelete
    <2> QED
      BY <2>1, <2>2, <2>7, <2>8 DEF Has, Catalogued, ReadWriteDelete
  <1> QED
    BY <1>5, <1>6, <1>7, <1>8 DEF AtLevel

LEMMA SeedDownStep ==
    ASSUME NEW d, AtLevel(2, d), NEW e,
           e = DeletePermissions(DeleteRoles(d, d.roles \cap SystemRoles), d.permissions),
           e.ok
    PROVE  AtLevel(1, e)
  <1> DEFINE rs == d.roles \cap SystemRoles
             d1 == DeleteRoles(d, rs)
  <1>a. e = DeletePermissions(d1, d.permissions)
    OBVIOUS
  <1> HIDE DEF d1
  <1>1. RolesDeleted(d, rs, d1)
    BY DeleteRolesIs DEF AtLevel, d1
  <1>2. PermissionsDeleted(d1, d.permissions, e)
    BY <1>a, <1>1, DeletePermissionsIs DEF RolesDeleted
  <1>3. /\ e.labels = d.labels /\ e.permissions = {} /\ e.roles = d.roles \ rs
        /\ e.backup = Lost(rs, d.backup) /\ e.backupAgain = Lost(rs, d.backupAgain)
    BY <1>1, <1>2 DEF RolesDeleted, PermissionsDeleted, SameBackups
  <1>4. LabelsAt(1, e) /\ RolesAt(1, e) /\ PermissionsAt(1, e) /\ LinksAt(1, e)
    <2>1. LabelsAt(1, e)
      BY <1>3 DEF AtLevel, LabelsAt
    <2>2. e.roles \cap SystemRoles = {}
      BY <1>3
    <2>3. "AUDITOR" \notin e.roles
      BY <2>2 DEF SystemRoles
    <2> QED
      BY <1>3, <2>1, <2>2, <2>3 DEF RolesAt, PermissionsAt, LinksAt
  <1>5. BackupsAt(1, e)
    <2>1. d.backup = {} /\ d.backupAgain \in SUBSET Backup
      BY DEF AtLevel, Sound, Database, BackupsAt
    <2>2. Lost(rs, d.backup) = {}
      BY <2>1 DEF Lost
    <2>3. \A l \in e.backupAgain : \E k \in d.backupAgain : l[2] = k[2]
      BY <1>3, <2>1, LostIs
    <2>4. \A k \in d.backupAgain : k[2] \in Documents
      BY DEF AtLevel, BackupsAt
    <2> QED
      BY <1>3, <2>1, <2>2, <2>3, <2>4 DEF BackupsAt
  <1> QED
    BY <1>2, <1>4, <1>5 DEF AtLevel, PermissionsDeleted

LEMMA SeedOrgStructureDownStep ==
    ASSUME NEW d, AtLevel(5, d), NEW e, e = DeletePermissions(d, OrgStructure)
    PROVE  AtLevel(4, e)
  <1>1. PermissionsDeleted(d, OrgStructure, e)
    BY DeletePermissionsIs DEF AtLevel
  <1>2. LabelsAt(4, e) /\ RolesAt(4, e) /\ BackupsAt(4, e)
    BY <1>1 DEF AtLevel, PermissionsDeleted, LabelsAt, RolesAt, BackupsAt, SameBackups
  <1>3. PermissionsAt(4, e)
    <2>1. Documents \cup OrgsManage \subseteq e.permissions
      <3>1. Documents \cup OrgsManage \subseteq d.permissions
        BY DEF AtLevel, PermissionsAt
      <3>2. (Documents \cup OrgsManage) \cap OrgStructure = {}
        BY DEF Documents, OrgsManage, OrgStructure, Of
      <3> QED
        BY <1>1, <3>1, <3>2 DEF PermissionsDeleted
    <2>2. ASSUME NEW m \in Labels, NEW v \in Verbs, Tracked(m, v)
          PROVE  <<m, v>> \in e.permissions <=> Catalogued(4, m, v)
      <3>1. <<m, v>> \in d.permissions <=> Catalogued(5, m, v)
        BY <2>2 DEF AtLevel, PermissionsAt
      <3> QED
        BY <1>1, <3>1, Pairs DEF PermissionsDeleted, Catalogued
    <2> QED
      BY <2>1, <2>2 DEF PermissionsAt
  <1>4. LinksAt(4, e)
    <2> SUFFICES ASSUME NEW r \in Lasting, NEW m \in Labels, NEW v \in Verbs, Tracked(m, v)
                 PROVE  <<r, <<m, v>>>> \in e.links <=> Has(4, r, m, v)
      BY DEF LinksAt
    <2>1. <<r, <<m, v>>>> \in d.links <=> Has(5, r, m, v)
      BY DEF AtLevel, LinksAt
    <2>2. <<m, v>> \in OrgStructure <=> m = "ORG_STRUCTURE" /\ v \in ReadWriteDelete
      BY Pairs
    <2>3. <<r, <<m, v>>>> \in e.links <=> <<r, <<m, v>>>> \in d.links /\ <<m, v>> \notin OrgStructure
      BY <1>1 DEF PermissionsDeleted
    <2> QED
      BY <2>1, <2>2, <2>3 DEF Has, Catalogued
  <1> QED
    BY <1>1, <1>2, <1>3, <1>4 DEF AtLevel, PermissionsDeleted

LEMMA AddWorkflowsManageUpStep ==
    ASSUME NEW d, AtLevel(5, d), NEW e,
           e = Grant(InsertPermissions(d, WorkflowsManage), {"ADMIN", "MANAGER"}, WorkflowsManage)
    PROVE  AtLevel(6, e)
  <1> DEFINE d1 == InsertPermissions(d, WorkflowsManage)
  <1>a. e = Grant(d1, {"ADMIN", "MANAGER"}, WorkflowsManage)
    OBVIOUS
  <1> HIDE DEF d1
  <1>0. Sound(d) /\ d.ok
    BY DEF AtLevel
  <1>1. PermissionsInserted(d, WorkflowsManage, d1)
    BY <1>0, InsertPermissionsIs, PermissionSets DEF d1
  <1>2. Granted(d1, {"ADMIN", "MANAGER"}, WorkflowsManage, e)
    BY <1>a, <1>1, GrantIs DEF PermissionsInserted
  <1>3. /\ e.labels = d.labels /\ e.roles = d.roles /\ SameBackups(d, e)
        /\ e.permissions = d.permissions \cup WorkflowsManage
    BY <1>1, <1>2 DEF PermissionsInserted, Granted, SameBackups
  <1>4. Sound(e) /\ e.ok
    <2>1. Modules(WorkflowsManage) \subseteq d.labels
      BY DEF AtLevel, LabelsAt, Modules, WorkflowsManage, Of
    <2> QED
      BY <1>0, <1>1, <1>2, <2>1 DEF PermissionsInserted, Granted
  <1>5. LabelsAt(6, e) /\ RolesAt(6, e) /\ BackupsAt(6, e)
    BY <1>3 DEF AtLevel, LabelsAt, RolesAt, BackupsAt, SameBackups
  <1>6. PermissionsAt(6, e)
    <2>1. Documents \cup OrgsManage \subseteq e.permissions
      BY <1>3 DEF AtLevel, PermissionsAt
    <2>2. ASSUME NEW m \in Labels, NEW v \in Verbs, Tracked(m, v)
          PROVE  <<m, v>> \in e.permissions <=> Catalogued(6, m, v)
      <3>1. <<m, v>> \in d.permissions <=> Catalogued(5, m, v)
        BY <2>2 DEF AtLevel, PermissionsAt
      <3> QED
        BY <1>3, <3>1, Pairs DEF Catalogued
    <2> QED
      BY <2>1, <2>2 DEF PermissionsAt
  <1>7. LinksAt(6, e)
    <2> SUFFICES ASSUME NEW r \in Lasting, NEW m \in Labels, NEW v \in Verbs, Tracked(m, v)
                 PROVE  <<r, <<m, v>>>> \in e.links <=> Has(6, r, m, v)
      BY DEF LinksAt
    <2>1. <<r, <<m, v>>>> \in d.links <=> Has(5, r, m, v)
      BY DEF AtLevel, LinksAt
    <2>2. <<m, v>> \in WorkflowsManage <=> m = "WORKFLOWS" /\ v = "MANAGE"
      BY Pairs
    <2>3. {"ADMIN", "MANAGER"} \subseteq d1.roles /\ WorkflowsManage \subseteq d1.permissions
      BY <1>1 DEF AtLevel, RolesAt, PermissionsInserted
    <2>4. <<r, <<m, v>>>> \in e.links <=>
            \/ <<r, <<m, v>>>> \in d.links
            \/ r \in {"ADMIN", "MANAGER"} /\ m = "WORKFLOWS" /\ v = "MANAGE"
      BY <1>1, <1>2, <2>2, <2>3 DEF PermissionsInserted, Granted
    <2> QED
      BY <2>1, <2>4 DEF Has, Catalogued
  <1> QED
    BY <1>4, <1>5, <1>6, <1>7 DEF AtLevel

LEMMA AddWorkflowsManageDownStep ==
    ASSUME NEW d, AtLevel(6, d), NEW e, e = DeletePermissions(d, WorkflowsManage)
    PROVE  AtLevel(5, e)
  <1>1. PermissionsDeleted(d, WorkflowsManage, e)
    BY DeletePermissionsIs DEF AtLevel
  <1>2. LabelsAt(5, e) /\ RolesAt(5, e) /\ BackupsAt(5, e)
    BY <1>1 DEF AtLevel, PermissionsDeleted, LabelsAt, RolesAt, BackupsAt, SameBackups
  <1>3. PermissionsAt(5, e)
    <2>1. Documents \cup OrgsManage \subseteq e.permissions
      <3>1. Documents \cup OrgsManage \subseteq d.permissions
        BY DEF AtLevel, PermissionsAt
      <3>2. (Documents \cup OrgsManage) \cap WorkflowsManage = {}
        BY DEF Documents, OrgsManage, WorkflowsManage, Of, ReadWriteDelete
      <3> QED
        BY <1>1, <3>1, <3>2 DEF PermissionsDeleted
    <2>2. ASSUME NEW m \in Labels, NEW v \in Verbs, Tracked(m, v)
          PROVE  <<m, v>> \in e.permissions <=> Catalogued(5, m, v)
      <3>1. <<m, v>> \in d.permissions <=> Catalogued(6, m, v)
        BY <2>2 DEF AtLevel, PermissionsAt
      <3> QED
        BY <1>1, <3>1, Pairs DEF PermissionsDeleted, Catalogued, ReadWriteDelete
    <2> QED
      BY <2>1, <2>2 DEF PermissionsAt
  <1>4. LinksAt(5, e)
    <2> SUFFICES ASSUME NEW r \in Lasting, NEW m \in Labels, NEW v \in Verbs, Tracked(m, v)
                 PROVE  <<r, <<m, v>>>> \in e.links <=> Has(5, r, m, v)
      BY DEF LinksAt
    <2>1. <<r, <<m, v>>>> \in d.links <=> Has(6, r, m, v)
      BY DEF AtLevel, LinksAt
    <2>2. <<m, v>> \in WorkflowsManage <=> m = "WORKFLOWS" /\ v = "MANAGE"
      BY Pairs
    <2>3. <<r, <<m, v>>>> \in e.links <=> <<r, <<m, v>>>> \in d.links /\ <<m, v>> \notin WorkflowsManage
      BY <1>1 DEF PermissionsDeleted
    <2> QED
      BY <2>1, <2>2, <2>3 DEF Has, Catalogued, ReadWriteDelete
  <1> QED
    BY <1>1, <1>2, <1>3, <1>4 DEF AtLevel, PermissionsDeleted

\* Between these levels only links differ.
LEMMA SameTables ==
    ASSUME NEW n, NEW k, <<n, k>> \in {<<6, 7>>, <<7, 6>>, <<10, 11>>, <<11, 10>>},
           NEW d, AtLevel(n, d), NEW e, e.labels = d.labels, e.permissions = d.permissions,
           e.roles = d.roles, SameBackups(d, e)
    PROVE  LabelsAt(k, e) /\ PermissionsAt(k, e) /\ RolesAt(k, e) /\ BackupsAt(k, e)
  <1>1. n \in 6..11 /\ k \in 6..11
    OBVIOUS
  <1>2. PermissionsAt(k, e)
    <2>1. \A m, v : Catalogued(n, m, v) <=> Catalogued(k, m, v)
      BY <1>1 DEF Catalogued
    <2>2. k <= 7 => Documents \cup OrgsManage \subseteq e.permissions
      BY <1>1 DEF AtLevel, PermissionsAt
    <2>3. ASSUME NEW m \in Labels, NEW v \in Verbs, Tracked(m, v)
          PROVE  <<m, v>> \in e.permissions <=> Catalogued(k, m, v)
      BY <1>1, <2>1, <2>3 DEF AtLevel, PermissionsAt
    <2> QED
      BY <1>1, <2>2, <2>3 DEF AtLevel, PermissionsAt
  <1>3. LabelsAt(k, e)
    BY <1>1 DEF AtLevel, LabelsAt
  <1>4. RolesAt(k, e)
    BY <1>1 DEF AtLevel, RolesAt
  <1>5. BackupsAt(k, e)
    BY <1>1 DEF AtLevel, BackupsAt, SameBackups
  <1> QED
    BY <1>2, <1>3, <1>4, <1>5

EditorWrites == Of("WORKFLOWS", {"WRITE", "APPROVE"})
UsersRead == Of("USERS", Read)

LEMMA AddWorkflowWriteApproveToEditorUpStep ==
    ASSUME NEW d, AtLevel(6, d), NEW e, e = Grant(d, {"EDITOR"}, EditorWrites)
    PROVE  AtLevel(7, e)
  <1>1. Granted(d, {"EDITOR"}, EditorWrites, e)
    BY GrantIs DEF AtLevel
  <1>2. LabelsAt(7, e) /\ PermissionsAt(7, e) /\ RolesAt(7, e) /\ BackupsAt(7, e)
    BY <1>1, SameTables DEF Granted
  <1>3. LinksAt(7, e)
    <2> SUFFICES ASSUME NEW r \in Lasting, NEW m \in Labels, NEW v \in Verbs, Tracked(m, v)
                 PROVE  <<r, <<m, v>>>> \in e.links <=> Has(7, r, m, v)
      BY DEF LinksAt
    <2>1. <<r, <<m, v>>>> \in d.links <=> Has(6, r, m, v)
      BY DEF AtLevel, LinksAt
    <2>2. <<m, v>> \in EditorWrites <=> m = "WORKFLOWS" /\ v \in {"WRITE", "APPROVE"}
      BY InOf DEF EditorWrites
    <2>3. "EDITOR" \in d.roles /\ (<<m, v>> \in d.permissions <=> Catalogued(6, m, v))
      BY DEF AtLevel, RolesAt, PermissionsAt
    <2>4. <<m, v>> \in EditorWrites => <<m, v>> \in d.permissions
      BY <2>2, <2>3 DEF Catalogued, ReadWriteDelete
    <2>5. <<r, <<m, v>>>> \in e.links <=>
            \/ <<r, <<m, v>>>> \in d.links
            \/ r = "EDITOR" /\ m = "WORKFLOWS" /\ v \in {"WRITE", "APPROVE"}
      BY <1>1, <2>2, <2>3, <2>4 DEF Granted
    <2> QED
      BY <2>1, <2>5 DEF Has, Catalogued, ReadWriteDelete
  <1> QED
    BY <1>1, <1>2, <1>3 DEF AtLevel, Granted

LEMMA AddWorkflowWriteApproveToEditorDownStep ==
    ASSUME NEW d, AtLevel(7, d), NEW e, e = DeleteLinks(d, {"EDITOR"}, EditorWrites)
    PROVE  AtLevel(6, e)
  <1>1. LinksDeleted(d, {"EDITOR"}, EditorWrites, e)
    BY DeleteLinksIs DEF AtLevel
  <1>2. LabelsAt(6, e) /\ PermissionsAt(6, e) /\ RolesAt(6, e) /\ BackupsAt(6, e)
    BY <1>1, SameTables DEF LinksDeleted
  <1>3. LinksAt(6, e)
    <2> SUFFICES ASSUME NEW r \in Lasting, NEW m \in Labels, NEW v \in Verbs, Tracked(m, v)
                 PROVE  <<r, <<m, v>>>> \in e.links <=> Has(6, r, m, v)
      BY DEF LinksAt
    <2>1. <<r, <<m, v>>>> \in d.links <=> Has(7, r, m, v)
      BY DEF AtLevel, LinksAt
    <2>2. <<m, v>> \in EditorWrites <=> m = "WORKFLOWS" /\ v \in {"WRITE", "APPROVE"}
      BY InOf DEF EditorWrites
    <2>3. <<r, <<m, v>>>> \in e.links <=>
            /\ <<r, <<m, v>>>> \in d.links
            /\ ~(r = "EDITOR" /\ m = "WORKFLOWS" /\ v \in {"WRITE", "APPROVE"})
      BY <1>1, <2>2 DEF LinksDeleted
    <2> QED
      BY <2>1, <2>3 DEF Has, Catalogued, ReadWriteDelete
  <1> QED
    BY <1>1, <1>2, <1>3 DEF AtLevel, LinksDeleted

LEMMA AddUsersReadToEditorUpStep ==
    ASSUME NEW d, AtLevel(10, d), NEW e, e = Grant(d, {"EDITOR"}, UsersRead)
    PROVE  AtLevel(11, e)
  <1>1. Granted(d, {"EDITOR"}, UsersRead, e)
    BY GrantIs DEF AtLevel
  <1>2. LabelsAt(11, e) /\ PermissionsAt(11, e) /\ RolesAt(11, e) /\ BackupsAt(11, e)
    BY <1>1, SameTables DEF Granted
  <1>3. LinksAt(11, e)
    <2> SUFFICES ASSUME NEW r \in Lasting, NEW m \in Labels, NEW v \in Verbs, Tracked(m, v)
                 PROVE  <<r, <<m, v>>>> \in e.links <=> Has(11, r, m, v)
      BY DEF LinksAt
    <2>1. <<r, <<m, v>>>> \in d.links <=> Has(10, r, m, v)
      BY DEF AtLevel, LinksAt
    <2>2. <<m, v>> \in UsersRead <=> m = "USERS" /\ v = "READ"
      BY InOf DEF UsersRead, Read
    <2>3. "EDITOR" \in d.roles /\ (<<m, v>> \in d.permissions <=> Catalogued(10, m, v))
      BY DEF AtLevel, RolesAt, PermissionsAt
    <2>4. <<m, v>> \in UsersRead => <<m, v>> \in d.permissions
      BY <2>2, <2>3 DEF Catalogued, ReadWriteDelete
    <2>5. <<r, <<m, v>>>> \in e.links <=>
            \/ <<r, <<m, v>>>> \in d.links
            \/ r = "EDITOR" /\ m = "USERS" /\ v = "READ"
      BY <1>1, <2>2, <2>3, <2>4 DEF Granted
    <2> QED
      BY <2>1, <2>5 DEF Has, Catalogued, ReadWriteDelete
  <1> QED
    BY <1>1, <1>2, <1>3 DEF AtLevel, Granted

LEMMA AddUsersReadToEditorDownStep ==
    ASSUME NEW d, AtLevel(11, d), NEW e, e = DeleteLinks(d, {"EDITOR"}, UsersRead)
    PROVE  AtLevel(10, e)
  <1>1. LinksDeleted(d, {"EDITOR"}, UsersRead, e)
    BY DeleteLinksIs DEF AtLevel
  <1>2. LabelsAt(10, e) /\ PermissionsAt(10, e) /\ RolesAt(10, e) /\ BackupsAt(10, e)
    BY <1>1, SameTables DEF LinksDeleted
  <1>3. LinksAt(10, e)
    <2> SUFFICES ASSUME NEW r \in Lasting, NEW m \in Labels, NEW v \in Verbs, Tracked(m, v)
                 PROVE  <<r, <<m, v>>>> \in e.links <=> Has(10, r, m, v)
      BY DEF LinksAt
    <2>1. <<r, <<m, v>>>> \in d.links <=> Has(11, r, m, v)
      BY DEF AtLevel, LinksAt
    <2>2. <<m, v>> \in UsersRead <=> m = "USERS" /\ v = "READ"
      BY InOf DEF UsersRead, Read
    <2>3. <<r, <<m, v>>>> \in e.links <=>
            <<r, <<m, v>>>> \in d.links /\ ~(r = "EDITOR" /\ m = "USERS" /\ v = "READ")
      BY <1>1, <2>2 DEF LinksDeleted
    <2> QED
      BY <2>1, <2>3 DEF Has, Catalogued, ReadWriteDelete
  <1> QED
    BY <1>1, <1>2, <1>3 DEF AtLevel, LinksDeleted

BackedUp(d, ps) == [d EXCEPT !.backup = @ \cup LinksOf(d, ps)]
BackupDropped(d) == [d EXCEPT !.backup = {}]

OtherThanBackup(d, e) ==
    /\ Sound(e)
    /\ e.labels = d.labels /\ e.permissions = d.permissions /\ e.roles = d.roles
    /\ e.links = d.links /\ e.held = d.held /\ e.backupAgain = d.backupAgain
    /\ e.ok <=> d.ok

LEMMA BackedUpIs ==
    ASSUME NEW d, Sound(d), NEW ps, NEW e, e = BackedUp(d, ps)
    PROVE  OtherThanBackup(d, e) /\ e.backup = d.backup \cup LinksOf(d, ps)
  <1> DEFINE kept == d.backup \cup LinksOf(d, ps)
  <1>1. kept \in SUBSET Backup
    BY DEF Sound, Database, LinksOf
  <1>2. e = [d EXCEPT !.backup = kept]
    BY DEF BackedUp
  <1> HIDE DEF kept
  <1>3. /\ e \in Database /\ e.backup = kept
        /\ e.labels = d.labels /\ e.permissions = d.permissions /\ e.roles = d.roles
        /\ e.links = d.links /\ e.held = d.held /\ e.backupAgain = d.backupAgain
        /\ e.ok = d.ok
    BY <1>1, <1>2 DEF Sound, Database
  <1> QED
    BY <1>3 DEF OtherThanBackup, Sound, kept

LEMMA BackupDroppedIs ==
    ASSUME NEW d, Sound(d), NEW e, e = BackupDropped(d)
    PROVE  OtherThanBackup(d, e) /\ e.backup = {}
  <1>1. /\ e \in Database /\ e.backup = {}
        /\ e.labels = d.labels /\ e.permissions = d.permissions /\ e.roles = d.roles
        /\ e.links = d.links /\ e.held = d.held /\ e.backupAgain = d.backupAgain
        /\ e.ok = d.ok
    BY DEF Sound, Database, BackupDropped
  <1> QED
    BY <1>1 DEF OtherThanBackup, Sound

Vanishing == Documents \cup OrgsManage

LEMMA UnusedAt ==
    ASSUME NEW n \in 7..8, NEW d, AtLevel(n, d)
    PROVE  /\ Unused(d) \subseteq Vanishing
           /\ n = 7 => Unused(d) = Vanishing
  <1>1. ASSUME NEW p \in Unused(d) PROVE p \in Vanishing
    <2>1. p \in d.permissions /\ (p[1] = "DOCUMENTS" \/ p \in OrgsManage)
      BY <1>1 DEF Unused
    <2>2. PICK m \in Labels, v \in Verbs :
              /\ p = <<m, v>>
              /\ \/ m = "DOCUMENTS" /\ p \in Documents
                 \/ m = "ORGS" /\ v = "MANAGE"
                 \/ m = "PLATFORM" /\ v = "MANAGE"
                 \/ Catalogued(n, m, v)
      BY <2>1, KindsOf
    <2>3. m = "DOCUMENTS" => ~Catalogued(n, m, v)
      BY DEF Catalogued
    <2> QED
      BY <2>1, <2>2, <2>3 DEF Vanishing
  <1>2. ASSUME n = 7, NEW p \in Vanishing PROVE p \in Unused(d)
    <2>1. p \in d.permissions
      BY <1>2 DEF AtLevel, PermissionsAt, Vanishing
    <2>2. p \in Documents => p[1] = "DOCUMENTS"
      BY DEF Documents, Of
    <2> QED
      BY <1>2, <2>1, <2>2 DEF Vanishing, Unused
  <1> QED
    BY <1>1, <1>2

LEMMA CleanupUpStep ==
    ASSUME NEW d, AtLevel(7, d), NEW e,
           e = DeletePermissions(BackedUp(d, Unused(d)), Unused(d))
    PROVE  AtLevel(8, e)
  <1> DEFINE d1 == BackedUp(d, Unused(d))
  <1>a. e = DeletePermissions(d1, Unused(d))
    OBVIOUS
  <1> HIDE DEF d1
  <1>0. Sound(d) /\ d.ok
    BY DEF AtLevel
  <1>1. OtherThanBackup(d, d1) /\ d1.backup = d.backup \cup LinksOf(d, Unused(d))
    BY <1>0, BackedUpIs DEF d1
  <1>2. Unused(d) = Vanishing
    BY UnusedAt
  <1>3. PermissionsDeleted(d1, Vanishing, e)
    BY <1>a, <1>1, <1>2, DeletePermissionsIs DEF OtherThanBackup
  <1>4. /\ e.labels = d.labels /\ e.roles = d.roles
        /\ e.permissions = d.permissions \ Vanishing
        /\ e.backup = d.backup \cup LinksOf(d, Vanishing) /\ e.backupAgain = d.backupAgain
    BY <1>1, <1>2, <1>3 DEF OtherThanBackup, PermissionsDeleted, SameBackups
  <1>5. Sound(e) /\ e.ok
    BY <1>0, <1>1, <1>3 DEF OtherThanBackup, PermissionsDeleted
  <1>6. LabelsAt(8, e) /\ RolesAt(8, e)
    BY <1>4 DEF AtLevel, LabelsAt, RolesAt
  <1>7. BackupsAt(8, e)
    BY <1>4 DEF AtLevel, BackupsAt, LinksOf, Vanishing
  <1>8. PermissionsAt(8, e)
    <2>1. <<"ORGS", "MANAGE">> \notin e.permissions
      BY <1>4 DEF Vanishing, OrgsManage, Of
    <2>2. ASSUME NEW m \in Labels, NEW v \in Verbs, Tracked(m, v)
          PROVE  <<m, v>> \in e.permissions <=> Catalogued(8, m, v)
      <3>1. <<m, v>> \in d.permissions <=> Catalogued(7, m, v)
        BY <2>2 DEF AtLevel, PermissionsAt
      <3> QED
        BY <1>4, <2>2, <3>1 DEF Tracked, Vanishing, Catalogued
    <2> QED
      BY <2>1, <2>2 DEF PermissionsAt
  <1>9. LinksAt(8, e)
    <2> SUFFICES ASSUME NEW r \in Lasting, NEW m \in Labels, NEW v \in Verbs, Tracked(m, v)
                 PROVE  <<r, <<m, v>>>> \in e.links <=> Has(8, r, m, v)
      BY DEF LinksAt
    <2>1. <<r, <<m, v>>>> \in d.links <=> Has(7, r, m, v)
      BY DEF AtLevel, LinksAt
    <2>2. <<r, <<m, v>>>> \in e.links <=> <<r, <<m, v>>>> \in d.links
      BY <1>1, <1>3 DEF OtherThanBackup, PermissionsDeleted, Tracked, Vanishing
    <2> QED
      BY <2>1, <2>2 DEF Has, Catalogued
  <1> QED
    BY <1>5, <1>6, <1>7, <1>8, <1>9 DEF AtLevel

LEMMA CleanupDownStep ==
    ASSUME NEW d, AtLevel(8, d), NEW e,
           e = BackupDropped(Restore(InsertPermissions(d, Vanishing), d.backup)), e.ok
    PROVE  AtLevel(7, e)
  <1> DEFINE d1 == InsertPermissions(d, Vanishing)
             d2 == Restore(d1, d.backup)
  <1>a. e = BackupDropped(d2)
    OBVIOUS
  <1> HIDE DEF d1, d2
  <1>0. Sound(d) /\ d.ok /\ d.backup \in SUBSET Backup
    BY DEF AtLevel, Sound, Database
  <1>1. PermissionsInserted(d, Vanishing, d1)
    BY <1>0, InsertPermissionsIs, PermissionSets DEF d1, Vanishing
  <1>2. Restored(d1, d.backup, d2)
    BY <1>0, <1>1, RestoreIs DEF PermissionsInserted, d2
  <1>3. OtherThanBackup(d2, e) /\ e.backup = {}
    BY <1>a, <1>2, BackupDroppedIs DEF Restored
  <1>4. /\ e.labels = d.labels /\ e.roles = d.roles
        /\ e.permissions = d.permissions \cup Vanishing
        /\ e.backup = {} /\ e.backupAgain = d.backupAgain
    BY <1>1, <1>2, <1>3 DEF OtherThanBackup, PermissionsInserted, Restored, SameBackups
  <1>5. Sound(e) /\ e.ok
    BY <1>3 DEF OtherThanBackup
  <1>6. LabelsAt(7, e) /\ RolesAt(7, e) /\ BackupsAt(7, e)
    BY <1>4 DEF AtLevel, LabelsAt, RolesAt, BackupsAt
  <1>7. PermissionsAt(7, e)
    <2>1. Documents \cup OrgsManage \subseteq e.permissions
      BY <1>4 DEF Vanishing
    <2>2. ASSUME NEW m \in Labels, NEW v \in Verbs, Tracked(m, v)
          PROVE  <<m, v>> \in e.permissions <=> Catalogued(7, m, v)
      <3>1. <<m, v>> \in d.permissions <=> Catalogued(8, m, v)
        BY <2>2 DEF AtLevel, PermissionsAt
      <3>2. <<m, v>> \in e.permissions <=> <<m, v>> \in d.permissions
        BY <1>4, <2>2 DEF Tracked, Vanishing
      <3> QED
        BY <3>1, <3>2 DEF Catalogued
    <2> QED
      BY <2>1, <2>2 DEF PermissionsAt
  <1>8. LinksAt(7, e)
    <2> SUFFICES ASSUME NEW r \in Lasting, NEW m \in Labels, NEW v \in Verbs, Tracked(m, v)
                 PROVE  <<r, <<m, v>>>> \in e.links <=> Has(7, r, m, v)
      BY DEF LinksAt
    <2>1. <<r, <<m, v>>>> \in d.links <=> Has(8, r, m, v)
      BY DEF AtLevel, LinksAt
    <2>2. \A l \in d.backup : l[2] \in Vanishing
      BY DEF AtLevel, BackupsAt, Vanishing
    <2>3. <<r, <<m, v>>>> \notin d.backup
      BY <2>2 DEF Tracked, Vanishing
    <2>4. <<r, <<m, v>>>> \in e.links <=> <<r, <<m, v>>>> \in d.links
      BY <1>1, <1>2, <1>3, <2>3 DEF OtherThanBackup, PermissionsInserted, Restored
    <2> QED
      BY <2>1, <2>4 DEF Has, Catalogued
  <1> QED
    BY <1>5, <1>6, <1>7, <1>8 DEF AtLevel

LEMMA AddAuditorUpStep ==
    ASSUME NEW d, AtLevel(8, d), NEW e,
           e = DeleteLinks(Grant(InsertRoles(d, {"AUDITOR"}), {"AUDITOR"}, AuditRead),
                           {"VIEWER"}, AuditRead)
    PROVE  AtLevel(9, e)
  <1> DEFINE d1 == InsertRoles(d, {"AUDITOR"})
             d2 == Grant(d1, {"AUDITOR"}, AuditRead)
  <1>a. e = DeleteLinks(d2, {"VIEWER"}, AuditRead)
    OBVIOUS
  <1> HIDE DEF d1, d2
  <1>0. Sound(d) /\ d.ok
    BY DEF AtLevel
  <1>1. RolesInserted(d, {"AUDITOR"}, d1)
    <2>1. {"AUDITOR"} \in SUBSET Role
      BY DEF Role, SystemRoles
    <2> QED
      BY <1>0, <2>1, InsertRolesIs DEF d1
  <1>2. Granted(d1, {"AUDITOR"}, AuditRead, d2)
    BY <1>1, GrantIs DEF RolesInserted, d2
  <1>3. LinksDeleted(d2, {"VIEWER"}, AuditRead, e)
    BY <1>a, <1>2, DeleteLinksIs DEF Granted
  <1>4. /\ e.labels = d.labels /\ e.roles = d.roles \cup {"AUDITOR"}
        /\ e.permissions = d.permissions /\ SameBackups(d, e)
    BY <1>1, <1>2, <1>3 DEF RolesInserted, Granted, LinksDeleted, SameBackups
  <1>5. Sound(e) /\ e.ok
    BY <1>0, <1>1, <1>2, <1>3 DEF RolesInserted, Granted, LinksDeleted
  <1>6. LabelsAt(9, e) /\ RolesAt(9, e) /\ BackupsAt(9, e)
    BY <1>4 DEF AtLevel, LabelsAt, RolesAt, BackupsAt, SameBackups
  <1>7. PermissionsAt(9, e)
    BY <1>4 DEF AtLevel, PermissionsAt, Catalogued
  <1>8. LinksAt(9, e)
    <2> SUFFICES ASSUME NEW r \in Lasting, NEW m \in Labels, NEW v \in Verbs, Tracked(m, v)
                 PROVE  <<r, <<m, v>>>> \in e.links <=> Has(9, r, m, v)
      BY DEF LinksAt
    <2>1. <<r, <<m, v>>>> \in d.links <=> Has(8, r, m, v)
      BY DEF AtLevel, LinksAt
    <2>2. <<m, v>> \in AuditRead <=> m = "AUDIT" /\ v = "READ"
      BY Pairs
    <2>3. m = "AUDIT" /\ v = "READ" => <<m, v>> \in d1.permissions
      BY <1>1 DEF AtLevel, PermissionsAt, Catalogued, RolesInserted
    <2>4. "AUDITOR" \in d1.roles /\ (<<r, <<m, v>>>> \in d1.links <=> <<r, <<m, v>>>> \in d.links)
      BY <1>1 DEF RolesInserted
    <2>5. <<r, <<m, v>>>> \in d2.links <=>
            \/ <<r, <<m, v>>>> \in d.links
            \/ r = "AUDITOR" /\ m = "AUDIT" /\ v = "READ"
      BY <1>2, <2>2, <2>3, <2>4 DEF Granted
    <2>6. <<r, <<m, v>>>> \in e.links <=>
            <<r, <<m, v>>>> \in d2.links /\ ~(r = "VIEWER" /\ m = "AUDIT" /\ v = "READ")
      BY <1>3, <2>2 DEF LinksDeleted
    <2> QED
      BY <2>1, <2>5, <2>6 DEF Has, Catalogued
  <1> QED
    BY <1>5, <1>6, <1>7, <1>8 DEF AtLevel

LEMMA AddAuditorDownStep ==
    ASSUME NEW d, AtLevel(9, d), NEW e,
           e = DeleteRoles(Grant(d, {"VIEWER"}, AuditRead), {"AUDITOR"}), e.ok
    PROVE  AtLevel(8, e)
  <1> DEFINE d1 == Grant(d, {"VIEWER"}, AuditRead)
  <1>a. e = DeleteRoles(d1, {"AUDITOR"})
    OBVIOUS
  <1> HIDE DEF d1
  <1>0. Sound(d) /\ d.ok
    BY DEF AtLevel
  <1>1. Granted(d, {"VIEWER"}, AuditRead, d1)
    BY <1>0, GrantIs DEF d1
  <1>2. RolesDeleted(d1, {"AUDITOR"}, e)
    BY <1>a, <1>1, DeleteRolesIs DEF Granted
  <1>3. /\ e.labels = d.labels /\ e.roles = d.roles \ {"AUDITOR"}
        /\ e.permissions = d.permissions
        /\ e.backup = Lost({"AUDITOR"}, d.backup) /\ e.backupAgain = Lost({"AUDITOR"}, d.backupAgain)
    BY <1>1, <1>2 DEF RolesDeleted, Granted, SameBackups
  <1>4. LabelsAt(8, e) /\ RolesAt(8, e)
    BY <1>3 DEF AtLevel, LabelsAt, RolesAt
  <1>5. PermissionsAt(8, e)
    BY <1>3 DEF AtLevel, PermissionsAt, Catalogued
  <1>6. BackupsAt(8, e)
    <2>1. d.backup \in SUBSET Backup /\ d.backupAgain \in SUBSET Backup
      BY DEF AtLevel, Sound, Database
    <2> QED
      BY <1>3, <2>1, LostIs DEF AtLevel, BackupsAt
  <1>7. LinksAt(8, e)
    <2> SUFFICES ASSUME NEW r \in Lasting, NEW m \in Labels, NEW v \in Verbs, Tracked(m, v)
                 PROVE  <<r, <<m, v>>>> \in e.links <=> Has(8, r, m, v)
      BY DEF LinksAt
    <2>1. <<r, <<m, v>>>> \in d.links <=> Has(9, r, m, v)
      BY DEF AtLevel, LinksAt
    <2>2. <<m, v>> \in AuditRead <=> m = "AUDIT" /\ v = "READ"
      BY Pairs
    <2>3. (m = "AUDIT" /\ v = "READ" => <<m, v>> \in d.permissions) /\ "VIEWER" \in d.roles
      BY DEF AtLevel, PermissionsAt, RolesAt, Catalogued
    <2>4. <<r, <<m, v>>>> \in d1.links <=>
            \/ <<r, <<m, v>>>> \in d.links
            \/ r = "VIEWER" /\ m = "AUDIT" /\ v = "READ"
      BY <1>1, <2>2, <2>3 DEF Granted
    <2>5. <<r, <<m, v>>>> \in e.links <=> <<r, <<m, v>>>> \in d1.links /\ r # "AUDITOR"
      BY <1>2 DEF RolesDeleted
    <2> QED
      BY <2>1, <2>4, <2>5 DEF Has, Catalogued
  <1> QED
    BY <1>2, <1>4, <1>5, <1>6, <1>7 DEF AtLevel, RolesDeleted

Unheld(d, rs) == [d EXCEPT !.held = @ \ rs]

LEMMA UnheldIs ==
    ASSUME NEW d, Sound(d), NEW rs, NEW e, e = Unheld(d, rs)
    PROVE  /\ Sound(e) /\ SameBackups(d, e)
           /\ e.labels = d.labels /\ e.permissions = d.permissions /\ e.roles = d.roles
           /\ e.links = d.links /\ e.held = d.held \ rs
           /\ e.ok <=> d.ok
  <1>1. /\ e \in Database /\ SameBackups(d, e)
        /\ e.labels = d.labels /\ e.permissions = d.permissions /\ e.roles = d.roles
        /\ e.links = d.links /\ e.held = d.held \ rs /\ e.ok = d.ok
    BY DEF Sound, Database, Unheld, SameBackups
  <1> QED
    BY <1>1 DEF Sound

LEMMA RemoveSuperAdminUpStep ==
    ASSUME NEW d, AtLevel(9, d), NEW e,
           e = WithoutPlatform(DeleteRoles(DeletePermissions(Unheld(d, {"SUPER_ADMIN"}),
                                                             PlatformManage), {"SUPER_ADMIN"}))
    PROVE  AtLevel(10, e)
  <1> DEFINE d1 == Unheld(d, {"SUPER_ADMIN"})
             d2 == DeletePermissions(d1, PlatformManage)
             d3 == DeleteRoles(d2, {"SUPER_ADMIN"})
             ls == {"DOCUMENTS", "WORKFLOWS", "USERS", "ORGS", "ORG_STRUCTURE", "AUDIT"}
  <1>a. e = IF "PLATFORM" \in d3.labels THEN Retype(d3, ls) ELSE d3
    BY DEF WithoutPlatform
  <1> HIDE DEF d1, d2, d3, ls
  <1>0. Sound(d) /\ d.ok /\ d.backup \in SUBSET Backup /\ d.backupAgain \in SUBSET Backup
    BY DEF AtLevel, Sound, Database
  <1>1. /\ Sound(d1) /\ d1.ok /\ SameBackups(d, d1)
        /\ d1.labels = d.labels /\ d1.permissions = d.permissions /\ d1.roles = d.roles
        /\ d1.links = d.links /\ d1.held = d.held \ {"SUPER_ADMIN"}
    BY <1>0, UnheldIs DEF d1
  <1>2. PermissionsDeleted(d1, PlatformManage, d2)
    BY <1>1, DeletePermissionsIs DEF d2
  <1>3. RolesDeleted(d2, {"SUPER_ADMIN"}, d3)
    BY <1>2, DeleteRolesIs DEF PermissionsDeleted, d3
  <1>4. /\ Sound(d3) /\ d3.labels = d.labels /\ d3.roles = d.roles \ {"SUPER_ADMIN"}
        /\ d3.permissions = d.permissions \ PlatformManage
        /\ d3.backup = Lost({"SUPER_ADMIN"}, d.backup)
        /\ d3.backupAgain = Lost({"SUPER_ADMIN"}, d.backupAgain)
    BY <1>1, <1>2, <1>3 DEF PermissionsDeleted, RolesDeleted, SameBackups
  <1>5. d3.ok
    <2>1. d2.ok /\ d2.held = d.held \ {"SUPER_ADMIN"}
      BY <1>1, <1>2 DEF PermissionsDeleted
    <2> QED
      BY <1>3, <2>1 DEF RolesDeleted
  <1>6. Modules(d3.permissions) \subseteq ls
    <2> SUFFICES ASSUME NEW p \in d.permissions, p \notin PlatformManage PROVE p[1] \in ls
      BY <1>4 DEF Modules
    <2>1. PICK m \in Labels, v \in Verbs :
              /\ p = <<m, v>>
              /\ \/ m = "DOCUMENTS" /\ p \in Documents
                 \/ m = "ORGS" /\ v = "MANAGE"
                 \/ m = "PLATFORM" /\ v = "MANAGE"
                 \/ Catalogued(9, m, v)
      BY KindsOf
    <2>2. ~(m = "PLATFORM" /\ v = "MANAGE")
      BY <2>1, Pairs
    <2> QED
      BY <2>1, <2>2 DEF Catalogued, ls
  <1>7. /\ Sound(e) /\ e.ok /\ SameBackups(d3, e)
        /\ e.permissions = d3.permissions /\ e.roles = d3.roles /\ e.links = d3.links
        /\ e.labels = IF "PLATFORM" \in d.labels THEN ls ELSE d.labels
    <2>1. CASE "PLATFORM" \in d3.labels
      <3>1. Retyped(d3, ls, e)
        BY <1>a, <1>4, <2>1, RetypeIs DEF ls, Labels
      <3> QED
        BY <1>4, <1>5, <1>6, <2>1, <3>1 DEF Retyped
    <2>2. CASE "PLATFORM" \notin d3.labels
      BY <1>a, <1>4, <1>5, <2>2 DEF SameBackups
    <2> QED
      BY <2>1, <2>2
  <1>8. LabelsAt(10, e)
    BY <1>7 DEF AtLevel, LabelsAt, ls
  <1>9. RolesAt(10, e)
    BY <1>4, <1>7 DEF AtLevel, RolesAt
  <1>10. BackupsAt(10, e)
    <2>1. /\ \A l \in e.backup : \E k \in d.backup : l[2] = k[2]
          /\ \A l \in e.backupAgain : \E k \in d.backupAgain : l[2] = k[2]
      BY <1>0, <1>4, <1>7, LostIs DEF SameBackups
    <2> QED
      BY <2>1 DEF AtLevel, BackupsAt
  <1>11. PermissionsAt(10, e)
    <2>1. <<"PLATFORM", "MANAGE">> \notin e.permissions
      BY <1>4, <1>7 DEF PlatformManage, Of
    <2>2. <<"ORGS", "MANAGE">> \notin e.permissions
      BY <1>4, <1>7 DEF AtLevel, PermissionsAt
    <2>3. ASSUME NEW m \in Labels, NEW v \in Verbs, Tracked(m, v)
          PROVE  <<m, v>> \in e.permissions <=> Catalogued(10, m, v)
      <3>1. <<m, v>> \in d.permissions <=> Catalogued(9, m, v)
        BY <2>3 DEF AtLevel, PermissionsAt
      <3> QED
        BY <1>4, <1>7, <2>3, <3>1, TrackedApart DEF Catalogued
    <2> QED
      BY <2>1, <2>2, <2>3 DEF PermissionsAt
  <1>12. LinksAt(10, e)
    <2> SUFFICES ASSUME NEW r \in Lasting, NEW m \in Labels, NEW v \in Verbs, Tracked(m, v)
                 PROVE  <<r, <<m, v>>>> \in e.links <=> Has(10, r, m, v)
      BY DEF LinksAt
    <2>1. <<r, <<m, v>>>> \in d.links <=> Has(9, r, m, v)
      BY DEF AtLevel, LinksAt
    <2>2. r # "SUPER_ADMIN" /\ <<m, v>> \notin PlatformManage
      BY TrackedApart DEF Lasting
    <2>3. <<r, <<m, v>>>> \in e.links <=> <<r, <<m, v>>>> \in d.links
      BY <1>1, <1>2, <1>3, <1>7, <2>2 DEF PermissionsDeleted, RolesDeleted
    <2> QED
      BY <2>1, <2>3 DEF Has, Catalogued
  <1> QED
    BY <1>7, <1>8, <1>9, <1>10, <1>11, <1>12 DEF AtLevel

LEMMA RemoveSuperAdminDownStep ==
    ASSUME NEW d, AtLevel(10, d), NEW d1,
           d1 = IF "PLATFORM" \in d.labels THEN d
                ELSE Retype(d, {"DOCUMENTS", "WORKFLOWS", "USERS", "ORGS", "ORG_STRUCTURE",
                                "AUDIT", "PLATFORM"}),
           NEW d2, d2 = InsertRoles(InsertPermissions(d1, PlatformManage), {"SUPER_ADMIN"}),
           NEW e, e = Grant(d2, {"SUPER_ADMIN"}, d2.permissions), e.ok
    PROVE  AtLevel(9, e)
  <1> DEFINE ls == {"DOCUMENTS", "WORKFLOWS", "USERS", "ORGS", "ORG_STRUCTURE", "AUDIT",
                    "PLATFORM"}
             d0 == InsertPermissions(d1, PlatformManage)
  <1>0. Sound(d) /\ d.ok
    BY DEF AtLevel
  <1>1. /\ Sound(d1) /\ SameBackups(d, d1)
        /\ d1.permissions = d.permissions /\ d1.roles = d.roles /\ d1.links = d.links
        /\ d1.labels = IF "PLATFORM" \in d.labels THEN d.labels ELSE ls
    <2>1. CASE "PLATFORM" \in d.labels
      BY <1>0, <2>1 DEF SameBackups
    <2>2. CASE "PLATFORM" \notin d.labels
      <3>1. Retyped(d, ls, d1)
        BY <1>0, <2>2, RetypeIs DEF Labels
      <3> QED
        BY <2>2, <3>1 DEF Retyped
    <2> QED
      BY <2>1, <2>2
  <1>a. d2 = InsertRoles(d0, {"SUPER_ADMIN"})
    OBVIOUS
  <1> HIDE DEF d0
  <1>2. PermissionsInserted(d1, PlatformManage, d0)
    BY <1>1, InsertPermissionsIs, PermissionSets DEF d0
  <1>3. RolesInserted(d0, {"SUPER_ADMIN"}, d2)
    <2>1. {"SUPER_ADMIN"} \in SUBSET Role
      BY DEF Role, SystemRoles
    <2> QED
      BY <1>a, <1>2, <2>1, InsertRolesIs DEF PermissionsInserted
  <1>4. Granted(d2, {"SUPER_ADMIN"}, d2.permissions, e)
    BY <1>3, GrantIs DEF RolesInserted
  <1>5. /\ Sound(e) /\ e.ok /\ e.labels = d1.labels /\ e.roles = d.roles \cup {"SUPER_ADMIN"}
        /\ e.permissions = d.permissions \cup PlatformManage /\ SameBackups(d, e)
    <2>1. /\ d2.labels = d1.labels /\ d2.roles = d.roles \cup {"SUPER_ADMIN"}
          /\ d2.permissions = d.permissions \cup PlatformManage /\ SameBackups(d, d2)
      BY <1>1, <1>2, <1>3 DEF PermissionsInserted, RolesInserted, SameBackups
    <2>2. Sound(e) /\ e.ok
      BY <1>4 DEF Granted
    <2> QED
      BY <1>4, <2>1, <2>2 DEF Granted, SameBackups
  <1>6. LabelsAt(9, e)
    BY <1>1, <1>5 DEF AtLevel, LabelsAt
  <1>7. RolesAt(9, e) /\ BackupsAt(9, e)
    BY <1>5 DEF AtLevel, RolesAt, BackupsAt, SameBackups
  <1>8. PermissionsAt(9, e)
    <2>1. <<"ORGS", "MANAGE">> \notin e.permissions
      BY <1>5 DEF AtLevel, PermissionsAt, PlatformManage, Of
    <2>2. ASSUME NEW m \in Labels, NEW v \in Verbs, Tracked(m, v)
          PROVE  <<m, v>> \in e.permissions <=> Catalogued(9, m, v)
      <3>1. <<m, v>> \in d.permissions <=> Catalogued(10, m, v)
        BY <2>2 DEF AtLevel, PermissionsAt
      <3> QED
        BY <1>5, <2>2, <3>1, TrackedApart DEF Catalogued
    <2> QED
      BY <2>1, <2>2 DEF PermissionsAt
  <1>9. LinksAt(9, e)
    <2> SUFFICES ASSUME NEW r \in Lasting, NEW m \in Labels, NEW v \in Verbs, Tracked(m, v)
                 PROVE  <<r, <<m, v>>>> \in e.links <=> Has(9, r, m, v)
      BY DEF LinksAt
    <2>1. <<r, <<m, v>>>> \in d.links <=> Has(10, r, m, v)
      BY DEF AtLevel, LinksAt
    <2>2. r \notin {"SUPER_ADMIN"}
      BY DEF Lasting
    <2>3. <<r, <<m, v>>>> \in e.links <=> <<r, <<m, v>>>> \in d2.links
      BY <1>4, <2>2 DEF Granted
    <2>4. <<r, <<m, v>>>> \in e.links <=> <<r, <<m, v>>>> \in d.links
      BY <1>1, <1>2, <1>3, <2>3 DEF PermissionsInserted, RolesInserted
    <2> QED
      BY <2>1, <2>4 DEF Has, Catalogued
  <1> QED
    BY <1>5, <1>6, <1>7, <1>8, <1>9 DEF AtLevel

\* The modules of the catalogue between two levels at which its labels change.
LEMMA RenameUpStep ==
    ASSUME NEW d, AtLevel(11, d), NEW e, e = Renamed(d, "ORGS", "ROLES")
    PROVE  AtLevel(12, e)
  <1>1. ModuleRenamed(d, "ORGS", "ROLES", e)
    BY RenamedIs DEF AtLevel, LabelsAt, Labels
  <1>2. LabelsAt(12, e) /\ RolesAt(12, e) /\ BackupsAt(12, e)
    BY <1>1 DEF AtLevel, ModuleRenamed, LabelsAt, RolesAt, BackupsAt, SameBackups
  <1>3. ASSUME NEW v \in Verbs
        PROVE  /\ v # "MANAGE" => (<<"ORGS", v>> \in d.permissions <=> Catalogued(11, "ORGS", v))
               /\ v = "MANAGE" => <<"ORGS", v>> \notin d.permissions
               /\ <<"ROLES", v>> \notin d.permissions
               /\ v # "MANAGE" => Tracked("ORGS", v)
    <2>1. (v # "MANAGE" => Tracked("ORGS", v)) /\ Tracked("ROLES", v)
      BY Pairs DEF Tracked
    <2>2. "ORGS" \in Labels /\ "ROLES" \in Labels
      BY DEF Labels
    <2>3. v # "MANAGE" => (<<"ORGS", v>> \in d.permissions <=> Catalogued(11, "ORGS", v))
      BY <1>3, <2>1, <2>2 DEF AtLevel, PermissionsAt
    <2>4. <<"ROLES", v>> \in d.permissions <=> Catalogued(11, "ROLES", v)
      BY <1>3, <2>1, <2>2 DEF AtLevel, PermissionsAt
    <2>5. v = "MANAGE" => <<"ORGS", v>> \notin d.permissions
      BY DEF AtLevel, PermissionsAt
    <2> QED
      BY <2>1, <2>3, <2>4, <2>5 DEF Catalogued
  <1>4. PermissionsAt(12, e)
    <2>1. <<"ORGS", "MANAGE">> \notin e.permissions
      <3>1. <<"ORGS", "MANAGE">> \in e.permissions <=>
              \/ "ORGS" # "ORGS" /\ <<"ORGS", "MANAGE">> \in d.permissions
              \/ "ORGS" = "ROLES" /\ <<"ORGS", "MANAGE">> \in d.permissions
        BY <1>1 DEF ModuleRenamed
      <3> QED
        BY <3>1
    <2>2. <<"PLATFORM", "MANAGE">> \notin e.permissions
      BY <1>1 DEF AtLevel, PermissionsAt, ModuleRenamed
    <2>3. ASSUME NEW m \in Labels, NEW v \in Verbs, Tracked(m, v)
          PROVE  <<m, v>> \in e.permissions <=> Catalogued(12, m, v)
      <3>1. <<m, v>> \in d.permissions <=> Catalogued(11, m, v)
        BY <2>3 DEF AtLevel, PermissionsAt
      <3>2. <<m, v>> \in e.permissions <=> \/ m # "ORGS" /\ <<m, v>> \in d.permissions
                                           \/ m = "ROLES" /\ <<"ORGS", v>> \in d.permissions
        BY <1>1 DEF ModuleRenamed
      <3> QED
        BY <1>3, <3>1, <3>2 DEF Catalogued
    <2> QED
      BY <2>1, <2>2, <2>3 DEF PermissionsAt
  <1>5. LinksAt(12, e)
    <2> SUFFICES ASSUME NEW r \in Lasting, NEW m \in Labels, NEW v \in Verbs, Tracked(m, v)
                 PROVE  <<r, <<m, v>>>> \in e.links <=> Has(12, r, m, v)
      BY DEF LinksAt
    <2>1. <<r, <<m, v>>>> \in d.links <=> Has(11, r, m, v)
      BY DEF AtLevel, LinksAt
    <2>2. <<r, <<m, v>>>> \in e.links <=> \/ m # "ORGS" /\ <<r, <<m, v>>>> \in d.links
                                          \/ m = "ROLES" /\ <<r, <<"ORGS", v>>>> \in d.links
      BY <1>1 DEF ModuleRenamed
    <2>3. <<r, <<"ORGS", v>>>> \in d.links <=> Has(11, r, "ORGS", v)
      <3>1. CASE v = "MANAGE"
        <4>1. <<r, <<"ORGS", v>>>> \notin d.links
          <5>1. d.links \subseteq d.roles \X d.permissions
            BY DEF AtLevel, Sound
          <5> QED
            BY <1>3, <3>1, <5>1
        <4> QED
          BY <3>1, <4>1 DEF Has, Catalogued
      <3>2. CASE v # "MANAGE"
        <4>1. Tracked("ORGS", v) /\ "ORGS" \in Labels
          BY <1>3, <3>2 DEF Labels
        <4> QED
          BY <4>1 DEF AtLevel, LinksAt
      <3> QED
        BY <3>1, <3>2
    <2> QED
      BY <2>1, <2>2, <2>3 DEF Has, Catalogued
  <1> QED
    BY <1>1, <1>2, <1>4, <1>5 DEF AtLevel, ModuleRenamed

LEMMA RenameDownStep ==
    ASSUME NEW d, AtLevel(12, d), NEW e, e = Renamed(d, "ROLES", "ORGS")
    PROVE  AtLevel(11, e)
  <1>1. ModuleRenamed(d, "ROLES", "ORGS", e)
    BY RenamedIs DEF AtLevel, LabelsAt, Labels
  <1>2. LabelsAt(11, e) /\ RolesAt(11, e) /\ BackupsAt(11, e)
    BY <1>1 DEF AtLevel, ModuleRenamed, LabelsAt, RolesAt, BackupsAt, SameBackups
  <1>3. ASSUME NEW v \in Verbs
        PROVE  /\ Tracked("ROLES", v)
               /\ <<"ROLES", v>> \in d.permissions <=> Catalogued(12, "ROLES", v)
    <2>1. Tracked("ROLES", v) /\ "ROLES" \in Labels
      BY Pairs DEF Tracked, Labels
    <2> QED
      BY <1>3, <2>1 DEF AtLevel, PermissionsAt
  <1>4. PermissionsAt(11, e)
    <2>1. <<"ORGS", "MANAGE">> \notin e.permissions
      <3>1. ~Catalogued(12, "ROLES", "MANAGE") /\ "MANAGE" \in Verbs
        BY DEF Catalogued, Verbs
      <3>2. <<"ROLES", "MANAGE">> \notin d.permissions
        BY <1>3, <3>1
      <3>3. <<"ORGS", "MANAGE">> \notin d.permissions
        BY DEF AtLevel, PermissionsAt
      <3> QED
        BY <1>1, <3>2, <3>3 DEF ModuleRenamed
    <2>2. <<"PLATFORM", "MANAGE">> \notin e.permissions
      <3>1. <<"PLATFORM", "MANAGE">> \in e.permissions <=>
              \/ "PLATFORM" # "ROLES" /\ <<"PLATFORM", "MANAGE">> \in d.permissions
              \/ "PLATFORM" = "ORGS" /\ <<"ROLES", "MANAGE">> \in d.permissions
        BY <1>1 DEF ModuleRenamed
      <3>2. <<"PLATFORM", "MANAGE">> \notin d.permissions
        BY DEF AtLevel, PermissionsAt
      <3> QED
        BY <3>1, <3>2
    <2>3. ASSUME NEW m \in Labels, NEW v \in Verbs, Tracked(m, v)
          PROVE  <<m, v>> \in e.permissions <=> Catalogued(11, m, v)
      <3>1. <<m, v>> \in d.permissions <=> Catalogued(12, m, v)
        BY <2>3 DEF AtLevel, PermissionsAt
      <3>2. <<m, v>> \in e.permissions <=> \/ m # "ROLES" /\ <<m, v>> \in d.permissions
                                           \/ m = "ORGS" /\ <<"ROLES", v>> \in d.permissions
        BY <1>1 DEF ModuleRenamed
      <3> QED
        BY <1>3, <3>1, <3>2 DEF Catalogued
    <2> QED
      BY <2>1, <2>2, <2>3 DEF PermissionsAt
  <1>5. LinksAt(11, e)
    <2> SUFFICES ASSUME NEW r \in Lasting, NEW m \in Labels, NEW v \in Verbs, Tracked(m, v)
                 PROVE  <<r, <<m, v>>>> \in e.links <=> Has(11, r, m, v)
      BY DEF LinksAt
    <2>1. <<r, <<m, v>>>> \in d.links <=> Has(12, r, m, v)
      BY DEF AtLevel, LinksAt
    <2>2. <<r, <<m, v>>>> \in e.links <=> \/ m # "ROLES" /\ <<r, <<m, v>>>> \in d.links
                                          \/ m = "ORGS" /\ <<r, <<"ROLES", v>>>> \in d.links
      BY <1>1 DEF ModuleRenamed
    <2>3. <<r, <<"ROLES", v>>>> \in d.links <=> Has(12, r, "ROLES", v)
      BY <1>3 DEF AtLevel, LinksAt, Labels
    <2> QED
      BY <2>1, <2>2, <2>3 DEF Has, Catalogued
  <1> QED
    BY <1>1, <1>2, <1>4, <1>5 DEF AtLevel, ModuleRenamed

BackedUpAgain(d, ps) == [d EXCEPT !.backupAgain = @ \cup LinksOf(d, ps)]
AgainDropped(d) == [d EXCEPT !.backupAgain = {}]

OtherThanAgain(d, e) ==
    /\ Sound(e)
    /\ e.labels = d.labels /\ e.permissions = d.permissions /\ e.roles = d.roles
    /\ e.links = d.links /\ e.held = d.held /\ e.backup = d.backup
    /\ e.ok <=> d.ok

LEMMA BackedUpAgainIs ==
    ASSUME NEW d, Sound(d), NEW ps, NEW e, e = BackedUpAgain(d, ps)
    PROVE  OtherThanAgain(d, e) /\ e.backupAgain = d.backupAgain \cup LinksOf(d, ps)
  <1> DEFINE kept == d.backupAgain \cup LinksOf(d, ps)
  <1>1. kept \in SUBSET Backup
    BY DEF Sound, Database, LinksOf
  <1>2. e = [d EXCEPT !.backupAgain = kept]
    BY DEF BackedUpAgain
  <1> HIDE DEF kept
  <1>3. /\ e \in Database /\ e.backupAgain = kept
        /\ e.labels = d.labels /\ e.permissions = d.permissions /\ e.roles = d.roles
        /\ e.links = d.links /\ e.held = d.held /\ e.backup = d.backup
        /\ e.ok = d.ok
    BY <1>1, <1>2 DEF Sound, Database
  <1> QED
    BY <1>3 DEF OtherThanAgain, Sound, kept

LEMMA AgainDroppedIs ==
    ASSUME NEW d, Sound(d), NEW e, e = AgainDropped(d)
    PROVE  OtherThanAgain(d, e) /\ e.backupAgain = {}
  <1>1. /\ e \in Database /\ e.backupAgain = {}
        /\ e.labels = d.labels /\ e.permissions = d.permissions /\ e.roles = d.roles
        /\ e.links = d.links /\ e.held = d.held /\ e.backup = d.backup
        /\ e.ok = d.ok
    BY DEF Sound, Database, AgainDropped
  <1> QED
    BY <1>1 DEF OtherThanAgain, Sound

LEMMA RemoveDocumentsUpStep ==
    ASSUME NEW d, AtLevel(12, d), NEW e,
           e = DeletePermissions(BackedUpAgain(d, Documents), Documents)
    PROVE  AtLevel(13, e)
  <1> DEFINE d1 == BackedUpAgain(d, Documents)
  <1>a. e = DeletePermissions(d1, Documents)
    OBVIOUS
  <1> HIDE DEF d1
  <1>0. Sound(d) /\ d.ok
    BY DEF AtLevel
  <1>1. OtherThanAgain(d, d1) /\ d1.backupAgain = d.backupAgain \cup LinksOf(d, Documents)
    BY <1>0, BackedUpAgainIs DEF d1
  <1>2. PermissionsDeleted(d1, Documents, e)
    BY <1>a, <1>1, DeletePermissionsIs DEF OtherThanAgain
  <1>3. /\ e.labels = d.labels /\ e.roles = d.roles
        /\ e.permissions = d.permissions \ Documents
        /\ e.backup = d.backup /\ e.backupAgain = d.backupAgain \cup LinksOf(d, Documents)
    BY <1>1, <1>2 DEF OtherThanAgain, PermissionsDeleted, SameBackups
  <1>4. Sound(e) /\ e.ok
    BY <1>0, <1>1, <1>2 DEF OtherThanAgain, PermissionsDeleted
  <1>5. LabelsAt(13, e) /\ RolesAt(13, e)
    BY <1>3 DEF AtLevel, LabelsAt, RolesAt
  <1>6. BackupsAt(13, e)
    BY <1>3 DEF AtLevel, BackupsAt, LinksOf
  <1>7. PermissionsAt(13, e)
    <2>1. <<"ORGS", "MANAGE">> \notin e.permissions /\ <<"PLATFORM", "MANAGE">> \notin e.permissions
      BY <1>3 DEF AtLevel, PermissionsAt
    <2>2. ASSUME NEW m \in Labels, NEW v \in Verbs, Tracked(m, v)
          PROVE  <<m, v>> \in e.permissions <=> Catalogued(13, m, v)
      <3>1. <<m, v>> \in d.permissions <=> Catalogued(12, m, v)
        BY <2>2 DEF AtLevel, PermissionsAt
      <3> QED
        BY <1>3, <2>2, <3>1 DEF Tracked, Catalogued
    <2> QED
      BY <2>1, <2>2 DEF PermissionsAt
  <1>8. LinksAt(13, e)
    <2>1. ASSUME NEW r \in Lasting, NEW m \in Labels, NEW v \in Verbs, Tracked(m, v)
          PROVE  <<r, <<m, v>>>> \in e.links <=> Has(13, r, m, v)
      <3>1. <<r, <<m, v>>>> \in d.links <=> Has(12, r, m, v)
        BY <2>1 DEF AtLevel, LinksAt
      <3>2. <<r, <<m, v>>>> \in e.links <=> <<r, <<m, v>>>> \in d.links
        BY <1>1, <1>2, <2>1 DEF OtherThanAgain, PermissionsDeleted, Tracked
      <3> QED
        BY <3>1, <3>2 DEF Has, Catalogued
    <2>2. \A r, p : p \in Documents => <<r, p>> \notin e.links
      BY <1>2 DEF PermissionsDeleted
    <2> QED
      BY <2>1, <2>2 DEF LinksAt
  <1> QED
    BY <1>4, <1>5, <1>6, <1>7, <1>8 DEF AtLevel

LEMMA RemoveDocumentsDownStep ==
    ASSUME NEW d, AtLevel(13, d), NEW e,
           e = AgainDropped(Restore(InsertPermissions(d, DocumentsAgain), d.backupAgain)), e.ok
    PROVE  AtLevel(12, e)
  <1> DEFINE d1 == InsertPermissions(d, DocumentsAgain)
             d2 == Restore(d1, d.backupAgain)
  <1>a. e = AgainDropped(d2)
    OBVIOUS
  <1> HIDE DEF d1, d2
  <1>0. Sound(d) /\ d.ok /\ d.backupAgain \in SUBSET Backup
    BY DEF AtLevel, Sound, Database
  <1>1. PermissionsInserted(d, DocumentsAgain, d1)
    BY <1>0, InsertPermissionsIs, PermissionSets DEF d1
  <1>2. Restored(d1, d.backupAgain, d2)
    BY <1>0, <1>1, RestoreIs DEF PermissionsInserted, d2
  <1>3. OtherThanAgain(d2, e) /\ e.backupAgain = {}
    BY <1>a, <1>2, AgainDroppedIs DEF Restored
  <1>4. /\ e.labels = d.labels /\ e.roles = d.roles
        /\ e.permissions = d.permissions \cup DocumentsAgain
        /\ e.backupAgain = {} /\ e.backup = d.backup
    BY <1>1, <1>2, <1>3 DEF OtherThanAgain, PermissionsInserted, Restored, SameBackups
  <1>5. Sound(e) /\ e.ok
    BY <1>3 DEF OtherThanAgain
  <1>6. LabelsAt(12, e) /\ RolesAt(12, e) /\ BackupsAt(12, e)
    BY <1>4 DEF AtLevel, LabelsAt, RolesAt, BackupsAt
  <1>7. PermissionsAt(12, e)
    <2>1. <<"ORGS", "MANAGE">> \notin e.permissions /\ <<"PLATFORM", "MANAGE">> \notin e.permissions
      BY <1>4 DEF AtLevel, PermissionsAt, DocumentsAgain, Of
    <2>2. ASSUME NEW m \in Labels, NEW v \in Verbs, Tracked(m, v)
          PROVE  <<m, v>> \in e.permissions <=> Catalogued(12, m, v)
      <3>1. <<m, v>> \in d.permissions <=> Catalogued(13, m, v)
        BY <2>2 DEF AtLevel, PermissionsAt
      <3> QED
        BY <1>4, <2>2, <3>1, TrackedApart DEF Catalogued
    <2> QED
      BY <2>1, <2>2 DEF PermissionsAt
  <1>8. LinksAt(12, e)
    <2> SUFFICES ASSUME NEW r \in Lasting, NEW m \in Labels, NEW v \in Verbs, Tracked(m, v)
                 PROVE  <<r, <<m, v>>>> \in e.links <=> Has(12, r, m, v)
      BY DEF LinksAt
    <2>1. <<r, <<m, v>>>> \in d.links <=> Has(13, r, m, v)
      BY DEF AtLevel, LinksAt
    <2>2. \A l \in d.backupAgain : l[2] \in Documents
      BY DEF AtLevel, BackupsAt
    <2>3. <<r, <<m, v>>>> \notin d.backupAgain
      BY <2>2 DEF Tracked
    <2>4. <<r, <<m, v>>>> \in e.links <=> <<r, <<m, v>>>> \in d.links
      BY <1>1, <1>2, <1>3, <2>3 DEF OtherThanAgain, PermissionsInserted, Restored
    <2> QED
      BY <2>1, <2>4 DEF Has, Catalogued
  <1> QED
    BY <1>5, <1>6, <1>7, <1>8 DEF AtLevel

-----------------------------------------------------------------------------
(* The application *)

\* What a seeder writes is in the catalogue already, or not tracked.
LEMMA SeederStep ==
    ASSUME NEW n \in 8..13, NEW d, AtLevel(n, d), NEW ps \in SUBSET Permission,
           Modules(ps) \subseteq d.labels,
           \A m, v : <<m, v>> \in ps => <<m, v>> \in DocumentsAgain \/ Catalogued(n, m, v),
           NEW e, e = InsertPermissions(d, ps)
    PROVE  AtLevel(n, e)
  <1>1. PermissionsInserted(d, ps, e)
    BY InsertPermissionsIs DEF AtLevel
  <1>2. Sound(e) /\ e.ok
    BY <1>1 DEF AtLevel, PermissionsInserted
  <1>3. LabelsAt(n, e) /\ RolesAt(n, e) /\ BackupsAt(n, e)
    BY <1>1 DEF AtLevel, PermissionsInserted, LabelsAt, RolesAt, BackupsAt, SameBackups
  <1>4. e.permissions = d.permissions \cup ps /\ e.links = d.links
    BY <1>1 DEF PermissionsInserted
  <1>5. PermissionsAt(n, e)
    <2>1. ASSUME NEW m \in Labels, NEW v \in Verbs, Tracked(m, v)
          PROVE  <<m, v>> \in e.permissions <=> Catalogued(n, m, v)
      <3>1. <<m, v>> \in d.permissions <=> Catalogued(n, m, v)
        BY <2>1 DEF AtLevel, PermissionsAt
      <3>2. <<m, v>> \in ps => Catalogued(n, m, v)
        BY <2>1, TrackedApart
      <3> QED
        BY <1>4, <3>1, <3>2
    <2>2. <<"ORGS", "MANAGE">> \notin ps /\ <<"PLATFORM", "MANAGE">> \notin ps
      <3>1. <<"ORGS", "MANAGE">> \notin DocumentsAgain /\ <<"PLATFORM", "MANAGE">> \notin DocumentsAgain
        BY Pairs
      <3>2. ~Catalogued(n, "ORGS", "MANAGE") /\ ~Catalogued(n, "PLATFORM", "MANAGE")
        BY DEF Catalogued
      <3> QED
        BY <3>1, <3>2
    <2>3. /\ n >= 8 => <<"ORGS", "MANAGE">> \notin e.permissions
          /\ n >= 10 => <<"PLATFORM", "MANAGE">> \notin e.permissions
      BY <1>4, <2>2 DEF AtLevel, PermissionsAt
    <2> QED
      BY <2>1, <2>3 DEF PermissionsAt
  <1>6. LinksAt(n, e)
    BY <1>4 DEF AtLevel, LinksAt
  <1> QED
    BY <1>2, <1>3, <1>5, <1>6 DEF AtLevel

LEMMA BootStep ==
    ASSUME NEW d, AtLevel(13, d), NEW e, e = InsertPermissions(d, PERMISSIONS_CATALOG)
    PROVE  AtLevel(13, e)
  <1>1. Modules(PERMISSIONS_CATALOG) \subseteq d.labels
    BY DEF AtLevel, LabelsAt, Modules, PERMISSIONS_CATALOG, OrgStructure, AuditRead, Of
  <1>2. \A m, v : <<m, v>> \in PERMISSIONS_CATALOG => Catalogued(13, m, v)
    BY Pairs
  <1> QED
    BY <1>1, <1>2, SeederStep, PermissionSets

LEMMA BootOldStep ==
    ASSUME NEW n \in 8..13, NEW d, AtLevel(n, d), NEW e, e = InsertPermissions(d, DocumentsAgain)
    PROVE  AtLevel(n, e)
  <1>1. Modules(DocumentsAgain) \subseteq d.labels
    BY DEF AtLevel, LabelsAt, Modules, DocumentsAgain, Of
  <1> QED
    BY <1>1, SeederStep, PermissionSets

\* A change of the application that leaves the system roles alone.
LEMMA EditStep ==
    ASSUME NEW n \in 2..13, NEW d, AtLevel(n, d), NEW e, Sound(e), e.ok,
           e.labels = d.labels, e.permissions = d.permissions,
           e.roles \cap SystemRoles = d.roles \cap SystemRoles,
           \A r \in SystemRoles : \A p : <<r, p>> \in e.links <=> <<r, p>> \in d.links,
           \A l \in e.backup : \E k \in d.backup : l[2] = k[2],
           \A l \in e.backupAgain : \E k \in d.backupAgain : l[2] = k[2]
    PROVE  AtLevel(n, e)
  <1>1. LabelsAt(n, e) /\ PermissionsAt(n, e)
    BY DEF AtLevel, LabelsAt, PermissionsAt
  <1>2. \A r \in SystemRoles : r \in e.roles <=> r \in d.roles
    OBVIOUS
  <1>3. RolesAt(n, e)
    BY <1>2 DEF AtLevel, RolesAt, SystemRoles
  <1>4. LinksAt(n, e)
    BY DEF AtLevel, LinksAt, Lasting, SystemRoles
  <1>5. BackupsAt(n, e)
    <2>1. n <= 7 => e.backup = {}
      BY DEF AtLevel, BackupsAt
    <2> QED
      BY <2>1 DEF AtLevel, BackupsAt
  <1> QED
    BY <1>1, <1>3, <1>4, <1>5 DEF AtLevel

LEMMA SavePermissionsStep ==
    ASSUME NEW n \in 2..13, NEW d, AtLevel(n, d), NEW ps, NEW e,
           e = Grant(DeleteLinks(InsertRoles(d, {Custom}), {Custom}, d.permissions), {Custom}, ps)
    PROVE  AtLevel(n, e)
  <1> DEFINE d1 == InsertRoles(d, {Custom})
             d2 == DeleteLinks(d1, {Custom}, d.permissions)
  <1>a. e = Grant(d2, {Custom}, ps)
    OBVIOUS
  <1> HIDE DEF d1, d2
  <1>0. Sound(d) /\ d.ok /\ Custom \notin SystemRoles
    BY RoleMigrationsAssumption DEF AtLevel
  <1>1. RolesInserted(d, {Custom}, d1)
    <2>1. {Custom} \in SUBSET Role
      BY DEF Role
    <2> QED
      BY <1>0, <2>1, InsertRolesIs DEF d1
  <1>2. LinksDeleted(d1, {Custom}, d.permissions, d2)
    BY <1>1, DeleteLinksIs DEF RolesInserted, d2
  <1>3. Granted(d2, {Custom}, ps, e)
    BY <1>a, <1>2, GrantIs DEF LinksDeleted
  <1>4. /\ Sound(e) /\ e.ok /\ e.labels = d.labels /\ e.permissions = d.permissions
        /\ e.roles = d.roles \cup {Custom} /\ SameBackups(d, e)
    BY <1>0, <1>1, <1>2, <1>3 DEF RolesInserted, LinksDeleted, Granted, SameBackups
  <1>5. ASSUME NEW r \in SystemRoles, NEW p
        PROVE  <<r, p>> \in e.links <=> <<r, p>> \in d.links
    <2>1. r \notin {Custom}
      BY <1>0
    <2>2. <<r, p>> \in e.links <=> <<r, p>> \in d2.links
      BY <1>3, <2>1 DEF Granted
    <2>3. <<r, p>> \in d2.links <=> <<r, p>> \in d1.links
      BY <1>2, <2>1 DEF LinksDeleted
    <2> QED
      BY <1>1, <2>2, <2>3 DEF RolesInserted
  <1>6. e.roles \cap SystemRoles = d.roles \cap SystemRoles
    BY <1>0, <1>4
  <1> QED
    BY <1>4, <1>5, <1>6, EditStep DEF SameBackups

LEMMA RemoveCustomStep ==
    ASSUME NEW n \in 2..13, NEW d, AtLevel(n, d), Custom \notin d.held, NEW e,
           e = DeleteRoles(d, {Custom})
    PROVE  AtLevel(n, e)
  <1> DEFINE rs == {Custom}
  <1>a. rs \cap SystemRoles = {} /\ d.held \cap rs = {}
    BY RoleMigrationsAssumption
  <1>b. e = DeleteRoles(d, rs)
    OBVIOUS
  <1> HIDE DEF rs
  <1>0. Sound(d) /\ d.ok /\ d.backup \in SUBSET Backup /\ d.backupAgain \in SUBSET Backup
    BY DEF AtLevel, Sound, Database
  <1>1. RolesDeleted(d, rs, e)
    BY <1>0, <1>b, DeleteRolesIs
  <1>2. Sound(e) /\ e.ok /\ e.labels = d.labels /\ e.permissions = d.permissions
    BY <1>0, <1>1, <1>a DEF RolesDeleted
  <1>3. e.roles \cap SystemRoles = d.roles \cap SystemRoles
    <2>1. e.roles = d.roles \ rs
      BY <1>1 DEF RolesDeleted
    <2> QED
      BY <1>a, <2>1
  <1>4. ASSUME NEW r \in SystemRoles, NEW p
        PROVE  <<r, p>> \in e.links <=> <<r, p>> \in d.links
    <2>1. r \notin rs
      BY <1>a
    <2> QED
      BY <1>1, <2>1 DEF RolesDeleted
  <1>5. /\ \A l \in e.backup : \E k \in d.backup : l[2] = k[2]
        /\ \A l \in e.backupAgain : \E k \in d.backupAgain : l[2] = k[2]
    <2>1. e.backup = Lost(rs, d.backup) /\ e.backupAgain = Lost(rs, d.backupAgain)
      BY <1>1 DEF RolesDeleted
    <2>2. \A l \in Lost(rs, d.backup) : \E k \in d.backup : l[2] = k[2]
      BY <1>0, LostIs
    <2>3. \A l \in Lost(rs, d.backupAgain) : \E k \in d.backupAgain : l[2] = k[2]
      BY <1>0, LostIs
    <2> QED
      BY <2>1, <2>2, <2>3
  <1> QED
    BY <1>2, <1>3, <1>4, <1>5, EditStep

Holding(d, rs) == [d EXCEPT !.held = rs]

LEMMA HoldingStep ==
    ASSUME NEW n \in 2..13, NEW d, AtLevel(n, d), NEW rs, rs \subseteq d.roles, NEW e,
           e = Holding(d, rs)
    PROVE  AtLevel(n, e)
  <1>0. Sound(d) /\ d.ok
    BY DEF AtLevel
  <1>1. /\ e \in Database /\ e.labels = d.labels /\ e.permissions = d.permissions
        /\ e.roles = d.roles /\ e.links = d.links /\ e.held = rs /\ SameBackups(d, e) /\ e.ok
    BY <1>0 DEF Sound, Database, Holding, SameBackups
  <1>2. Sound(e)
    BY <1>0, <1>1 DEF Sound
  <1> QED
    BY <1>1, <1>2, EditStep DEF SameBackups

-----------------------------------------------------------------------------
(* The levels, as the migrations are applied and reverted *)

LEMMA Names ==
    /\ Len(Migrations) = 13
    /\ Migrations[1] = "InitialSchema"
    /\ Migrations[2] = "SeedPermissionsAndSystemRoles"
    /\ Migrations[3] = "DeleteSuperAdminRole"
    /\ Migrations[4] = "AddOrgStructureEnumValue"
    /\ Migrations[5] = "SeedOrgStructurePermissions"
    /\ Migrations[6] = "AddWorkflowsManagePermission"
    /\ Migrations[7] = "AddWorkflowWriteApproveToEditor"
    /\ Migrations[8] = "CleanupUnusedPermissions"
    /\ Migrations[9] = "AddAuditorRole"
    /\ Migrations[10] = "RemoveSuperAdminRole"
    /\ Migrations[11] = "AddUsersReadToEditor"
    /\ Migrations[12] = "RenameOrgsPermissionToRoles"
    /\ Migrations[13] = "RemoveDocumentsPermissionsForGood"
  BY DEF Migrations

LEMMA Distinct ==
    ASSUME NEW i \in 1..13, NEW j \in 1..13, Migrations[i] = Migrations[j]
    PROVE  i = j
  <1>1. \/ i = 1 \/ i = 2 \/ i = 3 \/ i = 4 \/ i = 5 \/ i = 6 \/ i = 7 \/ i = 8 \/ i = 9
        \/ i = 10 \/ i = 11 \/ i = 12 \/ i = 13
    OBVIOUS
  <1>2. \/ j = 1 \/ j = 2 \/ j = 3 \/ j = 4 \/ j = 5 \/ j = 6 \/ j = 7 \/ j = 8 \/ j = 9
        \/ j = 10 \/ j = 11 \/ j = 12 \/ j = 13
    OBVIOUS
  <1> QED
    BY <1>1, <1>2, Names

Snapshot == (SUBSET Labels) \X (SUBSET Permission) \X (SUBSET Role) \X (SUBSET Backup)
              \X (SUBSET Role)

Leveled ==
    /\ production \in BOOLEAN
    /\ applied \in 0..13 /\ AtLevel(applied, db)
    /\ before \in Seq(Snapshot) /\ Len(before) <= applied
    /\ writes \in 0..MaxWrites /\ reverts \in 0..MaxReverts
    /\ RedeployNeverFails

LEMMA TablesTyped ==
    ASSUME NEW n, NEW d, AtLevel(n, d)
    PROVE  Tables(d) \in Snapshot
  BY DEF AtLevel, Sound, Database, Tables, Snapshot

LEMMA UpKeeps ==
    ASSUME Leveled, NEW m, NEW after, Up(m, after), NEW k \in 0..12,
           Migrations[k + 1] = m,
           AtLevel(k, db) /\ after.ok => AtLevel(k + 1, after),
           AtLevel(k, db) => \/ after.ok
                             \/ m = "DeleteSuperAdminRole" /\ production /\ "SUPER_ADMIN" \in db.held
    PROVE  Leveled'
  <1>1. applied = k /\ AtLevel(k, db)
    <2>1. applied + 1 \in 1..13 /\ Migrations[applied + 1] = m
      BY Names DEF Up, Pending, Leveled
    <2>2. applied + 1 = k + 1
      BY <2>1, Distinct
    <2> QED
      BY <2>2 DEF Leveled
  <1>2. CASE after.ok
    <2>1. /\ db' = after /\ applied' = k + 1 /\ before' = Append(before, Tables(db))
          /\ thrown' = None /\ UNCHANGED <<production, writes, reverts>>
      BY <1>1, <1>2 DEF Up
    <2>2. AtLevel(applied', db')
      BY <1>1, <1>2, <2>1
    <2>3. before' \in Seq(Snapshot) /\ Len(before') <= applied'
      BY <1>1, <2>1, TablesTyped DEF Leveled
    <2>4. RedeployNeverFails'
      BY <2>1 DEF RedeployNeverFails
    <2> QED
      BY <2>1, <2>2, <2>3, <2>4 DEF Leveled
  <1>3. CASE ~after.ok
    <2>1. /\ UNCHANGED <<db, applied, before, production, writes, reverts>>
          /\ thrown' = <<"up", m>>
      BY <1>3 DEF Up
    <2>2. RedeployNeverFails'
      BY <1>1, <1>3, <2>1 DEF RedeployNeverFails
    <2> QED
      BY <2>1, <2>2 DEF Leveled
  <1> QED
    BY <1>2, <1>3

LEMMA DownKeeps ==
    ASSUME Leveled, NEW m, NEW after, Down(m, after), NEW k \in 1..13,
           Migrations[k] = m,
           AtLevel(k, db) /\ after.ok => AtLevel(k - 1, after)
    PROVE  Leveled'
  <1>1. applied = k /\ AtLevel(k, db) /\ reverts' \in 0..MaxReverts
    <2>1. applied \in 1..13 /\ Migrations[applied] = m
      BY DEF Down, Latest, Leveled
    <2>2. applied = k
      BY <2>1, Distinct
    <2> QED
      BY <2>2, RoleMigrationsAssumption DEF Down, Leveled
  <1>2. CASE after.ok
    <2>1. /\ db' = after /\ applied' = k - 1
          /\ before' = IF m \in Safe /\ before # <<>> THEN Front(before) ELSE <<>>
          /\ thrown' = None /\ UNCHANGED <<production, writes>>
      BY <1>1, <1>2 DEF Down
    <2>2. AtLevel(applied', db')
      BY <1>1, <1>2, <2>1
    <2>3. before' \in Seq(Snapshot) /\ Len(before') <= applied'
      <3>1. CASE m \in Safe /\ before # <<>>
        <4>1. before' = SubSeq(before, 1, Len(before) - 1) /\ Len(before) > 0
          BY <2>1, <3>1 DEF Front, Leveled
        <4> QED
          BY <1>1, <2>1, <4>1 DEF Leveled
      <3>2. CASE ~(m \in Safe /\ before # <<>>)
        BY <2>1, <3>2
      <3> QED
        BY <3>1, <3>2
    <2>4. RedeployNeverFails'
      BY <2>1 DEF RedeployNeverFails
    <2> QED
      BY <1>1, <2>1, <2>2, <2>3, <2>4 DEF Leveled
  <1>3. CASE ~after.ok
    <2>1. /\ UNCHANGED <<db, applied, before, production, writes>>
          /\ thrown' = <<"down", m>>
      BY <1>3 DEF Down
    <2>2. RedeployNeverFails'
      BY <2>1 DEF RedeployNeverFails
    <2> QED
      BY <1>1, <2>1, <2>2 DEF Leveled
  <1> QED
    BY <1>2, <1>3

LEMMA WriteKeeps ==
    ASSUME Leveled, NEW after, Write(after), AtLevel(applied, after), writes' \in 0..MaxWrites
    PROVE  Leveled'
  <1>1. after.ok
    BY DEF AtLevel
  <1>2. /\ db' = after /\ thrown' = None /\ UNCHANGED <<production, applied, reverts>>
        /\ before' = IF after = db THEN before ELSE <<>>
    BY <1>1 DEF Write
  <1>3. RedeployNeverFails'
    BY <1>2 DEF RedeployNeverFails
  <1>4. before' \in Seq(Snapshot) /\ Len(before') <= applied'
    BY <1>2 DEF Leveled
  <1> QED
    BY <1>2, <1>3, <1>4 DEF Leveled

LEMMA FirstUps ==
    ASSUME Leveled, InitialSchemaUp \/ SeedUp \/ DeleteSuperAdminUp
    PROVE  Leveled'
  <1>1. CASE InitialSchemaUp
    <2> DEFINE after == [db EXCEPT !.labels =
                           {"DOCUMENTS", "WORKFLOWS", "USERS", "ORGS", "AUDIT", "PLATFORM"}]
    <2>1. ASSUME AtLevel(0, db) PROVE AtLevel(1, after) /\ after.ok
      <3>1. db = Empty
        BY <2>1 DEF AtLevel
      <3>2. AtLevel(1, after)
        BY <3>1, InitialSchemaUpStep
      <3> QED
        BY <3>2 DEF AtLevel
    <2>2. Up("InitialSchema", after)
      BY <1>1 DEF InitialSchemaUp
    <2> HIDE DEF after
    <2> QED
      BY <2>1, <2>2, Names, UpKeeps
  <1>2. CASE SeedUp
    <2> DEFINE after == SeedGrants(InsertRoles(InsertPermissions(db, Seeded),
                                               SystemRoles \ {"AUDITOR"}))
    <2>1. ASSUME AtLevel(1, db) PROVE AtLevel(2, after) /\ after.ok
      <3>1. AtLevel(2, after)
        BY <2>1, SeedUpStep
      <3> QED
        BY <3>1 DEF AtLevel
    <2>2. Up("SeedPermissionsAndSystemRoles", after)
      BY <1>2 DEF SeedUp
    <2> HIDE DEF after
    <2> QED
      BY <2>1, <2>2, Names, UpKeeps
  <1>3. CASE DeleteSuperAdminUp
    <2> DEFINE removed == Retype(DeleteRoles(DeletePermissions(db, PlatformManage), {"SUPER_ADMIN"}),
                                 {"DOCUMENTS", "WORKFLOWS", "USERS", "ORGS", "AUDIT"})
               after == IF ~production THEN db ELSE removed
    <2>1. ASSUME AtLevel(2, db)
          PROVE  /\ after.ok => AtLevel(3, after)
                 /\ after.ok \/ (production /\ "SUPER_ADMIN" \in db.held)
      <3>1. CASE ~production
        <4>1. AtLevel(3, after)
          BY <2>1, <3>1, OtherwiseUpStep
        <4> QED
          BY <4>1 DEF AtLevel
      <3>2. CASE production
        <4>1. IF "SUPER_ADMIN" \in db.held THEN ~removed.ok ELSE AtLevel(3, removed)
          BY <2>1, DeleteSuperAdminUpStep
        <4>2. after = removed
          BY <3>2
        <4> HIDE DEF removed, after
        <4> QED
          BY <3>2, <4>1, <4>2 DEF AtLevel
      <3> QED
        BY <3>1, <3>2
    <2>2. Up("DeleteSuperAdminRole", after)
      BY <1>3 DEF DeleteSuperAdminUp
    <2> HIDE DEF after
    <2> QED
      BY <2>1, <2>2, Names, UpKeeps
  <1> QED
    BY <1>1, <1>2, <1>3

LEMMA LaterUps ==
    ASSUME Leveled,
           \/ AddOrgStructureEnumValueUp
           \/ SeedOrgStructureUp
           \/ AddWorkflowsManageUp
           \/ AddWorkflowWriteApproveToEditorUp
           \/ CleanupUp
           \/ AddAuditorUp
           \/ RemoveSuperAdminUp
           \/ AddUsersReadToEditorUp
           \/ RenameOrgsToRolesUp
           \/ RemoveDocumentsUp
    PROVE  Leveled'
  <1>1. CASE AddOrgStructureEnumValueUp
    <2> DEFINE after == Labelled(db, "ORG_STRUCTURE")
    <2>1. ASSUME AtLevel(3, db) PROVE AtLevel(4, after) /\ after.ok
      <3>1. AtLevel(4, after)
        BY <2>1, AddOrgStructureEnumValueUpStep
      <3> QED
        BY <3>1 DEF AtLevel
    <2>2. Up("AddOrgStructureEnumValue", after)
      BY <1>1 DEF AddOrgStructureEnumValueUp, Labelled
    <2> HIDE DEF after
    <2> QED
      BY <2>1, <2>2, Names, UpKeeps
  <1>2. CASE SeedOrgStructureUp
    <2> DEFINE after == Grant(Grant(InsertPermissions(db, OrgStructure),
                                 {"SUPER_ADMIN", "ADMIN", "MANAGER"}, OrgStructure),
                           {"EDITOR", "VIEWER"}, Of("ORG_STRUCTURE", Read))
    <2>1. ASSUME AtLevel(4, db) PROVE AtLevel(5, after) /\ after.ok
      <3>1. AtLevel(5, after)
        BY <2>1, SeedOrgStructureUpStep
      <3> QED
        BY <3>1 DEF AtLevel
    <2>2. Up("SeedOrgStructurePermissions", after)
      BY <1>2 DEF SeedOrgStructureUp
    <2> HIDE DEF after
    <2> QED
      BY <2>1, <2>2, Names, UpKeeps
  <1>3. CASE AddWorkflowsManageUp
    <2> DEFINE after == Grant(InsertPermissions(db, WorkflowsManage), {"ADMIN", "MANAGER"},
                           WorkflowsManage)
    <2>1. ASSUME AtLevel(5, db) PROVE AtLevel(6, after) /\ after.ok
      <3>1. AtLevel(6, after)
        BY <2>1, AddWorkflowsManageUpStep
      <3> QED
        BY <3>1 DEF AtLevel
    <2>2. Up("AddWorkflowsManagePermission", after)
      BY <1>3 DEF AddWorkflowsManageUp
    <2> HIDE DEF after
    <2> QED
      BY <2>1, <2>2, Names, UpKeeps
  <1>4. CASE AddWorkflowWriteApproveToEditorUp
    <2> DEFINE after == Grant(db, {"EDITOR"}, EditorWrites)
    <2>1. ASSUME AtLevel(6, db) PROVE AtLevel(7, after) /\ after.ok
      <3>1. AtLevel(7, after)
        BY <2>1, AddWorkflowWriteApproveToEditorUpStep
      <3> QED
        BY <3>1 DEF AtLevel
    <2>2. Up("AddWorkflowWriteApproveToEditor", after)
      BY <1>4 DEF AddWorkflowWriteApproveToEditorUp, EditorWrites
    <2> HIDE DEF after
    <2> QED
      BY <2>1, <2>2, Names, UpKeeps
  <1>5. CASE CleanupUp
    <2> DEFINE after == DeletePermissions(BackedUp(db, Unused(db)), Unused(db))
    <2>1. ASSUME AtLevel(7, db) PROVE AtLevel(8, after) /\ after.ok
      <3>1. AtLevel(8, after)
        BY <2>1, CleanupUpStep
      <3> QED
        BY <3>1 DEF AtLevel
    <2>2. Up("CleanupUnusedPermissions", after)
      BY <1>5 DEF CleanupUp, BackedUp
    <2> HIDE DEF after
    <2> QED
      BY <2>1, <2>2, Names, UpKeeps
  <1>6. CASE AddAuditorUp
    <2> DEFINE after == DeleteLinks(Grant(InsertRoles(db, {"AUDITOR"}), {"AUDITOR"}, AuditRead),
                                 {"VIEWER"}, AuditRead)
    <2>1. ASSUME AtLevel(8, db) PROVE AtLevel(9, after) /\ after.ok
      <3>1. AtLevel(9, after)
        BY <2>1, AddAuditorUpStep
      <3> QED
        BY <3>1 DEF AtLevel
    <2>2. Up("AddAuditorRole", after)
      BY <1>6 DEF AddAuditorUp
    <2> HIDE DEF after
    <2> QED
      BY <2>1, <2>2, Names, UpKeeps
  <1>7. CASE RemoveSuperAdminUp
    <2> DEFINE after == WithoutPlatform(DeleteRoles(DeletePermissions(
                             Unheld(db, {"SUPER_ADMIN"}), PlatformManage), {"SUPER_ADMIN"}))
    <2>1. ASSUME AtLevel(9, db) PROVE AtLevel(10, after) /\ after.ok
      <3>1. AtLevel(10, after)
        BY <2>1, RemoveSuperAdminUpStep
      <3> QED
        BY <3>1 DEF AtLevel
    <2>2. Up("RemoveSuperAdminRole", after)
      BY <1>7 DEF RemoveSuperAdminUp, Unheld
    <2> HIDE DEF after
    <2> QED
      BY <2>1, <2>2, Names, UpKeeps
  <1>8. CASE AddUsersReadToEditorUp
    <2> DEFINE after == Grant(db, {"EDITOR"}, UsersRead)
    <2>1. ASSUME AtLevel(10, db) PROVE AtLevel(11, after) /\ after.ok
      <3>1. AtLevel(11, after)
        BY <2>1, AddUsersReadToEditorUpStep
      <3> QED
        BY <3>1 DEF AtLevel
    <2>2. Up("AddUsersReadToEditor", after)
      BY <1>8 DEF AddUsersReadToEditorUp, UsersRead
    <2> HIDE DEF after
    <2> QED
      BY <2>1, <2>2, Names, UpKeeps
  <1>9. CASE RenameOrgsToRolesUp
    <2> DEFINE after == Renamed(db, "ORGS", "ROLES")
    <2>1. ASSUME AtLevel(11, db) PROVE AtLevel(12, after) /\ after.ok
      <3>1. AtLevel(12, after)
        BY <2>1, RenameUpStep
      <3> QED
        BY <3>1 DEF AtLevel
    <2>2. Up("RenameOrgsPermissionToRoles", after)
      BY <1>9 DEF RenameOrgsToRolesUp
    <2> HIDE DEF after
    <2> QED
      BY <2>1, <2>2, Names, UpKeeps
  <1>10. CASE RemoveDocumentsUp
    <2> DEFINE after == DeletePermissions(BackedUpAgain(db, Documents), Documents)
    <2>1. ASSUME AtLevel(12, db) PROVE AtLevel(13, after) /\ after.ok
      <3>1. AtLevel(13, after)
        BY <2>1, RemoveDocumentsUpStep
      <3> QED
        BY <3>1 DEF AtLevel
    <2>2. Up("RemoveDocumentsPermissionsForGood", after)
      BY <1>10 DEF RemoveDocumentsUp, BackedUpAgain
    <2> HIDE DEF after
    <2> QED
      BY <2>1, <2>2, Names, UpKeeps
  <1> QED
    BY <1>1, <1>2, <1>3, <1>4, <1>5, <1>6, <1>7, <1>8, <1>9, <1>10

LEMMA Downs ==
    ASSUME Leveled,
           \/ InitialSchemaDown
           \/ SeedDown
           \/ DeleteSuperAdminDown
           \/ AddOrgStructureEnumValueDown
           \/ SeedOrgStructureDown
           \/ AddWorkflowsManageDown
           \/ AddWorkflowWriteApproveToEditorDown
           \/ CleanupDown
           \/ AddAuditorDown
           \/ AddUsersReadToEditorDown
           \/ RenameOrgsToRolesDown
           \/ RemoveDocumentsDown
    PROVE  Leveled'
  <1>1. CASE InitialSchemaDown
    <2> DEFINE after == Empty
    <2>1. ASSUME AtLevel(1, db), after.ok PROVE AtLevel(0, after)
      BY <2>1, EmptyStep
    <2>2. Down("InitialSchema", after)
      BY <1>1 DEF InitialSchemaDown
    <2> HIDE DEF after
    <2> QED
      BY <2>1, <2>2, Names, DownKeeps
  <1>2. CASE SeedDown
    <2> DEFINE after == DeletePermissions(DeleteRoles(db, db.roles \cap SystemRoles), db.permissions)
    <2>1. ASSUME AtLevel(2, db), after.ok PROVE AtLevel(1, after)
      BY <2>1, SeedDownStep
    <2>2. Down("SeedPermissionsAndSystemRoles", after)
      BY <1>2 DEF SeedDown
    <2> HIDE DEF after
    <2> QED
      BY <2>1, <2>2, Names, DownKeeps
  <1>3. CASE DeleteSuperAdminDown
    <2> DEFINE after == Retype(db, {"DOCUMENTS", "WORKFLOWS", "USERS", "ORGS", "AUDIT",
                                "PLATFORM"})
    <2>1. ASSUME AtLevel(3, db), after.ok PROVE AtLevel(2, after)
      BY <2>1, DeleteSuperAdminDownStep
    <2>2. Down("DeleteSuperAdminRole", after)
      BY <1>3 DEF DeleteSuperAdminDown
    <2> HIDE DEF after
    <2> QED
      BY <2>1, <2>2, Names, DownKeeps
  <1>4. CASE AddOrgStructureEnumValueDown
    <2> DEFINE after == db
    <2>1. ASSUME AtLevel(4, db), after.ok PROVE AtLevel(3, after)
      BY <2>1, AddOrgStructureEnumValueDownStep
    <2>2. Down("AddOrgStructureEnumValue", after)
      BY <1>4 DEF AddOrgStructureEnumValueDown
    <2> HIDE DEF after
    <2> QED
      BY <2>1, <2>2, Names, DownKeeps
  <1>5. CASE SeedOrgStructureDown
    <2> DEFINE after == DeletePermissions(db, OrgStructure)
    <2>1. ASSUME AtLevel(5, db), after.ok PROVE AtLevel(4, after)
      BY <2>1, SeedOrgStructureDownStep
    <2>2. Down("SeedOrgStructurePermissions", after)
      BY <1>5 DEF SeedOrgStructureDown
    <2> HIDE DEF after
    <2> QED
      BY <2>1, <2>2, Names, DownKeeps
  <1>6. CASE AddWorkflowsManageDown
    <2> DEFINE after == DeletePermissions(db, WorkflowsManage)
    <2>1. ASSUME AtLevel(6, db), after.ok PROVE AtLevel(5, after)
      BY <2>1, AddWorkflowsManageDownStep
    <2>2. Down("AddWorkflowsManagePermission", after)
      BY <1>6 DEF AddWorkflowsManageDown
    <2> HIDE DEF after
    <2> QED
      BY <2>1, <2>2, Names, DownKeeps
  <1>7. CASE AddWorkflowWriteApproveToEditorDown
    <2> DEFINE after == DeleteLinks(db, {"EDITOR"}, EditorWrites)
    <2>1. ASSUME AtLevel(7, db), after.ok PROVE AtLevel(6, after)
      BY <2>1, AddWorkflowWriteApproveToEditorDownStep
    <2>2. Down("AddWorkflowWriteApproveToEditor", after)
      BY <1>7 DEF AddWorkflowWriteApproveToEditorDown, EditorWrites
    <2> HIDE DEF after
    <2> QED
      BY <2>1, <2>2, Names, DownKeeps
  <1>8. CASE CleanupDown
    <2> DEFINE after == BackupDropped(Restore(InsertPermissions(db, Vanishing), db.backup))
    <2>1. ASSUME AtLevel(8, db), after.ok PROVE AtLevel(7, after)
      BY <2>1, CleanupDownStep
    <2>2. Down("CleanupUnusedPermissions", after)
      BY <1>8 DEF CleanupDown, BackupDropped, Vanishing
    <2> HIDE DEF after
    <2> QED
      BY <2>1, <2>2, Names, DownKeeps
  <1>9. CASE AddAuditorDown
    <2> DEFINE after == DeleteRoles(Grant(db, {"VIEWER"}, AuditRead), {"AUDITOR"})
    <2>1. ASSUME AtLevel(9, db), after.ok PROVE AtLevel(8, after)
      BY <2>1, AddAuditorDownStep
    <2>2. Down("AddAuditorRole", after)
      BY <1>9 DEF AddAuditorDown
    <2> HIDE DEF after
    <2> QED
      BY <2>1, <2>2, Names, DownKeeps
  <1>10. CASE AddUsersReadToEditorDown
    <2> DEFINE after == DeleteLinks(db, {"EDITOR"}, UsersRead)
    <2>1. ASSUME AtLevel(11, db), after.ok PROVE AtLevel(10, after)
      BY <2>1, AddUsersReadToEditorDownStep
    <2>2. Down("AddUsersReadToEditor", after)
      BY <1>10 DEF AddUsersReadToEditorDown, UsersRead
    <2> HIDE DEF after
    <2> QED
      BY <2>1, <2>2, Names, DownKeeps
  <1>11. CASE RenameOrgsToRolesDown
    <2> DEFINE after == Renamed(db, "ROLES", "ORGS")
    <2>1. ASSUME AtLevel(12, db), after.ok PROVE AtLevel(11, after)
      BY <2>1, RenameDownStep
    <2>2. Down("RenameOrgsPermissionToRoles", after)
      BY <1>11 DEF RenameOrgsToRolesDown
    <2> HIDE DEF after
    <2> QED
      BY <2>1, <2>2, Names, DownKeeps
  <1>12. CASE RemoveDocumentsDown
    <2> DEFINE after == AgainDropped(Restore(InsertPermissions(db, DocumentsAgain), db.backupAgain))
    <2>1. ASSUME AtLevel(13, db), after.ok PROVE AtLevel(12, after)
      BY <2>1, RemoveDocumentsDownStep
    <2>2. Down("RemoveDocumentsPermissionsForGood", after)
      BY <1>12 DEF RemoveDocumentsDown, AgainDropped
    <2> HIDE DEF after
    <2> QED
      BY <2>1, <2>2, Names, DownKeeps
  <1> QED
    BY <1>1, <1>2, <1>3, <1>4, <1>5, <1>6, <1>7, <1>8, <1>9, <1>10, <1>11, <1>12

LEMMA RemoveSuperAdminDowns ==
    ASSUME Leveled, RemoveSuperAdminDown
    PROVE  Leveled'
  <1> DEFINE labelled == IF "PLATFORM" \in db.labels THEN db
                         ELSE Retype(db, {"DOCUMENTS", "WORKFLOWS", "USERS", "ORGS",
                                          "ORG_STRUCTURE", "AUDIT", "PLATFORM"})
             d == InsertRoles(InsertPermissions(labelled, PlatformManage), {"SUPER_ADMIN"})
             after == Grant(d, {"SUPER_ADMIN"}, d.permissions)
  <1>1. ASSUME AtLevel(10, db), after.ok PROVE AtLevel(9, after)
    BY <1>1, RemoveSuperAdminDownStep
  <1>2. Down("RemoveSuperAdminRole", after)
    BY DEF RemoveSuperAdminDown
  <1> HIDE DEF after
  <1> QED
    BY <1>1, <1>2, Names, DownKeeps

LEMMA Reached ==
    ASSUME Leveled
    PROVE  /\ Applied("SeedPermissionsAndSystemRoles") => applied \in 2..13
           /\ Applied("CleanupUnusedPermissions") => applied \in 8..13
  <1>1. ASSUME NEW i \in 1..applied, Migrations[i] = "SeedPermissionsAndSystemRoles"
        PROVE  i = 2
    <2>1. i \in 1..13 /\ Migrations[i] = Migrations[2]
      BY <1>1, Names DEF Leveled
    <2> QED
      BY <2>1, Distinct
  <1>2. ASSUME NEW i \in 1..applied, Migrations[i] = "CleanupUnusedPermissions"
        PROVE  i = 8
    <2>1. i \in 1..13 /\ Migrations[i] = Migrations[8]
      BY <1>2, Names DEF Leveled
    <2> QED
      BY <2>1, Distinct
  <1> QED
    BY <1>1, <1>2 DEF Applied, Leveled

LEMMA Seeders ==
    ASSUME Leveled, Boot \/ BootOld
    PROVE  Leveled'
  <1>1. CASE Boot
    <2> DEFINE after == InsertPermissions(db, PERMISSIONS_CATALOG)
    <2>1. applied = 13 /\ Write(after) /\ writes' \in 0..MaxWrites
      BY <1>1, Names DEF Boot, Leveled
    <2>2. AtLevel(applied, after)
      BY <2>1, BootStep DEF Leveled
    <2> HIDE DEF after
    <2> QED
      BY <2>1, <2>2, WriteKeeps
  <1>2. CASE BootOld
    <2> DEFINE after == InsertPermissions(db, DocumentsAgain)
    <2>1. applied \in 8..13 /\ Write(after) /\ writes' \in 0..MaxWrites
      BY <1>2, Reached DEF BootOld, Leveled
    <2>2. AtLevel(applied, after)
      BY <2>1, BootOldStep DEF Leveled
    <2> HIDE DEF after
    <2> QED
      BY <2>1, <2>2, WriteKeeps
  <1> QED
    BY <1>1, <1>2

LEMMA EditKeeps ==
    ASSUME Leveled, NEW after, Edit(after), applied \in 2..13 => AtLevel(applied, after)
    PROVE  Leveled'
  <1>1. Write(after) /\ applied \in 2..13 /\ writes' \in 0..MaxWrites
    BY Reached, RoleMigrationsAssumption DEF Edit, Leveled
  <1> QED
    BY <1>1, WriteKeeps

LEMMA Edits ==
    ASSUME Leveled,
           \/ \E ps \in Chosen : SavePermissions(ps)
           \/ RemoveCustom
           \/ \E r \in SystemRoles \cup {Custom} : AssignRole(r) \/ UnassignRole(r)
    PROVE  Leveled'
  <1>0. AtLevel(applied, db) /\ db.held \subseteq db.roles
    BY DEF Leveled, AtLevel, Sound
  <1>1. ASSUME NEW ps \in Chosen, SavePermissions(ps) PROVE Leveled'
    <2> DEFINE after == Grant(DeleteLinks(InsertRoles(db, {Custom}), {Custom}, db.permissions),
                              {Custom}, ps)
    <2>1. Edit(after)
      BY <1>1 DEF SavePermissions
    <2>2. applied \in 2..13 => AtLevel(applied, after)
      BY <1>0, SavePermissionsStep
    <2> HIDE DEF after
    <2> QED
      BY <2>1, <2>2, EditKeeps
  <1>2. ASSUME RemoveCustom PROVE Leveled'
    <2> DEFINE after == DeleteRoles(db, {Custom})
    <2>1. Edit(after) /\ Custom \notin db.held
      BY <1>2 DEF RemoveCustom
    <2>2. applied \in 2..13 => AtLevel(applied, after)
      BY <1>0, <2>1, RemoveCustomStep
    <2> HIDE DEF after
    <2> QED
      BY <2>1, <2>2, EditKeeps
  <1>3. ASSUME NEW r \in SystemRoles \cup {Custom}, AssignRole(r) PROVE Leveled'
    <2> DEFINE after == Holding(db, db.held \cup {r})
    <2>1. Edit(after) /\ r \in db.roles
      BY <1>3 DEF AssignRole, Holding
    <2>2. applied \in 2..13 => AtLevel(applied, after)
      BY <1>0, <2>1, HoldingStep
    <2> HIDE DEF after
    <2> QED
      BY <2>1, <2>2, EditKeeps
  <1>4. ASSUME NEW r \in SystemRoles \cup {Custom}, UnassignRole(r) PROVE Leveled'
    <2> DEFINE after == Holding(db, db.held \ {r})
    <2>1. Edit(after)
      BY <1>4 DEF UnassignRole, Holding
    <2>2. applied \in 2..13 => AtLevel(applied, after)
      BY <1>0, HoldingStep
    <2> HIDE DEF after
    <2> QED
      BY <2>1, <2>2, EditKeeps
  <1> QED
    BY <1>1, <1>2, <1>3, <1>4

LEMMA LeveledInit == MigrationsInit => Leveled
  <1> SUFFICES ASSUME MigrationsInit PROVE Leveled
    OBVIOUS
  <1>1. AtLevel(0, Empty)
    BY EmptyStep
  <1>2. RedeployNeverFails
    BY DEF MigrationsInit, RedeployNeverFails
  <1> QED
    BY <1>1, <1>2, RoleMigrationsAssumption DEF MigrationsInit, Leveled

LEMMA LeveledStep == Leveled /\ [MigrationsNext]_migrationsVars => Leveled'
  <1> SUFFICES ASSUME Leveled, [MigrationsNext]_migrationsVars PROVE Leveled'
    OBVIOUS
  <1>1. CASE UNCHANGED migrationsVars
    BY <1>1 DEF migrationsVars, Leveled, RedeployNeverFails
  <1>2. CASE MigrationsNext
    BY <1>2, FirstUps, LaterUps, Downs, RemoveSuperAdminDowns, Seeders, Edits
       DEF MigrationsNext
  <1> QED
    BY <1>1, <1>2

\* The level of the database: at any time the tables are as the migrations
\* applied so far say, on whatever path they came there.
THEOREM MigrationsInvariant == MigrationsSpec => []Leveled
  BY LeveledInit, LeveledStep, PTL DEF MigrationsSpec

\* Types, the foreign keys, the enum: a database whose statements all
\* succeeded.
THEOREM MigrationsTypeCorrect == MigrationsSpec => []MigrationsTypeOK
  <1>1. Leveled => MigrationsTypeOK
    BY Names DEF Leveled, AtLevel, Sound, MigrationsTypeOK
  <1> QED
    BY <1>1, MigrationsInvariant, PTL

\* A pending migration never fails, and the seeder finds its labels, however
\* often migrations were reverted, roles edited and older images started.
THEOREM RedeployNeverFailsCorrect == MigrationsSpec => []RedeployNeverFails
  <1>1. Leveled => RedeployNeverFails
    BY DEF Leveled
  <1> QED
    BY <1>1, MigrationsInvariant, PTL

LEMMA RolesOfLevel ==
    ASSUME NEW d, AtLevel(13, d)
    PROVE  d.roles \ {Custom} = DOMAIN Declared
  <1>1. DOMAIN Declared = Lasting
    BY DEF Declared, Lasting
  <1>2. d.roles \subseteq Role /\ Custom \notin SystemRoles
    BY RoleMigrationsAssumption DEF AtLevel, Sound, Database
  <1>3. Lasting \subseteq d.roles /\ "SUPER_ADMIN" \notin d.roles
    BY DEF AtLevel, RolesAt, Lasting
  <1>4. Lasting \subseteq SystemRoles /\ SystemRoles \subseteq Lasting \cup {"SUPER_ADMIN"}
    BY DEF Lasting, SystemRoles
  <1> QED
    BY <1>1, <1>2, <1>3, <1>4 DEF Role

LEMMA PermissionsOfLevel ==
    ASSUME NEW d, AtLevel(13, d)
    PROVE  d.permissions \ Documents = PERMISSIONS_CATALOG
  <1>1. ASSUME NEW p \in d.permissions, p \notin Documents PROVE p \in PERMISSIONS_CATALOG
    <2>1. PICK m \in Labels, v \in Verbs :
              /\ p = <<m, v>>
              /\ \/ m = "DOCUMENTS" /\ p \in Documents
                 \/ Catalogued(13, m, v)
      BY KindsOf
    <2> QED
      BY <1>1, <2>1, Pairs
  <1>2. ASSUME NEW p \in PERMISSIONS_CATALOG PROVE p \in d.permissions /\ p \notin Documents
    <2>1. PICK m \in Labels, v \in Verbs : p = <<m, v>>
      BY PermissionSets DEF Permission
    <2>2. Catalogued(13, m, v)
      BY <2>1, Pairs
    <2>3. Tracked(m, v)
      BY <2>2, Pairs DEF Catalogued, Tracked, ReadWriteDelete
    <2> QED
      BY <2>1, <2>2, <2>3 DEF AtLevel, PermissionsAt, Tracked
  <1> QED
    BY <1>1, <1>2

LEMMA DeclaredIs ==
    ASSUME NEW r \in Lasting, NEW m \in Labels, NEW v \in Verbs
    PROVE  /\ <<m, v>> \in Declared[r] <=> Has(13, r, m, v)
           /\ Declared[r] \subseteq Permission
  <1>1. Declared["ADMIN"] = PERMISSIONS_CATALOG
    BY DEF Declared
  <1>2. Declared["MANAGER"] = Of("WORKFLOWS", ReadWriteDelete \cup {"APPROVE", "MANAGE"})
                                \cup Of("USERS", Read) \cup AuditRead \cup OrgStructure
    BY DEF Declared
  <1>3. Declared["EDITOR"] = Of("WORKFLOWS", {"READ", "WRITE", "APPROVE"})
                               \cup Of("USERS", Read) \cup Of("ORG_STRUCTURE", Read)
    BY DEF Declared
  <1>4. Declared["VIEWER"] = {"WORKFLOWS", "ORG_STRUCTURE"} \X Read
    BY DEF Declared
  <1>5. Declared["AUDITOR"] = AuditRead
    BY DEF Declared
  <1>6. CASE r = "ADMIN"
    BY <1>1, <1>6, Pairs, PermissionSets DEF Has
  <1>7. CASE r = "MANAGER"
    BY <1>2, <1>7
       DEF Has, Catalogued, Of, AuditRead, OrgStructure, Read, ReadWriteDelete, Permission, Labels, Verbs
  <1>8. CASE r = "EDITOR"
    BY <1>3, <1>8
       DEF Has, Catalogued, Of, Read, ReadWriteDelete, Permission, Labels, Verbs
  <1>9. CASE r = "VIEWER"
    BY <1>4, <1>9
       DEF Has, Catalogued, Read, ReadWriteDelete, Permission, Labels, Verbs
  <1>10. CASE r = "AUDITOR"
    BY <1>5, <1>10, Pairs, PermissionSets DEF Has, Catalogued
  <1> QED
    BY <1>6, <1>7, <1>8, <1>9, <1>10 DEF Lasting

LEMMA LinksOfLevel ==
    ASSUME NEW d, AtLevel(13, d), NEW r \in Lasting
    PROVE  {l[2] : l \in {k \in d.links : k[1] = r}} = Declared[r]
  <1>0. d.links \subseteq Backup /\ d.links \subseteq d.roles \X d.permissions
    BY DEF AtLevel, Sound, Database
  <1>1. ASSUME NEW m \in Labels, NEW v \in Verbs
        PROVE  <<r, <<m, v>>>> \in d.links <=> <<m, v>> \in Declared[r]
    <2>1. CASE Tracked(m, v)
      BY <2>1, DeclaredIs DEF AtLevel, LinksAt
    <2>2. CASE ~Tracked(m, v)
      <3>1. ~Catalogued(13, m, v)
        BY <2>2, Pairs DEF Tracked, Catalogued, ReadWriteDelete
      <3>2. <<m, v>> \notin Declared[r]
        BY <3>1, DeclaredIs DEF Has
      <3>3. CASE <<m, v>> \in Documents
        BY <3>2, <3>3 DEF AtLevel, LinksAt
      <3>4. CASE <<m, v>> \notin Documents
        <4>1. <<m, v>> \notin d.permissions
          <5>1. <<m, v>> = <<"ORGS", "MANAGE">> \/ <<m, v>> = <<"PLATFORM", "MANAGE">>
            BY <2>2, <3>4, Pairs DEF Tracked
          <5>2. <<"ORGS", "MANAGE">> \notin d.permissions /\ <<"PLATFORM", "MANAGE">> \notin d.permissions
            BY DEF AtLevel, PermissionsAt
          <5> QED
            BY <5>1, <5>2
        <4> QED
          BY <1>0, <3>2, <4>1
      <3> QED
        BY <3>3, <3>4
    <2> QED
      BY <2>1, <2>2
  <1>2. ASSUME NEW l \in d.links, l[1] = r PROVE l[2] \in Declared[r]
    <2>1. l = <<l[1], l[2]>> /\ l[2] \in Permission
      BY <1>0 DEF Backup
    <2>2. PICK m \in Labels, v \in Verbs : l[2] = <<m, v>>
      BY <2>1 DEF Permission
    <2> QED
      BY <1>1, <1>2, <2>1, <2>2
  <1>3. ASSUME NEW p \in Declared[r]
        PROVE  \E l \in {k \in d.links : k[1] = r} : p = l[2]
    <2>1. Declared[r] \subseteq Permission
      BY DeclaredIs DEF Labels, Verbs
    <2>2. PICK m \in Labels, v \in Verbs : p = <<m, v>>
      BY <2>1 DEF Permission
    <2>3. <<r, p>> \in d.links
      BY <1>1, <2>2
    <2> QED
      BY <2>3
  <1> QED
    BY <1>2, <1>3

\* With every migration applied the roles in force are the documented ones.
THEOREM RolesAsDeclaredCorrect == MigrationsSpec => []RolesAsDeclared
  <1>1. Leveled => RolesAsDeclared
    <2> SUFFICES ASSUME Leveled, applied = 13
                 PROVE  /\ db.roles \ {Custom} = DOMAIN Declared
                        /\ \A r \in DOMAIN Declared :
                             {l[2] : l \in {k \in db.links : k[1] = r}} = Declared[r]
                        /\ db.permissions \ Documents = PERMISSIONS_CATALOG
      BY Names DEF RolesAsDeclared
    <2>1. AtLevel(13, db)
      BY DEF Leveled
    <2>2. DOMAIN Declared = Lasting
      BY DEF Declared, Lasting
    <2> QED
      BY <2>1, <2>2, RolesOfLevel, LinksOfLevel, PermissionsOfLevel
  <1> QED
    BY <1>1, MigrationsInvariant, PTL

-----------------------------------------------------------------------------
(* What a safe revert restores *)

Without(t, ps) == <<t[1], t[2] \ ps, t[3], {l \in t[4] : l[2] \notin ps}, t[5]>>

Unlinked(t, rs, ps) == <<t[1], t[2], t[3], t[4] \ (rs \X ps), t[5]>>

WithoutAuditor(t) ==
    <<t[1], t[2], t[3] \ {"AUDITOR"},
      {l \in t[4] \cup ({"VIEWER"} \X AuditRead) : l[1] # "AUDITOR"}, t[5]>>

\* The tables u before migration n, from the tables t after it.
Reverts(n, t, u) ==
    /\ n = 1 => u = Tables(Empty)
    /\ n = 5 => u = Without(t, OrgStructure)
    /\ n = 6 => u = Without(t, WorkflowsManage)
    /\ n = 7 => u = Unlinked(t, {"EDITOR"}, EditorWrites)
    /\ n = 9 => u = WithoutAuditor(t) /\ "AUDITOR" \notin t[5]
    /\ n = 11 => u = Unlinked(t, {"EDITOR"}, UsersRead)

\* The clean-up is undone from its backup, which has only roles of t.
RevertsCleanup(t, u, kept) ==
    /\ u = <<t[1], t[2] \cup Vanishing, t[3], t[4] \cup kept, t[5]>>
    /\ \A l \in kept : l[1] \in t[3] /\ l[1] # "AUDITOR" /\ l[2] \in Vanishing

LEMMA Rows ==
    ASSUME NEW d, Sound(d), d.ok
    PROVE  \A l \in d.links : l = <<l[1], l[2]>> /\ l[1] \in d.roles /\ l[2] \in d.permissions
  BY DEF Sound

LEMMA SeedOrgStructureReverts ==
    ASSUME NEW d, AtLevel(4, d), NEW e,
           e = Grant(Grant(InsertPermissions(d, OrgStructure),
                           {"SUPER_ADMIN", "ADMIN", "MANAGER"}, OrgStructure),
                     {"EDITOR", "VIEWER"}, Of("ORG_STRUCTURE", Read))
    PROVE  Reverts(5, Tables(e), Tables(d))
  <1> DEFINE d1 == InsertPermissions(d, OrgStructure)
             d2 == Grant(d1, {"SUPER_ADMIN", "ADMIN", "MANAGER"}, OrgStructure)
  <1>a. e = Grant(d2, {"EDITOR", "VIEWER"}, Of("ORG_STRUCTURE", Read))
    OBVIOUS
  <1>b. AtLevel(5, e)
    BY SeedOrgStructureUpStep
  <1> HIDE DEF d1, d2
  <1>0. Sound(d) /\ d.ok /\ Sound(e) /\ e.ok
    BY <1>b DEF AtLevel
  <1>1. PermissionsInserted(d, OrgStructure, d1)
    BY <1>0, InsertPermissionsIs, PermissionSets DEF d1
  <1>2. Granted(d1, {"SUPER_ADMIN", "ADMIN", "MANAGER"}, OrgStructure, d2)
    BY <1>1, GrantIs DEF PermissionsInserted, d2
  <1>3. Granted(d2, {"EDITOR", "VIEWER"}, Of("ORG_STRUCTURE", Read), e)
    BY <1>a, <1>2, GrantIs DEF Granted
  <1>4. /\ e.labels = d.labels /\ e.roles = d.roles /\ e.held = d.held
        /\ e.permissions = d.permissions \cup OrgStructure
    BY <1>1, <1>2, <1>3 DEF PermissionsInserted, Granted
  <1>5. ASSUME NEW p \in OrgStructure PROVE p \notin d.permissions
    <2>1. PICK m \in Labels, v \in Verbs : p = <<m, v>>
      BY PermissionSets DEF Permission
    <2>2. m = "ORG_STRUCTURE"
      BY <2>1, Pairs
    <2>3. Tracked(m, v) /\ ~Catalogued(4, m, v)
      BY <2>2, Pairs DEF Tracked, Catalogued
    <2> QED
      BY <2>1, <2>3 DEF AtLevel, PermissionsAt
  <1>6. ASSUME NEW r, NEW p, p \notin OrgStructure
        PROVE  <<r, p>> \in e.links <=> <<r, p>> \in d.links
    <2>1. p \notin Of("ORG_STRUCTURE", Read)
      BY <1>6 DEF OrgStructure, Of, Read, ReadWriteDelete
    <2> QED
      BY <1>1, <1>2, <1>3, <1>6, <2>1 DEF PermissionsInserted, Granted
  <1>7. {l \in e.links : l[2] \notin OrgStructure} = d.links
    <2>1. ASSUME NEW l \in e.links, l[2] \notin OrgStructure PROVE l \in d.links
      BY <1>0, <1>6, <2>1, Rows
    <2>2. ASSUME NEW l \in d.links PROVE l \in e.links /\ l[2] \notin OrgStructure
      BY <1>0, <1>5, <1>6, <2>2, Rows
    <2> QED
      BY <2>1, <2>2
  <1>8. e.permissions \ OrgStructure = d.permissions
    BY <1>4, <1>5
  <1> QED
    BY <1>4, <1>7, <1>8 DEF Reverts, Tables, Without

LEMMA AddWorkflowsManageReverts ==
    ASSUME NEW d, AtLevel(5, d), NEW e,
           e = Grant(InsertPermissions(d, WorkflowsManage), {"ADMIN", "MANAGER"}, WorkflowsManage)
    PROVE  Reverts(6, Tables(e), Tables(d))
  <1> DEFINE d1 == InsertPermissions(d, WorkflowsManage)
  <1>a. e = Grant(d1, {"ADMIN", "MANAGER"}, WorkflowsManage)
    OBVIOUS
  <1>b. AtLevel(6, e)
    BY AddWorkflowsManageUpStep
  <1> HIDE DEF d1
  <1>0. Sound(d) /\ d.ok /\ Sound(e) /\ e.ok
    BY <1>b DEF AtLevel
  <1>1. PermissionsInserted(d, WorkflowsManage, d1)
    BY <1>0, InsertPermissionsIs, PermissionSets DEF d1
  <1>2. Granted(d1, {"ADMIN", "MANAGER"}, WorkflowsManage, e)
    BY <1>a, <1>1, GrantIs DEF PermissionsInserted
  <1>4. /\ e.labels = d.labels /\ e.roles = d.roles /\ e.held = d.held
        /\ e.permissions = d.permissions \cup WorkflowsManage
    BY <1>1, <1>2 DEF PermissionsInserted, Granted
  <1>5. ASSUME NEW p \in WorkflowsManage PROVE p \notin d.permissions
    <2>1. PICK m \in Labels, v \in Verbs : p = <<m, v>>
      BY PermissionSets DEF Permission
    <2>2. m = "WORKFLOWS" /\ v = "MANAGE"
      BY <2>1, Pairs
    <2>3. Tracked(m, v) /\ ~Catalogued(5, m, v)
      BY <2>2, Pairs DEF Tracked, Catalogued, ReadWriteDelete
    <2> QED
      BY <2>1, <2>3 DEF AtLevel, PermissionsAt
  <1>6. ASSUME NEW r, NEW p, p \notin WorkflowsManage
        PROVE  <<r, p>> \in e.links <=> <<r, p>> \in d.links
    BY <1>1, <1>2, <1>6 DEF PermissionsInserted, Granted
  <1>7. {l \in e.links : l[2] \notin WorkflowsManage} = d.links
    <2>1. ASSUME NEW l \in e.links, l[2] \notin WorkflowsManage PROVE l \in d.links
      BY <1>0, <1>6, <2>1, Rows
    <2>2. ASSUME NEW l \in d.links PROVE l \in e.links /\ l[2] \notin WorkflowsManage
      BY <1>0, <1>5, <1>6, <2>2, Rows
    <2> QED
      BY <2>1, <2>2
  <1>8. e.permissions \ WorkflowsManage = d.permissions
    BY <1>4, <1>5
  <1> QED
    BY <1>4, <1>7, <1>8 DEF Reverts, Tables, Without

\* A grant of what the role did not have is undone by taking it away.
LEMMA GrantReverts ==
    ASSUME NEW n, NEW d, AtLevel(n, d), NEW ps, NEW e, e = Grant(d, {"EDITOR"}, ps),
           \A p \in ps : <<"EDITOR", p>> \notin d.links
    PROVE  Tables(d) = Unlinked(Tables(e), {"EDITOR"}, ps)
  <1>1. Granted(d, {"EDITOR"}, ps, e) /\ Sound(d) /\ d.ok
    BY GrantIs DEF AtLevel
  <1>2. Sound(e) /\ e.ok
    BY <1>1 DEF Granted
  <1>3. /\ e.labels = d.labels /\ e.roles = d.roles /\ e.held = d.held
        /\ e.permissions = d.permissions
    BY <1>1 DEF Granted
  <1>4. ASSUME NEW r, NEW p
        PROVE  <<r, p>> \in d.links <=> <<r, p>> \in e.links /\ ~(r = "EDITOR" /\ p \in ps)
    <2>1. <<r, p>> \in e.links <=> \/ <<r, p>> \in d.links
                                   \/ r \in {"EDITOR"} /\ r \in d.roles /\ p \in ps /\ p \in d.permissions
      BY <1>1 DEF Granted
    <2> QED
      BY <2>1
  <1>5. e.links \ ({"EDITOR"} \X ps) = d.links
    <2>1. ASSUME NEW l \in e.links, l \notin {"EDITOR"} \X ps PROVE l \in d.links
      <3>1. l = <<l[1], l[2]>>
        BY <1>2, Rows
      <3>2. ~(l[1] = "EDITOR" /\ l[2] \in ps)
        BY <2>1, <3>1
      <3> QED
        BY <1>4, <3>1, <3>2
    <2>2. ASSUME NEW l \in d.links PROVE l \in e.links /\ l \notin {"EDITOR"} \X ps
      <3>1. l = <<l[1], l[2]>>
        BY <1>1, Rows
      <3>2. l \in e.links /\ ~(l[1] = "EDITOR" /\ l[2] \in ps)
        BY <1>4, <3>1
      <3> QED
        BY <3>1, <3>2
    <2> QED
      BY <2>1, <2>2
  <1> QED
    BY <1>3, <1>5 DEF Tables, Unlinked

LEMMA EditorWritesReverts ==
    ASSUME NEW d, AtLevel(6, d), NEW e, e = Grant(d, {"EDITOR"}, EditorWrites)
    PROVE  Reverts(7, Tables(e), Tables(d))
  <1>1. ASSUME NEW p \in EditorWrites PROVE <<"EDITOR", p>> \notin d.links
    <2>1. PICK v \in {"WRITE", "APPROVE"} : p = <<"WORKFLOWS", v>>
      BY DEF EditorWrites, Of
    <2>2. Tracked("WORKFLOWS", v) /\ ~Has(6, "EDITOR", "WORKFLOWS", v)
      BY Pairs DEF Tracked, Has
    <2>3. "EDITOR" \in Lasting /\ "WORKFLOWS" \in Labels /\ v \in Verbs
      BY DEF Lasting, Labels, Verbs
    <2>4. <<"EDITOR", <<"WORKFLOWS", v>>>> \in d.links <=> Has(6, "EDITOR", "WORKFLOWS", v)
      BY <2>2, <2>3 DEF AtLevel, LinksAt
    <2> QED
      BY <2>1, <2>2, <2>4
  <1> QED
    BY <1>1, GrantReverts DEF Reverts

LEMMA UsersReadReverts ==
    ASSUME NEW d, AtLevel(10, d), NEW e, e = Grant(d, {"EDITOR"}, UsersRead)
    PROVE  Reverts(11, Tables(e), Tables(d))
  <1>1. ASSUME NEW p \in UsersRead PROVE <<"EDITOR", p>> \notin d.links
    <2>1. p = <<"USERS", "READ">>
      BY DEF UsersRead, Of, Read
    <2>2. Tracked("USERS", "READ") /\ ~Has(10, "EDITOR", "USERS", "READ")
      BY Pairs DEF Tracked, Has
    <2>3. "EDITOR" \in Lasting /\ "USERS" \in Labels /\ "READ" \in Verbs
      BY DEF Lasting, Labels, Verbs
    <2>4. <<"EDITOR", <<"USERS", "READ">>>> \in d.links <=> Has(10, "EDITOR", "USERS", "READ")
      BY <2>2, <2>3 DEF AtLevel, LinksAt
    <2> QED
      BY <2>1, <2>2, <2>4
  <1> QED
    BY <1>1, GrantReverts DEF Reverts

LEMMA CleanupReverts ==
    ASSUME NEW d, AtLevel(7, d), NEW e,
           e = DeletePermissions(BackedUp(d, Unused(d)), Unused(d))
    PROVE  RevertsCleanup(Tables(e), Tables(d), e.backup)
  <1> DEFINE d1 == BackedUp(d, Unused(d))
  <1>a. e = DeletePermissions(d1, Unused(d))
    OBVIOUS
  <1> HIDE DEF d1
  <1>0. /\ Sound(d) /\ d.ok /\ d.backup = {} /\ Vanishing \subseteq d.permissions
        /\ "AUDITOR" \notin d.roles
    BY DEF AtLevel, BackupsAt, PermissionsAt, RolesAt, Vanishing
  <1>1. OtherThanBackup(d, d1) /\ d1.backup = d.backup \cup LinksOf(d, Unused(d))
    BY <1>0, BackedUpIs DEF d1
  <1>2. Unused(d) = Vanishing
    BY UnusedAt
  <1>3. PermissionsDeleted(d1, Vanishing, e)
    BY <1>a, <1>1, <1>2, DeletePermissionsIs DEF OtherThanBackup
  <1>4. /\ e.labels = d.labels /\ e.roles = d.roles /\ e.held = d.held
        /\ e.permissions = d.permissions \ Vanishing
        /\ e.links = {l \in d.links : l[2] \notin Vanishing}
        /\ e.backup = LinksOf(d, Vanishing)
    BY <1>0, <1>1, <1>2, <1>3 DEF OtherThanBackup, PermissionsDeleted, SameBackups
  <1>5. \A l \in e.backup : l[1] \in e.roles /\ l[1] # "AUDITOR" /\ l[2] \in Vanishing
    BY <1>0, <1>4, Rows DEF LinksOf
  <1>6. e.links \cup e.backup = d.links /\ e.permissions \cup Vanishing = d.permissions
    BY <1>0, <1>4 DEF LinksOf
  <1> QED
    BY <1>4, <1>5, <1>6 DEF RevertsCleanup, Tables

LEMMA AddAuditorReverts ==
    ASSUME NEW d, AtLevel(8, d), NEW e,
           e = DeleteLinks(Grant(InsertRoles(d, {"AUDITOR"}), {"AUDITOR"}, AuditRead),
                           {"VIEWER"}, AuditRead)
    PROVE  Reverts(9, Tables(e), Tables(d)) /\ e.backup = d.backup
  <1> DEFINE d1 == InsertRoles(d, {"AUDITOR"})
             d2 == Grant(d1, {"AUDITOR"}, AuditRead)
  <1>a. e = DeleteLinks(d2, {"VIEWER"}, AuditRead)
    OBVIOUS
  <1>b. AtLevel(9, e)
    BY AddAuditorUpStep
  <1> HIDE DEF d1, d2
  <1>0. Sound(d) /\ d.ok /\ Sound(e) /\ e.ok /\ "AUDITOR" \notin d.roles /\ "VIEWER" \in d.roles
    BY <1>b DEF AtLevel, RolesAt
  <1>1. RolesInserted(d, {"AUDITOR"}, d1)
    <2>1. {"AUDITOR"} \in SUBSET Role
      BY DEF Role, SystemRoles
    <2> QED
      BY <1>0, <2>1, InsertRolesIs DEF d1
  <1>2. Granted(d1, {"AUDITOR"}, AuditRead, d2)
    BY <1>1, GrantIs DEF RolesInserted, d2
  <1>3. LinksDeleted(d2, {"VIEWER"}, AuditRead, e)
    BY <1>a, <1>2, DeleteLinksIs DEF Granted
  <1>4. /\ e.labels = d.labels /\ e.roles = d.roles \cup {"AUDITOR"} /\ e.held = d.held
        /\ e.permissions = d.permissions /\ SameBackups(d, e)
    BY <1>1, <1>2, <1>3 DEF RolesInserted, Granted, LinksDeleted, SameBackups
  <1>5. "AUDITOR" \notin e.held /\ e.roles \ {"AUDITOR"} = d.roles
    BY <1>0, <1>4 DEF Sound
  <1>6. ASSUME NEW r, NEW p, r # "AUDITOR"
        PROVE  <<r, p>> \in e.links <=> <<r, p>> \in d.links /\ ~(r = "VIEWER" /\ p \in AuditRead)
    <2>1. <<r, p>> \in d2.links <=> <<r, p>> \in d.links
      BY <1>1, <1>2, <1>6 DEF RolesInserted, Granted
    <2>2. <<r, p>> \in e.links <=> <<r, p>> \in d2.links /\ ~(r \in {"VIEWER"} /\ p \in AuditRead)
      BY <1>3 DEF LinksDeleted
    <2> QED
      BY <2>1, <2>2
  <1>7. \A p \in AuditRead : <<"VIEWER", p>> \in d.links
    <2>1. Tracked("AUDIT", "READ") /\ Has(8, "VIEWER", "AUDIT", "READ")
      BY Pairs DEF Tracked, Has, Catalogued
    <2>a. "VIEWER" \in Lasting /\ "AUDIT" \in Labels /\ "READ" \in Verbs
      BY DEF Lasting, Labels, Verbs
    <2>2. <<"VIEWER", <<"AUDIT", "READ">>>> \in d.links
      BY <2>1, <2>a DEF AtLevel, LinksAt
    <2> QED
      BY <2>2 DEF AuditRead, Of, Read
  <1>8. {l \in e.links \cup ({"VIEWER"} \X AuditRead) : l[1] # "AUDITOR"} = d.links
    <2>1. ASSUME NEW l \in e.links, l[1] # "AUDITOR" PROVE l \in d.links
      BY <1>0, <1>6, <2>1, Rows
    <2>2. ASSUME NEW l \in {"VIEWER"} \X AuditRead PROVE l \in d.links
      BY <1>7
    <2>3. ASSUME NEW l \in d.links
          PROVE  l[1] # "AUDITOR" /\ (l \in e.links \/ l \in {"VIEWER"} \X AuditRead)
      <3>1. l = <<l[1], l[2]>> /\ l[1] # "AUDITOR"
        BY <1>0, Rows
      <3>2. l \in e.links \/ (l[1] = "VIEWER" /\ l[2] \in AuditRead)
        BY <1>6, <3>1
      <3> QED
        BY <3>1, <3>2
    <2> QED
      BY <2>1, <2>2, <2>3
  <1> QED
    BY <1>4, <1>5, <1>8 DEF Reverts, Tables, WithoutAuditor, SameBackups

LEMMA InitialSchemaReverts ==
    ASSUME NEW d, d = Empty, NEW t
    PROVE  Reverts(1, t, Tables(d))
  BY DEF Reverts

LEMMA DeletePermissionsDowns ==
    ASSUME NEW n, NEW d, AtLevel(n, d), NEW ps, NEW e, e = DeletePermissions(d, ps)
    PROVE  e.ok /\ Tables(e) = Without(Tables(d), ps)
  <1>1. PermissionsDeleted(d, ps, e) /\ d.ok
    BY DeletePermissionsIs DEF AtLevel
  <1>2. /\ e.labels = d.labels /\ e.roles = d.roles /\ e.held = d.held /\ e.ok
        /\ e.permissions = d.permissions \ ps
        /\ e.links = {l \in d.links : l[2] \notin ps}
    BY <1>1 DEF PermissionsDeleted
  <1> QED
    BY <1>2 DEF Tables, Without

LEMMA DeleteLinksDowns ==
    ASSUME NEW n, NEW d, AtLevel(n, d), NEW rs, NEW ps, NEW e, e = DeleteLinks(d, rs, ps)
    PROVE  e.ok /\ Tables(e) = Unlinked(Tables(d), rs, ps)
  <1>1. LinksDeleted(d, rs, ps, e) /\ d.ok
    BY DeleteLinksIs DEF AtLevel
  <1>2. /\ e.labels = d.labels /\ e.roles = d.roles /\ e.held = d.held /\ e.ok
        /\ e.permissions = d.permissions
        /\ e.links = d.links \ (rs \X ps)
    BY <1>1 DEF LinksDeleted
  <1> QED
    BY <1>2 DEF Tables, Unlinked

LEMMA CleanupDowns ==
    ASSUME NEW d, AtLevel(8, d), NEW u, RevertsCleanup(Tables(d), u, d.backup), NEW e,
           e = BackupDropped(Restore(InsertPermissions(d, Vanishing), d.backup))
    PROVE  e.ok /\ Tables(e) = u
  <1> DEFINE d1 == InsertPermissions(d, Vanishing)
             d2 == Restore(d1, d.backup)
  <1>a. e = BackupDropped(d2)
    OBVIOUS
  <1> HIDE DEF d1, d2
  <1>0. Sound(d) /\ d.ok /\ d.backup \in SUBSET Backup
    BY DEF AtLevel, Sound, Database
  <1>1. PermissionsInserted(d, Vanishing, d1)
    BY <1>0, InsertPermissionsIs, PermissionSets DEF d1, Vanishing
  <1>2. Restored(d1, d.backup, d2)
    BY <1>0, <1>1, RestoreIs DEF PermissionsInserted, d2
  <1>3. \A l \in d.backup : l[1] \in d.roles /\ l[2] \in Vanishing
    BY DEF RevertsCleanup, Tables
  <1>4. /\ u = <<d.labels, d.permissions \cup Vanishing, d.roles, d.links \cup d.backup, d.held>>
    BY DEF RevertsCleanup, Tables
  <1>5. Modules(Vanishing) \subseteq d.labels
    <2>1. {"DOCUMENTS", "ORGS"} \subseteq d.labels
      BY DEF AtLevel, LabelsAt
    <2>2. ASSUME NEW p \in Vanishing PROVE p[1] \in {"DOCUMENTS", "ORGS"}
      BY <2>2 DEF Vanishing, Documents, OrgsManage, Of
    <2> QED
      BY <2>1, <2>2 DEF Modules
  <1>6. /\ d1.ok /\ d1.labels = d.labels /\ d1.roles = d.roles /\ d1.held = d.held
        /\ d1.links = d.links /\ d1.permissions = d.permissions \cup Vanishing
    BY <1>0, <1>1, <1>5 DEF PermissionsInserted
  <1>7. /\ d2.labels = d.labels /\ d2.roles = d.roles /\ d2.held = d.held
        /\ d2.permissions = d.permissions \cup Vanishing
        /\ d2.links = d.links \cup {l \in d.backup : l[2] \in d1.permissions}
    BY <1>2, <1>6 DEF Restored
  <1>8. d2.ok
    BY <1>2, <1>3, <1>6 DEF Restored
  <1>9. {l \in d.backup : l[2] \in d1.permissions} = d.backup
    BY <1>3, <1>6
  <1>10. OtherThanBackup(d2, e)
    BY <1>a, <1>2, <1>8, BackupDroppedIs DEF Restored
  <1> QED
    BY <1>4, <1>7, <1>8, <1>9, <1>10 DEF OtherThanBackup, Tables

LEMMA AddAuditorDowns ==
    ASSUME NEW d, AtLevel(9, d), NEW u, Reverts(9, Tables(d), u), NEW e,
           e = DeleteRoles(Grant(d, {"VIEWER"}, AuditRead), {"AUDITOR"})
    PROVE  /\ e.ok /\ Tables(e) = u
           /\ (\A l \in d.backup : l[1] # "AUDITOR") => e.backup = d.backup
  <1> DEFINE d1 == Grant(d, {"VIEWER"}, AuditRead)
  <1>a. e = DeleteRoles(d1, {"AUDITOR"})
    OBVIOUS
  <1> HIDE DEF d1
  <1>0. Sound(d) /\ d.ok /\ d.backup \in SUBSET Backup
    BY DEF AtLevel, Sound, Database
  <1>1. Granted(d, {"VIEWER"}, AuditRead, d1)
    BY <1>0, GrantIs DEF d1
  <1>2. RolesDeleted(d1, {"AUDITOR"}, e)
    BY <1>a, <1>1, DeleteRolesIs DEF Granted
  <1>3. u = WithoutAuditor(Tables(d)) /\ "AUDITOR" \notin d.held
    BY DEF Reverts, Tables
  <1>4. u = <<d.labels, d.permissions, d.roles \ {"AUDITOR"},
              {l \in d.links \cup ({"VIEWER"} \X AuditRead) : l[1] # "AUDITOR"}, d.held>>
    BY <1>3 DEF WithoutAuditor, Tables
  <1>5. /\ d1.ok /\ d1.labels = d.labels /\ d1.permissions = d.permissions
        /\ d1.roles = d.roles /\ d1.held = d.held /\ d1.backup = d.backup
    BY <1>0, <1>1 DEF Granted, SameBackups
  <1>6. d1.links = d.links \cup ({"VIEWER"} \X AuditRead)
    <2>1. "VIEWER" \in d.roles
      BY DEF AtLevel, RolesAt
    <2>2. AuditRead \subseteq d.permissions
      <3>1. Tracked("AUDIT", "READ") /\ Catalogued(9, "AUDIT", "READ")
        BY Pairs DEF Tracked, Catalogued
      <3>2. <<"AUDIT", "READ">> \in d.permissions
        BY <3>1 DEF AtLevel, PermissionsAt, Labels, Verbs
      <3> QED
        BY <3>2 DEF AuditRead, Of, Read
    <2>3. d1.links = d.links \cup (({"VIEWER"} \cap d.roles) \X (AuditRead \cap d.permissions))
      BY <1>0 DEF d1, Grant, Sound, Database
    <2>4. {"VIEWER"} \cap d.roles = {"VIEWER"} /\ AuditRead \cap d.permissions = AuditRead
      BY <2>1, <2>2
    <2> QED
      BY <2>3, <2>4
  <1>7. /\ e.labels = d.labels /\ e.permissions = d.permissions /\ e.held = d.held
        /\ e.roles = d.roles \ {"AUDITOR"}
        /\ e.links = {l \in d1.links : l[1] \notin {"AUDITOR"}}
        /\ e.backup = Lost({"AUDITOR"}, d.backup)
    BY <1>2, <1>5 DEF RolesDeleted
  <1>8. e.ok
    BY <1>2, <1>3, <1>5 DEF RolesDeleted
  <1>9. ASSUME \A l \in d.backup : l[1] # "AUDITOR" PROVE e.backup = d.backup
    <2>1. \A l \in d.backup : l[1] \notin {"AUDITOR"}
      BY <1>9
    <2>2. Lost({"AUDITOR"}, d.backup) = d.backup
      BY <1>0, <2>1, LostIs
    <2> QED
      BY <1>7, <2>2
  <1>10. e.links = {l \in d.links \cup ({"VIEWER"} \X AuditRead) : l[1] # "AUDITOR"}
    BY <1>6, <1>7
  <1> QED
    BY <1>4, <1>7, <1>8, <1>9, <1>10 DEF Tables

\* Of the migrations applied since a write, each element of b holds the
\* tables before one of the last of the k migrations.
StackedIn(b, k, d) ==
    \A i \in 1..Len(b) :
        LET n == k - Len(b) + i
            t == IF i = Len(b) THEN Tables(d) ELSE b[i + 1]
        IN  /\ Reverts(n, t, b[i])
            /\ n = 8 /\ k <= 9 => RevertsCleanup(t, b[i], d.backup)

Stacked == StackedIn(before, applied, db)

LEMMA Pushed ==
    ASSUME NEW b \in Seq(Snapshot), NEW k \in 0..12, Len(b) <= k, NEW d, NEW e,
           StackedIn(b, k, d), Tables(d) \in Snapshot,
           Reverts(k + 1, Tables(e), Tables(d)),
           k = 7 => RevertsCleanup(Tables(e), Tables(d), e.backup),
           k = 8 => e.backup = d.backup
    PROVE  StackedIn(Append(b, Tables(d)), k + 1, e)
  <1> DEFINE c == Append(b, Tables(d))
  <1>1. /\ Len(c) = Len(b) + 1 /\ c[Len(b) + 1] = Tables(d)
        /\ \A i \in 1..Len(b) : c[i] = b[i]
    OBVIOUS
  <1> HIDE DEF c
  <1>2. ASSUME NEW i \in 1..Len(c), NEW n, n = (k + 1) - Len(c) + i,
               NEW t, t = IF i = Len(c) THEN Tables(e) ELSE c[i + 1]
        PROVE  /\ Reverts(n, t, c[i])
               /\ n = 8 /\ k + 1 <= 9 => RevertsCleanup(t, c[i], e.backup)
    <2>1. CASE i = Len(b) + 1
      <3>1. n = k + 1 /\ t = Tables(e) /\ c[i] = Tables(d)
        BY <1>1, <1>2, <2>1
      <3> QED
        BY <3>1
    <2>2. CASE i \in 1..Len(b)
      <3>1. n = k - Len(b) + i /\ n <= k /\ c[i] = b[i]
        BY <1>1, <1>2, <2>2
      <3>2. t = IF i = Len(b) THEN Tables(d) ELSE b[i + 1]
        BY <1>1, <1>2, <2>2
      <3>3. Reverts(n, t, c[i]) /\ (n = 8 /\ k <= 9 => RevertsCleanup(t, c[i], d.backup))
        BY <2>2, <3>1, <3>2 DEF StackedIn
      <3>4. n = 8 /\ k + 1 <= 9 => k = 8
        BY <3>1
      <3> QED
        BY <3>3, <3>4
    <2> QED
      BY <1>1, <2>1, <2>2
  <1>3. StackedIn(c, k + 1, e)
    BY <1>2 DEF StackedIn
  <1> QED
    BY <1>3 DEF c

LEMMA Popped ==
    ASSUME NEW b \in Seq(Snapshot), b # <<>>, NEW k \in 1..13, Len(b) <= k, k # 10,
           NEW d, NEW e, StackedIn(b, k, d), Tables(e) = b[Len(b)],
           k = 9 /\ Len(b) >= 2 => e.backup = d.backup
    PROVE  StackedIn(Front(b), k - 1, e)
  <1> DEFINE c == Front(b)
  <1>1. Len(b) \in Nat \ {0} /\ Len(c) = Len(b) - 1 /\ \A i \in 1..Len(c) : c[i] = b[i]
    <2>1. Len(b) \in Nat \ {0}
      OBVIOUS
    <2>2. c = SubSeq(b, 1, Len(b) - 1)
      BY DEF Front
    <2> HIDE DEF c
    <2>3. Len(c) = Len(b) - 1
      <3> DEFINE n == Len(b) - 1
      <3>1. n \in Nat /\ c = SubSeq(b, 1, n)
        BY <2>1, <2>2
      <3> HIDE DEF n
      <3>2. Len(SubSeq(b, 1, n)) = n
        BY <3>1
      <3> QED
        BY <3>1, <3>2 DEF n
    <2>4. \A i \in 1..(Len(b) - 1) : c[i] = b[i]
      BY <2>1, <2>2
    <2> QED
      BY <2>1, <2>3, <2>4
  <1> HIDE DEF c
  <1>2. ASSUME NEW i \in 1..Len(c), NEW n, n = (k - 1) - Len(c) + i,
               NEW t, t = IF i = Len(c) THEN Tables(e) ELSE c[i + 1]
        PROVE  /\ Reverts(n, t, c[i])
               /\ n = 8 /\ k - 1 <= 9 => RevertsCleanup(t, c[i], e.backup)
    <2>0. i \in 1..(Len(b) - 1) /\ Len(c) = Len(b) - 1 /\ c[i] = b[i]
      BY <1>1, <1>2
    <2>a. n = (k - 1) - (Len(b) - 1) + i
      BY <1>2, <2>0
    <2>1. /\ n = k - Len(b) + i /\ n <= k - 1 /\ c[i] = b[i] /\ i \in 1..Len(b)
          /\ i # Len(b) /\ Len(b) >= 2
      <3> DEFINE m == Len(b)
      <3>1. m \in Nat /\ i \in 1..(m - 1) /\ n = (k - 1) - (m - 1) + i
        BY <1>1, <2>0, <2>a
      <3> HIDE DEF m
      <3>2. n = k - m + i /\ n <= k - 1 /\ i \in 1..m /\ i # m /\ m >= 2
        BY <3>1
      <3> QED
        BY <2>0, <3>2 DEF m
    <2>2. t = b[i + 1]
      <3>1. CASE i = Len(c)
        <4>1. i + 1 = Len(b)
          BY <1>1, <2>0, <3>1
        <4> QED
          BY <1>2, <3>1, <4>1
      <3>2. CASE i # Len(c)
        <4>1. i + 1 \in 1..Len(c)
          BY <1>1, <2>0, <3>2
        <4> QED
          BY <1>1, <1>2, <3>2, <4>1
      <3> QED
        BY <3>1, <3>2
    <2>3. Reverts(n, t, c[i]) /\ (n = 8 /\ k <= 9 => RevertsCleanup(t, c[i], d.backup))
      BY <2>1, <2>2 DEF StackedIn
    <2>4. n = 8 /\ k - 1 <= 9 => k = 9
      BY <2>1
    <2> QED
      BY <2>1, <2>3, <2>4
  <1>3. StackedIn(c, k - 1, e)
    BY <1>2 DEF StackedIn
  <1> QED
    BY <1>3 DEF c

LEMMA Top ==
    ASSUME Leveled, Stacked, before # <<>>
    PROVE  /\ Last(before) = before[Len(before)]
           /\ Reverts(applied, Tables(db), Last(before))
           /\ applied = 8 => RevertsCleanup(Tables(db), Last(before), db.backup)
           /\ applied = 9 /\ Len(before) >= 2 => \A l \in db.backup : l[1] # "AUDITOR"
  <1>1. Len(before) \in Nat \ {0} /\ applied \in 0..13
    BY DEF Leveled
  <1>2. Last(before) = before[Len(before)]
    BY DEF Last
  <1>3. /\ Reverts(applied, Tables(db), before[Len(before)])
        /\ applied = 8 => RevertsCleanup(Tables(db), before[Len(before)], db.backup)
    <2>1. applied - Len(before) + Len(before) = applied /\ Len(before) \in 1..Len(before)
      BY <1>1
    <2> QED
      BY <1>1, <2>1 DEF Stacked, StackedIn
  <1>4. ASSUME applied = 9, Len(before) >= 2 PROVE \A l \in db.backup : l[1] # "AUDITOR"
    <2> DEFINE i == Len(before) - 1
    <2>1. i \in 1..Len(before) /\ i # Len(before) /\ applied - Len(before) + i = 8
      BY <1>1, <1>4
    <2>2. RevertsCleanup(before[i + 1], before[i], db.backup)
      BY <1>4, <2>1 DEF Stacked, StackedIn
    <2> QED
      BY <2>2 DEF RevertsCleanup
  <1> QED
    BY <1>2, <1>3, <1>4

\* What RevertRestores says of a step.
Restores ==
    \A m \in Safe : Latest(m) /\ before # <<>> =>
        /\ applied' < applied => Tables(db') = Last(before)
        /\ thrown' # <<"down", m>>

LEMMA OtherErrors ==
    ASSUME NEW m \in Safe, NEW x
    PROVE  None # <<"down", m>> /\ <<"up", x>> # <<"down", m>> /\ <<"write", x>> # <<"down", m>>
  <1>1. <<"down", m>> \in {"down"} \X Safe
    OBVIOUS
  <1>2. None # <<"down", m>>
    BY <1>1, RoleMigrationsAssumption
  <1> QED
    BY <1>2

LEMMA UpStacks ==
    ASSUME Leveled, Stacked, NEW m, NEW after, Up(m, after), NEW k \in 0..12,
           Migrations[k + 1] = m,
           AtLevel(k, db) => /\ Reverts(k + 1, Tables(after), Tables(db))
                             /\ k = 7 => RevertsCleanup(Tables(after), Tables(db), after.backup)
                             /\ k = 8 => after.backup = db.backup
    PROVE  Stacked' /\ Restores
  <1>1. applied = k /\ AtLevel(k, db) /\ before \in Seq(Snapshot) /\ Len(before) <= k
    <2>1. applied + 1 \in 1..13 /\ Migrations[applied + 1] = m
      BY Names DEF Up, Pending, Leveled
    <2>2. applied + 1 = k + 1
      BY <2>1, Distinct
    <2> QED
      BY <2>2 DEF Leveled
  <1>2. CASE after.ok
    <2>1. /\ db' = after /\ applied' = k + 1 /\ before' = Append(before, Tables(db))
          /\ thrown' = None
      BY <1>1, <1>2 DEF Up
    <2>2. StackedIn(Append(before, Tables(db)), k + 1, after)
      BY <1>1, TablesTyped, Pushed DEF Stacked
    <2> QED
      BY <1>1, <2>1, <2>2, OtherErrors DEF Stacked, Restores
  <1>3. CASE ~after.ok
    <2>1. UNCHANGED <<db, applied, before>> /\ thrown' = <<"up", m>>
      BY <1>3 DEF Up
    <2> QED
      BY <1>1, <2>1, OtherErrors DEF Stacked, Restores
  <1> QED
    BY <1>2, <1>3

LEMMA DownStacks ==
    ASSUME Leveled, Stacked, NEW m, NEW after, Down(m, after), NEW k \in 1..13,
           Migrations[k] = m,
           \/ m \notin Safe
           \/ /\ \A u : /\ AtLevel(k, db) /\ Reverts(k, Tables(db), u)
                        /\ k = 8 => RevertsCleanup(Tables(db), u, db.backup)
                        => after.ok /\ Tables(after) = u
              /\ \A u : /\ AtLevel(k, db) /\ Reverts(k, Tables(db), u)
                        /\ k = 9 /\ \A l \in db.backup : l[1] # "AUDITOR"
                        => after.backup = db.backup
    PROVE  Stacked' /\ Restores
  <1>1. applied = k /\ AtLevel(k, db) /\ before \in Seq(Snapshot) /\ Len(before) <= k
    <2>1. applied \in 1..13 /\ Migrations[applied] = m
      BY DEF Down, Latest, Leveled
    <2>2. applied = k
      BY <2>1, Distinct
    <2> QED
      BY <2>2 DEF Leveled
  <1>2. CASE m \in Safe /\ before # <<>>
    <2>0. k # 10
      BY <1>2, Names DEF Safe
    <2>1. after.ok /\ Tables(after) = Last(before)
      BY <1>1, <1>2, Top
    <2>2. k = 9 /\ Len(before) >= 2 => after.backup = db.backup
      BY <1>1, <1>2, Top
    <2>3. /\ db' = after /\ applied' = k - 1 /\ before' = Front(before) /\ thrown' = None
      BY <1>1, <1>2, <2>1 DEF Down
    <2>4. Tables(after) = before[Len(before)]
      BY <1>2, <2>1, Top
    <2>5. StackedIn(Front(before), k - 1, after)
      BY <1>1, <1>2, <2>0, <2>2, <2>4, Popped DEF Stacked
    <2> QED
      BY <2>1, <2>3, <2>5, OtherErrors DEF Stacked, Restores
  <1>3. CASE ~(m \in Safe /\ before # <<>>)
    <2>1. Restores
      <3> SUFFICES ASSUME NEW s \in Safe, Latest(s), before # <<>> PROVE FALSE
        BY DEF Restores
      <3>1. s = m
        BY <1>1 DEF Latest
      <3> QED
        BY <1>3, <3>1
    <2>2. CASE after.ok
      <3>1. before' = <<>>
        BY <1>3, <2>2 DEF Down
      <3> QED
        BY <2>1, <3>1 DEF Stacked, StackedIn
    <2>3. CASE ~after.ok
      BY <2>1, <2>3 DEF Down, Stacked
    <2> QED
      BY <2>2, <2>3
  <1> QED
    BY <1>2, <1>3

LEMMA WriteStacks ==
    ASSUME Leveled, Stacked, NEW after, Write(after)
    PROVE  Stacked' /\ Restores
  <1>1. CASE after.ok
    <2>1. /\ db' = after /\ thrown' = None /\ applied' = applied
          /\ before' = IF after = db THEN before ELSE <<>>
      BY <1>1 DEF Write
    <2>2. Stacked'
      BY <2>1 DEF Stacked, StackedIn
    <2>3. ~(applied' < applied)
      BY <2>1 DEF Leveled
    <2> QED
      BY <2>1, <2>2, <2>3, OtherErrors DEF Restores
  <1>2. CASE ~after.ok
    <2>1. UNCHANGED <<db, before, applied>> /\ thrown' = <<"write", None>>
      BY <1>2 DEF Write
    <2>2. ~(applied' < applied)
      BY <2>1 DEF Leveled
    <2> QED
      BY <2>1, <2>2, OtherErrors DEF Stacked, Restores
  <1> QED
    BY <1>1, <1>2

LEMMA Unconstrained ==
    ASSUME NEW n \in {2, 3, 4, 8, 10, 12, 13}, NEW t, NEW u
    PROVE  Reverts(n, t, u)
  BY DEF Reverts

LEMMA UpsStack ==
    ASSUME Leveled, Stacked,
           \/ InitialSchemaUp
           \/ SeedUp
           \/ DeleteSuperAdminUp
           \/ AddOrgStructureEnumValueUp
           \/ SeedOrgStructureUp
           \/ AddWorkflowsManageUp
           \/ AddWorkflowWriteApproveToEditorUp
           \/ CleanupUp
           \/ AddAuditorUp
           \/ RemoveSuperAdminUp
           \/ AddUsersReadToEditorUp
           \/ RenameOrgsToRolesUp
           \/ RemoveDocumentsUp
    PROVE  Stacked' /\ Restores
  <1>1. CASE InitialSchemaUp
    <2> DEFINE after == [db EXCEPT !.labels =
                           {"DOCUMENTS", "WORKFLOWS", "USERS", "ORGS", "AUDIT", "PLATFORM"}]
    <2>1. Up("InitialSchema", after)
      BY <1>1 DEF InitialSchemaUp
    <2>2. ASSUME AtLevel(0, db) PROVE Reverts(1, Tables(after), Tables(db))
      <3>1. db = Empty
        BY <2>2 DEF AtLevel
      <3> QED
        BY <3>1 DEF Reverts
    <2> HIDE DEF after
    <2> QED
      BY <2>1, <2>2, Names, UpStacks
  <1>2. CASE SeedUp
    <2>1. PICK after : Up("SeedPermissionsAndSystemRoles", after)
      BY <1>2 DEF SeedUp
    <2> QED
      BY <2>1, Names, Unconstrained, UpStacks
  <1>3. CASE DeleteSuperAdminUp
    <2>1. PICK after : Up("DeleteSuperAdminRole", after)
      BY <1>3 DEF DeleteSuperAdminUp
    <2> QED
      BY <2>1, Names, Unconstrained, UpStacks
  <1>4. CASE AddOrgStructureEnumValueUp
    <2>1. PICK after : Up("AddOrgStructureEnumValue", after)
      BY <1>4 DEF AddOrgStructureEnumValueUp
    <2> QED
      BY <2>1, Names, Unconstrained, UpStacks
  <1>5. CASE SeedOrgStructureUp
    <2> DEFINE after == Grant(Grant(InsertPermissions(db, OrgStructure),
                                 {"SUPER_ADMIN", "ADMIN", "MANAGER"}, OrgStructure),
                           {"EDITOR", "VIEWER"}, Of("ORG_STRUCTURE", Read))
    <2>1. Up("SeedOrgStructurePermissions", after)
      BY <1>5 DEF SeedOrgStructureUp
    <2>2. ASSUME AtLevel(4, db) PROVE Reverts(5, Tables(after), Tables(db))
      BY <2>2, SeedOrgStructureReverts
    <2> HIDE DEF after
    <2> QED
      BY <2>1, <2>2, Names, UpStacks
  <1>6. CASE AddWorkflowsManageUp
    <2> DEFINE after == Grant(InsertPermissions(db, WorkflowsManage), {"ADMIN", "MANAGER"},
                           WorkflowsManage)
    <2>1. Up("AddWorkflowsManagePermission", after)
      BY <1>6 DEF AddWorkflowsManageUp
    <2>2. ASSUME AtLevel(5, db) PROVE Reverts(6, Tables(after), Tables(db))
      BY <2>2, AddWorkflowsManageReverts
    <2> HIDE DEF after
    <2> QED
      BY <2>1, <2>2, Names, UpStacks
  <1>7. CASE AddWorkflowWriteApproveToEditorUp
    <2> DEFINE after == Grant(db, {"EDITOR"}, EditorWrites)
    <2>1. Up("AddWorkflowWriteApproveToEditor", after)
      BY <1>7 DEF AddWorkflowWriteApproveToEditorUp, EditorWrites
    <2>2. ASSUME AtLevel(6, db) PROVE Reverts(7, Tables(after), Tables(db))
      BY <2>2, EditorWritesReverts
    <2> HIDE DEF after
    <2> QED
      BY <2>1, <2>2, Names, UpStacks
  <1>8. CASE CleanupUp
    <2> DEFINE after == DeletePermissions(BackedUp(db, Unused(db)), Unused(db))
    <2>1. Up("CleanupUnusedPermissions", after)
      BY <1>8 DEF CleanupUp, BackedUp
    <2>2. ASSUME AtLevel(7, db)
          PROVE  /\ RevertsCleanup(Tables(after), Tables(db), after.backup)
                 /\ Reverts(8, Tables(after), Tables(db))
      BY <2>2, CleanupReverts, Unconstrained
    <2> HIDE DEF after
    <2> QED
      BY <2>1, <2>2, Names, UpStacks
  <1>9. CASE AddAuditorUp
    <2> DEFINE after == DeleteLinks(Grant(InsertRoles(db, {"AUDITOR"}), {"AUDITOR"}, AuditRead),
                                 {"VIEWER"}, AuditRead)
    <2>1. Up("AddAuditorRole", after)
      BY <1>9 DEF AddAuditorUp
    <2>2. ASSUME AtLevel(8, db)
          PROVE  Reverts(9, Tables(after), Tables(db)) /\ after.backup = db.backup
      BY <2>2, AddAuditorReverts
    <2> HIDE DEF after
    <2> QED
      BY <2>1, <2>2, Names, UpStacks
  <1>10. CASE RemoveSuperAdminUp
    <2>1. PICK after : Up("RemoveSuperAdminRole", after)
      BY <1>10 DEF RemoveSuperAdminUp
    <2> QED
      BY <2>1, Names, Unconstrained, UpStacks
  <1>11. CASE AddUsersReadToEditorUp
    <2> DEFINE after == Grant(db, {"EDITOR"}, UsersRead)
    <2>1. Up("AddUsersReadToEditor", after)
      BY <1>11 DEF AddUsersReadToEditorUp, UsersRead
    <2>2. ASSUME AtLevel(10, db) PROVE Reverts(11, Tables(after), Tables(db))
      BY <2>2, UsersReadReverts
    <2> HIDE DEF after
    <2> QED
      BY <2>1, <2>2, Names, UpStacks
  <1>12. CASE RenameOrgsToRolesUp
    <2>1. PICK after : Up("RenameOrgsPermissionToRoles", after)
      BY <1>12 DEF RenameOrgsToRolesUp
    <2> QED
      BY <2>1, Names, Unconstrained, UpStacks
  <1>13. CASE RemoveDocumentsUp
    <2>1. PICK after : Up("RemoveDocumentsPermissionsForGood", after)
      BY <1>13 DEF RemoveDocumentsUp
    <2> QED
      BY <2>1, Names, Unconstrained, UpStacks
  <1> QED
    BY <1>1, <1>2, <1>3, <1>4, <1>5, <1>6, <1>7, <1>8, <1>9, <1>10, <1>11, <1>12, <1>13

LEMMA DownsStack ==
    ASSUME Leveled, Stacked,
           \/ InitialSchemaDown
           \/ SeedDown
           \/ DeleteSuperAdminDown
           \/ AddOrgStructureEnumValueDown
           \/ SeedOrgStructureDown
           \/ AddWorkflowsManageDown
           \/ AddWorkflowWriteApproveToEditorDown
           \/ CleanupDown
           \/ AddAuditorDown
           \/ RemoveSuperAdminDown
           \/ AddUsersReadToEditorDown
           \/ RenameOrgsToRolesDown
           \/ RemoveDocumentsDown
    PROVE  Stacked' /\ Restores
  <1>1. CASE InitialSchemaDown
    <2> DEFINE after == Empty
    <2>1. Down("InitialSchema", after)
      BY <1>1 DEF InitialSchemaDown
    <2>2. ASSUME NEW u, Reverts(1, Tables(db), u) PROVE after.ok /\ Tables(after) = u
      BY <2>2 DEF Reverts, Empty
    <2> HIDE DEF after
    <2> QED
      BY <2>1, <2>2, Names, DownStacks
  <1>2. CASE SeedDown
    <2>1. PICK after : Down("SeedPermissionsAndSystemRoles", after)
      BY <1>2 DEF SeedDown
    <2>2. "SeedPermissionsAndSystemRoles" \notin Safe
      BY DEF Safe
    <2> QED
      BY <2>1, <2>2, Names, DownStacks
  <1>3. CASE DeleteSuperAdminDown
    <2>1. PICK after : Down("DeleteSuperAdminRole", after)
      BY <1>3 DEF DeleteSuperAdminDown
    <2>2. "DeleteSuperAdminRole" \notin Safe
      BY DEF Safe
    <2> QED
      BY <2>1, <2>2, Names, DownStacks
  <1>4. CASE AddOrgStructureEnumValueDown
    <2>1. PICK after : Down("AddOrgStructureEnumValue", after)
      BY <1>4 DEF AddOrgStructureEnumValueDown
    <2>2. "AddOrgStructureEnumValue" \notin Safe
      BY DEF Safe
    <2> QED
      BY <2>1, <2>2, Names, DownStacks
  <1>5. CASE SeedOrgStructureDown
    <2> DEFINE after == DeletePermissions(db, OrgStructure)
    <2>1. Down("SeedOrgStructurePermissions", after)
      BY <1>5 DEF SeedOrgStructureDown
    <2>2. ASSUME NEW u, AtLevel(5, db), Reverts(5, Tables(db), u)
          PROVE  after.ok /\ Tables(after) = u
      BY <2>2, DeletePermissionsDowns DEF Reverts
    <2> HIDE DEF after
    <2> QED
      BY <2>1, <2>2, Names, DownStacks
  <1>6. CASE AddWorkflowsManageDown
    <2> DEFINE after == DeletePermissions(db, WorkflowsManage)
    <2>1. Down("AddWorkflowsManagePermission", after)
      BY <1>6 DEF AddWorkflowsManageDown
    <2>2. ASSUME NEW u, AtLevel(6, db), Reverts(6, Tables(db), u)
          PROVE  after.ok /\ Tables(after) = u
      BY <2>2, DeletePermissionsDowns DEF Reverts
    <2> HIDE DEF after
    <2> QED
      BY <2>1, <2>2, Names, DownStacks
  <1>7. CASE AddWorkflowWriteApproveToEditorDown
    <2> DEFINE after == DeleteLinks(db, {"EDITOR"}, EditorWrites)
    <2>1. Down("AddWorkflowWriteApproveToEditor", after)
      BY <1>7 DEF AddWorkflowWriteApproveToEditorDown, EditorWrites
    <2>2. ASSUME NEW u, AtLevel(7, db), Reverts(7, Tables(db), u)
          PROVE  after.ok /\ Tables(after) = u
      BY <2>2, DeleteLinksDowns DEF Reverts
    <2> HIDE DEF after
    <2> QED
      BY <2>1, <2>2, Names, DownStacks
  <1>8. CASE CleanupDown
    <2> DEFINE after == BackupDropped(Restore(InsertPermissions(db, Vanishing), db.backup))
    <2>1. Down("CleanupUnusedPermissions", after)
      BY <1>8 DEF CleanupDown, BackupDropped, Vanishing
    <2>2. ASSUME NEW u, AtLevel(8, db), RevertsCleanup(Tables(db), u, db.backup)
          PROVE  after.ok /\ Tables(after) = u
      BY <2>2, CleanupDowns
    <2> HIDE DEF after
    <2> QED
      BY <2>1, <2>2, Names, DownStacks
  <1>9. CASE AddAuditorDown
    <2> DEFINE after == DeleteRoles(Grant(db, {"VIEWER"}, AuditRead), {"AUDITOR"})
    <2>1. Down("AddAuditorRole", after)
      BY <1>9 DEF AddAuditorDown
    <2>2. ASSUME NEW u, AtLevel(9, db), Reverts(9, Tables(db), u)
          PROVE  after.ok /\ Tables(after) = u
      BY <2>2, AddAuditorDowns
    <2>3. ASSUME NEW u, AtLevel(9, db), Reverts(9, Tables(db), u), \A l \in db.backup : l[1] # "AUDITOR"
          PROVE  after.backup = db.backup
      BY <2>3, AddAuditorDowns
    <2> HIDE DEF after
    <2> QED
      BY <2>1, <2>2, <2>3, Names, DownStacks
  <1>10. CASE RemoveSuperAdminDown
    <2>1. PICK after : Down("RemoveSuperAdminRole", after)
      BY <1>10 DEF RemoveSuperAdminDown
    <2>2. "RemoveSuperAdminRole" \notin Safe
      BY DEF Safe
    <2> QED
      BY <2>1, <2>2, Names, DownStacks
  <1>11. CASE AddUsersReadToEditorDown
    <2> DEFINE after == DeleteLinks(db, {"EDITOR"}, UsersRead)
    <2>1. Down("AddUsersReadToEditor", after)
      BY <1>11 DEF AddUsersReadToEditorDown, UsersRead
    <2>2. ASSUME NEW u, AtLevel(11, db), Reverts(11, Tables(db), u)
          PROVE  after.ok /\ Tables(after) = u
      BY <2>2, DeleteLinksDowns DEF Reverts
    <2> HIDE DEF after
    <2> QED
      BY <2>1, <2>2, Names, DownStacks
  <1>12. CASE RenameOrgsToRolesDown
    <2>1. PICK after : Down("RenameOrgsPermissionToRoles", after)
      BY <1>12 DEF RenameOrgsToRolesDown
    <2>2. "RenameOrgsPermissionToRoles" \notin Safe
      BY DEF Safe
    <2> QED
      BY <2>1, <2>2, Names, DownStacks
  <1>13. CASE RemoveDocumentsDown
    <2>1. PICK after : Down("RemoveDocumentsPermissionsForGood", after)
      BY <1>13 DEF RemoveDocumentsDown
    <2>2. "RemoveDocumentsPermissionsForGood" \notin Safe
      BY DEF Safe
    <2> QED
      BY <2>1, <2>2, Names, DownStacks
  <1> QED
    BY <1>1, <1>2, <1>3, <1>4, <1>5, <1>6, <1>7, <1>8, <1>9, <1>10, <1>11, <1>12, <1>13

LEMMA WritesStack ==
    ASSUME Leveled, Stacked,
           \/ Boot
           \/ BootOld
           \/ \E ps \in Chosen : SavePermissions(ps)
           \/ RemoveCustom
           \/ \E r \in SystemRoles \cup {Custom} : AssignRole(r) \/ UnassignRole(r)
    PROVE  Stacked' /\ Restores
  <1>1. PICK after : Write(after)
    BY DEF Boot, BootOld, SavePermissions, RemoveCustom, AssignRole, UnassignRole, Edit
  <1> QED
    BY <1>1, WriteStacks

LEMMA StackedInit == MigrationsInit => Stacked
  BY DEF MigrationsInit, Stacked, StackedIn

LEMMA StackedStep ==
    ASSUME Leveled, Stacked, [MigrationsNext]_migrationsVars
    PROVE  Stacked' /\ [Restores]_migrationsVars
  <1>1. CASE UNCHANGED migrationsVars
    BY <1>1 DEF migrationsVars, Stacked
  <1>2. CASE MigrationsNext
    BY <1>2, UpsStack, DownsStack, WritesStack DEF MigrationsNext
  <1> QED
    BY <1>1, <1>2

\* Nothing written since, a safe revert succeeds and leaves the tables as
\* they were before the migration: Stacked says of every migration on the
\* stack how its tables come from the ones that followed.
THEOREM RevertRestoresCorrect == MigrationsSpec => RevertRestores
  <1>1. Leveled /\ Stacked /\ [MigrationsNext]_migrationsVars => Stacked' /\ [Restores]_migrationsVars
    BY StackedStep
  <1>2. MigrationsSpec => [][Restores]_migrationsVars
    BY <1>1, StackedInit, MigrationsInvariant, PTL DEF MigrationsSpec
  <1> QED
    BY <1>2 DEF RevertRestores, Restores
=============================================================================
